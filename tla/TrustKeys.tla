------------------------------ MODULE TrustKeys ------------------------------
(***************************************************************************)
(* The statement keys of one tenant and the key sets that publish them     *)
(* (features/attesta/trust-inventory.ts): operators register, activate,    *)
(* replace, retire and revoke keys and publish the next key set, while the *)
(* builder signs and chains records and the anchor pass anchors them.      *)
(*                                                                         *)
(* A command reads, checks and writes in one transaction that locks only   *)
(* what it writes; a publish signs between its reads and the transaction   *)
(* that stores it.  revoked_at, which is set once and kept, validity times *)
(* and the platform's keys, which change by signed documents only, are     *)
(* left out.                                                               *)
(***************************************************************************)
EXTENDS Naturals, Sequences, FiniteSets

CONSTANTS
    StatementKeys,
    Operators,      \* commands that may run at a time
    LastSuspect,    \* compromised_since is one of 1..LastSuspect
    MaxCommands     \* bound: commands launched

ASSUME TrustAssumption == LastSuspect \in Nat /\ MaxCommands \in Nat

VARIABLES
    inventory,      \* attesta_tenant_keys: the standing of every key
    everActive,     \* keys with an `activate` row in attesta_key_events
    documents,      \* attesta_trust_documents: standings by key, by version
    command,        \* what each operator's command is doing
    launched,
    inFlight,       \* keys with a statement signed and not yet chained
    unanchored,     \* keys with a record chained and not yet anchored
    late,           \* history: keys with a record chained after the check of
                    \* the command that retires the key, or later
    inventoryThen   \* history: the inventory as each version was stored

ledgerVars == <<inFlight, unanchored, late>>
publishedVars == <<documents, inventoryThen>>
trustVars == <<inventory, everActive, publishedVars, command, launched, ledgerVars>>

Standing(status) == [status |-> status, since |-> 0]
Compromised(t) == [status |-> "compromised", since |-> t]
NoCommand == [at |-> "idle", changes |-> <<>>, seen |-> <<>>, gone |-> {}, ever |-> {}, version |-> 0]

TrustInit ==
    /\ inventory = [k \in StatementKeys |-> Standing("unknown")]
    /\ everActive = {} /\ documents = <<>> /\ inventoryThen = <<>>
    /\ command = [o \in Operators |-> NoCommand]
    /\ launched = 0
    /\ inFlight = {} /\ unanchored = {} /\ late = {}

Has(k, statuses) == inventory[k].status \in statuses
CommandIs(o, c) == command' = [command EXCEPT ![o] = c]
CommandEnds(o) == CommandIs(o, NoCommand)

\* A keyid is registered once, ever; a new key has never signed.
Register(k) ==
    /\ Has(k, {"unknown"})
    /\ inventory' = [inventory EXCEPT ![k] = Standing("registered")]
    /\ UNCHANGED <<everActive, publishedVars, command, launched, ledgerVars>>

----------------------------------------------------------------------------
(* activate, retire, revoke                                                *)

\* The changes a command makes, by key: none when it is refused.
Activation(k, replace) ==
    LET actives == {a \in StatementKeys : Has(a, {"active"})}
        changed == {k} \cup actives
    IN  IF Has(k, {"registered"}) /\ (replace \/ actives = {})
        THEN [c \in changed |-> IF c = k THEN Standing("active") ELSE Standing("retired")]
        ELSE <<>>

Retirement(k) == IF Has(k, {"active"}) THEN [c \in {k} |-> Standing("retired")] ELSE <<>>

\* A revoked key is revoked again only as compromised, or from earlier on.
Revocation(k, to) ==
    IF \/ Has(k, {"registered", "active", "retired"})
       \/ Has(k, {"superseded"}) /\ to.status = "compromised"
       \/ Has(k, {"compromised"}) /\ to.status = "compromised" /\ to.since < inventory[k].since
    THEN [c \in {k} |-> to] ELSE <<>>

ChangesOf(k) ==
    {Activation(k, replace) : replace \in BOOLEAN} \cup {Retirement(k)}
        \cup {Revocation(k, to) : to \in {Standing("superseded")} \cup {Compromised(t) : t \in 1..LastSuspect}}

\* The keys that a command takes out of use and whose records must verify.
StopSigning(changes) ==
    {k \in DOMAIN changes : Has(k, {"active"}) /\ changes[k].status # "compromised"}

Begins(o, c) ==
    /\ command[o].at = "idle" /\ launched < MaxCommands
    /\ launched' = launched + 1
    /\ CommandIs(o, c)

PlanChanges(o) ==
    \E k \in StatementKeys : \E changes \in ChangesOf(k) \ {<<>>} :
        /\ Begins(o, [NoCommand EXCEPT !.at = "planned", !.changes = changes, !.gone = StopSigning(changes),
                         !.seen = [c \in DOMAIN changes |-> inventory[c]]])
        /\ UNCHANGED <<inventory, everActive, publishedVars, ledgerVars>>

\* Mutant: a replaced key is retired whatever it has signed.
AnchoredIfAlone(o) == Cardinality(DOMAIN command[o].changes) > 1 \/ command[o].gone \cap unanchored = {}

\* requireAnchored
Anchored(o) == command[o].gone \cap unanchored = {}

RequireAnchored(o) ==
    /\ command[o].at = "planned"
    /\ IF Anchored(o) THEN CommandIs(o, [command[o] EXCEPT !.at = "checked"]) ELSE CommandEnds(o)
    /\ UNCHANGED <<inventory, everActive, publishedVars, launched, ledgerVars>>

\* attesta_tenant_keys_one_active_key
OneActive(o) ==
    LET after == [k \in StatementKeys |->
                     IF k \in DOMAIN command[o].changes THEN command[o].changes[k] ELSE inventory[k]]
    IN  Cardinality({k \in StatementKeys : after[k].status = "active"}) <= 1

\* The rows change only from what the plan saw, and one key may be active.
StillSeen(o) ==
    /\ \A k \in DOMAIN command[o].seen : inventory[k] = command[o].seen[k]
    /\ OneActive(o)

ApplyChanges(o) ==
    /\ command[o].at = "checked"
    /\ StillSeen(o)
    /\ LET changes == command[o].changes
       IN  /\ inventory' = [k \in StatementKeys |-> IF k \in DOMAIN changes THEN changes[k] ELSE inventory[k]]
           /\ everActive' = everActive \cup {k \in DOMAIN changes : changes[k].status = "active"}
    /\ CommandEnds(o)
    /\ UNCHANGED <<publishedVars, launched, ledgerVars>>

\* attesta_trust_keys_update_guard: what the database lets an update make of a
\* row. The actions do not ask it.
GuardRank(status) ==
    CASE status = "registered" -> 1 [] status = "active" -> 2
      [] status = "retired" -> 3 [] OTHER -> 4

GuardAllows(old, new) ==
    /\ GuardRank(old.status) <= GuardRank(new.status)
    /\ ~(old.status = "registered" /\ new.status = "retired")
    /\ old.status = "compromised" => new.status = "compromised" /\ new.since <= old.since

----------------------------------------------------------------------------
(* publish                                                                 *)

\* Mutant: only keys that may still sign or verify are listed.
PublishableUnrevoked(ever) == {k \in ever : ~Has(k, {"superseded", "compromised"})}

\* Every key that was ever active, whatever became of it.
Publishable(ever) == {k \in ever : ~Has(k, {"unknown", "registered"})}

Listed(ever) == [k \in Publishable(ever) |-> inventory[k]]

Rank(status) ==
    CASE status = "active" -> 1 [] status = "retired" -> 2
      [] status = "superseded" -> 3 [] OTHER -> 4

\* forwardOnlyViolation, the other way round
MovesForward(before, after) ==
    \A k \in DOMAIN before :
        /\ k \in DOMAIN after
        /\ Rank(before[k].status) <= Rank(after[k].status)
        /\ before[k].since # 0 => after[k].since <= before[k].since

PlanPublish(o) ==
    /\ Listed(everActive) # <<>>
    /\ Begins(o, [NoCommand EXCEPT !.at = "listed", !.changes = Listed(everActive)])
    /\ UNCHANGED <<inventory, everActive, publishedVars, ledgerVars>>

ReadDocuments(o) ==
    /\ command[o].at = "listed"
    /\ IF documents = <<>> \/ MovesForward(documents[Len(documents)], command[o].changes)
       THEN CommandIs(o, [command[o] EXCEPT !.at = "signing", !.version = Len(documents) + 1])
       ELSE CommandEnds(o)
    /\ UNCHANGED <<inventory, everActive, publishedVars, launched, ledgerVars>>

\* The key set is signed; the statement that locks the keys sees the events
\* that are there as it begins, and the rows as they are when it has them.
BeginStore(o) ==
    /\ command[o].at = "signing"
    /\ CommandIs(o, [command[o] EXCEPT !.at = "locking", !.ever = everActive])
    /\ UNCHANGED <<inventory, everActive, publishedVars, launched, ledgerVars>>

\* Mutant: the keys are not read again after signing.
SignedAnyway(o) == TRUE

StillPlanned(o) == Listed(command[o].ever) = command[o].changes

StoreKeySet(o) ==
    /\ command[o].at = "locking"
    /\ StillPlanned(o)
    /\ command[o].version = Len(documents) + 1
    /\ documents' = Append(documents, command[o].changes)
    /\ inventoryThen' = Append(inventoryThen, inventory)
    /\ CommandEnds(o)
    /\ UNCHANGED <<inventory, everActive, launched, ledgerVars>>

\* A command is refused, or fails, and has written nothing.
CommandFails(o) ==
    /\ command[o].at # "idle"
    /\ CommandEnds(o)
    /\ UNCHANGED <<inventory, everActive, publishedVars, launched, ledgerVars>>

----------------------------------------------------------------------------
(* The builder and the anchor pass.                                        *)

\* inventorySignerResolver: the active key, which the latest key set must list.
Published(k) ==
    LET latest == documents[Len(documents)]
    IN  documents # <<>> /\ k \in DOMAIN latest /\ latest[k].status = "active"

SignStatement(k) ==
    /\ Has(k, {"active"}) /\ Published(k)
    /\ inFlight' = inFlight \cup {k}
    /\ UNCHANGED <<inventory, everActive, publishedVars, command, launched, unanchored, late>>

ChainRecord(k) ==
    /\ k \in inFlight
    /\ inFlight' = inFlight \ {k}
    /\ unanchored' = unanchored \cup {k}
    /\ late' = IF \/ ~Has(k, {"active"})
                  \/ \E o \in Operators : command[o].at = "checked" /\ k \in command[o].gone
               THEN late \cup {k} ELSE late
    /\ UNCHANGED <<inventory, everActive, publishedVars, command, launched>>

AnchorRecords(k) ==
    /\ k \in unanchored
    /\ unanchored' = unanchored \ {k}
    /\ late' = late \ {k}
    /\ UNCHANGED <<inventory, everActive, publishedVars, command, launched, inFlight>>

TrustNext ==
    \/ \E k \in StatementKeys : Register(k) \/ SignStatement(k) \/ ChainRecord(k) \/ AnchorRecords(k)
    \/ \E o \in Operators :
          \/ PlanChanges(o) \/ RequireAnchored(o) \/ ApplyChanges(o)
          \/ PlanPublish(o) \/ ReadDocuments(o) \/ BeginStore(o) \/ StoreKeySet(o)
          \/ CommandFails(o)

TrustSpec == TrustInit /\ [][TrustNext]_trustVars

----------------------------------------------------------------------------
(* A key set never says of a key what was no longer so when it was stored:   *)
(* a revocation that commits while the set is being signed is not published  *)
(* over.                                                                     *)
NothingPublishedOver ==
    \A v \in DOMAIN documents : \A k \in DOMAIN documents[v] :
        documents[v][k] = inventoryThen[v][k]

(* What a key set says of the standing of keys never refuses the next one:   *)
(* whatever was activated, replaced, revoked and published in whatever       *)
(* order, the inventory continues the published chain, as far as status and  *)
(* compromised_since decide.  (That issued_at goes on, and how many keys and *)
(* documents there may be, are conditions beside it.)                        *)
ChainStaysPublishable ==
    documents # <<>> => MovesForward(documents[Len(documents)], Listed(everActive))

(* A key that was retired or superseded in use has left no record unanchored *)
(* but those that the builder signed before and chained after the check.     *)
RetiredAfterAnchoring ==
    \A k \in unanchored : Has(k, {"retired", "superseded"}) => k \in late

(* The guard of the database never has to refuse an update: commands that   *)
(* were planned on what has changed since are stopped before they get there. *)
GuardNeverRefuses ==
    [][\A k \in StatementKeys :
          ~Has(k, {"unknown"}) => GuardAllows(inventory[k], inventory'[k])]_trustVars
============================================================================
