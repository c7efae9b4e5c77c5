--------------------------- MODULE AttestationLog ---------------------------
(***************************************************************************)
(* What the attestation pipeline promises the rest of TrackAI, with no      *)
(* worker, lease, retry or hash in sight: every queued observation is       *)
(* either attested exactly once, in one append-only log, or visibly         *)
(* abandoned; and every attestation names exactly the attestations already  *)
(* in the log about the same commit ("previous").                           *)
(*                                                                         *)
(* AttestaLedger implements this specification.                             *)
(***************************************************************************)
EXTENDS Naturals, Sequences

CONSTANTS
    Rows,       \* the observations (outbox rows) of one tenant
    SubjectOf   \* the commit (repository, sha) each observation is about

VARIABLES
    log,        \* the attestations, oldest first
    fate        \* what became of each observation

logVars == <<log, fate>>

Fates == {"absent", "open", "attested", "abandoned"}

(* The places in a log of the attestations about the subject of row r.      *)
About(r, entries) ==
    {i \in 1..Len(entries) : SubjectOf[entries[i].row] = SubjectOf[r]}

LogInit ==
    /\ log = <<>>
    /\ fate = [r \in Rows |-> "absent"]

Submit(r) ==
    /\ fate[r] = "absent"
    /\ fate' = [fate EXCEPT ![r] = "open"]
    /\ UNCHANGED log

Attest(r) ==
    /\ fate[r] = "open"
    /\ fate' = [fate EXCEPT ![r] = "attested"]
    /\ log' = Append(log, [row |-> r, previous |-> About(r, log)])

(* Observations given up on together, and put back by an administrator.     *)
Abandon(S) ==
    /\ \A r \in S : fate[r] = "open"
    /\ fate' = [r \in Rows |-> IF r \in S THEN "abandoned" ELSE fate[r]]
    /\ UNCHANGED log

Reopen(S) ==
    /\ \A r \in S : fate[r] = "abandoned"
    /\ fate' = [r \in Rows |-> IF r \in S THEN "open" ELSE fate[r]]
    /\ UNCHANGED log

LogNext ==
    \/ \E r \in Rows : Submit(r) \/ Attest(r)
    \/ \E S \in SUBSET Rows : Abandon(S) \/ Reopen(S)

LogSpec == LogInit /\ [][LogNext]_logVars
=============================================================================
