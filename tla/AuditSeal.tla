----------------------------- MODULE AuditSeal -----------------------------
(***************************************************************************)
(* The seals over a tenant's audit trail (features/attesta/                *)
(* audit-seal-service.ts, drizzle/0023_attesta_audit_seals.sql).           *)
(*                                                                         *)
(* An audit row carries the start time of the transaction that writes it,  *)
(* and becomes visible when that transaction commits.  A sealing pass      *)
(* reads one snapshot, plans a window of time, signs outside any           *)
(* transaction and then, in one ledger transaction under the tenant's      *)
(* lock, compares the last seal and appends its own.  That transaction     *)
(* writes an audit row too, with its own start time.                       *)
(*                                                                         *)
(* Digests are left out: a seal is its window, the rows it lists and the   *)
(* seal it follows, which its digest determines.                           *)
(***************************************************************************)
EXTENDS Integers, Sequences, FiniteSets

CONSTANTS
    Writers,        \* transactions that write an audit row each
    Sealers,        \* sealing passes: the worker loop and the CLI
    Settle,         \* SEAL_SETTLE_MS, in ticks
    OpenFor,        \* how long a transaction may stay open, in ticks
    MinInterval,    \* SEAL_MIN_INTERVAL_MS
    EmptyInterval,  \* SEAL_EMPTY_INTERVAL_MS
    MaxSealRows,    \* MAX_SEAL_ROWS
    MaxClock,       \* bound: the clock stops here
    MaxSeals        \* bound: seals ever written

(* What the settle margin is for: a transaction that writes an audit row    *)
(* commits within it.  Nothing in the code enforces this.                   *)
ASSUME SealAssumption ==
    /\ Settle \in Nat /\ OpenFor \in Nat /\ OpenFor <= Settle
    /\ MinInterval \in Nat /\ EmptyInterval \in Nat /\ MinInterval <= EmptyInterval
    /\ MaxSealRows \in Nat \ {0} /\ MaxClock \in Nat /\ MaxSeals \in Nat

VARIABLES
    clock,      \* the database clock
    open,       \* transactions begun and not committed: writer -> start
    trail,      \* security_audit_events, as far as committed
    seals,      \* attesta_audit_seals, by window
    spc, plan   \* where a pass is, and what it has planned

sealVars == <<clock, open, trail, seals, spc, plan>>

NotOpen == MaxClock + 1
NoPlan == [start |-> NotOpen]

SealInit ==
    /\ clock = 0
    /\ open = [w \in Writers |-> NotOpen]
    /\ trail = {}
    /\ seals = <<>>
    /\ spc = [p \in Sealers |-> "idle"]
    /\ plan = [p \in Sealers |-> NoPlan]

Started == {open[w] : w \in Writers} \cup {plan[p].start : p \in Sealers}

\* Time passes, but for no transaction beyond what it may stay open.
ClockTick ==
    /\ clock < MaxClock
    /\ \A t \in Started : clock + 1 <= t + OpenFor
    /\ clock' = clock + 1
    /\ UNCHANGED <<open, trail, seals, spc, plan>>

BeginWrite(w) ==
    /\ open[w] = NotOpen /\ \A r \in trail : r.by # w
    /\ open' = [open EXCEPT ![w] = clock]
    /\ UNCHANGED <<clock, trail, seals, spc, plan>>

CommitWrite(w) ==
    /\ open[w] # NotOpen
    /\ trail' = trail \cup {[at |-> open[w], by |-> w]}
    /\ open' = [open EXCEPT ![w] = NotOpen]
    /\ UNCHANGED <<clock, seals, spc, plan>>

----------------------------------------------------------------------------
Earliest == CHOOSE t \in {r.at : r \in trail} : \A r \in trail : t <= r.at

\* Where the next window begins: at the end of the last seal, or at the
\* earliest row.
From == IF seals = <<>> THEN Earliest ELSE seals[Len(seals)].to

\* Mutant: without the settle margin.
UnsettledCutoff == clock

Cutoff == clock - Settle

Before(rows, t) == {r \in rows : r.at < t}
Unsealed == {r \in trail : From <= r.at /\ r.at < Cutoff}

Age == clock - seals[Len(seals)].created

Due ==
    IF seals = <<>> THEN Unsealed # {}
    ELSE \/ Cardinality(Unsealed) > MaxSealRows
         \/ Unsealed # {} /\ Age >= MinInterval
         \/ Age >= EmptyInterval

\* The end of the window: the cutoff, or the time of the first row that does
\* not fit, so that rows of one instant stay together.
EndOf(rows) ==
    IF Cardinality(rows) <= MaxSealRows THEN Cutoff
    ELSE CHOOSE t \in {r.at : r \in rows} :
            /\ Cardinality(Before(rows, t)) <= MaxSealRows
            /\ Cardinality(Before(rows, t + 1)) > MaxSealRows

Window(to) ==
    [from |-> From, to |-> to, previous |-> Len(seals),
     rows |-> Before(Unsealed, to), start |-> NotOpen,
     cut |-> Cardinality(Unsealed) > MaxSealRows]

\* Read one snapshot, plan the window.  With more rows of one instant than a
\* seal holds there is no window, and the pass fails.
PlanSeal(p) ==
    /\ spc[p] = "idle"
    /\ Len(seals) < MaxSeals
    /\ trail # {} /\ From < Cutoff
    /\ Due
    /\ LET window == Window(EndOf(Unsealed)) IN
          /\ window.cut => window.rows # {}
          /\ plan' = [plan EXCEPT ![p] = window]
    /\ spc' = [spc EXCEPT ![p] = "signing"]
    /\ UNCHANGED <<clock, open, trail, seals>>

PassEnds(p) ==
    /\ spc' = [spc EXCEPT ![p] = "idle"]
    /\ plan' = [plan EXCEPT ![p] = NoPlan]

\* No key, a refused or a failed signature, a crash: nothing is written.
GiveUp(p) ==
    /\ spc[p] \in {"signing", "chaining"}
    /\ PassEnds(p)
    /\ UNCHANGED <<clock, open, trail, seals>>

BeginChaining(p) ==
    /\ spc[p] = "signing"
    /\ spc' = [spc EXCEPT ![p] = "chaining"]
    /\ plan' = [plan EXCEPT ![p].start = clock]
    /\ UNCHANGED <<clock, open, trail, seals>>

\* The seal that was last when the plan was made is still the last.
StillLast(p) == plan[p].previous = Len(seals)

AppendSeal(p) ==
    seals' = Append(seals,
        [from |-> plan[p].from, to |-> plan[p].to, rows |-> plan[p].rows,
         previous |-> plan[p].previous, created |-> plan[p].start])

\* Under the tenant's lock: statement, seal, and the audit row of the sealing.
ChainSeal(p) ==
    /\ spc[p] = "chaining"
    /\ StillLast(p)
    /\ Len(seals) < MaxSeals
    /\ AppendSeal(p)
    /\ trail' = trail \cup {[at |-> plan[p].start, by |-> Len(seals) + 1]}
    /\ PassEnds(p)
    /\ UNCHANGED <<clock, open>>

Stale(p) ==
    /\ spc[p] = "chaining"
    /\ ~StillLast(p)
    /\ PassEnds(p)
    /\ UNCHANGED <<clock, open, trail, seals>>

SealNext ==
    \/ ClockTick
    \/ \E w \in Writers : BeginWrite(w) \/ CommitWrite(w)
    \/ \E p \in Sealers :
          PlanSeal(p) \/ GiveUp(p) \/ BeginChaining(p) \/ ChainSeal(p) \/ Stale(p)

SealSpec == SealInit /\ [][SealNext]_sealVars

----------------------------------------------------------------------------
(* The trail has no unsealed hole: every row older than the end of the last  *)
(* seal is in exactly one seal, however late its transaction committed and   *)
(* whichever passes overlapped; and the seals cover time without gap.        *)
RowsSealedOnce ==
    /\ \A i \in 1..(Len(seals) - 1) : seals[i + 1].from = seals[i].to
    /\ \A r \in trail :
          seals # <<>> /\ r.at < seals[Len(seals)].to =>
             Cardinality({i \in 1..Len(seals) : r \in seals[i].rows}) = 1
============================================================================
