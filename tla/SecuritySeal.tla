---------------------------- MODULE SecuritySeal ----------------------------
(***************************************************************************)
(* The seals over a tenant's security findings (features/attesta/          *)
(* security-seal-service.ts): the windows of AuditSeal over another table, *)
(* with a cadence of their own.  A pass goes on while the row cap cuts its *)
(* windows, an operator may ask for a seal at once, and an instant with    *)
(* more rows than a seal holds is sealed alone.  Sealing is audited in     *)
(* another table than the one sealed.                                      *)
(***************************************************************************)
EXTENDS AuditSeal

CONSTANTS
    MaxInstantRows, \* MAX_SECURITY_INSTANT_ROWS
    NowMinGap       \* SECURITY_SEAL_NOW_MIN_GAP_MS, in ticks

ASSUME InstantAssumption == MaxInstantRows \in Nat /\ MaxInstantRows >= MaxSealRows
ASSUME GapAssumption == NowMinGap \in Nat

\* A tick of the clock, the smallest step a time can make.
NextInstant(t) == t + 1

\* urge: "no", "now" (the operator's option), "backlog" (the pass goes on)
SecurityDue(urge) ==
    IF seals = <<>> THEN Unsealed # {}
    ELSE \/ Cardinality(Unsealed) > MaxSealRows
         \/ Unsealed # {} /\ (urge # "no" \/ Age >= MinInterval)
         \/ Age >= EmptyInterval
         \/ urge = "now" /\ Cutoff - From >= NowMinGap

FirstInstant == CHOOSE t \in {r.at : r \in Unsealed} : \A r \in Unsealed : t <= r.at
AtFirstInstant == {r \in Unsealed : r.at = FirstInstant}

\* Where the window ends; without an end more rows share the first instant
\* than any seal may hold, and the pass fails.
SecurityEnds ==
    IF Cardinality(AtFirstInstant) <= MaxSealRows THEN {EndOf(Unsealed)}
    ELSE IF Cardinality(AtFirstInstant) <= MaxInstantRows THEN {NextInstant(FirstInstant)}
    ELSE {}

Urges(p) == IF spc[p] = "again" THEN {"backlog"} ELSE {"no", "now"}

PlanSecuritySeal(p) ==
    /\ spc[p] \in {"idle", "again"}
    /\ Len(seals) < MaxSeals
    /\ trail # {} /\ From < Cutoff
    /\ \E urge \in Urges(p) : SecurityDue(urge)
    /\ \E to \in SecurityEnds : plan' = [plan EXCEPT ![p] = Window(to)]
    /\ spc' = [spc EXCEPT ![p] = "signing"]
    /\ UNCHANGED <<clock, open, trail, seals>>

\* Not due, or the limit of seals in a pass.
PassIsOver(p) ==
    /\ spc[p] = "again"
    /\ PassEnds(p)
    /\ UNCHANGED <<clock, open, trail, seals>>

\* The pass goes on only after a window the row cap has cut.
ChainSecuritySeal(p) ==
    /\ spc[p] = "chaining"
    /\ StillLast(p)
    /\ Len(seals) < MaxSeals
    /\ AppendSeal(p)
    /\ plan' = [plan EXCEPT ![p] = NoPlan]
    /\ spc' = [spc EXCEPT ![p] = IF plan[p].cut THEN "again" ELSE "idle"]
    /\ UNCHANGED <<clock, open, trail>>

SecuritySealNext ==
    \/ ClockTick
    \/ \E w \in Writers : BeginWrite(w) \/ CommitWrite(w)
    \/ \E p \in Sealers :
          \/ PlanSecuritySeal(p) \/ PassIsOver(p) \/ GiveUp(p)
          \/ BeginChaining(p) \/ ChainSecuritySeal(p) \/ Stale(p)
============================================================================
