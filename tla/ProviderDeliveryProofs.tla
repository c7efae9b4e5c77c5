----------------------- MODULE ProviderDeliveryProofs -----------------------
(***************************************************************************)
(* Theorems about ProviderDelivery, for any deliveries, evidence and number *)
(* of requests, and any order in which the provider sends them.             *)
(***************************************************************************)
EXTENDS ProviderDelivery, FiniteSetTheorems, SequenceTheorems, TLAPS

(***************************************************************************)
(* Steps that touch neither the deliveries nor the projections.             *)
(***************************************************************************)
Quiet(q) ==
    \/ Acknowledge(q) \/ InProgress(q) \/ ReadClaimable(q) \/ TakeLost(q)
    \/ ProjectFails(q) \/ EnrichFails(q) \/ CompleteFails(q) \/ ReleaseFails(q)
    \/ Crash(q)

LEMMA QuietIsQuiet ==
    ASSUME NEW q \in Requests, Quiet(q)
    PROVE  UNCHANGED <<deliveryVars, projectionVars, job, stage>>
BY DEF Quiet, Acknowledge, InProgress, ReadClaimable, TakeLost, ProjectFails, EnrichFails,
       CompleteFails, ReleaseFails, Crash, Answer

LEMMA JobTyped ==
    ASSUME TypeOK, NEW q \in Requests
    PROVE  Id(q) \in Ids /\ Event(q) \in Events /\ KeyOf[Event(q)] \in Keys
           /\ TimeOf[Event(q)] \in Nat
BY EventsAssumption DEF TypeOK, Id, Event

LEMMA DecisionTyped ==
    ASSUME TypeOK, NEW q \in Requests
    PROVE  Decision(q) \in Suppressed \cup {"apply"}
BY JobTyped DEF Decision, Classify, Suppressed

(* The evidence is applied exactly when it is newer than the cursor's.      *)
LEMMA ApplyIsNewer ==
    ASSUME TypeOK, NEW q \in Requests
    PROVE  Decision(q) = "apply" <=>
            /\ TimeOf[Event(q)] # 0
            /\ \/ cursor[KeyOf[Event(q)]] = NoEvent
               \/ TimeOf[Event(q)] > TimeOf[cursor[KeyOf[Event(q)]]]
<1> DEFINE old == cursor[KeyOf[Event(q)]]
           e == Event(q)
<1>1. e \in Events /\ TimeOf[e] \in Nat /\ old \in Events \cup {NoEvent}
    BY JobTyped DEF TypeOK
<1>2. e # NoEvent
    BY <1>1, EventsAssumption
<1>3. old \in Events => TimeOf[old] \in Nat
    BY EventsAssumption
<1> HIDE DEF old, e
<1>4. Classify(old, e) = "apply" <=> TimeOf[e] # 0 /\ (old = NoEvent \/ TimeOf[e] > TimeOf[old])
    <2>1. CASE old = NoEvent
        BY <1>1, <1>2, <2>1 DEF Classify
    <2>2. CASE old # NoEvent
        BY <1>1, <1>3, <2>2 DEF Classify
    <2> QED BY <2>1, <2>2
<1> QED BY <1>4 DEF Decision, old, e

-----------------------------------------------------------------------------
(***************************************************************************)
(* Type correctness.                                                        *)
(***************************************************************************)
LEMMA TypeInit == Init => TypeOK
<1> SUFFICES ASSUME Init PROVE TypeOK
    OBVIOUS
<1>1. job \in [Requests -> Ids \X Events]
    BY EventsAssumption DEF Init
<1>2. projected \in Seq(Ids \X Events)
    BY EmptySeq DEF Init
<1> QED BY <1>1, <1>2 DEF Init, TypeOK, Statuses, PCs

LEMMA TypeStep == TypeOK /\ [Next]_vars => TypeOK'
<1> SUFFICES ASSUME TypeOK, [Next]_vars PROVE TypeOK'
    OBVIOUS
<1> USE DEF deliveryVars, projectionVars, requestVars
<1>1. ASSUME NEW d \in Ids, Expire(d) PROVE TypeOK'
    BY <1>1 DEF Expire, TypeOK
<1>2. ASSUME NEW q \in Requests, ClaimNew(q) PROVE TypeOK'
    BY <1>2, JobTyped DEF ClaimNew, TypeOK, Statuses, PCs
<1>3. ASSUME NEW q \in Requests, Quiet(q) PROVE TypeOK'
    <2>1. pc' \in [Requests -> PCs]
        BY <1>3 DEF Quiet, Acknowledge, InProgress, ReadClaimable, TakeLost, ProjectFails,
            EnrichFails, CompleteFails, ReleaseFails, Crash, Answer, TypeOK, PCs
    <2>2. answer' \in [Requests -> {"none", "ok", "retry"}]
        BY <1>3 DEF Quiet, Acknowledge, InProgress, ReadClaimable, TakeLost, ProjectFails,
            EnrichFails, CompleteFails, ReleaseFails, Crash, Answer, TypeOK
    <2>3. read' = read \/ read' = [read EXCEPT ![q] = <<status[Id(q)], lease[Id(q)]>>]
        BY <1>3 DEF Quiet, Acknowledge, InProgress, ReadClaimable, TakeLost, ProjectFails,
            EnrichFails, CompleteFails, ReleaseFails, Crash
    <2>4. <<status[Id(q)], lease[Id(q)]>> \in Statuses \X (Requests \cup {NoRequest})
        BY JobTyped DEF TypeOK
    <2>5. read' \in [Requests -> Statuses \X (Requests \cup {NoRequest})]
        BY <2>3, <2>4 DEF TypeOK
    <2> QED BY <1>3, <2>1, <2>2, <2>5, QuietIsQuiet DEF TypeOK
<1>4. ASSUME NEW q \in Requests, Process(q) \/ Resume(q) PROVE TypeOK'
    <2>1. PICK s \in {"received", "projected"}, next \in PCs : TakeAt(q, s, next)
        BY <1>4 DEF Process, Resume, PCs
    <2> QED BY <2>1, JobTyped DEF TakeAt, TypeOK, Statuses
<1>5. ASSUME NEW q \in Requests, NEW s \in Statuses, NEW l \in Requests \cup {NoRequest},
             SetDelivery(Id(q), s, l)
      PROVE  /\ status' \in [Ids -> Statuses] /\ stored' \in [Ids -> Events \cup {NoEvent}]
             /\ lease' \in [Ids -> Requests \cup {NoRequest}] /\ expired' \in [Ids -> BOOLEAN]
    BY <1>5, JobTyped DEF SetDelivery, TypeOK
<1>6. ASSUME NEW q \in Requests, AnswerIfHeard(q)
      PROVE  pc' \in [Requests -> PCs] /\ answer' \in [Requests -> {"none", "ok", "retry"}]
    BY <1>6 DEF AnswerIfHeard, Answer, TypeOK, PCs
<1>7. ASSUME NEW q \in Requests, Suppress(q) PROVE TypeOK'
    <2>1. Decision(q) \in Statuses
        BY <1>7, DecisionTyped DEF Suppress, Statuses, Settled
    <2> QED BY <1>5, <1>6, <1>7, <2>1 DEF Suppress, TypeOK
<1>8. ASSUME NEW q \in Requests, Project(q) PROVE TypeOK'
    <2>1. "projected" \in Statuses
        BY DEF Statuses
    <2>2. /\ cursor' \in [Keys -> Events \cup {NoEvent}]
          /\ mergeRows' \in SUBSET Ids
        BY <1>8, JobTyped DEF Project, TypeOK
    <2>3. projected' \in Seq(Ids \X Events)
        BY <1>8 DEF Project, TypeOK
    <2>4. pc' \in [Requests -> PCs] /\ stage' \in [Requests -> {"received", "projected"}]
        BY <1>8 DEF Project, TypeOK, PCs
    <2> QED BY <1>5, <1>8, <2>1, <2>2, <2>3, <2>4 DEF Project, TypeOK
<1>9. ASSUME NEW q \in Requests, Enrich(q) PROVE TypeOK'
    BY <1>9, JobTyped DEF Enrich, TypeOK, PCs
<1>10. ASSUME NEW q \in Requests, Complete(q) PROVE TypeOK'
    <2>1. "applied" \in Statuses
        BY DEF Statuses, Settled
    <2> QED BY <1>5, <1>6, <1>10, <2>1 DEF Complete, TypeOK
<1>11. ASSUME NEW q \in Requests, Release(q) PROVE TypeOK'
    <2>1. (IF stage[q] = "received" THEN "failed" ELSE "projected") \in Statuses
        BY DEF Statuses
    <2>2. pc' \in [Requests -> PCs] /\ answer' \in [Requests -> {"none", "ok", "retry"}]
        BY <1>11 DEF Release, Answer, TypeOK, PCs
    <2> QED BY <1>5, <1>11, <2>1, <2>2 DEF Release, TypeOK
<1>12. CASE UNCHANGED vars
    BY <1>12 DEF vars, TypeOK
<1> QED
    BY <1>1, <1>2, <1>3, <1>4, <1>7, <1>8, <1>9, <1>10, <1>11, <1>12 DEF Next, Quiet

(* Every variable of the receiver keeps its type.                           *)
THEOREM TypeCorrect == Spec => []TypeOK
BY TypeInit, TypeStep, PTL DEF Spec

-----------------------------------------------------------------------------
(***************************************************************************)
(* The fence.  A lease names a request that carries the delivery's evidence *)
(* and has taken it for good; a request about to take a lease has read one  *)
(* that is free, or held by a request that cannot take it again.            *)
(***************************************************************************)
LeaseInv ==
    \A d \in Ids :
        /\ stored[d] = NoEvent <=> status[d] = "absent"
        /\ lease[d] # NoRequest =>
            /\ status[d] \in {"received", "projected"}
            /\ job[lease[d]] = <<d, stored[d]>>
            /\ pc[lease[d]] \notin {"new", "take"}

ReadInv ==
    \A q \in Requests :
        /\ pc[q] \notin {"new", "end"} => stored[Id(q)] = Event(q)
        /\ pc[q] = "take" /\ read[q][2] # NoRequest =>
            /\ pc[read[q][2]] \notin {"new", "take"}
            /\ lease[Id(q)] = read[q][2] => expired[Id(q)]

FenceInv == TypeOK /\ LeaseInv /\ ReadInv

(* How a step of a request moves on: it never comes back to the claim.      *)
LEMMA RequestMoves ==
    ASSUME TypeOK, NEW q \in Requests,
           \/ ClaimNew(q) \/ Quiet(q) \/ Process(q) \/ Resume(q) \/ Suppress(q) \/ Project(q)
           \/ Enrich(q) \/ Complete(q) \/ Release(q)
    PROVE  /\ \A r \in Requests \ {q} : pc'[r] = pc[r] /\ read'[r] = read[r]
           /\ pc'[q] # "new" /\ pc'[q] # pc[q]
           /\ pc'[q] = "take" <=> ReadClaimable(q)
           /\ pc[q] # "new" => read' = read
           /\ job' = job
<1>1. CASE Quiet(q)
    BY <1>1 DEF Quiet, Acknowledge, InProgress, ReadClaimable, TakeLost, ProjectFails,
        EnrichFails, CompleteFails, ReleaseFails, Crash, Answer, TypeOK, PCs
<1>2. CASE ~Quiet(q)
    BY <1>2 DEF Quiet, ClaimNew, Process, Resume, TakeAt, Suppress, Project, Enrich, Complete,
        Release, AnswerIfHeard, Answer, TypeOK, PCs
<1> QED BY <1>1, <1>2

(* A request that takes a lease: nobody else was about to find it its own.  *)
LEMMA FenceTaken ==
    ASSUME FenceInv, NEW q \in Requests, NEW s \in {"received", "projected"},
           \/ ClaimNew(q) /\ s = "received"
           \/ \E next \in {"project", "enrich"} : TakeAt(q, s, next)
    PROVE  LeaseInv' /\ ReadInv'
<1> DEFINE d == Id(q)
<1>0. job' = job /\ job[q] = <<Id(q), Event(q)>>
    BY DEF ClaimNew, TakeAt, FenceInv, TypeOK, Id, Event
<1>1. d \in Ids /\ Event(q) \in Events /\ Event(q) # NoEvent
    BY JobTyped, EventsAssumption DEF FenceInv
<1>2. pc[q] \in {"new", "take"} /\ pc'[q] \in {"project", "enrich"}
    BY DEF ClaimNew, TakeAt, FenceInv, TypeOK
<1>3. \A r \in Requests \ {q} : pc'[r] = pc[r]
    BY DEF ClaimNew, TakeAt, FenceInv, TypeOK
<1>4. /\ job' = job /\ read' = read
      /\ \A r \in Requests : Id(r)' = Id(r) /\ Event(r)' = Event(r)
    BY DEF ClaimNew, TakeAt, Id, Event
<1>5. /\ status'[d] = s /\ lease'[d] = q /\ stored'[d] = Event(q)
      /\ \A c \in Ids \ {d} :
            status'[c] = status[c] /\ lease'[c] = lease[c] /\ stored'[c] = stored[c]
            /\ expired'[c] = expired[c]
    BY <1>1 DEF ClaimNew, TakeAt, FenceInv, TypeOK, ReadInv
<1>6. stored[d] \in {NoEvent, Event(q)}
    BY <1>1 DEF ClaimNew, TakeAt, FenceInv, LeaseInv, ReadInv
<1>7. \A r \in Requests : Id(r) \in Ids /\ Event(r) # NoEvent
    BY JobTyped, EventsAssumption DEF FenceInv
<1>8. lease \in [Ids -> Requests \cup {NoRequest}] /\ NoRequest \notin Requests
      /\ read \in [Requests -> Statuses \X (Requests \cup {NoRequest})]
    BY EventsAssumption DEF FenceInv, TypeOK
<1> HIDE DEF d
<1>9. LeaseInv'
    <2> SUFFICES ASSUME NEW c \in Ids
                 PROVE  /\ stored'[c] = NoEvent <=> status'[c] = "absent"
                        /\ lease'[c] # NoRequest =>
                            /\ status'[c] \in {"received", "projected"}
                            /\ job[lease'[c]] = <<c, stored'[c]>>
                            /\ pc'[lease'[c]] \notin {"new", "take"}
        BY <1>0 DEF LeaseInv
    <2>1. CASE c = d
        BY <1>0, <1>1, <1>2, <1>4, <1>5, <2>1 DEF d
    <2>2. CASE c # d
        <3>1. lease[c] # NoRequest => lease[c] \in Requests \ {q}
            BY <1>2, <1>8 DEF FenceInv, LeaseInv
        <3> QED BY <1>3, <1>4, <1>5, <2>2, <3>1 DEF FenceInv, LeaseInv
    <2> QED BY <2>1, <2>2
<1>10. ReadInv'
    <2> SUFFICES ASSUME NEW r \in Requests
                 PROVE  /\ pc'[r] \notin {"new", "end"} => stored'[Id(r)] = Event(r)
                        /\ pc'[r] = "take" /\ read[r][2] # NoRequest =>
                            /\ pc'[read[r][2]] \notin {"new", "take"}
                            /\ lease'[Id(r)] = read[r][2] => expired'[Id(r)]
        BY <1>4 DEF ReadInv
    <2>1. CASE r = q
        BY <1>2, <1>5, <2>1 DEF d
    <2>2. CASE r # q
        <3>1. pc'[r] \notin {"new", "end"} => stored'[Id(r)] = Event(r)
            BY <1>3, <1>5, <1>6, <1>7, <2>2 DEF FenceInv, ReadInv
        <3>2. pc'[r] = "take" /\ read[r][2] # NoRequest => read[r][2] \in Requests \ {q}
            BY <1>2, <1>3, <1>8, <2>2 DEF FenceInv, ReadInv
        <3> QED BY <1>3, <1>5, <1>7, <2>2, <3>1, <3>2 DEF FenceInv, ReadInv
    <2> QED BY <2>1, <2>2
<1> QED BY <1>9, <1>10

(* A request that moves the delivery it holds, and keeps or drops its lease. *)
LEMMA FenceSet ==
    ASSUME FenceInv, NEW q \in Requests, NEW s \in Statuses, NEW s0, Holds(q, s0), s # "absent",
           NEW l \in {q, NoRequest}, SetDelivery(Id(q), s, l), l = q => s = "projected",
           pc[q] \notin {"new", "take"}, pc'[q] \notin {"new", "take"},
           \A r \in Requests \ {q} : pc'[r] = pc[r], UNCHANGED <<job, read>>
    PROVE  LeaseInv' /\ ReadInv'
<1> DEFINE d == Id(q)
<1>0. job' = job /\ job[q] = <<Id(q), Event(q)>>
    BY DEF FenceInv, TypeOK, Id, Event
<1>1. d \in Ids /\ lease[d] = q /\ stored' = stored
    BY JobTyped DEF FenceInv, Holds, SetDelivery
<1>2. \A r \in Requests : Id(r)' = Id(r) /\ Event(r)' = Event(r) /\ Id(r) \in Ids
    BY JobTyped DEF FenceInv, Id, Event
<1>3. /\ status'[d] = s /\ lease'[d] = l /\ expired'[d] = (expired[d] /\ l # NoRequest)
      /\ \A c \in Ids \ {d} :
            status'[c] = status[c] /\ lease'[c] = lease[c] /\ expired'[c] = expired[c]
    BY <1>1 DEF SetDelivery, FenceInv, TypeOK
<1>4. lease \in [Ids -> Requests \cup {NoRequest}] /\ NoRequest \notin Requests
      /\ read \in [Requests -> Statuses \X (Requests \cup {NoRequest})]
    BY EventsAssumption DEF FenceInv, TypeOK
<1>5. stored[d] # NoEvent /\ stored[d] = Event(q)
    BY <1>0, <1>1, <1>4, EventsAssumption, JobTyped DEF FenceInv, LeaseInv
<1> HIDE DEF d
<1>6. LeaseInv'
    <2> SUFFICES ASSUME NEW c \in Ids
                 PROVE  /\ stored'[c] = NoEvent <=> status'[c] = "absent"
                        /\ lease'[c] # NoRequest =>
                            /\ status'[c] \in {"received", "projected"}
                            /\ job[lease'[c]] = <<c, stored'[c]>>
                            /\ pc'[lease'[c]] \notin {"new", "take"}
        BY <1>0 DEF LeaseInv
    <2>1. CASE c = d
        BY <1>0, <1>1, <1>2, <1>3, <1>5, <2>1 DEF d
    <2>2. CASE c # d
        BY <1>1, <1>2, <1>3, <1>4, <2>2 DEF FenceInv, LeaseInv
    <2> QED BY <2>1, <2>2
<1>7. ReadInv'
    <2> SUFFICES ASSUME NEW r \in Requests
                 PROVE  /\ pc'[r] \notin {"new", "end"} => stored[Id(r)] = Event(r)
                        /\ pc'[r] = "take" /\ read[r][2] # NoRequest =>
                            /\ pc'[read[r][2]] \notin {"new", "take"}
                            /\ lease'[Id(r)] = read[r][2] => expired'[Id(r)]
        BY <1>1, <1>2 DEF ReadInv
    <2>1. CASE r = q
        BY <1>5, <2>1 DEF d
    <2>2. CASE r # q
        BY <1>1, <1>2, <1>3, <1>4, <2>2 DEF FenceInv, ReadInv
    <2> QED BY <2>1, <2>2
<1> QED BY <1>6, <1>7

LEMMA FenceInit == Init => FenceInv
<1> SUFFICES ASSUME Init PROVE LeaseInv /\ ReadInv
    BY TypeInit DEF FenceInv
<1> QED BY DEF Init, LeaseInv, ReadInv

LEMMA FenceStep == FenceInv /\ [Next]_vars => FenceInv'
<1> SUFFICES ASSUME FenceInv, [Next]_vars PROVE LeaseInv' /\ ReadInv'
    BY TypeStep DEF FenceInv
<1> USE DEF deliveryVars, projectionVars, requestVars
<1>1. ASSUME NEW d \in Ids, Expire(d) PROVE LeaseInv' /\ ReadInv'
    <2>1. \A c \in Ids : expired[c] => expired'[c]
        BY <1>1 DEF Expire, FenceInv, TypeOK
    <2>2. LeaseInv'
        BY <1>1 DEF Expire, FenceInv, LeaseInv, Id, Event
    <2>3. ReadInv'
        BY <1>1, <2>1, JobTyped DEF Expire, FenceInv, ReadInv, Id, Event
    <2> QED BY <2>2, <2>3
<1>2. ASSUME NEW q \in Requests, ClaimNew(q) PROVE LeaseInv' /\ ReadInv'
    BY <1>2, FenceTaken
<1>3. ASSUME NEW q \in Requests, Process(q) \/ Resume(q) PROVE LeaseInv' /\ ReadInv'
    BY <1>3, FenceTaken DEF Process, Resume
<1>4. ASSUME NEW q \in Requests, Quiet(q) PROVE LeaseInv' /\ ReadInv'
    <2>1. UNCHANGED <<deliveryVars, job>>
        BY <1>4, QuietIsQuiet
    <2>2. /\ \A r \in Requests \ {q} : pc'[r] = pc[r] /\ read'[r] = read[r]
          /\ pc'[q] # "new" /\ (pc'[q] = "take" <=> ReadClaimable(q))
        BY <1>4, RequestMoves DEF FenceInv
    <2>3. \A r \in Requests : pc[r] \notin {"new", "take"} => pc'[r] \notin {"new", "take"}
        BY <2>2 DEF ReadClaimable
    <2>4. lease \in [Ids -> Requests \cup {NoRequest}]
          /\ read \in [Requests -> Statuses \X (Requests \cup {NoRequest})]
        BY DEF FenceInv, TypeOK
    <2>5. LeaseInv'
        BY <2>1, <2>3, <2>4 DEF FenceInv, LeaseInv
    <2>6. ASSUME NEW r \in Requests \ {q}
          PROVE  /\ pc'[r] \notin {"new", "end"} => stored[Id(r)] = Event(r)
                 /\ pc'[r] = "take" /\ read'[r][2] # NoRequest =>
                    /\ pc'[read'[r][2]] \notin {"new", "take"}
                    /\ lease[Id(r)] = read'[r][2] => expired[Id(r)]
        BY <2>2, <2>3, <2>4 DEF FenceInv, ReadInv
    <2>7. CASE ReadClaimable(q)
        <3>1. /\ stored[Id(q)] = Event(q) /\ read'[q][2] = lease[Id(q)]
              /\ lease[Id(q)] = NoRequest \/ expired[Id(q)] \/ status[Id(q)] = "failed"
            BY <2>7 DEF ReadClaimable, CanBeClaimed, FenceInv, TypeOK
        <3>2. lease[Id(q)] # NoRequest =>
                expired[Id(q)] /\ lease[Id(q)] \in Requests /\ pc[lease[Id(q)]] \notin {"new", "take"}
            BY <2>4, <3>1, JobTyped DEF FenceInv, LeaseInv
        <3> QED BY <2>1, <2>3, <2>5, <2>6, <3>1, <3>2 DEF ReadInv, Id, Event
    <2>8. CASE ~ReadClaimable(q)
        <3>1. pc'[q] # "new" /\ pc'[q] # "take" /\ (pc'[q] \notin {"new", "end"} => pc[q] \notin {"new", "end"})
            BY <1>4, <2>2, <2>8 DEF Quiet, Acknowledge, InProgress, TakeLost, ProjectFails,
                EnrichFails, CompleteFails, ReleaseFails, Crash, Answer, FenceInv, TypeOK
        <3>2. pc'[q] \notin {"new", "end"} => stored[Id(q)] = Event(q)
            BY <3>1 DEF FenceInv, ReadInv
        <3> QED BY <2>1, <2>5, <2>6, <3>1, <3>2 DEF ReadInv, Id, Event
    <2> QED BY <2>7, <2>8
<1>5. ASSUME NEW q \in Requests, Suppress(q) PROVE LeaseInv' /\ ReadInv'
    <2>1. Decision(q) \in Statuses \ {"absent"}
        BY <1>5, DecisionTyped DEF FenceInv, Suppress, Suppressed, Statuses, Settled
    <2>2. pc[q] \notin {"new", "take"} /\ pc'[q] \notin {"new", "take"} /\ UNCHANGED <<job, read>>
          /\ \A r \in Requests \ {q} : pc'[r] = pc[r]
        BY <1>5 DEF Suppress, AnswerIfHeard, Answer, FenceInv, TypeOK
    <2> QED BY <1>5, <2>1, <2>2, FenceSet, EventsAssumption DEF Suppress
<1>6. ASSUME NEW q \in Requests, Project(q) PROVE LeaseInv' /\ ReadInv'
    <2>1. "projected" \in Statuses
        BY DEF Statuses
    <2>2. pc[q] \notin {"new", "take"} /\ pc'[q] \notin {"new", "take"} /\ UNCHANGED <<job, read>>
          /\ \A r \in Requests \ {q} : pc'[r] = pc[r]
        BY <1>6 DEF Project, FenceInv, TypeOK
    <2> QED BY <1>6, <2>1, <2>2, FenceSet DEF Project
<1>7. ASSUME NEW q \in Requests, Enrich(q) PROVE LeaseInv' /\ ReadInv'
    <2>1. /\ \A r \in Requests \ {q} : pc'[r] = pc[r]
          /\ pc'[q] = "complete" /\ pc[q] = "enrich"
        BY <1>7 DEF Enrich, FenceInv, TypeOK
    <2>2. LeaseInv'
        BY <1>7, <2>1 DEF Enrich, FenceInv, LeaseInv, TypeOK
    <2>3. ReadInv'
        BY <1>7, <2>1 DEF Enrich, FenceInv, ReadInv, TypeOK, Id, Event
    <2> QED BY <2>2, <2>3
<1>8. ASSUME NEW q \in Requests, Complete(q) PROVE LeaseInv' /\ ReadInv'
    <2>1. "applied" \in Statuses
        BY DEF Statuses, Settled
    <2>2. pc[q] \notin {"new", "take"} /\ pc'[q] \notin {"new", "take"} /\ UNCHANGED <<job, read>>
          /\ \A r \in Requests \ {q} : pc'[r] = pc[r]
        BY <1>8 DEF Complete, AnswerIfHeard, Answer, FenceInv, TypeOK
    <2> QED BY <1>8, <2>1, <2>2, FenceSet, EventsAssumption DEF Complete
<1>9. ASSUME NEW q \in Requests, Release(q) PROVE LeaseInv' /\ ReadInv'
    <2> DEFINE s == IF stage[q] = "received" THEN "failed" ELSE "projected"
    <2>1. s \in Statuses /\ s # "absent"
        BY DEF Statuses
    <2>2. pc[q] \notin {"new", "take"} /\ pc'[q] \notin {"new", "take"} /\ UNCHANGED <<job, read>>
          /\ \A r \in Requests \ {q} : pc'[r] = pc[r]
        BY <1>9 DEF Release, Answer, FenceInv, TypeOK
    <2>3. Holds(q, stage[q]) /\ SetDelivery(Id(q), s, NoRequest)
        BY <1>9 DEF Release
    <2> HIDE DEF s
    <2> QED BY <2>1, <2>2, <2>3, FenceSet, EventsAssumption
<1>10. CASE UNCHANGED vars
    <2>1. LeaseInv'
        BY <1>10 DEF vars, FenceInv, LeaseInv
    <2>2. ReadInv'
        BY <1>10 DEF vars, FenceInv, ReadInv, Id, Event
    <2> QED BY <2>1, <2>2
<1> QED
    BY <1>1, <1>2, <1>3, <1>4, <1>5, <1>6, <1>7, <1>8, <1>9, <1>10 DEF Next, Quiet

LEMMA FenceInvariant == Spec => []FenceInv
BY FenceInit, FenceStep, PTL DEF Spec

(* What ends or moves a lease that still runs: a step of its holder.        *)
LEMMA LiveLeaseStep ==
    ASSUME FenceInv, [Next]_vars, NEW d \in Ids, lease[d] # NoRequest, ~expired[d],
           status'[d] # status[d] \/ lease'[d] # lease[d]
    PROVE  pc'[lease[d]] # pc[lease[d]]
<1> USE DEF deliveryVars, projectionVars, requestVars
<1>1. ASSUME NEW q \in Requests, Quiet(q) \/ Enrich(q) PROVE FALSE
    BY <1>1, QuietIsQuiet DEF Enrich
<1>2. ASSUME NEW c \in Ids, Expire(c) PROVE FALSE
    BY <1>2 DEF Expire
<1>3. ASSUME NEW q \in Requests, ClaimNew(q) PROVE FALSE
    BY <1>3 DEF ClaimNew, FenceInv, TypeOK, LeaseInv
<1>4. ASSUME NEW q \in Requests, Process(q) \/ Resume(q) PROVE FALSE
    <2>1. PICK s \in {"received", "projected"}, next \in PCs : TakeAt(q, s, next)
        BY <1>4 DEF Process, Resume, PCs
    <2>2. d = Id(q)
        BY <2>1 DEF TakeAt, FenceInv, TypeOK
    <2>3. read[q][2] = lease[d]
        BY <2>1, <2>2 DEF TakeAt, AsRead
    <2> QED BY <2>1, <2>2, <2>3 DEF TakeAt, FenceInv, ReadInv
<1>5. ASSUME NEW q \in Requests, NEW s0, NEW s, NEW l, Holds(q, s0), SetDelivery(Id(q), s, l)
      PROVE  lease[d] = q
    BY <1>5 DEF Holds, SetDelivery, FenceInv, TypeOK
<1>6. ASSUME NEW q \in Requests, Suppress(q) \/ Project(q) \/ Complete(q) \/ Release(q)
      PROVE  pc'[lease[d]] # pc[lease[d]]
    <2>1. lease[d] = q
        BY <1>5, <1>6 DEF Suppress, Project, Complete, Release
    <2> QED BY <1>6, <2>1, RequestMoves DEF FenceInv
<1>7. CASE UNCHANGED vars
    BY <1>7 DEF vars
<1> QED
    BY <1>1, <1>2, <1>3, <1>4, <1>6, <1>7 DEF Next, Quiet

(* While a lease runs, only the request that holds it moves the delivery:   *)
(* the compare-and-swap on what was read is enough to fence slow requests.  *)
THEOREM LeasesFence == Spec => LiveLeaseIsExclusive
<1>1. FenceInv /\ [Next]_vars =>
        [\A d \in Ids :
            lease[d] # NoRequest /\ ~expired[d]
            /\ (status'[d] # status[d] \/ lease'[d] # lease[d])
                => pc'[lease[d]] # pc[lease[d]]]_vars
    BY LiveLeaseStep
<1> QED BY <1>1, FenceInvariant, PTL DEF Spec, LiveLeaseIsExclusive

-----------------------------------------------------------------------------
(***************************************************************************)
(* Settled for good, and complete when applied.                             *)
(***************************************************************************)
Shown == {"projected", "applied"}

EnrichInv ==
    \A q \in Requests :
        /\ answer[q] = "ok" => status[Id(q)] # "absent"
        /\ pc[q] \in {"enrich", "complete"} => status[Id(q)] \in Shown
        /\ pc[q] = "complete" =>
            Id(q) \in enriched /\ (Event(q) \in Deploys => KeyOf[Event(q)] \in deployRows)

SettleInv == FenceInv /\ EnrichInv /\ AcknowledgedIsSettled /\ AppliedIsComplete

(* How a delivery moves: settled statuses stay, shown ones stay shown, the   *)
(* evidence stays, and only a request that has enriched it applies it.      *)
LEMMA DeliveryMoves ==
    ASSUME FenceInv, [Next]_vars, NEW d \in Ids
    PROVE  /\ status[d] \in Settled => status'[d] = status[d]
           /\ status[d] \in Shown => status'[d] \in Shown
           /\ status[d] # "absent" => status'[d] # "absent" /\ stored'[d] = stored[d]
           /\ status'[d] = "applied" /\ status[d] # "applied" =>
                \E q \in Requests : Complete(q) /\ d = Id(q)
<1> USE DEF deliveryVars, projectionVars, requestVars, Shown, Settled, Suppressed
<1> DEFINE Goal ==
        /\ status[d] \in Settled => status'[d] = status[d]
        /\ status[d] \in Shown => status'[d] \in Shown
        /\ status[d] # "absent" => status'[d] # "absent" /\ stored'[d] = stored[d]
        /\ status'[d] = "applied" /\ status[d] # "applied" =>
             \E q \in Requests : Complete(q) /\ d = Id(q)
<1>1. ASSUME UNCHANGED <<status, stored>> PROVE Goal
    BY <1>1
<1>2. ASSUME NEW q \in Requests, Quiet(q) \/ Enrich(q) PROVE Goal
    BY <1>1, <1>2, QuietIsQuiet DEF Enrich
<1>3. ASSUME NEW c \in Ids, Expire(c) PROVE Goal
    BY <1>1, <1>3 DEF Expire
<1>4. ASSUME NEW q \in Requests, ClaimNew(q) PROVE Goal
    BY <1>4 DEF ClaimNew, FenceInv, TypeOK
<1>5. ASSUME NEW q \in Requests, Process(q) PROVE Goal
    BY <1>5 DEF Process, TakeAt, AsRead, FenceInv, TypeOK
<1>6. ASSUME NEW q \in Requests, Resume(q) PROVE Goal
    BY <1>6 DEF Resume, TakeAt, AsRead, FenceInv, TypeOK
<1>7. ASSUME NEW q \in Requests, Suppress(q) PROVE Goal
    BY <1>7, DecisionTyped DEF Suppress, Holds, SetDelivery, FenceInv, TypeOK
<1>8. ASSUME NEW q \in Requests, Project(q) PROVE Goal
    BY <1>8 DEF Project, Holds, SetDelivery, FenceInv, TypeOK
<1>9. ASSUME NEW q \in Requests, Complete(q) PROVE Goal
    BY <1>9, JobTyped DEF Complete, Holds, SetDelivery, FenceInv, TypeOK
<1>10. ASSUME NEW q \in Requests, Release(q) PROVE Goal
    BY <1>10 DEF Release, Holds, SetDelivery, FenceInv, TypeOK
<1>11. CASE UNCHANGED vars
    BY <1>1, <1>11 DEF vars
<1> QED
    BY <1>2, <1>3, <1>4, <1>5, <1>6, <1>7, <1>8, <1>9, <1>10, <1>11 DEF Next, Quiet

(* How a request comes to an answer, to enrichment and to completion.       *)
LEMMA RequestProgress ==
    ASSUME FenceInv, [Next]_vars, NEW r \in Requests
    PROVE  /\ answer'[r] = "ok" =>
                answer[r] = "ok" \/ Acknowledge(r) \/ Suppress(r) \/ Complete(r)
           /\ pc'[r] \in {"enrich", "complete"} =>
                pc[r] \in {"enrich", "complete"} \/ Project(r) \/ Resume(r)
           /\ pc'[r] = "complete" => pc[r] = "complete" \/ Enrich(r)
<1> USE DEF deliveryVars, projectionVars, requestVars
<1> DEFINE Goal ==
        /\ answer'[r] = "ok" =>
             answer[r] = "ok" \/ Acknowledge(r) \/ Suppress(r) \/ Complete(r)
        /\ pc'[r] \in {"enrich", "complete"} =>
             pc[r] \in {"enrich", "complete"} \/ Project(r) \/ Resume(r)
        /\ pc'[r] = "complete" => pc[r] = "complete" \/ Enrich(r)
<1>1. ASSUME UNCHANGED <<pc, answer>> PROVE Goal
    BY <1>1
<1>2. ASSUME NEW d \in Ids, Expire(d) \/ UNCHANGED vars PROVE Goal
    BY <1>1, <1>2 DEF Expire, vars
<1>3. ASSUME NEW q \in Requests, Acknowledge(q) PROVE Goal
    BY <1>3 DEF Acknowledge, Answer, FenceInv, TypeOK
<1>4. ASSUME NEW q \in Requests,
             \/ InProgress(q) \/ ReadClaimable(q) \/ TakeLost(q) \/ ProjectFails(q)
             \/ EnrichFails(q) \/ CompleteFails(q) \/ ReleaseFails(q) \/ Crash(q)
      PROVE  Goal
    BY <1>4 DEF InProgress, ReadClaimable, TakeLost, ProjectFails, EnrichFails, CompleteFails,
        ReleaseFails, Crash, Answer, FenceInv, TypeOK
<1>5. ASSUME NEW q \in Requests, ClaimNew(q) \/ Process(q) PROVE Goal
    BY <1>5 DEF ClaimNew, Process, TakeAt, FenceInv, TypeOK
<1>6. ASSUME NEW q \in Requests, Resume(q) PROVE Goal
    <2>1. pc' = [pc EXCEPT ![q] = "enrich"]
          /\ UNCHANGED answer
        BY <1>6 DEF Resume, TakeAt
    <2> QED BY <1>6, <2>1 DEF FenceInv, TypeOK
<1>7. ASSUME NEW q \in Requests, Suppress(q) \/ Complete(q) PROVE Goal
    <2>1. AnswerIfHeard(q)
        BY <1>7 DEF Suppress, Complete
    <2> QED BY <1>7, <2>1 DEF AnswerIfHeard, Answer, FenceInv, TypeOK
<1>8. ASSUME NEW q \in Requests, Project(q) PROVE Goal
    <2>1. /\ \E p \in {"enrich", "release"} : pc' = [pc EXCEPT ![q] = p]
          /\ UNCHANGED answer
        BY <1>8 DEF Project
    <2> QED BY <1>8, <2>1 DEF FenceInv, TypeOK
<1>9. ASSUME NEW q \in Requests, Enrich(q) PROVE Goal
    <2>1. /\ pc' = [pc EXCEPT ![q] = "complete"] /\ pc[q] = "enrich" /\ answer' = answer
        BY <1>9 DEF Enrich
    <2> QED BY <1>9, <2>1 DEF FenceInv, TypeOK
<1>10. ASSUME NEW q \in Requests, Release(q) PROVE Goal
    BY <1>10 DEF Release, Answer, FenceInv, TypeOK
<1>11. CASE UNCHANGED vars
    BY <1>1, <1>11 DEF vars
<1> QED
    BY <1>2, <1>3, <1>4, <1>5, <1>6, <1>7, <1>8, <1>9, <1>10, <1>11 DEF Next

(* Only enrichment changes what is enriched, and it only adds.              *)
LEMMA EnrichedByRequest ==
    ASSUME [Next]_vars
    PROVE  \/ UNCHANGED <<enriched, deployRows>>
           \/ \E q \in Requests :
                /\ Enrich(q)
                /\ enriched \subseteq enriched' /\ deployRows \subseteq deployRows'
<1> USE DEF deliveryVars, projectionVars, requestVars
<1>1. ASSUME NEW q \in Requests, Enrich(q)
      PROVE  enriched \subseteq enriched' /\ deployRows \subseteq deployRows'
    BY <1>1 DEF Enrich
<1>2. ASSUME NEW q \in Requests, Quiet(q) \/ ClaimNew(q) \/ Process(q) \/ Resume(q)
      PROVE  UNCHANGED <<enriched, deployRows>>
    BY <1>2, QuietIsQuiet DEF ClaimNew, Process, Resume, TakeAt
<1>3. ASSUME NEW q \in Requests, Suppress(q) \/ Project(q) \/ Complete(q) \/ Release(q)
      PROVE  UNCHANGED <<enriched, deployRows>>
    BY <1>3 DEF Suppress, Project, Complete, Release
<1>4. ASSUME NEW d \in Ids, Expire(d) PROVE UNCHANGED <<enriched, deployRows>>
    BY <1>4 DEF Expire
<1>5. CASE UNCHANGED vars
    BY <1>5 DEF vars
<1> QED BY <1>1, <1>2, <1>3, <1>4, <1>5 DEF Next, Quiet

LEMMA SettleInit == Init => SettleInv
<1> SUFFICES ASSUME Init PROVE EnrichInv /\ AcknowledgedIsSettled /\ AppliedIsComplete
    BY FenceInit DEF SettleInv
<1>1. \A q \in Requests : Id(q) \in Ids
    BY TypeInit, JobTyped
<1> QED BY <1>1 DEF Init, EnrichInv, AcknowledgedIsSettled, AppliedIsComplete

LEMMA SettleStep == SettleInv /\ [Next]_vars => SettleInv'
<1> SUFFICES ASSUME SettleInv, [Next]_vars
             PROVE  EnrichInv' /\ AcknowledgedIsSettled' /\ AppliedIsComplete'
    BY FenceStep DEF SettleInv
<1>1. FenceInv /\ FenceInv' /\ TypeOK
    BY FenceStep DEF SettleInv, FenceInv
<1>2. \A q \in Requests : Id(q) \in Ids /\ Id(q)' = Id(q) /\ Event(q)' = Event(q)
    <2>1. job' = job
        BY QuietIsQuiet DEF Next, vars, requestVars, Expire, ClaimNew, Quiet, Process, Resume, TakeAt,
            Suppress, Project, Enrich, Complete, Release
    <2> QED BY <1>1, <2>1, JobTyped DEF Id, Event
<1>3. ASSUME NEW q \in Requests, answer'[q] = "ok"
      PROVE  /\ status'[Id(q)] # "absent"
             /\ stored'[Id(q)] # Event(q) \/ status'[Id(q)] \in Settled
    <2>1. CASE answer[q] = "ok"
        BY <1>1, <1>2, <2>1, DeliveryMoves DEF SettleInv, EnrichInv, AcknowledgedIsSettled
    <2>2. CASE Acknowledge(q)
        BY <2>2 DEF Acknowledge, deliveryVars
    <2>3. CASE Suppress(q)
        BY <1>1, <1>2, <2>3, DecisionTyped
        DEF Suppress, SetDelivery, Settled, Suppressed, TypeOK
    <2>4. CASE Complete(q)
        BY <1>1, <1>2, <2>4 DEF Complete, SetDelivery, Settled, TypeOK
    <2> QED BY <1>1, <1>3, <2>1, <2>2, <2>3, <2>4, RequestProgress
<1>4. ASSUME NEW q \in Requests, pc'[q] \in {"enrich", "complete"}
      PROVE  status'[Id(q)] \in Shown
    <2>1. CASE pc[q] \in {"enrich", "complete"}
        BY <1>1, <1>2, <2>1, DeliveryMoves DEF SettleInv, EnrichInv
    <2>2. CASE Project(q)
        BY <1>1, <1>2, <2>2 DEF Project, SetDelivery, Shown, TypeOK
    <2>3. CASE Resume(q)
        BY <1>1, <1>2, <2>3 DEF Resume, TakeAt, Shown, TypeOK
    <2> QED BY <1>1, <1>4, <2>1, <2>2, <2>3, RequestProgress
<1>5. ASSUME NEW q \in Requests, pc'[q] = "complete"
      PROVE  Id(q) \in enriched' /\ (Event(q) \in Deploys => KeyOf[Event(q)] \in deployRows')
    <2>1. CASE pc[q] = "complete"
        BY <2>1, EnrichedByRequest DEF SettleInv, EnrichInv
    <2>2. CASE Enrich(q)
        BY <2>2 DEF Enrich
    <2> QED BY <1>1, <1>5, <2>1, <2>2, RequestProgress
<1>6. EnrichInv' /\ AcknowledgedIsSettled'
    BY <1>2, <1>3, <1>4, <1>5 DEF EnrichInv, AcknowledgedIsSettled
<1>7. ASSUME NEW d \in Ids, d \in enriched' PROVE status'[d] \in {"projected", "applied"}
    <2>1. CASE d \in enriched
        BY <1>1, <2>1, DeliveryMoves DEF SettleInv, AppliedIsComplete, Shown
    <2>2. CASE \E q \in Requests : Enrich(q) /\ d = Id(q)
        BY <1>1, <2>2, DeliveryMoves DEF Enrich, SettleInv, EnrichInv, Shown
    <2>3. ASSUME enriched' # enriched, d \notin enriched
          PROVE  \E q \in Requests : Enrich(q) /\ d = Id(q)
        <3>1. PICK q \in Requests : Enrich(q)
            BY <2>3, EnrichedByRequest
        <3> QED BY <1>7, <2>3, <3>1 DEF Enrich
    <2> QED BY <1>7, <2>1, <2>2, <2>3
<1>8. ASSUME NEW d \in Ids, status'[d] = "applied"
      PROVE  /\ d \in enriched'
             /\ stored'[d] \in Deploys => KeyOf[stored'[d]] \in deployRows'
    <2>1. CASE status[d] = "applied"
        <3>1. d \in enriched /\ (stored[d] \in Deploys => KeyOf[stored[d]] \in deployRows)
            BY <2>1 DEF SettleInv, AppliedIsComplete
        <3>2. stored'[d] = stored[d]
            BY <1>1, <2>1, DeliveryMoves
        <3> QED BY <1>1, <3>1, <3>2, EnrichedByRequest
    <2>2. CASE status[d] # "applied"
        <3>1. PICK q \in Requests : Complete(q) /\ d = Id(q)
            BY <1>1, <1>8, <2>2, DeliveryMoves
        <3>2. /\ pc[q] = "complete" /\ stored'[d] = stored[d]
              /\ UNCHANGED <<enriched, deployRows>>
            BY <3>1 DEF Complete, SetDelivery, projectionVars
        <3>3. stored[d] = Event(q)
            BY <1>1, <3>1, <3>2 DEF FenceInv, ReadInv
        <3> QED BY <3>1, <3>2, <3>3 DEF SettleInv, EnrichInv
    <2> QED BY <2>1, <2>2
<1> QED BY <1>6, <1>7, <1>8 DEF AppliedIsComplete

LEMMA SettleInvariant == Spec => []SettleInv
BY SettleInit, SettleStep, PTL DEF Spec

(* An acknowledged delivery is settled for good (or carried other evidence  *)
(* under a known id): the provider may stop sending it.                     *)
THEOREM AcknowledgedStaysSettled == Spec => []AcknowledgedIsSettled
BY SettleInvariant, PTL DEF SettleInv

(* A delivery that counts as applied was enriched to the end, and if it was *)
(* a production deployment its outbox row is queued.                        *)
THEOREM AppliedAlwaysComplete == Spec => []AppliedIsComplete
BY SettleInvariant, PTL DEF SettleInv

-----------------------------------------------------------------------------
(***************************************************************************)
(* Each delivery is projected once.                                         *)
(***************************************************************************)
OnceInv ==
    \A d \in Ids :
        /\ IF status[d] \in Shown
           THEN \E i \in 1..Len(projected) : ProjectedAt(d) = {i}
           ELSE ProjectedAt(d) = {}
        /\ d \in mergeRows <=> \E i \in ProjectedAt(d) : projected[i][2] \in Merges

LEMMA OnceImplies ==
    ASSUME OnceInv
    PROVE  ProjectedOnce
<1> SUFFICES ASSUME NEW d \in Ids
             PROVE  Cardinality(ProjectedAt(d)) = IF status[d] \in Shown THEN 1 ELSE 0
    BY DEF ProjectedOnce, OnceInv, Shown
<1>1. CASE status[d] \in Shown
    <2>1. PICK i : ProjectedAt(d) = {i}
        BY <1>1 DEF OnceInv
    <2> QED BY <1>1, <2>1, FS_Singleton
<1>2. CASE status[d] \notin Shown
    BY <1>2, FS_EmptySet DEF OnceInv
<1> QED BY <1>1, <1>2

(* A projection is one more entry, in its place for good.                   *)
LEMMA ProjectAppends ==
    ASSUME TypeOK, NEW q \in Requests, Project(q)
    PROVE  /\ Len(projected) \in Nat /\ Len(projected') = Len(projected) + 1
           /\ \A i \in 1..Len(projected) : projected'[i] = projected[i]
           /\ projected'[Len(projected) + 1] = <<Id(q), Event(q)>>
<1>1. projected \in Seq(Ids \X Events) /\ job[q] = <<Id(q), Event(q)>>
    BY DEF TypeOK, Id, Event
<1> QED BY <1>1 DEF Project

(* Only a projection writes the projections, their cursor and merge rows.   *)
LEMMA ProjectionMoves ==
    ASSUME FenceInv, [Next]_vars
    PROVE  \/ \E q \in Requests : Project(q)
           \/ /\ UNCHANGED <<projected, cursor, mergeRows>>
              /\ \A d \in Ids : status'[d] \in Shown <=> status[d] \in Shown
<1> USE DEF deliveryVars, projectionVars, requestVars
<1> DEFINE Same ==
        /\ UNCHANGED <<projected, cursor, mergeRows>>
        /\ \A d \in Ids : status'[d] \in Shown => status[d] \in Shown
<1>1. ASSUME NEW q \in Requests, Quiet(q) PROVE Same
    BY <1>1, QuietIsQuiet
<1>2. ASSUME NEW d \in Ids, Expire(d) PROVE Same
    BY <1>2 DEF Expire
<1>3. ASSUME NEW q \in Requests, ClaimNew(q) PROVE Same
    BY <1>3 DEF ClaimNew, Shown, FenceInv, TypeOK
<1>4. ASSUME NEW q \in Requests, Process(q) \/ Resume(q) PROVE Same
    BY <1>4 DEF Process, Resume, TakeAt, AsRead, Shown, FenceInv, TypeOK
<1>5. ASSUME NEW q \in Requests, Suppress(q) PROVE Same
    BY <1>5, DecisionTyped DEF Suppress, SetDelivery, Suppressed, Shown, FenceInv, TypeOK
<1>6. ASSUME NEW q \in Requests, Enrich(q) PROVE Same
    BY <1>6 DEF Enrich
<1>7. ASSUME NEW q \in Requests, Complete(q) PROVE Same
    BY <1>7 DEF Complete, Holds, SetDelivery, Shown, FenceInv, TypeOK
<1>8. ASSUME NEW q \in Requests, Release(q) PROVE Same
    BY <1>8 DEF Release, Holds, SetDelivery, Shown, FenceInv, TypeOK
<1>9. CASE UNCHANGED vars
    BY <1>9 DEF vars
<1>10. \A d \in Ids : status[d] \in Shown => status'[d] \in Shown
    BY DeliveryMoves
<1> QED
    BY <1>1, <1>2, <1>3, <1>4, <1>5, <1>6, <1>7, <1>8, <1>9, <1>10 DEF Next, Quiet

LEMMA OnceInit == Init => OnceInv
<1> SUFFICES ASSUME Init PROVE OnceInv
    OBVIOUS
<1>1. Len(projected) = 0
    BY DEF Init
<1>2. \A d \in Ids : ProjectedAt(d) = {}
    BY <1>1 DEF ProjectedAt
<1> QED BY <1>2 DEF Init, OnceInv, Shown

LEMMA OnceStep == FenceInv /\ OnceInv /\ [Next]_vars => OnceInv'
<1> SUFFICES ASSUME FenceInv, OnceInv, [Next]_vars PROVE OnceInv'
    OBVIOUS
<1>1. CASE /\ UNCHANGED <<projected, mergeRows>>
           /\ \A d \in Ids : status'[d] \in Shown <=> status[d] \in Shown
    BY <1>1 DEF OnceInv, ProjectedAt
<1>2. ASSUME NEW q \in Requests, Project(q) PROVE OnceInv'
    <2> DEFINE n == Len(projected) + 1
    <2>1. /\ n \in Nat \ {0} /\ Len(projected') = n
          /\ \A i \in 1..(n - 1) : projected'[i] = projected[i]
          /\ projected'[n] = <<Id(q), Event(q)>>
        BY <1>2, ProjectAppends DEF FenceInv
    <2>2. /\ Id(q) \in Ids /\ status[Id(q)] \notin Shown /\ status'[Id(q)] \in Shown
          /\ \A d \in Ids \ {Id(q)} : status'[d] = status[d]
          /\ mergeRows' = mergeRows \cup (IF Event(q) \in Merges THEN {Id(q)} ELSE {})
        BY <1>2, JobTyped DEF Project, Holds, SetDelivery, Shown, FenceInv, TypeOK
    <2>3. \A d \in Ids : ProjectedAt(d) = {i \in 1..(n - 1) : projected[i][1] = d}
        BY <2>1 DEF ProjectedAt
    <2>4. \A d \in Ids : {i \in 1..n : projected'[i][1] = d} =
                IF d = Id(q) THEN ProjectedAt(d) \cup {n} ELSE ProjectedAt(d)
        <3> HIDE DEF n
        <3> QED BY <2>1, <2>3
    <2>5. \A d \in Ids : ProjectedAt(d)' = {i \in 1..n : projected'[i][1] = d}
        BY <2>1 DEF ProjectedAt
    <2>6. ASSUME NEW d \in Ids
          PROVE  /\ IF status'[d] \in Shown
                    THEN \E i \in 1..n : ProjectedAt(d)' = {i}
                    ELSE ProjectedAt(d)' = {}
                 /\ d \in mergeRows' <=> \E i \in ProjectedAt(d)' : projected'[i][2] \in Merges
        <3> HIDE DEF n
        <3>1. CASE d = Id(q)
            BY <2>1, <2>2, <2>4, <2>5, <3>1 DEF OnceInv
        <3>2. CASE d # Id(q)
            BY <2>1, <2>2, <2>3, <2>4, <2>5, <3>2 DEF OnceInv, n
        <3> QED BY <3>1, <3>2
    <2> QED BY <2>1, <2>6 DEF OnceInv
<1> QED BY <1>1, <1>2, ProjectionMoves

(* A delivery's projection commits exactly once if it counts as projected,  *)
(* and never otherwise, together with the outbox row of a merge.            *)
THEOREM ProjectedExactlyOnce == Spec => []ProjectedOnce
BY FenceInvariant, OnceInit, OnceStep, OnceImplies, PTL DEF Spec

-----------------------------------------------------------------------------
(***************************************************************************)
(* Projections never go back in time.  The cursor stands for the whole      *)
(* history of its projection: it is the last evidence applied, and empty    *)
(* only when there is none.                                                 *)
(***************************************************************************)
About(k) == {i \in 1..Len(projected) : KeyOf[projected[i][2]] = k}

CursorInv ==
    \A k \in Keys :
        \/ cursor[k] = NoEvent /\ About(k) = {}
        \/ \E i \in About(k) :
            projected[i][2] = cursor[k] /\ \A j \in About(k) : j <= i

TimeInv ==
    \A i, j \in 1..Len(projected) :
        i < j /\ KeyOf[projected[i][2]] = KeyOf[projected[j][2]] =>
            TimeOf[projected[i][2]] < TimeOf[projected[j][2]]

ChronoInv == CursorInv /\ TimeInv

LEMMA ChronoImplies == TypeOK /\ ChronoInv => Chronological
<1> SUFFICES ASSUME TypeOK, ChronoInv, NEW k \in Keys, cursor[k] # NoEvent
             PROVE  \E i \in 1..Len(projected) :
                        /\ projected[i][2] = cursor[k]
                        /\ \A j \in i+1..Len(projected) : KeyOf[projected[j][2]] # k
    BY DEF Chronological, ChronoInv, TimeInv
<1>1. PICK i \in About(k) : projected[i][2] = cursor[k] /\ \A j \in About(k) : j <= i
    BY DEF ChronoInv, CursorInv
<1>2. Len(projected) \in Nat
    BY DEF TypeOK
<1> QED BY <1>1, <1>2 DEF About

LEMMA ChronoInit == Init => ChronoInv
<1> SUFFICES ASSUME Init PROVE ChronoInv
    OBVIOUS
<1>1. Len(projected) = 0
    BY DEF Init
<1> QED BY <1>1 DEF Init, ChronoInv, CursorInv, TimeInv, About

LEMMA ChronoStep == FenceInv /\ ChronoInv /\ [Next]_vars => ChronoInv'
<1> SUFFICES ASSUME FenceInv, ChronoInv, [Next]_vars PROVE ChronoInv'
    OBVIOUS
<1>1. CASE UNCHANGED <<projected, cursor>>
    BY <1>1 DEF ChronoInv, CursorInv, TimeInv, About
<1>2. ASSUME NEW q \in Requests, Project(q) PROVE ChronoInv'
    <2> DEFINE n == Len(projected) + 1
               e == Event(q)
               k == KeyOf[e]
    <2>1. /\ n \in Nat \ {0} /\ Len(projected') = n
          /\ \A i \in 1..(n - 1) : projected'[i] = projected[i]
          /\ projected'[n] = <<Id(q), e>>
        BY <1>2, ProjectAppends DEF FenceInv
    <2>2. /\ e \in Events /\ k \in Keys /\ TimeOf[e] \in Nat /\ e # NoEvent
        BY JobTyped, EventsAssumption DEF FenceInv
    <2>3. /\ cursor'[k] = e /\ \A c \in Keys \ {k} : cursor'[c] = cursor[c]
        BY <1>2, <2>2 DEF Project, FenceInv, TypeOK
    <2>4. \A i \in 1..(n - 1) : projected[i][2] \in Events /\ TimeOf[projected[i][2]] \in Nat
        <3>1. \A i \in 1..Len(projected) : projected[i] \in Ids \X Events
            BY DEF FenceInv, TypeOK
        <3> QED BY <2>1, <3>1, EventsAssumption
    <2>5. \A c \in Keys : About(c) = {i \in 1..(n - 1) : KeyOf[projected[i][2]] = c}
        BY <2>1 DEF About
    <2>6. \A c \in Keys : About(c)' = {i \in 1..n : KeyOf[projected'[i][2]] = c}
        BY <2>1 DEF About
    <2>7. cursor[k] = NoEvent \/ TimeOf[e] > TimeOf[cursor[k]]
        BY <1>2, ApplyIsNewer DEF Project, FenceInv
    <2> HIDE DEF n, e, k
    <2>8. \A c \in Keys : About(c)' = IF c = k THEN About(c) \cup {n} ELSE About(c)
        <3>1. KeyOf[projected'[n][2]] = k
            BY <2>1 DEF k
        <3>2. ASSUME NEW c \in Keys
              PROVE  {i \in 1..n : KeyOf[projected'[i][2]] = c} =
                        IF c = k THEN About(c) \cup {n} ELSE About(c)
            <4>1. \A i \in 1..(n - 1) : KeyOf[projected'[i][2]] = c <=> i \in About(c)
                BY <2>1, <2>5
            <4>2. \A i \in About(c) : i \in 1..(n - 1)
                BY <2>5
            <4>3. n \in 1..n /\ \A i \in 1..n : i = n \/ i \in 1..(n - 1)
                BY <2>1
            <4>4. \A i \in 1..(n - 1) : i \in 1..n /\ i # n
                BY <2>1
            <4> QED BY <3>1, <4>1, <4>2, <4>3, <4>4
        <3> QED BY <2>6, <3>2
    <2>9. CursorInv'
        <3> SUFFICES ASSUME NEW c \in Keys
                     PROVE  \/ cursor'[c] = NoEvent /\ About(c)' = {}
                            \/ \E i \in About(c)' :
                                projected'[i][2] = cursor'[c] /\ \A j \in About(c)' : j <= i
            BY DEF CursorInv
        <3>1. CASE c = k
            BY <2>1, <2>3, <2>5, <2>8, <3>1
        <3>2. CASE c # k
            <4>1. cursor'[c] = cursor[c] /\ About(c)' = About(c)
                BY <2>3, <2>8, <3>2
            <4>2. \A i \in About(c) : projected'[i][2] = projected[i][2]
                BY <2>1, <2>5
            <4> QED BY <4>1, <4>2 DEF ChronoInv, CursorInv
        <3> QED BY <3>1, <3>2
    <2>10. ASSUME NEW i \in About(k) PROVE TimeOf[projected[i][2]] < TimeOf[e]
        <3>1. PICK last \in About(k) :
                projected[last][2] = cursor[k] /\ \A j \in About(k) : j <= last
            BY <2>2, <2>10 DEF ChronoInv, CursorInv
        <3>2. TimeOf[projected[last][2]] < TimeOf[e]
            BY <2>2, <2>4, <2>5, <2>7, <3>1, EventsAssumption
        <3>3. i = last \/ TimeOf[projected[i][2]] < TimeOf[projected[last][2]]
            BY <2>1, <2>2, <2>5, <3>1 DEF ChronoInv, TimeInv, About
        <3> QED BY <2>2, <2>4, <2>5, <3>1, <3>2, <3>3
    <2>11. TimeInv'
        <3> SUFFICES ASSUME NEW i \in 1..n, NEW j \in 1..n, i < j,
                            KeyOf[projected'[i][2]] = KeyOf[projected'[j][2]]
                     PROVE  TimeOf[projected'[i][2]] < TimeOf[projected'[j][2]]
            BY <2>1 DEF TimeInv
        <3>1. CASE j = n
            <4>1. i \in 1..(n - 1) /\ projected'[i] = projected[i] /\ projected'[j][2] = e
                BY <2>1, <3>1
            <4>2. i \in About(k)
                BY <2>2, <2>5, <4>1 DEF k
            <4> QED BY <2>10, <4>1, <4>2
        <3>2. CASE j # n
            <4>1. i \in 1..(n - 1) /\ j \in 1..(n - 1)
                BY <2>1, <3>2
            <4>2. projected'[i] = projected[i] /\ projected'[j] = projected[j]
                BY <2>1, <4>1
            <4>3. i \in 1..Len(projected) /\ j \in 1..Len(projected)
                BY <2>1, <4>1 DEF n, FenceInv, TypeOK
            <4> QED BY <4>2, <4>3 DEF ChronoInv, TimeInv
        <3> QED BY <3>1, <3>2
    <2> QED BY <2>9, <2>11 DEF ChronoInv
<1> QED BY <1>1, <1>2, ProjectionMoves

(* A projection only ever moves to later evidence, whatever the order of    *)
(* delivery, and its cursor is the last evidence applied to it.             *)
THEOREM AlwaysChronological == Spec => []Chronological
<1>1. FenceInv => TypeOK
    BY DEF FenceInv
<1> QED BY <1>1, FenceInvariant, ChronoInit, ChronoStep, ChronoImplies, PTL DEF Spec

-----------------------------------------------------------------------------
(***************************************************************************)
(* The receiver implements the abstract store: a claim is a receipt, a      *)
(* suppression or projection decides, a completion finishes, and everything *)
(* a request, a lease or a crash does besides is a stutter.                 *)
(***************************************************************************)
DecisionOf(s) ==
    CASE s \in {"absent", "received", "failed"} -> "open"
      [] s = "projected" -> "applied"
      [] s = "applied"   -> "finished"
      [] s \in Suppressed -> "discarded"

LEMMA DecisionByStatus ==
    /\ DecisionView = [d \in Ids |-> DecisionOf(status[d])]
    /\ DecisionView' = [d \in Ids |-> DecisionOf(status'[d])]
BY DEF DecisionView, DecisionOf

LEMMA DecisionValues ==
    /\ \A s \in {"absent", "received", "failed"} : DecisionOf(s) = "open"
    /\ DecisionOf("projected") = "applied" /\ DecisionOf("applied") = "finished"
    /\ \A s \in Suppressed : DecisionOf(s) = "discarded"
BY DEF DecisionOf, Suppressed

(* One delivery changes its decision, or none does.                         *)
LEMMA DecisionChange ==
    ASSUME TypeOK, NEW d \in Ids, NEW s, status' = [status EXCEPT ![d] = s]
    PROVE  DecisionView' = [DecisionView EXCEPT ![d] = DecisionOf(s)]
BY DecisionByStatus DEF TypeOK

LEMMA StoreStep ==
    ASSUME FenceInv, [Next]_vars
    PROVE  [Store!StoreNext]_(Store!storeVars)
<1> USE DEF deliveryVars, projectionVars, requestVars
<1>1. ASSUME UNCHANGED <<stored, cursor, status>> PROVE UNCHANGED Store!storeVars
    BY <1>1, DecisionByStatus DEF Store!storeVars
<1>2. ASSUME NEW q \in Requests, Quiet(q) \/ Enrich(q) PROVE UNCHANGED Store!storeVars
    BY <1>1, <1>2, QuietIsQuiet DEF Enrich
<1>3. ASSUME NEW d \in Ids, Expire(d) PROVE UNCHANGED Store!storeVars
    BY <1>1, <1>3 DEF Expire
<1>4. ASSUME NEW q \in Requests, ClaimNew(q) PROVE Store!StoreNext
    <2>1. DecisionView' = DecisionView
        BY <1>4, JobTyped, DecisionByStatus, DecisionValues DEF ClaimNew, FenceInv, TypeOK
    <2>2. stored[Id(q)] = NoEvent /\ Id(q) \in Ids /\ Event(q) \in Events
        BY <1>4, JobTyped DEF ClaimNew, FenceInv, LeaseInv
    <2>3. Store!Receive(Id(q), Event(q))
        BY <1>4, <2>1, <2>2 DEF ClaimNew, Store!Receive
    <2> QED BY <2>2, <2>3 DEF Store!StoreNext
<1>5. ASSUME NEW q \in Requests, Process(q) \/ Resume(q) PROVE UNCHANGED Store!storeVars
    <2>1. PICK s \in {"received", "projected"} :
            /\ status' = [status EXCEPT ![Id(q)] = s]
            /\ \/ status[Id(q)] = s
               \/ s = "received" /\ status[Id(q)] = "failed"
        BY <1>5 DEF Process, Resume, TakeAt, AsRead
    <2>2. DecisionView' = DecisionView
        BY <2>1, JobTyped, DecisionByStatus, DecisionValues DEF FenceInv, TypeOK
    <2> QED BY <1>5, <2>2 DEF Process, Resume, TakeAt, Store!storeVars
<1>6. ASSUME NEW q \in Requests, NEW s0, NEW s, NEW l, Holds(q, s0), SetDelivery(Id(q), s, l)
      PROVE  /\ Id(q) \in Ids /\ Event(q) \in Events /\ stored[Id(q)] = Event(q)
             /\ DecisionView[Id(q)] = DecisionOf(s0)
             /\ DecisionView' = [DecisionView EXCEPT ![Id(q)] = DecisionOf(s)]
             /\ stored' = stored
    <2>1. Id(q) \in Ids /\ Event(q) \in Events /\ status' = [status EXCEPT ![Id(q)] = s]
        BY <1>6, JobTyped DEF SetDelivery, FenceInv
    <2>2. stored[Id(q)] = Event(q)
        <3>1. job[q] = <<Id(q), stored[Id(q)]>>
            BY <1>6, <2>1, EventsAssumption DEF Holds, FenceInv, LeaseInv
        <3> QED BY <3>1 DEF Event
    <2> QED
        BY <1>6, <2>1, <2>2, DecisionByStatus, DecisionChange DEF Holds, SetDelivery, FenceInv
<1>7. ASSUME NEW q \in Requests
      PROVE  Decision(q) = "apply" <=> Store!Newer(Event(q), cursor[KeyOf[Event(q)]])
    BY ApplyIsNewer DEF Store!Newer, FenceInv
<1>8. ASSUME NEW q \in Requests, Suppress(q) PROVE Store!StoreNext
    <2>1. DecisionOf(Decision(q)) = "discarded" /\ DecisionOf("received") = "open"
        BY <1>8, DecisionTyped, DecisionValues DEF Suppress, FenceInv
    <2>2. Store!Discard(Id(q), Event(q))
        BY <1>6, <1>7, <1>8, <2>1 DEF Suppress, Store!Discard
    <2> QED BY <1>6, <1>8, <2>2 DEF Suppress, Store!StoreNext
<1>9. ASSUME NEW q \in Requests, Project(q) PROVE Store!StoreNext
    <2>1. Store!Show(Id(q), Event(q))
        BY <1>6, <1>7, <1>9, DecisionValues DEF Project, Store!Show
    <2> QED BY <1>6, <1>9, <2>1 DEF Project, Store!StoreNext
<1>10. ASSUME NEW q \in Requests, Complete(q) PROVE Store!StoreNext
    <2>1. Store!Finish(Id(q))
        BY <1>6, <1>10, DecisionValues DEF Complete, Store!Finish
    <2> QED BY <1>6, <1>10, <2>1 DEF Complete, Store!StoreNext
<1>11. ASSUME NEW q \in Requests, Release(q) PROVE UNCHANGED Store!storeVars
    <2> DEFINE s == IF stage[q] = "received" THEN "failed" ELSE "projected"
    <2>1. Holds(q, stage[q]) /\ SetDelivery(Id(q), s, NoRequest)
        BY <1>11 DEF Release
    <2>2. DecisionOf(s) = DecisionOf(stage[q])
        BY DecisionValues DEF FenceInv, TypeOK
    <2> HIDE DEF s
    <2>3. /\ stored' = stored
          /\ DecisionView' = [DecisionView EXCEPT ![Id(q)] = DecisionView[Id(q)]]
        BY <1>6, <2>1, <2>2
    <2>4. DecisionView' = DecisionView
        BY <2>3, DecisionByStatus
    <2> QED BY <1>11, <2>3, <2>4 DEF Release, Store!storeVars
<1>12. CASE UNCHANGED vars
    BY <1>1, <1>12 DEF vars
<1> QED
    BY <1>2, <1>3, <1>4, <1>5, <1>8, <1>9, <1>10, <1>11, <1>12 DEF Next, Quiet

LEMMA StoreInitMapped == Init => Store!StoreInit
BY DecisionByStatus, DecisionValues DEF Init, Store!StoreInit

(* Requests, leases, retries, lost connections and crashes add up to a      *)
(* store that decides each delivery once and never goes back in time.       *)
THEOREM ReceiverImplementsStore == Spec => ImplementsStore
<1>1. FenceInv /\ [Next]_vars => [Store!StoreNext]_(Store!storeVars)
    BY StoreStep
<1> QED
    BY <1>1, StoreInitMapped, FenceInvariant, PTL DEF Spec, ImplementsStore, Store!StoreSpec

=============================================================================
