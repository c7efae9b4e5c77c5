--------------------------- MODULE ProviderDelivery ---------------------------
(***************************************************************************)
(* The SCM webhook receiver (features/scm/scm.routes.ts) and its delivery   *)
(* store (provider-delivery-store.ts, provider-event.ts).                   *)
(*                                                                         *)
(* A provider sends evidence under a delivery id, as often as it likes and  *)
(* in any order.  A request claims the delivery (a lease), applies the      *)
(* projection and moves its cursor in one transaction, then enriches it     *)
(* with calls to the provider outside any transaction, then completes the   *)
(* delivery; on an error it releases its lease and answers 503.             *)
(*                                                                         *)
(* One tenant and one provider: every row and index names both.             *)
(*                                                                         *)
(* Abstractions.  A lease (processing_started_at, the claiming request's    *)
(* clock) is named by the request that took it; `expired` says it is older  *)
(* than five minutes.  Evidence is its fingerprint, with the projection key *)
(* and provider time it determines.  A projection is the evidence it was    *)
(* last written from.  A request that commits and does not learn so (its    *)
(* connection to the database breaks) goes on as after any other error.     *)
(***************************************************************************)
EXTENDS Naturals, Sequences, FiniteSets

CONSTANTS
    Ids,        \* provider delivery ids
    Events,     \* evidence, by fingerprint
    Keys,       \* projection identities: pull request, branch, deployment
    KeyOf,      \* [Events -> Keys]
    TimeOf,     \* [Events -> Nat]: provider_occurred_at, 0 when unusable
    Merges,     \* evidence that a pull request was merged
    Deploys,    \* evidence that a production deployment succeeded
    Sent,       \* the <<id, evidence>> pairs the provider sends
    Requests,   \* HTTP requests (bound: their number)
    NoEvent,
    NoRequest

ASSUME EventsAssumption ==
    /\ NoEvent \notin Events
    /\ NoRequest \notin Requests
    /\ KeyOf \in [Events -> Keys]
    /\ TimeOf \in [Events -> Nat]
    /\ Merges \subseteq Events /\ Deploys \subseteq Events
    /\ Sent \subseteq Ids \X Events

VARIABLES
    status,     \* provider_event_deliveries.processing_status, or "absent"
    stored,     \* the evidence stored with the delivery
    lease,      \* processing_started_at: the request holding it, or NoRequest
    expired,    \* the lease is older than PROVIDER_DELIVERY_LEASE_MS
    cursor,     \* provider_projection_cursors: the evidence last applied
    projected,  \* the projections committed so far, as <<id, evidence>>
    enriched,   \* deliveries whose enrichment has run to its end
    mergeRows,  \* pr_merged outbox rows: one for each delivery id
    deployRows, \* deployed outbox rows: one for each deployment
    pc,         \* what a request does next
    job,        \* the <<id, evidence>> a request carries
    read,       \* the <<status, lease>> a request read before its update
    stage,      \* the status its release expects
    answer      \* what a request was answered

deliveryVars == <<status, stored, lease, expired>>
projectionVars == <<cursor, projected, enriched, mergeRows, deployRows>>
requestVars == <<pc, job, read, stage, answer>>
vars == <<deliveryVars, projectionVars, requestVars>>

Suppressed == {"duplicate", "stale", "conflict", "unsequenced"}
Settled    == Suppressed \cup {"applied"}
Statuses   == Settled \cup {"absent", "received", "projected", "failed"}
PCs == {"new", "take", "project", "enrich", "complete", "release", "end"}

Init ==
    /\ status = [d \in Ids |-> "absent"]
    /\ stored = [d \in Ids |-> NoEvent]
    /\ lease = [d \in Ids |-> NoRequest]
    /\ expired = [d \in Ids |-> FALSE]
    /\ cursor = [k \in Keys |-> NoEvent]
    /\ projected = <<>>
    /\ enriched = {}
    /\ mergeRows = {}
    /\ deployRows = {}
    /\ pc = [q \in Requests |-> "new"]
    /\ job \in [Requests -> Sent]
    /\ read = [q \in Requests |-> <<"absent", NoRequest>>]
    /\ stage = [q \in Requests |-> "received"]
    /\ answer = [q \in Requests |-> "none"]

Id(q) == job[q][1]
Event(q) == job[q][2]

(* The lease runs out; the request that took it may be alive.               *)
Expire(d) ==
    /\ status[d] \in {"received", "projected"}
    /\ lease[d] # NoRequest /\ ~expired[d]
    /\ expired' = [expired EXCEPT ![d] = TRUE]
    /\ UNCHANGED <<status, stored, lease, projectionVars, requestVars>>

Answer(q, a) ==
    /\ pc' = [pc EXCEPT ![q] = "end"]
    /\ answer' = [answer EXCEPT ![q] = a]

-----------------------------------------------------------------------------
(* claimProviderDelivery.                                                   *)

(* The insert wins: the evidence is stored and the delivery claimed.        *)
ClaimNew(q) ==
    /\ pc[q] = "new"
    /\ status[Id(q)] = "absent"
    /\ status' = [status EXCEPT ![Id(q)] = "received"]
    /\ stored' = [stored EXCEPT ![Id(q)] = Event(q)]
    /\ lease' = [lease EXCEPT ![Id(q)] = q]
    /\ expired' = [expired EXCEPT ![Id(q)] = FALSE]
    /\ pc' = [pc EXCEPT ![q] = "project"]
    /\ UNCHANGED <<projectionVars, job, read, stage, answer>>

AcknowledgeProjected(q) ==                                          \* mutant
    /\ pc[q] = "new"
    /\ status[Id(q)] # "absent"
    /\ stored[Id(q)] # Event(q) \/ status[Id(q)] \in Settled \cup {"projected"}
    /\ Answer(q, "ok")
    /\ UNCHANGED <<deliveryVars, projectionVars, job, read, stage>>

(* The same id with other evidence, or a settled delivery, is acknowledged. *)
Acknowledge(q) ==
    /\ pc[q] = "new"
    /\ status[Id(q)] # "absent"
    /\ stored[Id(q)] # Event(q) \/ status[Id(q)] \in Settled
    /\ Answer(q, "ok")
    /\ UNCHANGED <<deliveryVars, projectionVars, job, read, stage>>

(* providerDeliveryCanBeClaimed.                                            *)
CanBeClaimed(d) ==
    \/ status[d] = "failed"
    \/ status[d] \in {"received", "projected"} /\ (lease[d] = NoRequest \/ expired[d])

InProgress(q) ==
    /\ pc[q] = "new"
    /\ status[Id(q)] \notin Settled \cup {"absent"}
    /\ stored[Id(q)] = Event(q)
    /\ ~CanBeClaimed(Id(q))
    /\ Answer(q, "retry")
    /\ UNCHANGED <<deliveryVars, projectionVars, job, read, stage>>

ReadClaimable(q) ==
    /\ pc[q] = "new"
    /\ stored[Id(q)] = Event(q)
    /\ CanBeClaimed(Id(q))
    /\ read' = [read EXCEPT ![q] = <<status[Id(q)], lease[Id(q)]>>]
    /\ pc' = [pc EXCEPT ![q] = "take"]
    /\ UNCHANGED <<deliveryVars, projectionVars, job, stage, answer>>

StatusAsRead(q) == read[q][1] = status[Id(q)]                       \* mutant
AsRead(q) == read[q] = <<status[Id(q)], lease[Id(q)]>>

(* The compare-and-swap that takes a free or expired lease, to go on where  *)
(* the delivery stands: at status s, with the step that follows it.         *)
TakeAt(q, s, next) ==
    /\ pc[q] = "take"
    /\ AsRead(q)
    /\ status' = [status EXCEPT ![Id(q)] = s]
    /\ stage' = [stage EXCEPT ![q] = s]
    /\ pc' = [pc EXCEPT ![q] = next]
    /\ lease' = [lease EXCEPT ![Id(q)] = q]
    /\ expired' = [expired EXCEPT ![Id(q)] = FALSE]
    /\ UNCHANGED <<stored, projectionVars, job, read, answer>>

Process(q) == read[q][1] \in {"received", "failed"} /\ TakeAt(q, "received", "project")

ResumeFromStart(q) == read[q][1] = "projected" /\ TakeAt(q, "received", "project")    \* mutant
ResumeUnenriched(q) == read[q][1] = "projected" /\ TakeAt(q, "projected", "complete") \* mutant
Resume(q) == read[q][1] = "projected" /\ TakeAt(q, "projected", "enrich")

TakeLost(q) ==
    /\ pc[q] = "take"
    /\ ~AsRead(q)
    /\ Answer(q, "retry")
    /\ UNCHANGED <<deliveryVars, projectionVars, job, read, stage>>

-----------------------------------------------------------------------------
(* projectProviderDelivery: one transaction under the cursor's row lock.    *)

EqualTimeApplies(old, e) ==                                         \* mutant
    CASE old = e                     -> "duplicate"
      [] old # e /\ TimeOf[e] = 0    -> "unsequenced"
      [] old = NoEvent /\ TimeOf[e] # 0 -> "apply"
      [] OTHER -> IF TimeOf[e] >= TimeOf[old] THEN "apply" ELSE "stale"

(* classifyProviderProjectionEvent.                                         *)
Classify(old, e) ==
    CASE old = e                     -> "duplicate"
      [] old # e /\ TimeOf[e] = 0    -> "unsequenced"
      [] old = NoEvent /\ TimeOf[e] # 0 -> "apply"
      [] OTHER ->
            IF TimeOf[e] > TimeOf[old] THEN "apply"
            ELSE IF TimeOf[e] < TimeOf[old] THEN "stale" ELSE "conflict"

Decision(q) == Classify(cursor[KeyOf[Event(q)]], Event(q))

Holds(q, s) == status[Id(q)] = s /\ lease[Id(q)] = q

SetDelivery(d, s, l) ==
    /\ status' = [status EXCEPT ![d] = s]
    /\ lease' = [lease EXCEPT ![d] = l]
    /\ expired' = [expired EXCEPT ![d] = expired[d] /\ l # NoRequest]
    /\ UNCHANGED stored

(* A commit the request does not hear of sends it down its error path.      *)
AnswerIfHeard(q) ==
    \/ Answer(q, "ok")
    \/ pc' = [pc EXCEPT ![q] = "release"] /\ UNCHANGED answer

Suppress(q) ==
    /\ pc[q] = "project"
    /\ Decision(q) # "apply"
    /\ Holds(q, "received")
    /\ SetDelivery(Id(q), Decision(q), NoRequest)
    /\ AnswerIfHeard(q)
    /\ UNCHANGED <<projectionVars, job, read, stage>>

(* The callback writes the projection and, for a merge, the outbox row.     *)
Project(q) ==
    /\ pc[q] = "project"
    /\ Decision(q) = "apply"
    /\ Holds(q, "received")
    /\ SetDelivery(Id(q), "projected", q)
    /\ cursor' = [cursor EXCEPT ![KeyOf[Event(q)]] = Event(q)]
    /\ projected' = Append(projected, job[q])
    /\ mergeRows' = mergeRows \cup (IF Event(q) \in Merges THEN {Id(q)} ELSE {})
    /\ \E heard \in BOOLEAN :
        /\ pc' = [pc EXCEPT ![q] = IF heard THEN "enrich" ELSE "release"]
        /\ stage' = [stage EXCEPT ![q] = IF heard THEN "projected" ELSE "received"]
    /\ UNCHANGED <<enriched, deployRows, job, read, answer>>

(* The lease was lost, or the callback or the database failed: rolled back. *)
ProjectFails(q) ==
    /\ pc[q] = "project"
    /\ pc' = [pc EXCEPT ![q] = "release"]
    /\ UNCHANGED <<deliveryVars, projectionVars, job, read, stage, answer>>

-----------------------------------------------------------------------------
(* Enrichment, outside any transaction and whoever holds the lease by now.  *)

(* recordDeployment queues its row in a transaction of its own.             *)
Enrich(q) ==
    /\ pc[q] = "enrich"
    /\ enriched' = enriched \cup {Id(q)}
    /\ deployRows' = deployRows \cup
        (IF Event(q) \in Deploys THEN {KeyOf[Event(q)]} ELSE {})
    /\ pc' = [pc EXCEPT ![q] = "complete"]
    /\ UNCHANGED <<deliveryVars, cursor, projected, mergeRows, job, read, stage, answer>>

EnrichFails(q) ==
    /\ pc[q] = "enrich"
    /\ pc' = [pc EXCEPT ![q] = "release"]
    /\ UNCHANGED <<deliveryVars, projectionVars, job, read, stage, answer>>

Complete(q) ==
    /\ pc[q] = "complete"
    /\ Holds(q, "projected")
    /\ SetDelivery(Id(q), "applied", NoRequest)
    /\ AnswerIfHeard(q)
    /\ UNCHANGED <<projectionVars, job, read, stage>>

(* "Provider delivery completion lease was lost", or the database failed.   *)
CompleteFails(q) ==
    /\ pc[q] = "complete"
    /\ pc' = [pc EXCEPT ![q] = "release"]
    /\ UNCHANGED <<deliveryVars, projectionVars, job, read, stage, answer>>

ReleaseFailed(q) ==                                                 \* mutant
    /\ pc[q] = "release"
    /\ Holds(q, stage[q])
    /\ SetDelivery(Id(q), "failed", NoRequest)
    /\ Answer(q, "retry")
    /\ UNCHANGED <<projectionVars, job, read, stage>>

(* releaseProviderDeliveryForRetry, then 503.                               *)
Release(q) ==
    /\ pc[q] = "release"
    /\ Holds(q, stage[q])
    /\ SetDelivery(Id(q), IF stage[q] = "received" THEN "failed" ELSE "projected", NoRequest)
    /\ Answer(q, "retry")
    /\ UNCHANGED <<projectionVars, job, read, stage>>

(* The release matches no row, or fails too: the lease is left to expire.   *)
ReleaseFails(q) ==
    /\ pc[q] = "release"
    /\ Answer(q, "retry")
    /\ UNCHANGED <<deliveryVars, projectionVars, job, read, stage>>

(* The process dies; the provider hears nothing.                            *)
Crash(q) ==
    /\ pc[q] # "end"
    /\ pc' = [pc EXCEPT ![q] = "end"]
    /\ UNCHANGED <<deliveryVars, projectionVars, job, read, stage, answer>>

Next ==
    \/ \E d \in Ids : Expire(d)
    \/ \E q \in Requests :
        \/ ClaimNew(q) \/ Acknowledge(q) \/ InProgress(q)
        \/ ReadClaimable(q) \/ Process(q) \/ Resume(q) \/ TakeLost(q)
        \/ Suppress(q) \/ Project(q) \/ ProjectFails(q)
        \/ Enrich(q) \/ EnrichFails(q) \/ Complete(q) \/ CompleteFails(q)
        \/ Release(q) \/ ReleaseFails(q) \/ Crash(q)

Spec == Init /\ [][Next]_vars

-----------------------------------------------------------------------------
(* Properties.                                                              *)

TypeOK ==
    /\ status \in [Ids -> Statuses]
    /\ stored \in [Ids -> Events \cup {NoEvent}]
    /\ lease \in [Ids -> Requests \cup {NoRequest}]
    /\ expired \in [Ids -> BOOLEAN]
    /\ cursor \in [Keys -> Events \cup {NoEvent}]
    /\ projected \in Seq(Ids \X Events)
    /\ enriched \in SUBSET Ids
    /\ mergeRows \in SUBSET Ids
    /\ deployRows \in SUBSET Keys
    /\ pc \in [Requests -> PCs]
    /\ job \in [Requests -> Ids \X Events]
    /\ read \in [Requests -> Statuses \X (Requests \cup {NoRequest})]
    /\ stage \in [Requests -> {"received", "projected"}]
    /\ answer \in [Requests -> {"none", "ok", "retry"}]

ProjectedAt(d) == {i \in 1..Len(projected) : projected[i][1] = d}

(* A projection only ever moves to later evidence, whatever the order of    *)
(* delivery, and its cursor is the last evidence applied to it.             *)
Chronological ==
    /\ \A i, j \in 1..Len(projected) :
        i < j /\ KeyOf[projected[i][2]] = KeyOf[projected[j][2]] =>
            TimeOf[projected[i][2]] < TimeOf[projected[j][2]]
    /\ \A k \in Keys : cursor[k] # NoEvent =>
        \E i \in 1..Len(projected) :
            /\ projected[i][2] = cursor[k]
            /\ \A j \in i+1..Len(projected) : KeyOf[projected[j][2]] # k

(* A delivery's projection runs (and commits) exactly once if the delivery  *)
(* counts as projected and never otherwise, with the outbox row of a merge, *)
(* though requests lose their leases, fail or never hear of their commit.   *)
ProjectedOnce ==
    \A d \in Ids :
        /\ Cardinality(ProjectedAt(d)) =
            IF status[d] \in {"projected", "applied"} THEN 1 ELSE 0
        /\ d \in mergeRows <=>
            \E i \in ProjectedAt(d) : projected[i][2] \in Merges

(* An acknowledged delivery is settled for good: the provider is never told *)
(* to stop sending while work is left (other evidence under a known id is   *)
(* acknowledged and dropped).                                               *)
AcknowledgedIsSettled ==
    \A q \in Requests :
        answer[q] = "ok" => stored[Id(q)] # Event(q) \/ status[Id(q)] \in Settled

(* What counts as applied was enriched to the end after its projection, and *)
(* a production deployment is in the outbox by then.                        *)
AppliedIsComplete ==
    \A d \in Ids :
        /\ d \in enriched => status[d] \in {"projected", "applied"}
        /\ status[d] = "applied" =>
            /\ d \in enriched
            /\ stored[d] \in Deploys => KeyOf[stored[d]] \in deployRows

(* While a lease runs, only the request that holds it moves the delivery.   *)
LiveLeaseIsExclusive ==
    [][\A d \in Ids :
        lease[d] # NoRequest /\ ~expired[d] /\ (status'[d] # status[d] \/ lease'[d] # lease[d])
            => pc'[lease[d]] # pc[lease[d]]]_vars

(* "A merge that reaches TrackAI through two different deliveries gives two *)
(* rows" (docs/contracts/attesta/outbox.md), once both are acknowledged.    *)
EveryMergeDeliveryQueued ==
    \A q \in Requests :
        answer[q] = "ok" /\ stored[Id(q)] = Event(q) /\ Event(q) \in Merges
            => Id(q) \in mergeRows

(* The abstract store this module implements.                               *)
DecisionView == [d \in Ids |->
    CASE status[d] \in {"absent", "received", "failed"} -> "open"
      [] status[d] = "projected" -> "applied"
      [] status[d] = "applied"   -> "finished"
      [] status[d] \in Suppressed -> "discarded"]

Store == INSTANCE ChronologicalStore WITH
    given <- stored, latest <- cursor, decided <- DecisionView

(* Requests, leases, retries and crashes add up to a store that decides     *)
(* each delivery once and never goes back in time.                          *)
ImplementsStore == Store!StoreSpec
=============================================================================
