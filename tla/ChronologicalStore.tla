------------------------- MODULE ChronologicalStore -------------------------
(***************************************************************************)
(* What the webhook receiver promises: every delivery of provider evidence  *)
(* is decided once; evidence older than what its projection already shows   *)
(* (or as old, or without a time) is kept but never applied; and evidence   *)
(* that is applied is finished later, once.  No requests, leases, retries   *)
(* or crashes.                                                              *)
(*                                                                         *)
(* ProviderDelivery implements this specification.                          *)
(***************************************************************************)
EXTENDS Naturals

CONSTANTS
    Ids,        \* delivery ids of one provider
    Events,     \* evidence, by fingerprint
    Keys,       \* mutable projections: a pull request, branch or deployment
    KeyOf,      \* [Events -> Keys]
    TimeOf,     \* [Events -> Nat], 0 when the evidence has no usable time
    NoEvent

VARIABLES
    given,      \* [Ids -> the evidence first received under the id]
    latest,     \* [Keys -> evidence the projection shows]
    decided     \* [Ids -> what became of the delivery]

storeVars == <<given, latest, decided>>

Decisions == {"open", "applied", "finished", "discarded"}

Newer(e, old) == TimeOf[e] # 0 /\ (old = NoEvent \/ TimeOf[e] > TimeOf[old])

StoreInit ==
    /\ given = [d \in Ids |-> NoEvent]
    /\ latest = [k \in Keys |-> NoEvent]
    /\ decided = [d \in Ids |-> "open"]

Receive(d, e) ==
    /\ given[d] = NoEvent
    /\ given' = [given EXCEPT ![d] = e]
    /\ UNCHANGED <<latest, decided>>

Show(d, e) ==
    /\ given[d] = e /\ decided[d] = "open"
    /\ Newer(e, latest[KeyOf[e]])
    /\ latest' = [latest EXCEPT ![KeyOf[e]] = e]
    /\ decided' = [decided EXCEPT ![d] = "applied"]
    /\ UNCHANGED given

Discard(d, e) ==
    /\ given[d] = e /\ decided[d] = "open"
    /\ ~Newer(e, latest[KeyOf[e]])
    /\ decided' = [decided EXCEPT ![d] = "discarded"]
    /\ UNCHANGED <<given, latest>>

Finish(d) ==
    /\ decided[d] = "applied"
    /\ decided' = [decided EXCEPT ![d] = "finished"]
    /\ UNCHANGED <<given, latest>>

StoreNext ==
    \E d \in Ids :
        Finish(d) \/ \E e \in Events : Receive(d, e) \/ Show(d, e) \/ Discard(d, e)

StoreSpec == StoreInit /\ [][StoreNext]_storeVars
=============================================================================
