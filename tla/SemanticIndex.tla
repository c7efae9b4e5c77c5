--------------------------- MODULE SemanticIndex ----------------------------
(***************************************************************************)
(* The semantic worker and the reindex, over the intentions and the jobs   *)
(* of EvidenceIntentions (features/evidence/service.ts, processNextSemanticJob *)
(* and enqueueSemanticReindex).                                            *)
(*                                                                         *)
(* A worker claims a job in one transaction; everything after it is one    *)
(* statement at a time, and names the job by its id alone: a worker that   *)
(* outlived the five minutes of its lock goes on next to its successor.    *)
(***************************************************************************)
EXTENDS EvidenceIntentions

CONSTANTS
    Workers,        \* processes of semantic-worker.ts
    EngineOf,       \* the model revision of a worker's engine
    MaxAttempts,    \* SEMANTIC_MAX_ATTEMPTS
    MaxStalls       \* bound: locks that run out under a live worker, and crashes

ASSUME AttemptsAssumption ==
    MaxAttempts \in Nat \ {0} /\ MaxStalls \in Nat
ASSUME EnginesAssumption == EngineOf \in [Workers -> Revisions]

VARIABLES
    wpc, work,      \* where a worker is; the job it claimed and what it read
    reindexing,     \* the reindex: the intentions to visit, and its next step
    stalls          \* locks that ran out, and crashes, so far

workers == <<wpc, work>>
index == <<workers, reindexing, stalls>>
vars == <<evidenceVars, index>>

Idle == [job |-> None]
NotReindexing == [ids |-> {}, marking |-> None, revision |-> None]

Init ==
    /\ EvidenceInit
    /\ wpc = [w \in Workers |-> "idle"]
    /\ work = [w \in Workers |-> Idle]
    /\ reindexing = NotReindexing
    /\ stalls = 0

\* A job is deleted with its intention, which it expires with.
Live(i) == i \in Stored /\ ~Expired(i)

WorkerDone(w) ==
    /\ wpc' = [wpc EXCEPT ![w] = "idle"]
    /\ work' = [work EXCEPT ![w] = Idle]

\* An update by id, which a deleted job does not match.
SetJob(k, f) ==
    job' = IF job[k] = NoJob THEN job ELSE [job EXCEPT ![k] = f]

SetAvailability(i, value) ==
    rows' = IF i \in Stored THEN [rows EXCEPT ![i].avail = value] ELSE rows

\* The lock is older than five minutes, and its worker is still at work or dead.
LockExpires(k) ==
    /\ job[k].state = "processing" /\ ~job[k].stale
    /\ stalls < MaxStalls
    /\ stalls' = stalls + 1
    /\ job' = [job EXCEPT ![k].stale = TRUE]
    /\ UNCHANGED <<now, events, contents, rows, lastId, vectors, ingest, admin, begun,
                   workers, reindexing>>

\* Mutant: a lock never runs out.
ClaimablePending(k) == Live(k.id) /\ job[k].state = "pending"

\* Of any revision, whatever the worker's own.
Claimable(k) ==
    /\ Live(k.id)
    /\ \/ job[k].state = "pending"
       \/ job[k].state = "processing" /\ job[k].stale

Claim(w, k) ==
    /\ wpc[w] = "idle"
    /\ Claimable(k)
    /\ job' = [job EXCEPT ![k].state = "processing", ![k].stale = FALSE]
    /\ wpc' = [wpc EXCEPT ![w] = "read"]
    /\ work' = [work EXCEPT ![w] =
          [job |-> k, at |-> now, attempts |-> job[k].attempts]]
    /\ UNCHANGED <<now, events, contents, rows, lastId, vectors, ingest, admin, begun,
                   reindexing, stalls>>

\* Mutant: a tick too early.
ObsoleteEarly(w) ==
    LET i == work[w].job.id IN
    \/ i \notin Stored \/ rows[i].expires <= work[w].at + 1 \/ ~rows[i].current
    \/ EngineOf[w] # work[w].job.revision

\* The version is gone, had expired or been replaced, or the job is for another
\* revision of the model than the worker's.
Obsolete(w) ==
    LET i == work[w].job.id IN
    \/ i \notin Stored \/ rows[i].expires <= work[w].at \/ ~rows[i].current
    \/ EngineOf[w] # work[w].job.revision

ReadJob(w) ==
    /\ wpc[w] = "read"
    /\ wpc' = [wpc EXCEPT ![w] = IF Obsolete(w) THEN "skip" ELSE "embed"]
    /\ UNCHANGED <<evidenceVars, work, reindexing, stalls>>

Skip(w) ==
    /\ wpc[w] = "skip"
    /\ SetJob(work[w].job, [job[work[w].job] EXCEPT !.state = "skipped", !.stale = FALSE])
    /\ WorkerDone(w)
    /\ UNCHANGED <<now, events, contents, rows, lastId, vectors, ingest, admin, begun,
                   reindexing, stalls>>

\* The model answers, and the vector is written: unless the intention is gone.
WriteVector(w) ==
    /\ wpc[w] = "embed"
    /\ work[w].job.id \in Stored
    /\ vectors' = vectors \cup {[id |-> work[w].job.id, revision |-> EngineOf[w]]}
    /\ wpc' = [wpc EXCEPT ![w] = "available"]
    /\ UNCHANGED <<now, events, contents, rows, lastId, job, ingest, admin, begun,
                   work, reindexing, stalls>>

MarkAvailable(w) ==
    /\ wpc[w] = "available"
    /\ SetAvailability(work[w].job.id, "available")
    /\ wpc' = [wpc EXCEPT ![w] = "complete"]
    /\ UNCHANGED <<now, events, contents, lastId, job, vectors, ingest, admin, begun,
                   work, reindexing, stalls>>

Complete(w) ==
    /\ wpc[w] = "complete"
    /\ SetJob(work[w].job, [job[work[w].job] EXCEPT !.state = "completed", !.stale = FALSE])
    /\ WorkerDone(w)
    /\ UNCHANGED <<now, events, contents, rows, lastId, vectors, ingest, admin, begun,
                   reindexing, stalls>>

\* The catch block, after an error of any statement from the model on: one more
\* attempt than the worker read when it claimed the job.
Terminal(w) == work[w].attempts + 1 >= MaxAttempts

Fail(w) ==
    /\ wpc[w] \in {"embed", "available", "complete"}
    /\ SetJob(work[w].job,
              [state |-> IF Terminal(w) THEN "failed" ELSE "pending",
               attempts |-> work[w].attempts + 1, stale |-> FALSE])
    /\ IF Terminal(w) THEN wpc' = [wpc EXCEPT ![w] = "unavailable"] /\ work' = work
                      ELSE WorkerDone(w)
    /\ UNCHANGED <<now, events, contents, rows, lastId, vectors, ingest, admin, begun,
                   reindexing, stalls>>

MarkUnavailable(w) ==
    /\ wpc[w] = "unavailable"
    /\ SetAvailability(work[w].job.id, "unavailable")
    /\ WorkerDone(w)
    /\ UNCHANGED <<now, events, contents, lastId, job, vectors, ingest, admin, begun,
                   reindexing, stalls>>

\* Only an error counts as an attempt: a worker that dies leaves its job to the
\* five minutes.
CrashWorker(w) ==
    /\ wpc[w] # "idle"
    /\ stalls < MaxStalls
    /\ stalls' = stalls + 1
    /\ job' = [job EXCEPT ![work[w].job].stale = job[work[w].job].state = "processing"]
    /\ WorkerDone(w)
    /\ UNCHANGED <<now, events, contents, rows, lastId, vectors, ingest, admin, begun,
                   reindexing>>

----------------------------------------------------------------------------
(* The reindex visits the current versions it read, one after the other: a *)
(* job if there is none, or the settled job put back, and then pending.    *)

\* The intentions left, and the revision of the process.
Visiting(ids, m) ==
    IF ids = {} THEN NotReindexing ELSE [ids |-> ids, marking |-> None, revision |-> m]

BeginReindex ==
    /\ reindexing = NotReindexing
    /\ Starts
    /\ \E m \in Revisions : reindexing' = Visiting({i \in Current : ~Expired(i)}, m)
    /\ UNCHANGED <<now, tables, ingest, admin, workers, stalls>>

Settled == {"completed", "failed", "skipped"}

\* The job is put in the queue, or found there; a version that was deleted
\* meanwhile makes the insert, and with it the reindex, fail.
ReindexJob(i) ==
    LET k == [id |-> i, revision |-> reindexing.revision] IN
    /\ i \in reindexing.ids /\ reindexing.marking = None
    /\ \/ /\ i \in Stored /\ job[k].state \in Settled \cup {"none"}
          /\ job' = [job EXCEPT ![k] = PendingJob]
          /\ reindexing' = [reindexing EXCEPT !.marking = i]
       \/ /\ i \in Stored /\ job[k].state \in {"pending", "processing"}
          /\ job' = job
          /\ reindexing' = Visiting(reindexing.ids \ {i}, reindexing.revision)
       \/ /\ i \notin Stored
          /\ job' = job
          /\ reindexing' = NotReindexing
    /\ UNCHANGED <<now, events, contents, rows, lastId, vectors, ingest, admin, begun,
                   workers, stalls>>

ReindexPending(i) ==
    /\ reindexing.marking = i
    /\ SetAvailability(i, "pending")
    /\ reindexing' = Visiting(reindexing.ids \ {i}, reindexing.revision)
    /\ UNCHANGED <<now, events, contents, lastId, job, vectors, ingest, admin, begun,
                   workers, stalls>>

----------------------------------------------------------------------------
WorkerStep(w) ==
    \/ \E k \in IndexKeys : Claim(w, k)
    \/ ReadJob(w) \/ Skip(w) \/ WriteVector(w) \/ MarkAvailable(w) \/ Complete(w)
    \/ Fail(w) \/ MarkUnavailable(w)

ReindexStep == BeginReindex \/ \E i \in Ids : ReindexJob(i) \/ ReindexPending(i)

Next ==
    \/ EvidenceNext /\ UNCHANGED index
    \/ \E w \in Workers : WorkerStep(w) \/ CrashWorker(w)
    \/ \E k \in IndexKeys : LockExpires(k)
    \/ ReindexStep

Spec == Init /\ [][Next]_vars

(* The worker loops for ever over the queue.                               *)
FairSpec == Spec /\ \A w \in Workers : WF_vars(WorkerStep(w))

----------------------------------------------------------------------------
TypeOK ==
    /\ now \in 0..MaxTime
    /\ events \in [Batches -> 0..(MaxTime + Retention)]
    /\ contents \subseteq {b \in Batches : events[b] # None}
    /\ lastId \in 0..MaxIntentions
    /\ Stored \subseteq 1..lastId
    /\ \A i \in Stored :
          /\ rows[i].state \in {"observed", "inferred", "corrected"}
          /\ rows[i].avail \in {"pending", "available", "unavailable"}
          /\ rows[i].version \in Nat \ {0}
    /\ job \in [IndexKeys -> [state : Settled \cup {"none", "pending", "processing"},
                              attempts : 0..MaxAttempts, stale : BOOLEAN]]
    /\ vectors \subseteq IndexKeys
    /\ \A w \in Workers : wpc[w] # "idle" => work[w].job \in IndexKeys

(* No derived record outlives its intention: a worker, an ingest or a reindex *)
(* that was slower than a purge leaves neither a job nor a vector behind.     *)
NothingDerivedRemains ==
    \A k \in IndexKeys : k.id \notin Stored => job[k] = NoJob /\ k \notin vectors

Vectors(i) == {k \in vectors : k.id = i}

(* What search reads is there: while it has not expired, a version that is    *)
(* marked available has a vector, of the revision of one worker.              *)
AvailableHasVector ==
    \A i \in Stored : rows[i].avail = "available" /\ ~Expired(i) => Vectors(i) # {}

(* A job is skipped for good reason only: the version it is for is no longer  *)
(* current, has expired or is gone, however long ago the worker read it; or   *)
(* the worker that skips it has another revision of the model.  A version     *)
(* that is live and current stays out of the search for no other reason.      *)
SkippedIsObsolete ==
    [][\A k \in IndexKeys : job[k].state # "skipped" /\ job'[k].state = "skipped" =>
          \/ ~Live(k.id) \/ ~rows[k.id].current
          \/ \E w \in Workers : /\ wpc[w] = "skip" /\ wpc'[w] = "idle"
                               /\ work[w].job = k /\ EngineOf[w] # k.revision]_vars

(* A job waits for a worker no longer than its intention lives.               *)
EveryJobSettles ==
    \A k \in IndexKeys :
        job[k].state = "pending" ~> job[k].state \in Settled \/ ~Live(k.id)
============================================================================
