---------------------------- MODULE AttestaLedger ----------------------------
(***************************************************************************)
(* The Attesta outbox, its builder workers and the tenant's hash chain.     *)
(*                                                                         *)
(* An ingestion transaction queues a row (features/attesta/outbox.ts).      *)
(* Any number of workers run passes over the queue (worker.ts): return      *)
(* expired claims, claim due rows, and for each claimed row build a         *)
(* statement from a read snapshot (builder.ts), sign it outside every       *)
(* transaction, and chain it in one ledger transaction (ledger.ts) that     *)
(* re-checks the claim and the subject's earlier statements.                *)
(*                                                                         *)
(* One tenant: every query but recovery and claim is bound to the row's     *)
(* tenant, and each tenant has a chain of its own.                          *)
(*                                                                         *)
(* Abstractions.  Time is two timers per row that may fire whenever they    *)
(* run: `due` (not_before has passed) and `expired` (the claim is older     *)
(* than the lease).  The claim token of the code is (claimed_at, attempts); *)
(* the model keeps attempts, the half a refund can take back.  A list of    *)
(* statement digests ordered by seq is the set of the places those          *)
(* statements have in the chain.  SHA-256 is taken as injective: a record's *)
(* hash is the sequence of the record bodies it covers.                     *)
(* Signing changes no shared state, so it is part of the build step.  Rows  *)
(* are committed in the order of their created_at.  Statements other than   *)
(* the workers' (seals, reports) are no part of this module.                *)
(***************************************************************************)
EXTENDS Naturals, Sequences, FiniteSets

CONSTANTS
    Rows,           \* ids of outbox rows, one for each idempotency key
    Workers,        \* processes running builder passes
    Subjects,       \* commits: (repository, sha)
    SubjectOf,      \* [Rows -> Subjects]
    KindOf,         \* [Rows -> Kinds]
    Lineage,        \* [Subjects -> SUBSET Subjects]: commits merged into one
    NoRow,          \* a worker between two rows
    Limit,          \* rows claimed in one pass
    Requeueable,    \* bound: the rows an administrator puts back, each once
    MaxAttempts,    \* attempts after which a retryable failure is terminal
    LateClaims      \* bound: how often a claim at the limit may expire between
                    \* the two statements of recovery, which returns it

Kinds == {"commit_observed", "pr_merged", "deployed"}

ASSUME RowsAssumption ==
    /\ NoRow \notin Rows
    /\ SubjectOf \in [Rows -> Subjects]
    /\ KindOf \in [Rows -> Kinds]
    /\ Lineage \in [Subjects -> SUBSET Subjects]

ASSUME BoundsAssumption ==
    /\ Limit \in Nat \ {0}
    /\ Requeueable \subseteq Rows
    /\ MaxAttempts \in Nat \ {0}
    /\ LateClaims \in Nat

VARIABLES
    status,     \* attesta_subjects.status; "absent" before the row is queued
    attempts,   \* attesta_subjects.attempts
    due,        \* not_before <= now()
    expired,    \* claimed_at < now() - lease
    created,    \* created_at, as the row's place among the queued rows
    requeued,   \* rows an administrator has put back (bounds Requeue)
    records,    \* attesta_records: the record with seq n is records[n + 1]
    head,       \* chain_head
    pc,         \* what a worker does next
    job,        \* job[w][r]: the attempts w's claim on r was made with, or 0
    current,    \* the row w is working on
    seen,       \* the previous statements w's build saw
    verdict     \* what w decided after an error

rowVars    == <<status, attempts, due, expired>>
queueVars  == <<created, requeued>>
ledgerVars == <<records, head>>
workerVars == <<pc, job, current, seen, verdict>>
vars == <<rowVars, queueVars, ledgerVars, workerVars>>

Statuses == {"absent", "pending", "claimed", "done", "failed"}
PCs      == {"idle", "recover", "claim", "row", "build", "chain", "release"}
Verdicts == {"none", "retry", "wait", "fail"}

-----------------------------------------------------------------------------
(* The chain.                                                               *)

Genesis == <<>>

(* sha256(canonical_record || prev_hash): injective in both.                *)
RecordHash(rec) ==
    Append(rec.prev, [seq |-> rec.seq, row |-> rec.row, previous |-> rec.previous])

(* envelope.md step 1: the statements already chained about r's commit.     *)
PreviousOf(r) ==
    {i \in 1..Len(records) : SubjectOf[records[i].row] = SubjectOf[r]}

(* previousSeen is the beginning of the list as it is now.                  *)
SamePrefix(old, new) ==
    /\ old \subseteq new
    /\ \A i \in old, j \in new \ old : i < j

NextRecord(r, previous) ==
    [seq |-> head.next, row |-> r, previous |-> previous, prev |-> head.hash]

HeadStuck(rec) == [next |-> head.next + 1, hash |-> head.hash]    \* mutant
AdvanceHead(rec) == [next |-> head.next + 1, hash |-> RecordHash(rec)]

-----------------------------------------------------------------------------
(* The queue.                                                               *)

Open(r) == status[r] \in {"pending", "claimed"}

(* waitForEarlierKinds: the rows whose statements r lets go first.          *)
EarlierKinds(kind) ==
    CASE kind = "commit_observed" -> {}
      [] kind = "pr_merged"       -> {"commit_observed"}
      [] kind = "deployed"        -> {"commit_observed", "pr_merged"}

WaitsFor(r) ==
    {o \in Rows \ {r} :
        /\ KindOf[r] # "commit_observed"
        /\ \/ SubjectOf[o] = SubjectOf[r] /\ KindOf[o] \in EarlierKinds(KindOf[r])
           \/ /\ SubjectOf[o] \in Lineage[SubjectOf[r]]
              /\ KindOf[o] = "commit_observed"}

WaitingForPending(r) == \E o \in WaitsFor(r) : status[o] = "pending"  \* mutant
Waiting(r) == \E o \in WaitsFor(r) : Open(o)

Init ==
    /\ status   = [r \in Rows |-> "absent"]
    /\ attempts = [r \in Rows |-> 0]
    /\ due      = [r \in Rows |-> FALSE]
    /\ expired  = [r \in Rows |-> FALSE]
    /\ created  = [r \in Rows |-> 0]
    /\ requeued = {}
    /\ records  = <<>>
    /\ head     = [next |-> 0, hash |-> Genesis]
    /\ pc       = [w \in Workers |-> "idle"]
    /\ job      = [w \in Workers |-> [r \in Rows |-> 0]]
    /\ current  = [w \in Workers |-> NoRow]
    /\ seen     = [w \in Workers |-> {}]
    /\ verdict  = [w \in Workers |-> "none"]

Queued == {r \in Rows : status[r] # "absent"}

(* enqueueAttestaSubject for a key not queued before; a replay of a queued  *)
(* key changes nothing.  A pr_merged row is not due for five minutes.       *)
Enqueue(r) ==
    /\ status[r] = "absent"
    /\ status' = [status EXCEPT ![r] = "pending"]
    /\ due' = [due EXCEPT ![r] = KindOf[r] # "pr_merged"]
    /\ created' = [created EXCEPT ![r] = 1 + Cardinality(Queued)]
    /\ UNCHANGED <<attempts, expired, requeued, ledgerVars, workerVars>>

BecomeDue(r) ==
    /\ status[r] = "pending" /\ ~due[r]
    /\ due' = [due EXCEPT ![r] = TRUE]
    /\ UNCHANGED <<status, attempts, expired, queueVars, ledgerVars, workerVars>>

(* A claim outlives its lease: its worker is gone, or merely slow.          *)
Expire(r) ==
    /\ status[r] = "claimed" /\ ~expired[r]
    /\ expired' = [expired EXCEPT ![r] = TRUE]
    /\ UNCHANGED <<status, attempts, due, queueVars, ledgerVars, workerVars>>

RequeueAnySettled(S) ==                                             \* mutant
    /\ S # {} /\ S \subseteq Requeueable \ requeued
    /\ \A r \in S : status[r] \in {"failed", "done"}
    /\ status' = [r \in Rows |-> IF r \in S THEN "pending" ELSE status[r]]
    /\ due' = [r \in Rows |-> IF r \in S THEN TRUE ELSE due[r]]
    /\ requeued' = requeued \cup S
    /\ UNCHANGED <<attempts, expired, created, ledgerVars, workerVars>>

(* requeueFailedSubjects: the failed rows with one error code, all or none. *)
(* Any set of failed rows may share a code.  attempts is kept.              *)
(* Bound: each Requeueable row is requeued at most once.                    *)
Requeue(S) ==
    /\ S # {} /\ S \subseteq Requeueable \ requeued
    /\ \A r \in S : status[r] = "failed"
    /\ status' = [r \in Rows |-> IF r \in S THEN "pending" ELSE status[r]]
    /\ due' = [r \in Rows |-> IF r \in S THEN TRUE ELSE due[r]]
    /\ requeued' = requeued \cup S
    /\ UNCHANGED <<attempts, expired, created, ledgerVars, workerVars>>

-----------------------------------------------------------------------------
(* A builder pass: recover (two statements), claim, then one row at a time. *)

ExpiredClaims == {r \in Rows : status[r] = "claimed" /\ expired[r]}

SetStatus(S, s) ==
    /\ status'  = [r \in Rows |-> IF r \in S THEN s ELSE status[r]]
    /\ expired' = [r \in Rows |-> IF r \in S THEN FALSE ELSE expired[r]]

Step(w, from, to) == pc[w] = from /\ pc' = [pc EXCEPT ![w] = to]

RecoverFail(w) ==
    /\ Step(w, "idle", "recover")
    /\ SetStatus({r \in ExpiredClaims : attempts[r] >= MaxAttempts}, "failed")
    /\ UNCHANGED <<attempts, due, queueVars, ledgerVars, job, current, seen, verdict>>

RecoverNothing(w) ==                                                \* mutant
    /\ Step(w, "recover", "claim")
    /\ UNCHANGED <<rowVars, queueVars, ledgerVars, job, current, seen, verdict>>

(* Whatever is expired by now goes back to the queue, claims at the limit   *)
(* that expired since RecoverFail among them.  Bound: a claim that went back *)
(* so LateClaims times counts as expiring just after this statement.        *)
Recover(w) ==
    /\ Step(w, "recover", "claim")
    /\ SetStatus({r \in ExpiredClaims : attempts[r] < MaxAttempts + LateClaims}, "pending")
    /\ UNCHANGED <<attempts, due, queueVars, ledgerVars, job, current, seen, verdict>>

Claimable == {r \in Rows : status[r] = "pending" /\ due[r]}

(* ORDER BY created_at LIMIT n FOR UPDATE SKIP LOCKED.                      *)
Oldest(S) ==
    /\ S \subseteq Claimable
    /\ \A r \in S, q \in Claimable \ S : created[r] < created[q]
    /\ \/ Cardinality(S) = Limit
       \/ Cardinality(S) < Limit /\ S = Claimable

Claim(w) ==
    /\ Step(w, "claim", "row")
    /\ \E S \in SUBSET Claimable :
        /\ Oldest(S)
        /\ SetStatus(S, "claimed")
        /\ attempts' = [r \in Rows |-> IF r \in S THEN attempts[r] + 1 ELSE attempts[r]]
        /\ job' = [job EXCEPT ![w] = [r \in Rows |-> IF r \in S THEN attempts[r] + 1 ELSE 0]]
    /\ UNCHANGED <<due, queueVars, ledgerVars, current, seen, verdict>>

Batch(w) == {r \in Rows : job[w][r] # 0}

(* The claimed rows are taken in created_at order.                          *)
TakeRow(w) ==
    /\ Step(w, "row", "build")
    /\ \E r \in Batch(w) :
        /\ \A q \in Batch(w) \ {r} : created[r] < created[q]
        /\ current' = [current EXCEPT ![w] = r]
    /\ UNCHANGED <<rowVars, queueVars, ledgerVars, job, seen, verdict>>

EndPass(w) ==
    /\ Batch(w) = {}
    /\ Step(w, "row", "idle")
    /\ UNCHANGED <<rowVars, queueVars, ledgerVars, job, current, seen, verdict>>

(* The row is finished with, whatever became of it.                         *)
LeaveRow(w) ==
    /\ pc' = [pc EXCEPT ![w] = "row"]
    /\ job' = [job EXCEPT ![w][current[w]] = 0]
    /\ current' = [current EXCEPT ![w] = NoRow]
    /\ seen' = [seen EXCEPT ![w] = {}]
    /\ verdict' = [verdict EXCEPT ![w] = "none"]

Decide(w, v) ==
    /\ pc' = [pc EXCEPT ![w] = "release"]
    /\ verdict' = [verdict EXCEPT ![w] = v]
    /\ seen' = [seen EXCEPT ![w] = {}]
    /\ UNCHANGED <<rowVars, queueVars, ledgerVars, job, current>>

(* No credential, a source missing or not ready, a signer unavailable or    *)
(* rejecting: the environment chooses.                                      *)
BuildFails(w) ==
    /\ pc[w] = "build"
    /\ \E v \in {"retry", "fail"} : Decide(w, v)

BuildWaits(w) ==
    /\ pc[w] = "build"
    /\ Waiting(current[w])
    /\ Decide(w, "wait")

Build(w) ==
    /\ Step(w, "build", "chain")
    /\ ~Waiting(current[w])
    /\ seen' = [seen EXCEPT ![w] = PreviousOf(current[w])]
    /\ UNCHANGED <<rowVars, queueVars, ledgerVars, job, current, verdict>>

(* The row is still claimed by this attempt.                                *)
AnyClaimHeld(w) == status[current[w]] = "claimed"                   \* mutant
ClaimHeld(w) ==
    /\ status[current[w]] = "claimed"
    /\ attempts[current[w]] = job[w][current[w]]

Chained(r) == \E i \in 1..Len(records) : records[i].row = r

NeverStale(w) == FALSE                                              \* mutant
Stale(w) == PreviousOf(current[w]) # seen[w]

(* Refusals no retry can cure: the row already has a chained statement, or  *)
(* the build saw statements that are not there.                             *)
Contradicted(w) ==
    \/ Chained(current[w])
    \/ ~SamePrefix(seen[w], PreviousOf(current[w]))

(* CLAIM_LOST: stop; the current claimant continues.                        *)
ChainLost(w) ==
    /\ pc[w] = "chain"
    /\ ~ClaimHeld(w)
    /\ LeaveRow(w)
    /\ UNCHANGED <<rowVars, queueVars, ledgerVars>>

(* HEAD_CONFLICT (a deadlock or a serialization failure, whenever the       *)
(* database likes) and PREVIOUS_STALE are retried; a contradiction, or a    *)
(* database guard that comes after the staleness check, is final.           *)
ChainRefused(w) ==
    /\ pc[w] = "chain"
    /\ ClaimHeld(w)
    /\ \E v \in {"retry", "fail"} :
        /\ v = "fail" => Contradicted(w) \/ ~Stale(w)
        /\ Decide(w, v)

AppendRecord(rec) ==
    /\ records' = Append(records, rec)
    /\ head' = AdvanceHead(rec)

ChainThenMarkLater(w) ==                                            \* mutant
    /\ pc[w] = "chain"
    /\ ClaimHeld(w) /\ ~Contradicted(w) /\ ~Stale(w)
    /\ AppendRecord(NextRecord(current[w], seen[w]))
    /\ LeaveRow(w)
    /\ UNCHANGED <<rowVars, queueVars>>

(* chainStatement: record, envelope, head and the outbox row in one         *)
(* transaction, under the chain_head and attesta_subjects row locks.  (The  *)
(* branch for a statement already chained needs the digest of a statement   *)
(* of another row, which names its own pointers: it is left out.)           *)
ChainCommit(w) ==
    /\ pc[w] = "chain"
    /\ ClaimHeld(w) /\ ~Contradicted(w) /\ ~Stale(w)
    /\ AppendRecord(NextRecord(current[w], seen[w]))
    /\ SetStatus({current[w]}, "done")
    /\ LeaveRow(w)
    /\ UNCHANGED <<attempts, due, queueVars>>

RefundTwice(w) == attempts[current[w]] - 2                          \* mutant
Refunded(w) == attempts[current[w]] - 1

(* release(retry): back to the queue with backoff; a wait for an earlier    *)
(* statement costs no attempt.                                              *)
ReleaseRetry(w) ==
    /\ pc[w] = "release"
    /\ ClaimHeld(w)
    /\ \/ verdict[w] = "wait"
       \/ verdict[w] = "retry" /\ job[w][current[w]] < MaxAttempts
    /\ SetStatus({current[w]}, "pending")
    /\ due' = [due EXCEPT ![current[w]] = FALSE]
    /\ attempts' = IF verdict[w] = "wait"
                   THEN [attempts EXCEPT ![current[w]] = Refunded(w)]
                   ELSE attempts
    /\ LeaveRow(w)
    /\ UNCHANGED <<queueVars, ledgerVars>>

ReleaseFail(w) ==
    /\ pc[w] = "release"
    /\ ClaimHeld(w)
    /\ \/ verdict[w] = "fail"
       \/ verdict[w] = "retry" /\ job[w][current[w]] >= MaxAttempts
    /\ SetStatus({current[w]}, "failed")
    /\ LeaveRow(w)
    /\ UNCHANGED <<attempts, due, queueVars, ledgerVars>>

(* The guarded update matched no row: this worker changes nothing.          *)
ReleaseLost(w) ==
    /\ pc[w] = "release"
    /\ ~ClaimHeld(w)
    /\ LeaveRow(w)
    /\ UNCHANGED <<rowVars, queueVars, ledgerVars>>

(* An unexpected error: the row stays claimed for lease recovery.           *)
LeaveClaimed(w) ==
    /\ pc[w] \in {"build", "chain", "release"}
    /\ LeaveRow(w)
    /\ UNCHANGED <<rowVars, queueVars, ledgerVars>>

(* The process dies: its claims stay in the database, nobody works on them. *)
Crash(w) ==
    /\ pc[w] # "idle"
    /\ pc' = [pc EXCEPT ![w] = "idle"]
    /\ job' = [job EXCEPT ![w] = [r \in Rows |-> 0]]
    /\ current' = [current EXCEPT ![w] = NoRow]
    /\ seen' = [seen EXCEPT ![w] = {}]
    /\ verdict' = [verdict EXCEPT ![w] = "none"]
    /\ UNCHANGED <<rowVars, queueVars, ledgerVars>>

PassStep(w) ==
    \/ RecoverFail(w) \/ Recover(w) \/ Claim(w)
    \/ TakeRow(w) \/ EndPass(w)
    \/ BuildFails(w) \/ BuildWaits(w) \/ Build(w)
    \/ ChainLost(w) \/ ChainRefused(w) \/ ChainCommit(w)
    \/ ReleaseRetry(w) \/ ReleaseFail(w) \/ ReleaseLost(w)

Next ==
    \/ \E r \in Rows : Enqueue(r) \/ BecomeDue(r) \/ Expire(r)
    \/ \E S \in SUBSET Rows : Requeue(S)
    \/ \E w \in Workers : PassStep(w) \/ LeaveClaimed(w) \/ Crash(w)

Spec == Init /\ [][Next]_vars

(* attesta:build --loop runs passes for ever and timers always fire.  A     *)
(* worker may crash as often as it likes while it works on claimed rows, but *)
(* not before the claim of every pass it ever starts (strong fairness).     *)
Fairness ==
    /\ \A w \in Workers :
        WF_vars(PassStep(w)) /\ SF_vars(Recover(w)) /\ SF_vars(Claim(w))
    /\ \A r \in Rows : WF_vars(BecomeDue(r)) /\ WF_vars(Expire(r))

FairSpec == Spec /\ Fairness

-----------------------------------------------------------------------------
(* Properties.                                                              *)

Bodies  == [seq : Nat, row : Rows, previous : SUBSET Nat]
Hashes  == Seq(Bodies)
Records == [seq : Nat, row : Rows, previous : SUBSET Nat, prev : Hashes]

TypeOK ==
    /\ records \in Seq(Records)
    /\ head \in [next : Nat, hash : Hashes]
    /\ status \in [Rows -> Statuses]
    /\ attempts \in [Rows -> Nat]
    /\ due \in [Rows -> BOOLEAN]
    /\ expired \in [Rows -> BOOLEAN]
    /\ created \in [Rows -> Nat]
    /\ requeued \in SUBSET Rows
    /\ pc \in [Workers -> PCs]
    /\ job \in [Workers -> [Rows -> Nat]]
    /\ current \in [Workers -> Rows \cup {NoRow}]
    /\ seen \in [Workers -> SUBSET Nat]
    /\ verdict \in [Workers -> Verdicts]

(* The chain has no gap, no fork and no rewritten link, and the head is its *)
(* end (ledger.ts chainStatement, chain_head_guard, chain_guard).           *)
HashBefore(i) == IF i = 1 THEN Genesis ELSE RecordHash(records[i - 1])

ChainLinked ==
    /\ \A i \in 1..Len(records) :
        records[i].seq = i - 1 /\ records[i].prev = HashBefore(i)
    /\ head = [next |-> Len(records), hash |-> HashBefore(Len(records) + 1)]

(* Every statement names exactly the statements chained before it about its *)
(* commit, although the list was read before the signature was asked for    *)
(* and other workers chain meanwhile.                                       *)
PreviousComplete ==
    \A i \in 1..Len(records) :
        records[i].previous =
            {j \in 1..(i - 1) : SubjectOf[records[j].row] = SubjectOf[records[i].row]}

(* A row is done exactly when a record was chained for it, and at most one  *)
(* ever is, whatever leases expire, workers crash or rows are requeued.     *)
DoneIffChained ==
    /\ \A r \in Rows : status[r] = "done" <=> Chained(r)
    /\ \A i, j \in 1..Len(records) : records[i].row = records[j].row => i = j

(* A claim within its lease ends only by the worker that holds it: a worker *)
(* that was slow and lost its claim never ends another's.                   *)
LiveClaimEndedByHolder ==
    [][\A r \in Rows :
        status[r] = "claimed" /\ ~expired[r] /\ status'[r] # "claimed" =>
            \E w \in Workers :
                /\ job[w][r] = attempts[r] /\ job'[w][r] = 0
                /\ \A v \in Workers \ {w} : job[v][r] # attempts[r]]_vars

(* commit -> PR -> deploy: a statement that should have gone first comes    *)
(* second only if its row was queued, or requeued, behind the other's.      *)
KindOrder ==
    \A i, j \in 1..Len(records) :
        i < j /\ records[j].row \in WaitsFor(records[i].row) =>
            \/ created[records[j].row] > created[records[i].row]
            \/ records[j].row \in requeued

(* A row whose worker is gone is failed, not returned to the queue, once    *)
(* its attempts are at the limit (worker.ts, deviation 3).                  *)
Orphan(r) ==
    /\ status[r] = "claimed" /\ expired[r]
    /\ \A w \in Workers : job[w][r] # attempts[r]

RecoveryFailsAtLimit ==
    [][\A r \in Rows :
        Orphan(r) /\ attempts[r] >= MaxAttempts => status'[r] # "pending"]_vars

(* Every queued row ends done or failed ("still ends visible"), but for one  *)
(* way out: a claim at the limit, the row's own or that of a row it waits    *)
(* for, expired between the two statements of recovery and was returned.     *)
(* It may do so every time.  attempts beyond the limit tell, in a row that   *)
(* was never requeued.                                                       *)
ReturnedAtLimit(r) == attempts[r] > MaxAttempts

EventuallySettled ==
    \A r \in Rows :
        Open(r) ~> \/ status[r] \in {"done", "failed"}
                   \/ \E o \in {r} \cup WaitsFor(r) : ReturnedAtLimit(o)

(* The row a waiting row waits for always ends done or failed (worker.ts,   *)
(* deviation 5).                                                            *)
WaitedForSettles ==
    \A r \in Rows :
        (\E p \in Rows : r \in WaitsFor(p) /\ Open(p) /\ Open(r))
            ~> status[r] \in {"done", "failed"}

(* The abstract log this module implements.                                 *)
Fate(r) ==
    CASE status[r] = "absent" -> "absent"
      [] Open(r)              -> "open"
      [] status[r] = "done"   -> "attested"
      [] status[r] = "failed" -> "abandoned"

FateView == [r \in Rows |-> Fate(r)]
LogView ==
    [i \in 1..Len(records) |->
        [row |-> records[i].row, previous |-> records[i].previous]]

Log == INSTANCE AttestationLog WITH log <- LogView, fate <- FateView

(* The ledger and its queue implement the log: every observation is          *)
(* attested at most once, in one append-only log, with its predecessors      *)
(* about the commit, or given up visibly.                                    *)
ImplementsLog == Log!LogSpec
=============================================================================
