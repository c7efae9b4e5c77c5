------------------------ MODULE AttestaLedgerProofs ------------------------
(***************************************************************************)
(* Theorems about AttestaLedger, for any sets of rows and workers, any      *)
(* limits and any behaviour of the workers (no fairness is assumed).        *)
(***************************************************************************)
EXTENDS AttestaLedger, FiniteSetTheorems, SequenceTheorems, TLAPS

(***************************************************************************)
(* Type correctness.  A refunded attempt stays a natural number because a   *)
(* worker only ever works on a row it has claimed, with a count above zero. *)
(***************************************************************************)
WorkerInv ==
    \A w \in Workers :
        pc[w] \in {"build", "chain", "release"} =>
            /\ current[w] \in Rows
            /\ job[w][current[w]] # 0

TypeInv == TypeOK /\ WorkerInv /\ IsFiniteSet(Queued)

LEMMA SetStatusTyped ==
    ASSUME TypeOK, NEW S, NEW s \in Statuses, SetStatus(S, s)
    PROVE  status' \in [Rows -> Statuses] /\ expired' \in [Rows -> BOOLEAN]
BY DEF TypeOK, SetStatus, Statuses

LEMMA LeaveRowTyped ==
    ASSUME TypeInv, NEW w \in Workers, LeaveRow(w), current[w] \in Rows
    PROVE  /\ pc' \in [Workers -> PCs]
           /\ job' \in [Workers -> [Rows -> Nat]]
           /\ current' \in [Workers -> Rows \cup {NoRow}]
           /\ seen' \in [Workers -> SUBSET Nat]
           /\ verdict' \in [Workers -> Verdicts]
           /\ WorkerInv'
BY DEF TypeInv, TypeOK, WorkerInv, LeaveRow, PCs, Verdicts

LEMMA DecideTyped ==
    ASSUME TypeInv, NEW w \in Workers, NEW v \in Verdicts, Decide(w, v),
           pc[w] \in {"build", "chain"}
    PROVE  TypeOK' /\ WorkerInv'
BY DEF TypeInv, TypeOK, WorkerInv, Decide, rowVars, queueVars, ledgerVars, PCs, Verdicts

LEMMA RecordTyped ==
    ASSUME TypeOK, NEW r \in Rows, NEW S \in SUBSET Nat
    PROVE  /\ NextRecord(r, S) \in Records
           /\ RecordHash(NextRecord(r, S)) \in Hashes
BY DEF TypeOK, NextRecord, RecordHash, Records, Hashes, Bodies

(* A committed statement extends the records and the head, both well typed. *)
LEMMA AppendRecordTyped ==
    ASSUME TypeOK, NEW r \in Rows, NEW S \in SUBSET Nat, AppendRecord(NextRecord(r, S))
    PROVE  records' \in Seq(Records) /\ head' \in [next : Nat, hash : Hashes]
BY RecordTyped DEF TypeOK, AppendRecord, AdvanceHead

LEMMA PreviousTyped ==
    ASSUME TypeOK, NEW r \in Rows
    PROVE  PreviousOf(r) \in SUBSET Nat
BY DEF TypeOK, PreviousOf

(* What one step can do to the status of one row.                           *)
StatusMove(r) ==
    \/ Enqueue(r) /\ status'[r] = "pending"
    \/ /\ status[r] = "failed" /\ status'[r] = "pending"
       /\ \E S \in SUBSET Rows : r \in S /\ Requeue(S)
    \/ status[r] = "pending" /\ status'[r] = "claimed"
    \/ status[r] = "claimed" /\ status'[r] \in {"pending", "failed"}
    \/ /\ status[r] = "claimed" /\ status'[r] = "done"
       /\ \E w \in Workers : ChainCommit(w) /\ r = current[w]

LEMMA StatusMoves ==
    ASSUME TypeOK, [Next]_vars, NEW r \in Rows, status'[r] # status[r]
    PROVE  StatusMove(r)
<1> USE DEF rowVars, queueVars, ledgerVars, workerVars, StatusMove
<1>1. ASSUME NEW q \in Rows, Enqueue(q) PROVE StatusMove(r)
    BY <1>1 DEF Enqueue, TypeOK
<1>2. ASSUME NEW q \in Rows, BecomeDue(q) \/ Expire(q) PROVE FALSE
    BY <1>2 DEF BecomeDue, Expire
<1>3. ASSUME NEW S \in SUBSET Rows, Requeue(S) PROVE StatusMove(r)
    BY <1>3 DEF Requeue
<1>4. ASSUME NEW w \in Workers, RecoverFail(w) \/ Recover(w) PROVE StatusMove(r)
    BY <1>4 DEF RecoverFail, Recover, SetStatus, ExpiredClaims
<1>5. ASSUME NEW w \in Workers, Claim(w) PROVE StatusMove(r)
    BY <1>5 DEF Claim, SetStatus, Claimable
<1>6. ASSUME NEW w \in Workers,
             TakeRow(w) \/ EndPass(w) \/ BuildFails(w) \/ BuildWaits(w) \/ Build(w)
      PROVE  FALSE
    BY <1>6 DEF TakeRow, EndPass, BuildFails, BuildWaits, Build, Decide
<1>7. ASSUME NEW w \in Workers,
             ChainLost(w) \/ ChainRefused(w) \/ ReleaseLost(w) \/ LeaveClaimed(w) \/ Crash(w)
      PROVE  FALSE
    BY <1>7 DEF ChainLost, ChainRefused, ReleaseLost, LeaveClaimed, Crash, Decide
<1>8. ASSUME NEW w \in Workers, ChainCommit(w) PROVE StatusMove(r)
    BY <1>8 DEF ChainCommit, SetStatus, ClaimHeld
<1>9. ASSUME NEW w \in Workers, ReleaseRetry(w) \/ ReleaseFail(w) PROVE StatusMove(r)
    BY <1>9 DEF ReleaseRetry, ReleaseFail, SetStatus, ClaimHeld
<1>10. ASSUME UNCHANGED vars PROVE FALSE
    BY <1>10 DEF vars
<1> QED
    BY <1>1, <1>2, <1>3, <1>4, <1>5, <1>6, <1>7, <1>8, <1>9, <1>10 DEF Next, PassStep

(* Rows join the queue one at a time and never leave it.                    *)
LEMMA QueueGrows ==
    ASSUME TypeOK, [Next]_vars
    PROVE  \/ Queued' = Queued
           \/ \E r \in Rows : Enqueue(r) /\ Queued' = Queued \cup {r}
<1>1. ASSUME NEW r \in Rows, Enqueue(r) PROVE Queued' = Queued \cup {r}
    <2>1. \A q \in Rows : status'[q] # "absent" <=> status[q] # "absent" \/ q = r
        BY <1>1 DEF Enqueue, TypeOK
    <2> QED BY <2>1 DEF Queued
<1>2. CASE \A r \in Rows : ~Enqueue(r)
    <2>1. \A r \in Rows : status'[r] = "absent" <=> status[r] = "absent"
        BY <1>2, StatusMoves DEF StatusMove
    <2> QED BY <2>1 DEF Queued
<1> QED BY <1>1, <1>2

LEMMA QueueFinite ==
    ASSUME TypeOK, IsFiniteSet(Queued), [Next]_vars
    PROVE  IsFiniteSet(Queued')
BY QueueGrows, FS_AddElement

LEMMA TypeInvInit == Init => TypeInv
<1> SUFFICES ASSUME Init PROVE TypeInv
    OBVIOUS
<1>1. TypeOK /\ WorkerInv
    BY DEF Init, TypeOK, WorkerInv, Genesis, Hashes, Statuses, PCs, Verdicts
<1>2. Queued = {}
    BY DEF Init, Queued
<1> QED BY <1>1, <1>2, FS_EmptySet DEF TypeInv

LEMMA TypeInvStep == TypeInv /\ [Next]_vars => TypeInv'
<1> SUFFICES ASSUME TypeInv, [Next]_vars PROVE TypeInv'
    OBVIOUS
<1> USE DEF TypeInv, rowVars, queueVars, ledgerVars, workerVars
<1>1. ASSUME NEW r \in Rows, Enqueue(r) PROVE TypeOK' /\ WorkerInv'
    <2>1. Cardinality(Queued) \in Nat
        BY FS_CardinalityType
    <2> QED BY <1>1, <2>1 DEF Enqueue, TypeOK, WorkerInv, Statuses
<1>2. ASSUME NEW r \in Rows, BecomeDue(r) PROVE TypeOK' /\ WorkerInv'
    BY <1>2 DEF BecomeDue, TypeOK, WorkerInv
<1>3. ASSUME NEW r \in Rows, Expire(r) PROVE TypeOK' /\ WorkerInv'
    BY <1>3 DEF Expire, TypeOK, WorkerInv
<1>4. ASSUME NEW S \in SUBSET Rows, Requeue(S) PROVE TypeOK' /\ WorkerInv'
    BY <1>4 DEF Requeue, TypeOK, WorkerInv, Statuses
<1>5. ASSUME NEW w \in Workers, RecoverFail(w) PROVE TypeOK' /\ WorkerInv'
    BY <1>5, SetStatusTyped DEF RecoverFail, Step, TypeOK, WorkerInv, Statuses, PCs
<1>6. ASSUME NEW w \in Workers, Recover(w) PROVE TypeOK' /\ WorkerInv'
    BY <1>6, SetStatusTyped DEF Recover, Step, TypeOK, WorkerInv, Statuses, PCs
<1>7. ASSUME NEW w \in Workers, Claim(w) PROVE TypeOK' /\ WorkerInv'
    BY <1>7, SetStatusTyped DEF Claim, Step, TypeOK, WorkerInv, Statuses, PCs
<1>8. ASSUME NEW w \in Workers, TakeRow(w) PROVE TypeOK' /\ WorkerInv'
    BY <1>8 DEF TakeRow, Batch, Step, TypeOK, WorkerInv, PCs
<1>9. ASSUME NEW w \in Workers, EndPass(w) PROVE TypeOK' /\ WorkerInv'
    BY <1>9 DEF EndPass, Step, TypeOK, WorkerInv, PCs
<1>10. ASSUME NEW w \in Workers, BuildFails(w) PROVE TypeOK' /\ WorkerInv'
    BY <1>10, DecideTyped DEF BuildFails, Verdicts
<1>11. ASSUME NEW w \in Workers, BuildWaits(w) PROVE TypeOK' /\ WorkerInv'
    BY <1>11, DecideTyped DEF BuildWaits, Verdicts
<1>12. ASSUME NEW w \in Workers, Build(w) PROVE TypeOK' /\ WorkerInv'
    <2>1. PreviousOf(current[w]) \in SUBSET Nat
        BY <1>12, PreviousTyped DEF Build, Step, WorkerInv
    <2> QED BY <1>12, <2>1 DEF Build, Step, TypeOK, WorkerInv, PCs
<1>13. ASSUME NEW w \in Workers, ChainLost(w) PROVE TypeOK' /\ WorkerInv'
    BY <1>13, LeaveRowTyped DEF ChainLost, TypeOK, WorkerInv
<1>14. ASSUME NEW w \in Workers, ChainRefused(w) PROVE TypeOK' /\ WorkerInv'
    BY <1>14, DecideTyped DEF ChainRefused, Verdicts
<1>15. ASSUME NEW w \in Workers, ChainCommit(w) PROVE TypeOK' /\ WorkerInv'
    <2>1. current[w] \in Rows /\ seen[w] \in SUBSET Nat
        BY <1>15 DEF ChainCommit, WorkerInv, TypeOK
    <2>2. records' \in Seq(Records) /\ head' \in [next : Nat, hash : Hashes]
        BY <1>15, <2>1, AppendRecordTyped DEF ChainCommit
    <2>3. status' \in [Rows -> Statuses] /\ expired' \in [Rows -> BOOLEAN]
        BY <1>15, SetStatusTyped DEF ChainCommit, Statuses
    <2> QED BY <1>15, <2>1, <2>2, <2>3, LeaveRowTyped DEF ChainCommit, TypeOK
<1>16. ASSUME NEW w \in Workers, ReleaseRetry(w) PROVE TypeOK' /\ WorkerInv'
    <2>1. current[w] \in Rows
        BY <1>16 DEF ReleaseRetry, WorkerInv
    <2>2. Refunded(w) \in Nat
        BY <1>16, <2>1 DEF ReleaseRetry, ClaimHeld, Refunded, WorkerInv, TypeOK
    <2>3. attempts' \in [Rows -> Nat] /\ due' \in [Rows -> BOOLEAN]
        BY <1>16, <2>1, <2>2 DEF ReleaseRetry, TypeOK
    <2>4. status' \in [Rows -> Statuses] /\ expired' \in [Rows -> BOOLEAN]
        BY <1>16, SetStatusTyped DEF ReleaseRetry, Statuses
    <2> QED BY <1>16, <2>1, <2>3, <2>4, LeaveRowTyped DEF ReleaseRetry, TypeOK
<1>17. ASSUME NEW w \in Workers, ReleaseFail(w) PROVE TypeOK' /\ WorkerInv'
    <2>1. current[w] \in Rows
        BY <1>17 DEF ReleaseFail, WorkerInv
    <2>2. status' \in [Rows -> Statuses] /\ expired' \in [Rows -> BOOLEAN]
        BY <1>17, SetStatusTyped DEF ReleaseFail, Statuses
    <2> QED BY <1>17, <2>1, <2>2, LeaveRowTyped DEF ReleaseFail, TypeOK
<1>18. ASSUME NEW w \in Workers, ReleaseLost(w) PROVE TypeOK' /\ WorkerInv'
    BY <1>18, LeaveRowTyped DEF ReleaseLost, TypeOK, WorkerInv
<1>19. ASSUME NEW w \in Workers, LeaveClaimed(w) PROVE TypeOK' /\ WorkerInv'
    BY <1>19, LeaveRowTyped DEF LeaveClaimed, TypeOK, WorkerInv
<1>20. ASSUME NEW w \in Workers, Crash(w) PROVE TypeOK' /\ WorkerInv'
    BY <1>20 DEF Crash, TypeOK, WorkerInv, PCs, Verdicts
<1>21. ASSUME UNCHANGED vars PROVE TypeOK' /\ WorkerInv'
    BY <1>21 DEF vars, TypeOK, WorkerInv
<1>22. IsFiniteSet(Queued')
    BY QueueFinite
<1> QED
    BY <1>22, <1>1, <1>2, <1>3, <1>4, <1>5, <1>6, <1>7, <1>8, <1>9, <1>10, <1>11, <1>12,
       <1>13, <1>14, <1>15, <1>16, <1>17, <1>18, <1>19, <1>20, <1>21 DEF Next, PassStep

(* Every reachable state is well typed: in particular no attempt is refunded *)
(* that was not spent (worker.ts release), and the chain is a sequence of    *)
(* records.                                                                  *)
THEOREM TypeCorrect == Spec => []TypeOK
<1>1. Init => TypeInv
    BY TypeInvInit
<1>2. TypeInv /\ [Next]_vars => TypeInv'
    BY TypeInvStep
<1>3. TypeInv => TypeOK
    BY DEF TypeInv
<1> QED BY <1>1, <1>2, <1>3, PTL DEF Spec

(***************************************************************************)
(* The claim token.  The attempts a worker claimed a row with never exceed  *)
(* the row's count, and no two workers hold the same count: so at most one  *)
(* of them passes the claim check, although a refund takes the count back.  *)
(***************************************************************************)
TokenInv ==
    /\ \A w \in Workers, r \in Rows : job[w][r] <= attempts[r]
    /\ \A w \in Workers, r \in Rows : job[w][r] # 0 => r \in Queued
    /\ \A w, v \in Workers, r \in Rows :
        w # v /\ job[w][r] # 0 => job[w][r] # job[v][r]

LEMMA TokenInvInit == Init => TokenInv
BY DEF Init, TokenInv

(* A worker that gives a row up, and changes no count, keeps the tokens.    *)
LEMMA LeaveRowTokens ==
    ASSUME TypeInv, TokenInv, NEW w \in Workers, current[w] \in Rows, LeaveRow(w),
           attempts' = attempts, Queued \subseteq Queued'
    PROVE  TokenInv'
BY DEF TypeInv, TypeOK, TokenInv, LeaveRow

LEMMA TokenInvStep == TypeInv /\ TokenInv /\ [Next]_vars => TokenInv'
<1> SUFFICES ASSUME TypeInv, TokenInv, [Next]_vars PROVE TokenInv'
    OBVIOUS
<1> USE DEF rowVars, queueVars, ledgerVars, workerVars
<1>0. TypeOK /\ Queued \subseteq Queued'
    BY QueueGrows DEF TypeInv
<1>1. ASSUME UNCHANGED <<attempts, job>> PROVE TokenInv'
    BY <1>0, <1>1 DEF TokenInv
<1>2. ASSUME NEW w \in Workers, Claim(w) PROVE TokenInv'
    <2>1. PICK S \in SUBSET Claimable :
            /\ attempts' = [r \in Rows |-> IF r \in S THEN attempts[r] + 1 ELSE attempts[r]]
            /\ job' = [job EXCEPT ![w] = [r \in Rows |-> IF r \in S THEN attempts[r] + 1 ELSE 0]]
        BY <1>2 DEF Claim
    <2>2. S \subseteq Queued
        BY <2>1 DEF Claimable, Queued
    <2> QED BY <1>0, <2>1, <2>2 DEF TokenInv, TypeOK
<1>3. ASSUME NEW w \in Workers, Crash(w) PROVE TokenInv'
    BY <1>0, <1>3 DEF Crash, TokenInv, TypeOK
<1>4. ASSUME NEW w \in Workers, ChainLost(w) \/ ChainCommit(w) PROVE TokenInv'
    BY <1>0, <1>4, LeaveRowTokens DEF ChainLost, ChainCommit, TypeInv, WorkerInv
<1>5. ASSUME NEW w \in Workers, ReleaseLost(w) \/ ReleaseFail(w) \/ LeaveClaimed(w)
      PROVE  TokenInv'
    BY <1>0, <1>5, LeaveRowTokens DEF ReleaseLost, ReleaseFail, LeaveClaimed, TypeInv, WorkerInv
<1>6. ASSUME NEW w \in Workers, ReleaseRetry(w) PROVE TokenInv'
    <2>1. current[w] \in Rows /\ LeaveRow(w)
        BY <1>6 DEF ReleaseRetry, TypeInv, WorkerInv
    <2>2. CASE attempts' = attempts
        BY <1>0, <2>1, <2>2, LeaveRowTokens
    <2>3. CASE attempts' = [attempts EXCEPT ![current[w]] = Refunded(w)]
        <3>1. attempts[current[w]] = job[w][current[w]] /\ job[w][current[w]] # 0
            BY <1>6 DEF ReleaseRetry, ClaimHeld, TypeInv, WorkerInv
        <3>2. job' = [job EXCEPT ![w][current[w]] = 0]
            BY <2>1 DEF LeaveRow
        <3> QED BY <1>0, <2>1, <2>3, <3>1, <3>2 DEF Refunded, TokenInv, TypeOK
    <2> QED BY <1>6, <2>2, <2>3 DEF ReleaseRetry
<1>7. ASSUME NEW r \in Rows, Enqueue(r) \/ BecomeDue(r) \/ Expire(r)
      PROVE  UNCHANGED <<attempts, job>>
    BY <1>7 DEF Enqueue, BecomeDue, Expire
<1>8. ASSUME NEW S \in SUBSET Rows, Requeue(S) PROVE UNCHANGED <<attempts, job>>
    BY <1>8 DEF Requeue
<1>9. ASSUME NEW w \in Workers,
             RecoverFail(w) \/ Recover(w) \/ TakeRow(w) \/ EndPass(w) \/ BuildFails(w)
             \/ BuildWaits(w) \/ Build(w) \/ ChainRefused(w)
      PROVE  UNCHANGED <<attempts, job>>
    BY <1>9 DEF RecoverFail, Recover, TakeRow, EndPass, BuildFails, BuildWaits, Build,
                ChainRefused, Decide
<1> QED
    BY <1>1, <1>2, <1>3, <1>4, <1>5, <1>6, <1>7, <1>8, <1>9 DEF Next, PassStep, vars

(***************************************************************************)
(* The ledger.  Only ChainCommit writes it, under the row locks.            *)
(***************************************************************************)
CommittedRecord(w) == NextRecord(current[w], seen[w])

LEMMA CommitAppends ==
    ASSUME TypeInv, NEW w \in Workers, ChainCommit(w)
    PROVE  /\ current[w] \in Rows
           /\ Len(records) \in Nat
           /\ Len(records') = Len(records) + 1
           /\ \A i \in 1..Len(records) : records'[i] = records[i]
           /\ records'[Len(records) + 1] = CommittedRecord(w)
           /\ head' = AdvanceHead(CommittedRecord(w))
<1>1. current[w] \in Rows /\ seen[w] \in SUBSET Nat
    BY DEF ChainCommit, TypeInv, WorkerInv, TypeOK
<1>2. CommittedRecord(w) \in Records
    BY <1>1, RecordTyped DEF CommittedRecord, TypeInv
<1>3. records \in Seq(Records)
    BY DEF TypeInv, TypeOK
<1>4. records' = Append(records, CommittedRecord(w))
    BY DEF ChainCommit, AppendRecord, CommittedRecord
<1> QED
    BY <1>1, <1>2, <1>3, <1>4, AppendProperties, LenProperties
    DEF ChainCommit, AppendRecord, CommittedRecord

LEMMA LedgerWriter ==
    ASSUME [Next]_vars, \A w \in Workers : ~ChainCommit(w)
    PROVE  UNCHANGED <<records, head>>
BY DEF Next, PassStep, vars, rowVars, queueVars, ledgerVars, workerVars,
       Enqueue, BecomeDue, Expire, Requeue, RecoverFail, Recover, Claim, TakeRow, EndPass,
       BuildFails, BuildWaits, Build, ChainLost, ChainRefused, ReleaseRetry, ReleaseFail,
       ReleaseLost, LeaveClaimed, Crash, Decide

LEMMA RowsTyped ==
    ASSUME TypeOK, NEW i \in 1..Len(records)
    PROVE  records[i] \in Records
BY DEF TypeOK

(* The chain has no gap, no fork and no rewritten link.                     *)
LEMMA ChainLinkedStep ==
    ASSUME TypeInv, ChainLinked, [Next]_vars
    PROVE  ChainLinked'
<1>1. CASE \A w \in Workers : ~ChainCommit(w)
    BY <1>1, LedgerWriter DEF ChainLinked, HashBefore
<1>2. ASSUME NEW w \in Workers, ChainCommit(w) PROVE ChainLinked'
    <2> DEFINE n == Len(records)
    <2>1. /\ n \in Nat /\ Len(records') = n + 1
          /\ \A i \in 1..n : records'[i] = records[i]
          /\ records'[n + 1] = CommittedRecord(w)
          /\ head' = AdvanceHead(CommittedRecord(w))
        BY <1>2, CommitAppends
    <2>2. \A i \in 1..(n + 1) : HashBefore(i)' = HashBefore(i)
        BY <2>1 DEF HashBefore
    <2>3. CommittedRecord(w).seq = n /\ CommittedRecord(w).prev = HashBefore(n + 1)
        BY DEF CommittedRecord, NextRecord, ChainLinked
    <2>4. \A i \in 1..(n + 1) :
            records'[i].seq = i - 1 /\ records'[i].prev = HashBefore(i)
        BY <2>1, <2>3 DEF ChainLinked
    <2>5. head' = [next |-> n + 1, hash |-> RecordHash(records'[n + 1])]
        BY <2>1 DEF AdvanceHead, ChainLinked
    <2>6. HashBefore(Len(records) + 1)' = RecordHash(records'[n + 1])
        <3>1. ASSUME NEW m, m = n + 2 PROVE HashBefore(m)' = RecordHash(records'[n + 1])
            BY <2>1, <3>1 DEF HashBefore, RecordHash
        <3>2. (Len(records) + 1)' = n + 2
            BY <2>1
        <3> QED BY <3>1, <3>2 DEF HashBefore
    <2> QED BY <2>1, <2>2, <2>4, <2>5, <2>6 DEF ChainLinked
<1> QED BY <1>1, <1>2

(* The list a build saw is the list under the chain lock, or the commit is  *)
(* refused: so every statement names all its predecessors about the commit. *)
LEMMA PreviousCompleteStep ==
    ASSUME TypeInv, PreviousComplete, [Next]_vars
    PROVE  PreviousComplete'
<1>1. CASE \A w \in Workers : ~ChainCommit(w)
    BY <1>1, LedgerWriter DEF PreviousComplete
<1>2. ASSUME NEW w \in Workers, ChainCommit(w) PROVE PreviousComplete'
    <2> DEFINE n == Len(records)
               About(i) == {j \in 1..(i - 1) :
                                SubjectOf[records'[j].row] = SubjectOf[records'[i].row]}
    <2>1. /\ n \in Nat /\ Len(records') = n + 1
          /\ \A i \in 1..n : records'[i] = records[i]
          /\ records'[n + 1] = CommittedRecord(w)
        BY <1>2, CommitAppends
    <2>2. ASSUME NEW i \in 1..n PROVE records'[i].previous = About(i)
        BY <2>1, <2>2 DEF PreviousComplete
    <2>3. records'[n + 1].previous = PreviousOf(current[w])
        BY <1>2, <2>1 DEF ChainCommit, Stale, CommittedRecord, NextRecord
    <2>4. records'[n + 1].row = current[w]
        BY <2>1 DEF CommittedRecord, NextRecord
    <2>5. About(n + 1) = PreviousOf(current[w])
        BY <2>1, <2>4 DEF PreviousOf
    <2>6. \A i \in 1..(n + 1) : records'[i].previous = About(i)
        BY <2>1, <2>2, <2>3, <2>5
    <2> QED BY <2>1, <2>6 DEF PreviousComplete
<1> QED BY <1>1, <1>2

(* A row leaves "done" never and enters it only with its record.            *)
LEMMA DoneIffChainedStep ==
    ASSUME TypeInv, DoneIffChained, [Next]_vars
    PROVE  DoneIffChained'
<1>0. TypeOK
    BY DEF TypeInv
<1>1. CASE \A w \in Workers : ~ChainCommit(w)
    <2>1. \A r \in Rows : status'[r] = "done" <=> status[r] = "done"
        BY <1>0, <1>1, StatusMoves DEF StatusMove, Enqueue
    <2> QED BY <1>1, <2>1, LedgerWriter DEF DoneIffChained, Chained
<1>2. ASSUME NEW w \in Workers, ChainCommit(w) PROVE DoneIffChained'
    <2> DEFINE n == Len(records)
    <2>1. /\ current[w] \in Rows /\ n \in Nat /\ Len(records') = n + 1
          /\ \A i \in 1..n : records'[i] = records[i]
          /\ records'[n + 1] = CommittedRecord(w)
        BY <1>2, CommitAppends
    <2>6. records'[n + 1].row = current[w]
        BY <2>1 DEF CommittedRecord, NextRecord
    <2>2. ~Chained(current[w])
        BY <1>2 DEF ChainCommit, Contradicted
    <2>3. \A r \in Rows : Chained(r)' <=> Chained(r) \/ r = current[w]
        BY <2>1, <2>6 DEF Chained
    <2>4. \A r \in Rows : status'[r] = IF r = current[w] THEN "done" ELSE status[r]
        BY <1>2 DEF ChainCommit, SetStatus
    <2>5. ASSUME NEW i \in 1..(n + 1), NEW j \in 1..(n + 1), records'[i].row = records'[j].row
          PROVE  i = j
        <3>1. CASE i \in 1..n /\ j \in 1..n
            BY <2>1, <2>5, <3>1 DEF DoneIffChained
        <3>2. CASE i = n + 1 \/ j = n + 1
            BY <2>1, <2>2, <2>5, <2>6, <3>2 DEF Chained
        <3> QED BY <2>1, <3>1, <3>2
    <2> QED BY <2>1, <2>3, <2>4, <2>5 DEF DoneIffChained
<1> QED BY <1>1, <1>2

(* Everything above holds in every reachable state.                         *)
LedgerInv ==
    TypeInv /\ TokenInv /\ ChainLinked /\ PreviousComplete /\ DoneIffChained

LEMMA LedgerInvInit == Init => LedgerInv
<1> SUFFICES ASSUME Init PROVE LedgerInv
    OBVIOUS
<1>1. records = <<>> /\ Len(records) = 0
    BY DEF Init
<1>2. ChainLinked
    BY <1>1 DEF Init, ChainLinked, HashBefore
<1>3. PreviousComplete /\ DoneIffChained
    BY <1>1 DEF Init, PreviousComplete, DoneIffChained, Chained
<1> QED BY <1>2, <1>3, TypeInvInit, TokenInvInit DEF LedgerInv

LEMMA LedgerInvStep == LedgerInv /\ [Next]_vars => LedgerInv'
BY TypeInvStep, TokenInvStep, ChainLinkedStep, PreviousCompleteStep, DoneIffChainedStep
DEF LedgerInv

LEMMA LedgerInvHolds == Spec => []LedgerInv
BY LedgerInvInit, LedgerInvStep, PTL DEF Spec

(* The hash chain of a tenant has no gap, no fork and no rewritten link, and *)
(* chain_head is its end, however many workers chain at once                 *)
(* (ledger.ts chainStatement).                                               *)
THEOREM ChainAlwaysLinked == Spec => []ChainLinked
<1>1. LedgerInv => ChainLinked
    BY DEF LedgerInv
<1> QED BY <1>1, LedgerInvHolds, PTL

(* Every statement names exactly the statements chained before it about its  *)
(* commit, although it was built and signed outside the ledger transaction   *)
(* (builder.ts readPrevious, ledger.ts step 4).                              *)
THEOREM PreviousAlwaysComplete == Spec => []PreviousComplete
<1>1. LedgerInv => PreviousComplete
    BY DEF LedgerInv
<1> QED BY <1>1, LedgerInvHolds, PTL

(* A row is attested exactly once: it is done if and only if one record was  *)
(* chained for it, whatever leases expire, workers crash or rows are         *)
(* requeued (worker.ts deviation 1, ledger.ts steps 2, 3 and markDone).      *)
THEOREM AttestedExactlyOnce == Spec => []DoneIffChained
<1>1. LedgerInv => DoneIffChained
    BY DEF LedgerInv
<1> QED BY <1>1, LedgerInvHolds, PTL

(***************************************************************************)
(* A worker that lost its claim changes nothing.                            *)
(***************************************************************************)
EndedByHolder(r) ==
    status[r] = "claimed" /\ ~expired[r] /\ status'[r] # "claimed" =>
        \E w \in Workers :
            /\ job[w][r] = attempts[r] /\ job'[w][r] = 0
            /\ \A v \in Workers \ {w} : job[v][r] # attempts[r]

(* The one worker that passes the claim check holds the row's token alone.  *)
LEMMA HolderIsAlone ==
    ASSUME LedgerInv, NEW w \in Workers, LeaveRow(w), ClaimHeld(w),
           current[w] \in Rows, job[w][current[w]] # 0
    PROVE  EndedByHolder(current[w])
<1> DEFINE c == current[w]
<1>1. job[w][c] = attempts[c]
    BY DEF ClaimHeld
<1>2. job'[w][c] = 0
    BY DEF LeaveRow, LedgerInv, TypeInv, TypeOK
<1>3. \A v \in Workers \ {w} : job[v][c] # attempts[c]
    BY <1>1 DEF LedgerInv, TokenInv
<1> QED BY <1>1, <1>2, <1>3 DEF EndedByHolder

LEMMA EndedByHolderStep ==
    ASSUME LedgerInv, [Next]_vars, NEW r \in Rows
    PROVE  EndedByHolder(r)
<1> SUFFICES ASSUME status[r] = "claimed", ~expired[r], status'[r] # "claimed"
             PROVE  EndedByHolder(r)
    BY DEF EndedByHolder
<1> USE DEF rowVars, queueVars, ledgerVars, workerVars
<1>0. TypeOK /\ WorkerInv
    BY DEF LedgerInv, TypeInv
<1>1. ASSUME NEW q \in Rows, Enqueue(q) \/ BecomeDue(q) \/ Expire(q) PROVE FALSE
    BY <1>0, <1>1 DEF Enqueue, BecomeDue, Expire, TypeOK
<1>2. ASSUME NEW S \in SUBSET Rows, Requeue(S) PROVE FALSE
    BY <1>2 DEF Requeue
<1>3. ASSUME NEW w \in Workers, RecoverFail(w) \/ Recover(w) \/ Claim(w) PROVE FALSE
    BY <1>3 DEF RecoverFail, Recover, Claim, SetStatus, ExpiredClaims, Claimable
<1>4. ASSUME NEW w \in Workers,
             TakeRow(w) \/ EndPass(w) \/ BuildFails(w) \/ BuildWaits(w) \/ Build(w)
      PROVE  FALSE
    BY <1>4 DEF TakeRow, EndPass, BuildFails, BuildWaits, Build, Decide
<1>5. ASSUME NEW w \in Workers,
             ChainLost(w) \/ ChainRefused(w) \/ ReleaseLost(w) \/ LeaveClaimed(w) \/ Crash(w)
      PROVE  FALSE
    BY <1>5 DEF ChainLost, ChainRefused, ReleaseLost, LeaveClaimed, Crash, Decide
<1>6. ASSUME NEW w \in Workers, ChainCommit(w) \/ ReleaseRetry(w) \/ ReleaseFail(w)
      PROVE  EndedByHolder(r)
    <2>1. LeaveRow(w) /\ ClaimHeld(w)
        BY <1>6 DEF ChainCommit, ReleaseRetry, ReleaseFail
    <2>2. current[w] \in Rows /\ job[w][current[w]] # 0
        BY <1>0, <1>6 DEF ChainCommit, ReleaseRetry, ReleaseFail, WorkerInv
    <2>3. r = current[w]
        BY <1>6 DEF ChainCommit, ReleaseRetry, ReleaseFail, SetStatus
    <2> QED BY <2>1, <2>2, <2>3, HolderIsAlone
<1>7. CASE UNCHANGED vars
    BY <1>7 DEF vars
<1> QED
    BY <1>1, <1>2, <1>3, <1>4, <1>5, <1>6, <1>7 DEF Next, PassStep

(* A claim within its lease ends only by the worker that holds it, and only  *)
(* one worker does (worker.ts deviation 2).                                  *)
THEOREM ClaimsEndByHolder == Spec => LiveClaimEndedByHolder
<1>1. LedgerInv /\ [Next]_vars => [\A r \in Rows : EndedByHolder(r)]_vars
    BY EndedByHolderStep
<1> QED BY <1>1, LedgerInvHolds, PTL DEF Spec, LiveClaimEndedByHolder, EndedByHolder

(***************************************************************************)
(* The order of the kinds.  Once a build found nothing to wait for, a row   *)
(* it waits for can only be open if it was queued, or requeued, later.      *)
(***************************************************************************)
LaterOnly(r) ==
    \A o \in WaitsFor(r) : Open(o) => created[o] > created[r] \/ o \in requeued

OrderInv ==
    /\ \A r \in Queued : created[r] <= Cardinality(Queued)
    /\ \A w \in Workers : pc[w] = "chain" => LaterOnly(current[w])
    /\ \A r \in Rows : status[r] = "done" => LaterOnly(r)

LEMMA WaitsForRows ==
    ASSUME NEW r, NEW o \in WaitsFor(r)
    PROVE  o \in Rows
BY DEF WaitsFor

LEMMA CreatedOnce ==
    ASSUME TypeOK, [Next]_vars
    PROVE  /\ \A r \in Queued : created'[r] = created[r]
           /\ requeued \subseteq requeued'
<1>1. ASSUME NEW r \in Rows, Enqueue(r)
      PROVE  /\ \A q \in Queued : created'[q] = created[q]
             /\ requeued \subseteq requeued'
    BY <1>1 DEF Enqueue, Queued, TypeOK
<1>2. ASSUME NEW S \in SUBSET Rows, Requeue(S)
      PROVE  created' = created /\ requeued \subseteq requeued'
    BY <1>2 DEF Requeue
<1>3. ASSUME NEW r \in Rows, BecomeDue(r) \/ Expire(r)
      PROVE  created' = created /\ requeued' = requeued
    BY <1>3 DEF BecomeDue, Expire, queueVars
<1>4. ASSUME NEW w \in Workers, PassStep(w) \/ LeaveClaimed(w) \/ Crash(w)
      PROVE  created' = created /\ requeued' = requeued
    BY <1>4 DEF PassStep, RecoverFail, Recover, Claim, TakeRow, EndPass, BuildFails,
           BuildWaits, Build, ChainLost, ChainRefused, ChainCommit, ReleaseRetry,
           ReleaseFail, ReleaseLost, LeaveClaimed, Crash, Decide, queueVars
<1>5. CASE UNCHANGED vars
    BY <1>5 DEF vars, queueVars
<1> QED BY <1>1, <1>2, <1>3, <1>4, <1>5 DEF Next

(* Places in the queue are handed out in the order the rows are queued.     *)
LEMMA PlacesStep ==
    ASSUME TypeInv, [Next]_vars, \A r \in Queued : created[r] <= Cardinality(Queued)
    PROVE  /\ \A r \in Queued' : created'[r] <= Cardinality(Queued')
           /\ \A o \in Rows, r \in Queued : Enqueue(o) => created'[o] > created'[r]
<1>0. TypeOK /\ IsFiniteSet(Queued) /\ Cardinality(Queued) \in Nat
    BY FS_CardinalityType DEF TypeInv
<1>1. ASSUME NEW o \in Rows, Enqueue(o)
      PROVE  /\ created'[o] = 1 + Cardinality(Queued)
             /\ o \notin Queued
    BY <1>0, <1>1 DEF Enqueue, Queued, TypeOK
<1>2. \A r \in Queued : created'[r] = created[r] /\ created[r] \in Nat
    BY <1>0, CreatedOnce DEF TypeOK, Queued
<1>3. ASSUME NEW o \in Rows, Enqueue(o), Queued' = Queued \cup {o}
      PROVE  \A r \in Queued' : created'[r] <= Cardinality(Queued')
    <2>1. Cardinality(Queued') = Cardinality(Queued) + 1
        BY <1>0, <1>1, <1>3, FS_AddElement
    <2> QED BY <1>0, <1>1, <1>2, <1>3, <2>1
<1>4. ASSUME Queued' = Queued
      PROVE  \A r \in Queued' : created'[r] <= Cardinality(Queued')
    BY <1>2, <1>4
<1>5. \A r \in Queued' : created'[r] <= Cardinality(Queued')
    BY <1>0, <1>3, <1>4, QueueGrows
<1> QED BY <1>0, <1>1, <1>2, <1>5

LEMMA LaterOnlyStep ==
    ASSUME TypeInv, OrderInv, [Next]_vars, NEW r \in Queued, LaterOnly(r)
    PROVE  LaterOnly(r)'
<1>0. TypeOK
    BY DEF TypeInv
<1> SUFFICES ASSUME NEW o \in WaitsFor(r), Open(o)'
             PROVE  created'[o] > created'[r] \/ o \in requeued'
    BY DEF LaterOnly, WaitsFor, EarlierKinds
<1>1. o \in Rows
    BY WaitsForRows
<1>2. CASE Open(o)
    <2>1. o \in Queued
        BY <1>1, <1>2 DEF Open, Queued
    <2> QED BY <1>0, <1>2, <2>1, CreatedOnce DEF LaterOnly
<1>3. CASE ~Open(o)
    <2>1. CASE Enqueue(o)
        BY <1>1, <2>1, PlacesStep DEF OrderInv
    <2>2. CASE \E S \in SUBSET Rows : o \in S /\ Requeue(S)
        BY <2>2 DEF Requeue
    <2>3. status'[o] # status[o]
        BY <1>3 DEF Open
    <2> QED BY <1>0, <1>1, <1>3, <2>1, <2>2, <2>3, StatusMoves DEF StatusMove, Open
<1> QED BY <1>2, <1>3

LEMMA HeldRowsQueued ==
    ASSUME TypeInv, TokenInv, NEW w \in Workers, pc[w] \in {"build", "chain", "release"}
    PROVE  current[w] \in Queued
BY DEF TypeInv, WorkerInv, TokenInv

(* A worker reaches the chain step by a build that had nothing to wait for, *)
(* or was there before.                                                     *)
LEMMA ChainEntry ==
    ASSUME TypeInv, [Next]_vars, NEW w \in Workers, pc'[w] = "chain"
    PROVE  \/ pc[w] = "chain" /\ current'[w] = current[w]
           \/ /\ pc[w] = "build" /\ current'[w] = current[w]
              /\ ~Waiting(current[w])
<1>0. TypeOK
    BY DEF TypeInv
<1>1. ASSUME NEW v \in Workers, Build(v) PROVE
           \/ pc[w] = "chain" /\ current'[w] = current[w]
           \/ pc[w] = "build" /\ current'[w] = current[w] /\ ~Waiting(current[w])
    BY <1>0, <1>1 DEF Build, Step, TypeOK
<1>2. ASSUME NEW v \in Workers,
             RecoverFail(v) \/ Recover(v) \/ Claim(v) \/ TakeRow(v) \/ EndPass(v)
             \/ BuildFails(v) \/ BuildWaits(v) \/ ChainRefused(v)
      PROVE  pc[w] = "chain" /\ current'[w] = current[w]
    BY <1>0, <1>2 DEF RecoverFail, Recover, Claim, TakeRow, EndPass, BuildFails, BuildWaits,
           ChainRefused, Decide, Step, TypeOK
<1>3. ASSUME NEW v \in Workers,
             ChainLost(v) \/ ChainCommit(v) \/ ReleaseRetry(v) \/ ReleaseFail(v)
             \/ ReleaseLost(v) \/ LeaveClaimed(v) \/ Crash(v)
      PROVE  pc[w] = "chain" /\ current'[w] = current[w]
    BY <1>0, <1>3 DEF ChainLost, ChainCommit, ReleaseRetry, ReleaseFail, ReleaseLost,
           LeaveClaimed, Crash, LeaveRow, TypeOK
<1>4. ASSUME NEW r \in Rows, Enqueue(r) \/ BecomeDue(r) \/ Expire(r)
      PROVE  UNCHANGED workerVars
    BY <1>4 DEF Enqueue, BecomeDue, Expire
<1>5. ASSUME NEW S \in SUBSET Rows, Requeue(S) PROVE UNCHANGED workerVars
    BY <1>5 DEF Requeue
<1> QED
    BY <1>1, <1>2, <1>3, <1>4, <1>5 DEF Next, PassStep, vars, workerVars

LEMMA OrderInvStep ==
    ASSUME LedgerInv, OrderInv, [Next]_vars
    PROVE  OrderInv'
<1>0. TypeInv /\ TypeOK /\ TokenInv
    BY DEF LedgerInv, TypeInv
<1>1. \A r \in Queued' : created'[r] <= Cardinality(Queued')
    BY <1>0, PlacesStep DEF OrderInv
<1>2. ASSUME NEW w \in Workers, pc'[w] = "chain" PROVE LaterOnly(current[w])'
    <2> DEFINE r == current[w]
    <2>1. current'[w] = r /\ (pc[w] = "chain" \/ (pc[w] = "build" /\ ~Waiting(r)))
        BY <1>0, <1>2, ChainEntry
    <2>2. r \in Queued
        BY <1>0, <2>1, HeldRowsQueued
    <2>3. LaterOnly(r)
        BY <2>1, WaitsForRows DEF OrderInv, LaterOnly, Waiting
    <2>4. ASSUME NEW q, q = r PROVE LaterOnly(q)'
        BY <1>0, <2>2, <2>3, <2>4, LaterOnlyStep
    <2> QED BY <2>1, <2>4 DEF LaterOnly
<1>3. ASSUME NEW r \in Rows, status'[r] = "done" PROVE LaterOnly(r)'
    <2>1. r \in Queued /\ LaterOnly(r)
        <3>1. CASE status[r] = "done"
            BY <3>1 DEF OrderInv, Queued
        <3>2. CASE status[r] # "done"
            <4>1. PICK w \in Workers : ChainCommit(w) /\ r = current[w]
                BY <1>0, <1>3, <3>2, StatusMoves DEF StatusMove
            <4> QED BY <1>0, <4>1, HeldRowsQueued DEF ChainCommit, OrderInv
        <3> QED BY <3>1, <3>2
    <2> QED BY <1>0, <2>1, LaterOnlyStep
<1> QED BY <1>1, <1>2, <1>3 DEF OrderInv

(* A statement is chained while its row is claimed: each earlier one that    *)
(* should have waited for it found it not yet queued, or failed.             *)
LEMMA KindOrderStep ==
    ASSUME LedgerInv, OrderInv, KindOrder, [Next]_vars
    PROVE  KindOrder'
<1>0. TypeInv /\ TypeOK /\ DoneIffChained
    BY DEF LedgerInv, TypeInv
<1>1. ASSUME NEW i \in 1..Len(records) PROVE records[i].row \in Queued
    <2>1. records[i].row \in Rows
        BY <1>0, RowsTyped DEF Records
    <2> QED BY <1>0, <2>1 DEF DoneIffChained, Chained, Queued
<1>2. CASE \A w \in Workers : ~ChainCommit(w)
    BY <1>0, <1>1, <1>2, LedgerWriter, CreatedOnce DEF KindOrder, WaitsFor, EarlierKinds
<1>3. ASSUME NEW w \in Workers, ChainCommit(w) PROVE KindOrder'
    <2> DEFINE n == Len(records)
               Late(i, j) == \/ created'[records'[j].row] > created'[records'[i].row]
                             \/ records'[j].row \in requeued'
    <2>1. /\ current[w] \in Rows /\ n \in Nat /\ Len(records') = n + 1
          /\ \A i \in 1..n : records'[i] = records[i]
          /\ records'[n + 1] = CommittedRecord(w)
        BY <1>0, <1>3, CommitAppends
    <2>2. records'[n + 1].row = current[w]
        BY <2>1 DEF CommittedRecord, NextRecord
    <2>3. created' = created /\ requeued' = requeued
        BY <1>3 DEF ChainCommit, queueVars
    <2>4. ASSUME NEW i \in 1..n, NEW j \in 1..n, i < j, records[j].row \in WaitsFor(records[i].row)
          PROVE  Late(i, j)
        BY <2>1, <2>3, <2>4 DEF KindOrder
    <2>5. ASSUME NEW i \in 1..n, current[w] \in WaitsFor(records[i].row)
          PROVE  Late(i, n + 1)
        <3>1. Open(current[w])
            BY <1>3 DEF ChainCommit, ClaimHeld, Open
        <3>2. LaterOnly(records[i].row)
            <4>1. records[i].row \in Rows
                BY <1>0, RowsTyped DEF Records
            <4>2. Chained(records[i].row)
                BY DEF Chained
            <4> QED BY <1>0, <4>1, <4>2 DEF DoneIffChained, OrderInv
        <3> QED BY <2>1, <2>2, <2>3, <2>5, <3>1, <3>2 DEF LaterOnly
    <2>6. ASSUME NEW i \in 1..(n + 1), NEW j \in 1..(n + 1), i < j,
                 records'[j].row \in WaitsFor(records'[i].row)
          PROVE  Late(i, j)
        <3>1. CASE j \in 1..n
            BY <2>1, <2>4, <2>6, <3>1
        <3>2. CASE j = n + 1
            BY <2>1, <2>2, <2>5, <2>6, <3>2
        <3> QED BY <2>1, <3>1, <3>2
    <2> QED BY <2>1, <2>6 DEF KindOrder, WaitsFor, EarlierKinds
<1> QED BY <1>2, <1>3

LEMMA OrderInit == Init => OrderInv /\ KindOrder
<1> SUFFICES ASSUME Init PROVE OrderInv /\ KindOrder
    OBVIOUS
<1>1. records = <<>> /\ Len(records) = 0
    BY DEF Init
<1>2. Queued = {}
    BY DEF Init, Queued
<1> QED BY <1>1, <1>2 DEF Init, OrderInv, KindOrder

(* commit, pull request, deployment: a statement that should have gone first *)
(* comes second only if its row was queued, or requeued, behind the other's  *)
(* (builder.ts waitForEarlierKinds), although the wait is decided in a read  *)
(* snapshot long before the ledger transaction.                              *)
THEOREM KindsInOrder == Spec => []KindOrder
<1> DEFINE Inv == LedgerInv /\ OrderInv /\ KindOrder
<1>1. Init => Inv
    BY LedgerInvInit, OrderInit
<1>2. Inv /\ [Next]_vars => Inv'
    BY LedgerInvStep, OrderInvStep, KindOrderStep
<1> QED BY <1>1, <1>2, PTL DEF Spec

(***************************************************************************)
(* The ledger implements the abstract log.                                  *)
(***************************************************************************)
LEMMA FateOf ==
    ASSUME TypeOK
    PROVE  /\ FateView = [r \in Rows |-> FateView[r]]
           /\ \A r \in Rows :
                /\ status[r] = "absent" => FateView[r] = "absent"
                /\ Open(r) => FateView[r] = "open"
                /\ status[r] = "done" => FateView[r] = "attested"
                /\ status[r] = "failed" => FateView[r] = "abandoned"
<1> SUFFICES ASSUME NEW r \in Rows
             PROVE  /\ status[r] = "absent" => FateView[r] = "absent"
                    /\ Open(r) => FateView[r] = "open"
                    /\ status[r] = "done" => FateView[r] = "attested"
                    /\ status[r] = "failed" => FateView[r] = "abandoned"
    BY DEF FateView
<1>1. FateView[r] = Fate(r)
    BY DEF FateView
<1> QED BY <1>1 DEF Fate, Open

Entries == [row : Rows, previous : SUBSET Nat]

LEMMA LogViewTyped ==
    ASSUME TypeOK
    PROVE  /\ LogView \in Seq(Entries)
           /\ Len(LogView) = Len(records)
           /\ Len(records) \in Nat
           /\ \A i \in 1..Len(records) :
                LogView[i] = [row |-> records[i].row, previous |-> records[i].previous]
<1>1. Len(records) \in Nat
    BY LenProperties DEF TypeOK
<1>2. LogView \in [1..Len(records) -> Entries]
    BY RowsTyped DEF LogView, Records, Entries
<1>3. LogView \in Seq(Entries)
    BY <1>1, <1>2, SeqDef
<1>4. DOMAIN LogView = 1..Len(LogView)
    BY <1>3, LenProperties
<1>5. Len(LogView) = Len(records)
    BY <1>1, <1>2, <1>3, <1>4, LenProperties
<1> QED BY <1>1, <1>3, <1>5 DEF LogView

LEMMA CommitAttests ==
    ASSUME TypeInv, TypeInv', NEW w \in Workers, ChainCommit(w)
    PROVE  LogView' = Append(LogView, [row |-> current[w],
                                       previous |-> Log!About(current[w], LogView)])
<1> DEFINE n == Len(records)
           e == [row |-> current[w], previous |-> Log!About(current[w], LogView)]
           later == LogView'
<1>1. /\ current[w] \in Rows /\ n \in Nat /\ Len(records') = n + 1
      /\ \A i \in 1..n : records'[i] = records[i]
      /\ records'[n + 1] = CommittedRecord(w)
    BY CommitAppends
<1>2. /\ LogView \in Seq(Entries) /\ Len(LogView) = n
      /\ \A i \in 1..n :
            LogView[i] = [row |-> records[i].row, previous |-> records[i].previous]
    BY LogViewTyped DEF TypeInv
<1>3. /\ later \in Seq(Entries) /\ Len(later) = n + 1
      /\ \A i \in 1..(n + 1) :
            later[i] = [row |-> records'[i].row, previous |-> records'[i].previous]
    <2>1. (/\ LogView \in Seq(Entries)
           /\ Len(LogView) = Len(records)
           /\ \A i \in 1..Len(records) :
                LogView[i] = [row |-> records[i].row, previous |-> records[i].previous])'
        BY LogViewTyped, PTL DEF TypeInv
    <2> QED BY <1>1, <2>1 DEF Entries
<1>4. Log!About(current[w], LogView) = PreviousOf(current[w])
    <2>1. \A i \in 1..n : LogView[i].row = records[i].row
        BY <1>1 DEF LogView
    <2> QED BY <1>1, <1>2, <2>1 DEF Log!About, PreviousOf
<1>5. PreviousOf(current[w]) = seen[w]
    BY DEF ChainCommit, Stale
<1>6. e \in Entries /\ e = later[n + 1]
    <2>1. PreviousOf(current[w]) \in SUBSET Nat
        BY <1>1, PreviousTyped DEF TypeInv
    <2> QED BY <1>1, <1>3, <1>4, <1>5, <2>1 DEF Entries, CommittedRecord, NextRecord
<1>7. /\ Append(LogView, e) \in Seq(Entries) /\ Len(Append(LogView, e)) = n + 1
      /\ \A i \in 1..n : Append(LogView, e)[i] = LogView[i]
      /\ Append(LogView, e)[n + 1] = e
    BY <1>2, <1>6, AppendProperties
<1>8. \A i \in 1..(n + 1) : later[i] = Append(LogView, e)[i]
    <2>1. \A i \in 1..n : i \in 1..(n + 1) /\ later[i] = LogView[i]
        BY <1>1, <1>2, <1>3
    <2>2. \A i \in 1..n : later[i] = Append(LogView, e)[i]
        BY <1>7, <2>1
    <2>3. later[n + 1] = Append(LogView, e)[n + 1]
        BY <1>6, <1>7
    <2>4. \A i \in 1..(n + 1) : i \in 1..n \/ i = n + 1
        BY <1>1
    <2> QED BY <2>2, <2>3, <2>4
<1> QED BY <1>3, <1>7, <1>8, SeqEqual

(* A step that commits no statement leaves the abstract log as it is.       *)
LEMMA NoCommitKeepsLog ==
    ASSUME [Next]_vars, \A w \in Workers : ~ChainCommit(w)
    PROVE  LogView' = LogView
BY LedgerWriter DEF LogView

LEMMA Simulation ==
    ASSUME TypeInv, TypeInv', [Next]_vars
    PROVE  [Log!LogNext]_(Log!logVars)
<1> USE DEF rowVars, queueVars, ledgerVars, workerVars
<1> DEFINE fate == FateView
           later == FateView'
<1>0. TypeOK /\ TypeOK'
    BY DEF TypeInv
<1>1. /\ fate = [r \in Rows |-> fate[r]]
      /\ \A r \in Rows :
            /\ status[r] = "absent" => fate[r] = "absent"
            /\ status[r] \in {"pending", "claimed"} => fate[r] = "open"
            /\ status[r] = "done" => fate[r] = "attested"
            /\ status[r] = "failed" => fate[r] = "abandoned"
    BY <1>0, FateOf DEF Open
<1>2. /\ later = [r \in Rows |-> later[r]]
      /\ \A r \in Rows :
            /\ status'[r] = "absent" => later[r] = "absent"
            /\ status'[r] \in {"pending", "claimed"} => later[r] = "open"
            /\ status'[r] = "done" => later[r] = "attested"
            /\ status'[r] = "failed" => later[r] = "abandoned"
    <2>1. (/\ FateView = [r \in Rows |-> FateView[r]]
           /\ \A r \in Rows :
                /\ status[r] = "absent" => FateView[r] = "absent"
                /\ Open(r) => FateView[r] = "open"
                /\ status[r] = "done" => FateView[r] = "attested"
                /\ status[r] = "failed" => FateView[r] = "abandoned")'
        BY <1>0, FateOf, PTL
    <2> QED BY <2>1 DEF Open
<1>3. \A r \in Rows : status'[r] = status[r] => later[r] = fate[r]
    <2>1. \A r \in Rows : status[r] \in {"absent", "pending", "claimed", "done", "failed"}
        BY <1>0 DEF TypeOK, Statuses
    <2> HIDE DEF fate, later
    <2> QED BY <1>1, <1>2, <2>1
<1> HIDE DEF fate, later
<1>4. ASSUME NEW r \in Rows, Enqueue(r) PROVE Log!LogNext
    <2>1. status[r] = "absent" /\ status'[r] = "pending"
          /\ \A q \in Rows \ {r} : status'[q] = status[q]
        BY <1>0, <1>4 DEF Enqueue, TypeOK
    <2>2. fate[r] = "absent" /\ later = [fate EXCEPT ![r] = "open"]
        BY <1>1, <1>2, <1>3, <2>1
    <2>3. LogView' = LogView
        BY <1>4 DEF Enqueue, LogView
    <2> QED BY <2>2, <2>3 DEF Log!LogNext, Log!Submit, fate, later
<1>5. ASSUME NEW S \in SUBSET Rows, Requeue(S) PROVE Log!LogNext
    <2>1. \A r \in Rows : IF r \in S THEN status[r] = "failed" /\ status'[r] = "pending"
                                     ELSE status'[r] = status[r]
        BY <1>5 DEF Requeue
    <2>2. /\ \A r \in S : fate[r] = "abandoned"
          /\ later = [r \in Rows |-> IF r \in S THEN "open" ELSE fate[r]]
        BY <1>1, <1>2, <1>3, <2>1
    <2>3. LogView' = LogView
        BY <1>5 DEF Requeue, LogView
    <2> QED BY <2>2, <2>3 DEF Log!LogNext, Log!Reopen, fate, later
<1>6. ASSUME NEW S \in SUBSET Rows, LogView' = LogView,
             \A r \in Rows : IF r \in S THEN status[r] = "claimed" /\ status'[r] = "failed"
                                       ELSE status'[r] = status[r]
      PROVE  Log!LogNext
    <2>1. /\ \A r \in S : fate[r] = "open"
          /\ later = [r \in Rows |-> IF r \in S THEN "abandoned" ELSE fate[r]]
        BY <1>1, <1>2, <1>3, <1>6
    <2> QED BY <1>6, <2>1 DEF Log!LogNext, Log!Abandon, fate, later
<1>7. ASSUME NEW w \in Workers, RecoverFail(w) PROVE Log!LogNext
    <2> DEFINE S == {r \in ExpiredClaims : attempts[r] >= MaxAttempts}
    <2>1. S \in SUBSET Rows /\ LogView' = LogView
        BY <1>7 DEF RecoverFail, ExpiredClaims, LogView
    <2>2. \A r \in Rows : IF r \in S THEN status[r] = "claimed" /\ status'[r] = "failed"
                                     ELSE status'[r] = status[r]
        BY <1>7 DEF RecoverFail, SetStatus, ExpiredClaims
    <2> QED BY <1>6, <2>1, <2>2
<1>8. ASSUME NEW w \in Workers, ReleaseFail(w) PROVE Log!LogNext
    <2>1. {current[w]} \in SUBSET Rows /\ LogView' = LogView
        BY <1>8 DEF ReleaseFail, TypeInv, WorkerInv, LogView
    <2>2. \A r \in Rows : IF r \in {current[w]}
                             THEN status[r] = "claimed" /\ status'[r] = "failed"
                             ELSE status'[r] = status[r]
        BY <1>8 DEF ReleaseFail, SetStatus, ClaimHeld
    <2> QED BY <1>6, <2>1, <2>2
<1>9. ASSUME NEW w \in Workers, ChainCommit(w) PROVE Log!LogNext
    <2> DEFINE c == current[w]
    <2>1. c \in Rows
        BY <1>9, CommitAppends
    <2>2. status[c] = "claimed" /\ status'[c] = "done"
          /\ \A q \in Rows \ {c} : status'[q] = status[q]
        BY <1>9, <2>1 DEF ChainCommit, ClaimHeld, SetStatus
    <2>3. fate[c] = "open" /\ later = [fate EXCEPT ![c] = "attested"]
        BY <1>1, <1>2, <1>3, <2>1, <2>2
    <2>4. LogView' = Append(LogView, [row |-> c, previous |-> Log!About(c, LogView)])
        BY <1>9, CommitAttests
    <2> QED BY <2>1, <2>3, <2>4 DEF Log!LogNext, Log!Attest, fate, later
<1>10. ASSUME LogView' = LogView,
              \A r \in Rows : \/ status'[r] = status[r]
                             \/ {status[r], status'[r]} \subseteq {"pending", "claimed"}
       PROVE  UNCHANGED Log!logVars
    <2>1. later = fate
        BY <1>1, <1>2, <1>3, <1>10
    <2> QED BY <1>10, <2>1 DEF Log!logVars, fate, later
<1>11. ASSUME UNCHANGED <<status, records>> PROVE UNCHANGED Log!logVars
    <2>1. LogView' = LogView
        BY <1>11 DEF LogView
    <2> QED BY <1>10, <1>11, <2>1
<1>12. ASSUME NEW w \in Workers, Recover(w) \/ Claim(w) \/ ReleaseRetry(w)
       PROVE  UNCHANGED Log!logVars
    <2>1. LogView' = LogView
        BY <1>12 DEF Recover, Claim, ReleaseRetry, LogView
    <2>2. \A r \in Rows : \/ status'[r] = status[r]
                          \/ {status[r], status'[r]} \subseteq {"pending", "claimed"}
        BY <1>12 DEF Recover, Claim, ReleaseRetry, SetStatus, ExpiredClaims, Claimable, ClaimHeld
    <2> QED BY <1>10, <2>1, <2>2
<1>13. ASSUME NEW w \in Workers,
              TakeRow(w) \/ EndPass(w) \/ BuildFails(w) \/ BuildWaits(w) \/ Build(w)
              \/ ChainLost(w) \/ ChainRefused(w) \/ ReleaseLost(w) \/ LeaveClaimed(w)
              \/ Crash(w)
       PROVE  UNCHANGED <<status, records>>
    BY <1>13 DEF TakeRow, EndPass, BuildFails, BuildWaits, Build, ChainLost, ChainRefused,
           ReleaseLost, LeaveClaimed, Crash, Decide
<1>14. ASSUME NEW r \in Rows, BecomeDue(r) \/ Expire(r) PROVE UNCHANGED <<status, records>>
    BY <1>14 DEF BecomeDue, Expire
<1>15. CASE UNCHANGED vars
    BY <1>11, <1>15 DEF vars
<1> QED
    BY <1>4, <1>5, <1>7, <1>8, <1>9, <1>11, <1>12, <1>13, <1>14, <1>15 DEF Next, PassStep

LEMMA InitMapped == Init => Log!LogInit
<1> SUFFICES ASSUME Init PROVE Log!LogInit
    OBVIOUS
<1>1. TypeOK
    BY TypeInvInit DEF TypeInv
<1>2. LogView = <<>>
    <2>1. Len(records) = 0
        BY DEF Init
    <2> QED BY <1>1, <2>1, LogViewTyped, EmptySeq
<1>3. FateView = [r \in Rows |-> "absent"]
    BY <1>1, FateOf DEF Init
<1> QED BY <1>2, <1>3 DEF Log!LogInit

(* The queue, its workers and the hash chain implement the abstract log:     *)
(* every observation is attested at most once with exactly its predecessors, *)
(* or is visibly given up, and nothing else ever happens to the log.         *)
THEOREM LedgerImplementsLog == Spec => ImplementsLog
<1>1. Init => Log!LogInit
    BY InitMapped
<1>2. TypeInv /\ TypeInv' /\ [Next]_vars => [Log!LogNext]_(Log!logVars)
    BY Simulation
<1>3. Spec => []TypeInv
    BY TypeInvInit, TypeInvStep, PTL DEF Spec
<1> QED BY <1>1, <1>2, <1>3, PTL DEF Spec, ImplementsLog, Log!LogSpec

=============================================================================
