------------------------- MODULE AnchorWorkerProofs -------------------------
(***************************************************************************)
(* Theorems about AnchorWorker, for any set of processes, any batch sizes   *)
(* and any answers of the two services.                                     *)
(***************************************************************************)
EXTENDS AnchorWorker, TLAPS

(***************************************************************************)
(* Type correctness, with what a pass carries from its plan to its record:  *)
(* ranges of chained records, and an epoch no later than now.               *)
(***************************************************************************)
PassInv ==
    \A p \in Passes :
        /\ \A b \in todo[p] : b.to < length
        /\ pc[p] = "record" =>
            job[p] \in Ranges /\ job[p].to < length /\ epoch[p] <= resumes[job[p]]

TypeInv == TypeOK /\ PassInv

LEMMA RangesAreNatural ==
    ASSUME NEW b \in Ranges
    PROVE  b.from \in Nat /\ b.to \in Nat /\ b.from <= b.to /\ b.to \in 0..(MaxRecords - 1)
BY AnchorAssumption DEF Ranges

LEMMA PlanTyped ==
    ASSUME TypeOK, NEW n, NEW k
    PROVE  /\ Retries \in SUBSET Ranges /\ Retries \subseteq batches
           /\ NewBatches(n, k) \in SUBSET Ranges
           /\ \A b \in NewBatches(n, k) : b.to < length
BY DEF TypeOK, Retries, Due, Listed, Incomplete, NewBatches

LEMMA LeavePassTyped ==
    ASSUME TypeInv, NEW p \in Passes, LeavePass(p)
    PROVE  /\ pc' \in [Passes -> PCs]
           /\ todo' \in [Passes -> SUBSET Ranges]
           /\ job' \in [Passes -> Ranges \cup {NoRange}]
           /\ outcome' \in [Passes -> Outcomes]
           /\ epoch' \in [Passes -> Nat]
BY DEF TypeInv, TypeOK, LeavePass, PCs, Outcomes

LEMMA NewRowsTyped ==
    ASSUME TypeInv, NEW p \in Passes, pc[p] = "record"
    PROVE  NewRows(p) \in SUBSET Rows
<1>1. \A s \in job[p].from..job[p].to : s \in 0..(MaxRecords - 1)
    BY RangesAreNatural, AnchorAssumption DEF TypeInv, PassInv
<1> QED BY <1>1 DEF NewRows, Rows

LEMMA TypeInvInit == Init => TypeInv
BY AnchorAssumption DEF Init, TypeInv, TypeOK, PassInv, PCs, Outcomes

LEMMA TypeInvStep == TypeInv /\ (\A b \in batches : b.to < length) /\ [Next]_vars => TypeInv'
<1> SUFFICES ASSUME TypeInv, \A b \in batches : b.to < length, [Next]_vars PROVE TypeInv'
    OBVIOUS
<1> USE DEF TypeInv, chainVars, tableVars, passVars
<1>1. ASSUME Chain \/ Wait PROVE TypeInv'
    <2>1. TypeOK'
        BY <1>1, AnchorAssumption DEF Chain, Wait, TypeOK
    <2>2. PassInv'
        BY <1>1, RangesAreNatural DEF Chain, Wait, TypeOK, PassInv
    <2> QED BY <2>1, <2>2
<1>2. ASSUME NEW b \in Ranges, CoolDown(b) PROVE TypeInv'
    BY <1>2 DEF CoolDown, TypeOK, PassInv
<1>3. ASSUME NEW b \in Ranges, Resume(b) PROVE TypeInv'
    <2>1. TypeOK'
        BY <1>3 DEF Resume, TypeOK
    <2>2. \A r \in Ranges : resumes[r] <= resumes'[r]
        BY <1>3 DEF Resume, TypeOK
    <2>3. PassInv'
        BY <1>3, <2>1, <2>2 DEF Resume, TypeOK, PassInv
    <2> QED BY <2>1, <2>3
<1>4. ASSUME NEW p \in Passes, Plan(p) PROVE TypeInv'
    <2> DEFINE N == NewBatches(BatchSize[p], BatchesPerPass - Cardinality(Retries))
    <2>1. Retries \in SUBSET Ranges /\ N \in SUBSET Ranges
        BY PlanTyped
    <2>2. \A b \in Retries \cup N : b.to < length
        BY PlanTyped
    <2>3. todo' = [todo EXCEPT ![p] = Retries \cup N] /\ pc' = [pc EXCEPT ![p] = "submit"]
        BY <1>4 DEF Plan
    <2> HIDE DEF N
    <2>4. TypeOK'
        BY <1>4, <2>1, <2>3 DEF Plan, TypeOK, PCs
    <2>5. PassInv'
        BY <1>4, <2>2, <2>3 DEF Plan, TypeOK, PassInv
    <2> QED BY <2>4, <2>5
<1>5. ASSUME NEW p \in Passes, NEW b \in todo[p], NEW o \in Outcomes \ {"none"}, Submit(p, b, o)
      PROVE  TypeInv'
    <2>1. b \in Ranges
        BY DEF TypeOK
    <2>2. TypeOK'
        BY <1>5, <2>1 DEF Submit, TypeOK, PCs
    <2>3. PassInv'
        BY <1>5, <2>1 DEF Submit, TypeOK, PassInv
    <2> QED BY <2>2, <2>3
<1>6. ASSUME NEW p \in Passes, EndPass(p) \/ Superseded(p) \/ Abandon(p) PROVE TypeInv'
    <2>1. LeavePass(p) /\ UNCHANGED <<chainVars, tableVars>>
        BY <1>6 DEF EndPass, Superseded, Abandon
    <2>2. TypeOK'
        BY <2>1, LeavePassTyped DEF TypeOK
    <2>3. PassInv'
        BY <2>1 DEF LeavePass, TypeOK, PassInv
    <2> QED BY <2>2, <2>3
<1>7. ASSUME NEW p \in Passes, RecordAnchored(p) PROVE TypeInv'
    <2>1. NewRows(p) \in SUBSET Rows /\ job[p] \in Ranges
        BY <1>7, NewRowsTyped DEF RecordAnchored, PassInv
    <2>2. TypeOK'
        BY <1>7, <2>1 DEF RecordAnchored, TypeOK, PCs, Outcomes
    <2>3. PassInv'
        BY <1>7 DEF RecordAnchored, TypeOK, PassInv
    <2> QED BY <2>2, <2>3
<1>8. ASSUME NEW p \in Passes, RecordFailed(p) PROVE TypeInv'
    <2>1. job[p] \in Ranges /\ epoch[p] \in Nat
        BY <1>8 DEF RecordFailed, PassInv, TypeOK
    <2>2. TypeOK'
        <3>1. terminals' \in SUBSET (Ranges \X Nat)
            BY <1>8, <2>1 DEF RecordFailed, TypeOK
        <3> QED BY <1>8, <2>1, <3>1, LeavePassTyped DEF RecordFailed, TypeOK
    <2>3. PassInv'
        BY <1>8 DEF RecordFailed, LeavePass, TypeOK, PassInv
    <2> QED BY <2>2, <2>3
<1>9. CASE UNCHANGED vars
    BY <1>9 DEF vars, TypeOK, PassInv
<1> QED
    BY <1>1, <1>2, <1>3, <1>4, <1>5, <1>6, <1>7, <1>8, <1>9 DEF Next, PassStep, SubmitAny

-----------------------------------------------------------------------------
(***************************************************************************)
(* The batches tile the chain.  NextSeq is what the database's max(seq_to)  *)
(* + 1 says; that there is such a number is part of the invariant: some     *)
(* batch ends after all others.                                             *)
(***************************************************************************)
EndInv ==
    \E n \in {0} \cup {b.to + 1 : b \in batches} : \A b \in batches : b.to < n

TileInv == TypeInv /\ BatchesTile /\ EndInv

LEMMA NextSeqIsTheEnd ==
    ASSUME TypeInv, EndInv
    PROVE  /\ NextSeq \in Nat
           /\ \A b \in batches : b.to < NextSeq
           /\ NextSeq = 0 \/ \E b \in batches : b.to + 1 = NextSeq
<1>1. /\ NextSeq \in {0} \cup {b.to + 1 : b \in batches}
      /\ \A b \in batches : b.to < NextSeq
    BY DEF EndInv, NextSeq
<1>2. \A b \in batches : b.to + 1 \in Nat
    BY RangesAreNatural DEF TypeInv, TypeOK
<1> QED BY <1>1, <1>2

(* The chain only grows, and only a record transaction changes the batches: *)
(* it adds its job, which the guard admitted.                               *)
LEMMA BatchesMove ==
    ASSUME TypeInv, [Next]_vars
    PROVE  /\ length' \in Nat /\ length <= length'
           /\ \/ batches' = batches
              \/ \E p \in Passes :
                    /\ pc[p] = "record" /\ Admitted(job[p])
                    /\ batches' = batches \cup {job[p]}
<1> USE DEF chainVars, tableVars, passVars
<1>1. ASSUME Chain \/ Wait PROVE batches' = batches /\ length' \in Nat /\ length <= length'
    BY <1>1, AnchorAssumption DEF Chain, Wait, TypeInv, TypeOK
<1>2. length \in Nat
    BY AnchorAssumption DEF TypeInv, TypeOK
<1>3. ASSUME NEW b \in Ranges, CoolDown(b) \/ Resume(b)
      PROVE  batches' = batches /\ length' = length
    BY <1>3 DEF CoolDown, Resume
<1>4. ASSUME NEW p \in Passes,
             Plan(p) \/ SubmitAny(p) \/ EndPass(p) \/ Superseded(p) \/ Abandon(p)
      PROVE  batches' = batches /\ length' = length
    BY <1>4 DEF Plan, SubmitAny, Submit, EndPass, Superseded, Abandon
<1>5. ASSUME NEW p \in Passes, RecordAnchored(p) \/ RecordFailed(p)
      PROVE  /\ length' = length
             /\ pc[p] = "record" /\ Admitted(job[p])
             /\ batches' = batches \cup {job[p]}
    BY <1>5 DEF RecordAnchored, RecordFailed
<1>6. CASE UNCHANGED vars
    BY <1>2, <1>6 DEF vars
<1> QED BY <1>1, <1>2, <1>3, <1>4, <1>5, <1>6 DEF Next, PassStep

LEMMA TileInvInit == Init => TileInv
BY TypeInvInit DEF Init, TileInv, BatchesTile, EndInv

LEMMA TileInvStep == TileInv /\ [Next]_vars => TileInv'
<1> SUFFICES ASSUME TileInv, [Next]_vars PROVE TileInv'
    OBVIOUS
<1>1. TypeInv'
    BY TypeInvStep DEF TileInv, BatchesTile
<1>2. length \in Nat /\ length' \in Nat /\ length <= length'
    BY BatchesMove, AnchorAssumption DEF TileInv, TypeInv, TypeOK
<1>3. \A b \in batches : b.from \in Nat /\ b.to \in Nat /\ b.from <= b.to
    BY RangesAreNatural DEF TileInv, TypeInv, TypeOK
<1>4. CASE batches' = batches
    BY <1>1, <1>2, <1>3, <1>4 DEF TileInv, BatchesTile, EndInv
<1>5. ASSUME NEW p \in Passes, pc[p] = "record", Admitted(job[p]), job[p] \notin batches,
             batches' = batches \cup {job[p]}
      PROVE  BatchesTile' /\ EndInv'
    <2> DEFINE j == job[p]
    <2>1. j.from \in Nat /\ j.to \in Nat /\ j.from <= j.to /\ j.to < length
        BY <1>5, RangesAreNatural DEF TileInv, TypeInv, PassInv
    <2>2. /\ \A b \in batches : b.to < j.from
          /\ j.from = 0 \/ \E b \in batches : b.to + 1 = j.from
        BY <1>5, NextSeqIsTheEnd DEF TileInv, Admitted
    <2> HIDE DEF j
    <2>3. batches' = batches \cup {j}
        BY <1>5 DEF j
    <2>4. BatchesTile'
        <3>1. \A b \in batches' : b.to < length'
            BY <1>2, <1>3, <2>1, <2>3 DEF TileInv, BatchesTile
        <3>2. \A b, c \in batches' : b # c => b.to < c.from \/ c.to < b.from
            BY <2>2, <2>3 DEF TileInv, BatchesTile
        <3>3. \A b \in batches' : b.from = 0 \/ \E c \in batches' : c.to + 1 = b.from
            BY <2>2, <2>3 DEF TileInv, BatchesTile
        <3> QED BY <3>1, <3>2, <3>3 DEF BatchesTile
    <2>5. EndInv'
        <3>1. \A b \in batches' : b.to < j.to + 1
            BY <1>3, <2>1, <2>2, <2>3
        <3> QED BY <2>3, <3>1 DEF EndInv
    <2> QED BY <2>4, <2>5
<1>6. CASE batches' # batches
    BY <1>1, <1>5, <1>6, BatchesMove DEF TileInv
<1> QED BY <1>4, <1>6

LEMMA TileInvariant == Spec => []TileInv
BY TileInvInit, TileInvStep, PTL DEF Spec

(* Every variable keeps its type: a plan or a record of a pass, however     *)
(* late, only ever names ranges of the chain.                               *)
THEOREM TypeCorrect == Spec => []TypeOK
BY TileInvariant, PTL DEF TileInv, TypeInv

(* The batches cover the chain from its beginning without gap or overlap:   *)
(* the guard of attesta_anchor_batches is enough, whatever plans are late.  *)
THEOREM BatchesAlwaysTile == Spec => []BatchesTile
BY TileInvariant, PTL DEF TileInv

-----------------------------------------------------------------------------
(***************************************************************************)
(* Dual anchoring is all or nothing.  With the batches apart, AnchoredWhole *)
(* is inductive: a job finds either none of its rows or all of them.        *)
(***************************************************************************)
WholeInv == TileInv /\ AnchoredWhole

Block(b, p) == [seq : b.from..b.to, type : Types, by : {p}]

LEMMA BlockNotEmpty ==
    ASSUME NEW b \in Ranges, NEW p \in Passes
    PROVE  Block(b, p) # {}
<1>1. [seq |-> b.from, type |-> "rekor", by |-> p] \in Block(b, p)
    BY RangesAreNatural DEF Block, Types
<1> QED BY <1>1

(* A range that begins at the end of the batches has no rows.               *)
LEMMA NewRangeHasNoRows ==
    ASSUME WholeInv, NEW b \in Ranges, b.from = NextSeq
    PROVE  b \notin batches /\ RowsOf(b) = {}
<1>1. \A c \in batches : c.to < b.from
    BY NextSeqIsTheEnd DEF WholeInv, TileInv
<1>2. \A c \in batches : c.from \in Nat /\ c.to \in Nat /\ c.from <= c.to
    BY RangesAreNatural DEF WholeInv, TileInv, TypeInv, TypeOK
<1>3. \A r \in rows : r.seq < b.from /\ r.seq \in Nat
    BY <1>1, <1>2, RangesAreNatural, AnchorAssumption
    DEF WholeInv, AnchoredWhole, TileInv, TypeInv, TypeOK, Rows
<1>4. b.from \in Nat /\ b.to \in Nat /\ b.from <= b.to
    BY RangesAreNatural
<1> QED BY <1>1, <1>3, <1>4 DEF RowsOf

(* What a record transaction finds: its range empty, or a batch that is     *)
(* whole and gets no row.                                                   *)
LEMMA JobIsEmptyOrWhole ==
    ASSUME WholeInv, NEW p \in Passes, pc[p] = "record", Admitted(job[p])
    PROVE  \/ RowsOf(job[p]) = {} /\ NewRows(p) = Block(job[p], p)
           \/ job[p] \in batches /\ NewRows(p) = {} /\ RowsOf(job[p]) # {}
<1> DEFINE j == job[p]
<1>1. j \in Ranges
    BY DEF WholeInv, TileInv, TypeInv, PassInv
<1>2. j.from \in Nat /\ j.to \in Nat /\ j.from <= j.to
    BY <1>1, RangesAreNatural
<1>3. CASE RowsOf(j) = {}
    <2>1. ASSUME NEW r \in Block(j, p), NEW old \in rows, old.seq = r.seq
          PROVE  FALSE
        BY <1>2, <1>3, <2>1 DEF RowsOf, Block
    <2>2. NewRows(p) = {r \in Block(j, p) : ~ \E old \in rows : old.seq = r.seq /\ old.type = r.type}
        BY DEF NewRows, Block
    <2> QED BY <1>3, <2>1, <2>2
<1>4. CASE RowsOf(j) # {}
    <2>1. j \in batches
        BY <1>1, <1>4, NewRangeHasNoRows DEF Admitted
    <2>2. PICK q \in Passes : RowsOf(j) = Block(j, q)
        BY <1>4, <2>1 DEF WholeInv, AnchoredWhole, Block
    <2>3. ASSUME NEW r \in Block(j, p)
          PROVE  \E old \in rows : old.seq = r.seq /\ old.type = r.type
        <3>1. [seq |-> r.seq, type |-> r.type, by |-> q] \in Block(j, q)
            BY DEF Block
        <3> QED BY <2>2, <3>1 DEF RowsOf
    <2>4. NewRows(p) = {}
        BY <2>3 DEF NewRows, Block
    <2> QED BY <1>4, <2>1, <2>4
<1> QED BY <1>3, <1>4

(* Only a complete record transaction adds rows.                            *)
LEMMA RowsMove ==
    ASSUME [Next]_vars
    PROVE  \/ rows' = rows
           \/ \E p \in Passes : RecordAnchored(p)
<1> USE DEF chainVars, tableVars, passVars
<1>1. ASSUME Chain \/ Wait PROVE rows' = rows
    BY <1>1 DEF Chain, Wait
<1>2. ASSUME NEW b \in Ranges, CoolDown(b) \/ Resume(b) PROVE rows' = rows
    BY <1>2 DEF CoolDown, Resume
<1>3. ASSUME NEW p \in Passes, Plan(p) \/ SubmitAny(p) \/ EndPass(p) PROVE rows' = rows
    BY <1>3 DEF Plan, SubmitAny, Submit, EndPass
<1>4. ASSUME NEW p \in Passes, Superseded(p) \/ RecordFailed(p) \/ Abandon(p) PROVE rows' = rows
    BY <1>4 DEF Superseded, RecordFailed, Abandon
<1>5. CASE UNCHANGED vars
    BY <1>5 DEF vars
<1> QED BY <1>1, <1>2, <1>3, <1>4, <1>5 DEF Next, PassStep

LEMMA WholeInvInit == Init => WholeInv
BY TileInvInit DEF Init, WholeInv, AnchoredWhole

LEMMA WholeInvStep == WholeInv /\ [Next]_vars => WholeInv'
<1> SUFFICES ASSUME WholeInv, [Next]_vars PROVE WholeInv'
    OBVIOUS
<1>1. TileInv'
    BY TileInvStep DEF WholeInv
<1>2. CASE batches' = batches /\ rows' = rows
    BY <1>1, <1>2 DEF WholeInv, AnchoredWhole, RowsOf
<1>3. ASSUME NEW p \in Passes, RecordAnchored(p), rows' # rows PROVE AnchoredWhole'
    <2> DEFINE j == job[p]
    <2>1. /\ j \in Ranges /\ j.from \in Nat /\ j.to \in Nat /\ j.from <= j.to
        BY <1>3, RangesAreNatural DEF RecordAnchored, WholeInv, TileInv, TypeInv, PassInv
    <2>2. RowsOf(j) = {} /\ rows' = rows \cup Block(j, p) /\ batches' = batches \cup {j}
        BY <1>3, JobIsEmptyOrWhole DEF RecordAnchored
    <2>3. \A r \in Block(j, p) : r.seq \in Nat /\ j.from <= r.seq /\ r.seq <= j.to
        BY <2>1 DEF Block
    <2>4. \A b \in batches : b # j => b.to < j.from \/ j.to < b.from
        BY <1>1, <2>2 DEF TileInv, BatchesTile
    <2>5. \A b \in batches : b.from \in Nat /\ b.to \in Nat
        BY RangesAreNatural DEF WholeInv, TileInv, TypeInv, TypeOK
    <2>6. \A b \in batches : b # j => RowsOf(b)' = RowsOf(b)
        <3> SUFFICES ASSUME NEW b \in batches, b # j
                     PROVE  {r \in rows' : b.from <= r.seq /\ r.seq <= b.to} = RowsOf(b)
            BY DEF RowsOf
        <3> HIDE DEF j
        <3>1. \A r \in Block(j, p) : ~(b.from <= r.seq /\ r.seq <= b.to)
            BY <2>1, <2>3, <2>4, <2>5
        <3> QED BY <2>2, <3>1 DEF RowsOf
    <2>7. \A b \in batches' : b = j => RowsOf(b)' = Block(b, p)
        <3> SUFFICES {r \in rows' : j.from <= r.seq /\ r.seq <= j.to} = Block(j, p)
            BY DEF RowsOf
        <3> HIDE DEF j
        <3> QED BY <2>2, <2>3 DEF RowsOf
    <2>8. \A r \in rows' : \E b \in batches' : b.from <= r.seq /\ r.seq <= b.to
        <3> HIDE DEF j
        <3> QED BY <2>2, <2>3 DEF WholeInv, AnchoredWhole
    <2>9. \A b \in batches' :
            \/ RowsOf(b)' = {}
            \/ \E q \in Passes : RowsOf(b)' = Block(b, q)
        <3> HIDE DEF j
        <3> QED BY <2>2, <2>6, <2>7 DEF WholeInv, AnchoredWhole, Block
    <2> QED BY <2>8, <2>9 DEF AnchoredWhole, Block
<1>4. ASSUME NEW p \in Passes, pc[p] = "record", Admitted(job[p]), rows' = rows,
             batches' = batches \cup {job[p]}
      PROVE  AnchoredWhole'
    BY <1>4, JobIsEmptyOrWhole DEF WholeInv, AnchoredWhole, RowsOf
<1>5. CASE rows' = rows
    BY <1>1, <1>2, <1>4, <1>5, BatchesMove DEF WholeInv, TileInv
<1>6. CASE rows' # rows
    BY <1>1, <1>3, <1>6, RowsMove DEF WholeInv
<1> QED BY <1>5, <1>6

LEMMA WholeInvariant == Spec => []WholeInv
BY WholeInvInit, WholeInvStep, PTL DEF Spec

(* A batch has no anchored row or one of each type for every record of it,  *)
(* all of one submission, and no record is anchored outside a batch: the    *)
(* conflict rule never mixes two submissions and no step records a part.    *)
THEOREM AnchoredAlwaysWhole == Spec => []AnchoredWhole
BY WholeInvariant, PTL DEF WholeInv

-----------------------------------------------------------------------------
(***************************************************************************)
(* One resume lifts one stop.  The epoch of a record transaction is never   *)
(* later than now (PassInv), so a failure it writes after a resume it began *)
(* before does not stop the batch again, and is not counted twice.          *)
(***************************************************************************)
ResumeInv == TileInv /\ OneResumePerStop

LEMMA ResumeInvStep == ResumeInv /\ [Next]_vars => ResumeInv'
<1> SUFFICES ASSUME ResumeInv, [Next]_vars PROVE ResumeInv'
    OBVIOUS
<1> USE DEF ResumeInv, chainVars, tableVars, passVars
<1>1. TileInv'
    BY TileInvStep
<1>2. CASE UNCHANGED <<terminals, resumes>>
    BY <1>1, <1>2 DEF OneResumePerStop
<1>3. ASSUME NEW b \in Ranges, Resume(b) PROVE OneResumePerStop'
    <2>1. resumes \in [Ranges -> Nat] /\ terminals \in SUBSET (Ranges \X Nat)
        BY DEF TileInv, TypeInv, TypeOK
    <2>2. /\ terminals' = terminals /\ <<b, resumes[b]>> \in terminals
          /\ resumes' = [resumes EXCEPT ![b] = @ + 1]
        BY <1>3 DEF Resume, Stopped
    <2>3. ASSUME NEW c \in Ranges, NEW e \in 0..(resumes'[c] - 1) PROVE <<c, e>> \in terminals'
        <3>1. (e = resumes[c] /\ c = b) \/ e \in 0..(resumes[c] - 1)
            BY <2>1, <2>2, <2>3
        <3> QED BY <2>2, <3>1 DEF OneResumePerStop
    <2>4. ASSUME NEW c \in Ranges, NEW t \in terminals', t[1] = c PROVE t[2] <= resumes'[c]
        <3>1. t[2] <= resumes[c] /\ t[2] \in Nat /\ resumes[c] \in Nat
            BY <2>1, <2>2, <2>4 DEF OneResumePerStop
        <3> QED BY <2>1, <2>2, <3>1
    <2> QED BY <2>3, <2>4 DEF OneResumePerStop
<1>4. ASSUME NEW p \in Passes, RecordFailed(p) PROVE OneResumePerStop'
    <2>1. /\ resumes' = resumes
          /\ terminals \subseteq terminals'
          /\ terminals' \subseteq terminals \cup {<<job[p], epoch[p]>>}
        BY <1>4 DEF RecordFailed
    <2>2. job[p] \in Ranges /\ epoch[p] <= resumes[job[p]]
        BY <1>4 DEF RecordFailed, TileInv, TypeInv, PassInv
    <2> QED BY <2>1, <2>2 DEF OneResumePerStop
<1>5. ASSUME NEW p \in Passes,
             Plan(p) \/ SubmitAny(p) \/ EndPass(p) \/ Superseded(p) \/ RecordAnchored(p)
             \/ Abandon(p)
      PROVE  UNCHANGED <<terminals, resumes>>
    BY <1>5 DEF Plan, SubmitAny, Submit, EndPass, Superseded, RecordAnchored, Abandon
<1>6. ASSUME NEW b \in Ranges, CoolDown(b) PROVE UNCHANGED <<terminals, resumes>>
    BY <1>6 DEF CoolDown
<1>7. CASE UNCHANGED vars
    BY <1>2, <1>7, <1>1 DEF vars
<1>8. ASSUME Chain \/ Wait PROVE UNCHANGED <<terminals, resumes>>
    BY <1>8 DEF Chain, Wait
<1> QED
    BY <1>1, <1>2, <1>3, <1>4, <1>5, <1>6, <1>7, <1>8 DEF Next, PassStep

LEMMA ResumeInvInit == Init => ResumeInv
<1> SUFFICES ASSUME Init PROVE OneResumePerStop
    BY TileInvInit DEF ResumeInv
<1> QED BY DEF Init, OneResumePerStop

(* Every resume of a batch answers a terminal failure of its own, also when *)
(* record transactions begun before a resume commit after it.               *)
THEOREM ResumesMatchStops == Spec => []OneResumePerStop
BY ResumeInvInit, ResumeInvStep, PTL DEF Spec, ResumeInv

-----------------------------------------------------------------------------
(***************************************************************************)
(* The worker implements the abstract log.  A batch is complete exactly     *)
(* when it has any row (AnchoredWhole), so a step proves only its own job.  *)
(***************************************************************************)
LEMMA CompleteIffAnyRow ==
    ASSUME WholeInv, NEW b \in batches
    PROVE  Complete(b) <=> RowsOf(b) # {}
<1>1. b \in Ranges /\ b.from \in Nat /\ b.to \in Nat /\ b.from <= b.to
    BY RangesAreNatural DEF WholeInv, TileInv, TypeInv, TypeOK
<1>2. ASSUME Complete(b) PROVE RowsOf(b) # {}
    BY <1>1, <1>2 DEF Complete, Anchored, Types, RowsOf
<1>3. ASSUME RowsOf(b) # {} PROVE Complete(b)
    <2>1. PICK p \in Passes : RowsOf(b) = Block(b, p)
        BY <1>3 DEF WholeInv, AnchoredWhole, Block
    <2>2. ASSUME NEW t \in Types, NEW s \in b.from..b.to
          PROVE  \E r \in rows : r.seq = s /\ r.type = t
        <3>1. [seq |-> s, type |-> t, by |-> p] \in Block(b, p)
            BY DEF Block
        <3> QED BY <2>1, <3>1 DEF RowsOf
    <2> QED BY <2>2 DEF Complete, Anchored
<1> QED BY <1>2, <1>3

Proven == {b \in batches : Complete(b)}
Begun == {b \in batches : RowsOf(b) # {}}

LEMMA ProvenIsBegun == WholeInv => Proven = Begun
BY CompleteIffAnyRow DEF Proven, Begun

LEMMA ProvenIsBegunNext == WholeInv' => (Proven = Begun)'
BY ProvenIsBegun, PTL

(* A batch not yet known begins where the batches end, so the log admits it. *)
LEMMA NewJobFollows ==
    ASSUME WholeInv, NEW p \in Passes, pc[p] = "record", Admitted(job[p]), job[p] \notin batches
    PROVE  Log!Follows(job[p])
<1>1. job[p] \in Ranges /\ job[p].to < length
    BY DEF WholeInv, TileInv, TypeInv, PassInv
<1>2. /\ \A b \in batches : b.to < job[p].from
      /\ job[p].from = 0 \/ \E b \in batches : b.to + 1 = job[p].from
    BY NextSeqIsTheEnd DEF Admitted, WholeInv, TileInv
<1> QED BY <1>1, <1>2, RangesAreNatural DEF Log!Follows

(* Rows of one batch leave what the other batches have as it was.           *)
LEMMA RowsAddedToJob ==
    ASSUME WholeInv, BatchesTile', NEW j \in Ranges, NEW p \in Passes,
           batches' = batches \cup {j}, rows' = rows \cup Block(j, p)
    PROVE  \A b \in batches' : RowsOf(b)' # {} <=> b = j \/ RowsOf(b) # {}
<1>1. \A r \in Block(j, p) : r.seq \in Nat /\ j.from <= r.seq /\ r.seq <= j.to
    BY RangesAreNatural DEF Block
<1>2. \A b \in batches : b.from \in Nat /\ b.to \in Nat
    BY RangesAreNatural DEF WholeInv, TileInv, TypeInv, TypeOK
<1>3. ASSUME NEW b \in batches', b # j, NEW r \in Block(j, p) PROVE ~(b.from <= r.seq /\ r.seq <= b.to)
    <2>1. b.to < j.from \/ j.to < b.from
        BY <1>3 DEF BatchesTile
    <2>2. j.from \in Nat /\ j.to \in Nat /\ b.from \in Nat /\ b.to \in Nat
        BY <1>2, <1>3, RangesAreNatural
    <2> QED BY <1>1, <2>1, <2>2
<1>4. ASSUME NEW b \in batches', b # j PROVE RowsOf(b)' = RowsOf(b)
    BY <1>3, <1>4 DEF RowsOf
<1>5. ASSUME NEW b \in batches', b = j PROVE RowsOf(b)' # {}
    BY <1>1, <1>5, BlockNotEmpty DEF RowsOf
<1> QED BY <1>4, <1>5

LEMMA StepMapped ==
    ASSUME WholeInv, WholeInv', [Next]_vars
    PROVE  [Log!LogStep]_(Log!logVars)
<1> USE DEF chainVars, tableVars, passVars
<1> SUFFICES
        \/ length' = length + 1 /\ batches' = batches /\ Proven' = Proven
        \/ length' = length /\ batches' = batches /\ Proven' = Proven
        \/ \E j \in batches' :
            /\ length' = length /\ batches' = batches \cup {j}
            /\ \/ Log!Follows(j) /\ Proven' = Proven
               \/ (j \in batches \ Proven \/ Log!Follows(j)) /\ Proven' = Proven \cup {j}
    BY DEF Log!LogStep, Log!logVars, Log!Grow, Log!Cut, Log!Prove, Proven
<1> USE ProvenIsBegun, ProvenIsBegunNext
<1>1. ASSUME rows' = rows, batches' = batches PROVE Proven' = Proven
    BY <1>1 DEF Begun, RowsOf
<1>2. ASSUME Chain \/ Wait \/ \E b \in Ranges : CoolDown(b) \/ Resume(b)
      PROVE  batches' = batches /\ rows' = rows /\ length' \in {length, length + 1}
    BY <1>2 DEF Chain, Wait, CoolDown, Resume
<1>3. ASSUME NEW p \in Passes,
             Plan(p) \/ SubmitAny(p) \/ EndPass(p) \/ Superseded(p) \/ Abandon(p)
      PROVE  batches' = batches /\ rows' = rows /\ length' = length
    BY <1>3 DEF Plan, SubmitAny, Submit, EndPass, Superseded, Abandon
<1>4. ASSUME NEW p \in Passes, RecordAnchored(p), rows' # rows
      PROVE  /\ length' = length /\ batches' = batches \cup {job[p]}
             /\ job[p] \in batches \ Proven \/ Log!Follows(job[p])
             /\ Proven' = Proven \cup {job[p]}
    <2>1. /\ pc[p] = "record" /\ Admitted(job[p]) /\ length' = length
          /\ batches' = batches \cup {job[p]} /\ rows' = rows \cup NewRows(p)
        BY <1>4 DEF RecordAnchored
    <2>2. RowsOf(job[p]) = {} /\ NewRows(p) = Block(job[p], p)
        BY <1>4, <2>1, JobIsEmptyOrWhole
    <2>3. job[p] \in Ranges
        BY <2>1 DEF WholeInv, TileInv, TypeInv, PassInv
    <2>4. \A b \in batches' : RowsOf(b)' # {} <=> b = job[p] \/ RowsOf(b) # {}
        BY <2>1, <2>2, <2>3, RowsAddedToJob DEF WholeInv, TileInv
    <2>5. Begun' = Begun \cup {job[p]}
        BY <2>1, <2>4 DEF Begun
    <2>6. job[p] \notin batches => Log!Follows(job[p])
        BY <2>1, NewJobFollows
    <2>7. job[p] \notin Proven
        BY <2>2 DEF Begun
    <2> QED BY <2>1, <2>5, <2>6, <2>7
<1>5. ASSUME NEW p \in Passes, RecordAnchored(p) \/ RecordFailed(p), rows' = rows
      PROVE  /\ length' = length /\ Proven' = Proven /\ batches' = batches \cup {job[p]}
             /\ job[p] \in batches \/ Log!Follows(job[p])
    <2>1. /\ pc[p] = "record" /\ Admitted(job[p]) /\ length' = length
          /\ batches' = batches \cup {job[p]}
        BY <1>5 DEF RecordAnchored, RecordFailed
    <2>2. job[p] \in batches \/ RowsOf(job[p]) = {}
        BY <2>1, JobIsEmptyOrWhole
    <2>3. Begun' = Begun
        BY <1>5, <2>1, <2>2 DEF Begun, RowsOf
    <2> QED BY <2>1, <2>3, NewJobFollows
<1>6. ASSUME NEW p \in Passes, RecordFailed(p) PROVE rows' = rows
    BY <1>6 DEF RecordFailed
<1>7. CASE UNCHANGED vars
    BY <1>1, <1>7 DEF vars
<1>8. ASSUME NEW p \in Passes, RecordAnchored(p) \/ RecordFailed(p)
      PROVE  \/ length' = length /\ batches' = batches /\ Proven' = Proven
             \/ \E j \in batches' :
                    /\ length' = length /\ batches' = batches \cup {j}
                    /\ \/ Log!Follows(j) /\ Proven' = Proven
                       \/ /\ j \in batches \ Proven \/ Log!Follows(j)
                          /\ Proven' = Proven \cup {j}
    BY <1>4, <1>5, <1>6, <1>8
<1> QED BY <1>1, <1>2, <1>3, <1>7, <1>8 DEF Next, PassStep

(* Overlapping passes, lost races, failures and crashes add up to a chain   *)
(* whose ranges are cut once, in order, and proven whole and for good.      *)
THEOREM WorkerImplementsLog == Spec => ImplementsAnchoredLog
<1>1. Init => Log!LogInit
    BY DEF Init, Log!LogInit
<1>2. WholeInv /\ WholeInv' /\ [Next]_vars => [Log!LogStep]_(Log!logVars)
    BY StepMapped
<1> QED BY <1>1, <1>2, WholeInvariant, PTL DEF Spec, ImplementsAnchoredLog, Log!LogSpec

=============================================================================
