---------------------------- MODULE AnchorWorker ----------------------------
(***************************************************************************)
(* The anchoring worker (features/attesta/anchor-worker.ts) and the guards  *)
(* of its tables (drizzle/0018, 0021).                                      *)
(*                                                                         *)
(* A pass plans what to anchor in one read-only transaction, submits each   *)
(* batch root to a public log and a time authority outside any transaction, *)
(* and records each outcome in one write transaction.  Passes of several    *)
(* processes overlap: the plan's lock is released before the first submit.  *)
(*                                                                         *)
(* One tenant: every query and every batch id names its tenant.             *)
(*                                                                         *)
(* Abstractions.  A Merkle root is the range of records it covers: records  *)
(* never change (AttestaLedger), so a range has one root.  Time is a timer  *)
(* for each batch in backoff and one for the wait of a partial batch.  Of   *)
(* created_at the worker only asks whether a terminal failure is newer than *)
(* the batch's latest resume: a failure carries the number of resumes there *)
(* were when its transaction began, which is the time its now() tells.      *)
(* Two record transactions never overlap: the batch insert takes a lock of  *)
(* the tenant.  An unreachable service fails one batch and ends the pass    *)
(* like any failure; that it also spares the other tenants is left out.     *)
(***************************************************************************)
EXTENDS Naturals, FiniteSets

CONSTANTS
    Passes,         \* processes that run anchoring passes
    BatchSize,      \* [Passes -> Nat \ {0}]: --max-batch of each process
    BatchesPerPass, \* maxBatchesPerTenant
    ListLimit,      \* incomplete batches a plan reads: 4 * maxBatchesPerTenant
    MaxRecords,     \* bound: records the chain grows to
    MaxResumes,     \* bound: resumes of one batch
    NoRange         \* a pass between two batches

Types == {"rekor", "tsa"}
Ranges == {r \in [from : 0..(MaxRecords - 1), to : 0..(MaxRecords - 1)] : r.from <= r.to}
Outcomes == {"none", "complete", "failed", "terminal"}
PCs == {"idle", "submit", "record"}

ASSUME AnchorAssumption ==
    /\ BatchSize \in [Passes -> Nat \ {0}]
    /\ BatchesPerPass \in Nat \ {0} /\ ListLimit \in Nat \ {0}
    /\ MaxRecords \in Nat /\ MaxResumes \in Nat
    /\ NoRange \notin Ranges

VARIABLES
    length,     \* chain_head.next_seq
    waited,     \* records older than partialAfterMs: seq < waited
    batches,    \* attesta_anchor_batches
    rows,       \* anchored rows of attesta_anchors: [seq, type, by]
    cooling,    \* batches whose backoff has not passed
    terminals,  \* terminal failures: <<batch, resumes before it>>
    resumes,    \* attesta_anchor_resumes: how many of each batch
    pc,         \* what a pass does next
    todo,       \* the planned batches not yet submitted
    job,        \* the batch submitted
    outcome,    \* what the services answered
    epoch       \* job's resumes when the record transaction began

chainVars == <<length, waited>>
tableVars == <<batches, rows, cooling, terminals, resumes>>
passVars == <<pc, todo, job, outcome, epoch>>
vars == <<chainVars, tableVars, passVars>>

Init ==
    /\ length = 0
    /\ waited = 0
    /\ batches = {}
    /\ rows = {}
    /\ cooling = {}
    /\ terminals = {}
    /\ resumes = [b \in Ranges |-> 0]
    /\ pc = [p \in Passes |-> "idle"]
    /\ todo = [p \in Passes |-> {}]
    /\ job = [p \in Passes |-> NoRange]
    /\ outcome = [p \in Passes |-> "none"]
    /\ epoch = [p \in Passes |-> 0]

-----------------------------------------------------------------------------
(* What the tables say.                                                     *)

NextSeqOverlap ==                                                   \* mutant
    CHOOSE n \in {0} \cup {b.to : b \in batches} :
        \A b \in batches : b.to <= n

(* max(seq_to) + 1.                                                         *)
NextSeq ==
    CHOOSE n \in {0} \cup {b.to + 1 : b \in batches} :
        \A b \in batches : b.to < n

Anchored(b, t) == \A s \in b.from..b.to : \E r \in rows : r.seq = s /\ r.type = t
Complete(b) == \A t \in Types : Anchored(b, t)
Incomplete == {b \in batches : ~Complete(b)}

(* A terminal failure newer than the latest resume.                         *)
Stopped(b) == <<b, resumes[b]>> \in terminals

-----------------------------------------------------------------------------
(* Around the worker.                                                       *)

(* A record is chained (AttestaLedger).                                     *)
Chain ==
    /\ length < MaxRecords
    /\ length' = length + 1
    /\ UNCHANGED <<waited, tableVars, passVars>>

(* The oldest record that has not waited partialAfterMs has, now.           *)
Wait ==
    /\ waited < length
    /\ waited' = waited + 1
    /\ UNCHANGED <<length, tableVars, passVars>>

CoolDown(b) ==
    /\ b \in cooling
    /\ cooling' = cooling \ {b}
    /\ UNCHANGED <<chainVars, batches, rows, terminals, resumes, passVars>>

ResumeAgain(b) ==                                                   \* mutant
    /\ b \in batches /\ ~Complete(b)
    /\ \E e \in 0..resumes[b] : <<b, e>> \in terminals
    /\ resumes[b] < MaxResumes
    /\ resumes' = [resumes EXCEPT ![b] = @ + 1]
    /\ UNCHANGED <<chainVars, batches, rows, cooling, terminals, passVars>>

(* attesta:anchor-resume, as its guard admits it.                           *)
Resume(b) ==
    /\ b \in batches /\ ~Complete(b)
    /\ Stopped(b)
    /\ resumes[b] < MaxResumes
    /\ resumes' = [resumes EXCEPT ![b] = @ + 1]
    /\ UNCHANGED <<chainVars, batches, rows, cooling, terminals, passVars>>

-----------------------------------------------------------------------------
(* Plan.                                                                    *)

BySeqOnly(b, c) == b.from < c.from                                  \* mutant
(* ORDER BY stopped, seq_from.                                              *)
Before(b, c) ==
    IF Stopped(b) = Stopped(c) THEN b.from < c.from ELSE Stopped(c)

(* The first ListLimit incomplete batches in that order.                    *)
Listed ==
    {b \in Incomplete :
        Cardinality({c \in Incomplete : Before(c, b)}) < ListLimit}

Due == {b \in Listed : ~Stopped(b) /\ b \notin cooling}

Retries ==
    {b \in Due : Cardinality({c \in Due : c.from < b.from}) < BatchesPerPass}

(* The chunks of size n, at most k of them, that the unbatched records      *)
(* fill; the last, shorter one only when its first record has waited.       *)
NewBatches(n, k) ==
    {b \in Ranges :
        /\ b.from >= NextSeq /\ b.to < length
        /\ \E i \in 0..(k - 1) : b.from = NextSeq + i * n
        /\ \/ b.to + 1 = b.from + n
           \/ b.to + 1 < b.from + n /\ b.to + 1 = length /\ b.from < waited}

(* planTenant: due batches first, then new ones, maxBatchesPerTenant in all. *)
Plan(p) ==
    /\ pc[p] = "idle"
    /\ todo' = [todo EXCEPT ![p] =
        Retries \cup NewBatches(BatchSize[p], BatchesPerPass - Cardinality(Retries))]
    /\ pc' = [pc EXCEPT ![p] = "submit"]
    /\ UNCHANGED <<chainVars, tableVars, job, outcome, epoch>>

-----------------------------------------------------------------------------
(* Submit and record.                                                       *)

(* The planned batches go in the order of the chain; DualAnchor asks the    *)
(* log first and the time authority only then, and is complete with both.   *)
Submit(p, b, o) ==
    /\ pc[p] = "submit"
    /\ b \in todo[p]
    /\ \A c \in todo[p] : b.from <= c.from
    /\ todo' = [todo EXCEPT ![p] = @ \ {b}]
    /\ job' = [job EXCEPT ![p] = b]
    /\ outcome' = [outcome EXCEPT ![p] = o]
    /\ epoch' = [epoch EXCEPT ![p] = resumes[b]]
    /\ pc' = [pc EXCEPT ![p] = "record"]
    /\ UNCHANGED <<chainVars, tableVars>>

LeavePass(p) ==
    /\ pc' = [pc EXCEPT ![p] = "idle"]
    /\ todo' = [todo EXCEPT ![p] = {}]
    /\ job' = [job EXCEPT ![p] = NoRange]
    /\ outcome' = [outcome EXCEPT ![p] = "none"]
    /\ epoch' = [epoch EXCEPT ![p] = 0]

EndPass(p) ==
    /\ pc[p] = "submit" /\ todo[p] = {}
    /\ LeavePass(p)
    /\ UNCHANGED <<chainVars, tableVars>>

AdmitAny(b) == b.to < length                                        \* mutant
(* attesta_anchor_batches_guard: the same batch again, or the next range.   *)
Admitted(b) == b \in batches \/ b.from = NextSeq

(* ATA01: another process recorded other batches; the next pass plans anew. *)
Superseded(p) ==
    /\ pc[p] = "record"
    /\ ~Admitted(job[p])
    /\ LeavePass(p)
    /\ UNCHANGED <<chainVars, tableVars>>

(* ON CONFLICT DO NOTHING: a record and type already anchored keep their row. *)
NewRows(p) ==
    {r \in [seq : job[p].from..job[p].to, type : Types, by : {p}] :
        ~ \E old \in rows : old.seq = r.seq /\ old.type = r.type}

RecordPartly(p) ==                                                  \* mutant
    /\ pc[p] = "record"
    /\ outcome[p] \in {"complete", "failed"}
    /\ Admitted(job[p])
    /\ batches' = batches \cup {job[p]}
    /\ rows' = rows \cup {r \in NewRows(p) : outcome[p] = "complete" \/ r.type = "rekor"}
    /\ pc' = [pc EXCEPT ![p] = "submit"]
    /\ job' = [job EXCEPT ![p] = NoRange]
    /\ outcome' = [outcome EXCEPT ![p] = "none"]
    /\ epoch' = [epoch EXCEPT ![p] = 0]
    /\ UNCHANGED <<chainVars, cooling, terminals, resumes, todo>>

(* Both services proved the root: the batch and a row for each record and    *)
(* type, and on to the next planned batch.                                  *)
RecordAnchored(p) ==
    /\ pc[p] = "record"
    /\ outcome[p] = "complete"
    /\ Admitted(job[p])
    /\ batches' = batches \cup {job[p]}
    /\ rows' = rows \cup NewRows(p)
    /\ pc' = [pc EXCEPT ![p] = "submit"]
    /\ job' = [job EXCEPT ![p] = NoRange]
    /\ outcome' = [outcome EXCEPT ![p] = "none"]
    /\ epoch' = [epoch EXCEPT ![p] = 0]
    /\ UNCHANGED <<chainVars, cooling, terminals, resumes, todo>>

(* One of them failed: the batch and its failed rows, and the pass is over. *)
RecordFailed(p) ==
    /\ pc[p] = "record"
    /\ outcome[p] \in {"failed", "terminal"}
    /\ Admitted(job[p])
    /\ batches' = batches \cup {job[p]}
    /\ cooling' = cooling \cup {job[p]}
    /\ terminals' = terminals \cup
        (IF outcome[p] = "terminal" THEN {<<job[p], epoch[p]>>} ELSE {})
    /\ LeavePass(p)
    /\ UNCHANGED <<chainVars, rows, resumes>>

(* The process dies, or an unexpected error ends the pass: nothing written. *)
Abandon(p) ==
    /\ pc[p] # "idle"
    /\ LeavePass(p)
    /\ UNCHANGED <<chainVars, tableVars>>

SubmitAny(p) == \E b \in todo[p], o \in Outcomes \ {"none"} : Submit(p, b, o)

PassStep(p) ==
    \/ Plan(p) \/ SubmitAny(p) \/ EndPass(p)
    \/ Superseded(p) \/ RecordAnchored(p) \/ RecordFailed(p)

Next ==
    \/ Chain \/ Wait
    \/ \E b \in Ranges : CoolDown(b) \/ Resume(b)
    \/ \E p \in Passes : PassStep(p) \/ Abandon(p)

Spec == Init /\ [][Next]_vars

(* Passes are run for ever (attesta:anchor --loop, or a scheduler), timers   *)
(* fire, and a batch submitted again and again is some time accepted by     *)
(* both services and its outcome recorded.                                  *)
Fairness ==
    /\ WF_vars(Wait)
    /\ \A b \in Ranges : WF_vars(CoolDown(b))
    /\ \A p \in Passes :
        /\ WF_vars(PassStep(p))
        /\ \A s \in 0..(MaxRecords - 1) :
            /\ SF_vars(\E b \in todo[p] : b.from = s /\ Submit(p, b, "complete"))
            /\ SF_vars(job[p] # NoRange /\ job[p].from = s /\ RecordAnchored(p))

FairSpec == Spec /\ Fairness

-----------------------------------------------------------------------------
(* Properties.                                                              *)

Rows == [seq : 0..(MaxRecords - 1), type : Types, by : Passes]

TypeOK ==
    /\ length \in 0..MaxRecords
    /\ waited \in 0..length
    /\ batches \in SUBSET Ranges
    /\ rows \in SUBSET Rows
    /\ cooling \in SUBSET Ranges
    /\ terminals \in SUBSET (Ranges \X Nat)
    /\ resumes \in [Ranges -> Nat]
    /\ pc \in [Passes -> PCs]
    /\ todo \in [Passes -> SUBSET Ranges]
    /\ job \in [Passes -> Ranges \cup {NoRange}]
    /\ outcome \in [Passes -> Outcomes]
    /\ epoch \in [Passes -> Nat]

(* The batches cover the chain from its beginning without a gap or an       *)
(* overlap, and nothing that is not chained, whatever plans are recorded    *)
(* late or by processes with other batch sizes.                             *)
BatchesTile ==
    /\ \A b \in batches : b.to < length
    /\ \A b, c \in batches : b # c => b.to < c.from \/ c.to < b.from
    /\ \A b \in batches : b.from = 0 \/ \E c \in batches : c.to + 1 = b.from

(* Dual anchoring is all or nothing: a batch has either no anchored row, or *)
(* one of each type for each of its records, all from one submission; and   *)
(* no record is anchored outside a batch.                                   *)
RowsOf(b) == {r \in rows : b.from <= r.seq /\ r.seq <= b.to}

AnchoredWhole ==
    /\ \A b \in batches :
        \/ RowsOf(b) = {}
        \/ \E p \in Passes : RowsOf(b) = [seq : b.from..b.to, type : Types, by : {p}]
    /\ \A r \in rows : \E b \in batches : b.from <= r.seq /\ r.seq <= b.to

(* "One resume lifts one stop" (tables.md): every resume of a batch answers *)
(* a terminal failure of its own, and no stop is of a later time than now.  *)
OneResumePerStop ==
    \A b \in Ranges :
        /\ \A e \in 0..(resumes[b] - 1) : <<b, e>> \in terminals
        /\ \A t \in terminals : t[1] = b => t[2] <= resumes[b]

(* Every chained record ends up anchored by both services, or visible in a  *)
(* batch that waits for an operator; other stopped or failing batches hold  *)
(* nothing up.                                                              *)
Settled(s) ==
    \E b \in batches :
        b.from <= s /\ s <= b.to /\ (Complete(b) \/ Stopped(b))

EveryRecordSettles ==
    \A s \in 0..(MaxRecords - 1) : s < length ~> Settled(s)

(* The abstract log this module implements.                                 *)
Log == INSTANCE AnchoredLog WITH
    length <- length, cut <- batches, proven <- {b \in batches : Complete(b)}

(* Overlapping passes, lost races and crashes add up to a log whose ranges  *)
(* are cut once, in order, and proven whole.                                *)
ImplementsAnchoredLog == Log!LogSpec
=============================================================================
