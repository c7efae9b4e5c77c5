--------------------------- MODULE CommitLifecycle ---------------------------
(***************************************************************************)
(* What telemetry makes of the commits of one branch of a repository       *)
(* (features/telemetry/service.ts): uploads store a batch and its events   *)
(* one statement after the other and normalise each event in a transaction *)
(* of its own; the reconciler normalises events left pending, the rebuild  *)
(* all events in the order of their times; a GitHub push touches the row   *)
(* of a commit directly.                                                   *)
(*                                                                         *)
(* A commit has one event and two times: that of the event, by which the   *)
(* rebuild sorts, and that of the commit, by which one commit displaces    *)
(* another.  They may differ, and both are whole seconds, so they may tie. *)
(* Lines, files, sessions and models, which no step here reads back, are   *)
(* left out.  A transaction sees what others have committed when it looks, *)
(* and holds the rows it writes until it ends.                             *)
(***************************************************************************)
EXTENDS Naturals, Sequences, FiniteSets, Functions

CONSTANTS
    LastCommit,     \* commits are 1..LastCommit, parents and originals first
    EventTime,      \* t of a commit's event
    CommitTime,     \* committed_at: of the commit's metadata, or else of its event
    Base,           \* the parent of a commit; 0 when unknown
    Patch,          \* the patch identity of a commit
    Rewrites,       \* the commits an amend or rebase replaces; {} for a plain one
    Pushed,         \* the commits that GitHub tells of
    Uploads,        \* batches as sent: sequences of commits
    Hands,          \* processes that upload, reconcile or rebuild
    MaxStarted      \* bound: how often a hand starts on something

Commits == 1..LastCommit

ASSUME CommitsAssumption ==
    /\ LastCommit \in Nat /\ MaxStarted \in Nat
    /\ EventTime \in [Commits -> Nat] /\ CommitTime \in [Commits -> Nat]
    /\ Base \in [Commits -> 0..LastCommit] /\ DOMAIN Patch = Commits /\ Pushed \subseteq Commits
    /\ \A c \in Commits : Base[c] < c /\ Rewrites[c] \subseteq 1..(c - 1)
    /\ Uploads \subseteq Seq(Commits)

VARIABLES
    taken, answered,    \* batches stored, batches answered with success
    arrived,            \* telemetry_metric_events, in order of arrival
    normalization,      \* their normalization_status
    reach,              \* reachability in scm_commits
    known,              \* the commits normalised, with their row in scm_commit_lineage
    hand,               \* what each hand is doing
    started,
    cutShort,           \* history: batches whose upload ended early
    undisturbed         \* history: hands that nothing else has interfered with

stored == <<taken, answered, arrived, normalization, cutShort>>
projected == <<reach, known>>
commitVars == <<stored, projected, hand, started, undisturbed>>

NoWork == [role |-> "idle", batch |-> <<>>, todo |-> <<>>, at |-> "next",
           targets |-> {}, abandoned |-> {}, superseded |-> {}, ok |-> TRUE]

CommitInit ==
    /\ taken = {} /\ answered = {} /\ arrived = <<>> /\ cutShort = {}
    /\ normalization = [c \in Commits |-> "none"]
    /\ reach = [c \in Commits |-> "none"] /\ known = {}
    /\ hand = [h \in Hands |-> NoWork]
    /\ started = 0
    /\ undisturbed = {}

Becomes(h, work) == hand' = [hand EXCEPT ![h] = work]
At(h, where) == hand[h].role # "idle" /\ hand[h].at = where
Subject(h) == Head(hand[h].todo)

----------------------------------------------------------------------------
(* Starting on something.                                                  *)

Takes(h, work) ==
    /\ hand[h].role = "idle"
    /\ started < MaxStarted
    /\ started' = started + 1
    /\ Becomes(h, work)
    /\ undisturbed' = IF \A o \in Hands \ {h} : hand[o].role = "idle" THEN {h} ELSE {}

\* The batch row is inserted, unless there is one of the same content.
StartUpload(h, b) ==
    /\ b \notin taken
    /\ taken' = taken \cup {b}
    /\ Takes(h, [NoWork EXCEPT !.role = "upload", !.batch = b, !.todo = b])
    /\ UNCHANGED <<answered, arrived, normalization, cutShort, projected>>

RepeatUpload(b) ==
    /\ b \in taken
    /\ answered' = answered \cup {b}
    /\ UNCHANGED <<taken, arrived, normalization, cutShort, projected, hand, started, undisturbed>>

\* A set of numbers as a sequence, from the least to the greatest.
InOrder(numbers) ==
    [k \in 1..Cardinality(numbers) |->
        CHOOSE i \in numbers : Cardinality({j \in numbers : j < i}) = k - 1]

IsPending(c) == normalization[c] = "pending"

\* The rows that are pending, by their arrival.
PendingRows == InOrder({i \in DOMAIN arrived : IsPending(arrived[i])})

StartReconcile(h) ==
    /\ Takes(h, [NoWork EXCEPT !.role = "reconcile",
                    !.todo = [k \in DOMAIN PendingRows |-> arrived[PendingRows[k]]]])
    /\ UNCHANGED <<stored, projected>>

\* The events sorted by their times: those of one second in any order, since the
\* rows are selected in none.
InOrderOfTime(events) ==
    {order \in [DOMAIN events -> Range(events)] :
        /\ \A i, j \in DOMAIN events : i < j =>
              order[i] # order[j] /\ EventTime[order[i]] <= EventTime[order[j]]
        /\ Range(order) = Range(events)}

\* Mutant: the events are replayed as they arrived.
StartRebuildUnsorted(h) ==
    /\ Takes(h, [NoWork EXCEPT !.role = "rebuild", !.todo = arrived])
    /\ UNCHANGED <<stored, projected>>

StartRebuild(h) ==
    /\ hand[h].role = "idle" /\ started < MaxStarted
    /\ \E order \in InOrderOfTime(arrived) :
          Takes(h, [NoWork EXCEPT !.role = "rebuild", !.todo = order])
    /\ UNCHANGED <<stored, projected>>

----------------------------------------------------------------------------
(* One event after the other.                                              *)

\* Mutant: a duplicate ends the upload.
AfterDuplicateStop(todo) == <<>>

\* An event that another batch brought is passed over.
AfterDuplicate(todo) == Tail(todo)

StoreEvent(h) ==
    /\ At(h, "next") /\ hand[h].role = "upload" /\ hand[h].todo # <<>>
    /\ \/ /\ normalization[Subject(h)] = "none"
          /\ arrived' = Append(arrived, Subject(h))
          /\ normalization' = [normalization EXCEPT ![Subject(h)] = "pending"]
          /\ Becomes(h, [hand[h] EXCEPT !.at = "begin"])
       \/ /\ normalization[Subject(h)] # "none"
          /\ Becomes(h, [hand[h] EXCEPT !.todo = AfterDuplicate(@)])
          /\ UNCHANGED <<arrived, normalization>>
    /\ UNCHANGED <<taken, answered, cutShort, projected, started, undisturbed>>

NextStored(h) ==
    /\ At(h, "next") /\ hand[h].role # "upload" /\ hand[h].todo # <<>>
    /\ Becomes(h, [hand[h] EXCEPT !.at = "begin"])
    /\ UNCHANGED <<stored, projected, started, undisturbed>>

\* All is done: the upload is answered.
Finish(h) ==
    /\ At(h, "next") /\ hand[h].todo = <<>>
    /\ answered' = IF hand[h].role = "upload" THEN answered \cup {hand[h].batch} ELSE answered
    /\ Becomes(h, NoWork)
    /\ UNCHANGED <<taken, arrived, normalization, cutShort, projected, started, undisturbed>>

----------------------------------------------------------------------------
(* normalizeCommit                                                         *)

InTransaction == {"siblings", "abandon", "replaced", "supersede", "commit"}
Held(h) ==
    IF hand[h].at \notin InTransaction THEN {}
    ELSE {Subject(h)} \cup hand[h].abandoned \cup hand[h].superseded
FreeFor(h, commits) == \A o \in Hands \ {h} : commits \cap Held(o) = {}

\* The upsert of the commit's own row, which makes it reachable again.
BeginNormalize(h) ==
    /\ At(h, "begin")
    /\ FreeFor(h, {Subject(h)})
    /\ Becomes(h, [hand[h] EXCEPT !.at = "siblings"])
    /\ UNCHANGED <<stored, projected, started, undisturbed>>

\* Mutant: whichever of two commits on one parent comes last wins.
AbandonsAny(c, sibling) == reach[sibling] \notin {"superseded", "unreachable"}

\* shouldAbandonSiblingTip
Abandons(c, sibling) ==
    CommitTime[sibling] <= CommitTime[c] /\ reach[sibling] \notin {"superseded", "unreachable"}

Siblings(c) == {s \in known \ {c} : Base[c] # 0 /\ Base[s] = Base[c]}

FindSiblings(h) ==
    /\ At(h, "siblings")
    /\ LET found == {s \in Siblings(Subject(h)) : Abandons(Subject(h), s)}
       IN  Becomes(h, [hand[h] EXCEPT !.targets = found,
                           !.at = IF found = {} THEN "replaced" ELSE "abandon"])
    /\ UNCHANGED <<stored, projected, started, undisturbed>>

AbandonSiblings(h) ==
    /\ At(h, "abandon")
    /\ FreeFor(h, hand[h].targets)
    /\ Becomes(h, [hand[h] EXCEPT !.at = "replaced", !.abandoned = hand[h].targets])
    /\ UNCHANGED <<stored, projected, started, undisturbed>>

\* The originals of a rewrite; for a plain commit the others of the same patch
\* that are not younger, which it commits again after a reset.
Replaced(c) ==
    IF Rewrites[c] # {} THEN {s \in Rewrites[c] : reach[s] # "none"}
    ELSE {s \in known \ {c} : CommitTime[s] <= CommitTime[c] /\ Patch[s] = Patch[c]}

FindReplaced(h) ==
    /\ At(h, "replaced")
    /\ LET found == Replaced(Subject(h))
       IN  Becomes(h, [hand[h] EXCEPT !.targets = found,
                           !.at = IF found = {} THEN "commit" ELSE "supersede"])
    /\ UNCHANGED <<stored, projected, started, undisturbed>>

SupersedeReplaced(h) ==
    /\ At(h, "supersede")
    /\ FreeFor(h, hand[h].targets)
    /\ Becomes(h, [hand[h] EXCEPT !.at = "commit", !.superseded = hand[h].targets])
    /\ UNCHANGED <<stored, projected, started, undisturbed>>

Outcome(h) ==
    [c \in Commits |->
        IF c \in hand[h].superseded THEN "superseded"
        ELSE IF c \in hand[h].abandoned THEN "unreachable"
        ELSE IF c = Subject(h) THEN "reachable"
        ELSE reach[c]]

\* A rebuild goes on; the others set the event's status first.
Transacted(h, ok) ==
    LET work == [NoWork EXCEPT !.role = hand[h].role, !.batch = hand[h].batch]
    IN  Becomes(h, IF hand[h].role = "rebuild" THEN [work EXCEPT !.todo = Tail(hand[h].todo)]
                   ELSE [work EXCEPT !.todo = hand[h].todo, !.at = "status", !.ok = ok])

CommitNormalize(h) ==
    /\ At(h, "commit")
    /\ reach' = Outcome(h)
    /\ known' = known \cup {Subject(h)}
    /\ Transacted(h, TRUE)
    /\ UNCHANGED <<stored, started, undisturbed>>

\* The outbox refuses, or the database fails: all of it is undone.
NormalizeFails(h) ==
    /\ hand[h].at \in InTransaction
    /\ Transacted(h, FALSE)
    /\ undisturbed' = undisturbed \ {h}
    /\ UNCHANGED <<stored, projected, started>>

\* The status follows in a statement of its own.
SetStatus(h) ==
    /\ At(h, "status")
    /\ normalization' =
          IF hand[h].role = "upload" \/ IsPending(Subject(h))
          THEN [normalization EXCEPT ![Subject(h)] = IF hand[h].ok THEN "normalized" ELSE "failed"]
          ELSE normalization
    /\ Becomes(h, [hand[h] EXCEPT !.at = "next", !.todo = Tail(@)])
    /\ UNCHANGED <<taken, answered, arrived, cutShort, projected, started, undisturbed>>

\* The process dies or a statement fails: an open transaction is undone.
EndsEarly(h) ==
    /\ hand[h].role # "idle" /\ hand[h].todo # <<>>
    /\ cutShort' = IF hand[h].role = "upload" THEN cutShort \cup {hand[h].batch} ELSE cutShort
    /\ Becomes(h, NoWork)
    /\ UNCHANGED <<taken, answered, arrived, normalization, projected, started, undisturbed>>

----------------------------------------------------------------------------
(* recordPushedCommit: GitHub says the commit is on the branch.            *)
Push(c) ==
    /\ \A h \in Hands : c \notin Held(h)
    /\ reach' = [reach EXCEPT ![c] = "reachable"]
    /\ undisturbed' = {}
    /\ UNCHANGED <<stored, known, hand, started>>

CommitNext ==
    \/ \E b \in Uploads : RepeatUpload(b) \/ \E h \in Hands : StartUpload(h, b)
    \/ \E h \in Hands :
          \/ StartReconcile(h) \/ StartRebuild(h)
          \/ StoreEvent(h) \/ NextStored(h) \/ Finish(h)
          \/ BeginNormalize(h) \/ FindSiblings(h) \/ AbandonSiblings(h)
          \/ FindReplaced(h) \/ SupersedeReplaced(h) \/ CommitNormalize(h)
          \/ NormalizeFails(h) \/ SetStatus(h) \/ EndsEarly(h)
    \/ \E c \in Pushed : Push(c)

CommitSpec == CommitInit /\ [][CommitNext]_commitVars

----------------------------------------------------------------------------
NotYounger(c, d) == c # d /\ CommitTime[c] <= CommitTime[d]
Supersedes(d, c) ==
    \/ c \in Rewrites[d]
    \/ Rewrites[d] = {} /\ Patch[d] = Patch[c] /\ NotYounger(c, d)
Displaces(d, c) == NotYounger(c, d) /\ Base[c] # 0 /\ Base[d] = Base[c]

(* A commit leaves the retained denominator only for one that replaces it    *)
(* and is not older: however late, often or concurrently events arrive and   *)
(* fail, none drops a commit without the commit that replaces it.            *)
DroppedForSuccessor ==
    \A c \in Commits :
        /\ reach[c] = "superseded" => \E d \in known : Supersedes(d, c)
        /\ reach[c] = "unreachable" => \E d \in known : Displaces(d, c)

\* What the events say of a commit, of those that are replayed after its own.
Reference(c, later) ==
    IF \E d \in later : Supersedes(d, c) THEN "superseded"
    ELSE IF \E d \in later : Displaces(d, c) THEN "unreachable"
    ELSE "reachable"

After(i, order) == {order[j] : j \in {k \in DOMAIN order : i < k}}

(* A rebuild forgets: whatever order the events arrived and were normalised  *)
(* in, whatever failed, was pushed or normalised again in between, after a   *)
(* rebuild that nothing interferes with every commit is as the events say    *)
(* that follow its own by their times, those of one second in one order.     *)
(* (Where a successor's event is the earlier one, this is not what the times *)
(* of the commits say.)                                                      *)
RebuildConverges ==
    \A h \in undisturbed :
        At(h, "next") /\ hand[h].role = "rebuild" /\ hand[h].todo = <<>> =>
            \E order \in InOrderOfTime(arrived) :
                \A i \in DOMAIN order : reach[order[i]] = Reference(order[i], After(i, order))

(* An upload answered with success has stored every event, its own or a      *)
(* repeated one's; an upload that repeats a batch is answered before the     *)
(* first is done, and also when the first ended early: what that one left    *)
(* out no retry brings back.                                                 *)
AnsweredIsStored ==
    \A b \in answered :
        \/ Range(b) \subseteq Range(arrived)
        \/ b \in cutShort
        \/ \E h \in Hands : hand[h].role = "upload" /\ hand[h].batch = b
============================================================================
