----------------------- MODULE CommitLifecycleProofs -----------------------
(***************************************************************************)
(* Theorems about CommitLifecycle, for any commits, batches and hands.      *)
(***************************************************************************)
EXTENDS CommitLifecycle, FiniteSetTheorems, TLAPS

Works == [role : {"idle", "upload", "reconcile", "rebuild"}, batch : Seq(Commits),
          todo : Seq(Commits), at : {"next", "begin", "status"} \cup InTransaction,
          targets : SUBSET Commits, abandoned : SUBSET Commits, superseded : SUBSET Commits,
          ok : BOOLEAN]

Arrived == Range(arrived)
Todo(h) == Range(hand[h].todo)

(***************************************************************************)
(* Types; and only what arrived is replayed or known.                       *)
(***************************************************************************)
StoredInv ==
    /\ taken \in SUBSET Uploads /\ answered \in SUBSET taken
    /\ arrived \in Seq(Commits)
    /\ normalization \in [Commits -> {"none", "pending", "normalized", "failed"}]
    /\ \A c \in Commits : c \in Arrived <=> normalization[c] # "none"
    /\ reach \in [Commits -> {"none", "reachable", "superseded", "unreachable"}]
    /\ known \in SUBSET Arrived

Ready(work, events) ==
    /\ work.at # "next" =>
          work.role # "idle" /\ work.todo # <<>> /\ Head(work.todo) \in events
    /\ work.role # "upload" => Range(work.todo) \subseteq events

HandsInv == hand \in [Hands -> Works] /\ \A h \in Hands : Ready(hand[h], Arrived)

(***************************************************************************)
(* What a transaction has found to drop, the commit it normalises replaces. *)
(***************************************************************************)
Replaces(work) ==
    /\ \A s \in work.abandoned : Displaces(Head(work.todo), s)
    /\ \A s \in work.superseded : Supersedes(Head(work.todo), s)
    /\ work.at = "abandon" => \A s \in work.targets : Displaces(Head(work.todo), s)
    /\ work.at = "supersede" => \A s \in work.targets : Supersedes(Head(work.todo), s)
    /\ work.at \in {"next", "begin", "siblings", "status"} =>
          work.abandoned = {} /\ work.superseded = {}

FoundInv == \A h \in Hands : Replaces(hand[h])

(***************************************************************************)
(* An upload has still to do what is not stored of its batch.               *)
(***************************************************************************)
Uploading(b) == \E h \in Hands : hand[h].role = "upload" /\ hand[h].batch = b

UploadsInv ==
    /\ \A h \in Hands : hand[h].role = "upload" =>
          hand[h].batch \in taken /\ Range(hand[h].batch) \subseteq Todo(h) \cup Arrived
    /\ \A b \in taken : Range(b) \subseteq Arrived \/ b \in cutShort \/ Uploading(b)

CommitInv == StoredInv /\ HandsInv /\ FoundInv /\ DroppedForSuccessor /\ UploadsInv

(***************************************************************************)
(* A rebuild that nothing interferes with has replayed the first k events   *)
(* of some order of their times, the others are left, and every commit it   *)
(* has replayed is as those of them say that followed its own.              *)
(***************************************************************************)
ToAbandon(c) == {s \in Siblings(c) : Abandons(c, s)}

Finds(work) ==
    /\ work.at # "status"
    /\ work.at = "abandon" => work.targets = ToAbandon(Head(work.todo))
    /\ work.at \in {"replaced", "supersede", "commit"} =>
          work.abandoned = ToAbandon(Head(work.todo))
    /\ work.at = "supersede" => work.targets = Replaced(Head(work.todo))
    /\ work.superseded = IF work.at = "commit" THEN Replaced(Head(work.todo)) ELSE {}

Between(i, k, order) == {order[j] : j \in {n \in DOMAIN order : i < n /\ n <= k}}

Left(todo, k, order) ==
    /\ k \in 0..Len(order) /\ Len(todo) = Len(order) - k
    /\ \A i \in 1..Len(todo) : todo[i] = order[k + i]

Replayed(k, order) ==
    \A i \in 1..k : /\ order[i] \in known
                    /\ reach[order[i]] = Reference(order[i], Between(i, k, order))

Rebuilds(h) ==
    /\ \A o \in Hands : o # h => hand[o].role = "idle"
    /\ \E order \in InOrderOfTime(arrived), k \in Nat :
          Left(hand[h].todo, k, order) /\ Replayed(k, order)
    /\ Finds(hand[h])

RebuildsInv ==
    /\ undisturbed \in SUBSET Hands
    /\ \A h \in undisturbed : hand[h].role = "rebuild" => Rebuilds(h)

(***************************************************************************)
(* A finite set of numbers in order.                                        *)
(***************************************************************************)
Place(numbers, i) == Cardinality({j \in numbers : j < i})

LEMMA PlacesGrow ==
    ASSUME NEW S, S \in SUBSET Nat, IsFiniteSet(S)
    PROVE  /\ \A i \in S : Place(S, i) \in Nat /\ Place(S, i) + 1 <= Cardinality(S)
           /\ \A i, j \in S : i < j => Place(S, i) < Place(S, j)
<1> DEFINE Less(i) == {j \in S : j < i}
<1>1. \A i \in S : IsFiniteSet(Less(i)) /\ Cardinality(Less(i)) \in Nat
    BY FS_Subset, FS_CardinalityType
<1>2. ASSUME NEW i \in S PROVE Cardinality(Less(i) \cup {i}) = Cardinality(Less(i)) + 1
    <2>1. i \notin Less(i)
        OBVIOUS
    <2> HIDE DEF Less
    <2> QED BY <1>1, <2>1, FS_AddElement
<1>3. ASSUME NEW i \in S, NEW T \in SUBSET S, Less(i) \cup {i} \subseteq T
      PROVE  Cardinality(Less(i)) + 1 <= Cardinality(T)
    <2>1. IsFiniteSet(T)
        BY FS_Subset
    <2>2. PICK U \in SUBSET T : U = Less(i) \cup {i}
        BY <1>3
    <2>3. Cardinality(U) = Cardinality(Less(i)) + 1
        BY <1>2, <2>2
    <2>4. Cardinality(U) <= Cardinality(T)
        BY <2>1, FS_Subset
    <2> HIDE DEF Less
    <2> QED BY <2>3, <2>4
<1>4. \A i \in S : Place(S, i) = Cardinality(Less(i))
    BY DEF Place
<1>5. ASSUME NEW i \in S PROVE Place(S, i) \in Nat /\ Place(S, i) + 1 <= Cardinality(S)
    <2>1. Less(i) \cup {i} \subseteq S /\ S \in SUBSET S
        OBVIOUS
    <2> HIDE DEF Less
    <2> QED BY <1>1, <1>3, <1>4, <2>1
<1>6. ASSUME NEW i \in S, NEW j \in S, i < j PROVE Place(S, i) < Place(S, j)
    <2>0. i \in Nat /\ j \in Nat /\ \A d \in Less(i) : d \in Nat
        OBVIOUS
    <2>1. Less(i) \cup {i} \subseteq Less(j) /\ Less(j) \in SUBSET S
        <3>1. \A d \in Less(i) : d < j
            BY <1>6, <2>0
        <3> QED BY <1>6, <3>1
    <2> HIDE DEF Less
    <2>2. Cardinality(Less(i)) + 1 <= Cardinality(Less(j))
        BY <1>3, <2>1
    <2> QED BY <1>1, <1>4, <2>2
<1> QED BY <1>5, <1>6

LEMMA InOrderLists ==
    ASSUME NEW S, S \in SUBSET Nat, IsFiniteSet(S)
    PROVE  /\ InOrder(S) \in Seq(S) /\ Range(InOrder(S)) = S
           /\ \A i, j \in 1..Len(InOrder(S)) : i < j => InOrder(S)[i] < InOrder(S)[j]
<1>1. PICK n \in Nat : n = Cardinality(S)
    BY FS_CardinalityType
<1>2. /\ \A i \in S : Place(S, i) \in Nat /\ Place(S, i) + 1 <= n
      /\ \A i, j \in S : i < j => Place(S, i) < Place(S, j)
    BY <1>1, PlacesGrow
<1> DEFINE place == [i \in S |-> Place(S, i) + 1]
<1>3. place \in [S -> 1..n]
    BY <1>2
<1>4. \A i, j \in S : Place(S, i) = Place(S, j) => i = j
    BY <1>2
<1>5. \A i, j \in S : place[i] = place[j] => i = j
    BY <1>2, <1>4
<1>6. place \in Injection(S, 1..n)
    <2> HIDE DEF place
    <2>1. DOMAIN place = S
        BY <1>3
    <2>2. IsInjective(place)
        BY <1>5, <2>1 DEF IsInjective
    <2> QED BY <1>3, <2>2 DEF Injection
<1>7. place \in Surjection(S, 1..n)
    <2>1. IsFiniteSet(1..n) /\ Cardinality(1..n) = n
        BY FS_Interval
    <2> HIDE DEF place
    <2> QED BY <1>1, <1>6, <2>1, FS_Injection
<1>8. \A k \in 1..n : \E i \in S : place[i] = k
    <2> HIDE DEF place
    <2> QED BY <1>7 DEF Surjection
<1>9. \A k \in 1..n : \E i \in S : Place(S, i) = k - 1
    <2> SUFFICES ASSUME NEW k \in 1..n PROVE \E i \in S : Place(S, i) = k - 1
        OBVIOUS
    <2>1. PICK i \in S : place[i] = k
        BY <1>8
    <2>2. Place(S, i) + 1 = k
        BY <2>1
    <2> QED BY <1>2, <2>2
<1>10. InOrder(S) = [k \in 1..n |-> CHOOSE i \in S : Place(S, i) = k - 1]
    BY <1>1 DEF InOrder, Place
<1>11. ASSUME NEW k \in 1..n PROVE InOrder(S)[k] \in S /\ Place(S, InOrder(S)[k]) = k - 1
    BY <1>9, <1>10
<1>12. InOrder(S) \in Seq(S) /\ Len(InOrder(S)) = n
    <2>1. InOrder(S) \in [1..n -> S]
        BY <1>10, <1>11
    <2> QED BY <2>1
<1>13. ASSUME NEW i \in S PROVE \E k \in 1..n : InOrder(S)[k] = i
    <2>1. Place(S, i) + 1 \in 1..n
        BY <1>2
    <2>2. InOrder(S)[Place(S, i) + 1] \in S /\ Place(S, InOrder(S)[Place(S, i) + 1]) = Place(S, i)
        BY <1>2, <1>11, <2>1
    <2> QED BY <1>4, <2>1, <2>2
<1>14. Range(InOrder(S)) = S
    <2>1. DOMAIN InOrder(S) = 1..n
        BY <1>10
    <2> QED BY <1>11, <1>13, <2>1 DEF Range
<1>15. ASSUME NEW i \in 1..n, NEW j \in 1..n, i < j PROVE InOrder(S)[i] < InOrder(S)[j]
    <2>1. PICK x \in S, y \in S : x = InOrder(S)[i] /\ y = InOrder(S)[j]
        BY <1>11
    <2>2. Place(S, x) < Place(S, y)
        BY <1>11, <1>15, <2>1
    <2>3. x \in Nat /\ y \in Nat /\ ~(y < x) /\ x # y
        BY <1>2, <2>2
    <2> QED BY <2>1, <2>3
<1> QED BY <1>12, <1>14, <1>15

(***************************************************************************)
(* Sequences of commits and what is in them.                                *)
(***************************************************************************)
LEMMA FirstAndRest ==
    ASSUME NEW s \in Seq(Commits), s # <<>>
    PROVE  /\ Head(s) \in Commits /\ Tail(s) \in Seq(Commits)
           /\ Range(s) = {Head(s)} \cup Range(Tail(s))
<1>1. /\ Len(s) \in Nat /\ Len(s) > 0 /\ DOMAIN s = 1..Len(s) /\ Head(s) = s[1]
      /\ Head(s) \in Commits /\ Tail(s) \in Seq(Commits)
      /\ Len(Tail(s)) = Len(s) - 1 /\ DOMAIN Tail(s) = 1..(Len(s) - 1)
      /\ \A i \in 1..(Len(s) - 1) : Tail(s)[i] = s[i + 1]
    OBVIOUS
<1>2. ASSUME NEW i \in 1..Len(s) PROVE s[i] \in {Head(s)} \cup Range(Tail(s))
    <2>1. CASE i = 1
        BY <1>1, <2>1
    <2>2. CASE i # 1
        <3>1. i - 1 \in 1..(Len(s) - 1) /\ (i - 1) + 1 = i
            BY <1>1, <2>2
        <3>2. Tail(s)[i - 1] = s[i]
            BY <1>1, <3>1
        <3> QED BY <1>1, <3>1, <3>2 DEF Range
    <2> QED BY <2>1, <2>2
<1>3. ASSUME NEW i \in 1..(Len(s) - 1) PROVE Tail(s)[i] \in Range(s)
    <2>1. i + 1 \in 1..Len(s)
        BY <1>1
    <2> QED BY <1>1, <2>1 DEF Range
<1>4. Head(s) \in Range(s)
    <2>1. 1 \in 1..Len(s)
        BY <1>1
    <2> QED BY <1>1, <2>1 DEF Range
<1>5. Range(s) \subseteq {Head(s)} \cup Range(Tail(s))
    BY <1>1, <1>2 DEF Range
<1>6. Range(Tail(s)) \subseteq Range(s)
    BY <1>1, <1>3 DEF Range
<1> QED BY <1>1, <1>4, <1>5, <1>6

LEMMA OneMore ==
    ASSUME NEW s \in Seq(Commits), NEW c \in Commits
    PROVE  /\ Append(s, c) \in Seq(Commits) /\ Append(s, c) # <<>>
           /\ Range(Append(s, c)) = Range(s) \cup {c}
<1>1. /\ Len(s) \in Nat /\ DOMAIN s = 1..Len(s) /\ Append(s, c) \in Seq(Commits)
      /\ DOMAIN Append(s, c) = 1..(Len(s) + 1) /\ Append(s, c)[Len(s) + 1] = c
      /\ \A i \in 1..Len(s) : Append(s, c)[i] = s[i]
      /\ Append(s, c) # <<>>
    OBVIOUS
<1>2. ASSUME NEW i \in 1..(Len(s) + 1) PROVE Append(s, c)[i] \in Range(s) \cup {c}
    <2>1. CASE i = Len(s) + 1
        BY <1>1, <2>1
    <2>2. CASE i # Len(s) + 1
        <3>1. i \in 1..Len(s)
            BY <1>1, <2>2
        <3> QED BY <1>1, <3>1 DEF Range
    <2> QED BY <2>1, <2>2
<1>3. ASSUME NEW i \in 1..Len(s) PROVE s[i] \in Range(Append(s, c))
    <2>1. i \in 1..(Len(s) + 1)
        BY <1>1
    <2> QED BY <1>1, <2>1 DEF Range
<1>4. c \in Range(Append(s, c))
    <2>1. Len(s) + 1 \in 1..(Len(s) + 1)
        BY <1>1
    <2> QED BY <1>1, <2>1 DEF Range
<1>5. Range(s) \subseteq Range(Append(s, c))
    BY <1>1, <1>3 DEF Range
<1>6. Range(Append(s, c)) \subseteq Range(s) \cup {c}
    BY <1>1, <1>2 DEF Range
<1> QED BY <1>1, <1>4, <1>5, <1>6

LEMMA Elements == ASSUME NEW s \in Seq(Commits) PROVE Range(s) \subseteq Commits
    BY DEF Range

LEMMA NoElements == <<>> \in Seq(Commits) /\ Range(<<>>) = {}
    BY DEF Range

(* Commits are numbers.                                                      *)
LEMMA CommitNumbers == \A c \in Commits : c \in Nat
<1>1. LastCommit \in Nat
    BY CommitsAssumption
<1>2. \A c \in Commits : c \in Nat
    BY <1>1 DEF Commits
<1> QED BY <1>2

LEMMA IdleWork ==
    /\ NoWork \in Works /\ NoWork.role = "idle" /\ NoWork.at = "next" /\ NoWork.todo = <<>>
    /\ NoWork.batch = <<>> /\ NoWork.abandoned = {} /\ NoWork.superseded = {} /\ NoWork.targets = {}
<1>1. <<>> \in Seq(Commits) /\ {} \in SUBSET Commits /\ TRUE \in BOOLEAN
    OBVIOUS
<1> QED BY <1>1 DEF NoWork, Works

(***************************************************************************)
(* A step of one hand.                                                      *)
(***************************************************************************)
LEMMA HandMoves ==
    ASSUME HandsInv, NEW h \in Hands, NEW work \in Works, Becomes(h, work)
    PROVE  /\ hand' \in [Hands -> Works] /\ hand'[h] = work
           /\ \A o \in Hands : o # h => hand'[o] = hand[o]
    BY DEF HandsInv, Becomes

LEMMA HandKept ==
    ASSUME HandsInv, FoundInv, NEW h \in Hands, NEW work \in Works, Becomes(h, work),
           Arrived \subseteq Arrived', Ready(work, Arrived'), Replaces(work)
    PROVE  HandsInv' /\ FoundInv'
<1>1. /\ hand' \in [Hands -> Works] /\ hand'[h] = work
      /\ \A o \in Hands : o # h => hand'[o] = hand[o]
    BY HandMoves
<1>2. ASSUME NEW o \in Hands PROVE Ready(hand'[o], Arrived') /\ Replaces(hand'[o])
    <2>1. CASE o = h
        BY <1>1, <2>1
    <2>2. CASE o # h
        <3>1. Ready(hand[o], Arrived) /\ Replaces(hand[o]) /\ hand'[o] = hand[o]
            BY <1>1, <2>2 DEF HandsInv, FoundInv
        <3>2. Ready(hand[o], Arrived')
            BY <3>1 DEF Ready
        <3> QED BY <3>1, <3>2
    <2> QED BY <2>1, <2>2
<1> QED BY <1>1, <1>2 DEF HandsInv, FoundInv

LEMMA UploadsKept ==
    ASSUME HandsInv, UploadsInv, NEW h \in Hands, NEW work \in Works, Becomes(h, work),
           Arrived \subseteq Arrived', taken \subseteq taken', cutShort \subseteq cutShort',
           work.role = "upload" =>
              work.batch \in taken' /\ Range(work.batch) \subseteq Range(work.todo) \cup Arrived',
           \A b \in taken' : b \notin taken => work.role = "upload" /\ work.batch = b,
           hand[h].role = "upload" =>
              \/ work.role = "upload" /\ work.batch = hand[h].batch
              \/ hand[h].batch \in cutShort'
              \/ Range(hand[h].batch) \subseteq Arrived'
    PROVE  UploadsInv'
<1>1. /\ hand' \in [Hands -> Works] /\ hand'[h] = work
      /\ \A o \in Hands : o # h => hand'[o] = hand[o]
    BY HandMoves
<1>2. ASSUME NEW o \in Hands, hand'[o].role = "upload"
      PROVE  hand'[o].batch \in taken' /\ Range(hand'[o].batch) \subseteq Range(hand'[o].todo) \cup Arrived'
    <2>1. CASE o = h
        BY <1>1, <1>2, <2>1
    <2>2. CASE o # h
        <3>1. hand'[o] = hand[o]
            BY <1>1, <2>2
        <3>2. hand[o].batch \in taken /\ Range(hand[o].batch) \subseteq Range(hand[o].todo) \cup Arrived
            BY <1>2, <3>1 DEF UploadsInv, Todo
        <3> QED BY <3>1, <3>2
    <2> QED BY <2>1, <2>2
<1>3. ASSUME NEW b \in taken'
      PROVE  Range(b) \subseteq Arrived' \/ b \in cutShort' \/ Uploading(b)'
    <2>1. CASE b \notin taken
        BY <1>1, <2>1 DEF Uploading
    <2>2. CASE b \in taken /\ Uploading(b)
        <3>1. PICK o \in Hands : hand[o].role = "upload" /\ hand[o].batch = b
            BY <2>2 DEF Uploading
        <3>2. CASE o = h
            BY <1>1, <3>1, <3>2 DEF Uploading
        <3>3. CASE o # h
            <4>1. hand'[o].role = "upload" /\ hand'[o].batch = b
                BY <1>1, <3>1, <3>3
            <4> QED BY <4>1 DEF Uploading
        <3> QED BY <3>2, <3>3
    <2>3. CASE b \in taken /\ ~Uploading(b)
        BY <2>3 DEF UploadsInv
    <2> QED BY <2>1, <2>2, <2>3
<1> QED BY <1>2, <1>3 DEF UploadsInv, Todo

(* A step that only moves a hand on.                                         *)
LEMMA HandOnly ==
    ASSUME CommitInv, NEW h \in Hands, NEW work \in Works, Becomes(h, work),
           UNCHANGED <<stored, projected>>, Ready(work, Arrived), Replaces(work),
           work.role = "upload" =>
              /\ hand[h].role = "upload" /\ work.batch = hand[h].batch
              /\ Todo(h) \subseteq Range(work.todo) \cup Arrived,
           hand[h].role = "upload" => work.role = "upload"
    PROVE  CommitInv'
<1>0. StoredInv /\ HandsInv /\ FoundInv /\ DroppedForSuccessor /\ UploadsInv
    BY DEF CommitInv
<1>1. /\ UNCHANGED <<taken, answered, arrived, normalization, cutShort, reach, known>>
      /\ Arrived' = Arrived
    BY DEF stored, projected, Arrived
<1>2. StoredInv' /\ DroppedForSuccessor'
    BY <1>0, <1>1 DEF StoredInv, DroppedForSuccessor
<1>3. HandsInv' /\ FoundInv'
    <2>1. Ready(work, Arrived') /\ Arrived \subseteq Arrived'
        BY <1>1
    <2> QED BY <1>0, <2>1, HandKept
<1>4. UploadsInv'
    <2>1. work.role = "upload" =>
              work.batch \in taken' /\ Range(work.batch) \subseteq Range(work.todo) \cup Arrived'
        BY <1>0, <1>1 DEF UploadsInv
    <2>2. /\ Arrived \subseteq Arrived' /\ taken \subseteq taken' /\ cutShort \subseteq cutShort'
          /\ \A b \in taken' : b \notin taken => work.role = "upload" /\ work.batch = b
          /\ hand[h].role = "upload" =>
                \/ work.role = "upload" /\ work.batch = hand[h].batch
                \/ hand[h].batch \in cutShort'
                \/ Range(hand[h].batch) \subseteq Arrived'
        BY <1>1
    <2> QED BY <1>0, <2>1, <2>2, UploadsKept
<1> QED BY <1>2, <1>3, <1>4 DEF CommitInv

(* What a hand holds.                                                        *)
LEMMA Holds ==
    ASSUME HandsInv, NEW h \in Hands
    PROVE  /\ hand[h] \in Works /\ hand[h].todo \in Seq(Commits)
           /\ hand[h].at # "next" =>
                 /\ hand[h].role # "idle" /\ hand[h].todo # <<>>
                 /\ Subject(h) \in Arrived /\ Subject(h) \in Commits
<1>1. hand[h] \in Works /\ Ready(hand[h], Arrived)
    BY DEF HandsInv
<1>2. hand[h].todo \in Seq(Commits)
    BY <1>1 DEF Works
<1>3. hand[h].todo # <<>> => Subject(h) \in Commits
    BY <1>2, FirstAndRest DEF Subject
<1> QED BY <1>1, <1>2, <1>3 DEF Ready, Subject

(* A hand that has nothing found yet moves to the next place.                *)
LEMMA PlaceChanges ==
    ASSUME CommitInv, NEW h \in Hands, hand[h].role # "idle", hand[h].todo # <<>>,
           hand[h].at \in {"next", "begin"}, NEW place \in {"begin", "siblings"},
           Becomes(h, [hand[h] EXCEPT !.at = place]), UNCHANGED <<stored, projected>>,
           Subject(h) \in Arrived
    PROVE  CommitInv'
<1> DEFINE work == [hand[h] EXCEPT !.at = place]
<1>0. HandsInv /\ FoundInv
    BY DEF CommitInv
<1>1. hand[h] \in Works
    BY <1>0, Holds
<1>2. /\ work \in Works /\ work.at = place /\ work.role = hand[h].role
      /\ work.batch = hand[h].batch /\ work.todo = hand[h].todo
      /\ work.abandoned = hand[h].abandoned /\ work.superseded = hand[h].superseded
    BY <1>1 DEF Works, InTransaction
<1>3. /\ Ready(hand[h], Arrived) /\ Replaces(hand[h])
    BY <1>0 DEF HandsInv, FoundInv
<1>4. hand[h].abandoned = {} /\ hand[h].superseded = {}
    BY <1>3 DEF Replaces
<1>5. Becomes(h, work)
    OBVIOUS
<1> HIDE DEF work
<1>6. Ready(work, Arrived)
    BY <1>2, <1>3 DEF Ready, Subject
<1>7. Replaces(work)
    BY <1>2, <1>4 DEF Replaces
<1>8. Todo(h) \subseteq Range(work.todo) \cup Arrived
    BY <1>2 DEF Todo
<1> QED BY <1>2, <1>5, <1>6, <1>7, <1>8, HandOnly

(* A transaction has looked for what it replaces.                            *)
LEMMA TransactionMoves ==
    ASSUME CommitInv, NEW h \in Hands, hand[h].at \in InTransaction,
           NEW work \in Works, Becomes(h, work), UNCHANGED <<stored, projected>>,
           work.role = hand[h].role, work.batch = hand[h].batch, work.todo = hand[h].todo,
           work.at \in InTransaction, Replaces(work)
    PROVE  CommitInv'
<1>0. HandsInv /\ FoundInv
    BY DEF CommitInv
<1>1. hand[h].at # "next"
    BY DEF InTransaction
<1>2. /\ hand[h].role # "idle" /\ hand[h].todo # <<>> /\ Subject(h) \in Arrived
    BY <1>0, <1>1, Holds
<1>3. Ready(hand[h], Arrived)
    BY <1>0 DEF HandsInv
<1>4. Ready(work, Arrived)
    BY <1>2, <1>3 DEF Ready, Subject
<1>5. Todo(h) \subseteq Range(work.todo) \cup Arrived
    BY DEF Todo
<1> QED BY <1>4, <1>5, HandOnly

LEMMA KnownCommits == ASSUME StoredInv PROVE Arrived \subseteq Commits /\ known \subseteq Commits
    BY Elements DEF StoredInv, Arrived

(* The four steps of a transaction: two searches, two updates.               *)
LEMMA SiblingsFound == ASSUME CommitInv, NEW h \in Hands, FindSiblings(h) PROVE CommitInv'
<1>0. StoredInv /\ HandsInv /\ FoundInv
    BY DEF CommitInv
<1>1. PICK c : c = Subject(h)
    OBVIOUS
<1>2. PICK found : found = ToAbandon(c)
    OBVIOUS
<1>3. PICK place : place = IF found = {} THEN "replaced" ELSE "abandon"
    OBVIOUS
<1>4. /\ hand[h].role # "idle" /\ hand[h].at = "siblings"
      /\ Becomes(h, [hand[h] EXCEPT !.targets = found, !.at = place])
      /\ UNCHANGED <<stored, projected>>
    BY <1>1, <1>2, <1>3 DEF FindSiblings, At, ToAbandon
<1>5. hand[h] \in Works /\ c \in Commits
    BY <1>0, <1>1, <1>4, Holds
<1>6. found \in SUBSET Commits /\ \A s \in found : Displaces(c, s)
    <2>1. \A s \in found : /\ s \in known /\ s # c /\ Base[c] # 0 /\ Base[s] = Base[c]
                          /\ CommitTime[s] <= CommitTime[c]
        BY <1>2 DEF ToAbandon, Siblings, Abandons
    <2>2. found \subseteq Commits
        BY <1>0, <2>1, KnownCommits
    <2>3. \A s \in found : Displaces(c, s)
        BY <2>1 DEF Displaces, NotYounger
    <2> QED BY <2>2, <2>3
<1>7. place \in InTransaction /\ place \in {"abandon", "replaced"}
    BY <1>3 DEF InTransaction
<1> DEFINE half == [hand[h] EXCEPT !.targets = found]
           work == [half EXCEPT !.at = place]
<1>8. /\ half \in Works /\ half.targets = found /\ half.role = hand[h].role
      /\ half.batch = hand[h].batch /\ half.todo = hand[h].todo
      /\ half.abandoned = hand[h].abandoned /\ half.superseded = hand[h].superseded
    BY <1>5, <1>6 DEF Works
<1>9. Becomes(h, work)
    BY <1>4
<1> HIDE DEF half
<1>10. /\ work \in Works /\ work.targets = found /\ work.role = hand[h].role /\ work.at = place
      /\ work.batch = hand[h].batch /\ work.todo = hand[h].todo
      /\ work.abandoned = hand[h].abandoned /\ work.superseded = hand[h].superseded
    BY <1>7, <1>8 DEF Works
<1> HIDE DEF work
<1>11. hand[h].abandoned = {} /\ hand[h].superseded = {}
    BY <1>0, <1>4 DEF FoundInv, Replaces
<1>12. Replaces(work)
    BY <1>1, <1>6, <1>7, <1>10, <1>11 DEF Replaces, Subject
<1>13. hand[h].at \in InTransaction /\ work.at \in InTransaction
    BY <1>4, <1>7, <1>10 DEF InTransaction
<1> QED BY <1>4, <1>9, <1>10, <1>12, <1>13, TransactionMoves

LEMMA ReplacedFound == ASSUME CommitInv, NEW h \in Hands, FindReplaced(h) PROVE CommitInv'
<1>0. StoredInv /\ HandsInv /\ FoundInv
    BY DEF CommitInv
<1>1. PICK c : c = Subject(h)
    OBVIOUS
<1>2. PICK found : found = Replaced(c)
    OBVIOUS
<1>3. PICK place : place = IF found = {} THEN "commit" ELSE "supersede"
    OBVIOUS
<1>4. /\ hand[h].role # "idle" /\ hand[h].at = "replaced"
      /\ Becomes(h, [hand[h] EXCEPT !.targets = found, !.at = place])
      /\ UNCHANGED <<stored, projected>>
    BY <1>1, <1>2, <1>3 DEF FindReplaced, At
<1>5. hand[h] \in Works /\ c \in Commits
    BY <1>0, <1>1, <1>4, Holds
<1>6. found \in SUBSET Commits /\ \A s \in found : Supersedes(c, s)
    <2>1. CASE Rewrites[c] # {}
        <3>1. \A s \in found : s \in Rewrites[c]
            BY <1>2, <2>1 DEF Replaced
        <3>2. Rewrites[c] \subseteq Commits
            BY <1>5, CommitsAssumption DEF Commits
        <3> QED BY <3>1, <3>2 DEF Supersedes
    <2>2. CASE Rewrites[c] = {}
        <3>1. \A s \in found : /\ s \in known /\ s # c /\ CommitTime[s] <= CommitTime[c]
                              /\ Patch[s] = Patch[c]
            BY <1>2, <2>2 DEF Replaced
        <3>2. \A s \in found : Supersedes(c, s)
            BY <2>2, <3>1 DEF Supersedes, NotYounger
        <3> QED BY <1>0, <3>1, <3>2, KnownCommits
    <2> QED BY <2>1, <2>2
<1>7. place \in InTransaction /\ place \in {"supersede", "commit"}
    BY <1>3 DEF InTransaction
<1> DEFINE half == [hand[h] EXCEPT !.targets = found]
           work == [half EXCEPT !.at = place]
<1>8. /\ half \in Works /\ half.targets = found /\ half.role = hand[h].role
      /\ half.batch = hand[h].batch /\ half.todo = hand[h].todo
      /\ half.abandoned = hand[h].abandoned /\ half.superseded = hand[h].superseded
    BY <1>5, <1>6 DEF Works
<1>9. Becomes(h, work)
    BY <1>4
<1> HIDE DEF half
<1>10. /\ work \in Works /\ work.targets = found /\ work.role = hand[h].role /\ work.at = place
      /\ work.batch = hand[h].batch /\ work.todo = hand[h].todo
      /\ work.abandoned = hand[h].abandoned /\ work.superseded = hand[h].superseded
    BY <1>7, <1>8 DEF Works
<1> HIDE DEF work
<1>11. Replaces(hand[h])
    BY <1>0 DEF FoundInv
<1>12. Replaces(work)
    BY <1>1, <1>6, <1>7, <1>10, <1>11 DEF Replaces, Subject
<1>13. hand[h].at \in InTransaction /\ work.at \in InTransaction
    BY <1>4, <1>7, <1>10 DEF InTransaction
<1> QED BY <1>4, <1>9, <1>10, <1>12, <1>13, TransactionMoves

LEMMA SiblingsAbandoned == ASSUME CommitInv, NEW h \in Hands, AbandonSiblings(h) PROVE CommitInv'
<1>0. HandsInv /\ FoundInv
    BY DEF CommitInv
<1> DEFINE half == [hand[h] EXCEPT !.at = "replaced"]
           work == [half EXCEPT !.abandoned = hand[h].targets]
<1>1. /\ hand[h].role # "idle" /\ hand[h].at = "abandon" /\ Becomes(h, work)
      /\ UNCHANGED <<stored, projected>>
    BY DEF AbandonSiblings, At
<1>2. hand[h] \in Works /\ hand[h].targets \in SUBSET Commits
    BY <1>0, Holds DEF Works
<1>3. /\ half \in Works /\ half.at = "replaced" /\ half.role = hand[h].role
      /\ half.batch = hand[h].batch /\ half.todo = hand[h].todo
      /\ half.superseded = hand[h].superseded
    BY <1>2 DEF Works, InTransaction
<1> HIDE DEF half
<1>4. /\ work \in Works /\ work.at = "replaced" /\ work.role = hand[h].role
      /\ work.batch = hand[h].batch /\ work.todo = hand[h].todo
      /\ work.superseded = hand[h].superseded /\ work.abandoned = hand[h].targets
    BY <1>2, <1>3 DEF Works
<1> HIDE DEF work
<1>5. Replaces(hand[h])
    BY <1>0 DEF FoundInv
<1>6. Replaces(work)
    BY <1>1, <1>4, <1>5 DEF Replaces
<1>7. hand[h].at \in InTransaction /\ work.at \in InTransaction
    BY <1>1, <1>4 DEF InTransaction
<1> QED BY <1>1, <1>4, <1>6, <1>7, TransactionMoves

LEMMA ReplacedSuperseded == ASSUME CommitInv, NEW h \in Hands, SupersedeReplaced(h) PROVE CommitInv'
<1>0. HandsInv /\ FoundInv
    BY DEF CommitInv
<1> DEFINE half == [hand[h] EXCEPT !.at = "commit"]
           work == [half EXCEPT !.superseded = hand[h].targets]
<1>1. /\ hand[h].role # "idle" /\ hand[h].at = "supersede" /\ Becomes(h, work)
      /\ UNCHANGED <<stored, projected>>
    BY DEF SupersedeReplaced, At
<1>2. hand[h] \in Works /\ hand[h].targets \in SUBSET Commits
    BY <1>0, Holds DEF Works
<1>3. /\ half \in Works /\ half.at = "commit" /\ half.role = hand[h].role
      /\ half.batch = hand[h].batch /\ half.todo = hand[h].todo
      /\ half.abandoned = hand[h].abandoned
    BY <1>2 DEF Works, InTransaction
<1> HIDE DEF half
<1>4. /\ work \in Works /\ work.at = "commit" /\ work.role = hand[h].role
      /\ work.batch = hand[h].batch /\ work.todo = hand[h].todo
      /\ work.abandoned = hand[h].abandoned /\ work.superseded = hand[h].targets
    BY <1>2, <1>3 DEF Works
<1> HIDE DEF work
<1>5. Replaces(hand[h])
    BY <1>0 DEF FoundInv
<1>6. Replaces(work)
    BY <1>1, <1>4, <1>5 DEF Replaces
<1>7. hand[h].at \in InTransaction /\ work.at \in InTransaction
    BY <1>1, <1>4 DEF InTransaction
<1> QED BY <1>1, <1>4, <1>6, <1>7, TransactionMoves

(* A hand starts on something.                                               *)
StartedOn(work, role, b, todo) ==
    /\ work \in Works /\ work.role = role /\ work.batch = b /\ work.todo = todo
    /\ work.at = "next" /\ work.abandoned = {} /\ work.superseded = {} /\ Replaces(work)

LEMMA FreshWork ==
    ASSUME NEW role \in {"upload", "reconcile", "rebuild"}, NEW b \in Seq(Commits),
           NEW todo \in Seq(Commits)
    PROVE  /\ StartedOn([NoWork EXCEPT !.role = role, !.batch = b], role, b, <<>>)
           /\ StartedOn([NoWork EXCEPT !.role = role, !.todo = todo], role, <<>>, todo)
           /\ StartedOn([NoWork EXCEPT !.role = role, !.batch = b, !.todo = todo], role, b, todo)
<1> DEFINE one == [NoWork EXCEPT !.role = role]
           two == [one EXCEPT !.batch = b]
           late == [one EXCEPT !.todo = todo]
           three == [two EXCEPT !.todo = todo]
<1>1. /\ NoWork \in Works /\ NoWork.at = "next" /\ NoWork.todo = <<>> /\ NoWork.batch = <<>>
      /\ NoWork.abandoned = {} /\ NoWork.superseded = {}
    BY IdleWork
<1>2. /\ one \in Works /\ one.role = role /\ one.at = "next" /\ one.todo = <<>>
      /\ one.batch = <<>> /\ one.abandoned = {} /\ one.superseded = {}
    BY <1>1 DEF Works
<1>3. /\ [NoWork EXCEPT !.role = role, !.todo = todo] = late
      /\ [NoWork EXCEPT !.role = role, !.batch = b] = two
      /\ [NoWork EXCEPT !.role = role, !.batch = b, !.todo = todo] = three
    OBVIOUS
<1> HIDE DEF one
<1>4. /\ two \in Works /\ two.role = role /\ two.at = "next" /\ two.todo = <<>>
      /\ two.batch = b /\ two.abandoned = {} /\ two.superseded = {}
    BY <1>2 DEF Works
<1>5. /\ late \in Works /\ late.role = role /\ late.at = "next" /\ late.todo = todo
      /\ late.batch = <<>> /\ late.abandoned = {} /\ late.superseded = {}
    BY <1>2 DEF Works
<1> HIDE DEF two, late
<1>6. /\ three \in Works /\ three.role = role /\ three.at = "next" /\ three.todo = todo
      /\ three.batch = b /\ three.abandoned = {} /\ three.superseded = {}
    BY <1>4 DEF Works
<1> HIDE DEF three
<1>7. Replaces(two) /\ Replaces(late) /\ Replaces(three)
    BY <1>4, <1>5, <1>6 DEF Replaces
<1> QED BY <1>3, <1>4, <1>5, <1>6, <1>7 DEF StartedOn

LEMMA UploadStarts ==
    ASSUME CommitInv, NEW h \in Hands, NEW b \in Uploads, StartUpload(h, b) PROVE CommitInv'
<1>0. StoredInv /\ HandsInv /\ FoundInv /\ DroppedForSuccessor /\ UploadsInv
    BY DEF CommitInv
<1>1. b \in Seq(Commits)
    BY CommitsAssumption
<1>w. PICK work : work = [NoWork EXCEPT !.role = "upload", !.batch = b, !.todo = b]
    OBVIOUS
<1>2. /\ work \in Works /\ work.role = "upload" /\ work.batch = b /\ work.todo = b
      /\ work.at = "next" /\ Replaces(work)
    <2>1. StartedOn([NoWork EXCEPT !.role = "upload", !.batch = b, !.todo = b], "upload", b, b)
        BY <1>1, FreshWork
    <2> QED BY <1>w, <2>1 DEF StartedOn
<1>3. /\ Becomes(h, work) /\ hand[h].role = "idle" /\ taken' = taken \cup {b}
      /\ UNCHANGED <<answered, arrived, normalization, cutShort, reach, known>>
    BY <1>w DEF StartUpload, Takes, projected
<1>4. Arrived' = Arrived
    BY <1>3 DEF Arrived
<1>5. StoredInv' /\ DroppedForSuccessor'
    BY <1>0, <1>3, <1>4 DEF StoredInv, DroppedForSuccessor
<1>6. Ready(work, Arrived')
    BY <1>2 DEF Ready
<1>7. HandsInv' /\ FoundInv'
    BY <1>0, <1>2, <1>3, <1>4, <1>6, HandKept
<1>8. UploadsInv'
    BY <1>0, <1>2, <1>3, <1>4, UploadsKept
<1> QED BY <1>5, <1>7, <1>8 DEF CommitInv

LEMMA UploadRepeats == ASSUME CommitInv, NEW b \in Uploads, RepeatUpload(b) PROVE CommitInv'
<1>1. /\ b \in taken /\ answered' = answered \cup {b}
      /\ UNCHANGED <<taken, arrived, normalization, cutShort, reach, known, hand>>
    BY DEF RepeatUpload, projected
<1>2. Arrived' = Arrived
    BY <1>1 DEF Arrived
<1>3. StoredInv' /\ HandsInv' /\ FoundInv' /\ DroppedForSuccessor'
    BY <1>1, <1>2 DEF CommitInv, StoredInv, HandsInv, FoundInv, DroppedForSuccessor
<1>4. UploadsInv'
    BY <1>1, <1>2 DEF CommitInv, UploadsInv, Uploading, Todo
<1> QED BY <1>3, <1>4 DEF CommitInv

(* What is replayed has arrived.                                             *)
LEMMA ReplayStarts ==
    ASSUME CommitInv, NEW h \in Hands, NEW role \in {"reconcile", "rebuild"},
           NEW todo \in Seq(Commits), Range(todo) \subseteq Arrived,
           Takes(h, [NoWork EXCEPT !.role = role, !.todo = todo]),
           UNCHANGED <<stored, projected>>
    PROVE  CommitInv'
<1>w. PICK work : work = [NoWork EXCEPT !.role = role, !.todo = todo]
    OBVIOUS
<1>3. Becomes(h, work) /\ hand[h].role = "idle"
    BY <1>w DEF Takes
<1>4. work \in Works /\ work.role = role /\ work.todo = todo /\ Replaces(work) /\ work.at = "next"
    <2>1. StartedOn([NoWork EXCEPT !.role = role, !.todo = todo], role, <<>>, todo)
        BY NoElements, FreshWork
    <2> QED BY <1>w, <2>1 DEF StartedOn
<1>5. Ready(work, Arrived)
    BY <1>4 DEF Ready
<1> QED BY <1>3, <1>4, <1>5, HandOnly

LEMMA ArrivedInTime ==
    ASSUME StoredInv, NEW order \in InOrderOfTime(arrived)
    PROVE  /\ order \in Seq(Commits) /\ Range(order) = Arrived
           /\ \A i, j \in 1..Len(order) : i < j => order[i] # order[j]
<1>1. /\ order \in [DOMAIN arrived -> Arrived] /\ Range(order) = Arrived
      /\ \A i, j \in DOMAIN arrived : i < j => order[i] # order[j]
    BY DEF InOrderOfTime, Arrived
<1>2. DOMAIN arrived = 1..Len(arrived) /\ Len(arrived) \in Nat
    BY DEF StoredInv
<1>3. Arrived \subseteq Commits
    BY KnownCommits
<1>4. order \in [1..Len(arrived) -> Commits]
    BY <1>1, <1>2, <1>3
<1>5. order \in Seq(Commits) /\ Len(order) = Len(arrived)
    BY <1>2, <1>4
<1> QED BY <1>1, <1>2, <1>5

LEMMA PendingArrived ==
    ASSUME StoredInv
    PROVE  LET todo == [k \in DOMAIN PendingRows |-> arrived[PendingRows[k]]]
           IN  todo \in Seq(Commits) /\ Range(todo) \subseteq Arrived
<1> DEFINE rows == {i \in DOMAIN arrived : IsPending(arrived[i])}
           todo == [k \in DOMAIN PendingRows |-> arrived[PendingRows[k]]]
<1>1. /\ DOMAIN arrived = 1..Len(arrived) /\ Len(arrived) \in Nat
      /\ \A i \in DOMAIN arrived : arrived[i] \in Commits
    BY DEF StoredInv
<1>2. rows \in SUBSET DOMAIN arrived /\ rows \in SUBSET Nat
    BY <1>1
<1>3. IsFiniteSet(DOMAIN arrived)
    BY <1>1, FS_Interval
<1>4. IsFiniteSet(rows)
    BY <1>2, <1>3, FS_Subset
<1>5. InOrder(rows) \in Seq(rows)
    <2> HIDE DEF rows
    <2> QED BY <1>2, <1>4, InOrderLists
<1>6. PendingRows = InOrder(rows)
    BY DEF PendingRows
<1>7. /\ DOMAIN PendingRows = 1..Len(PendingRows) /\ Len(PendingRows) \in Nat
      /\ \A k \in DOMAIN PendingRows : PendingRows[k] \in DOMAIN arrived
    <2> HIDE DEF rows
    <2> QED BY <1>2, <1>5, <1>6
<1>8. todo \in [1..Len(PendingRows) -> Commits] /\ DOMAIN todo = DOMAIN PendingRows
    BY <1>1, <1>7
<1>9. \A k \in DOMAIN todo : todo[k] \in Arrived
    BY <1>7 DEF Arrived, Range
<1>10. todo \in Seq(Commits)
    BY <1>7, <1>8
<1>11. Range(todo) \subseteq Arrived
    <2> HIDE DEF todo
    <2> QED BY <1>9 DEF Range
<1> QED BY <1>10, <1>11

LEMMA ReconcileStarts == ASSUME CommitInv, NEW h \in Hands, StartReconcile(h) PROVE CommitInv'
<1>0. StoredInv
    BY DEF CommitInv
<1>1. PICK todo : todo = [k \in DOMAIN PendingRows |-> arrived[PendingRows[k]]]
    OBVIOUS
<1>2. todo \in Seq(Commits) /\ Range(todo) \subseteq Arrived
    BY <1>0, <1>1, PendingArrived
<1>3. /\ Takes(h, [NoWork EXCEPT !.role = "reconcile", !.todo = todo])
      /\ UNCHANGED <<stored, projected>>
    BY <1>1 DEF StartReconcile
<1> QED BY <1>2, <1>3, ReplayStarts

LEMMA RebuildStarts == ASSUME CommitInv, NEW h \in Hands, StartRebuild(h) PROVE CommitInv'
<1>0. StoredInv
    BY DEF CommitInv
<1>1. PICK todo \in InOrderOfTime(arrived) :
          Takes(h, [NoWork EXCEPT !.role = "rebuild", !.todo = todo])
    BY DEF StartRebuild
<1>2. todo \in Seq(Commits) /\ Range(todo) \subseteq Arrived
    BY <1>0, ArrivedInTime
<1>3. UNCHANGED <<stored, projected>>
    BY DEF StartRebuild
<1> QED BY <1>1, <1>2, <1>3, ReplayStarts

(* What is left when one event is done.                                      *)
LEMMA OneLess ==
    ASSUME HandsInv, NEW h \in Hands, hand[h].todo # <<>>
    PROVE  /\ Tail(hand[h].todo) \in Seq(Commits) /\ Subject(h) \in Commits
           /\ Todo(h) = {Subject(h)} \cup Range(Tail(hand[h].todo))
    BY Holds, FirstAndRest DEF Subject, Todo

LEMMA EventStored == ASSUME CommitInv, NEW h \in Hands, StoreEvent(h) PROVE CommitInv'
<1>0. StoredInv /\ HandsInv /\ FoundInv /\ DroppedForSuccessor /\ UploadsInv
    BY DEF CommitInv
<1>1. /\ hand[h].role = "upload" /\ hand[h].at = "next" /\ hand[h].todo # <<>>
      /\ UNCHANGED <<taken, answered, cutShort, reach, known>>
    BY DEF StoreEvent, At, projected
<1>2. hand[h] \in Works /\ Replaces(hand[h])
    BY <1>0, Holds DEF FoundInv
<1>3. hand[h].abandoned = {} /\ hand[h].superseded = {}
    BY <1>1, <1>2 DEF Replaces
<1>4. PICK c \in Commits : c = Subject(h)
    BY <1>0, <1>1, OneLess
<1>5. CASE /\ normalization[c] = "none"
           /\ arrived' = Append(arrived, c)
           /\ normalization' = [normalization EXCEPT ![c] = "pending"]
           /\ Becomes(h, [hand[h] EXCEPT !.at = "begin"])
    <2>1. Arrived' = Arrived \cup {c} /\ arrived' \in Seq(Commits)
        BY <1>0, <1>4, <1>5, OneMore DEF StoredInv, Arrived
    <2> DEFINE work == [hand[h] EXCEPT !.at = "begin"]
    <2>2. /\ work \in Works /\ work.at = "begin" /\ work.role = "upload"
          /\ work.batch = hand[h].batch /\ work.todo = hand[h].todo
          /\ work.abandoned = {} /\ work.superseded = {}
        BY <1>1, <1>2, <1>3 DEF Works
    <2>3. Becomes(h, work)
        BY <1>5
    <2> HIDE DEF work
    <2>4. StoredInv'
        <3>1. normalization' \in [Commits -> {"none", "pending", "normalized", "failed"}]
            BY <1>0, <1>5 DEF StoredInv
        <3>2. \A d \in Commits : d \in Arrived' <=> normalization'[d] # "none"
            BY <1>0, <1>5, <2>1 DEF StoredInv
        <3>3. known' \in SUBSET Arrived' /\ answered' \in SUBSET taken'
            BY <1>0, <1>1, <2>1 DEF StoredInv
        <3> QED BY <1>0, <1>1, <2>1, <3>1, <3>2, <3>3 DEF StoredInv
    <2>5. Ready(work, Arrived') /\ Replaces(work)
        BY <1>1, <1>4, <2>1, <2>2 DEF Ready, Replaces, Subject
    <2>6. HandsInv' /\ FoundInv'
        BY <1>0, <2>1, <2>2, <2>3, <2>5, HandKept
    <2>7. UploadsInv'
        <3>1. work.batch \in taken' /\ Range(work.batch) \subseteq Range(work.todo) \cup Arrived'
            BY <1>0, <1>1, <2>1, <2>2 DEF UploadsInv, Todo
        <3> QED BY <1>0, <1>1, <2>1, <2>2, <2>3, <3>1, UploadsKept
    <2>8. DroppedForSuccessor'
        BY <1>0, <1>1 DEF DroppedForSuccessor
    <2> QED BY <2>4, <2>6, <2>7, <2>8 DEF CommitInv
<1>6. CASE /\ normalization[c] # "none"
           /\ Becomes(h, [hand[h] EXCEPT !.todo = Tail(@)])
           /\ UNCHANGED <<arrived, normalization>>
    <2> DEFINE work == [hand[h] EXCEPT !.todo = Tail(hand[h].todo)]
    <2>1. Tail(hand[h].todo) \in Seq(Commits)
        BY <1>0, <1>1, OneLess
    <2>2. /\ work \in Works /\ work.at = "next" /\ work.role = "upload"
          /\ work.batch = hand[h].batch /\ work.todo = Tail(hand[h].todo)
          /\ work.abandoned = {} /\ work.superseded = {}
        BY <1>1, <1>2, <1>3, <2>1 DEF Works
    <2>3. Becomes(h, work)
        BY <1>6
    <2> HIDE DEF work
    <2>4. Ready(work, Arrived) /\ Replaces(work)
        BY <2>2 DEF Ready, Replaces
    <2>5. Todo(h) \subseteq Range(work.todo) \cup Arrived
        BY <1>0, <1>1, <1>4, <1>6, <2>2, OneLess DEF StoredInv
    <2>6. UNCHANGED <<stored, projected>>
        BY <1>1, <1>6 DEF stored, projected
    <2> QED BY <1>1, <2>2, <2>3, <2>4, <2>5, <2>6, HandOnly
<1>7. \/ /\ normalization[c] = "none"
         /\ arrived' = Append(arrived, c)
         /\ normalization' = [normalization EXCEPT ![c] = "pending"]
         /\ Becomes(h, [hand[h] EXCEPT !.at = "begin"])
      \/ /\ normalization[c] # "none"
         /\ Becomes(h, [hand[h] EXCEPT !.todo = Tail(@)])
         /\ UNCHANGED <<arrived, normalization>>
    BY <1>4 DEF StoreEvent, AfterDuplicate
<1> QED BY <1>5, <1>6, <1>7

LEMMA NextTaken == ASSUME CommitInv, NEW h \in Hands, NextStored(h) PROVE CommitInv'
<1>0. StoredInv /\ HandsInv
    BY DEF CommitInv
<1>1. /\ hand[h].role # "idle" /\ hand[h].role # "upload" /\ hand[h].at = "next"
      /\ hand[h].todo # <<>>
      /\ Becomes(h, [hand[h] EXCEPT !.at = "begin"]) /\ UNCHANGED <<stored, projected>>
    BY DEF NextStored, At
<1>2. Subject(h) \in Arrived
    BY <1>0, <1>1, OneLess DEF HandsInv, Ready, Todo
<1> QED BY <1>1, <1>2, PlaceChanges

LEMMA TransactionBegins == ASSUME CommitInv, NEW h \in Hands, BeginNormalize(h) PROVE CommitInv'
<1>0. HandsInv
    BY DEF CommitInv
<1>1. /\ hand[h].role # "idle" /\ hand[h].at = "begin"
      /\ Becomes(h, [hand[h] EXCEPT !.at = "siblings"]) /\ UNCHANGED <<stored, projected>>
    BY DEF BeginNormalize, At
<1>2. hand[h].todo # <<>> /\ Subject(h) \in Arrived
    BY <1>0, <1>1, Holds
<1> QED BY <1>1, <1>2, PlaceChanges

(* A hand that is done, or dies.                                             *)
LEMMA HandRests ==
    ASSUME CommitInv, NEW h \in Hands, Becomes(h, NoWork),
           UNCHANGED <<taken, arrived, normalization, projected>>,
           answered' = answered \/ hand[h].role = "upload",
           answered' \in {answered, answered \cup {hand[h].batch}},
           cutShort \subseteq cutShort',
           hand[h].role = "upload" => hand[h].todo = <<>> \/ hand[h].batch \in cutShort'
    PROVE  CommitInv'
<1>0. StoredInv /\ HandsInv /\ FoundInv /\ DroppedForSuccessor /\ UploadsInv
    BY DEF CommitInv
<1>1. Arrived' = Arrived /\ UNCHANGED <<taken, arrived, normalization, reach, known>>
    BY DEF Arrived, projected
<1>2. hand[h].role = "upload" =>
          hand[h].batch \in taken /\ Range(hand[h].batch) \subseteq Todo(h) \cup Arrived
    BY <1>0 DEF UploadsInv
<1>3. StoredInv' /\ DroppedForSuccessor'
    <2>1. answered' \in SUBSET taken'
        BY <1>0, <1>1, <1>2 DEF StoredInv
    <2> QED BY <1>0, <1>1, <2>1 DEF StoredInv, DroppedForSuccessor
<1>4. /\ NoWork \in Works /\ NoWork.role = "idle" /\ Ready(NoWork, Arrived') /\ Replaces(NoWork)
    BY IdleWork, NoElements DEF Ready, Replaces
<1>5. HandsInv' /\ FoundInv'
    BY <1>0, <1>1, <1>4, HandKept
<1>6. UploadsInv'
    <2>1. hand[h].role = "upload" =>
              hand[h].batch \in cutShort' \/ Range(hand[h].batch) \subseteq Arrived'
        BY <1>1, <1>2, NoElements DEF Todo
    <2>2. NoWork.role # "upload"
        BY <1>4
    <2> QED BY <1>0, <1>1, <1>4, <2>1, <2>2, UploadsKept
<1> QED BY <1>3, <1>5, <1>6 DEF CommitInv

LEMMA WorkFinished == ASSUME CommitInv, NEW h \in Hands, Finish(h) PROVE CommitInv'
<1>1. /\ Becomes(h, NoWork) /\ UNCHANGED <<taken, arrived, normalization, projected, cutShort>>
      /\ hand[h].todo = <<>>
      /\ answered' = answered \/ hand[h].role = "upload"
      /\ answered' \in {answered, answered \cup {hand[h].batch}}
    BY DEF Finish, projected
<1> QED BY <1>1, HandRests

LEMMA WorkCutShort == ASSUME CommitInv, NEW h \in Hands, EndsEarly(h) PROVE CommitInv'
<1>1. /\ Becomes(h, NoWork) /\ UNCHANGED <<taken, answered, arrived, normalization, projected>>
      /\ cutShort \subseteq cutShort'
      /\ hand[h].role = "upload" => hand[h].batch \in cutShort'
    BY DEF EndsEarly, projected
<1> QED BY <1>1, HandRests

(* The transaction ends: a rebuild goes on to the next event, the others set *)
(* the status.                                                               *)
LEMMA AfterTransaction ==
    ASSUME HandsInv, NEW h \in Hands, hand[h].at \in InTransaction, NEW ok \in BOOLEAN,
           Transacted(h, ok)
    PROVE  \E work \in Works :
              /\ Becomes(h, work) /\ work.role = hand[h].role /\ work.batch = hand[h].batch
              /\ work.abandoned = {} /\ work.superseded = {} /\ work.at \in {"next", "status"}
              /\ hand[h].role = "rebuild" => work.at = "next" /\ work.todo = Tail(hand[h].todo)
              /\ hand[h].role # "rebuild" => work.at = "status" /\ work.todo = hand[h].todo
<1>1. hand[h].at # "next"
    BY DEF InTransaction
<1>2. /\ hand[h] \in Works /\ hand[h].todo \in Seq(Commits) /\ hand[h].role # "idle"
      /\ hand[h].todo # <<>>
    BY <1>1, Holds
<1>3. /\ hand[h].role \in {"upload", "reconcile", "rebuild"} /\ hand[h].batch \in Seq(Commits)
    BY <1>2 DEF Works
<1>4. Tail(hand[h].todo) \in Seq(Commits)
    BY <1>2, OneLess
<1>5. PICK base : base = [NoWork EXCEPT !.role = hand[h].role, !.batch = hand[h].batch]
    OBVIOUS
<1>6. /\ base \in Works /\ base.role = hand[h].role /\ base.batch = hand[h].batch
      /\ base.at = "next" /\ base.abandoned = {} /\ base.superseded = {}
    <2>1. StartedOn([NoWork EXCEPT !.role = hand[h].role, !.batch = hand[h].batch],
                    hand[h].role, hand[h].batch, <<>>)
        BY <1>3, NoElements, FreshWork
    <2> QED BY <1>5, <2>1 DEF StartedOn
<1>7. Becomes(h, IF hand[h].role = "rebuild" THEN [base EXCEPT !.todo = Tail(hand[h].todo)]
                 ELSE [base EXCEPT !.todo = hand[h].todo, !.at = "status", !.ok = ok])
    BY <1>5 DEF Transacted
<1>8. CASE hand[h].role = "rebuild"
    <2> DEFINE work == [base EXCEPT !.todo = Tail(hand[h].todo)]
    <2>1. Becomes(h, work)
        BY <1>7, <1>8
    <2>2. /\ work \in Works /\ work.role = hand[h].role /\ work.batch = hand[h].batch
          /\ work.abandoned = {} /\ work.superseded = {} /\ work.at = "next"
          /\ work.todo = Tail(hand[h].todo)
        BY <1>4, <1>6 DEF Works
    <2> HIDE DEF work
    <2> QED BY <1>8, <2>1, <2>2
<1>9. CASE hand[h].role # "rebuild"
    <2> DEFINE one == [base EXCEPT !.todo = hand[h].todo]
               two == [one EXCEPT !.at = "status"]
               work == [two EXCEPT !.ok = ok]
    <2>1. Becomes(h, work)
        BY <1>7, <1>9
    <2>2. /\ one \in Works /\ one.role = hand[h].role /\ one.batch = hand[h].batch
          /\ one.abandoned = {} /\ one.superseded = {} /\ one.todo = hand[h].todo
        BY <1>2, <1>6 DEF Works
    <2> HIDE DEF one
    <2>3. /\ two \in Works /\ two.role = hand[h].role /\ two.batch = hand[h].batch
          /\ two.abandoned = {} /\ two.superseded = {} /\ two.todo = hand[h].todo
          /\ two.at = "status"
        BY <2>2 DEF Works
    <2> HIDE DEF two
    <2>4. /\ work \in Works /\ work.role = hand[h].role /\ work.batch = hand[h].batch
          /\ work.abandoned = {} /\ work.superseded = {} /\ work.todo = hand[h].todo
          /\ work.at = "status"
        BY <2>3 DEF Works
    <2> HIDE DEF work
    <2> QED BY <1>9, <2>1, <2>4
<1> QED BY <1>8, <1>9

LEMMA TransactedWork ==
    ASSUME HandsInv, NEW h \in Hands, hand[h].at \in InTransaction, NEW work \in Works,
           work.role = hand[h].role, work.abandoned = {}, work.superseded = {},
           work.at \in {"next", "status"},
           hand[h].role = "rebuild" => work.at = "next" /\ work.todo = Tail(hand[h].todo),
           hand[h].role # "rebuild" => work.at = "status" /\ work.todo = hand[h].todo
    PROVE  /\ Ready(work, Arrived) /\ Replaces(work)
           /\ Todo(h) \subseteq Range(work.todo) \cup Arrived
<1>1. hand[h].at # "next"
    BY DEF InTransaction
<1>2. /\ hand[h].role # "idle" /\ hand[h].todo # <<>> /\ Subject(h) \in Arrived
    BY <1>1, Holds
<1>3. Ready(hand[h], Arrived)
    BY DEF HandsInv
<1>4. Todo(h) = {Subject(h)} \cup Range(Tail(hand[h].todo))
    BY <1>2, OneLess
<1>5. Todo(h) \subseteq Range(work.todo) \cup Arrived
    BY <1>2, <1>4 DEF Todo
<1>6. Replaces(work)
    BY DEF Replaces
<1>7. Ready(work, Arrived)
    BY <1>2, <1>3, <1>4 DEF Ready, Subject, Todo
<1> QED BY <1>5, <1>6, <1>7

LEMMA TransactionFails == ASSUME CommitInv, NEW h \in Hands, NormalizeFails(h) PROVE CommitInv'
<1>0. HandsInv
    BY DEF CommitInv
<1>1. hand[h].at \in InTransaction /\ Transacted(h, FALSE) /\ UNCHANGED <<stored, projected>>
    BY DEF NormalizeFails
<1>2. PICK work \in Works :
              /\ Becomes(h, work) /\ work.role = hand[h].role /\ work.batch = hand[h].batch
              /\ work.abandoned = {} /\ work.superseded = {} /\ work.at \in {"next", "status"}
              /\ hand[h].role = "rebuild" => work.at = "next" /\ work.todo = Tail(hand[h].todo)
              /\ hand[h].role # "rebuild" => work.at = "status" /\ work.todo = hand[h].todo
    <2>1. FALSE \in BOOLEAN
        OBVIOUS
    <2> QED BY <1>0, <1>1, <2>1, AfterTransaction
<1>3. Ready(work, Arrived) /\ Replaces(work) /\ Todo(h) \subseteq Range(work.todo) \cup Arrived
    BY <1>0, <1>1, <1>2, TransactedWork
<1> QED BY <1>1, <1>2, <1>3, HandOnly

LEMMA TransactionCommits == ASSUME CommitInv, NEW h \in Hands, CommitNormalize(h) PROVE CommitInv'
<1>0. StoredInv /\ HandsInv /\ FoundInv /\ DroppedForSuccessor /\ UploadsInv
    BY DEF CommitInv
<1>1. /\ hand[h].at = "commit" /\ reach' = Outcome(h) /\ known' = known \cup {Subject(h)}
      /\ Transacted(h, TRUE)
      /\ UNCHANGED <<taken, answered, arrived, normalization, cutShort>>
    BY DEF CommitNormalize, At, stored
<1>2. hand[h].at \in InTransaction
    BY <1>1 DEF InTransaction
<1>3. PICK work \in Works :
              /\ Becomes(h, work) /\ work.role = hand[h].role /\ work.batch = hand[h].batch
              /\ work.abandoned = {} /\ work.superseded = {} /\ work.at \in {"next", "status"}
              /\ hand[h].role = "rebuild" => work.at = "next" /\ work.todo = Tail(hand[h].todo)
              /\ hand[h].role # "rebuild" => work.at = "status" /\ work.todo = hand[h].todo
    <2>1. TRUE \in BOOLEAN
        OBVIOUS
    <2> QED BY <1>0, <1>1, <1>2, <2>1, AfterTransaction
<1>4. Ready(work, Arrived) /\ Replaces(work) /\ Todo(h) \subseteq Range(work.todo) \cup Arrived
    BY <1>0, <1>2, <1>3, TransactedWork
<1>5. Arrived' = Arrived
    BY <1>1 DEF Arrived
<1>6. Subject(h) \in Arrived
    BY <1>0, <1>1, Holds
<1>7. StoredInv'
    <2>1. reach' \in [Commits -> {"none", "reachable", "superseded", "unreachable"}]
        BY <1>0, <1>1 DEF Outcome, StoredInv
    <2>2. known' \in SUBSET Arrived'
        BY <1>0, <1>1, <1>5, <1>6 DEF StoredInv
    <2> QED BY <1>0, <1>1, <1>5, <2>1, <2>2 DEF StoredInv
<1>8. DroppedForSuccessor'
    <2> SUFFICES ASSUME NEW c \in Commits
                 PROVE  /\ reach'[c] = "superseded" => \E d \in known' : Supersedes(d, c)
                        /\ reach'[c] = "unreachable" => \E d \in known' : Displaces(d, c)
        BY DEF DroppedForSuccessor
    <2>1. Replaces(hand[h]) /\ Subject(h) \in known'
        BY <1>0, <1>1 DEF FoundInv
    <2>2. reach'[c] = IF c \in hand[h].superseded THEN "superseded"
                      ELSE IF c \in hand[h].abandoned THEN "unreachable"
                      ELSE IF c = Subject(h) THEN "reachable" ELSE reach[c]
        BY <1>1 DEF Outcome
    <2>3. /\ c \in hand[h].superseded => Supersedes(Subject(h), c)
          /\ c \in hand[h].abandoned => Displaces(Subject(h), c)
        BY <2>1 DEF Replaces, Subject
    <2>4. /\ reach[c] = "superseded" => \E d \in known : Supersedes(d, c)
          /\ reach[c] = "unreachable" => \E d \in known : Displaces(d, c)
        BY <1>0 DEF DroppedForSuccessor
    <2> QED BY <1>1, <2>1, <2>2, <2>3, <2>4
<1>9. HandsInv' /\ FoundInv'
    <2>1. Ready(work, Arrived') /\ Arrived \subseteq Arrived'
        BY <1>4, <1>5
    <2> QED BY <1>0, <1>3, <1>4, <2>1, HandKept
<1>10. UploadsInv'
    <2>1. work.role = "upload" =>
              work.batch \in taken' /\ Range(work.batch) \subseteq Range(work.todo) \cup Arrived'
        BY <1>0, <1>1, <1>3, <1>4, <1>5 DEF UploadsInv
    <2>2. /\ Arrived \subseteq Arrived' /\ taken \subseteq taken' /\ cutShort \subseteq cutShort'
          /\ \A b \in taken' : b \notin taken => work.role = "upload" /\ work.batch = b
        BY <1>1, <1>5
    <2> QED BY <1>0, <1>3, <2>1, <2>2, UploadsKept
<1> QED BY <1>7, <1>8, <1>9, <1>10 DEF CommitInv

LEMMA StatusSet == ASSUME CommitInv, NEW h \in Hands, SetStatus(h) PROVE CommitInv'
<1>0. StoredInv /\ HandsInv /\ FoundInv /\ DroppedForSuccessor /\ UploadsInv
    BY DEF CommitInv
<1>1. PICK status \in {"normalized", "failed"} : status = IF hand[h].ok THEN "normalized" ELSE "failed"
    OBVIOUS
<1>2. /\ hand[h].at = "status"
      /\ Becomes(h, [hand[h] EXCEPT !.at = "next", !.todo = Tail(hand[h].todo)])
      /\ UNCHANGED <<taken, answered, arrived, cutShort, reach, known>>
      /\ \/ normalization' = [normalization EXCEPT ![Subject(h)] = status]
         \/ normalization' = normalization
    BY <1>1 DEF SetStatus, At, projected
<1>3. /\ hand[h] \in Works /\ hand[h].todo # <<>> /\ Subject(h) \in Arrived /\ Subject(h) \in Commits
      /\ Replaces(hand[h]) /\ Ready(hand[h], Arrived)
    BY <1>0, <1>2, Holds DEF FoundInv, HandsInv
<1>4. /\ Tail(hand[h].todo) \in Seq(Commits)
      /\ Todo(h) = {Subject(h)} \cup Range(Tail(hand[h].todo))
    BY <1>0, <1>3, OneLess
<1>5. Arrived' = Arrived
    BY <1>2 DEF Arrived
<1> DEFINE half == [hand[h] EXCEPT !.at = "next"]
           work == [half EXCEPT !.todo = Tail(hand[h].todo)]
<1>6. /\ half \in Works /\ half.at = "next" /\ half.role = hand[h].role /\ half.batch = hand[h].batch
      /\ half.abandoned = {} /\ half.superseded = {}
    BY <1>2, <1>3 DEF Works, Replaces
<1>7. Becomes(h, work)
    BY <1>2
<1> HIDE DEF half
<1>8. /\ work \in Works /\ work.at = "next" /\ work.role = hand[h].role /\ work.batch = hand[h].batch
      /\ work.abandoned = {} /\ work.superseded = {} /\ work.todo = Tail(hand[h].todo)
    BY <1>4, <1>6 DEF Works
<1> HIDE DEF work
<1>9. StoredInv' /\ DroppedForSuccessor'
    <2>1. /\ normalization' \in [Commits -> {"none", "pending", "normalized", "failed"}]
          /\ \A c \in Commits : normalization'[c] # "none" <=> normalization[c] # "none"
        BY <1>0, <1>2, <1>3 DEF StoredInv
    <2> QED BY <1>0, <1>2, <1>5, <2>1 DEF StoredInv, DroppedForSuccessor
<1>10. Ready(work, Arrived') /\ Replaces(work) /\ Todo(h) \subseteq Range(work.todo) \cup Arrived
    BY <1>3, <1>4, <1>5, <1>8 DEF Ready, Replaces, Todo
<1>11. HandsInv' /\ FoundInv'
    <2>1. Arrived \subseteq Arrived'
        BY <1>5
    <2> QED BY <1>0, <1>7, <1>8, <1>10, <2>1, HandKept
<1>12. UploadsInv'
    <2>1. work.role = "upload" =>
              work.batch \in taken' /\ Range(work.batch) \subseteq Range(work.todo) \cup Arrived'
        BY <1>0, <1>2, <1>5, <1>8, <1>10 DEF UploadsInv
    <2>2. /\ Arrived \subseteq Arrived' /\ taken \subseteq taken' /\ cutShort \subseteq cutShort'
          /\ \A b \in taken' : b \notin taken => work.role = "upload" /\ work.batch = b
        BY <1>2, <1>5
    <2> QED BY <1>0, <1>7, <1>8, <2>1, <2>2, UploadsKept
<1> QED BY <1>9, <1>11, <1>12 DEF CommitInv

LEMMA Pushes == ASSUME CommitInv, NEW c \in Pushed, Push(c) PROVE CommitInv'
<1>1. /\ reach' = [reach EXCEPT ![c] = "reachable"]
      /\ UNCHANGED <<taken, answered, arrived, normalization, cutShort, known, hand>>
    BY DEF Push, stored
<1>2. Arrived' = Arrived
    BY <1>1 DEF Arrived
<1>3. StoredInv' /\ HandsInv' /\ FoundInv' /\ DroppedForSuccessor'
    BY <1>1, <1>2 DEF CommitInv, StoredInv, HandsInv, FoundInv, DroppedForSuccessor
<1>4. UploadsInv'
    BY <1>1, <1>2 DEF CommitInv, UploadsInv, Uploading, Todo
<1> QED BY <1>3, <1>4 DEF CommitInv

LEMMA CommitStart == CommitInit => CommitInv /\ RebuildsInv
<1> SUFFICES ASSUME CommitInit PROVE CommitInv /\ RebuildsInv
    OBVIOUS
<1>1. /\ taken = {} /\ answered = {} /\ arrived = <<>> /\ cutShort = {} /\ known = {}
      /\ normalization = [c \in Commits |-> "none"] /\ reach = [c \in Commits |-> "none"]
      /\ hand = [h \in Hands |-> NoWork] /\ undisturbed = {}
    BY DEF CommitInit
<1>2. Arrived = {}
    BY <1>1, NoElements DEF Arrived
<1>3. StoredInv /\ DroppedForSuccessor
    BY <1>1, <1>2, NoElements DEF StoredInv, DroppedForSuccessor
<1>4. HandsInv /\ FoundInv
    <2>1. Ready(NoWork, Arrived) /\ Replaces(NoWork) /\ NoWork \in Works
        BY <1>2, IdleWork, NoElements DEF Ready, Replaces
    <2> QED BY <1>1, <2>1 DEF HandsInv, FoundInv
<1>5. UploadsInv
    BY <1>1, IdleWork DEF UploadsInv
<1>6. RebuildsInv
    BY <1>1 DEF RebuildsInv
<1> QED BY <1>3, <1>4, <1>5, <1>6 DEF CommitInv

LEMMA CommitStep == CommitInv /\ [CommitNext]_commitVars => CommitInv'
<1> SUFFICES ASSUME CommitInv, [CommitNext]_commitVars PROVE CommitInv'
    OBVIOUS
<1>1. CASE UNCHANGED commitVars
    <2>1. /\ UNCHANGED <<taken, answered, arrived, normalization, cutShort, reach, known, hand>>
          /\ Arrived' = Arrived
        BY <1>1 DEF commitVars, stored, projected, Arrived
    <2> QED BY <2>1 DEF CommitInv, StoredInv, HandsInv, FoundInv, DroppedForSuccessor, UploadsInv,
                        Uploading, Todo
<1>2. ASSUME NEW b \in Uploads, RepeatUpload(b) PROVE CommitInv'
    BY <1>2, UploadRepeats
<1>3. ASSUME NEW b \in Uploads, NEW h \in Hands, StartUpload(h, b) PROVE CommitInv'
    BY <1>3, UploadStarts
<1>4. ASSUME NEW h \in Hands, StartReconcile(h) \/ StartRebuild(h) PROVE CommitInv'
    BY <1>4, ReconcileStarts, RebuildStarts
<1>5. ASSUME NEW h \in Hands, StoreEvent(h) \/ NextStored(h) \/ Finish(h) PROVE CommitInv'
    BY <1>5, EventStored, NextTaken, WorkFinished
<1>6. ASSUME NEW h \in Hands, BeginNormalize(h) \/ FindSiblings(h) \/ AbandonSiblings(h)
      PROVE  CommitInv'
    BY <1>6, TransactionBegins, SiblingsFound, SiblingsAbandoned
<1>7. ASSUME NEW h \in Hands, FindReplaced(h) \/ SupersedeReplaced(h) \/ CommitNormalize(h)
      PROVE  CommitInv'
    BY <1>7, ReplacedFound, ReplacedSuperseded, TransactionCommits
<1>8. ASSUME NEW h \in Hands, NormalizeFails(h) \/ SetStatus(h) \/ EndsEarly(h) PROVE CommitInv'
    BY <1>8, TransactionFails, StatusSet, WorkCutShort
<1>9. ASSUME NEW c \in Pushed, Push(c) PROVE CommitInv'
    BY <1>9, Pushes
<1> QED BY <1>1, <1>2, <1>3, <1>4, <1>5, <1>6, <1>7, <1>8, <1>9 DEF CommitNext

(***************************************************************************)
(* A rebuild that nothing interferes with.                                  *)
(***************************************************************************)

LEMMA OrdersKept == arrived' = arrived => InOrderOfTime(arrived)' = InOrderOfTime(arrived)
    BY DEF InOrderOfTime, Range

(* It moves on within a transaction.                                         *)
LEMMA RebuildMoves ==
    ASSUME NEW h \in Hands, Rebuilds(h), hand'[h].todo = hand[h].todo,
           \A o \in Hands : o # h => hand'[o] = hand[o],
           UNCHANGED <<arrived, reach, known>>, Finds(hand'[h])
    PROVE  Rebuilds(h)'
<1>1. \A c : ToAbandon(c)' = ToAbandon(c) /\ Replaced(c)' = Replaced(c)
    BY DEF ToAbandon, Siblings, Abandons, Replaced
<1>2. Finds(hand[h])'
    BY <1>1 DEF Finds
<1>3. \A o \in Hands : o # h => hand'[o].role = "idle"
    BY DEF Rebuilds
<1>4. PICK order \in InOrderOfTime(arrived), k \in Nat :
          Left(hand[h].todo, k, order) /\ Replayed(k, order)
    BY DEF Rebuilds
<1>5. order \in InOrderOfTime(arrived)'
    <2>1. arrived' = arrived
        OBVIOUS
    <2> QED BY <1>4, <2>1, OrdersKept
<1>6. Replayed(k, order)'
    BY <1>4 DEF Replayed, Reference, Supersedes, Displaces, NotYounger, Between
<1>7. Left(hand[h].todo, k, order)'
    BY <1>4 DEF Left
<1> QED BY <1>2, <1>3, <1>5, <1>6, <1>7 DEF Rebuilds

LEMMA RebuildSearches ==
    ASSUME HandsInv, NEW h \in Hands, Rebuilds(h), hand[h].role = "rebuild",
           Replaces(hand[h]),
           \/ NextStored(h) \/ BeginNormalize(h) \/ FindSiblings(h) \/ AbandonSiblings(h)
           \/ FindReplaced(h) \/ SupersedeReplaced(h)
    PROVE  Rebuilds(h)'
<1>1. hand[h] \in Works /\ hand \in [Hands -> Works]
    BY DEF HandsInv
<1>2. Finds(hand[h])
    BY DEF Rebuilds
<1>3. UNCHANGED <<arrived, reach, known>>
    BY DEF NextStored, BeginNormalize, FindSiblings, AbandonSiblings, FindReplaced,
           SupersedeReplaced, stored, projected
<1>4. CASE NextStored(h) \/ BeginNormalize(h)
    <2>1. PICK place \in {"begin", "siblings"} :
              /\ hand' = [hand EXCEPT ![h] = [hand[h] EXCEPT !.at = place]]
              /\ hand[h].at \in {"next", "begin"}
        BY <1>4 DEF NextStored, BeginNormalize, Becomes, At
    <2>2. /\ hand'[h].todo = hand[h].todo /\ hand'[h].at = place
          /\ hand'[h].superseded = hand[h].superseded /\ hand[h].at \in {"next", "begin"}
          /\ \A o \in Hands : o # h => hand'[o] = hand[o]
        BY <1>1, <2>1 DEF Works
    <2>3. Finds(hand'[h])
        BY <1>2, <2>2 DEF Finds
    <2> QED BY <1>3, <2>2, <2>3, RebuildMoves
<1>5. CASE FindSiblings(h)
    <2>1. PICK found : found = ToAbandon(Subject(h))
        OBVIOUS
    <2>2. PICK place : place = IF found = {} THEN "replaced" ELSE "abandon"
        OBVIOUS
    <2> DEFINE half == [hand[h] EXCEPT !.targets = found]
    <2>3. hand' = [hand EXCEPT ![h] = [half EXCEPT !.at = place]] /\ hand[h].at = "siblings"
        BY <1>5, <2>1, <2>2 DEF FindSiblings, Becomes, At, ToAbandon
    <2>4. hand'[h] = [half EXCEPT !.at = place] /\ \A o \in Hands : o # h => hand'[o] = hand[o]
        BY <1>1, <2>3
    <2>5. /\ hand'[h].todo = hand[h].todo /\ hand'[h].at = place /\ hand'[h].targets = found
          /\ hand'[h].abandoned = hand[h].abandoned /\ hand'[h].superseded = hand[h].superseded
        BY <1>1, <2>4 DEF Works
    <2>6. hand[h].abandoned = {}
        BY <2>3 DEF Replaces
    <2>7. Finds(hand'[h])
        BY <1>2, <2>1, <2>2, <2>3, <2>5, <2>6 DEF Finds, Subject
    <2> QED BY <1>3, <2>4, <2>5, <2>7, RebuildMoves
<1>6. CASE AbandonSiblings(h)
    <2> DEFINE half == [hand[h] EXCEPT !.at = "replaced"]
    <2>1. hand' = [hand EXCEPT ![h] = [half EXCEPT !.abandoned = hand[h].targets]] /\ hand[h].at = "abandon"
        BY <1>6 DEF AbandonSiblings, Becomes, At
    <2>2. /\ half \in Works /\ half.todo = hand[h].todo /\ half.at = "replaced"
          /\ half.superseded = hand[h].superseded
        BY <1>1 DEF Works, InTransaction
    <2> HIDE DEF half
    <2>3. /\ hand'[h].todo = hand[h].todo /\ hand'[h].at = "replaced"
          /\ hand'[h].abandoned = hand[h].targets /\ hand'[h].superseded = hand[h].superseded
          /\ \A o \in Hands : o # h => hand'[o] = hand[o]
        BY <1>1, <2>1, <2>2 DEF Works
    <2>4. Finds(hand'[h])
        BY <1>2, <2>1, <2>3 DEF Finds
    <2> QED BY <1>3, <2>3, <2>4, RebuildMoves
<1>7. CASE FindReplaced(h)
    <2>1. PICK found : found = Replaced(Subject(h))
        OBVIOUS
    <2>2. PICK place : place = IF found = {} THEN "commit" ELSE "supersede"
        OBVIOUS
    <2> DEFINE half == [hand[h] EXCEPT !.targets = found]
    <2>3. hand' = [hand EXCEPT ![h] = [half EXCEPT !.at = place]] /\ hand[h].at = "replaced"
        BY <1>7, <2>1, <2>2 DEF FindReplaced, Becomes, At
    <2>4. hand'[h] = [half EXCEPT !.at = place] /\ \A o \in Hands : o # h => hand'[o] = hand[o]
        BY <1>1, <2>3
    <2>5. /\ hand'[h].todo = hand[h].todo /\ hand'[h].at = place /\ hand'[h].targets = found
          /\ hand'[h].abandoned = hand[h].abandoned /\ hand'[h].superseded = hand[h].superseded
        BY <1>1, <2>4 DEF Works
    <2>6. hand[h].superseded = {}
        BY <1>2, <2>3 DEF Finds
    <2>7. Finds(hand'[h])
        BY <1>2, <2>1, <2>2, <2>3, <2>5, <2>6 DEF Finds, Subject
    <2> QED BY <1>3, <2>4, <2>5, <2>7, RebuildMoves
<1>8. CASE SupersedeReplaced(h)
    <2> DEFINE half == [hand[h] EXCEPT !.at = "commit"]
    <2>1. hand' = [hand EXCEPT ![h] = [half EXCEPT !.superseded = hand[h].targets]] /\ hand[h].at = "supersede"
        BY <1>8 DEF SupersedeReplaced, Becomes, At
    <2>2. /\ half \in Works /\ half.todo = hand[h].todo /\ half.at = "commit"
          /\ half.abandoned = hand[h].abandoned
        BY <1>1 DEF Works, InTransaction
    <2> HIDE DEF half
    <2>3. /\ hand'[h].todo = hand[h].todo /\ hand'[h].at = "commit"
          /\ hand'[h].abandoned = hand[h].abandoned /\ hand'[h].superseded = hand[h].targets
          /\ \A o \in Hands : o # h => hand'[o] = hand[o]
        BY <1>1, <2>1, <2>2 DEF Works
    <2>4. Finds(hand'[h])
        BY <1>2, <2>1, <2>3 DEF Finds
    <2> QED BY <1>3, <2>3, <2>4, RebuildMoves
<1> QED BY <1>4, <1>5, <1>6, <1>7, <1>8

(* What its transaction has found to drop, of the commits replayed so far.    *)
LEMMA DropsFound ==
    ASSUME CommitInv, NEW h \in Hands, Finds(hand[h]), hand[h].at = "commit",
           NEW d \in known, d # Subject(h), reach[d] # "none"
    PROVE  /\ d \in hand[h].superseded <=> Supersedes(Subject(h), d)
           /\ d \in hand[h].abandoned <=>
                 Displaces(Subject(h), d) /\ reach[d] \notin {"superseded", "unreachable"}
<1>1. PICK c : c = Subject(h)
    OBVIOUS
<1>2. hand[h].superseded = Replaced(c) /\ hand[h].abandoned = ToAbandon(c)
    BY <1>1 DEF Finds, Subject
<1>3. /\ \A s \in hand[h].superseded : Supersedes(c, s)
      /\ \A s \in hand[h].abandoned : Displaces(c, s)
    BY <1>1 DEF CommitInv, FoundInv, Replaces, Subject
<1>4. ASSUME Supersedes(c, d) PROVE d \in Replaced(c)
    <2>1. CASE Rewrites[c] # {}
        BY <1>4, <2>1 DEF Supersedes, Replaced
    <2>2. CASE Rewrites[c] = {}
        BY <1>1, <1>4, <2>2 DEF Supersedes, Replaced, NotYounger
    <2> QED BY <2>1, <2>2
<1>5. ASSUME Displaces(c, d), reach[d] \notin {"superseded", "unreachable"}
      PROVE  d \in ToAbandon(c)
    BY <1>1, <1>5 DEF ToAbandon, Siblings, Abandons, Displaces, NotYounger
<1>6. d \in ToAbandon(c) => reach[d] \notin {"superseded", "unreachable"}
    BY DEF ToAbandon, Abandons
<1> QED BY <1>1, <1>2, <1>3, <1>4, <1>5, <1>6

(* The transaction of a rebuild's next event leaves the commits replayed so   *)
(* far, and its own, as these events say.                                     *)
LEMMA EventReplayed ==
    ASSUME CommitInv, NEW h \in Hands, Rebuilds(h), hand[h].role = "rebuild", CommitNormalize(h)
    PROVE  Rebuilds(h)'
<1>0. StoredInv /\ HandsInv /\ FoundInv
    BY DEF CommitInv
<1>1. /\ hand[h].at = "commit" /\ reach' = Outcome(h) /\ known' = known \cup {Subject(h)}
      /\ Transacted(h, TRUE) /\ arrived' = arrived
    BY DEF CommitNormalize, At, stored
<1>2. hand[h].at \in InTransaction /\ TRUE \in BOOLEAN
    BY <1>1 DEF InTransaction
<1>3. PICK work \in Works :
              /\ Becomes(h, work) /\ work.role = hand[h].role /\ work.batch = hand[h].batch
              /\ work.abandoned = {} /\ work.superseded = {} /\ work.at \in {"next", "status"}
              /\ hand[h].role = "rebuild" => work.at = "next" /\ work.todo = Tail(hand[h].todo)
              /\ hand[h].role # "rebuild" => work.at = "status" /\ work.todo = hand[h].todo
    BY <1>0, <1>1, <1>2, AfterTransaction
<1>4. /\ hand'[h] = work /\ \A o \in Hands : o # h => hand'[o] = hand[o]
      /\ work.at = "next" /\ work.superseded = {} /\ work.todo = Tail(hand[h].todo)
    BY <1>0, <1>3, HandMoves
<1>5. PICK c \in Commits : c = Subject(h)
    BY <1>0, <1>1, Holds
<1>6. hand[h].todo \in Seq(Commits) /\ hand[h].todo # <<>>
    BY <1>0, <1>1, <1>5, Holds
<1>7. PICK order \in InOrderOfTime(arrived), k \in Nat :
          Left(hand[h].todo, k, order) /\ Replayed(k, order)
    BY DEF Rebuilds
<1>8. /\ order \in Seq(Commits) /\ Len(order) \in Nat /\ DOMAIN order = 1..Len(order)
      /\ \A i, j \in 1..Len(order) : i < j => order[i] # order[j]
    BY <1>0, <1>7, ArrivedInTime
<1>9. /\ k + 1 \in 1..Len(order) /\ order[k + 1] = c
      /\ Left(Tail(hand[h].todo), k + 1, order)
    <2>1. /\ Len(hand[h].todo) \in Nat /\ Len(hand[h].todo) > 0 /\ hand[h].todo[1] = c
          /\ Len(Tail(hand[h].todo)) = Len(hand[h].todo) - 1
          /\ \A i \in 1..Len(Tail(hand[h].todo)) : Tail(hand[h].todo)[i] = hand[h].todo[i + 1]
        BY <1>5, <1>6 DEF Subject
    <2>2. /\ Len(hand[h].todo) = Len(order) - k /\ k \in 0..Len(order)
          /\ \A i \in 1..Len(hand[h].todo) : hand[h].todo[i] = order[k + i]
        BY <1>7 DEF Left
    <2>3. k + 1 \in 1..Len(order) /\ 1 \in 1..Len(hand[h].todo)
        <3>1. PICK n \in Nat : n = Len(order)
            BY <1>8
        <3>2. PICK m \in Nat : m = Len(hand[h].todo) /\ m > 0 /\ m = n - k
            BY <2>1, <2>2, <3>1
        <3>3. k + 1 \in 1..n /\ 1 \in 1..m
            BY <3>2
        <3> QED BY <3>1, <3>2, <3>3
    <2>4. order[k + 1] = c
        BY <2>1, <2>2, <2>3
    <2>5. ASSUME NEW i \in 1..Len(Tail(hand[h].todo))
          PROVE  Tail(hand[h].todo)[i] = order[(k + 1) + i]
        <3>1. i + 1 \in 1..Len(hand[h].todo) /\ k + (i + 1) = (k + 1) + i
            BY <1>7, <2>1
        <3> QED BY <2>1, <2>2, <3>1
    <2>6. k + 1 \in 0..Len(order) /\ Len(Tail(hand[h].todo)) = Len(order) - (k + 1)
        <3>1. PICK n \in Nat : n = Len(order)
            BY <1>8
        <3>2. Len(Tail(hand[h].todo)) = (n - k) - 1
            BY <2>1, <2>2, <3>1
        <3>3. k + 1 \in 1..n
            BY <2>3, <3>1
        <3>4. k + 1 \in 0..n /\ (n - k) - 1 = n - (k + 1)
            BY <3>3
        <3> QED BY <3>1, <3>2, <3>4
    <2> QED BY <2>3, <2>4, <2>5, <2>6 DEF Left
<1>10. ASSUME NEW d \in Commits
       PROVE  reach'[d] = IF d \in hand[h].superseded THEN "superseded"
                          ELSE IF d \in hand[h].abandoned THEN "unreachable"
                          ELSE IF d = c THEN "reachable" ELSE reach[d]
    BY <1>1, <1>5 DEF Outcome
<1>11. ASSUME NEW i \in 1..(k + 1)
       PROVE  /\ order[i] \in known'
              /\ reach'[order[i]] = Reference(order[i], Between(i, k + 1, order))
    <2>1. CASE i = k + 1
        <3>1. Between(i, k + 1, order) = {}
            BY <1>7, <1>8, <2>1 DEF Between
        <3>2. Reference(c, {}) = "reachable"
            BY DEF Reference
        <3>3. c \notin hand[h].superseded /\ c \notin hand[h].abandoned
            <4>1. /\ \A s \in hand[h].superseded : Supersedes(c, s)
                  /\ \A s \in hand[h].abandoned : Displaces(c, s)
                BY <1>0, <1>5 DEF FoundInv, Replaces, Subject
            <4>2. ~Displaces(c, c) /\ ~NotYounger(c, c)
                BY DEF Displaces, NotYounger
            <4>3. c \notin Rewrites[c]
                <5>1. Rewrites[c] \subseteq 1..(c - 1) /\ c \in Nat
                    BY CommitsAssumption, CommitNumbers
                <5>2. c \notin 1..(c - 1)
                    BY <5>1
                <5> QED BY <5>1, <5>2
            <4> QED BY <4>1, <4>2, <4>3 DEF Supersedes
        <3>4. reach'[c] = "reachable"
            BY <1>10, <3>3
        <3> QED BY <1>1, <1>5, <1>9, <2>1, <3>1, <3>2, <3>4
    <2>2. CASE i # k + 1
        <3>1. i \in 1..k /\ i \in 1..Len(order) /\ i < k + 1
            BY <1>7, <1>8, <1>9, <2>2
        <3>2. PICK d \in Commits : d = order[i]
            BY <1>8, <3>1
        <3>3. PICK X : X = Between(i, k, order)
            OBVIOUS
        <3>4. /\ d \in known /\ d # c
              /\ reach[d] = Reference(d, X)
            BY <1>7, <1>8, <1>9, <3>1, <3>2, <3>3 DEF Replayed
        <3>5. Between(i, k + 1, order) = X \cup {c}
            <4>1. {n \in DOMAIN order : i < n /\ n <= k + 1}
                      = {n \in DOMAIN order : i < n /\ n <= k} \cup {k + 1}
                BY <1>7, <1>8, <1>9, <3>1
            <4> QED BY <1>9, <3>3, <4>1 DEF Between
        <3>6. reach[d] = IF \E e \in X : Supersedes(e, d) THEN "superseded"
                         ELSE IF \E e \in X : Displaces(e, d) THEN "unreachable"
                         ELSE "reachable"
            BY <3>4 DEF Reference
        <3>7. /\ d \in hand[h].superseded <=> Supersedes(c, d)
              /\ d \in hand[h].abandoned <=>
                    Displaces(c, d) /\ reach[d] \notin {"superseded", "unreachable"}
            <4>1. reach[d] # "none" /\ Finds(hand[h])
                BY <3>6 DEF Rebuilds
            <4> QED BY <1>1, <1>5, <3>4, <4>1, DropsFound
        <3>8. reach'[d] = IF Supersedes(c, d) THEN "superseded"
                          ELSE IF Displaces(c, d) /\ reach[d] \notin {"superseded", "unreachable"}
                               THEN "unreachable" ELSE reach[d]
            BY <1>10, <3>4, <3>7
        <3>9. /\ (\E e \in X \cup {c} : Supersedes(e, d)) <=>
                    Supersedes(c, d) \/ \E e \in X : Supersedes(e, d)
              /\ (\E e \in X \cup {c} : Displaces(e, d)) <=>
                    Displaces(c, d) \/ \E e \in X : Displaces(e, d)
            OBVIOUS
        <3>10. reach'[d] = Reference(d, X \cup {c})
            BY <3>6, <3>8, <3>9 DEF Reference
        <3> QED BY <1>1, <3>2, <3>4, <3>5, <3>10
    <2> QED BY <2>1, <2>2
<1>12. Replayed(k + 1, order)'
    BY <1>11 DEF Replayed, Reference, Supersedes, Displaces, NotYounger, Between
<1>13. Left(hand[h].todo, k + 1, order)'
    BY <1>4, <1>9 DEF Left
<1>14. order \in InOrderOfTime(arrived)'
    BY <1>1, <1>7, OrdersKept
<1>15. Finds(hand[h])'
    BY <1>4 DEF Finds
<1>16. \A o \in Hands : o # h => hand'[o].role = "idle"
    BY <1>4 DEF Rebuilds
<1>17. k + 1 \in Nat
    BY <1>7
<1> QED BY <1>12, <1>13, <1>14, <1>15, <1>16, <1>17 DEF Rebuilds

(* It begins when nobody else is at work, with all that has arrived.          *)
LEMMA RebuildBegins ==
    ASSUME CommitInv, NEW h \in Hands, StartRebuild(h),
           \A o \in Hands \ {h} : hand[o].role = "idle"
    PROVE  Rebuilds(h)'
<1>0. StoredInv /\ HandsInv
    BY DEF CommitInv
<1>1. PICK order \in InOrderOfTime(arrived) :
          Takes(h, [NoWork EXCEPT !.role = "rebuild", !.todo = order])
    BY DEF StartRebuild
<1>2. order \in Seq(Commits) /\ Len(order) \in Nat
    BY <1>0, ArrivedInTime
<1>3. PICK work : work = [NoWork EXCEPT !.role = "rebuild", !.todo = order]
    OBVIOUS
<1>4. /\ work \in Works /\ work.todo = order /\ work.at = "next" /\ work.superseded = {}
    <2>1. StartedOn([NoWork EXCEPT !.role = "rebuild", !.todo = order], "rebuild", <<>>, order)
        BY <1>2, NoElements, FreshWork
    <2> QED BY <1>3, <2>1 DEF StartedOn
<1>5. Becomes(h, work) /\ arrived' = arrived
    BY <1>1, <1>3 DEF StartRebuild, Takes, stored
<1>6. hand'[h] = work /\ \A o \in Hands : o # h => hand'[o] = hand[o]
    BY <1>0, <1>4, <1>5, HandMoves
<1>7. Left(hand[h].todo, 0, order)'
    BY <1>2, <1>4, <1>6 DEF Left
<1>8. Replayed(0, order)'
    BY DEF Replayed
<1>9. Finds(hand[h])'
    BY <1>4, <1>6 DEF Finds
<1>10. order \in InOrderOfTime(arrived)'
    BY <1>1, <1>5, OrdersKept
<1> QED BY <1>6, <1>7, <1>8, <1>9, <1>10 DEF Rebuilds

(* Steps of a hand that is at work already.                                   *)
LEMMA RoleKept ==
    ASSUME HandsInv, NEW h \in Hands,
           \/ StoreEvent(h) \/ NextStored(h) \/ BeginNormalize(h) \/ FindSiblings(h)
           \/ AbandonSiblings(h) \/ FindReplaced(h) \/ SupersedeReplaced(h) \/ SetStatus(h)
           \/ CommitNormalize(h) \/ NormalizeFails(h)
    PROVE  /\ hand[h].role # "idle" /\ hand'[h].role = hand[h].role
           /\ \A o \in Hands : o # h => hand'[o] = hand[o]
<1>1. hand[h] \in Works /\ hand \in [Hands -> Works]
    BY DEF HandsInv
<1>2. CASE CommitNormalize(h) \/ NormalizeFails(h)
    <2>1. PICK ok \in BOOLEAN : Transacted(h, ok)
        BY <1>2 DEF CommitNormalize, NormalizeFails
    <2>2. hand[h].at \in InTransaction
        BY <1>2 DEF CommitNormalize, NormalizeFails, At, InTransaction
    <2>3. hand[h].at # "next"
        BY <2>2 DEF InTransaction
    <2>4. PICK work \in Works : Becomes(h, work) /\ work.role = hand[h].role
        BY <2>1, <2>2, AfterTransaction
    <2> QED BY <1>1, <2>3, <2>4, Holds DEF Becomes
<1>3. CASE FindSiblings(h) \/ FindReplaced(h)
    <2>1. PICK found, place : Becomes(h, [hand[h] EXCEPT !.targets = found, !.at = place])
        BY <1>3 DEF FindSiblings, FindReplaced
    <2> DEFINE half == [hand[h] EXCEPT !.targets = found]
    <2>2. hand'[h] = [half EXCEPT !.at = place] /\ \A o \in Hands : o # h => hand'[o] = hand[o]
        BY <1>1, <2>1 DEF Becomes
    <2>3. hand'[h].role = hand[h].role
        BY <1>1, <2>2 DEF Works
    <2>4. hand[h].role # "idle"
        BY <1>3 DEF FindSiblings, FindReplaced, At
    <2> QED BY <2>2, <2>3, <2>4
<1>4. CASE AbandonSiblings(h) \/ SupersedeReplaced(h) \/ SetStatus(h)
    <2>1. PICK place : \/ Becomes(h, [hand[h] EXCEPT !.at = place, !.abandoned = hand[h].targets])
                       \/ Becomes(h, [hand[h] EXCEPT !.at = place, !.superseded = hand[h].targets])
                       \/ Becomes(h, [hand[h] EXCEPT !.at = place, !.todo = Tail(hand[h].todo)])
        BY <1>4 DEF AbandonSiblings, SupersedeReplaced, SetStatus
    <2> DEFINE half == [hand[h] EXCEPT !.at = place]
    <2>2. /\ \/ hand'[h] = [half EXCEPT !.abandoned = hand[h].targets]
             \/ hand'[h] = [half EXCEPT !.superseded = hand[h].targets]
             \/ hand'[h] = [half EXCEPT !.todo = Tail(hand[h].todo)]
          /\ \A o \in Hands : o # h => hand'[o] = hand[o]
        BY <1>1, <2>1 DEF Becomes
    <2>3. hand'[h].role = hand[h].role
        BY <1>1, <2>2 DEF Works
    <2>4. hand[h].role # "idle"
        BY <1>4 DEF AbandonSiblings, SupersedeReplaced, SetStatus, At
    <2> QED BY <2>2, <2>3, <2>4
<1>5. CASE StoreEvent(h) \/ NextStored(h) \/ BeginNormalize(h)
    <2>1. PICK place, todo : \/ hand' = [hand EXCEPT ![h] = [hand[h] EXCEPT !.at = place]]
                             \/ hand' = [hand EXCEPT ![h] = [hand[h] EXCEPT !.todo = todo]]
        BY <1>5 DEF StoreEvent, NextStored, BeginNormalize, Becomes
    <2>2. hand'[h].role = hand[h].role /\ \A o \in Hands : o # h => hand'[o] = hand[o]
        BY <1>1, <2>1 DEF Works
    <2>3. hand[h].role # "idle"
        BY <1>5 DEF StoreEvent, NextStored, BeginNormalize, At
    <2> QED BY <2>2, <2>3
<1> QED BY <1>2, <1>3, <1>4, <1>5

LEMMA OwnStep ==
    ASSUME RebuildsInv, NEW h \in Hands, hand[h].role # "idle",
           \A o \in Hands : o # h => hand'[o] = hand[o], undisturbed' \subseteq undisturbed,
           h \in undisturbed' /\ hand'[h].role = "rebuild" =>
              hand[h].role = "rebuild" /\ (Rebuilds(h) => Rebuilds(h)')
    PROVE  RebuildsInv'
<1>1. undisturbed' \in SUBSET Hands
    BY DEF RebuildsInv
<1>2. ASSUME NEW o \in undisturbed', hand'[o].role = "rebuild" PROVE Rebuilds(o)'
    <2>1. o \in undisturbed /\ o \in Hands
        BY DEF RebuildsInv
    <2>2. CASE o # h
        <3>1. Rebuilds(o)
            BY <1>2, <2>1, <2>2 DEF RebuildsInv
        <3>2. hand[h].role = "idle"
            BY <2>2, <3>1 DEF Rebuilds
        <3> QED BY <3>2
    <2>3. CASE o = h
        <3>1. hand[h].role = "rebuild" /\ (Rebuilds(h) => Rebuilds(h)')
            BY <1>2, <2>3
        <3>2. Rebuilds(h)'
            BY <2>1, <2>3, <3>1 DEF RebuildsInv
        <3> QED BY <2>3, <3>2
    <2> QED BY <2>2, <2>3
<1> QED BY <1>1, <1>2 DEF RebuildsInv

LEMMA RebuildStep == CommitInv /\ RebuildsInv /\ [CommitNext]_commitVars => RebuildsInv'
<1> SUFFICES ASSUME CommitInv, RebuildsInv, [CommitNext]_commitVars PROVE RebuildsInv'
    OBVIOUS
<1>0. HandsInv /\ FoundInv /\ hand \in [Hands -> Works]
    BY DEF CommitInv, HandsInv
<1>1. ASSUME UNCHANGED <<arrived, reach, known, hand, undisturbed>> PROVE RebuildsInv'
    <2>1. ASSUME NEW h \in undisturbed', hand'[h].role = "rebuild" PROVE Rebuilds(h)'
        <3>1. h \in Hands /\ Rebuilds(h)
            BY <1>1, <2>1 DEF RebuildsInv
        <3>2. Finds(hand'[h])
            BY <1>1, <3>1 DEF Rebuilds
        <3> QED BY <1>1, <3>1, <3>2, RebuildMoves
    <2> QED BY <1>1, <2>1 DEF RebuildsInv
<1>2. CASE UNCHANGED commitVars \/ \E b \in Uploads : RepeatUpload(b)
    BY <1>1, <1>2 DEF commitVars, stored, projected, RepeatUpload
<1>3. ASSUME NEW h \in Hands, NEW work, Takes(h, work), work.role = "rebuild" => StartRebuild(h),
             hand'[h] = work
      PROVE  RebuildsInv'
    <2>1. undisturbed' \in SUBSET {h}
        BY <1>3 DEF Takes
    <2>2. h \in undisturbed' => \A o \in Hands \ {h} : hand[o].role = "idle"
        BY <1>3 DEF Takes
    <2>3. ASSUME h \in undisturbed', hand'[h].role = "rebuild" PROVE Rebuilds(h)'
        BY <1>3, <2>2, <2>3, RebuildBegins
    <2> QED BY <2>1, <2>3 DEF RebuildsInv
<1>4. ASSUME NEW b \in Uploads, NEW h \in Hands, StartUpload(h, b) PROVE RebuildsInv'
    <2>1. PICK work : work = [NoWork EXCEPT !.role = "upload", !.batch = b, !.todo = b]
        OBVIOUS
    <2>2. work.role = "upload"
        <3>1. b \in Seq(Commits)
            BY CommitsAssumption
        <3>2. StartedOn([NoWork EXCEPT !.role = "upload", !.batch = b, !.todo = b], "upload", b, b)
            BY <3>1, FreshWork
        <3> QED BY <2>1, <3>2 DEF StartedOn
    <2>3. Takes(h, work)
        BY <1>4, <2>1 DEF StartUpload
    <2>4. hand'[h] = work
        BY <1>0, <2>3 DEF Takes, Becomes
    <2> QED BY <1>3, <2>2, <2>3, <2>4
<1>5. ASSUME NEW h \in Hands, StartReconcile(h) PROVE RebuildsInv'
    <2>1. PICK todo : todo = [k \in DOMAIN PendingRows |-> arrived[PendingRows[k]]]
        OBVIOUS
    <2>2. todo \in Seq(Commits)
        BY <2>1, PendingArrived DEF CommitInv
    <2>3. PICK work : work = [NoWork EXCEPT !.role = "reconcile", !.todo = todo]
        OBVIOUS
    <2>4. work.role = "reconcile"
        <3>1. StartedOn([NoWork EXCEPT !.role = "reconcile", !.todo = todo], "reconcile", <<>>, todo)
            BY <2>2, NoElements, FreshWork
        <3> QED BY <2>3, <3>1 DEF StartedOn
    <2>5. Takes(h, work)
        BY <1>5, <2>1, <2>3 DEF StartReconcile
    <2>6. hand'[h] = work
        BY <1>0, <2>5 DEF Takes, Becomes
    <2> QED BY <1>3, <2>4, <2>5, <2>6
<1>6. ASSUME NEW h \in Hands, StartRebuild(h) PROVE RebuildsInv'
    <2>1. PICK order \in InOrderOfTime(arrived) :
              Takes(h, [NoWork EXCEPT !.role = "rebuild", !.todo = order])
        BY <1>6 DEF StartRebuild
    <2> DEFINE work == [NoWork EXCEPT !.role = "rebuild", !.todo = order]
    <2>2. hand'[h] = work
        BY <1>0, <2>1 DEF Takes, Becomes
    <2> QED BY <1>3, <1>6, <2>1, <2>2
<1>7. ASSUME NEW h \in Hands, StoreEvent(h) PROVE RebuildsInv'
    <2>1. hand[h].role = "upload" /\ UNCHANGED undisturbed
        BY <1>7 DEF StoreEvent
    <2>2. hand'[h].role = "upload" /\ \A o \in Hands : o # h => hand'[o] = hand[o]
        BY <1>0, <1>7, <2>1, RoleKept
    <2> QED BY <2>1, <2>2, OwnStep
<1>8. ASSUME NEW h \in Hands,
             \/ NextStored(h) \/ BeginNormalize(h) \/ FindSiblings(h) \/ AbandonSiblings(h)
             \/ FindReplaced(h) \/ SupersedeReplaced(h)
      PROVE  RebuildsInv'
    <2>1. /\ hand[h].role # "idle" /\ hand'[h].role = hand[h].role
          /\ \A o \in Hands : o # h => hand'[o] = hand[o]
        BY <1>0, <1>8, RoleKept
    <2>2. UNCHANGED undisturbed
        BY <1>8 DEF NextStored, BeginNormalize, FindSiblings, AbandonSiblings, FindReplaced,
                    SupersedeReplaced
    <2>3. hand[h].role = "rebuild" /\ Rebuilds(h) => Rebuilds(h)'
        BY <1>0, <1>8, RebuildSearches DEF FoundInv
    <2> QED BY <2>1, <2>2, <2>3, OwnStep
<1>9. ASSUME NEW h \in Hands, CommitNormalize(h) PROVE RebuildsInv'
    <2>1. /\ hand[h].role # "idle" /\ hand'[h].role = hand[h].role
          /\ \A o \in Hands : o # h => hand'[o] = hand[o]
        BY <1>0, <1>9, RoleKept
    <2>2. UNCHANGED undisturbed
        BY <1>9 DEF CommitNormalize
    <2>3. hand[h].role = "rebuild" /\ Rebuilds(h) => Rebuilds(h)'
        BY <1>9, EventReplayed
    <2> QED BY <2>1, <2>2, <2>3, OwnStep
<1>10. ASSUME NEW h \in Hands, NormalizeFails(h) PROVE RebuildsInv'
    <2>1. /\ hand[h].role # "idle" /\ \A o \in Hands : o # h => hand'[o] = hand[o]
        BY <1>0, <1>10, RoleKept
    <2>2. undisturbed' = undisturbed \ {h}
        BY <1>10 DEF NormalizeFails
    <2> QED BY <2>1, <2>2, OwnStep
<1>11. ASSUME NEW h \in Hands, SetStatus(h) PROVE RebuildsInv'
    <2>1. /\ hand[h].role # "idle" /\ hand'[h].role = hand[h].role
          /\ \A o \in Hands : o # h => hand'[o] = hand[o]
        BY <1>0, <1>11, RoleKept
    <2>2. UNCHANGED undisturbed /\ hand[h].at = "status"
        BY <1>11 DEF SetStatus, At
    <2>3. ~Rebuilds(h)
        BY <2>2 DEF Rebuilds, Finds
    <2> QED BY <2>1, <2>2, <2>3, OwnStep
<1>12. ASSUME NEW h \in Hands, Finish(h) \/ EndsEarly(h) PROVE RebuildsInv'
    <2>1. Becomes(h, NoWork) /\ UNCHANGED undisturbed /\ hand[h].role # "idle"
        BY <1>12 DEF Finish, EndsEarly, At
    <2>2. hand'[h] = NoWork /\ \A o \in Hands : o # h => hand'[o] = hand[o]
        BY <1>0, <2>1 DEF Becomes
    <2>3. hand'[h].role # "rebuild"
        BY <2>2, IdleWork
    <2> QED BY <2>1, <2>2, <2>3, OwnStep
<1>13. ASSUME NEW c \in Pushed, Push(c) PROVE RebuildsInv'
    BY <1>13 DEF Push, RebuildsInv
<1> QED BY <1>2, <1>4, <1>5, <1>6, <1>7, <1>8, <1>9, <1>10, <1>11, <1>12, <1>13 DEF CommitNext

LEMMA CommitInvariants == CommitSpec => [](CommitInv /\ RebuildsInv)
<1>1. CommitInv /\ RebuildsInv /\ [CommitNext]_commitVars => (CommitInv /\ RebuildsInv)'
    BY CommitStep, RebuildStep
<1> QED BY <1>1, CommitStart, PTL DEF CommitSpec

----------------------------------------------------------------------------
(* A commit leaves the retained denominator only for one that replaces it and *)
(* has been normalised, however uploads, reconcilers, rebuilds and pushes     *)
(* interleave, fail and die (normalizeCommit, recordParentAndInferAbandoned-  *)
(* Tips, inferResetRecommitLineage).                                          *)
THEOREM DroppedHaveSuccessors == CommitSpec => []DroppedForSuccessor
<1>1. CommitInv => DroppedForSuccessor
    BY DEF CommitInv
<1> QED BY <1>1, CommitInvariants, PTL

(* A batch that was answered with success is stored, or an upload of it is at *)
(* work or has ended early (ingestMetricsBatch).                              *)
THEOREM AnsweredBatchesStored == CommitSpec => []AnsweredIsStored
<1>1. CommitInv => AnsweredIsStored
    BY DEF CommitInv, StoredInv, UploadsInv, AnsweredIsStored, Uploading, Arrived
<1> QED BY <1>1, CommitInvariants, PTL

(* A rebuild that nothing interfered with leaves every commit as those of the *)
(* events say that follow its own, in one order of their times, whatever was  *)
(* made of them before (rebuildCommitLifecycle).                              *)
THEOREM RebuildsRepair == CommitSpec => []RebuildConverges
<1>1. CommitInv /\ RebuildsInv => RebuildConverges
    <2> SUFFICES ASSUME CommitInv, RebuildsInv, NEW h \in undisturbed,
                        At(h, "next"), hand[h].role = "rebuild", hand[h].todo = <<>>
                 PROVE  \E order \in InOrderOfTime(arrived) : \A i \in DOMAIN order :
                            reach[order[i]] = Reference(order[i], After(i, order))
        BY DEF RebuildConverges
    <2>1. PICK order \in InOrderOfTime(arrived), k \in Nat :
              Left(<<>>, k, order) /\ Replayed(k, order)
        BY DEF RebuildsInv, Rebuilds
    <2>2. DOMAIN order = 1..Len(order) /\ Len(order) \in Nat
        BY <2>1, ArrivedInTime DEF CommitInv
    <2>3. k = Len(order)
        BY <2>1, <2>2 DEF Left
    <2>4. \A i \in DOMAIN order : Between(i, k, order) = After(i, order)
        BY <2>2, <2>3 DEF Between, After
    <2> QED BY <2>1, <2>2, <2>3, <2>4 DEF Replayed
<1> QED BY <1>1, CommitInvariants, PTL

(* Where the event of whatever replaces a commit has the later time, this is  *)
(* what all the events say: a rebuild leaves every commit superseded or       *)
(* unreachable that another one replaces, and no other (the sort by t of      *)
(* rebuildCommitLifecycle, the comparisons by committed_at).                  *)
SuccessorsLater ==
    \A c, d \in Commits : Supersedes(d, c) \/ Displaces(d, c) => EventTime[c] < EventTime[d]

RebuildComplete ==
    \A h \in undisturbed :
        At(h, "next") /\ hand[h].role = "rebuild" /\ hand[h].todo = <<>> =>
            \A c \in Range(arrived) : reach[c] = Reference(c, Range(arrived))

THEOREM RebuildsComplete == CommitSpec => [](SuccessorsLater => RebuildComplete)
<1>1. CommitInv /\ RebuildConverges => (SuccessorsLater => RebuildComplete)
    <2> SUFFICES ASSUME CommitInv, RebuildConverges, SuccessorsLater, NEW h \in undisturbed,
                        At(h, "next"), hand[h].role = "rebuild", hand[h].todo = <<>>,
                        NEW c \in Range(arrived)
                 PROVE  reach[c] = Reference(c, Range(arrived))
        BY DEF RebuildComplete
    <2>1. PICK order \in InOrderOfTime(arrived) : \A i \in DOMAIN order :
              reach[order[i]] = Reference(order[i], After(i, order))
        BY DEF RebuildConverges
    <2>2. /\ order \in Seq(Commits) /\ DOMAIN order = 1..Len(order) /\ Len(order) \in Nat
          /\ Range(order) = Range(arrived)
        BY <2>1, ArrivedInTime DEF CommitInv, Arrived
    <2>3. PICK i \in DOMAIN order : order[i] = c
        BY <2>2 DEF Range
    <2>4. c \in Commits
        BY <2>2, <2>3
    <2>5. \A d \in After(i, order) : d \in Range(arrived)
        BY <2>2 DEF After, Range
    <2>6. ASSUME NEW d \in Range(arrived), Supersedes(d, c) \/ Displaces(d, c)
          PROVE  d \in After(i, order)
        <3>1. PICK j \in DOMAIN order : order[j] = d
            BY <2>2 DEF Range
        <3>2. d \in Commits /\ i \in Nat /\ j \in Nat
            BY <2>2, <2>3, <3>1
        <3>3. EventTime[c] < EventTime[d] /\ EventTime[c] \in Nat /\ EventTime[d] \in Nat
            BY <2>4, <2>6, <3>2, CommitsAssumption DEF SuccessorsLater
        <3>4. ~(j < i) /\ j # i
            <4>1. j < i => EventTime[d] <= EventTime[c]
                <5>1. \A m, n \in DOMAIN arrived : m < n => EventTime[order[m]] <= EventTime[order[n]]
                    BY <2>1 DEF InOrderOfTime
                <5>2. DOMAIN order = DOMAIN arrived
                    BY <2>1 DEF InOrderOfTime
                <5> QED BY <2>3, <3>1, <5>1, <5>2
            <4> QED BY <2>3, <3>1, <3>3, <4>1
        <3>5. i < j
            BY <3>2, <3>4
        <3> QED BY <3>1, <3>5 DEF After
    <2>7. /\ (\E d \in After(i, order) : Supersedes(d, c)) <=> \E d \in Range(arrived) : Supersedes(d, c)
          /\ (\E d \in After(i, order) : Displaces(d, c)) <=> \E d \in Range(arrived) : Displaces(d, c)
        BY <2>5, <2>6
    <2>8. reach[c] = Reference(c, After(i, order))
        BY <2>1, <2>3
    <2> QED BY <2>7, <2>8 DEF Reference
<1> QED BY <1>1, RebuildsRepair, CommitInvariants, PTL
=============================================================================
