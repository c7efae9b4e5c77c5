----------------------------- MODULE SealProofs -----------------------------
(***************************************************************************)
(* Theorems about AuditSeal and SecuritySeal, for any writers, sealing      *)
(* passes, cadences and row caps.                                           *)
(***************************************************************************)
EXTENDS SecuritySeal, FiniteSetTheorems, WellFoundedInduction, TLAPS

AuditRows == [at : 0..MaxClock, by : Writers \cup Nat]
Windows == [from : Nat, to : Nat, previous : Nat, rows : SUBSET AuditRows,
            start : 0..NotOpen, cut : BOOLEAN]
SealRecords == [from : Nat, to : Nat, rows : SUBSET AuditRows, previous : Nat, created : Nat]

Planning(p) == spc[p] \in {"signing", "chaining"}
Idling(p) == spc[p] \in {"idle", "again"}

(***************************************************************************)
(* Types, and how old a transaction that is still open may be.              *)
(***************************************************************************)
SealTypeInv ==
    /\ clock \in 0..MaxClock
    /\ open \in [Writers -> 0..NotOpen]
    /\ \A w \in Writers : open[w] # NotOpen => open[w] <= clock /\ clock <= open[w] + OpenFor
    /\ trail \in SUBSET AuditRows /\ IsFiniteSet(trail)
    /\ \A r \in trail : r.at <= clock
    /\ seals \in Seq(SealRecords)
    /\ spc \in [Sealers -> {"idle", "again", "signing", "chaining"}]
    /\ plan = [p \in Sealers |-> plan[p]]
    /\ \A p \in Sealers : Planning(p) => plan[p] \in Windows
    /\ \A p \in Sealers : spc[p] = "chaining" =>
          plan[p].start <= clock /\ clock <= plan[p].start + OpenFor

(***************************************************************************)
(* A window ends before anything that is still open has begun: no row will  *)
(* ever be added to it, so what was read is all of it.                      *)
(***************************************************************************)
Closed(window) ==
    /\ window.from <= window.to /\ window.to <= clock - Settle
    /\ window.rows = {r \in trail : window.from <= r.at /\ r.at < window.to}

SealsInv ==
    /\ \A i \in 1..Len(seals) : Closed(seals[i])
    /\ \A i, j \in 1..Len(seals) : i < j => seals[i].to <= seals[j].from
    /\ \A i \in 1..(Len(seals) - 1) : seals[i + 1].from = seals[i].to
    /\ \A r \in trail : Len(seals) > 0 /\ r.at < seals[Len(seals)].to =>
          \E i \in 1..Len(seals) : r \in seals[i].rows

PlansInv ==
    \A p \in Sealers : Planning(p) =>
        /\ Closed(plan[p])
        /\ plan[p].previous <= Len(seals)
        /\ plan[p].previous = Len(seals) /\ Len(seals) > 0 => plan[p].from = seals[Len(seals)].to
        /\ plan[p].previous = 0 => \A r \in trail : plan[p].from <= r.at

SealInv == SealTypeInv /\ SealsInv /\ PlansInv

(* The least-number principle.                                               *)
LEMMA LeastNumber == \A T \in SUBSET Nat : T # {} => \E m \in T : \A n \in T : m <= n
<1> SUFFICES ASSUME NEW T \in SUBSET Nat, T # {} PROVE \E m \in T : \A n \in T : m <= n
    OBVIOUS
<1> DEFINE R == OpToRel(<, Nat)
<1>1. IsWellFoundedOn(R, Nat)
    BY NatLessThanWellFounded
<1>2. \A m, n \in Nat : m < n => <<m, n>> \in R
    BY DEF OpToRel
<1> HIDE DEF R
<1>3. PICK m \in T : \A n \in T : ~(<<n, m>> \in R)
    BY <1>1, WFMin
<1>4. \A n \in T : n \in Nat
    OBVIOUS
<1>5. \A n \in T : m <= n
    <2> SUFFICES ASSUME NEW n \in T PROVE m <= n
        OBVIOUS
    <2>1. m \in Nat /\ n \in Nat /\ ~(n < m)
        BY <1>2, <1>3, <1>4
    <2> QED BY <2>1
<1> QED BY <1>5

(***************************************************************************)
(* What a pass reads and plans.                                             *)
(***************************************************************************)
LEMMA RowOfTrail ==
    ASSUME SealTypeInv, NEW r \in trail PROVE r.at \in Nat /\ r.at <= clock /\ clock \in Nat
<1>1. r \in AuditRows
    BY DEF SealTypeInv
<1> QED BY <1>1, SealAssumption DEF SealTypeInv, AuditRows

LEMMA SealTyped ==
    ASSUME SealTypeInv, NEW i \in 1..Len(seals)
    PROVE  /\ seals[i] \in SealRecords
           /\ seals[i].from \in Nat /\ seals[i].to \in Nat /\ Len(seals) \in Nat
<1>1. seals \in Seq(SealRecords)
    BY DEF SealTypeInv
<1>2. seals[i] \in SealRecords /\ Len(seals) \in Nat
    BY <1>1
<1> QED BY <1>2 DEF SealRecords

LEMMA FirstRow ==
    ASSUME SealTypeInv, NEW rows \in SUBSET trail, rows # {}
    PROVE  LET first == CHOOSE t \in {r.at : r \in rows} : \A r \in rows : t <= r.at
           IN  (\E r \in rows : r.at = first) /\ first \in Nat /\ \A r \in rows : first <= r.at
<1> DEFINE T == {r.at : r \in rows}
<1>1. T \in SUBSET Nat /\ T # {}
    BY RowOfTrail
<1>2. PICK m \in T : \A n \in T : m <= n
    BY <1>1, LeastNumber
<1>3. \E t \in T : \A r \in rows : t <= r.at
    BY <1>2
<1> DEFINE first == CHOOSE t \in T : \A r \in rows : t <= r.at
<1>4. first \in T /\ \A r \in rows : first <= r.at
    BY <1>3
<1> HIDE DEF first
<1>5. first \in Nat /\ \E r \in rows : r.at = first
    BY <1>1, <1>4
<1> QED BY <1>4, <1>5 DEF first

LEMMA FromTyped ==
    ASSUME SealTypeInv, trail # {}
    PROVE  /\ From \in Nat
           /\ Len(seals) = 0 => \A r \in trail : From <= r.at
           /\ Len(seals) > 0 => From = seals[Len(seals)].to
<1>1. Len(seals) \in Nat /\ (seals = <<>> <=> Len(seals) = 0)
    BY DEF SealTypeInv
<1>2. CASE seals = <<>>
    <2>1. Earliest \in Nat /\ \A r \in trail : Earliest <= r.at
        BY FirstRow DEF Earliest
    <2> QED BY <1>1, <1>2, <2>1 DEF From
<1>3. CASE seals # <<>>
    <2>1. Len(seals) \in 1..Len(seals)
        BY <1>1, <1>3
    <2>2. seals[Len(seals)].to \in Nat
        BY <2>1, SealTyped
    <2> QED BY <1>1, <1>3, <2>2 DEF From
<1> QED BY <1>2, <1>3

LEMMA BeforeFinite ==
    ASSUME SealTypeInv, NEW rows \in SUBSET trail, NEW t
    PROVE  /\ Before(rows, t) \in SUBSET trail /\ IsFiniteSet(Before(rows, t))
           /\ Cardinality(Before(rows, t)) \in Nat
           /\ IsFiniteSet(rows) /\ Cardinality(rows) \in Nat
<1>1. Before(rows, t) \in SUBSET trail
    BY DEF Before
<1>2. IsFiniteSet(Before(rows, t)) /\ IsFiniteSet(rows)
    BY <1>1, FS_Subset DEF SealTypeInv
<1> QED BY <1>1, <1>2, FS_CardinalityType

(* With more rows than a seal holds there is a row at whose time the window   *)
(* can end: the first that does not fit.                                     *)
LEMMA WindowEnds ==
    ASSUME SealTypeInv, trail # {}, From < Cutoff
    PROVE  EndOf(Unsealed) \in Nat /\ From <= EndOf(Unsealed) /\ EndOf(Unsealed) <= Cutoff
<1>0. From \in Nat /\ Cutoff \in Int
    BY FromTyped, SealAssumption DEF SealTypeInv, Cutoff
<1>1. CASE Cardinality(Unsealed) <= MaxSealRows
    BY <1>0, <1>1 DEF EndOf
<1>2. CASE ~(Cardinality(Unsealed) <= MaxSealRows)
    <2>1. Unsealed \in SUBSET trail
        BY DEF Unsealed
    <2> DEFINE size(t) == Cardinality(Before(Unsealed, t))
               U == {t \in Nat : size(t) > MaxSealRows}
               Ends(t) == size(t) <= MaxSealRows /\ size(t + 1) > MaxSealRows
    <2>2. \A t : size(t) \in Nat
        BY <2>1, BeforeFinite
    <2>3. clock + 1 \in U
        <3>1. Before(Unsealed, clock + 1) = Unsealed
            BY <2>1, RowOfTrail DEF Before
        <3> QED BY <1>2, <2>2, <3>1, SealAssumption DEF SealTypeInv
    <2>4. PICK u \in U : \A v \in U : u <= v
        BY <2>3, LeastNumber
    <2>5. u \in Nat /\ size(u) > MaxSealRows
        BY <2>4
    <2>6. u # 0
        <3>1. Before(Unsealed, 0) = {}
            BY <2>1, RowOfTrail DEF Before
        <3> QED BY <2>5, <3>1, FS_EmptySet, SealAssumption
    <2>7. u - 1 \in Nat /\ u - 1 \notin U /\ (u - 1) + 1 = u
        BY <2>4, <2>5, <2>6
    <2>8. Ends(u - 1)
        BY <2>2, <2>5, <2>7, SealAssumption
    <2>9. u - 1 \in {r.at : r \in Unsealed}
        <3> SUFFICES ASSUME \A r \in Unsealed : r.at # u - 1 PROVE FALSE
            OBVIOUS
        <3>1. \A r \in Unsealed : r.at < u <=> r.at < u - 1
            BY <2>1, <2>5, RowOfTrail
        <3>2. Before(Unsealed, u) = Before(Unsealed, u - 1)
            BY <3>1 DEF Before
        <3> QED BY <2>2, <2>5, <2>8, <3>2, SealAssumption
    <2> DEFINE end == CHOOSE t \in {r.at : r \in Unsealed} : Ends(t)
    <2>10. end \in {r.at : r \in Unsealed}
        BY <2>8, <2>9
    <2>11. end = EndOf(Unsealed)
        BY <1>2 DEF EndOf
    <2> HIDE DEF end
    <2>12. PICK r \in Unsealed : r.at = end
        BY <2>10
    <2>13. r.at \in Nat /\ From <= r.at /\ r.at < Cutoff
        BY <2>1, RowOfTrail DEF Unsealed
    <2> QED BY <1>0, <2>11, <2>12, <2>13
<1> QED BY <1>1, <1>2

LEMMA InstantEnds ==
    ASSUME SealTypeInv, trail # {}, From < Cutoff, NEW to \in SecurityEnds
    PROVE  to \in Nat /\ From <= to /\ to <= Cutoff
<1>1. CASE Cardinality(AtFirstInstant) <= MaxSealRows
    BY <1>1, WindowEnds DEF SecurityEnds
<1>2. CASE ~(Cardinality(AtFirstInstant) <= MaxSealRows)
    <2>1. to = NextInstant(FirstInstant)
        BY <1>2 DEF SecurityEnds
    <2>2. Unsealed \in SUBSET trail
        BY DEF Unsealed
    <2>3. Unsealed # {}
        <3> SUFFICES ASSUME Unsealed = {} PROVE FALSE
            OBVIOUS
        <3>1. AtFirstInstant = {}
            BY DEF AtFirstInstant
        <3> QED BY <1>2, <3>1, FS_EmptySet, SealAssumption
    <2>4. (\E r \in Unsealed : r.at = FirstInstant) /\ FirstInstant \in Nat
        BY <2>2, <2>3, FirstRow DEF FirstInstant
    <2>5. PICK r \in Unsealed : r.at = FirstInstant
        BY <2>4
    <2>6. From <= r.at /\ r.at < Cutoff
        BY DEF Unsealed
    <2>7. From \in Nat /\ Cutoff \in Int
        BY FromTyped, SealAssumption DEF SealTypeInv, Cutoff
    <2> QED BY <2>1, <2>4, <2>5, <2>6, <2>7 DEF NextInstant
<1> QED BY <1>1, <1>2

LEMMA WindowClosed ==
    ASSUME SealTypeInv, trail # {}, From < Cutoff,
           NEW to \in Nat, From <= to, to <= Cutoff
    PROVE  /\ Window(to) \in Windows /\ Closed(Window(to))
           /\ Window(to).previous = Len(seals) /\ Window(to).from = From
<1> DEFINE rows == Before(Unsealed, to)
           cut == Cardinality(Unsealed) > MaxSealRows
<1>1. From \in Nat /\ Len(seals) \in Nat /\ Cutoff \in Int
    BY FromTyped, SealAssumption DEF SealTypeInv, Cutoff
<1>2. rows = {r \in trail : From <= r.at /\ r.at < to}
    <2>1. \A r \in trail : r.at < to => r.at < Cutoff
        BY <1>1, RowOfTrail
    <2> QED BY <2>1 DEF Before, Unsealed
<1>3. rows \in SUBSET AuditRows /\ cut \in BOOLEAN /\ NotOpen \in 0..NotOpen
    BY <1>2, SealAssumption DEF SealTypeInv, NotOpen
<1>4. Window(to) = [from |-> From, to |-> to, previous |-> Len(seals),
                    rows |-> rows, start |-> NotOpen, cut |-> cut]
    BY DEF Window
<1> HIDE DEF rows, cut
<1>5. /\ Window(to) \in Windows /\ Window(to).previous = Len(seals) /\ Window(to).from = From
      /\ Window(to).to = to /\ Window(to).rows = rows
    BY <1>1, <1>3, <1>4 DEF Windows
<1> QED BY <1>2, <1>5 DEF Closed, Cutoff

(***************************************************************************)
(* The steps.  A row that a transaction adds is later than every window.    *)
(***************************************************************************)
LEMMA RowIsLater ==
    ASSUME SealTypeInv, NEW window, window.to \in Nat, Closed(window),
           NEW start \in Nat, clock <= start + OpenFor
    PROVE  window.to <= start
BY SealAssumption DEF SealTypeInv, Closed

RowsAdded ==
    /\ trail \subseteq trail'
    /\ \A r \in trail' : r \in trail \/ (r.at \in Nat /\ clock <= r.at + OpenFor)

SameWindow(p) ==
    /\ Planning(p)
    /\ plan'[p].from = plan[p].from /\ plan'[p].to = plan[p].to
    /\ plan'[p].rows = plan[p].rows /\ plan'[p].previous = plan[p].previous

LEMMA ClosedKept ==
    ASSUME SealTypeInv, NEW window, window.to \in Nat, Closed(window), clock' \in Nat, clock <= clock',
           RowsAdded
    PROVE  Closed(window)'
<1>1. window.to <= clock' - Settle
    BY SealAssumption DEF SealTypeInv, Closed
<1>2. \A r \in trail' : r \in trail \/ ~(r.at < window.to)
    BY RowIsLater DEF RowsAdded
<1> QED BY <1>1, <1>2 DEF Closed, RowsAdded

(* Nothing but the clock, the writers and new rows changes.                  *)
LEMMA HistoryKept ==
    ASSUME SealInv, SealTypeInv', clock <= clock', UNCHANGED seals, RowsAdded,
           \A p \in Sealers : Planning(p)' => SameWindow(p)
    PROVE  SealInv'
<1>0. SealTypeInv /\ SealsInv /\ PlansInv /\ Len(seals) \in Nat /\ clock' \in Nat
    BY SealAssumption DEF SealInv, SealTypeInv
<1>1. \A i \in 1..Len(seals) : Closed(seals[i])'
    <2> SUFFICES ASSUME NEW i \in 1..Len(seals) PROVE Closed(seals[i])'
        OBVIOUS
    <2>1. PICK window : window = seals[i]
        OBVIOUS
    <2>2. window.to \in Nat /\ Closed(window)
        BY <1>0, <2>1, SealTyped DEF SealsInv
    <2>3. Closed(window)'
        BY <1>0, <2>2, ClosedKept
    <2> QED BY <2>1, <2>3
<1>2. SealsInv'
    <2>1. ASSUME NEW r \in trail', Len(seals) > 0, r.at < seals[Len(seals)].to
          PROVE  \E i \in 1..Len(seals) : r \in seals[i].rows
        <3>1. CASE r \in trail
            BY <1>0, <2>1, <3>1 DEF SealsInv
        <3>2. CASE r \notin trail
            <4>1. Len(seals) \in 1..Len(seals)
                BY <1>0, <2>1
            <4>2. PICK window : window = seals[Len(seals)]
                OBVIOUS
            <4>3. window.to \in Nat /\ Closed(window)
                BY <1>0, <4>1, <4>2, SealTyped DEF SealsInv
            <4>4. window.to <= r.at /\ r.at \in Nat
                BY <1>0, <2>1, <3>2, <4>3, RowIsLater DEF RowsAdded
            <4> QED BY <2>1, <4>2, <4>3, <4>4
        <3> QED BY <3>1, <3>2
    <2> QED BY <1>0, <1>1, <2>1 DEF SealsInv
<1>3. PlansInv'
    <2> SUFFICES ASSUME NEW p \in Sealers, Planning(p)'
                 PROVE  /\ Closed(plan[p])'
                        /\ plan'[p].previous <= Len(seals)
                        /\ plan'[p].previous = Len(seals) /\ Len(seals) > 0 =>
                               plan'[p].from = seals[Len(seals)].to
                        /\ plan'[p].previous = 0 => \A r \in trail' : plan'[p].from <= r.at
        BY DEF PlansInv
    <2>1. PICK window : window = plan[p]
        OBVIOUS
    <2>2. SameWindow(p) /\ Planning(p) /\ window \in Windows
        BY <1>0, <2>1 DEF SealTypeInv, SameWindow
    <2>3. window.to \in Nat /\ window.from \in Nat /\ window.previous \in Nat
        BY <2>2 DEF Windows
    <2>4. Closed(window)
        BY <1>0, <2>1, <2>2 DEF PlansInv
    <2>5. Closed(window)'
        BY <1>0, <2>3, <2>4, ClosedKept
    <2>6. Closed(plan[p])'
        BY <2>1, <2>2, <2>5 DEF Closed, SameWindow
    <2>7. ASSUME NEW r \in trail', r \notin trail PROVE window.from <= r.at
        <3>1. window.to <= r.at /\ r.at \in Nat
            BY <1>0, <2>3, <2>4, <2>7, RowIsLater DEF RowsAdded
        <3> QED BY <2>3, <2>4, <3>1 DEF Closed
    <2> QED BY <1>0, <2>1, <2>2, <2>6, <2>7 DEF PlansInv, SameWindow
<1> QED BY <1>2, <1>3 DEF SealInv

LEMMA SealInvInit == SealInit => SealInv
<1> SUFFICES ASSUME SealInit PROVE SealInv
    OBVIOUS
<1>1. seals = <<>> /\ Len(seals) = 0 /\ trail = {} /\ \A p \in Sealers : ~Planning(p)
    BY DEF SealInit, Planning
<1>2. SealTypeInv
    BY <1>1, SealAssumption, FS_EmptySet DEF SealInit, SealTypeInv, NotOpen, Planning
<1>3. SealsInv /\ PlansInv
    BY <1>1 DEF SealsInv, PlansInv
<1> QED BY <1>2, <1>3 DEF SealInv

(* The clock and the transactions of the writers.                            *)
LEMMA WritersKeep ==
    ASSUME SealInv, ClockTick \/ \E w \in Writers : BeginWrite(w) \/ CommitWrite(w)
    PROVE  SealInv'
<1>0. SealTypeInv /\ clock \in Nat /\ clock <= MaxClock
    BY SealAssumption DEF SealInv, SealTypeInv
<1>1. CASE ClockTick
    <2>1. clock' = clock + 1 /\ clock' \in 0..MaxClock /\ UNCHANGED <<open, trail, seals, spc, plan>>
        BY <1>0, <1>1, SealAssumption DEF ClockTick
    <2>2. \A w \in Writers : clock' <= open[w] + OpenFor
        BY <1>1, <2>1 DEF ClockTick, Started
    <2>3. \A p \in Sealers : clock' <= plan[p].start + OpenFor
        BY <1>1, <2>1 DEF ClockTick, Started
    <2>4. \A w \in Writers : open[w] # NotOpen => open[w] <= clock'
        BY <1>0, <2>1 DEF SealTypeInv, NotOpen
    <2>5. \A r \in trail : r.at <= clock'
        BY <1>0, <2>1, RowOfTrail
    <2>6. \A p \in Sealers : spc[p] = "chaining" => plan[p].start <= clock'
        <3> SUFFICES ASSUME NEW p \in Sealers, spc[p] = "chaining" PROVE plan[p].start <= clock'
            OBVIOUS
        <3>1. plan[p] \in Windows /\ plan[p].start <= clock
            BY <1>0 DEF SealTypeInv, Planning
        <3>2. plan[p].start \in 0..NotOpen
            BY <3>1 DEF Windows
        <3> QED BY <1>0, <2>1, <3>1, <3>2
    <2>7. SealTypeInv'
        BY <1>0, <2>1, <2>2, <2>3, <2>4, <2>5, <2>6 DEF SealTypeInv, Planning
    <2>8. clock <= clock' /\ RowsAdded
        BY <1>0, <2>1 DEF RowsAdded
    <2>9. \A p \in Sealers : Planning(p)' => SameWindow(p)
        BY <2>1 DEF Planning, SameWindow
    <2> QED BY <1>0, <2>1, <2>7, <2>8, <2>9, HistoryKept
<1>2. ASSUME NEW w \in Writers, BeginWrite(w) PROVE SealInv'
    <2>1. open' = [open EXCEPT ![w] = clock] /\ UNCHANGED <<clock, trail, seals, spc, plan>>
        BY <1>2 DEF BeginWrite
    <2>2. clock \in 0..NotOpen
        BY <1>0, SealAssumption DEF NotOpen
    <2>3. SealTypeInv'
        BY <1>0, <2>1, <2>2, SealAssumption DEF SealTypeInv, Planning
    <2>4. clock <= clock' /\ RowsAdded
        BY <1>0, <2>1 DEF RowsAdded
    <2>5. \A p \in Sealers : Planning(p)' => SameWindow(p)
        BY <2>1 DEF Planning, SameWindow
    <2> QED BY <1>0, <2>1, <2>3, <2>4, <2>5, HistoryKept
<1>3. ASSUME NEW w \in Writers, CommitWrite(w) PROVE SealInv'
    <2> DEFINE row == [at |-> open[w], by |-> w]
    <2>1. /\ open[w] # NotOpen /\ trail' = trail \cup {row} /\ open' = [open EXCEPT ![w] = NotOpen]
          /\ UNCHANGED <<clock, seals, spc, plan>>
        BY <1>3 DEF CommitWrite
    <2>2. open[w] \in 0..MaxClock /\ open[w] <= clock /\ clock <= open[w] + OpenFor
        BY <1>0, <2>1, SealAssumption DEF SealTypeInv, NotOpen
    <2>3. row \in AuditRows /\ row.at = open[w]
        BY <2>2 DEF AuditRows
    <2> HIDE DEF row
    <2>4. IsFiniteSet(trail')
        BY <1>0, <2>1, FS_AddElement DEF SealTypeInv
    <2>5. SealTypeInv'
        <3>1. NotOpen \in 0..NotOpen
            BY SealAssumption DEF NotOpen
        <3>2. \A r \in trail' : r.at <= clock
            BY <1>0, <2>1, <2>2, <2>3 DEF SealTypeInv
        <3> QED BY <1>0, <2>1, <2>3, <2>4, <3>1, <3>2 DEF SealTypeInv, Planning
    <2>6. clock <= clock' /\ RowsAdded
        BY <1>0, <2>1, <2>2, <2>3 DEF RowsAdded
    <2>7. \A p \in Sealers : Planning(p)' => SameWindow(p)
        BY <2>1 DEF Planning, SameWindow
    <2> QED BY <1>0, <2>1, <2>5, <2>6, <2>7, HistoryKept
<1> QED BY <1>1, <1>2, <1>3

(* A pass that ends without a seal, and one that opens its transaction.       *)
LEMMA PassLeaves ==
    ASSUME SealInv, NEW p \in Sealers, NEW s \in {"idle", "again"},
           spc' = [spc EXCEPT ![p] = s], plan' = [plan EXCEPT ![p] = NoPlan],
           UNCHANGED <<clock, open, trail, seals>>
    PROVE  SealInv'
<1>0. SealTypeInv /\ clock \in Nat /\ clock <= clock' /\ RowsAdded
    BY SealAssumption DEF SealInv, SealTypeInv, RowsAdded
<1>1. \A o \in Sealers : o # p => spc'[o] = spc[o] /\ plan'[o] = plan[o]
    BY <1>0 DEF SealTypeInv
<1>2. spc'[p] = s
    BY <1>0 DEF SealTypeInv
<1>3. \A o \in Sealers : Planning(o)' => o # p /\ Planning(o) /\ plan'[o] = plan[o]
    BY <1>1, <1>2 DEF Planning
<1>4. SealTypeInv'
    BY <1>0, <1>1, <1>2, <1>3 DEF SealTypeInv
<1>5. \A o \in Sealers : Planning(o)' => SameWindow(o)
    BY <1>3 DEF SameWindow
<1> QED BY <1>0, <1>4, <1>5, HistoryKept

LEMMA ChainingBegins ==
    ASSUME SealInv, NEW p \in Sealers, BeginChaining(p) PROVE SealInv'
<1>0. SealTypeInv /\ clock \in Nat /\ clock <= MaxClock
    BY SealAssumption DEF SealInv, SealTypeInv
<1>1. /\ spc[p] = "signing" /\ spc' = [spc EXCEPT ![p] = "chaining"]
      /\ plan' = [plan EXCEPT ![p] = [plan[p] EXCEPT !.start = clock]]
      /\ UNCHANGED <<clock, open, trail, seals>>
    BY DEF BeginChaining
<1>2. /\ spc'[p] = "chaining" /\ plan'[p] = [plan[p] EXCEPT !.start = clock]
      /\ \A o \in Sealers : o # p => spc'[o] = spc[o] /\ plan'[o] = plan[o]
    BY <1>0, <1>1 DEF SealTypeInv
<1>3. plan[p] \in Windows /\ clock \in 0..NotOpen
    BY <1>0, <1>1, SealAssumption DEF SealTypeInv, Planning, NotOpen
<1>4. plan'[p] \in Windows /\ plan'[p].start = clock
    BY <1>2, <1>3 DEF Windows
<1>5. SealTypeInv'
    <2>1. clock <= clock + OpenFor
        BY <1>0, SealAssumption
    <2> QED BY <1>0, <1>1, <1>2, <1>4, <2>1 DEF SealTypeInv, Planning
<1>6. /\ plan'[p].from = plan[p].from /\ plan'[p].to = plan[p].to
      /\ plan'[p].rows = plan[p].rows /\ plan'[p].previous = plan[p].previous
    BY <1>2, <1>3 DEF Windows
<1>7. \A o \in Sealers : Planning(o)' => SameWindow(o)
    BY <1>1, <1>2, <1>6 DEF Planning, SameWindow
<1>8. clock <= clock' /\ RowsAdded
    BY <1>0, <1>1 DEF RowsAdded
<1> QED BY <1>1, <1>5, <1>7, <1>8, HistoryKept

(* A window is planned.                                                      *)
LEMMA PlanMade ==
    ASSUME SealInv, NEW p \in Sealers, trail # {}, From < Cutoff,
           NEW to \in Nat, From <= to, to <= Cutoff,
           plan' = [plan EXCEPT ![p] = Window(to)], spc' = [spc EXCEPT ![p] = "signing"],
           UNCHANGED <<clock, open, trail, seals>>
    PROVE  SealInv'
<1>0. SealTypeInv /\ SealsInv /\ PlansInv
    BY DEF SealInv
<1>1. PICK window : window = Window(to)
    OBVIOUS
<1>2. window \in Windows /\ Closed(window) /\ window.previous = Len(seals) /\ window.from = From
    BY <1>0, <1>1, WindowClosed
<1>3. /\ spc'[p] = "signing" /\ plan'[p] = window
      /\ \A o \in Sealers : o # p => spc'[o] = spc[o] /\ plan'[o] = plan[o]
    BY <1>0, <1>1 DEF SealTypeInv
<1>4. SealTypeInv'
    BY <1>0, <1>2, <1>3 DEF SealTypeInv, Planning
<1>5. \A x : Closed(x) <=> Closed(x)'
    BY DEF Closed
<1>6. SealsInv'
    BY <1>0, <1>5 DEF SealsInv, Closed
<1>7. PlansInv'
    <2> SUFFICES ASSUME NEW o \in Sealers, Planning(o)'
                 PROVE  /\ Closed(plan[o])'
                        /\ plan'[o].previous <= Len(seals)
                        /\ plan'[o].previous = Len(seals) /\ Len(seals) > 0 =>
                               plan'[o].from = seals[Len(seals)].to
                        /\ plan'[o].previous = 0 => \A r \in trail : plan'[o].from <= r.at
        BY DEF PlansInv
    <2>1. CASE o = p
        <3>1. Closed(plan[o])'
            BY <1>2, <1>3, <2>1 DEF Closed
        <3>2. Len(seals) \in Nat
            BY <1>0 DEF SealTypeInv
        <3> QED BY <1>0, <1>2, <1>3, <2>1, <3>1, <3>2, FromTyped
    <2>2. CASE o # p
        <3>1. Planning(o) /\ plan'[o] = plan[o]
            BY <1>3, <2>2 DEF Planning
        <3> QED BY <1>0, <3>1 DEF PlansInv, Closed
    <2> QED BY <2>1, <2>2
<1> QED BY <1>4, <1>6, <1>7 DEF SealInv

(* A seal is appended.                                                       *)
LEMMA SealAppended ==
    ASSUME SealInv, NEW p \in Sealers, spc[p] = "chaining", StillLast(p), AppendSeal(p),
           NEW s \in {"idle", "again"},
           spc' = [spc EXCEPT ![p] = s], plan' = [plan EXCEPT ![p] = NoPlan],
           UNCHANGED <<clock, open>>,
           trail' = trail \/ trail' = trail \cup {[at |-> plan[p].start, by |-> Len(seals) + 1]}
    PROVE  SealInv'
<1>0. /\ SealTypeInv /\ SealsInv /\ PlansInv /\ Len(seals) \in Nat
      /\ clock \in Nat /\ clock <= MaxClock /\ clock' = clock
    BY SealAssumption DEF SealInv, SealTypeInv
<1>1. PICK window : window = plan[p]
    OBVIOUS
<1>2. /\ window \in Windows /\ Closed(window) /\ window.previous = Len(seals)
      /\ window.start <= clock /\ clock <= window.start + OpenFor
      /\ Len(seals) > 0 => window.from = seals[Len(seals)].to
      /\ Len(seals) = 0 => \A r \in trail : window.from <= r.at
    BY <1>0, <1>1 DEF SealTypeInv, PlansInv, Planning, StillLast
<1>3. /\ window.from \in Nat /\ window.to \in Nat /\ window.rows \in SUBSET AuditRows
      /\ window.start \in Nat /\ window.from <= window.to
    BY <1>2 DEF Windows, Closed
<1> DEFINE new == [from |-> window.from, to |-> window.to, rows |-> window.rows,
                   previous |-> window.previous, created |-> window.start]
<1>n. PICK n \in Nat : n = Len(seals)
    BY <1>0
<1> USE <1>n
<1>4. /\ new \in SealRecords /\ new.from = window.from /\ new.to = window.to
      /\ new.rows = window.rows
    BY <1>0, <1>2, <1>3 DEF SealRecords
<1>5. seals' = Append(seals, new)
    BY <1>1 DEF AppendSeal
<1> HIDE DEF new
<1>6. /\ seals' \in Seq(SealRecords) /\ Len(seals') = n + 1 /\ seals'[n + 1] = new
      /\ \A i \in 1..n : seals'[i] = seals[i]
    BY <1>4, <1>5 DEF SealTypeInv, SealInv
<1> DEFINE row == [at |-> window.start, by |-> n + 1]
<1>7. row \in AuditRows /\ row.at = window.start
    <2>1. window.start \in 0..MaxClock
        BY <1>0, <1>2, <1>3, SealAssumption
    <2>2. n + 1 \in Writers \cup Nat
        OBVIOUS
    <2> QED BY <2>1, <2>2 DEF AuditRows
<1>8. trail' = trail \/ trail' = trail \cup {row}
    BY <1>1
<1> HIDE DEF row
<1>9. RowsAdded
    BY <1>2, <1>3, <1>7, <1>8 DEF RowsAdded
<1>10. /\ spc'[p] = s /\ \A o \in Sealers : o # p => spc'[o] = spc[o] /\ plan'[o] = plan[o]
    BY <1>0 DEF SealTypeInv
<1>11. \A o \in Sealers : Planning(o)' => o # p /\ Planning(o) /\ plan'[o] = plan[o]
    BY <1>10 DEF Planning
<1>12. SealTypeInv'
    <2>1. IsFiniteSet(trail') /\ trail' \in SUBSET AuditRows
        BY <1>0, <1>7, <1>8, FS_AddElement DEF SealTypeInv
    <2>2. \A r \in trail' : r.at <= clock
        BY <1>0, <1>2, <1>7, <1>8 DEF SealTypeInv
    <2>3. \A o \in Sealers : spc'[o] = "chaining" => spc[o] = "chaining" /\ plan'[o] = plan[o]
        BY <1>10
    <2>4. /\ spc' \in [Sealers -> {"idle", "again", "signing", "chaining"}]
          /\ plan' = [o \in Sealers |-> plan'[o]]
        BY <1>0 DEF SealTypeInv
    <2>5. \A o \in Sealers : Planning(o)' => plan'[o] \in Windows
        BY <1>0, <1>11 DEF SealTypeInv
    <2> QED BY <1>0, <1>6, <2>1, <2>2, <2>3, <2>4, <2>5 DEF SealTypeInv
<1>13. ASSUME NEW x, x.to \in Nat, Closed(x) PROVE Closed(x)'
    BY <1>0, <1>9, <1>13, ClosedKept
<1>14. \A i \in 1..n : Closed(seals[i]) /\ seals[i].to \in Nat /\ seals[i].from \in Nat
    BY <1>0, SealTyped DEF SealsInv
<1>15. ASSUME NEW i \in 1..(n + 1) PROVE Closed(seals[i])'
    <2>1. CASE i \in 1..n
        <3>1. PICK x : x = seals[i]
            OBVIOUS
        <3>2. Closed(x)'
            BY <1>13, <1>14, <2>1, <3>1
        <3> QED BY <1>6, <2>1, <3>1, <3>2 DEF Closed
    <2>2. CASE i = n + 1
        <3>1. Closed(window)'
            BY <1>2, <1>3, <1>13
        <3> QED BY <1>4, <1>6, <2>2, <3>1 DEF Closed
    <2> QED BY <1>0, <2>1, <2>2
<1>16. \A r \in trail' : r \notin trail => ~(r.at < window.to)
    <2> SUFFICES ASSUME NEW r \in trail', r \notin trail PROVE ~(r.at < window.to)
        OBVIOUS
    <2>1. r.at \in Nat /\ clock <= r.at + OpenFor
        BY <1>9 DEF RowsAdded
    <2>2. window.to <= r.at
        BY <1>0, <1>2, <1>3, <2>1, RowIsLater
    <2> QED BY <1>3, <2>1, <2>2
<1>17. ASSUME NEW i \in 1..(n + 1), NEW j \in 1..(n + 1), i < j PROVE seals'[i].to <= seals'[j].from
    <2>1. CASE j \in 1..n
        <3>1. i \in 1..n
            BY <1>0, <1>17, <2>1
        <3> QED BY <1>0, <1>6, <1>17, <2>1, <3>1 DEF SealsInv
    <2>2. CASE j = n + 1
        <3>1. i \in 1..n /\ n \in 1..n /\ n > 0
            BY <1>0, <1>17, <2>2
        <3>2. seals'[j].from = seals[n].to /\ seals'[i].to = seals[i].to
            BY <1>2, <1>4, <1>6, <2>2, <3>1
        <3>3. seals[i].to \in Nat /\ seals[n].to \in Nat /\ seals[n].from \in Nat /\ seals[n].from <= seals[n].to
            BY <1>14, <3>1 DEF Closed
        <3>4. CASE i = n
            BY <3>2, <3>3, <3>4
        <3>5. CASE i # n
            <4>1. seals[i].to <= seals[n].from
                BY <1>0, <3>1, <3>5 DEF SealsInv
            <4> QED BY <3>2, <3>3, <4>1
        <3> QED BY <3>4, <3>5
    <2> QED BY <1>0, <2>1, <2>2
<1>18. ASSUME NEW i \in 1..n PROVE seals'[i + 1].from = seals'[i].to
    <2>1. CASE i = n
        BY <1>0, <1>2, <1>4, <1>6, <2>1
    <2>2. CASE i # n
        <3>1. i \in 1..(n - 1) /\ i + 1 \in 1..n
            BY <1>0, <2>2
        <3> QED BY <1>0, <1>6, <3>1 DEF SealsInv
    <2> QED BY <2>1, <2>2
<1>19. ASSUME NEW r \in trail', r.at < window.to PROVE \E i \in 1..(n + 1) : r \in seals'[i].rows
    <2>1. r \in trail
        BY <1>16, <1>19
    <2>2. r.at \in Nat
        BY <1>0, <2>1, RowOfTrail
    <2>3. CASE n > 0 /\ r.at < seals[n].to
        <3>1. PICK i \in 1..n : r \in seals[i].rows
            BY <1>0, <2>1, <2>3 DEF SealsInv
        <3> QED BY <1>0, <1>6, <3>1
    <2>4. CASE ~(n > 0 /\ r.at < seals[n].to)
        <3>1. window.from <= r.at
            <4>1. CASE n = 0
                BY <1>2, <2>1, <4>1
            <4>2. CASE n > 0
                <5>1. n \in 1..n
                    BY <1>0, <4>2
                <5>2. seals[n].to \in Nat
                    BY <1>14, <5>1
                <5> QED BY <1>2, <2>2, <2>4, <4>2, <5>2
            <4> QED BY <1>0, <4>1, <4>2
        <3>2. r \in window.rows
            BY <1>2, <1>19, <2>1, <3>1 DEF Closed
        <3>3. n + 1 \in 1..(n + 1)
            BY <1>0
        <3> QED BY <1>4, <1>6, <3>2, <3>3
    <2> QED BY <2>3, <2>4
<1>20. SealsInv'
    <2>1. (n + 1) - 1 = n
        BY <1>0
    <2> QED BY <1>4, <1>6, <1>15, <1>17, <1>18, <1>19, <2>1 DEF SealsInv
<1>21. PlansInv'
    <2> SUFFICES ASSUME NEW o \in Sealers, Planning(o)'
                 PROVE  /\ Closed(plan[o])'
                        /\ plan'[o].previous <= Len(seals')
                        /\ plan'[o].previous = Len(seals') /\ Len(seals') > 0 =>
                               plan'[o].from = seals'[Len(seals')].to
                        /\ plan'[o].previous = 0 => \A r \in trail' : plan'[o].from <= r.at
        BY DEF PlansInv
    <2>1. PICK x : x = plan[o]
        OBVIOUS
    <2>2. plan'[o] = x /\ Planning(o)
        BY <1>11, <2>1
    <2>3. x \in Windows /\ Closed(x) /\ x.previous <= n /\ (x.previous = 0 => \A r \in trail : x.from <= r.at)
        BY <1>0, <2>1, <2>2 DEF SealTypeInv, PlansInv
    <2>4. x.from \in Nat /\ x.to \in Nat /\ x.previous \in Nat /\ x.from <= x.to
        BY <2>3 DEF Windows, Closed
    <2>5. Closed(x)'
        BY <1>13, <2>3, <2>4
    <2>6. Closed(plan[o])'
        BY <2>2, <2>5 DEF Closed
    <2>7. x.previous <= Len(seals') /\ x.previous # Len(seals')
        BY <1>0, <1>6, <2>3, <2>4
    <2>8. ASSUME x.previous = 0, NEW r \in trail' PROVE x.from <= r.at
        <3>1. CASE r \in trail
            BY <2>3, <2>8, <3>1
        <3>2. CASE r \notin trail
            <4>1. r.at \in Nat /\ clock <= r.at + OpenFor
                BY <1>9, <3>2 DEF RowsAdded
            <4>2. x.to <= r.at
                BY <1>0, <2>3, <2>4, <4>1, RowIsLater
            <4> QED BY <2>4, <4>1, <4>2
        <3> QED BY <3>1, <3>2
    <2> QED BY <2>2, <2>6, <2>7, <2>8
<1> QED BY <1>12, <1>20, <1>21 DEF SealInv

(* The passes of the audit seals and of the security seals.                  *)
LEMMA PassesKeep ==
    ASSUME SealInv, NEW p \in Sealers, GiveUp(p) \/ BeginChaining(p) \/ Stale(p) \/ PassIsOver(p)
    PROVE  SealInv'
<1>1. CASE GiveUp(p) \/ Stale(p) \/ PassIsOver(p)
    BY <1>1, PassLeaves DEF GiveUp, Stale, PassIsOver, PassEnds
<1> QED BY <1>1, ChainingBegins

LEMMA AuditSealStep == SealInv /\ [SealNext]_sealVars => SealInv'
<1> SUFFICES ASSUME SealInv, [SealNext]_sealVars PROVE SealInv'
    OBVIOUS
<1>1. CASE UNCHANGED sealVars
    BY <1>1 DEF sealVars, SealInv, SealTypeInv, SealsInv, PlansInv, Closed, Planning
<1>2. ASSUME NEW p \in Sealers, PlanSeal(p) PROVE SealInv'
    <2>1. /\ trail # {} /\ From < Cutoff /\ plan' = [plan EXCEPT ![p] = Window(EndOf(Unsealed))]
          /\ spc' = [spc EXCEPT ![p] = "signing"] /\ UNCHANGED <<clock, open, trail, seals>>
        BY <1>2 DEF PlanSeal
    <2>2. EndOf(Unsealed) \in Nat /\ From <= EndOf(Unsealed) /\ EndOf(Unsealed) <= Cutoff
        BY <2>1, WindowEnds DEF SealInv
    <2> QED BY <2>1, <2>2, PlanMade
<1>3. ASSUME NEW p \in Sealers, ChainSeal(p) PROVE SealInv'
    BY <1>3, SealAppended DEF ChainSeal, PassEnds
<1> QED BY <1>1, <1>2, <1>3, WritersKeep, PassesKeep DEF SealNext

LEMMA SecuritySealStep == SealInv /\ [SecuritySealNext]_sealVars => SealInv'
<1> SUFFICES ASSUME SealInv, [SecuritySealNext]_sealVars PROVE SealInv'
    OBVIOUS
<1>1. CASE UNCHANGED sealVars
    BY <1>1 DEF sealVars, SealInv, SealTypeInv, SealsInv, PlansInv, Closed, Planning
<1>2. ASSUME NEW p \in Sealers, PlanSecuritySeal(p) PROVE SealInv'
    <2>1. /\ trail # {} /\ From < Cutoff /\ spc' = [spc EXCEPT ![p] = "signing"]
          /\ UNCHANGED <<clock, open, trail, seals>>
        BY <1>2 DEF PlanSecuritySeal
    <2>2. PICK to \in SecurityEnds : plan' = [plan EXCEPT ![p] = Window(to)]
        BY <1>2 DEF PlanSecuritySeal
    <2>3. to \in Nat /\ From <= to /\ to <= Cutoff
        BY <2>1, InstantEnds DEF SealInv
    <2> QED BY <2>1, <2>2, <2>3, PlanMade
<1>3. ASSUME NEW p \in Sealers, ChainSecuritySeal(p) PROVE SealInv'
    <2>1. PICK s \in {"idle", "again"} : spc' = [spc EXCEPT ![p] = s]
        BY <1>3 DEF ChainSecuritySeal
    <2> QED BY <1>3, <2>1, SealAppended DEF ChainSecuritySeal
<1> QED BY <1>1, <1>2, <1>3, WritersKeep, PassesKeep DEF SecuritySealNext

LEMMA SealedOnce == SealInv => RowsSealedOnce
<1> SUFFICES ASSUME SealInv PROVE RowsSealedOnce
    OBVIOUS
<1>0. SealTypeInv /\ SealsInv /\ Len(seals) \in Nat /\ (seals # <<>> <=> Len(seals) > 0)
    BY DEF SealInv, SealTypeInv
<1>1. ASSUME NEW r \in trail, seals # <<>>, r.at < seals[Len(seals)].to
      PROVE  Cardinality({i \in 1..Len(seals) : r \in seals[i].rows}) = 1
    <2>1. PICK i \in 1..Len(seals) : r \in seals[i].rows
        BY <1>0, <1>1 DEF SealsInv
    <2>2. \A k \in 1..Len(seals) : r \in seals[k].rows =>
              /\ seals[k].from <= r.at /\ r.at < seals[k].to
              /\ seals[k].from \in Nat /\ seals[k].to \in Nat
        BY <1>0, SealTyped DEF SealsInv, Closed
    <2>3. ASSUME NEW j \in 1..Len(seals), NEW k \in 1..Len(seals), j < k,
                 r \in seals[j].rows, r \in seals[k].rows
          PROVE  FALSE
        <3>1. seals[j].to <= seals[k].from
            BY <1>0, <2>3 DEF SealsInv
        <3>2. r.at \in Nat
            BY <1>0, RowOfTrail
        <3> QED BY <2>2, <2>3, <3>1, <3>2
    <2>4. \A j \in 1..Len(seals) : r \in seals[j].rows => j = i
        BY <2>1, <2>3
    <2>5. {j \in 1..Len(seals) : r \in seals[j].rows} = {i}
        BY <2>1, <2>4
    <2> QED BY <2>5, FS_Singleton
<1> QED BY <1>0, <1>1 DEF RowsSealedOnce, SealsInv

(* Every audit row older than the end of the last seal is in exactly one seal *)
(* and the windows follow each other, however late transactions commit and    *)
(* passes overlap: for any cadence, row cap and number of writers, as long as *)
(* no transaction stays open longer than the settle margin (RowsSealedOnce).  *)
THEOREM AuditRowsSealedOnce == SealSpec => []RowsSealedOnce
BY SealInvInit, AuditSealStep, SealedOnce, PTL DEF SealSpec

(* The same of the security findings, whose passes may be urged, go on after a *)
(* cut window and seal an instant of too many rows alone (RowsSealedOnce).     *)
THEOREM SecurityRowsSealedOnce == SealInit /\ [][SecuritySealNext]_sealVars => []RowsSealedOnce
BY SealInvInit, SecuritySealStep, SealedOnce, PTL
=============================================================================
