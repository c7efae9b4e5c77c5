--------------------------- MODULE MerkleTheorems ---------------------------
(***************************************************************************)
(* The theorem about MerkleProofs, for trees of every size and whatever     *)
(* paths are claimed in them.                                               *)
(***************************************************************************)
EXTENDS MerkleProofs, WellFoundedInduction, TLAPS

(* Course-of-values induction: a set with n whenever it has all below n.     *)
LEMMA Induction ==
    ASSUME NEW T, \A n \in Nat : (\A i \in Nat : i < n => i \in T) => n \in T
    PROVE  \A n \in Nat : n \in T
<1> DEFINE R == OpToRel(<, Nat)
           Rest == Nat \ T
<1>1. IsWellFoundedOn(R, Nat)
    BY NatLessThanWellFounded
<1>2. \A m, n \in Nat : m < n => <<m, n>> \in R
    BY DEF OpToRel
<1> HIDE DEF R
<1>3. SUFFICES ASSUME Rest # {} PROVE FALSE
    OBVIOUS
<1>4. PICK m \in Rest : \A n \in Rest : ~(<<n, m>> \in R)
    BY <1>1, <1>3, WFMin, Rest \in SUBSET Nat
<1>5. \A i \in Nat : i < m => i \in T
    BY <1>2, <1>4
<1> QED BY <1>4, <1>5

(***************************************************************************)
(* The recursive functions are defined by their equations: what an equation *)
(* makes of n rests on smaller arguments alone.                             *)
(***************************************************************************)
LEMMA Pow2Def == Pow2 = [e \in Nat |-> IF e = 0 THEN 1 ELSE 2 * Pow2[e - 1]]
<1> DEFINE Value(g, e) == IF e = 0 THEN 1 ELSE 2 * g[e - 1]
           Solves(g, k) == \A n \in Nat : n <= k => g[n] = Value(g, n)
<1>1. ASSUME NEW n \in Nat, NEW g, NEW h, \A i \in Nat : i < n => g[i] = h[i]
      PROVE  Value(g, n) = Value(h, n)
    BY <1>1
<1> HIDE DEF Value
<1>2. ASSUME NEW g, NEW a \in Nat, Solves(g, a), NEW h, NEW b \in Nat, Solves(h, b)
      PROVE  \A n \in Nat : n <= a /\ n <= b => g[n] = h[n]
    <2> DEFINE T == {n \in Nat : n \in Nat /\ n <= a /\ n <= b => g[n] = h[n]}
    <2>1. ASSUME NEW n \in Nat, \A i \in Nat : i < n => i \in T PROVE n \in T
        BY <2>1, <1>1, <1>2
    <2> HIDE DEF T
    <2>2. \A n \in Nat : n \in T
        BY <2>1, Induction
    <2> QED BY <2>2 DEF T
<1> DEFINE G(i) == CHOOSE g : Solves(g, i)
           f == [n \in Nat |-> G(n)[n]]
<1>3. ASSUME NEW k \in Nat, \A i \in Nat : i < k => Solves(G(i), i)
      PROVE  \A n \in Nat : n < k => f[n] = Value(f, n)
    <2>0. \A n \in Nat : f[n] = G(n)[n]
        OBVIOUS
    <2>1. \A i, n \in Nat : i <= n /\ n < k => G(n)[i] = f[i]
        <3> HIDE DEF f, G, Solves
        <3> QED BY <1>2, <1>3, <2>0
    <2>2. \A n \in Nat : n < k => G(n)[n] = Value(G(n), n)
        BY <1>3
    <2> HIDE DEF f, G, Solves
    <2>3. \A n \in Nat : n < k => Value(G(n), n) = Value(f, n)
        BY <2>1, <1>1
    <2> QED BY <2>1, <2>2, <2>3
<1>4. \A k \in Nat : Solves(G(k), k)
    <2> DEFINE T == {k \in Nat : Solves(G(k), k)}
    <2>1. ASSUME NEW k \in Nat, \A i \in Nat : i < k => i \in T PROVE k \in T
        <3> DEFINE h == [n \in Nat |-> Value(f, n)]
        <3>1. \A n \in Nat : h[n] = Value(f, n)
            OBVIOUS
        <3> HIDE DEF f, G, Solves, h
        <3>2. \A n \in Nat : n <= k => Value(f, n) = Value(h, n)
            BY <2>1, <3>1, <1>1, <1>3
        <3>3. Solves(h, k)
            BY <3>1, <3>2 DEF Solves
        <3> QED BY <3>3 DEF G
    <2> HIDE DEF T
    <2>2. \A k \in Nat : k \in T
        BY <2>1, Induction
    <2> QED BY <2>2 DEF T
<1>5. f = [n \in Nat |-> Value(f, n)]
    <2>1. f = [n \in Nat |-> f[n]]
        OBVIOUS
    <2> HIDE DEF f, G, Solves
    <2>2. \A n \in Nat : f[n] = Value(f, n)
        <3> SUFFICES ASSUME NEW n \in Nat PROVE f[n] = Value(f, n)
            OBVIOUS
        <3>1. n + 1 \in Nat /\ n < n + 1 /\ \A i \in Nat : i \in Nat
            OBVIOUS
        <3> QED BY <3>1, <1>3, <1>4
    <2> QED BY <2>1, <2>2
<1> HIDE DEF f
<1> QED BY <1>5 DEF Pow2, Value

----------------------------------------------------------------------------
(* The powers of two.                                                        *)
Powers == {Pow2[e] : e \in Nat}

LEMMA Doubling == Pow2[0] = 1 /\ \A e \in Nat : Pow2[e + 1] = 2 * Pow2[e]
<1>1. \A e \in Nat : e + 1 \in Nat /\ e + 1 # 0 /\ (e + 1) - 1 = e
    OBVIOUS
<1> QED BY <1>1, Pow2Def

LEMMA Pow2Typed == \A e \in Nat : Pow2[e] \in Nat /\ e < Pow2[e]
<1> DEFINE T == {e \in Nat : Pow2[e] \in Nat /\ e < Pow2[e]}
<1>1. ASSUME NEW n \in Nat, \A i \in Nat : i < n => i \in T PROVE n \in T
    <2>1. CASE n = 0
        BY <2>1, Doubling
    <2>2. CASE n # 0
        <3>1. n - 1 \in T /\ Pow2[(n - 1) + 1] = 2 * Pow2[n - 1]
            BY <1>1, <2>2, Doubling
        <3> QED BY <3>1
    <2> QED BY <2>1, <2>2
<1> HIDE DEF T
<1>2. \A e \in Nat : e \in T
    BY <1>1, Induction
<1> QED BY <1>2 DEF T

LEMMA Pow2Grows == \A a, b \in Nat : a <= b => Pow2[a] <= Pow2[b]
<1> SUFFICES ASSUME NEW a \in Nat PROVE \A b \in Nat : a <= b => Pow2[a] <= Pow2[b]
    OBVIOUS
<1> DEFINE T == {b \in Nat : a <= b => Pow2[a] <= Pow2[b]}
<1>1. ASSUME NEW n \in Nat, \A i \in Nat : i < n => i \in T PROVE n \in T
    <2> SUFFICES ASSUME a <= n, a # n PROVE Pow2[a] <= Pow2[n]
        BY Pow2Typed
    <2>1. n - 1 \in T /\ Pow2[(n - 1) + 1] = 2 * Pow2[n - 1] /\ Pow2[n - 1] \in Nat
        BY <1>1, Doubling, Pow2Typed
    <2>2. Pow2[a] \in Nat /\ Pow2[a] <= Pow2[n - 1] /\ Pow2[n] = 2 * Pow2[n - 1]
        BY <2>1, Pow2Typed
    <2> QED BY <2>1, <2>2
<1> HIDE DEF T
<1>2. \A b \in Nat : b \in T
    BY <1>1, Induction
<1> QED BY <1>2 DEF T

LEMMA PowersDouble ==
    /\ 1 \in Powers
    /\ \A p \in Powers : p \in Nat \ {0} /\ 2 * p \in Powers
    /\ \A p, q \in Powers : p < q => 2 * p <= q
<1>1. 1 \in Powers
    BY Doubling DEF Powers
<1>2. ASSUME NEW p \in Powers PROVE p \in Nat \ {0} /\ 2 * p \in Powers
    <2> PICK e \in Nat : p = Pow2[e]
        BY DEF Powers
    <2> QED BY Doubling, Pow2Typed DEF Powers
<1>3. ASSUME NEW p \in Powers, NEW q \in Powers, p < q PROVE 2 * p <= q
    <2> PICK a \in Nat : p = Pow2[a]
        BY DEF Powers
    <2> PICK b \in Nat : q = Pow2[b]
        BY DEF Powers
    <2>1. ~(b <= a)
        BY <1>2, <1>3, Pow2Grows
    <2>2. Pow2[a + 1] <= Pow2[b]
        BY <2>1, Pow2Grows
    <2> QED BY <2>2, Doubling
<1> QED BY <1>1, <1>2, <1>3

(* Split is the power of two that halves n or is nearest below its half.     *)
LEMMA SplitIs ==
    ASSUME NEW n \in Nat, NEW p \in Powers, p < n, n <= 2 * p
    PROVE  Split(n) = p
<1> DEFINE S == {Pow2[e] : e \in 0..n}
<1>1. p \in S
    <2> PICK e \in Nat : p = Pow2[e]
        BY DEF Powers
    <2>1. e \in 0..n
        BY Pow2Typed
    <2> QED BY <2>1
<1>2. \A k \in S : k \in Powers
    BY DEF Powers
<1> HIDE DEF S
<1>3. ASSUME NEW k \in S, k < n, n <= 2 * k PROVE k = p
    BY <1>2, <1>3, PowersDouble
<1>4. Split(n) = CHOOSE k \in S : k < n /\ n <= 2 * k
    BY DEF Split, S
<1> QED BY <1>1, <1>3, <1>4

LEMMA SplitTyped ==
    ASSUME NEW n \in Nat, n > 1
    PROVE  Split(n) \in Powers /\ Split(n) \in Nat \ {0} /\ Split(n) < n /\ n <= 2 * Split(n)
<1> DEFINE Halves(k) == \E p \in Powers : p < k /\ k <= 2 * p
           T == {k \in Nat : k > 1 => Halves(k)}
<1>1. ASSUME NEW k \in Nat, \A i \in Nat : i < k => i \in T PROVE k \in T
    <2> SUFFICES ASSUME k > 1 PROVE Halves(k)
        OBVIOUS
    <2>1. CASE k = 2
        BY <2>1, PowersDouble
    <2>2. CASE k # 2
        <3>1. k - 1 \in T /\ k - 1 > 1
            BY <1>1, <2>2
        <3> PICK p \in Powers : p < k - 1 /\ k - 1 <= 2 * p
            BY <3>1
        <3>2. p \in Nat /\ 2 * p \in Powers
            BY PowersDouble
        <3>3. CASE k <= 2 * p
            BY <3>2, <3>3
        <3>4. CASE ~(k <= 2 * p)
            <4>1. 2 * p < k /\ k <= 2 * (2 * p)
                BY <3>2, <3>4
            <4> QED BY <3>2, <4>1
        <3> QED BY <3>3, <3>4
    <2> QED BY <2>1, <2>2
<1> HIDE DEF T
<1>2. n \in T
    BY <1>1, Induction
<1>3. PICK p \in Powers : p < n /\ n <= 2 * p
    BY <1>2 DEF T
<1>4. Split(n) = p
    BY <1>3, SplitIs
<1> QED BY <1>3, <1>4, PowersDouble

(* Roots, paths and the loop of the check.                                   *)
LEMMA MthDef == Mth = [n \in Nat \ {0} |-> [from \in Nat |->
    IF n = 1 THEN <<from>>
    ELSE <<Mth[Split(n)][from], Mth[n - Split(n)][from + Split(n)]>>]]
<1> DEFINE Value(g, n) == [from \in Nat |->
    IF n = 1 THEN <<from>>
    ELSE <<g[Split(n)][from], g[n - Split(n)][from + Split(n)]>>]
           Solves(g, k) == \A n \in Nat \ {0} : n <= k => g[n] = Value(g, n)
<1>1. ASSUME NEW n \in Nat \ {0}, NEW g, NEW h, \A i \in Nat \ {0} : i < n => g[i] = h[i]
      PROVE  Value(g, n) = Value(h, n)
    <2>1. CASE n = 1
        BY <2>1
    <2>2. CASE n # 1
        <3>1. Split(n) \in Nat \ {0} /\ n - Split(n) \in Nat \ {0}
              /\ Split(n) < n /\ n - Split(n) < n
            BY <2>2, SplitTyped
        <3>2. g[Split(n)] = h[Split(n)] /\ g[n - Split(n)] = h[n - Split(n)]
            BY <1>1, <3>1
        <3> QED BY <2>2, <3>2
    <2> QED BY <2>1, <2>2
<1> HIDE DEF Value
<1>2. ASSUME NEW g, NEW a \in Nat, Solves(g, a), NEW h, NEW b \in Nat, Solves(h, b)
      PROVE  \A n \in Nat \ {0} : n <= a /\ n <= b => g[n] = h[n]
    <2> DEFINE T == {n \in Nat : n \in Nat \ {0} /\ n <= a /\ n <= b => g[n] = h[n]}
    <2>1. ASSUME NEW n \in Nat, \A i \in Nat : i < n => i \in T PROVE n \in T
        BY <2>1, <1>1, <1>2
    <2> HIDE DEF T
    <2>2. \A n \in Nat : n \in T
        BY <2>1, Induction
    <2> QED BY <2>2 DEF T
<1> DEFINE G(i) == CHOOSE g : Solves(g, i)
           f == [n \in Nat \ {0} |-> G(n)[n]]
<1>3. ASSUME NEW k \in Nat, \A i \in Nat \ {0} : i < k => Solves(G(i), i)
      PROVE  \A n \in Nat \ {0} : n < k => f[n] = Value(f, n)
    <2>0. \A n \in Nat \ {0} : f[n] = G(n)[n]
        OBVIOUS
    <2>1. \A i, n \in Nat \ {0} : i <= n /\ n < k => G(n)[i] = f[i]
        <3> HIDE DEF f, G, Solves
        <3> QED BY <1>2, <1>3, <2>0
    <2>2. \A n \in Nat \ {0} : n < k => G(n)[n] = Value(G(n), n)
        BY <1>3
    <2> HIDE DEF f, G, Solves
    <2>3. \A n \in Nat \ {0} : n < k => Value(G(n), n) = Value(f, n)
        BY <2>1, <1>1
    <2> QED BY <2>1, <2>2, <2>3
<1>4. \A k \in Nat : Solves(G(k), k)
    <2> DEFINE T == {k \in Nat : Solves(G(k), k)}
    <2>1. ASSUME NEW k \in Nat, \A i \in Nat : i < k => i \in T PROVE k \in T
        <3> DEFINE h == [n \in Nat \ {0} |-> Value(f, n)]
        <3>1. \A n \in Nat \ {0} : h[n] = Value(f, n)
            OBVIOUS
        <3> HIDE DEF f, G, Solves, h
        <3>2. \A n \in Nat \ {0} : n <= k => Value(f, n) = Value(h, n)
            BY <2>1, <3>1, <1>1, <1>3
        <3>3. Solves(h, k)
            BY <3>1, <3>2 DEF Solves
        <3> QED BY <3>3 DEF G
    <2> HIDE DEF T
    <2>2. \A k \in Nat : k \in T
        BY <2>1, Induction
    <2> QED BY <2>2 DEF T
<1>5. f = [n \in Nat \ {0} |-> Value(f, n)]
    <2>1. f = [n \in Nat \ {0} |-> f[n]]
        OBVIOUS
    <2> HIDE DEF f, G, Solves
    <2>2. \A n \in Nat \ {0} : f[n] = Value(f, n)
        <3> SUFFICES ASSUME NEW n \in Nat \ {0} PROVE f[n] = Value(f, n)
            OBVIOUS
        <3>1. n + 1 \in Nat /\ n < n + 1 /\ \A i \in Nat \ {0} : i \in Nat
            OBVIOUS
        <3> QED BY <3>1, <1>3, <1>4
    <2> QED BY <2>1, <2>2
<1> HIDE DEF f
<1> QED BY <1>5 DEF Mth, Value

LEMMA PathForDef == PathFor = [n \in Nat \ {0} |-> [m \in Nat |-> [from \in Nat |->
    IF n = 1 THEN <<>>
    ELSE IF m < Split(n)
    THEN Append(PathFor[Split(n)][m][from], Mth[n - Split(n)][from + Split(n)])
    ELSE Append(PathFor[n - Split(n)][m - Split(n)][from + Split(n)], Mth[Split(n)][from])]]]
<1> DEFINE Value(g, n) == [m \in Nat |-> [from \in Nat |->
    IF n = 1 THEN <<>>
    ELSE IF m < Split(n)
    THEN Append(g[Split(n)][m][from], Mth[n - Split(n)][from + Split(n)])
    ELSE Append(g[n - Split(n)][m - Split(n)][from + Split(n)], Mth[Split(n)][from])]]
           Solves(g, k) == \A n \in Nat \ {0} : n <= k => g[n] = Value(g, n)
<1>1. ASSUME NEW n \in Nat \ {0}, NEW g, NEW h, \A i \in Nat \ {0} : i < n => g[i] = h[i]
      PROVE  Value(g, n) = Value(h, n)
    <2>1. CASE n = 1
        BY <2>1
    <2>2. CASE n # 1
        <3>1. Split(n) \in Nat \ {0} /\ n - Split(n) \in Nat \ {0}
              /\ Split(n) < n /\ n - Split(n) < n
            BY <2>2, SplitTyped
        <3>2. g[Split(n)] = h[Split(n)] /\ g[n - Split(n)] = h[n - Split(n)]
            BY <1>1, <3>1
        <3> QED BY <2>2, <3>2
    <2> QED BY <2>1, <2>2
<1> HIDE DEF Value
<1>2. ASSUME NEW g, NEW a \in Nat, Solves(g, a), NEW h, NEW b \in Nat, Solves(h, b)
      PROVE  \A n \in Nat \ {0} : n <= a /\ n <= b => g[n] = h[n]
    <2> DEFINE T == {n \in Nat : n \in Nat \ {0} /\ n <= a /\ n <= b => g[n] = h[n]}
    <2>1. ASSUME NEW n \in Nat, \A i \in Nat : i < n => i \in T PROVE n \in T
        BY <2>1, <1>1, <1>2
    <2> HIDE DEF T
    <2>2. \A n \in Nat : n \in T
        BY <2>1, Induction
    <2> QED BY <2>2 DEF T
<1> DEFINE G(i) == CHOOSE g : Solves(g, i)
           f == [n \in Nat \ {0} |-> G(n)[n]]
<1>3. ASSUME NEW k \in Nat, \A i \in Nat \ {0} : i < k => Solves(G(i), i)
      PROVE  \A n \in Nat \ {0} : n < k => f[n] = Value(f, n)
    <2>0. \A n \in Nat \ {0} : f[n] = G(n)[n]
        OBVIOUS
    <2>1. \A i, n \in Nat \ {0} : i <= n /\ n < k => G(n)[i] = f[i]
        <3> HIDE DEF f, G, Solves
        <3> QED BY <1>2, <1>3, <2>0
    <2>2. \A n \in Nat \ {0} : n < k => G(n)[n] = Value(G(n), n)
        BY <1>3
    <2> HIDE DEF f, G, Solves
    <2>3. \A n \in Nat \ {0} : n < k => Value(G(n), n) = Value(f, n)
        BY <2>1, <1>1
    <2> QED BY <2>1, <2>2, <2>3
<1>4. \A k \in Nat : Solves(G(k), k)
    <2> DEFINE T == {k \in Nat : Solves(G(k), k)}
    <2>1. ASSUME NEW k \in Nat, \A i \in Nat : i < k => i \in T PROVE k \in T
        <3> DEFINE h == [n \in Nat \ {0} |-> Value(f, n)]
        <3>1. \A n \in Nat \ {0} : h[n] = Value(f, n)
            OBVIOUS
        <3> HIDE DEF f, G, Solves, h
        <3>2. \A n \in Nat \ {0} : n <= k => Value(f, n) = Value(h, n)
            BY <2>1, <3>1, <1>1, <1>3
        <3>3. Solves(h, k)
            BY <3>1, <3>2 DEF Solves
        <3> QED BY <3>3 DEF G
    <2> HIDE DEF T
    <2>2. \A k \in Nat : k \in T
        BY <2>1, Induction
    <2> QED BY <2>2 DEF T
<1>5. f = [n \in Nat \ {0} |-> Value(f, n)]
    <2>1. f = [n \in Nat \ {0} |-> f[n]]
        OBVIOUS
    <2> HIDE DEF f, G, Solves
    <2>2. \A n \in Nat \ {0} : f[n] = Value(f, n)
        <3> SUFFICES ASSUME NEW n \in Nat \ {0} PROVE f[n] = Value(f, n)
            OBVIOUS
        <3>1. n + 1 \in Nat /\ n < n + 1 /\ \A i \in Nat \ {0} : i \in Nat
            OBVIOUS
        <3> QED BY <3>1, <1>3, <1>4
    <2> QED BY <2>1, <2>2
<1> HIDE DEF f
<1> QED BY <1>5 DEF PathFor, Value

LEMMA LiftDef == Lift = [f \in Nat |-> [s \in Nat |->
    IF f # 0 /\ f % 2 = 0 THEN Lift[f \div 2][s \div 2] ELSE [fn |-> f, sn |-> s]]]
<1> DEFINE Value(g, f) == [s \in Nat |->
    IF f # 0 /\ f % 2 = 0 THEN g[f \div 2][s \div 2] ELSE [fn |-> f, sn |-> s]]
           Solves(g, k) == \A n \in Nat : n <= k => g[n] = Value(g, n)
<1>1. ASSUME NEW n \in Nat, NEW g, NEW h, \A i \in Nat : i < n => g[i] = h[i]
      PROVE  Value(g, n) = Value(h, n)
    <2>1. CASE n # 0 /\ n % 2 = 0
        <3>1. n \div 2 \in Nat /\ n \div 2 < n
            BY <2>1
        <3>2. g[n \div 2] = h[n \div 2]
            BY <1>1, <3>1
        <3> QED BY <3>2
    <2>2. CASE ~(n # 0 /\ n % 2 = 0)
        BY <2>2
    <2> QED BY <2>1, <2>2
<1> HIDE DEF Value
<1>2. ASSUME NEW g, NEW a \in Nat, Solves(g, a), NEW h, NEW b \in Nat, Solves(h, b)
      PROVE  \A n \in Nat : n <= a /\ n <= b => g[n] = h[n]
    <2> DEFINE T == {n \in Nat : n \in Nat /\ n <= a /\ n <= b => g[n] = h[n]}
    <2>1. ASSUME NEW n \in Nat, \A i \in Nat : i < n => i \in T PROVE n \in T
        BY <2>1, <1>1, <1>2
    <2> HIDE DEF T
    <2>2. \A n \in Nat : n \in T
        BY <2>1, Induction
    <2> QED BY <2>2 DEF T
<1> DEFINE G(i) == CHOOSE g : Solves(g, i)
           lift == [n \in Nat |-> G(n)[n]]
<1>3. ASSUME NEW k \in Nat, \A i \in Nat : i < k => Solves(G(i), i)
      PROVE  \A n \in Nat : n < k => lift[n] = Value(lift, n)
    <2>0. \A n \in Nat : lift[n] = G(n)[n]
        OBVIOUS
    <2>1. \A i, n \in Nat : i <= n /\ n < k => G(n)[i] = lift[i]
        <3> HIDE DEF lift, G, Solves
        <3> QED BY <1>2, <1>3, <2>0
    <2>2. \A n \in Nat : n < k => G(n)[n] = Value(G(n), n)
        BY <1>3
    <2> HIDE DEF lift, G, Solves
    <2>3. \A n \in Nat : n < k => Value(G(n), n) = Value(lift, n)
        BY <2>1, <1>1
    <2> QED BY <2>1, <2>2, <2>3
<1>4. \A k \in Nat : Solves(G(k), k)
    <2> DEFINE T == {k \in Nat : Solves(G(k), k)}
    <2>1. ASSUME NEW k \in Nat, \A i \in Nat : i < k => i \in T PROVE k \in T
        <3> DEFINE h == [n \in Nat |-> Value(lift, n)]
        <3>1. \A n \in Nat : h[n] = Value(lift, n)
            OBVIOUS
        <3> HIDE DEF lift, G, Solves, h
        <3>2. \A n \in Nat : n <= k => Value(lift, n) = Value(h, n)
            BY <2>1, <3>1, <1>1, <1>3
        <3>3. Solves(h, k)
            BY <3>1, <3>2 DEF Solves
        <3> QED BY <3>3 DEF G
    <2> HIDE DEF T
    <2>2. \A k \in Nat : k \in T
        BY <2>1, Induction
    <2> QED BY <2>2 DEF T
<1>5. lift = [n \in Nat |-> Value(lift, n)]
    <2>1. lift = [n \in Nat |-> lift[n]]
        OBVIOUS
    <2> HIDE DEF lift, G, Solves
    <2>2. \A n \in Nat : lift[n] = Value(lift, n)
        <3> SUFFICES ASSUME NEW n \in Nat PROVE lift[n] = Value(lift, n)
            OBVIOUS
        <3>1. n + 1 \in Nat /\ n < n + 1 /\ \A i \in Nat : i \in Nat
            OBVIOUS
        <3> QED BY <3>1, <1>3, <1>4
    <2> QED BY <2>1, <2>2
<1> HIDE DEF lift
<1> QED BY <1>5 DEF Lift, Value

----------------------------------------------------------------------------
(* A tree of p + q leaves, with p a power of two and q at most p, is split    *)
(* after p.                                                                  *)
LEMMA MthHalves ==
    ASSUME NEW p \in Powers, NEW q \in 1..p, NEW from \in Nat
    PROVE  Mth[p + q][from] = <<Mth[p][from], Mth[q][from + p]>>
<1> DEFINE n == p + q
<1>0. p \in Nat \ {0}
    BY PowersDouble
<1>1. p \in Nat \ {0} /\ n \in Nat \ {0} /\ n # 1 /\ n - p = q
    BY <1>0
<1>2. Split(n) = p
    BY <1>1, SplitIs
<1> HIDE DEF n
<1>3. Mth[n] = [i \in Nat |-> IF n = 1 THEN <<i>>
                    ELSE <<Mth[Split(n)][i], Mth[n - Split(n)][i + Split(n)]>>]
    BY <1>1, MthDef
<1>4. Mth[n][from] = <<Mth[p][from], Mth[q][from + p]>>
    BY <1>1, <1>2, <1>3
<1> QED BY <1>4 DEF n

LEMMA MthLeaf == \A from \in Nat : Mth[1][from] = <<from>>
<1>1. Mth[1] = [i \in Nat |-> IF 1 = 1 THEN <<i>>
                    ELSE <<Mth[Split(1)][i], Mth[1 - Split(1)][i + Split(1)]>>]
    BY MthDef
<1> QED BY <1>1

LEMMA PathLeft ==
    ASSUME NEW p \in Powers, NEW q \in 1..p, NEW m \in Nat, NEW from \in Nat, m < p
    PROVE  PathFor[p + q][m][from] = Append(PathFor[p][m][from], Mth[q][from + p])
<1> DEFINE n == p + q
<1>0. p \in Nat \ {0}
    BY PowersDouble
<1>1. p \in Nat \ {0} /\ n \in Nat \ {0} /\ n # 1 /\ n - p = q
    BY <1>0
<1>2. Split(n) = p
    BY <1>1, SplitIs
<1> HIDE DEF n
<1> DEFINE Value(k, i) ==
        IF n = 1 THEN <<>>
        ELSE IF k < Split(n)
        THEN Append(PathFor[Split(n)][k][i], Mth[n - Split(n)][i + Split(n)])
        ELSE Append(PathFor[n - Split(n)][k - Split(n)][i + Split(n)], Mth[Split(n)][i])
<1>3. PathFor[n] = [k \in Nat |-> [i \in Nat |-> Value(k, i)]]
    BY <1>1, PathForDef
<1>4. PathFor[n][m][from] = Value(m, from)
    <2> HIDE DEF Value
    <2> QED BY <1>3
<1> HIDE DEF Value
<1>5. PathFor[n][m][from] = Append(PathFor[p][m][from], Mth[q][from + p])
    <2>1. Value(m, from) = Append(PathFor[p][m][from], Mth[q][from + p])
        BY <1>1, <1>2 DEF Value
    <2> QED BY <1>4, <2>1
<1> QED BY <1>5 DEF n

LEMMA PathRight ==
    ASSUME NEW p \in Powers, NEW q \in 1..p, NEW m \in Nat, NEW from \in Nat, p <= m
    PROVE  PathFor[p + q][m][from] = Append(PathFor[q][m - p][from + p], Mth[p][from])
<1> DEFINE n == p + q
<1>0. p \in Nat \ {0}
    BY PowersDouble
<1>1. p \in Nat \ {0} /\ n \in Nat \ {0} /\ n # 1 /\ n - p = q
    BY <1>0
<1>2. Split(n) = p
    BY <1>1, SplitIs
<1> HIDE DEF n
<1> DEFINE Value(k, i) ==
        IF n = 1 THEN <<>>
        ELSE IF k < Split(n)
        THEN Append(PathFor[Split(n)][k][i], Mth[n - Split(n)][i + Split(n)])
        ELSE Append(PathFor[n - Split(n)][k - Split(n)][i + Split(n)], Mth[Split(n)][i])
<1>3. PathFor[n] = [k \in Nat |-> [i \in Nat |-> Value(k, i)]]
    BY <1>1, PathForDef
<1>4. PathFor[n][m][from] = Value(m, from)
    <2> HIDE DEF Value
    <2> QED BY <1>3
<1> HIDE DEF Value
<1>6. PathFor[n][m][from] = Append(PathFor[q][m - p][from + p], Mth[p][from])
    <2>1. n # 1 /\ ~(m < p)
        BY <1>1
    <2>2. Value(m, from) = Append(PathFor[n - p][m - p][from + p], Mth[p][from])
        BY ONLY <1>2, <2>1 DEF Value
    <2> QED BY <1>1, <1>4, <2>2
<1> QED BY <1>6 DEF n

LEMMA PathLeaf == \A m, from \in Nat : PathFor[1][m][from] = <<>>
<1> DEFINE Value(k, i) ==
        IF 1 = 1 THEN <<>>
        ELSE IF k < Split(1)
        THEN Append(PathFor[Split(1)][k][i], Mth[1 - Split(1)][i + Split(1)])
        ELSE Append(PathFor[1 - Split(1)][k - Split(1)][i + Split(1)], Mth[Split(1)][i])
<1>1. PathFor[1] = [k \in Nat |-> [i \in Nat |-> Value(k, i)]]
    BY PathForDef
<1>2. \A k, i \in Nat : Value(k, i) = <<>>
    OBVIOUS
<1> HIDE DEF Value
<1> QED BY <1>1, <1>2

(* The hashes in paths.                                                      *)
Hashes == Nodes \cup {Mth[n][from] : n \in Nat \ {0}, from \in Nat}

LEMMA PathTyped ==
    \A n \in Nat \ {0} : \A m, from \in Nat : PathFor[n][m][from] \in Seq(Hashes)
<1> DEFINE T == {n \in Nat : n # 0 => \A m, from \in Nat : PathFor[n][m][from] \in Seq(Hashes)}
<1>1. ASSUME NEW n \in Nat, \A i \in Nat : i < n => i \in T PROVE n \in T
    <2> SUFFICES ASSUME n # 0, NEW m \in Nat, NEW from \in Nat
                 PROVE  PathFor[n][m][from] \in Seq(Hashes)
        OBVIOUS
    <2>1. CASE n = 1
        <3>1. PathFor[1][m][from] = <<>>
            BY PathLeaf
        <3> HIDE DEF T
        <3> QED BY <2>1, <3>1
    <2>2. CASE n # 1
        <3> HIDE DEF T
        <3> DEFINE p == Split(n)
                   q == n - p
        <3>1. p \in Powers /\ p \in Nat \ {0} /\ q \in 1..p /\ p < n /\ q < n /\ p + q = n
            BY <2>2, SplitTyped
        <3> HIDE DEF p, q
        <3>2. p \in T /\ q \in T /\ q \in Nat \ {0}
            <4>1. q \in Nat \ {0}
                BY <3>1
            <4> QED BY <1>1, <3>1, <4>1
        <3>3. Mth[q][from + p] \in Hashes /\ Mth[p][from] \in Hashes
            BY <3>1, <3>2 DEF Hashes
        <3>4. CASE m < p
            <4>1. PathFor[p][m][from] \in Seq(Hashes)
                BY <3>1, <3>2 DEF T
            <4>2. PathFor[n][m][from] = Append(PathFor[p][m][from], Mth[q][from + p])
                BY <3>1, <3>4, PathLeft
            <4> QED BY <3>3, <4>1, <4>2
        <3>5. CASE p <= m
            <4>1. m - p \in Nat /\ from + p \in Nat
                BY <3>1, <3>5
            <4>2. PathFor[q][m - p][from + p] \in Seq(Hashes)
                BY <3>2, <4>1 DEF T
            <4>3. PathFor[p + q][m][from] = Append(PathFor[q][m - p][from + p], Mth[p][from])
                <5>1. p \in Powers /\ q \in 1..p /\ m \in Nat /\ from \in Nat /\ p <= m
                    BY <3>1, <3>5
                <5> QED BY ONLY <5>1, PathRight
            <4>4. PathFor[n] = PathFor[p + q]
                BY <3>1
            <4>5. Append(PathFor[q][m - p][from + p], Mth[p][from]) \in Seq(Hashes)
                BY <3>3, <4>2
            <4> QED BY ONLY <4>3, <4>4, <4>5
        <3> QED BY <3>1, <3>4, <3>5
    <2> QED BY <2>1, <2>2
<1> HIDE DEF T
<1>2. \A n \in Nat : n \in T
    BY <1>1, Induction
<1> QED BY <1>2 DEF T

----------------------------------------------------------------------------
(***************************************************************************)
(* The levels of a tree of n leaves.  A node of a level stands for the p     *)
(* leaves from one of its multiples on, or for those there are; f is the     *)
(* node above leaf m, and s the last one.                                    *)
(***************************************************************************)
Level(m, n, p, f, s) ==
    /\ p \in Powers /\ f \in Nat /\ s \in Nat
    /\ f * p <= m /\ m < f * p + p
    /\ s * p < n /\ n <= s * p + p

Width(n, p, from) == IF from + p <= n THEN p ELSE n - from
Node(n, p, from) == Mth[Width(n, p, from)][from]
Within(m, n, p, from) == PathFor[Width(n, p, from)][m - from][from]
Sibling(n, p, f) == Node(n, p, IF f % 2 = 1 THEN f * p - p ELSE f * p + p)

LEMMA Multiples ==
    ASSUME NEW p \in Nat \ {0}, NEW i \in Nat, NEW j \in Nat
    PROVE  i * p \in Nat /\ (i < j => i * p + p <= j * p)
<1>1. i * p \in Nat /\ (i + 1) * p = i * p + p
    OBVIOUS
<1>2. ASSUME i < j PROVE (i + 1) * p <= j * p
    <2>1. (j - (i + 1)) \in Nat
        BY <1>2
    <2>2. (j - (i + 1)) * p \in Nat
        BY <2>1
    <2>3. (j - (i + 1)) * p = j * p - (i + 1) * p
        OBVIOUS
    <2>4. j * p \in Nat /\ (i + 1) * p \in Nat
        OBVIOUS
    <2> QED BY <2>2, <2>3, <2>4
<1> QED BY <1>1, <1>2

LEMMA Halves ==
    ASSUME NEW p \in Nat \ {0}, NEW f \in Nat
    PROVE  /\ f \div 2 \in Nat /\ f % 2 \in {0, 1}
           /\ f % 2 = 0 => (f \div 2) * (2 * p) = f * p
           /\ f % 2 = 1 => (f \div 2) * (2 * p) + p = f * p
<1> DEFINE h == f \div 2
<1>1. h \in Nat /\ (f = 2 * h \/ f = 2 * h + 1) /\ f % 2 \in {0, 1} /\ f = 2 * h + (f % 2)
    OBVIOUS
<1> HIDE DEF h
<1>2. h * (2 * p) = (2 * h) * p /\ (2 * h + 1) * p = (2 * h) * p + p
    BY <1>1
<1>3. ASSUME f % 2 = 0 PROVE h * (2 * p) = f * p
    BY <1>1, <1>2, <1>3
<1>4. ASSUME f % 2 = 1 PROVE h * (2 * p) + p = f * p
    BY <1>1, <1>2, <1>4
<1> QED BY <1>1, <1>3, <1>4 DEF h

LEMMA LevelTyped ==
    ASSUME NEW n \in Nat \ {0}, NEW m \in 0..(n - 1), NEW p, NEW f, NEW s, Level(m, n, p, f, s)
    PROVE  /\ p \in Nat \ {0} /\ f \in Nat /\ s \in Nat /\ f * p \in Nat /\ s * p \in Nat
           /\ f <= s
           /\ f < s => f * p + p <= s * p
<1>1. p \in Nat \ {0} /\ f \in Nat /\ s \in Nat
    BY PowersDouble DEF Level
<1>2. f * p \in Nat /\ s * p \in Nat /\ (f < s => f * p + p <= s * p)
      /\ (s < f => s * p + p <= f * p)
    BY <1>1, Multiples
<1>3. ~(s < f)
    BY <1>1, <1>2 DEF Level
<1> QED BY <1>1, <1>2, <1>3

LEMMA LevelUp ==
    ASSUME NEW n \in Nat \ {0}, NEW m \in 0..(n - 1), NEW p, NEW f, NEW s, Level(m, n, p, f, s)
    PROVE  Level(m, n, 2 * p, f \div 2, s \div 2)
<1>1. p \in Nat \ {0} /\ f \in Nat /\ s \in Nat /\ f * p \in Nat /\ s * p \in Nat
    BY LevelTyped
<1>2. 2 * p \in Powers
    BY PowersDouble DEF Level
<1> DEFINE F == (f \div 2) * (2 * p)
           S == (s \div 2) * (2 * p)
<1>3. f \div 2 \in Nat /\ (F = f * p \/ F + p = f * p)
    BY <1>1, Halves
<1>4. s \div 2 \in Nat /\ (S = s * p \/ S + p = s * p)
    BY <1>1, Halves
<1>5. F \in Nat /\ S \in Nat
    <2>1. 2 * p \in Nat \ {0}
        BY <1>1
    <2> QED BY <1>3, <1>4, <2>1, Multiples
<1> HIDE DEF F, S
<1>6. F <= m /\ m < F + 2 * p /\ S < n /\ n <= S + 2 * p
    BY <1>1, <1>3, <1>4, <1>5 DEF Level
<1> QED BY <1>2, <1>3, <1>4, <1>6 DEF Level, F, S

(* The node above and its sibling, if it has one, make the node of the next  *)
(* level, and its path there ends with the sibling.                          *)
LEMMA NextNode ==
    ASSUME NEW n \in Nat \ {0}, NEW m \in 0..(n - 1), NEW p, NEW f, NEW s, Level(m, n, p, f, s)
    PROVE  LET up == (f \div 2) * (2 * p)
           IN  /\ f % 2 = 1 =>
                    /\ Node(n, 2 * p, up) = <<Sibling(n, p, f), Node(n, p, f * p)>>
                    /\ Within(m, n, 2 * p, up) = Append(Within(m, n, p, f * p), Sibling(n, p, f))
               /\ f % 2 = 0 /\ f < s =>
                    /\ Node(n, 2 * p, up) = <<Node(n, p, f * p), Sibling(n, p, f)>>
                    /\ Within(m, n, 2 * p, up) = Append(Within(m, n, p, f * p), Sibling(n, p, f))
               /\ f % 2 = 0 /\ f = s =>
                    /\ up = f * p
                    /\ Node(n, 2 * p, up) = Node(n, p, f * p)
                    /\ Within(m, n, 2 * p, up) = Within(m, n, p, f * p)
<1> DEFINE at == f * p
           up == (f \div 2) * (2 * p)
<1>1. p \in Nat \ {0} /\ p \in Powers /\ f \in Nat /\ s \in Nat /\ at \in Nat /\ s * p \in Nat
      /\ (f < s => at + p <= s * p) /\ at <= m /\ m < at + p /\ s * p < n /\ n <= s * p + p
    BY LevelTyped DEF Level
<1>2. up \in Nat /\ (f % 2 = 0 => up = at) /\ (f % 2 = 1 => up + p = at)
    <2>1. 2 * p \in Nat \ {0} /\ f \div 2 \in Nat
        BY <1>1, Halves
    <2> QED BY <1>1, <2>1, Halves, Multiples
<1>3. ASSUME f % 2 = 1
      PROVE  /\ Node(n, 2 * p, up) = <<Sibling(n, p, f), Node(n, p, at)>>
             /\ Within(m, n, 2 * p, up) = Append(Within(m, n, p, at), Sibling(n, p, f))
    <2> DEFINE q == Width(n, p, at)
    <2> HIDE DEF at, up
    <2>1. q \in 1..p /\ Width(n, 2 * p, up) = p + q /\ Width(n, p, up) = p
        BY <1>1, <1>2, <1>3 DEF Width
    <2>2. at - p = up /\ m - up \in Nat /\ p <= m - up /\ (m - up) - p = m - at /\ up + p = at
        BY <1>1, <1>2, <1>3
    <2>3. Sibling(n, p, f) = Mth[p][up]
        BY <1>3, <2>1, <2>2 DEF Sibling, Node, at
    <2> HIDE DEF q
    <2>4. Mth[p + q][up] = <<Mth[p][up], Mth[q][at]>>
        BY <1>1, <1>2, <2>1, <2>2, MthHalves
    <2>5. PathFor[p + q][m - up][up] = Append(PathFor[q][m - at][at], Mth[p][up])
        <3> DEFINE k == m - up
        <3> HIDE DEF k
        <3>0. k \in Nat /\ p <= k /\ up \in Nat /\ k - p = m - at
            BY <1>2, <2>2 DEF k
        <3>1. PathFor[p + q][k][up] = Append(PathFor[q][k - p][up + p], Mth[p][up])
            <4>1. p \in Powers /\ q \in 1..p /\ k \in Nat /\ up \in Nat /\ p <= k
                BY <1>1, <2>1, <3>0
            <4> QED BY ONLY <4>1, PathRight
        <3> QED BY <2>2, <3>0, <3>1 DEF k
    <2> QED BY <2>1, <2>3, <2>4, <2>5 DEF Node, Within, q
<1>4. ASSUME f % 2 = 0, f < s
      PROVE  /\ Node(n, 2 * p, up) = <<Node(n, p, at), Sibling(n, p, f)>>
             /\ Within(m, n, 2 * p, up) = Append(Within(m, n, p, at), Sibling(n, p, f))
    <2> DEFINE q == Width(n, p, at + p)
    <2> HIDE DEF at, up
    <2>1. q \in 1..p /\ Width(n, 2 * p, at) = p + q /\ Width(n, p, at) = p
        <3>1. at + p < n
            BY <1>1, <1>4
        <3> QED BY <1>1, <3>1 DEF Width
    <2>2. up = at /\ m - at \in Nat /\ m - at < p
        BY <1>1, <1>2, <1>4
    <2>3. Sibling(n, p, f) = Mth[q][at + p]
        BY <1>4 DEF Sibling, Node, at
    <2> HIDE DEF q
    <2>4. Mth[p + q][at] = <<Mth[p][at], Mth[q][at + p]>>
        BY <1>1, <2>1, MthHalves
    <2>5. PathFor[p + q][m - at][at] = Append(PathFor[p][m - at][at], Mth[q][at + p])
        <3> DEFINE k == m - at
        <3>1. p \in Powers /\ q \in 1..p /\ k \in Nat /\ at \in Nat /\ k < p
            BY <1>1, <2>1, <2>2
        <3> HIDE DEF k
        <3>2. PathFor[p + q][k][at] = Append(PathFor[p][k][at], Mth[q][at + p])
            BY ONLY <3>1, PathLeft
        <3> QED BY <3>2 DEF k
    <2> QED BY <2>1, <2>2, <2>3, <2>4, <2>5 DEF Node, Within
<1>5. ASSUME f % 2 = 0, f = s
      PROVE  up = at /\ Node(n, 2 * p, up) = Node(n, p, at)
             /\ Within(m, n, 2 * p, up) = Within(m, n, p, at)
    <2>1. up = at /\ at = s * p
        BY <1>2, <1>5
    <2> HIDE DEF at, up
    <2>2. Width(n, 2 * p, at) = Width(n, p, at)
        BY <1>1, <2>1 DEF Width
    <2> QED BY <2>1, <2>2 DEF Node, Within
<1> QED BY <1>3, <1>4, <1>5

LEMMA NodeTyped ==
    ASSUME NEW n \in Nat \ {0}, NEW m \in 0..(n - 1), NEW p, NEW f, NEW s, Level(m, n, p, f, s)
    PROVE  Within(m, n, p, f * p) \in Seq(Hashes)
<1>1. p \in Nat \ {0} /\ f * p \in Nat /\ f * p <= m
    BY LevelTyped DEF Level
<1> DEFINE at == f * p
<1> HIDE DEF at
<1>2. Width(n, p, at) \in Nat \ {0} /\ m - at \in Nat /\ at \in Nat
    BY <1>1 DEF Width, at
<1>3. Within(m, n, p, at) \in Seq(Hashes)
    BY <1>2, PathTyped DEF Within
<1> QED BY <1>3 DEF at

(* The level of one node is the root's.                                      *)
LEMMA TopLevel ==
    ASSUME NEW n \in Nat \ {0}, NEW m \in 0..(n - 1), NEW p, NEW f, Level(m, n, p, f, 0)
    PROVE  Node(n, p, f * p) = Mth[n][0] /\ Within(m, n, p, f * p) = Path(m, n)
<1>1. p \in Nat \ {0} /\ f = 0 /\ f * p = 0 /\ n <= p
    <2>1. p \in Nat \ {0} /\ f \in Nat /\ f <= 0 /\ n <= 0 * p + p
        BY LevelTyped DEF Level
    <2> QED BY <2>1
<1>2. Width(n, p, 0) = n /\ m - 0 = m
    BY <1>1 DEF Width
<1> QED BY <1>1, <1>2 DEF Node, Within, Path

(* Below the root the path is not complete.                                  *)
LEMMA PathGrows ==
    ASSUME NEW n \in Nat \ {0}, NEW m \in 0..(n - 1),
           NEW p, NEW f, NEW s \in Nat, Level(m, n, p, f, s), s # 0
    PROVE  Len(Within(m, n, p, f * p)) < Len(Path(m, n))
<1> DEFINE Short(q, g) == Len(Within(m, n, q, g * q)) < Len(Path(m, n))
           T == {t \in Nat : t # 0 => \A q, g : Level(m, n, q, g, t) => Short(q, g)}
<1>1. ASSUME NEW t \in Nat, \A i \in Nat : i < t => i \in T PROVE t \in T
    <2> SUFFICES ASSUME t # 0, NEW q, NEW g, Level(m, n, q, g, t) PROVE Short(q, g)
        OBVIOUS
    <2> DEFINE up == (g \div 2) * (2 * q)
               here == Within(m, n, q, g * q)
               above == Within(m, n, 2 * q, up)
               last == Sibling(n, q, g)
    <2>1. Level(m, n, 2 * q, g \div 2, t \div 2)
        BY LevelUp
    <2>2. here \in Seq(Hashes) /\ above \in Seq(Hashes)
        BY <2>1, NodeTyped
    <2>3. q \in Nat \ {0} /\ g \in Nat /\ g <= t
        BY LevelTyped
    <2>4. /\ (g % 2 = 1 => above = Append(here, last))
          /\ (g % 2 = 0 /\ g < t => above = Append(here, last))
          /\ (g % 2 = 0 /\ g = t => above = here)
        BY NextNode
    <2> HIDE DEF here, above, last, T
    <2>5. g % 2 \in {0, 1}
        BY <2>3
    <2>6. CASE t \div 2 = 0
        <3>1. t = 1 /\ (g % 2 = 1 \/ (g % 2 = 0 /\ g < t))
            BY <2>3, <2>6
        <3>2. above = Append(here, last)
            BY <2>4, <3>1
        <3>3. above = Path(m, n)
            BY <2>1, <2>6, TopLevel DEF above
        <3> QED BY <2>2, <3>2, <3>3 DEF here
    <2>7. CASE t \div 2 # 0
        <3>1. t \div 2 \in Nat /\ t \div 2 < t
            OBVIOUS
        <3>2. t \div 2 \in T
            BY <1>1, <3>1
        <3>3. Short(2 * q, g \div 2)
            BY <2>1, <2>7, <3>2 DEF T
        <3>4. Len(here) <= Len(above) /\ Len(here) \in Nat /\ Len(above) \in Nat
            BY <2>2, <2>3, <2>4, <2>5
        <3>5. Path(m, n) \in Seq(Hashes)
            BY PathTyped DEF Path
        <3> QED BY <3>3, <3>4, <3>5 DEF here, above
    <2> QED BY <2>6, <2>7
<1> HIDE DEF T
<1>2. s \in T
    BY <1>1, Induction
<1> QED BY <1>2 DEF T

(* The loop lifts the last node of a level to where it has a sibling.        *)
LEMMA LiftLevels ==
    ASSUME NEW n \in Nat \ {0}, NEW m \in 0..(n - 1),
           NEW p, NEW f \in Nat, Level(m, n, p, f, f), f # 0
    PROVE  \E q, g :
               /\ Level(m, n, q, g, g) /\ g % 2 = 1
               /\ Raised(f, f) = [fn |-> g, sn |-> g]
               /\ Node(n, q, g * q) = Node(n, p, f * p)
               /\ Within(m, n, q, g * q) = Within(m, n, p, f * p)
<1> DEFINE Lifts(t, o, q, g) ==
               /\ Level(m, n, q, g, g) /\ g % 2 = 1
               /\ Lift[t][t] = [fn |-> g, sn |-> g]
               /\ Node(n, q, g * q) = Node(n, o, t * o)
               /\ Within(m, n, q, g * q) = Within(m, n, o, t * o)
           T == {t \in Nat : t # 0 => \A o : Level(m, n, o, t, t) => \E q, g : Lifts(t, o, q, g)}
<1>1. ASSUME NEW t \in Nat, \A i \in Nat : i < t => i \in T PROVE t \in T
    <2> SUFFICES ASSUME t # 0, NEW o, Level(m, n, o, t, t) PROVE \E q, g : Lifts(t, o, q, g)
        OBVIOUS
    <2> HIDE DEF T
    <2>1. Lift[t][t] = IF t % 2 = 0 THEN Lift[t \div 2][t \div 2] ELSE [fn |-> t, sn |-> t]
        BY LiftDef
    <2>2. CASE t % 2 = 0
        <3>1. t \div 2 \in Nat /\ t \div 2 < t /\ t \div 2 # 0
            BY <2>2
        <3>2. Level(m, n, 2 * o, t \div 2, t \div 2)
            BY LevelUp
        <3>3. t \div 2 \in T
            BY <1>1, <3>1
        <3>4. \E q, g : Lifts(t \div 2, 2 * o, q, g)
            BY <3>1, <3>2, <3>3 DEF T
        <3>5. /\ Node(n, 2 * o, (t \div 2) * (2 * o)) = Node(n, o, t * o)
              /\ Within(m, n, 2 * o, (t \div 2) * (2 * o)) = Within(m, n, o, t * o)
            BY <2>2, NextNode
        <3> QED BY <2>1, <2>2, <3>4, <3>5
    <2>3. CASE t % 2 # 0
        <3>1. t % 2 = 1
            BY <2>3
        <3> QED BY <2>1, <2>3, <3>1
    <2> QED BY <2>2, <2>3
<1> HIDE DEF T
<1>2. f \in T
    BY <1>1, Induction
<1> QED BY <1>2 DEF T, Raised

----------------------------------------------------------------------------
(* A prefix of the path and the hash it leads to.                            *)
LEMMA Prefixes ==
    ASSUME NEW S, NEW a \in Seq(S), NEW b \in Seq(S), b # <<>>
    PROVE  /\ Head(b) \in S /\ Tail(b) \in Seq(S)
           /\ Append(a, Head(b)) \in Seq(S) /\ Len(Append(a, Head(b))) = Len(a) + 1
           /\ a \o b = Append(a, Head(b)) \o Tail(b)
    OBVIOUS

LEMMA Longer ==
    ASSUME NEW S, NEW a \in Seq(S), NEW b \in Seq(S), b # <<>>
    PROVE  Len(a \o b) # Len(a)
<1>1. Len(a \o b) = Len(a) + Len(b) /\ Len(a) \in Nat /\ Len(b) \in Nat
    OBVIOUS
<1>2. Len(b) # 0
    OBVIOUS
<1> QED BY <1>1, <1>2

LEMMA Appended ==
    ASSUME NEW S, NEW a \in Seq(S), NEW b \in Seq(S), NEW x \in S, NEW y \in S
    PROVE  Append(a, x) = Append(b, y) <=> a = b /\ x = y
<1>1. ASSUME Append(a, x) = Append(b, y) PROVE a = b /\ x = y
    <2>1. Len(a) = Len(b) /\ Len(a) \in Nat
        <3>1. Len(Append(a, x)) = Len(a) + 1 /\ Len(Append(b, y)) = Len(b) + 1
            OBVIOUS
        <3> QED BY <1>1, <3>1
    <2>2. x = y
        <3>1. Append(a, x)[Len(a) + 1] = x /\ Append(b, y)[Len(b) + 1] = y
            OBVIOUS
        <3> QED BY <1>1, <2>1, <3>1
    <2>3. ASSUME NEW i \in 1..Len(a) PROVE a[i] = b[i]
        <3>1. Append(a, x)[i] = a[i] /\ Append(b, y)[i] = b[i]
            BY <2>1
        <3> QED BY <1>1, <3>1
    <2> QED BY <2>1, <2>2, <2>3
<1> QED BY <1>1

(* `hash` was computed from the claimed data and the `done` of the path that *)
(* came before `left`, and stands for the node f of the level.               *)
Computed(c, n, p, f, s, hash, done, left) ==
    /\ Level(c.index, n, p, f, s)
    /\ done \in Seq(Hashes) /\ left \in Seq(Hashes) /\ c.path = done \o left
    /\ Len(done) = Len(Within(c.index, n, p, f * p))
    /\ hash = Node(n, p, f * p) <=>
           c.data = c.index /\ done = Within(c.index, n, p, f * p)

(* One node of the path leads to the next level, and to its node only if it  *)
(* is the sibling.                                                           *)
LEMMA ComputedUp ==
    ASSUME NEW n \in Nat \ {0}, NEW c, c.index \in 0..(n - 1), NEW p, NEW f, NEW s,
           NEW hash, NEW done, NEW left, Computed(c, n, p, f, s, hash, done, left),
           left # <<>>, f % 2 = 1 \/ (f % 2 = 0 /\ f < s),
           NEW new, new = IF f % 2 = 1 THEN <<Head(left), hash>> ELSE <<hash, Head(left)>>
    PROVE  Computed(c, n, 2 * p, f \div 2, s \div 2, new, Append(done, Head(left)), Tail(left))
<1> DEFINE m == c.index
           up == (f \div 2) * (2 * p)
           here == Within(m, n, p, f * p)
           above == Within(m, n, 2 * p, up)
           node == Node(n, p, f * p)
           parent == Node(n, 2 * p, up)
           sibling == Sibling(n, p, f)
           next == Append(done, Head(left))
<1>1. Level(m, n, p, f, s) /\ Level(m, n, 2 * p, f \div 2, s \div 2)
    BY LevelUp DEF Computed
<1>2. /\ (f % 2 = 1 => parent = <<sibling, node>>)
      /\ (f % 2 = 0 => parent = <<node, sibling>>)
      /\ above = Append(here, sibling)
    BY <1>1, NextNode
<1>3. here \in Seq(Hashes) /\ above \in Seq(Hashes)
    BY <1>1, NodeTyped
<1>4. sibling \in Hashes
    <2>1. above # <<>> /\ sibling = above[Len(above)]
        BY <1>2, <1>3
    <2> QED BY <1>3, <2>1
<1>5. /\ done \in Seq(Hashes) /\ left \in Seq(Hashes) /\ c.path = done \o left
      /\ Len(done) = Len(here)
      /\ (hash = node <=> c.data = c.index /\ done = here)
    BY DEF Computed
<1> HIDE DEF here, above, node, parent, sibling
<1>6. /\ Head(left) \in Hashes /\ Tail(left) \in Seq(Hashes)
      /\ next \in Seq(Hashes) /\ Len(next) = Len(done) + 1
      /\ c.path = next \o Tail(left)
    <2>1. done \in Seq(Hashes) /\ left \in Seq(Hashes) /\ left # <<>>
        BY <1>5
    <2>2. /\ Head(left) \in Hashes /\ Tail(left) \in Seq(Hashes)
          /\ next \in Seq(Hashes) /\ Len(next) = Len(done) + 1
          /\ done \o left = next \o Tail(left)
        BY ONLY <2>1, Prefixes
    <2> QED BY <1>5, <2>2
<1>7. Len(next) = Len(above)
    BY <1>2, <1>3, <1>5, <1>6
<1>8. next = above <=> done = here /\ Head(left) = sibling
    BY <1>2, <1>3, <1>4, <1>5, <1>6, Appended
<1>9. new = parent <=> hash = node /\ Head(left) = sibling
    <2>1. CASE f % 2 = 1
        BY <1>2, <2>1
    <2>2. CASE f % 2 = 0
        BY <1>2, <2>2
    <2> QED BY <2>1, <2>2
<1>10. new = parent <=> c.data = c.index /\ next = above
    BY <1>5, <1>8, <1>9
<1> QED BY <1>1, <1>6, <1>7, <1>10 DEF Computed, above, parent

----------------------------------------------------------------------------
(* While the check runs, its hash is that of the node it stands at exactly   *)
(* if all of what it was computed from is what the tree was built from.      *)
MerkleInv ==
    /\ leaves \in Nat \ {0}
    /\ verdict \in {"none", "open", "accepted", "refused"}
    /\ claim.index \in 0..(leaves - 1)
    /\ verdict = "open" => \E p, done : Computed(claim, leaves, p, fn, sn, r, done, rest)
    /\ OnlyMembersVerify

LEMMA ClaimStep == ASSUME MerkleInv, NEW n \in 1..MaxTree, Claim(n) PROVE MerkleInv'
<1> USE MerkleAssumption
<1> DEFINE m == claim'.index
<1>1. n \in Nat \ {0} /\ leaves' = n /\ m \in 0..(n - 1) /\ claim'.data \in Nat
      /\ claim'.path \in Seq(Nodes)
    BY DEF Claim
<1>2. claim'.path \in Seq(Hashes)
    BY <1>1 DEF Hashes
<1>3. Level(m, n, 1, m, n - 1)
    BY <1>1, PowersDouble DEF Level
<1>4. Width(n, 1, m) = 1 /\ m * 1 = m /\ m - m = 0
    BY <1>1 DEF Width
<1> HIDE DEF m
<1>5. Node(n, 1, m * 1) = <<m>> /\ Within(m, n, 1, m * 1) = <<>>
    BY <1>1, <1>4, MthLeaf, PathLeaf DEF Node, Within
<1>6. <<claim'.data>> = <<m>> <=> claim'.data = m
    OBVIOUS
<1>7. claim'.path = <<>> \o claim'.path /\ <<>> \in Seq(Hashes)
    BY <1>2
<1>8. Computed(claim', n, 1, m, n - 1, <<claim'.data>>, <<>>, claim'.path)
    BY <1>2, <1>3, <1>5, <1>6, <1>7 DEF Computed, m
<1>9. fn' = m /\ sn' = n - 1 /\ r' = <<claim'.data>> /\ rest' = claim'.path /\ verdict' = "open"
    BY DEF Claim, m
<1>10. \E p, done : Computed(claim', leaves', p, fn', sn', r', done, rest')
    BY <1>1, <1>8, <1>9
<1> QED BY <1>1, <1>9, <1>10 DEF MerkleInv, OnlyMembersVerify, m

LEMMA ClimbStep == ASSUME MerkleInv, Climb PROVE MerkleInv'
<1>1. PICK p, done : Computed(claim, leaves, p, fn, sn, r, done, rest)
    BY DEF MerkleInv, Climb
<1>2. leaves \in Nat \ {0} /\ claim.index \in 0..(leaves - 1) /\ rest # <<>> /\ sn # 0
    BY DEF MerkleInv, Climb
<1>3. Level(claim.index, leaves, p, fn, sn) /\ fn \in Nat /\ sn \in Nat /\ fn <= sn
    BY <1>1, <1>2, LevelTyped DEF Computed
<1>4. fn % 2 \in {0, 1}
    BY <1>3
<1>5. \E q, d : Computed(claim, leaves, q, fn', sn', r', d, rest')
    <2>1. CASE fn % 2 = 1 \/ (fn % 2 = 0 /\ fn < sn)
        <3>1. fn' = fn \div 2 /\ sn' = sn \div 2 /\ rest' = Tail(rest)
              /\ r' = IF fn % 2 = 1 THEN <<Head(rest), r>> ELSE <<r, Head(rest)>>
            BY <1>3, <1>4, <2>1 DEF Climb
        <3>2. Computed(claim, leaves, 2 * p, fn \div 2, sn \div 2, r',
                       Append(done, Head(rest)), Tail(rest))
            BY <1>1, <1>2, <2>1, <3>1, ComputedUp
        <3> QED BY <3>1, <3>2
    <2>2. CASE fn % 2 = 0 /\ fn = sn
        <3>1. PICK q, g :
                  /\ Level(claim.index, leaves, q, g, g) /\ g % 2 = 1
                  /\ Raised(fn, fn) = [fn |-> g, sn |-> g]
                  /\ Node(leaves, q, g * q) = Node(leaves, p, fn * p)
                  /\ Within(claim.index, leaves, q, g * q) = Within(claim.index, leaves, p, fn * p)
            BY <1>2, <1>3, <2>2, LiftLevels
        <3>2. Computed(claim, leaves, q, g, g, r, done, rest)
            BY <1>1, <3>1 DEF Computed
        <3>3. fn' = g \div 2 /\ sn' = g \div 2 /\ rest' = Tail(rest) /\ r' = <<Head(rest), r>>
            BY <2>2, <3>1 DEF Climb
        <3>4. Computed(claim, leaves, 2 * q, g \div 2, g \div 2, r',
                       Append(done, Head(rest)), Tail(rest))
            BY <1>2, <3>1, <3>2, <3>3, ComputedUp
        <3> QED BY <3>3, <3>4
    <2> QED BY <1>3, <1>4, <2>1, <2>2
<1>6. leaves' = leaves /\ claim' = claim /\ verdict = "open" /\ verdict' = "open"
    BY DEF Climb
<1> QED BY <1>2, <1>5, <1>6 DEF MerkleInv, OnlyMembersVerify

LEMMA ConcludeStep == ASSUME MerkleInv, Conclude PROVE MerkleInv'
<1> DEFINE m == claim.index
           mine == Path(m, leaves)
<1>1. PICK p, done : Computed(claim, leaves, p, fn, sn, r, done, rest)
    BY DEF MerkleInv, Conclude
<1>2. leaves \in Nat \ {0} /\ m \in 0..(leaves - 1) /\ (rest = <<>> \/ sn = 0)
      /\ leaves' = leaves /\ claim' = claim
      /\ verdict' = IF rest = <<>> /\ sn = 0 /\ r = Mth[leaves][0] THEN "accepted" ELSE "refused"
    BY DEF MerkleInv, Conclude
<1> DEFINE here == Within(m, leaves, p, fn * p)
<1>3. /\ Level(m, leaves, p, fn, sn) /\ fn \in Nat /\ sn \in Nat
      /\ done \in Seq(Hashes) /\ rest \in Seq(Hashes) /\ claim.path = done \o rest
      /\ Len(done) = Len(here)
      /\ (r = Node(leaves, p, fn * p) <=> claim.data = claim.index /\ done = here)
    BY <1>1, <1>2, LevelTyped DEF Computed
<1>4. mine \in Seq(Hashes) /\ here \in Seq(Hashes)
    <2>1. mine \in Seq(Hashes)
        <3>1. leaves \in Nat \ {0} /\ m \in Nat /\ 0 \in Nat
            BY <1>2
        <3> QED BY <3>1, PathTyped DEF Path
    <2>2. here \in Seq(Hashes)
        BY <1>2, <1>3, NodeTyped
    <2> QED BY <2>1, <2>2
<1> HIDE DEF mine, here
<1>5. verdict' = "accepted" <=> claim.data = m /\ claim.path = mine
    <2>1. CASE rest = <<>> /\ sn = 0
        <3>1. claim.path = done
            BY <1>3, <2>1
        <3>2. Node(leaves, p, fn * p) = Mth[leaves][0] /\ here = mine
            BY <1>2, <1>3, <2>1, TopLevel DEF here, mine
        <3> QED BY <1>2, <1>3, <2>1, <3>1, <3>2
    <2>2. CASE rest = <<>> /\ sn # 0
        <3>1. claim.path = done
            BY <1>3, <2>2
        <3>2. Len(here) < Len(mine)
            BY <1>2, <1>3, <2>2, PathGrows DEF here, mine
        <3>3. claim.path # mine
            BY <1>3, <1>4, <3>1, <3>2
        <3> QED BY <1>2, <2>2, <3>3
    <2>3. CASE rest # <<>> /\ sn = 0
        <3>1. here = mine
            BY <1>2, <1>3, <2>3, TopLevel DEF here, mine
        <3>2. Len(done \o rest) # Len(done)
            BY <1>3, <2>3, Longer
        <3>3. claim.path # mine
            BY <1>3, <3>1, <3>2
        <3> QED BY <1>2, <2>3, <3>3
    <2> QED BY <1>2, <2>1, <2>2, <2>3
<1> QED BY <1>2, <1>5 DEF MerkleInv, OnlyMembersVerify, mine

(* In a tree of every size, and for every path over every set of hashes that *)
(* is claimed in it: verifyInclusion, with the bottom-up rootFromPath, takes *)
(* a claim exactly if the data is the leaf at the index and the path is the  *)
(* one the top-down build made for that leaf, whole.                         *)
THEOREM OnlyMembersAccepted == MerkleSpec => []OnlyMembersVerify
<1>1. MerkleInit => MerkleInv
    BY DEF MerkleInit, MerkleInv, OnlyMembersVerify
<1>2. MerkleInv /\ [MerkleNext]_merkleVars => MerkleInv'
    <2> SUFFICES ASSUME MerkleInv, [MerkleNext]_merkleVars PROVE MerkleInv'
        OBVIOUS
    <2>1. CASE \E n \in 1..MaxTree : Claim(n)
        BY <2>1, ClaimStep
    <2>2. CASE Climb
        BY <2>2, ClimbStep
    <2>3. CASE Conclude
        BY <2>3, ConcludeStep
    <2>4. CASE UNCHANGED merkleVars
        BY <2>4 DEF merkleVars, MerkleInv, OnlyMembersVerify
    <2> QED BY <2>1, <2>2, <2>3, <2>4 DEF MerkleNext
<1>3. MerkleInv => OnlyMembersVerify
    BY DEF MerkleInv
<1> QED BY <1>1, <1>2, <1>3, PTL DEF MerkleSpec
=============================================================================
