----------------------------- MODULE MerkleProofs -----------------------------
(***************************************************************************)
(* The trees of the anchoring batches (features/attesta/merkle.ts): roots  *)
(* and paths are built top-down by recursion, a path is checked bottom-up  *)
(* by a loop over the bits of the leaf's index.  A hash is the term that   *)
(* was hashed: leaf i is <<i>>, a node the pair of its children.           *)
(***************************************************************************)
EXTENDS Naturals, Sequences

CONSTANTS
    MaxTree,    \* bound: leaves of a tree
    Nodes,      \* the hashes a path may hold
    Paths(_)    \* the paths that are claimed in a tree of that size

ASSUME MerkleAssumption ==
    MaxTree \in Nat \ {0} /\ \A n \in 1..MaxTree : Paths(n) \subseteq Seq(Nodes)

VARIABLES
    leaves,         \* size of the tree
    claim,          \* what is claimed: the leaf's data, its index and a path
    fn, sn, r,      \* rootFromPath: index and last index at this level, hash
    rest,           \* what is left of the path
    verdict         \* "none", "open", "accepted" or "refused"

merkleVars == <<leaves, claim, fn, sn, r, rest, verdict>>

Pow2[e \in Nat] == IF e = 0 THEN 1 ELSE 2 * Pow2[e - 1]

\* The largest power of two less than n.
Split(n) == CHOOSE k \in {Pow2[e] : e \in 0..n} : k < n /\ n <= 2 * k

\* The root over the n leaves from `from` on.
Mth[n \in Nat \ {0}] == [from \in Nat |->
    IF n = 1 THEN <<from>>
    ELSE <<Mth[Split(n)][from], Mth[n - Split(n)][from + Split(n)]>>]

\* The path of the m-th of these leaves.
PathFor[n \in Nat \ {0}] == [m \in Nat |-> [from \in Nat |->
    IF n = 1 THEN <<>>
    ELSE IF m < Split(n)
    THEN Append(PathFor[Split(n)][m][from], Mth[n - Split(n)][from + Split(n)])
    ELSE Append(PathFor[n - Split(n)][m - Split(n)][from + Split(n)], Mth[Split(n)][from])]]

Path(m, n) == PathFor[n][m][0]

----------------------------------------------------------------------------
MerkleInit ==
    /\ leaves = 1 /\ claim = [data |-> 0, index |-> 0, path |-> <<>>]
    /\ fn = 0 /\ sn = 0 /\ r = <<0>> /\ rest = <<>>
    /\ verdict = "none"

\* verifyInclusion is called.
Claim(n) ==
    /\ verdict = "none"
    /\ leaves' = n
    /\ claim' \in [data : 0..n, index : 0..(n - 1), path : Paths(n)]
    /\ fn' = claim'.index /\ sn' = n - 1
    /\ r' = <<claim'.data>> /\ rest' = claim'.path
    /\ verdict' = "open"

\* Mutant: a node is lifted by one level only.
NotRaised(f, s) == [fn |-> f, sn |-> s]

\* The loop that lifts a node without a sibling to the level of its sibling.
Lift[f \in Nat] == [s \in Nat |->
    IF f # 0 /\ f % 2 = 0 THEN Lift[f \div 2][s \div 2] ELSE [fn |-> f, sn |-> s]]

Raised(f, s) == Lift[f][s]

\* One node of the path.
Climb ==
    /\ verdict = "open" /\ rest # <<>> /\ sn # 0
    /\ LET onTheRight == fn % 2 = 1 \/ fn = sn
           level == IF onTheRight /\ fn % 2 = 0 THEN Raised(fn, sn) ELSE [fn |-> fn, sn |-> sn]
       IN  /\ r' = IF onTheRight THEN <<Head(rest), r>> ELSE <<r, Head(rest)>>
           /\ fn' = level.fn \div 2 /\ sn' = level.sn \div 2
    /\ rest' = Tail(rest)
    /\ UNCHANGED <<leaves, claim, verdict>>

\* A path too long or too short is an error, another root is refused.
Conclude ==
    /\ verdict = "open"
    /\ rest = <<>> \/ sn = 0
    /\ verdict' = IF rest = <<>> /\ sn = 0 /\ r = Mth[leaves][0] THEN "accepted" ELSE "refused"
    /\ UNCHANGED <<leaves, claim, fn, sn, r, rest>>

MerkleNext == (\E n \in 1..MaxTree : Claim(n)) \/ Climb \/ Conclude

MerkleSpec == MerkleInit /\ [][MerkleNext]_merkleVars

----------------------------------------------------------------------------
(* The two algorithms agree: for a tree of every size, a claim is accepted   *)
(* exactly when the data is the leaf at the claimed index and the path is    *)
(* the one of that leaf, whole.                                              *)
OnlyMembersVerify ==
    verdict \in {"accepted", "refused"} =>
        (verdict = "accepted" <=> claim.data = claim.index /\ claim.path = Path(claim.index, leaves))
============================================================================
