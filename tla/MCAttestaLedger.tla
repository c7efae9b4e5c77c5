--------------------------- MODULE MCAttestaLedger ---------------------------
(* Small instances of AttestaLedger for TLC.                                *)
EXTENDS AttestaLedger, TLC

CONSTANTS c1, p1, d1, x, y

(* Three observations about one commit: observed, merged, deployed.         *)
OneSubject == [r \in Rows |-> x]
ByName == [r \in Rows |->
    CASE r = c1 -> "commit_observed" [] r = p1 -> "pr_merged" [] r = d1 -> "deployed"]
NoLineage == [s \in Subjects |-> {}]

(* The pull request merges commit y into x; c1 is about y.                  *)
TwoSubjects == [r \in Rows |-> IF r = c1 THEN y ELSE x]
Merged == [s \in Subjects |-> IF s = x THEN {y} ELSE {}]

WorkerSymmetry == Permutations(Workers)
=============================================================================
