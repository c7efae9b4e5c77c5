--------------------------- MODULE MCSemanticIndex ---------------------------
(* Instances of SemanticIndex for TLC.                                       *)
EXTENDS SemanticIndex, TLC

CONSTANTS w1, w2, m1, m2

\* The text of a batch is the batch; a correction is a text of its own.
Texts == [b \in Batches |-> b]

\* Two workers, of the two revisions that processes are configured with.
TwoEngines == (w1 :> m1) @@ (w2 :> m2)
NoEngines == [w \in {} |-> m1]
=============================================================================
