--------------------------- MODULE MCAnchorWorker ---------------------------
(* Small instances of AnchorWorker for TLC.                                 *)
EXTENDS AnchorWorker

CONSTANTS p1, p2

(* Two processes started with different --max-batch.                        *)
OneAndTwo == [p \in Passes |-> IF p = p1 THEN 1 ELSE 2]
Ones == [p \in Passes |-> 1]
=============================================================================
