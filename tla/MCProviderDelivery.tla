------------------------- MODULE MCProviderDelivery -------------------------
(* Small instances of ProviderDelivery for TLC.                             *)
EXTENDS ProviderDelivery, TLC

CONSTANTS d1, d2, d3, opened, merged, mergedApp, deployed, undated, pr, dep

(* A pull request opened at 1 and merged at 2; the merge is sent by two     *)
(* webhooks, whose payloads differ; a deployment at 3.                      *)
Keyed == [e \in Events |-> IF e = deployed THEN dep ELSE pr]
Timed == [e \in Events |->
    CASE e = opened -> 1 [] e \in {merged, mergedApp} -> 2
      [] e = deployed -> 3 [] OTHER -> 0]

PullRequestSent == {<<d1, opened>>, <<d2, merged>>, <<d3, mergedApp>>}
DeploymentSent == {<<d1, deployed>>, <<d2, deployed>>, <<d1, undated>>, <<d2, undated>>}

AllSent == PullRequestSent \cup DeploymentSent

RequestSymmetry == Permutations(Requests)
=============================================================================
