----------------------------- MODULE MCServices -----------------------------
(* Instances for TLC of the services that keep state of their own and never  *)
(* touch each other's.  A behaviour is a behaviour of one of them, chosen in *)
(* the first state; the variables of the others keep their initial values.   *)
EXTENDS SecuritySeal, ExportJobs, SecurityLease, EvidenceIntentions, CommitLifecycle,
        TrustKeys, MerkleProofs, PullRequestCommits, TLC

VARIABLE service

Texts == [b \in Batches |-> b]

\* Commits 2, 3 and 4 on the commit 1: 3 rewrites 2, 4 commits 2's lines again.
\* 2 and 4 tie in both times; 3 has the latest event and an earlier commit time.
EventTimes == <<1, 2, 3, 2>>
CommitTimes == <<1, 3, 2, 3>>
Parents == <<0, 1, 1, 1>>
Patches == <<"p", "q", "r", "q">>
Amended == <<{}, {}, {2}, {}>>
Sent == {<<3, 2>>, <<2, 4>>}

\* Paths of the tree, one node short, and one node long.
TreeNodes == {Mth[n][from] : n \in 1..MaxTree, from \in 0..MaxTree}
TreePaths(n) ==
    UNION {{Path(m, n), Append(Path(m, n), <<0>>), SubSeq(Path(m, n), 1, Len(Path(m, n)) - 1)}
           : m \in 0..(n - 1)}

\* A push that keeps one commit, and one that keeps none of the first list.
Forced == <<{1, 2}, {2, 3}, {3}>>

HandSymmetry == Permutations(Hands)

Service(name, Next, others) == service = name /\ Next /\ UNCHANGED <<service, others>>

MCInit ==
    /\ service \in {"audit", "security", "exports", "leases", "evidence", "commits", "keys",
                   "proofs", "pulls"}
    /\ SealInit /\ ExportInit /\ LeaseInit /\ EvidenceInit /\ CommitInit /\ TrustInit /\ MerkleInit
    /\ PullInit

MCNext ==
    \/ Service("audit", SealNext,
               <<exportVars, leaseVars, evidenceVars, commitVars, trustVars, merkleVars, pullVars>>)
    \/ Service("security", SecuritySealNext,
               <<exportVars, leaseVars, evidenceVars, commitVars, trustVars, merkleVars, pullVars>>)
    \/ Service("exports", ExportNext,
               <<sealVars, leaseVars, evidenceVars, commitVars, trustVars, merkleVars, pullVars>>)
    \/ Service("leases", LeaseNext,
               <<sealVars, exportVars, evidenceVars, commitVars, trustVars, merkleVars, pullVars>>)
    \/ Service("evidence", EvidenceNext,
               <<sealVars, exportVars, leaseVars, commitVars, trustVars, merkleVars, pullVars>>)
    \/ Service("commits", CommitNext,
               <<sealVars, exportVars, leaseVars, evidenceVars, trustVars, merkleVars, pullVars>>)
    \/ Service("keys", TrustNext,
               <<sealVars, exportVars, leaseVars, evidenceVars, commitVars, merkleVars, pullVars>>)
    \/ Service("proofs", MerkleNext,
               <<sealVars, exportVars, leaseVars, evidenceVars, commitVars, trustVars, pullVars>>)
    \/ Service("pulls", PullNext,
               <<sealVars, exportVars, leaseVars, evidenceVars, commitVars, trustVars, merkleVars>>)

MCSpec ==
    /\ MCInit
    /\ [][MCNext]_<<service, sealVars, exportVars, leaseVars, evidenceVars, commitVars, trustVars,
                    merkleVars, pullVars>>
=============================================================================
