-------------------------- MODULE PullRequestCommits --------------------------
(***************************************************************************)
(* The commits of one pull request (features/scm/scm.routes.ts and         *)
(* lifecycle-service.ts): every webhook of the pull request asks GitHub    *)
(* for its commits and records the answer row by row, and the webhook of   *)
(* the merge goes on to record which commits were merged.                  *)
(*                                                                         *)
(* This is work after the projection of a delivery: nothing fences it, so  *)
(* the webhooks of two deliveries, or two requests that handle the same    *)
(* one, may be at it together.  Snapshots, the commits' metadata and their *)
(* reachability, how a commit was merged and the lifecycle events are left *)
(* out: nothing here reads them back.                                      *)
(***************************************************************************)
EXTENDS Naturals, Sequences

CONSTANTS
    PullCommits,
    Listings,       \* what GitHub lists, from one push to the pull request to the next
    Webhooks        \* requests that enrich a delivery of the pull request

ASSUME PullAssumption == Listings \in Seq(SUBSET PullCommits) /\ Listings # <<>>

VARIABLES
    head,           \* GitHub's state: the last push
    membership,     \* scm_pull_request_commit_memberships
    lineage,        \* scm_merge_lineage: the source commits
    enrichment,     \* what every webhook is doing
    round           \* history of the webhooks at work since none was: the commits
                    \* that some of them were listed, and that all were; whether
                    \* one has recorded its list

pullVars == <<head, membership, lineage, enrichment, round>>

NotBegun == [at |-> "idle", merge |-> FALSE, heard |-> FALSE, listed |-> {}, todo |-> {}]
NewRound == [some |-> {}, all |-> PullCommits, recorded |-> FALSE]

PullInit ==
    /\ head = 1
    /\ membership = [c \in PullCommits |-> "none"]
    /\ lineage = {}
    /\ enrichment = [w \in Webhooks |-> NotBegun]
    /\ round = NewRound

Members == {c \in PullCommits : membership[c] = "active"}

AtWork == {w \in Webhooks : enrichment[w].at \notin {"idle", "ended", "failed"}}
IsAt(w, place) == enrichment[w].at = place
Enriches(w, e) == enrichment' = [enrichment EXCEPT ![w] = e]
GoesOn(w, place, todo) == Enriches(w, [enrichment[w] EXCEPT !.at = place, !.todo = todo])

\* Not an action of the code: a commit, an amend or a force-push on GitHub.
PushHead ==
    /\ head < Len(Listings)
    /\ head' = head + 1
    /\ UNCHANGED <<membership, lineage, enrichment, round>>

----------------------------------------------------------------------------
(* listPullRequestCommits                                                  *)

JoinedRound == IF AtWork = {} THEN NewRound ELSE round

ListCommits(w, merge) ==
    /\ IsAt(w, "idle")
    /\ Enriches(w, [NotBegun EXCEPT !.at = "listed", !.merge = merge, !.heard = TRUE, !.listed = Listings[head]])
    /\ round' = [JoinedRound EXCEPT !.some = @ \cup Listings[head], !.all = @ \cap Listings[head]]
    /\ UNCHANGED <<head, membership, lineage>>

\* GitHub did not answer: there is nothing to record but a merge.
NotListed(w) ==
    /\ IsAt(w, "idle")
    /\ Enriches(w, [NotBegun EXCEPT !.at = "snapshot", !.merge = TRUE])
    /\ round' = JoinedRound
    /\ UNCHANGED <<head, membership, lineage>>

----------------------------------------------------------------------------
(* recordPullRequestSnapshot                                               *)

\* Mutant: everything is put away, and what is listed is put back.
AllMembers(w) == Members

\* The members that are not listed any more.
Gone(w) == Members \ enrichment[w].listed

ReadMemberships(w) ==
    /\ IsAt(w, "listed")
    /\ GoesOn(w, "removing", Gone(w))
    /\ UNCHANGED <<head, membership, lineage, round>>

Deactivate(w) ==
    /\ IsAt(w, "removing")
    /\ \E c \in enrichment[w].todo :
          /\ membership' = [membership EXCEPT ![c] = "inactive"]
          /\ GoesOn(w, "removing", enrichment[w].todo \ {c})
    /\ UNCHANGED <<head, lineage, round>>

AllDeactivated(w) ==
    /\ IsAt(w, "removing") /\ enrichment[w].todo = {}
    /\ GoesOn(w, "adding", enrichment[w].listed)
    /\ UNCHANGED <<head, membership, lineage, round>>

Activate(w) ==
    /\ IsAt(w, "adding")
    /\ \E c \in enrichment[w].todo :
          /\ membership' = [membership EXCEPT ![c] = "active"]
          /\ GoesOn(w, "adding", enrichment[w].todo \ {c})
    /\ UNCHANGED <<head, lineage, round>>

SnapshotRecorded(w) ==
    /\ IsAt(w, "adding") /\ enrichment[w].todo = {}
    /\ GoesOn(w, IF enrichment[w].merge THEN "snapshot" ELSE "ended", {})
    /\ round' = [round EXCEPT !.recorded = TRUE]
    /\ UNCHANGED <<head, membership, lineage>>

----------------------------------------------------------------------------
(* recordMergeLineage                                                      *)

\* Mutant: commits that left the pull request are merged too.
EverMembers == {c \in PullCommits : membership[c] # "none"}

Sources == Members

ReadSources(w) ==
    /\ IsAt(w, "snapshot")
    /\ GoesOn(w, "merging", Sources)
    /\ UNCHANGED <<head, membership, lineage, round>>

AddSource(w) ==
    /\ IsAt(w, "merging")
    /\ \E c \in enrichment[w].todo :
          /\ lineage' = lineage \cup {c}
          /\ GoesOn(w, "merging", enrichment[w].todo \ {c})
    /\ UNCHANGED <<head, membership, round>>

LineageRecorded(w) ==
    /\ IsAt(w, "merging") /\ enrichment[w].todo = {}
    /\ GoesOn(w, "ended", {})
    /\ UNCHANGED <<head, membership, lineage, round>>

\* A statement or the process fails: the delivery is tried again later, by
\* another request.
EnrichmentFails(w) ==
    /\ w \in AtWork
    /\ GoesOn(w, "failed", {})
    /\ UNCHANGED <<head, membership, lineage, round>>

PullNext ==
    \/ PushHead
    \/ \E w \in Webhooks :
          \/ ListCommits(w, TRUE) \/ ListCommits(w, FALSE) \/ NotListed(w)
          \/ ReadMemberships(w) \/ Deactivate(w) \/ AllDeactivated(w)
          \/ Activate(w) \/ SnapshotRecorded(w)
          \/ ReadSources(w) \/ AddSource(w) \/ LineageRecorded(w)
          \/ EnrichmentFails(w)

PullSpec == PullInit /\ [][PullNext]_pullVars

----------------------------------------------------------------------------
(* However webhooks overlap or fail, once one of them has recorded its list *)
(* the members are commits that one of them was listed, and every commit    *)
(* that all of them were listed is a member: at every moment, while others  *)
(* still put away and put back.                                             *)
MembersAgreed ==
    round.recorded => round.all \subseteq Members /\ Members \subseteq round.some

(* A merge that heard the list records only commits that it, or a webhook   *)
(* it overlapped, was listed: never one that a force-push had taken out of  *)
(* the pull request before.                                                 *)
SourcesListed ==
    [][\A w \in Webhooks :
          enrichment[w].heard /\ enrichment'[w] # enrichment[w]
              => lineage' \ lineage \subseteq round.some]_pullVars
============================================================================
