--------------------------- MODULE ServiceProofs ---------------------------
(***************************************************************************)
(* Theorems about ExportJobs, for any jobs, requests and runs, about        *)
(* SecurityLease, for any fetches, publishers and times, about TrustKeys,   *)
(* for any keys, operators and commands, and about PullRequestCommits, for  *)
(* any commits, pushes and webhooks.                                        *)
(***************************************************************************)
EXTENDS ExportJobs, SecurityLease, TrustKeys, PullRequestCommits, TLAPS

-----------------------------------------------------------------------------
(*                               ExportJobs                                 *)

(***************************************************************************)
(* Types.  A run that is not idle holds a claim of a job: one of its        *)
(* attempts so far.                                                         *)
(***************************************************************************)
Statuses == {"absent", "queued", "running", "ready", "failed"}
RunStates == {"idle", "building", "built", "cleaning", "leaseLost", "failing"}
Files == {NoFile} \cup (JobKeys \X Nat)
JobRows == [status : Statuses, attempts : Nat, leased : BOOLEAN, file : Files]
Claims == [key : JobKeys, attempts : Nat]

ExportTypeInv ==
    /\ jobs \in [JobKeys -> JobRows]
    /\ files \in SUBSET (JobKeys \X Nat)
    /\ chained \in SUBSET Claims
    /\ asked \in [Posters -> JobKeys \cup {NoKey}]
    /\ rpc \in [Runners -> RunStates]
    /\ held \in [Runners -> Claims \cup {NoClaim}]
    /\ \A p \in Runners : rpc[p] # "idle" => held[p] \in Claims

LEMMA ExportTypeInit == ExportInit => ExportTypeInv
BY DEF ExportInit, ExportTypeInv, Statuses, RunStates, JobRows, Files, NoJobRow, NoFile

LEMMA FinishedTyped ==
    ASSUME ExportTypeInv, NEW p \in Runners, rpc[p] # "idle",
           NEW s \in Statuses, NEW f \in Files
    PROVE  Finished(p, s, f) \in [JobKeys -> JobRows]
<1> DEFINE k == held[p].key
           row == [jobs[k] EXCEPT !.status = s, !.leased = FALSE, !.file = f]
<1>1. k \in JobKeys
    BY DEF ExportTypeInv, Claims
<1>2. jobs[k] \in JobRows
    BY <1>1 DEF ExportTypeInv
<1>3. row \in JobRows
    BY <1>2 DEF JobRows
<1> QED BY <1>1, <1>3 DEF ExportTypeInv, Finished

LEMMA RunEndsTyped ==
    ASSUME ExportTypeInv, NEW p \in Runners, RunEnds(p)
    PROVE  /\ rpc' \in [Runners -> RunStates]
           /\ held' \in [Runners -> Claims \cup {NoClaim}]
           /\ \A q \in Runners : rpc'[q] # "idle" => held'[q] \in Claims
BY DEF ExportTypeInv, RunEnds, ExportGoes, RunStates

LEMMA ExportGoesTyped ==
    ASSUME ExportTypeInv, NEW p \in Runners, NEW s \in RunStates, rpc[p] # "idle",
           ExportGoes(p, s), UNCHANGED held
    PROVE  /\ rpc' \in [Runners -> RunStates]
           /\ held' \in [Runners -> Claims \cup {NoClaim}]
           /\ \A q \in Runners : rpc'[q] # "idle" => held'[q] \in Claims
BY DEF ExportTypeInv, ExportGoes, RunStates

LEMMA FileOfTyped ==
    ASSUME ExportTypeInv, NEW p \in Runners, rpc[p] # "idle"
    PROVE  FileOf(held[p]) \in JobKeys \X Nat /\ FileOf(held[p]) \in Files
BY DEF Files, ExportTypeInv, FileOf, Claims

LEMMA ExportTypeStep == ExportTypeInv /\ [ExportNext]_exportVars => ExportTypeInv'
<1> SUFFICES ASSUME ExportTypeInv, [ExportNext]_exportVars PROVE ExportTypeInv'
    OBVIOUS
<1>1. ASSUME NEW q \in Posters, CreateOrGet(q) PROVE ExportTypeInv'
    BY <1>1 DEF CreateOrGet, ExportTypeInv, JobRows, Files, NoJobRow, NoFile, Statuses
<1>2. ASSUME NEW q \in Posters, NEW k \in JobKeys, Post(q, k) PROVE ExportTypeInv'
    BY <1>2 DEF Post, ExportTypeInv
<1>3. ASSUME NEW k \in JobKeys, LeaseEnds(k) PROVE ExportTypeInv'
    BY <1>3 DEF LeaseEnds, ExportTypeInv, JobRows
<1>4. ASSUME NEW p \in Runners, NEW k \in JobKeys, ClaimJob(p, k) PROVE ExportTypeInv'
    <2>1. jobs' \in [JobKeys -> JobRows]
        BY <1>4 DEF ClaimJob, ExportTypeInv, JobRows, Statuses
    <2>2. [key |-> k, attempts |-> jobs[k].attempts + 1] \in Claims
        BY DEF ExportTypeInv, JobRows, Claims
    <2> QED BY <1>4, <2>1, <2>2 DEF ClaimJob, ExportTypeInv, RunStates
<1>5. ASSUME NEW p \in Runners, Build(p) PROVE ExportTypeInv'
    <2>1. files' \in SUBSET (JobKeys \X Nat)
        BY <1>5, FileOfTyped DEF Build, ExportTypeInv
    <2> QED BY <1>5, <2>1, ExportGoesTyped DEF Build, ExportTypeInv, RunStates
<1>6. ASSUME NEW p \in Runners, BuildFails(p) \/ RebuildReport(p) PROVE ExportTypeInv'
    BY <1>6, ExportGoesTyped DEF BuildFails, RebuildReport, ExportTypeInv, RunStates
<1>7. ASSUME NEW p \in Runners, FinishPack(p) PROVE ExportTypeInv'
    <2>1. Finished(p, "ready", FileOf(held[p])) \in [JobKeys -> JobRows]
        BY <1>7, FinishedTyped, FileOfTyped DEF FinishPack, Statuses
    <2> QED BY <1>7, <2>1, ExportGoesTyped, RunEndsTyped
            DEF FinishPack, ExportTypeInv, RunStates
<1>8. ASSUME NEW p \in Runners, FinishReport(p) PROVE ExportTypeInv'
    <2>1. Finished(p, "ready", NoFile) \in [JobKeys -> JobRows]
        BY <1>8, FinishedTyped DEF FinishReport, Statuses, Files
    <2>2. chained' \in SUBSET Claims
        BY <1>8 DEF FinishReport, ExportTypeInv
    <2> QED BY <1>8, <2>1, <2>2, ExportGoesTyped, RunEndsTyped
            DEF FinishReport, ExportTypeInv, RunStates
<1>9. ASSUME NEW p \in Runners, FinishFails(p) PROVE ExportTypeInv'
    <2> DEFINE s == IF held[p].key \in Reports THEN "failing" ELSE "cleaning"
    <2>1. s \in RunStates
        BY DEF RunStates
    <2> HIDE DEF s
    <2>2. rpc[p] # "idle" /\ ExportGoes(p, s) /\ UNCHANGED held
        BY <1>9 DEF FinishFails, s
    <2> QED BY <1>9, <2>1, <2>2, ExportGoesTyped DEF FinishFails, ExportTypeInv
<1>10. ASSUME NEW p \in Runners, RemoveFile(p) PROVE ExportTypeInv'
    BY <1>10, ExportGoesTyped, RunEndsTyped DEF RemoveFile, ExportTypeInv, RunStates
<1>11. ASSUME NEW p \in Runners, FinishFailed(p) PROVE ExportTypeInv'
    <2>1. Finished(p, "failed", NoFile) \in [JobKeys -> JobRows]
        BY <1>11, FinishedTyped DEF FinishFailed, Statuses, Files
    <2> QED BY <1>11, <2>1, RunEndsTyped DEF FinishFailed, ExportTypeInv
<1>12. ASSUME NEW p \in Runners, RunCrashes(p) PROVE ExportTypeInv'
    BY <1>12, RunEndsTyped DEF RunCrashes, ExportTypeInv
<1>13. CASE UNCHANGED exportVars
    BY <1>13 DEF exportVars, ExportTypeInv
<1> QED
    BY <1>1, <1>2, <1>3, <1>4, <1>5, <1>6, <1>7, <1>8, <1>9, <1>10, <1>11, <1>12, <1>13
    DEF ExportNext

-----------------------------------------------------------------------------
(***************************************************************************)
(* Claims.  The attempts of a job only grow, so no two runs ever hold the   *)
(* same claim, and a run that may still finish with the last claim finds    *)
(* the job running.  What a finished job names is the file of its last      *)
(* claim; a run that is about to remove a file holds another claim, unless  *)
(* it did not hear that it had finished the job.                            *)
(***************************************************************************)
Last(p) == held[p].attempts = jobs[held[p].key].attempts

ClaimInv ==
    \A p \in Runners : rpc[p] # "idle" =>
        /\ held[p].attempts <= jobs[held[p].key].attempts
        /\ jobs[held[p].key].status # "absent"
        /\ \A q \in Runners \ {p} : rpc[q] # "idle" => held[q] # held[p]

FinishInv ==
    \A p \in Runners :
        /\ rpc[p] \in {"building", "built"} /\ Last(p) => StillRunning(p)
        /\ rpc[p] = "built" /\ held[p].key \notin Reports => FileOf(held[p]) \in files
        /\ rpc[p] \in {"cleaning", "leaseLost"} /\ Last(p) =>
              jobs[held[p].key].status # "ready" \/ held[p].key \in unheard

FileInv ==
    \A k \in Ready \ Reports : jobs[k].file = <<k, jobs[k].attempts>>

ExportInv ==
    /\ ExportTypeInv /\ ClaimInv /\ FinishInv /\ FileInv
    /\ StaleRunHarmless /\ ReportChainedOnce

LEMMA ExportInvInit == ExportInit => ExportInv
<1> SUFFICES ASSUME ExportInit PROVE ExportInv
    OBVIOUS
<1>1. ExportTypeInv
    BY ExportTypeInit
<1>2. \A k \in JobKeys : jobs[k].status = "absent"
    BY DEF ExportInit, NoJobRow
<1> QED BY <1>1, <1>2, ExportAssumption
        DEF ExportInit, ExportInv, ClaimInv, FinishInv, FileInv,
            StaleRunHarmless, ReportChainedOnce, Ready

(* What the steps that leave every run where it is do to a job.             *)
LEMMA JobsOfRunsKept ==
    ASSUME ExportInv, ExportTypeInv', UNCHANGED <<files, chained, rpc, held, unheard>>,
           \A k \in JobKeys :
               \/ jobs[k].status = "absent" /\ jobs'[k].status \in {"absent", "queued"}
               \/ /\ jobs'[k].attempts = jobs[k].attempts
                  /\ jobs'[k].file = jobs[k].file
                  /\ jobs'[k].status = jobs[k].status
    PROVE  ExportInv'
<1>1. \A p \in Runners : rpc[p] # "idle" => held[p].key \in JobKeys
    BY DEF ExportInv, ExportTypeInv, Claims
<1>2. Ready' = Ready
    BY DEF Ready
<1>3. ClaimInv'
    BY <1>1 DEF ExportInv, ClaimInv
<1>4. FinishInv'
    BY <1>1 DEF ExportInv, ClaimInv, FinishInv, Last, StillRunning, FileOf
<1>5. FileInv' /\ StaleRunHarmless' /\ ReportChainedOnce'
    BY <1>2, ExportAssumption DEF ExportInv, FileInv, StaleRunHarmless, ReportChainedOnce, Ready
<1> QED BY <1>3, <1>4, <1>5 DEF ExportInv

(* A run goes from one state to another, and nothing else changes.          *)
LEMMA RunMoves ==
    ASSUME ExportInv, ExportTypeInv', NEW p \in Runners, NEW s,
           UNCHANGED <<jobs, files, chained, held, unheard>>,
           rpc[p] # "idle", rpc' = [rpc EXCEPT ![p] = s],
           s = "building" => rpc[p] \in {"building", "built"},
           s = "built" => rpc[p] = "built",
           s \in {"cleaning", "leaseLost"} /\ Last(p) =>
               jobs[held[p].key].status # "ready" \/ held[p].key \in unheard
    PROVE  ExportInv'
<1>1. Ready' = Ready
    BY DEF Ready
<1>2. ClaimInv'
    BY DEF ExportInv, ExportTypeInv, ClaimInv
<1>3. FinishInv'
    BY DEF ExportInv, ExportTypeInv, FinishInv, Last, StillRunning, FileOf
<1>4. FileInv' /\ StaleRunHarmless' /\ ReportChainedOnce'
    BY <1>1 DEF ExportInv, FileInv, StaleRunHarmless, ReportChainedOnce
<1> QED BY <1>2, <1>3, <1>4 DEF ExportInv

(* A run ends, and nothing else changes.                                    *)
LEMMA RunLeaves ==
    ASSUME ExportInv, ExportTypeInv', NEW p \in Runners, RunEnds(p),
           UNCHANGED <<jobs, files, chained, unheard>>
    PROVE  ExportInv'
<1>1. Ready' = Ready
    BY DEF Ready
<1>2. /\ rpc'[p] = "idle"
      /\ \A q \in Runners \ {p} : rpc'[q] = rpc[q] /\ held'[q] = held[q]
    BY DEF RunEnds, ExportGoes, ExportInv, ExportTypeInv
<1>3. ClaimInv'
    BY <1>2 DEF ExportInv, ClaimInv
<1>4. FinishInv'
    BY <1>2 DEF ExportInv, FinishInv, Last, StillRunning, FileOf
<1>5. FileInv' /\ StaleRunHarmless' /\ ReportChainedOnce'
    BY <1>1 DEF ExportInv, FileInv, StaleRunHarmless, ReportChainedOnce
<1> QED BY <1>3, <1>4, <1>5 DEF ExportInv

(* A run that has the last claim finishes the job, and goes on to s or ends. *)
LEMMA RunFinishes ==
    ASSUME ExportInv, ExportTypeInv', NEW p \in Runners, rpc[p] \in {"built", "failing"},
           StillOurs(p), NEW s, NEW f, s \in {"ready", "failed"},
           jobs' = Finished(p, s, f), UNCHANGED files,
           s = "ready" /\ held[p].key \notin Reports =>
               f = FileOf(held[p]) /\ rpc[p] = "built",
           chained' = IF s = "ready" /\ held[p].key \in Reports
                      THEN chained \cup {held[p]} ELSE chained,
           \/ RunEnds(p) /\ unheard' = unheard
           \/ ExportGoes(p, "failing") /\ UNCHANGED <<held, unheard>>
           \/ /\ ExportGoes(p, "cleaning")
              /\ unheard' = unheard \cup {held[p].key}
              /\ UNCHANGED held
    PROVE  ExportInv'
<1> DEFINE k == held[p].key
<1>1. /\ k \in JobKeys /\ held[p] \in Claims /\ rpc[p] # "idle" /\ held[p] = [key |-> k, attempts |-> jobs[k].attempts]
      /\ jobs[k].status = "running"
    BY DEF ExportInv, ExportTypeInv, Claims, StillOurs, StillRunning
<1>2. /\ jobs'[k].status = s /\ jobs'[k].file = f /\ jobs'[k].attempts = jobs[k].attempts
      /\ \A o \in JobKeys \ {k} : jobs'[o] = jobs[o]
    <2>1. jobs[k] \in JobRows
        BY <1>1 DEF ExportInv, ExportTypeInv
    <2>2. /\ jobs'[k] = [jobs[k] EXCEPT !.status = s, !.leased = FALSE, !.file = f]
          /\ \A o \in JobKeys \ {k} : jobs'[o] = jobs[o]
        BY <1>1 DEF Finished, ExportInv, ExportTypeInv
    <2> QED BY <2>1, <2>2 DEF JobRows
<1>3. \A q \in Runners \ {p} : rpc'[q] = rpc[q] /\ held'[q] = held[q]
    BY DEF RunEnds, ExportGoes, ExportInv, ExportTypeInv
<1>4. /\ rpc'[p] \in {"idle", "failing", "cleaning"}
      /\ rpc'[p] # "idle" => held'[p] = held[p]
      /\ rpc'[p] = "cleaning" => k \in unheard'
      /\ unheard \subseteq unheard' /\ unheard' \subseteq unheard \cup {k}
    BY DEF RunEnds, ExportGoes, ExportInv, ExportTypeInv
<1>5. Ready' = IF s = "ready" THEN Ready \cup {k} ELSE Ready
    BY <1>1, <1>2 DEF Ready
<1>6. \A q \in Runners \ {p} : rpc[q] # "idle" /\ held[q].key = k => held[q].attempts # jobs[k].attempts
    <2> SUFFICES ASSUME NEW q \in Runners \ {p}, rpc[q] # "idle", held[q].key = k,
                        held[q].attempts = jobs[k].attempts
                 PROVE  FALSE
        OBVIOUS
    <2>1. held[q] \in Claims /\ held[q] # held[p]
        BY <1>1 DEF ExportInv, ExportTypeInv, ClaimInv
    <2> QED BY <1>1, <2>1 DEF Claims
<1>7. \A q \in Runners : rpc[q] # "idle" => held[q].key \in JobKeys
    BY DEF ExportInv, ExportTypeInv, Claims
<1> HIDE DEF k
<1>8. ClaimInv'
    <2> SUFFICES ASSUME NEW q \in Runners, rpc'[q] # "idle"
                 PROVE  /\ held'[q].attempts <= jobs'[held'[q].key].attempts
                        /\ jobs'[held'[q].key].status # "absent"
                        /\ \A r \in Runners \ {q} : rpc'[r] # "idle" => held'[r] # held'[q]
        BY DEF ClaimInv
    <2>1. rpc[q] # "idle" /\ held'[q] = held[q]
        BY <1>1, <1>3, <1>4
    <2>2. \A r \in Runners \ {q} : rpc'[r] # "idle" => rpc[r] # "idle" /\ held'[r] = held[r]
        BY <1>1, <1>3, <1>4
    <2> QED BY <2>1, <2>2, <1>1, <1>2, <1>7 DEF ExportInv, ClaimInv
<1>9. FinishInv'
    <2> SUFFICES ASSUME NEW q \in Runners
                 PROVE  /\ rpc'[q] \in {"building", "built"} /\ Last(q)' => StillRunning(q)'
                        /\ rpc'[q] = "built" /\ held'[q].key \notin Reports => FileOf(held'[q]) \in files
                        /\ rpc'[q] \in {"cleaning", "leaseLost"} /\ Last(q)' =>
                              jobs'[held'[q].key].status # "ready" \/ held'[q].key \in unheard'
        BY DEF FinishInv
    <2>1. CASE q = p
        BY <2>1, <1>4 DEF k
    <2>2. CASE q # p
        BY <2>2, <1>2, <1>3, <1>4, <1>6, <1>7
        DEF ExportInv, FinishInv, Last, StillRunning
    <2> QED BY <2>1, <2>2
<1>10. FileInv'
    <2> SUFFICES ASSUME NEW o \in Ready' \ Reports
                 PROVE  jobs'[o].file = <<o, jobs'[o].attempts>>
        BY DEF FileInv
    <2>1. CASE o = k
        <3>1. s = "ready"
            BY <2>1, <1>1, <1>5 DEF Ready
        <3> QED BY <2>1, <3>1, <1>1, <1>2 DEF FileOf, k
    <2>2. CASE o # k
        BY <2>2, <1>2, <1>5 DEF ExportInv, FileInv, Ready
    <2> QED BY <2>1, <2>2
<1>11. StaleRunHarmless'
    <2>1. s = "ready" /\ k \notin Reports => jobs'[k].file \in files
        BY <1>2 DEF ExportInv, FinishInv, k
    <2> QED BY <2>1, <1>1, <1>2, <1>4, <1>5 DEF ExportInv, StaleRunHarmless, Ready
<1>12. ReportChainedOnce'
    <2> SUFFICES ASSUME NEW o \in Reports
                 PROVE  {c \in chained' : c.key = o} =
                            IF o \in Ready' THEN {[key |-> o, attempts |-> jobs'[o].attempts]} ELSE {}
        BY DEF ReportChainedOnce
    <2>1. {c \in chained : c.key = o} =
              IF o \in Ready THEN {[key |-> o, attempts |-> jobs[o].attempts]} ELSE {}
        BY DEF ExportInv, ReportChainedOnce
    <2>2. o \in JobKeys
        BY ExportAssumption
    <2>3. k \notin Ready
        BY <1>1 DEF Ready
    <2>4. CASE o = k
        BY <2>1, <2>3, <2>4, <1>1, <1>2, <1>5 DEF k
    <2>5. CASE o # k
        BY <2>1, <2>2, <2>5, <1>1, <1>2, <1>5 DEF k
    <2> QED BY <2>4, <2>5
<1> QED BY <1>8, <1>9, <1>10, <1>11, <1>12 DEF ExportInv

LEMMA ExportInvStep == ExportInv /\ [ExportNext]_exportVars => ExportInv'
<1> SUFFICES ASSUME ExportInv, [ExportNext]_exportVars PROVE ExportInv'
    OBVIOUS
<1>0. ExportTypeInv'
    BY ExportTypeStep DEF ExportInv
<1>1. ASSUME NEW q \in Posters, CreateOrGet(q) PROVE ExportInv'
    <2>1. \A k \in JobKeys : \/ jobs[k].status = "absent" /\ jobs'[k].status = "queued"
                             \/ jobs'[k] = jobs[k]
        BY <1>1 DEF CreateOrGet, ExportInv, ExportTypeInv, NoJobRow
    <2> QED BY <1>0, <1>1, <2>1, JobsOfRunsKept DEF CreateOrGet
<1>2. ASSUME NEW q \in Posters, NEW k \in JobKeys, Post(q, k) PROVE ExportInv'
    BY <1>0, <1>2, JobsOfRunsKept DEF Post
<1>3. ASSUME NEW k \in JobKeys, LeaseEnds(k) PROVE ExportInv'
    <2>1. \A o \in JobKeys : /\ jobs'[o].attempts = jobs[o].attempts
                             /\ jobs'[o].file = jobs[o].file
                             /\ jobs'[o].status = jobs[o].status
        BY <1>3 DEF LeaseEnds, ExportInv, ExportTypeInv, JobRows
    <2> QED BY <1>0, <1>3, <2>1, JobsOfRunsKept DEF LeaseEnds
<1>4. ASSUME NEW p \in Runners, NEW k \in JobKeys, ClaimJob(p, k) PROVE ExportInv'
    <2>1. /\ jobs'[k].attempts = jobs[k].attempts + 1 /\ jobs'[k].status = "running"
          /\ jobs[k].status \in {"queued", "running"} /\ jobs[k].attempts \in Nat
          /\ \A o \in JobKeys \ {k} : jobs'[o] = jobs[o]
        BY <1>4 DEF ClaimJob, ExportInv, ExportTypeInv, JobRows
    <2>2. /\ rpc'[p] = "building" /\ rpc[p] = "idle"
          /\ held'[p] = [key |-> k, attempts |-> jobs[k].attempts + 1]
          /\ \A q \in Runners \ {p} : rpc'[q] = rpc[q] /\ held'[q] = held[q]
        BY <1>4 DEF ClaimJob, ExportInv, ExportTypeInv
    <2>3. Ready' = Ready /\ k \notin Ready
        BY <2>1 DEF Ready
    <2>4. \A q \in Runners : rpc[q] # "idle" =>
              /\ held[q].key \in JobKeys /\ held[q].attempts \in Nat
              /\ held[q].key = k => held[q].attempts <= jobs[k].attempts
        BY DEF ExportInv, ExportTypeInv, Claims, ClaimInv
    <2>5. ClaimInv'
        <3> SUFFICES ASSUME NEW q \in Runners, rpc'[q] # "idle"
                     PROVE  /\ held'[q].attempts <= jobs'[held'[q].key].attempts
                            /\ jobs'[held'[q].key].status # "absent"
                            /\ \A r \in Runners \ {q} : rpc'[r] # "idle" => held'[r] # held'[q]
            BY DEF ClaimInv
        <3>1. \A r \in Runners \ {p} : rpc[r] # "idle" => held[r] # held'[p]
            BY <2>1, <2>2, <2>4
        <3>2. CASE q = p
            BY <2>1, <2>2, <3>1, <3>2
        <3>3. CASE q # p
            BY <2>1, <2>2, <2>4, <3>1, <3>3 DEF ExportInv, ClaimInv
        <3> QED BY <3>2, <3>3
    <2>6. FinishInv'
        <3> SUFFICES ASSUME NEW q \in Runners
                     PROVE  /\ rpc'[q] \in {"building", "built"} /\ Last(q)' => StillRunning(q)'
                            /\ rpc'[q] = "built" /\ held'[q].key \notin Reports => FileOf(held'[q]) \in files'
                            /\ rpc'[q] \in {"cleaning", "leaseLost"} /\ Last(q)' =>
                                  jobs'[held'[q].key].status # "ready" \/ held'[q].key \in unheard'
            BY DEF FinishInv
        <3>1. CASE q = p
            BY <2>1, <2>2, <3>1 DEF StillRunning
        <3>2. CASE q # p
            <4>1. rpc'[q] = rpc[q] /\ held'[q] = held[q] /\ files' = files /\ unheard' = unheard
                BY <1>4, <2>2, <3>2 DEF ClaimJob
            <4>2. CASE rpc[q] = "idle"
                BY <4>1, <4>2
            <4>3. CASE rpc[q] # "idle" /\ held[q].key = k
                <5>1. ~Last(q)'
                    BY <2>1, <2>4, <4>1, <4>3 DEF Last
                <5> QED BY <4>1, <5>1 DEF ExportInv, FinishInv, FileOf
            <4>4. CASE rpc[q] # "idle" /\ held[q].key # k
                BY <2>1, <2>4, <4>1, <4>4 DEF ExportInv, FinishInv, Last, StillRunning, FileOf
            <4> QED BY <4>2, <4>3, <4>4
        <3> QED BY <3>1, <3>2
    <2>7. UNCHANGED <<files, chained, unheard>>
        BY <1>4 DEF ClaimJob
    <2>8. FileInv' /\ StaleRunHarmless' /\ ReportChainedOnce'
        BY <2>1, <2>3, <2>7, ExportAssumption
        DEF ExportInv, FileInv, StaleRunHarmless, ReportChainedOnce, Ready
    <2> QED BY <1>0, <2>5, <2>6, <2>8 DEF ExportInv
<1>5. ASSUME NEW p \in Runners, Build(p) PROVE ExportInv'
    <2>1. /\ rpc[p] = "building" /\ rpc'[p] = "built" /\ files \subseteq files'
          /\ held[p].key \notin Reports => FileOf(held[p]) \in files'
          /\ \A q \in Runners \ {p} : rpc'[q] = rpc[q]
        BY <1>5 DEF Build, ExportGoes, ExportInv, ExportTypeInv
    <2>2. UNCHANGED <<jobs, chained, held, unheard>>
        BY <1>5 DEF Build
    <2>3. Ready' = Ready
        BY <2>2 DEF Ready
    <2>4. ClaimInv'
        BY <2>1, <2>2 DEF ExportInv, ClaimInv
    <2>5. FinishInv'
        BY <2>1, <2>2 DEF ExportInv, FinishInv, Last, StillRunning
    <2>6. FileInv' /\ StaleRunHarmless' /\ ReportChainedOnce'
        BY <2>1, <2>2, <2>3 DEF ExportInv, FileInv, StaleRunHarmless, ReportChainedOnce
    <2> QED BY <1>0, <2>4, <2>5, <2>6 DEF ExportInv
<1>6. ASSUME NEW p \in Runners, BuildFails(p) \/ RebuildReport(p) PROVE ExportInv'
    BY <1>0, <1>6, RunMoves DEF BuildFails, RebuildReport, ExportGoes
<1>7. ASSUME NEW p \in Runners, FinishPack(p) PROVE ExportInv'
    <2>1. CASE StillOurs(p) /\ jobs' = Finished(p, "ready", FileOf(held[p]))
        BY <1>0, <1>7, <2>1, RunFinishes DEF FinishPack
    <2>2. CASE ~StillOurs(p) /\ ExportGoes(p, "leaseLost") /\ UNCHANGED <<jobs, held, unheard>>
        <3>1. ~Last(p)
            BY <1>7, <2>2 DEF FinishPack, StillOurs, Last, ExportInv, FinishInv
        <3> QED BY <1>0, <1>7, <2>2, <3>1, RunMoves DEF FinishPack, ExportGoes
    <2> QED BY <1>7, <2>1, <2>2 DEF FinishPack
<1>8. ASSUME NEW p \in Runners, FinishReport(p) PROVE ExportInv'
    <2>1. CASE StillOurs(p) /\ jobs' = Finished(p, "ready", NoFile)
        BY <1>0, <1>8, <2>1, RunFinishes DEF FinishReport
    <2>2. CASE ~StillOurs(p) /\ RunEnds(p) /\ UNCHANGED <<jobs, chained>>
        BY <1>0, <1>8, <2>2, RunLeaves DEF FinishReport
    <2> QED BY <1>8, <2>1, <2>2 DEF FinishReport
<1>9. ASSUME NEW p \in Runners, FinishFails(p) PROVE ExportInv'
    <2>1. Last(p) => jobs[held[p].key].status # "ready"
        BY <1>9 DEF FinishFails, ExportInv, FinishInv, StillRunning
    <2> DEFINE s == IF held[p].key \in Reports THEN "failing" ELSE "cleaning"
    <2>2. s # "building" /\ s # "built" /\ rpc[p] # "idle" /\ rpc' = [rpc EXCEPT ![p] = s]
        BY <1>9 DEF FinishFails, ExportGoes
    <2> HIDE DEF s
    <2> QED BY <1>0, <1>9, <2>1, <2>2, RunMoves DEF FinishFails
<1>10. ASSUME NEW p \in Runners, RemoveFile(p) PROVE ExportInv'
    <2>1. held[p] \in Claims /\ rpc[p] # "idle"
        BY <1>10 DEF RemoveFile, ExportInv, ExportTypeInv
    <2>2. files \ {FileOf(held[p])} \subseteq files' /\ UNCHANGED <<jobs, chained, unheard>>
        BY <1>10 DEF RemoveFile
    <2>3. /\ rpc'[p] \in {"idle", "failing"}
          /\ rpc'[p] # "idle" => held'[p] = held[p]
          /\ \A q \in Runners \ {p} : rpc'[q] = rpc[q] /\ held'[q] = held[q]
        BY <1>10 DEF RemoveFile, RunEnds, ExportGoes, ExportInv, ExportTypeInv
    <2>4. Ready' = Ready
        BY <2>2 DEF Ready
    <2>5. ClaimInv'
        BY <2>1, <2>2, <2>3 DEF ExportInv, ClaimInv
    <2>6. FinishInv'
        <3>1. \A q \in Runners \ {p} : rpc[q] # "idle" => FileOf(held[q]) # FileOf(held[p])
            BY <2>1 DEF ExportInv, ExportTypeInv, ClaimInv, FileOf, Claims
        <3> QED BY <2>2, <2>3, <3>1 DEF ExportInv, FinishInv, Last, StillRunning
    <2>7. \A k \in Ready \ (Reports \cup unheard) : jobs[k].file # FileOf(held[p])
        <3> SUFFICES ASSUME NEW k \in Ready \ (Reports \cup unheard), jobs[k].file = FileOf(held[p])
                     PROVE  FALSE
            OBVIOUS
        <3>1. <<k, jobs[k].attempts>> = <<held[p].key, held[p].attempts>>
            BY DEF ExportInv, FileInv, FileOf
        <3>2. k = held[p].key /\ Last(p)
            BY <3>1 DEF Last
        <3> QED BY <1>10, <3>2 DEF RemoveFile, ExportInv, FinishInv, Ready
    <2>8. FileInv' /\ StaleRunHarmless' /\ ReportChainedOnce'
        BY <2>2, <2>4, <2>7 DEF ExportInv, FileInv, StaleRunHarmless, ReportChainedOnce
    <2> QED BY <1>0, <2>5, <2>6, <2>8 DEF ExportInv
<1>11. ASSUME NEW p \in Runners, FinishFailed(p) PROVE ExportInv'
    <2>1. CASE StillOurs(p) /\ jobs' = Finished(p, "failed", NoFile)
        BY <1>0, <1>11, <2>1, RunFinishes DEF FinishFailed
    <2>2. CASE UNCHANGED jobs
        BY <1>0, <1>11, <2>2, RunLeaves DEF FinishFailed
    <2> QED BY <1>11, <2>1, <2>2 DEF FinishFailed
<1>12. ASSUME NEW p \in Runners, RunCrashes(p) PROVE ExportInv'
    BY <1>0, <1>12, RunLeaves DEF RunCrashes
<1>13. CASE UNCHANGED exportVars
    <2>1. UNCHANGED <<jobs, files, chained, rpc, held, unheard>>
        BY <1>13 DEF exportVars
    <2> QED BY <1>0, <2>1, JobsOfRunsKept
<1> QED
    BY <1>1, <1>2, <1>3, <1>4, <1>5, <1>6, <1>7, <1>8, <1>9, <1>10, <1>11, <1>12, <1>13
    DEF ExportNext

LEMMA ExportInvariant == ExportSpec => []ExportInv
BY ExportInvInit, ExportInvStep, PTL DEF ExportSpec

(* A run whose lease was retaken never takes away the file that its          *)
(* successor finished the job with (runEvidencePack, runAuditExport).        *)
THEOREM StaleRunsHarmless == ExportSpec => []StaleRunHarmless
<1>1. ExportInv => StaleRunHarmless
    BY DEF ExportInv
<1> QED BY <1>1, ExportInvariant, PTL

(* A report job chains one statement, in the step that makes it ready        *)
(* (runPeriodReport's chainReady), whatever leases and answers are lost.     *)
THEOREM ReportsChainedOnce == ExportSpec => []ReportChainedOnce
<1>1. ExportInv => ReportChainedOnce
    BY DEF ExportInv
<1> QED BY <1>1, ExportInvariant, PTL

-----------------------------------------------------------------------------
(*                              SecurityLease                               *)
(***************************************************************************)
(* Types.  A fetch that is under way read the clock at or before now.       *)
(***************************************************************************)
Modes == {"off", "monitor"}
FetchStates == {"idle", "data", "bundle", "newest", "signing", "served"}
Policies == [data : Nat, mode : Modes, rules : Nat, epoch : Nat]
LeaseRows == [issued : Nat, data : Nat, mode : Modes \cup {"none"}, epoch : Nat]
FetchRows == [at : Nat, tries : Nat, fresh : BOOLEAN, seen : Policies, lease : LeaseRows]

LeaseTypeInv ==
    /\ ticks \in Nat
    /\ policy \in Policies
    /\ leases \in Seq(LeaseRows)
    /\ fpc \in [Fetches -> FetchStates]
    /\ fetch \in [Fetches -> FetchRows]
    /\ \A f \in Fetches : fetch[f].at <= ticks

(***************************************************************************)
(* What is stored.  The settings only move forward and the mode moves with  *)
(* the data settings, so that a stored lease is never ahead of them, and    *)
(* one of the same data settings has their mode.                            *)
(***************************************************************************)
StoredInv ==
    \A i \in 1..Len(leases) :
        /\ leases[i].issued <= ticks
        /\ leases[i].data <= policy.data /\ leases[i].epoch <= policy.epoch
        /\ leases[i].data = policy.data => leases[i].mode = policy.mode

(***************************************************************************)
(* What a fetch that no publication has overtaken has read is what is       *)
(* published, and a lease stored since it began is for that as well.        *)
(***************************************************************************)
FreshInv ==
    \A f \in Fetches : fpc[f] # "idle" /\ fetch[f].fresh =>
        /\ fpc[f] \in {"bundle", "newest", "signing", "served"} =>
              fetch[f].seen.data = policy.data /\ fetch[f].seen.mode = policy.mode
        /\ fpc[f] \in {"newest", "signing", "served"} =>
              fetch[f].seen.epoch = policy.epoch
        /\ \A i \in 1..Len(leases) :
              leases[i].issued > fetch[f].at => SameState(leases[i], policy)

LeaseInv ==
    /\ LeaseTypeInv /\ StoredInv /\ FreshInv
    /\ ServedIsCurrent /\ StoredInOrder /\ NoTwinLeases

LEMMA LeaseInvInit == LeaseInit => LeaseInv
<1> SUFFICES ASSUME LeaseInit PROVE LeaseInv
    OBVIOUS
<1>1. NoPolicy \in Policies /\ NoLease \in LeaseRows
    BY DEF NoPolicy, NoLease, Policies, LeaseRows, NoBundle, Modes
<1>2. NoFetch \in FetchRows /\ NoFetch.at = 0
    BY <1>1 DEF NoFetch, FetchRows
<1>3. LeaseTypeInv
    BY <1>1, <1>2 DEF LeaseInit, LeaseTypeInv, FetchStates
<1>4. Len(leases) = 0 /\ \A f \in Fetches : fpc[f] = "idle"
    BY DEF LeaseInit
<1> QED BY <1>3, <1>4
        DEF LeaseInv, StoredInv, FreshInv, ServedIsCurrent, StoredInOrder, NoTwinLeases

(* What a change makes of the settings is further on, in a data settings of  *)
(* its own when it has another mode.                                         *)
LEMMA PlannedForward ==
    ASSUME NEW p \in Policies, NEW q \in Planned(p)
    PROVE  /\ q \in Policies
           /\ p.data <= q.data /\ p.epoch <= q.epoch
           /\ p.data = q.data => p.mode = q.mode
<1>1. CASE q = [p EXCEPT !.rules = @ + 1, !.epoch = @ + 1]
    <2> DEFINE half == [p EXCEPT !.rules = @ + 1]
    <2>1. /\ half \in Policies
          /\ half.data = p.data /\ half.mode = p.mode /\ half.epoch = p.epoch
        BY DEF Policies
    <2>2. q = [half EXCEPT !.epoch = p.epoch + 1]
        BY <1>1
    <2> HIDE DEF half
    <2> QED BY <2>1, <2>2 DEF Policies
<1>2. CASE q = [p EXCEPT !.data = @ + 1]
    BY <1>2 DEF Policies
<1>3. CASE q = [data |-> p.data + 1, mode |-> "monitor",
                rules |-> IF p.rules = 0 THEN 1 ELSE p.rules, epoch |-> 1]
           /\ p.epoch = NoBundle
    BY <1>3 DEF Policies, Modes, NoBundle
<1>4. CASE q = [p EXCEPT !.data = @ + 1, !.mode = Other(p.mode)]
    <2> DEFINE half == [p EXCEPT !.data = @ + 1]
    <2>1. /\ half \in Policies
          /\ half.data = p.data + 1 /\ half.epoch = p.epoch
        BY DEF Policies
    <2>2. q = [half EXCEPT !.mode = Other(p.mode)] /\ Other(p.mode) \in Modes
        BY <1>4 DEF Other, Modes
    <2> HIDE DEF half
    <2> QED BY <2>1, <2>2 DEF Policies
<1> QED BY <1>1, <1>2, <1>3, <1>4 DEF Planned

(* A step of a fetch that stores nothing.                                    *)
LEMMA FetchMoves ==
    ASSUME LeaseInv, NEW f \in Fetches, NEW s \in FetchStates, NEW r \in FetchRows,
           FetchGoes(f, s, r), UNCHANGED leases,
           r.at <= ticks,
           s # "idle" /\ r.fresh =>
               /\ r.at = ticks \/ (r.at = fetch[f].at /\ fpc[f] # "idle" /\ fetch[f].fresh)
               /\ s \in {"bundle", "newest", "signing", "served"} =>
                     r.seen.data = policy.data /\ r.seen.mode = policy.mode
               /\ s \in {"newest", "signing", "served"} => r.seen.epoch = policy.epoch
               /\ s = "served" => SameState(r.lease, policy)
    PROVE  LeaseInv'
<1>1. UNCHANGED <<ticks, policy, leases>>
    BY DEF FetchGoes
<1>2. /\ fpc'[f] = s /\ fetch'[f] = r
      /\ \A g \in Fetches \ {f} : fpc'[g] = fpc[g] /\ fetch'[g] = fetch[g]
    BY DEF FetchGoes, LeaseInv, LeaseTypeInv
<1>3. LeaseTypeInv'
    BY <1>1, <1>2 DEF FetchGoes, LeaseInv, LeaseTypeInv
<1>4. StoredInv' /\ StoredInOrder' /\ NoTwinLeases'
    BY <1>1 DEF LeaseInv, StoredInv, StoredInOrder, NoTwinLeases
<1>5. ServedIsCurrent'
    BY <1>1, <1>2 DEF LeaseInv, ServedIsCurrent, SameState
<1>6. FreshInv'
    <2> SUFFICES ASSUME NEW g \in Fetches, fpc'[g] # "idle", fetch'[g].fresh
                 PROVE  /\ fpc'[g] \in {"bundle", "newest", "signing", "served"} =>
                              fetch'[g].seen.data = policy.data /\ fetch'[g].seen.mode = policy.mode
                        /\ fpc'[g] \in {"newest", "signing", "served"} =>
                              fetch'[g].seen.epoch = policy.epoch
                        /\ \A i \in 1..Len(leases) :
                              leases[i].issued > fetch'[g].at => SameState(leases[i], policy)
        BY <1>1 DEF FreshInv, SameState
    <2>1. CASE g # f
        BY <1>2, <2>1 DEF LeaseInv, FreshInv
    <2>2. CASE g = f
        <3>1. \A i \in 1..Len(leases) : ~(leases[i].issued > ticks)
            <4> SUFFICES ASSUME NEW i \in 1..Len(leases) PROVE ~(leases[i].issued > ticks)
                OBVIOUS
            <4>1. leases[i] \in LeaseRows /\ ticks \in Nat
                BY DEF LeaseInv, LeaseTypeInv
            <4> QED BY <4>1 DEF LeaseInv, StoredInv, LeaseRows
        <3>2. \A i \in 1..Len(leases) :
                  leases[i].issued > fetch'[g].at => SameState(leases[i], policy)
            BY <1>2, <2>2, <3>1 DEF LeaseInv, FreshInv
        <3> QED BY <1>2, <2>2, <3>2
    <2> QED BY <2>1, <2>2
<1> QED BY <1>3, <1>4, <1>5, <1>6 DEF LeaseInv

(* The newest lease, if there is one: the last one stored is of the latest   *)
(* time of issue.                                                            *)
LEMMA NewestOfStored ==
    ASSUME LeaseInv
    PROVE  /\ Newest1(leases) = {} => Len(leases) = 0
           /\ \A m \in Newest1(leases) : \E k \in 1..Len(leases) :
                 m = leases[k] /\ \A i \in 1..Len(leases) : leases[i].issued <= m.issued
<1>1. Len(leases) \in Nat /\ \A i \in 1..Len(leases) : leases[i] \in LeaseRows
    BY DEF LeaseInv, LeaseTypeInv
<1>2. ASSUME Len(leases) # 0 PROVE leases[Len(leases)] \in Newest1(leases)
    <2>1. Len(leases) \in 1..Len(leases)
        BY <1>1, <1>2
    <2>2. \A k \in 1..Len(leases) : leases[k].issued <= leases[Len(leases)].issued
        <3> TAKE k \in 1..Len(leases)
        <3>1. CASE k = Len(leases)
            BY <1>1, <3>1 DEF LeaseRows
        <3>2. CASE k < Len(leases)
            BY <2>1, <3>2 DEF LeaseInv, StoredInOrder
        <3> QED BY <1>1, <3>1, <3>2
    <2> QED BY <2>1, <2>2 DEF Newest1
<1> QED BY <1>2 DEF Newest1

(* A lease is stored and served: it is for the settings of this moment, and  *)
(* the newest lease is neither newer nor reusable for them.                  *)
LEMMA LeaseStored ==
    ASSUME LeaseInv, NEW f \in Fetches, fpc[f] = "signing",
           SameState(fetch[f].seen, policy), NEW new, new.issued = fetch[f].at,
           new \in LeaseRows, SameState(new, policy),
           leases' = Append(leases, new), Serve(f, new),
           Newest1(leases) = {} \/ \E m \in Newest1(leases) : ~ServedInstead(m, f)
    PROVE  LeaseInv'
<1> DEFINE n == Len(leases)
<1>1. /\ n \in Nat /\ \A i \in 1..n : leases[i] \in LeaseRows
      /\ policy \in Policies /\ ticks \in Nat /\ fetch[f] \in FetchRows
      /\ fetch[f].at <= ticks /\ fetch[f].at \in Nat
    BY DEF LeaseInv, LeaseTypeInv, FetchRows
<1>2. /\ leases' \in Seq(LeaseRows) /\ Len(leases') = n + 1 /\ leases'[n + 1] = new
      /\ \A i \in 1..n : leases'[i] = leases[i]
    BY DEF LeaseInv, LeaseTypeInv
<1>3. UNCHANGED <<ticks, policy>>
    BY DEF Serve, FetchGoes
<1>4. /\ fpc'[f] = "served" /\ fetch'[f].lease = new /\ fetch'[f] \in FetchRows
      /\ fetch'[f].at = fetch[f].at /\ fetch'[f].fresh = fetch[f].fresh
      /\ fetch'[f].seen = fetch[f].seen
      /\ \A g \in Fetches \ {f} : fpc'[g] = fpc[g] /\ fetch'[g] = fetch[g]
    <2>1. fetch'[f] = [fetch[f] EXCEPT !.lease = new]
        BY DEF Serve, FetchGoes, LeaseInv, LeaseTypeInv
    <2>2. fetch'[f] \in FetchRows
        BY <1>1, <2>1 DEF FetchRows
    <2> QED BY <1>1, <2>1, <2>2 DEF FetchRows, Serve, FetchGoes, LeaseInv, LeaseTypeInv
<1>5. \A i \in 1..n : leases[i].issued <= new.issued
    <2>1. CASE n = 0
        BY <2>1
    <2>2. CASE n # 0
        <3>1. PICK m \in Newest1(leases) : ~ServedInstead(m, f)
            BY <2>2, NewestOfStored
        <3>2. PICK k \in 1..n : m = leases[k] /\ \A i \in 1..n : leases[i].issued <= m.issued
            BY NewestOfStored
        <3>3. ~(m.issued > fetch[f].at)
            BY <3>1 DEF ServedInstead
        <3>4. m.issued \in Nat /\ fetch[f].at \in Nat /\ new.issued = fetch[f].at
            BY <1>1, <3>2 DEF LeaseRows
        <3>5. m.issued <= new.issued
            BY <3>3, <3>4
        <3>6. \A i \in 1..n : leases[i].issued \in Nat
            BY <1>1 DEF LeaseRows
        <3> QED BY <3>2, <3>4, <3>5, <3>6
    <2> QED BY <2>1, <2>2
<1>6. new.data = policy.data /\ new.mode = policy.mode /\ new.epoch = policy.epoch
    BY DEF SameState
<1> HIDE DEF n
<1>7. LeaseTypeInv'
    BY <1>1, <1>2, <1>3, <1>4 DEF Serve, FetchGoes, LeaseInv, LeaseTypeInv, FetchStates
<1>8. \A i \in 1..(n + 1) : i \in 1..n \/ i = n + 1
    BY <1>1
<1>9. StoredInv'
    <2> SUFFICES ASSUME NEW i \in 1..(n + 1)
                 PROVE  /\ leases'[i].issued <= ticks
                        /\ leases'[i].data <= policy.data /\ leases'[i].epoch <= policy.epoch
                        /\ leases'[i].data = policy.data => leases'[i].mode = policy.mode
        BY <1>2, <1>3 DEF StoredInv
    <2>1. CASE i \in 1..n
        BY <1>2, <2>1 DEF LeaseInv, StoredInv, n
    <2>2. CASE i = n + 1
        BY <1>1, <1>2, <1>6, <2>2 DEF Policies, LeaseRows
    <2> QED BY <1>8, <2>1, <2>2
<1>10. FreshInv'
    <2> SUFFICES ASSUME NEW g \in Fetches, fpc'[g] # "idle", fetch'[g].fresh
                 PROVE  /\ fpc'[g] \in {"bundle", "newest", "signing", "served"} =>
                              fetch'[g].seen.data = policy.data /\ fetch'[g].seen.mode = policy.mode
                        /\ fpc'[g] \in {"newest", "signing", "served"} =>
                              fetch'[g].seen.epoch = policy.epoch
                        /\ \A i \in 1..(n + 1) :
                              leases'[i].issued > fetch'[g].at => SameState(leases'[i], policy)
        BY <1>2, <1>3 DEF FreshInv, SameState
    <2>1. fpc[g] # "idle" /\ fetch[g].fresh /\ fetch'[g].at = fetch[g].at
        BY <1>4
    <2>2. \A i \in 1..(n + 1) : leases'[i].issued > fetch[g].at => SameState(leases'[i], policy)
        BY <1>2, <1>8, <2>1 DEF LeaseInv, FreshInv, n
    <2>3. CASE g = f
        BY <1>4, <2>1, <2>2, <2>3 DEF SameState
    <2>4. CASE g # f
        BY <1>4, <2>1, <2>2, <2>4 DEF LeaseInv, FreshInv
    <2> QED BY <2>3, <2>4
<1>11. ServedIsCurrent'
    BY <1>3, <1>4, <1>6 DEF LeaseInv, ServedIsCurrent, SameState
<1>12. StoredInOrder'
    <2> SUFFICES ASSUME NEW i \in 1..(n + 1), NEW j \in 1..(n + 1), i < j
                 PROVE  /\ leases'[i].issued <= leases'[j].issued
                        /\ leases'[i].data <= leases'[j].data /\ leases'[i].epoch <= leases'[j].epoch
        BY <1>2 DEF StoredInOrder
    <2>1. i \in 1..n
        BY <1>1
    <2>2. CASE j \in 1..n
        BY <1>2, <2>1, <2>2 DEF LeaseInv, StoredInOrder, n
    <2>3. CASE j = n + 1
        BY <1>2, <1>5, <1>6, <2>1, <2>3 DEF LeaseInv, StoredInv, n
    <2> QED BY <1>8, <2>2, <2>3
<1>13. NoTwinLeases'
    <2> SUFFICES ASSUME NEW i \in 1..(n + 1), NEW j \in 1..(n + 1), i < j,
                        SameState(leases'[i], leases'[j])
                 PROVE  \/ leases'[i].issued + Reuse <= leases'[j].issued
                        \/ \E k \in 1..(i - 1) :
                               leases'[k].issued = leases'[i].issued /\ ~SameState(leases'[k], leases'[i])
        BY <1>2 DEF NoTwinLeases, SameState
    <2>1. i \in 1..n /\ \A k \in 1..(i - 1) : k \in 1..n
        BY <1>1
    <2>2. CASE j \in 1..n
        BY <1>2, <2>1, <2>2 DEF LeaseInv, NoTwinLeases, n
    <2>3. CASE j = n + 1
        <3>1. SameState(leases[i], new)
            BY <1>2, <2>1, <2>3
        <3>2. PICK m \in Newest1(leases) : ~ServedInstead(m, f)
            BY <1>1, <2>1, NewestOfStored DEF n
        <3>3. PICK k \in 1..n : m = leases[k] /\ \A o \in 1..n : leases[o].issued <= m.issued
            BY NewestOfStored DEF n
        <3>4. leases[i] \in LeaseRows /\ leases[k] \in LeaseRows
            BY <1>1, <2>1 DEF n
        <3>5. leases[i].issued <= leases[k].issued /\ leases[k].issued <= new.issued
            BY <1>5, <2>1, <3>3 DEF n
        <3> DEFINE mi == leases[k].issued
                   li == leases[i].issued
        <3>6. mi \in Nat /\ li \in Nat
            BY <3>4 DEF LeaseRows
        <3> HIDE DEF mi, li
        <3>7. Reuse \in Nat /\ Validity \in Nat /\ Reuse <= Validity
            BY LeaseAssumption
        <3>8. CASE SameState(leases[k], policy)
            <4>1. /\ mi <= fetch[f].at
                  /\ ~(fetch[f].at - mi < Reuse /\ fetch[f].at < mi + Validity)
                BY <1>1, <3>2, <3>3, <3>5, <3>8, <3>6 DEF ServedInstead, Reusable, mi
            <4>2. mi + Reuse <= fetch[f].at
                <5> DEFINE at == fetch[f].at
                <5>1. at \in Nat /\ mi <= at /\ ~(at - mi < Reuse /\ at < mi + Validity)
                    BY <1>1, <4>1
                <5> HIDE DEF at
                <5>2. mi + Reuse <= at
                    BY <3>6, <3>7, <5>1
                <5> QED BY <5>2 DEF at
            <4>3. li <= mi
                BY <3>5 DEF li, mi
            <4>4. li + Reuse <= fetch[f].at
                BY <1>1, <3>6, <3>7, <4>2, <4>3
            <4> QED BY <1>2, <2>1, <2>3, <4>4 DEF li
        <3>9. CASE ~SameState(leases[k], policy)
            <4>1. k # i
                BY <3>1, <3>9, <1>6 DEF SameState
            <4>2. ~(i < k)
                <5> SUFFICES ASSUME i < k PROVE FALSE
                    OBVIOUS
                <5>1. leases[i].data <= leases[k].data /\ leases[i].epoch <= leases[k].epoch
                    BY <1>1, <2>1 DEF LeaseInv, StoredInOrder, n
                <5>2. leases[k].data <= policy.data /\ leases[k].epoch <= policy.epoch
                    BY DEF LeaseInv, StoredInv, n
                <5>3. leases[k].data = policy.data /\ leases[k].epoch = policy.epoch
                    BY <1>1, <1>6, <3>1, <3>4, <5>1, <5>2 DEF SameState, Policies, LeaseRows
                <5>4. leases[k].mode = policy.mode
                    BY <5>3 DEF LeaseInv, StoredInv, n
                <5> QED BY <3>9, <5>3, <5>4 DEF SameState
            <4>3. k \in 1..(i - 1)
                BY <1>1, <2>1, <4>1, <4>2
            <4>4. leases[k].issued <= leases[i].issued
                BY <1>1, <2>1, <4>3 DEF LeaseInv, StoredInOrder, n
            <4>5. li = mi
                <5>1. mi <= li /\ li <= mi
                    BY <3>5, <4>4 DEF li, mi
                <5> QED BY <3>6, <5>1
            <4>6. ~SameState(leases[k], leases[i])
                BY <1>6, <3>1, <3>9 DEF SameState
            <4> QED BY <1>2, <2>1, <4>3, <4>5, <4>6 DEF li, mi
        <3> QED BY <3>8, <3>9
    <2> QED BY <1>8, <2>2, <2>3
<1> QED BY <1>7, <1>9, <1>10, <1>11, <1>12, <1>13 DEF LeaseInv

LEMMA LeaseInvStep == LeaseInv /\ [LeaseNext]_leaseVars => LeaseInv'
<1> SUFFICES ASSUME LeaseInv, [LeaseNext]_leaseVars PROVE LeaseInv'
    OBVIOUS
<1>0. /\ \A f \in Fetches : fetch[f] \in FetchRows /\ fetch[f].at <= ticks
      /\ policy \in Policies /\ ticks \in Nat /\ leases \in Seq(LeaseRows)
      /\ \A i \in 1..Len(leases) : leases[i] \in LeaseRows
    BY DEF LeaseInv, LeaseTypeInv
<1>1. NoFetch \in FetchRows /\ NoFetch.at = 0 /\ NoFetch.fresh = FALSE
    BY DEF NoFetch, FetchRows, NoPolicy, Policies, NoLease, LeaseRows, NoBundle, Modes
<1>2. CASE LeaseTick
    <2>1. ticks' = ticks + 1 /\ UNCHANGED <<policy, leases, fpc, fetch>>
        BY <1>2 DEF LeaseTick
    <2>2. LeaseTypeInv'
        <3>1. \A f \in Fetches : fetch[f].at <= ticks + 1
            <4> SUFFICES ASSUME NEW f \in Fetches PROVE fetch[f].at <= ticks + 1
                OBVIOUS
            <4>1. fetch[f].at \in Nat
                BY <1>0 DEF FetchRows
            <4> QED BY <1>0, <4>1
        <3> QED BY <2>1, <3>1 DEF LeaseInv, LeaseTypeInv
    <2>3. StoredInv'
        <3> SUFFICES ASSUME NEW i \in 1..Len(leases) PROVE leases[i].issued <= ticks + 1
            BY <2>1 DEF LeaseInv, StoredInv
        <3>1. leases[i].issued \in Nat
            BY <1>0 DEF LeaseRows
        <3> QED BY <1>0, <3>1 DEF LeaseInv, StoredInv
    <2>4. FreshInv' /\ ServedIsCurrent' /\ StoredInOrder' /\ NoTwinLeases'
        BY <2>1 DEF LeaseInv, FreshInv, ServedIsCurrent, StoredInOrder, NoTwinLeases
    <2> QED BY <2>2, <2>3, <2>4 DEF LeaseInv
<1>3. CASE UNCHANGED <<ticks, policy, leases, fpc, fetch>>
    BY <1>3 DEF LeaseInv, LeaseTypeInv, StoredInv, FreshInv, ServedIsCurrent,
                StoredInOrder, NoTwinLeases
<1>4. ASSUME NEW a \in Publishers, Apply(a) PROVE LeaseInv'
    <2>1. /\ policy' \in Planned(policy) /\ UNCHANGED <<ticks, leases, fpc>>
          /\ fetch' = [f \in Fetches |-> [fetch[f] EXCEPT !.fresh = FALSE]]
        BY <1>4 DEF Apply, PublisherGoes
    <2>2. /\ policy' \in Policies
          /\ policy.data <= policy'.data /\ policy.epoch <= policy'.epoch
          /\ policy.data = policy'.data => policy.mode = policy'.mode
        BY <1>0, <2>1, PlannedForward
    <2>3. \A f \in Fetches : /\ fetch'[f] \in FetchRows /\ fetch'[f].at = fetch[f].at
                             /\ ~fetch'[f].fresh
        BY <1>0, <2>1 DEF FetchRows
    <2>4. LeaseTypeInv'
        BY <2>1, <2>2, <2>3 DEF LeaseInv, LeaseTypeInv
    <2>5. StoredInv'
        <3> SUFFICES ASSUME NEW i \in 1..Len(leases)
                     PROVE  /\ leases[i].issued <= ticks
                            /\ leases[i].data <= policy'.data /\ leases[i].epoch <= policy'.epoch
                            /\ leases[i].data = policy'.data => leases[i].mode = policy'.mode
            BY <2>1 DEF StoredInv
        <3>1. leases[i].data \in Nat /\ leases[i].epoch \in Nat
            BY <1>0 DEF LeaseRows
        <3>2. /\ policy.data \in Nat /\ policy.epoch \in Nat
              /\ policy'.data \in Nat /\ policy'.epoch \in Nat
            BY <1>0, <2>2 DEF Policies
        <3>3. /\ leases[i].issued <= ticks
              /\ leases[i].data <= policy.data /\ leases[i].epoch <= policy.epoch
              /\ leases[i].data = policy.data => leases[i].mode = policy.mode
            BY DEF LeaseInv, StoredInv
        <3>4. leases[i].data <= policy'.data /\ leases[i].epoch <= policy'.epoch
            BY <2>2, <3>1, <3>2, <3>3
        <3>5. leases[i].data = policy'.data => policy.data = policy'.data
            BY <2>2, <3>1, <3>2, <3>3
        <3> QED BY <2>2, <3>3, <3>4, <3>5
    <2>6. FreshInv' /\ ServedIsCurrent'
        BY <2>3 DEF FreshInv, ServedIsCurrent
    <2>7. StoredInOrder' /\ NoTwinLeases'
        BY <2>1 DEF LeaseInv, StoredInOrder, NoTwinLeases
    <2> QED BY <2>4, <2>5, <2>6, <2>7 DEF LeaseInv
<1>5. ASSUME NEW f \in Fetches, FetchEnds(f), UNCHANGED leases PROVE LeaseInv'
    BY <1>0, <1>1, <1>5, FetchMoves DEF FetchEnds, FetchStates
<1>6. ASSUME NEW f \in Fetches, BeginFetch(f) PROVE LeaseInv'
    <2> DEFINE r == [NoFetch EXCEPT !.at = ticks, !.fresh = TRUE]
    <2>1. r \in FetchRows /\ r.at = ticks
        <3> DEFINE half == [NoFetch EXCEPT !.at = ticks]
        <3>1. half \in FetchRows /\ half.at = ticks
            BY <1>0, <1>1 DEF FetchRows
        <3>2. r = [half EXCEPT !.fresh = TRUE]
            OBVIOUS
        <3> HIDE DEF half, r
        <3> QED BY <3>1, <3>2 DEF FetchRows
    <2>2. FetchGoes(f, "data", r) /\ UNCHANGED leases
        BY <1>6 DEF BeginFetch
    <2> HIDE DEF r
    <2> QED BY <1>0, <2>1, <2>2, FetchMoves DEF FetchStates
<1>7. ASSUME NEW f \in Fetches, SeeData(f) PROVE LeaseInv'
    <2> DEFINE seen == [data |-> policy.data, mode |-> policy.mode,
                        rules |-> fetch[f].seen.rules, epoch |-> fetch[f].seen.epoch]
               r == [fetch[f] EXCEPT !.seen.data = policy.data, !.seen.mode = policy.mode]
    <2>1. /\ r \in FetchRows /\ r.at = fetch[f].at /\ r.fresh = fetch[f].fresh
          /\ r.seen.data = policy.data /\ r.seen.mode = policy.mode
        <3> DEFINE half == [fetch[f] EXCEPT !.seen.data = policy.data]
        <3>1. /\ half \in FetchRows /\ half.at = fetch[f].at /\ half.fresh = fetch[f].fresh
              /\ half.seen.data = policy.data
            BY <1>0 DEF FetchRows, Policies
        <3>2. r = [half EXCEPT !.seen.mode = policy.mode]
            OBVIOUS
        <3> HIDE DEF half, r
        <3> QED BY <1>0, <3>1, <3>2 DEF FetchRows, Policies
    <2>2. fpc[f] = "data" /\ FetchGoes(f, "bundle", r) /\ UNCHANGED leases
        BY <1>7 DEF SeeData
    <2> HIDE DEF r
    <2> QED BY <1>0, <2>1, <2>2, FetchMoves DEF FetchStates
<1>8. ASSUME NEW f \in Fetches, SeeBundle(f) PROVE LeaseInv'
    <2> DEFINE r == [fetch[f] EXCEPT !.seen.epoch = policy.epoch]
    <2>1. CASE FetchEnds(f)
        BY <1>5, <1>8, <2>1 DEF SeeBundle
    <2>2. CASE FetchGoes(f, "newest", r)
        <3>1. /\ r \in FetchRows /\ r.at = fetch[f].at /\ r.fresh = fetch[f].fresh
              /\ r.seen.data = fetch[f].seen.data /\ r.seen.mode = fetch[f].seen.mode
              /\ r.seen.epoch = policy.epoch
            BY <1>0 DEF FetchRows, Policies
        <3>2. fpc[f] = "bundle" /\ FetchGoes(f, "newest", r) /\ UNCHANGED leases
            BY <1>8, <2>2 DEF SeeBundle
        <3> HIDE DEF r
        <3>3. fetch[f].fresh =>
                  fetch[f].seen.data = policy.data /\ fetch[f].seen.mode = policy.mode
            BY <3>2 DEF LeaseInv, FreshInv
        <3> QED BY <1>0, <3>1, <3>2, <3>3, FetchMoves DEF FetchStates
    <2> QED BY <1>8, <2>1, <2>2 DEF SeeBundle
<1>9. ASSUME NEW f \in Fetches, NEW lease \in LeaseRows, UNCHANGED leases,
             fpc[f] \in {"newest", "signing"}, Serve(f, lease),
             fetch[f].fresh => SameState(lease, policy)
      PROVE  LeaseInv'
    <2> DEFINE r == [fetch[f] EXCEPT !.lease = lease]
    <2>1. /\ r \in FetchRows /\ r.at = fetch[f].at /\ r.fresh = fetch[f].fresh
          /\ r.seen = fetch[f].seen /\ r.lease = lease
        BY <1>0 DEF FetchRows
    <2>2. FetchGoes(f, "served", r)
        BY <1>9 DEF Serve
    <2> HIDE DEF r
    <2>3. fetch[f].fresh =>
              /\ fetch[f].seen.data = policy.data /\ fetch[f].seen.mode = policy.mode
              /\ fetch[f].seen.epoch = policy.epoch
        BY <1>9 DEF LeaseInv, FreshInv
    <2> QED BY <1>0, <1>9, <2>1, <2>2, <2>3, FetchMoves DEF FetchStates
<1>10. \A lease \in Newest1(leases) : lease \in LeaseRows
    BY <1>0, NewestOfStored
<1>11. ASSUME NEW f \in Fetches, SeeNewest(f) PROVE LeaseInv'
    <2>0. fetch[f].fresh =>
              /\ fetch[f].seen.data = policy.data /\ fetch[f].seen.mode = policy.mode
              /\ fetch[f].seen.epoch = policy.epoch
        BY <1>11 DEF SeeNewest, LeaseInv, FreshInv
    <2>1. CASE \E lease \in Newest1(leases) :
                  Reusable(lease, fetch[f].seen, fetch[f].at) /\ Serve(f, lease)
        <3>1. PICK lease \in Newest1(leases) :
                  Reusable(lease, fetch[f].seen, fetch[f].at) /\ Serve(f, lease)
            BY <2>1
        <3>2. fetch[f].fresh => SameState(lease, policy)
            BY <2>0, <3>1 DEF Reusable, SameState
        <3> QED BY <1>9, <1>10, <1>11, <3>1, <3>2 DEF SeeNewest
    <2>2. CASE FetchGoes(f, "signing", fetch[f])
        BY <1>0, <1>11, <2>0, <2>2, FetchMoves DEF SeeNewest, FetchStates
    <2> QED BY <1>11, <2>1, <2>2 DEF SeeNewest
<1>12. ASSUME NEW f \in Fetches, StoreLease(f) PROVE LeaseInv'
    <2>1. CASE \E lease \in Newest1(leases) :
                  ServedInstead(lease, f) /\ Serve(f, lease) /\ UNCHANGED leases
        <3>1. PICK lease \in Newest1(leases) :
                  ServedInstead(lease, f) /\ Serve(f, lease) /\ UNCHANGED leases
            BY <2>1
        <3>2. fetch[f].fresh => SameState(lease, policy)
            BY <1>12, <3>1, NewestOfStored
            DEF StoreLease, ServedInstead, Reusable, LeaseInv, FreshInv
        <3> QED BY <1>9, <1>10, <1>12, <3>1, <3>2 DEF StoreLease
    <2>2. ASSUME NEW new,
                 new = [issued |-> fetch[f].at, data |-> fetch[f].seen.data,
                        mode |-> fetch[f].seen.mode, epoch |-> fetch[f].seen.epoch],
                 Newest1(leases) = {} \/ \E m \in Newest1(leases) : ~ServedInstead(m, f),
                 leases' = Append(leases, new), Serve(f, new)
          PROVE  LeaseInv'
        <3>1. new \in LeaseRows /\ new.issued = fetch[f].at
            BY <1>0, <2>2 DEF LeaseRows, FetchRows, Policies
        <3>2. SameState(fetch[f].seen, policy)
            BY <1>12 DEF StoreLease, SameIssuanceState
        <3>3. SameState(new, policy)
            BY <2>2, <3>2 DEF SameState
        <3> QED BY <1>12, <2>2, <3>1, <3>2, <3>3, LeaseStored DEF StoreLease
    <2> QED BY <1>12, <2>1, <2>2 DEF StoreLease
<1>13. ASSUME NEW f \in Fetches, Restart(f) PROVE LeaseInv'
    <2> DEFINE r == [fetch[f] EXCEPT !.tries = @ + 1]
    <2>1. CASE FetchEnds(f)
        BY <1>5, <1>13, <2>1 DEF Restart
    <2>2. CASE FetchGoes(f, "data", r)
        <3>1. r \in FetchRows /\ r.at = fetch[f].at /\ r.fresh = fetch[f].fresh
            BY <1>0 DEF FetchRows
        <3>2. fpc[f] = "signing" /\ FetchGoes(f, "data", r) /\ UNCHANGED leases
            BY <1>13, <2>2 DEF Restart
        <3> HIDE DEF r
        <3> QED BY <1>0, <3>1, <3>2, FetchMoves DEF FetchStates
    <2> QED BY <1>13, <2>1, <2>2 DEF Restart
<1>14. ASSUME NEW f \in Fetches, EndFetch(f) PROVE LeaseInv'
    BY <1>5, <1>14 DEF EndFetch
<1> QED
    BY <1>2, <1>3, <1>4, <1>6, <1>7, <1>8, <1>11, <1>12, <1>13, <1>14
    DEF LeaseNext, leaseVars, ReadRules, ReadData, ReadBundle, PublishFails, PublisherGoes

LEMMA LeaseInvariant == LeaseSpec => []LeaseInv
BY LeaseInvInit, LeaseInvStep, PTL DEF LeaseSpec

(* A fetch that begins after a publication is served a lease for what is     *)
(* published, whether reused, stored by a concurrent fetch or signed         *)
(* (insertLease's looks at the settings and at the newest lease).            *)
THEOREM ServedLeaseIsCurrent == LeaseSpec => []ServedIsCurrent
<1>1. LeaseInv => ServedIsCurrent
    BY DEF LeaseInv
<1> QED BY <1>1, LeaseInvariant, PTL

(* A machine's leases are stored in the order of their settings and of their *)
(* times of issue.                                                           *)
THEOREM LeasesStoredInOrder == LeaseSpec => []StoredInOrder
<1>1. LeaseInv => StoredInOrder
    BY DEF LeaseInv
<1> QED BY <1>1, LeaseInvariant, PTL

(* Concurrent fetches never store two leases for the same settings within    *)
(* the time of reuse, but behind a lease of the same time for others.        *)
THEOREM LeasesNotTwice == LeaseSpec => []NoTwinLeases
<1>1. LeaseInv => NoTwinLeases
    BY DEF LeaseInv
<1> QED BY <1>1, LeaseInvariant, PTL

-----------------------------------------------------------------------------
(*                               TrustKeys                                  *)

(***************************************************************************)
(* Types.  Only a compromised key has a time since when.                   *)
(***************************************************************************)
Standings ==
    {Standing(s) : s \in {"unknown", "registered", "active", "retired", "superseded"}}
        \cup {Compromised(t) : t \in 1..LastSuspect}
KeySets == (UNION {[K -> Standings] : K \in SUBSET StatementKeys}) \cup {<<>>}
Commands ==
    [at : {"idle", "planned", "checked", "listed", "signing", "locking"},
     changes : KeySets, seen : KeySets, gone : SUBSET StatementKeys,
     ever : SUBSET StatementKeys, version : Nat]

TrustTypeInv ==
    /\ inventory \in [StatementKeys -> Standings]
    /\ everActive \in SUBSET StatementKeys
    /\ documents \in Seq(KeySets)
    /\ inventoryThen \in Seq([StatementKeys -> Standings])
    /\ command \in [Operators -> Commands]
    /\ unanchored \in SUBSET StatementKeys
    /\ inFlight \in SUBSET StatementKeys

LEMMA StandingFields ==
    ASSUME NEW s \in Standings
    PROVE  /\ s.status \in {"unknown", "registered", "active", "retired", "superseded", "compromised"}
           /\ s.since \in Nat
           /\ s.since # 0 => s.status = "compromised"
BY TrustAssumption DEF Standings, Standing, Compromised

LEMMA StandingsTyped ==
    /\ \A s \in {"unknown", "registered", "active", "retired", "superseded"} :
          Standing(s) \in Standings /\ Standing(s).status = s /\ Standing(s).since = 0
    /\ \A t \in 1..LastSuspect :
          /\ Compromised(t) \in Standings /\ Compromised(t).status = "compromised"
          /\ Compromised(t).since = t
BY DEF Standings, Standing, Compromised

LEMMA ListedTyped ==
    ASSUME TrustTypeInv, NEW ever \in SUBSET StatementKeys
    PROVE  /\ Listed(ever) \in KeySets
           /\ DOMAIN Listed(ever) = Publishable(ever)
           /\ \A k \in Publishable(ever) : Listed(ever)[k] = inventory[k]
<1>1. Publishable(ever) \in SUBSET StatementKeys
    BY DEF Publishable
<1>2. Listed(ever) \in [Publishable(ever) -> Standings]
    BY <1>1 DEF Listed, TrustTypeInv
<1> QED BY <1>1, <1>2 DEF KeySets, Listed

LEMMA NoCommandTyped == NoCommand \in Commands /\ NoCommand.at = "idle"
BY DEF NoCommand, Commands, KeySets

-----------------------------------------------------------------------------
(***************************************************************************)
(* What a command plans.  A key goes forward: one that was ever in use      *)
(* never becomes new again, its rank never falls, and the time since when   *)
(* it is compromised only moves back.                                       *)
(***************************************************************************)
New == {"unknown", "registered"}

Forward(before, after) ==
    /\ after.status \notin New
    /\ before.status # "unknown"
    /\ ~(before.status = "registered" /\ after.status = "retired")
    /\ before.status \notin New =>
          /\ after.status # "active"
          /\ Rank(before.status) <= Rank(after.status)
    /\ before.status = "compromised" =>
          after.status = "compromised" /\ after.since <= before.since

PlanOf(c) ==
    /\ DOMAIN c.seen = DOMAIN c.changes
    /\ DOMAIN c.changes \subseteq StatementKeys
    /\ \A k \in DOMAIN c.changes :
          /\ c.changes[k] \in Standings
          /\ Forward(c.seen[k], c.changes[k])
          /\ c.seen[k].status = "active" /\ c.changes[k].status # "compromised" => k \in c.gone

CommandInv ==
    \A o \in Operators :
        /\ command[o].at \in {"planned", "checked"} => PlanOf(command[o])
        /\ command[o].at = "checked" => command[o].gone \cap unanchored \subseteq late
        /\ command[o].at = "locking" => command[o].ever \subseteq everActive

(* A key that was ever active, or has signed, is not a new one.             *)
UsedInv == \A k \in everActive \cup inFlight \cup unanchored : inventory[k].status \notin New

TrustInv ==
    /\ TrustTypeInv /\ CommandInv /\ UsedInv
    /\ Len(inventoryThen) = Len(documents)
    /\ NothingPublishedOver /\ ChainStaysPublishable /\ RetiredAfterAnchoring

(* Every change a command can make of a key moves it forward, and a key that *)
(* stops signing is one of those whose records must be anchored.             *)
LEMMA ChangesForward ==
    ASSUME TrustTypeInv, NEW k \in StatementKeys, NEW changes \in ChangesOf(k), changes # <<>>
    PROVE  /\ DOMAIN changes \in SUBSET StatementKeys
           /\ changes = [c \in DOMAIN changes |-> changes[c]]
           /\ \A c \in DOMAIN changes :
                 changes[c] \in Standings /\ Forward(inventory[c], changes[c])
<1>0. \A c \in StatementKeys : inventory[c] \in Standings
    BY DEF TrustTypeInv
<1>1. ASSUME NEW replace \in BOOLEAN, changes = Activation(k, replace)
      PROVE  /\ DOMAIN changes \in SUBSET StatementKeys
             /\ changes = [c \in DOMAIN changes |-> changes[c]]
             /\ \A c \in DOMAIN changes :
                   changes[c] \in Standings /\ Forward(inventory[c], changes[c])
    <2> DEFINE changed == {k} \cup {a \in StatementKeys : Has(a, {"active"})}
    <2>1. /\ Has(k, {"registered"})
          /\ changes = [c \in changed |-> IF c = k THEN Standing("active") ELSE Standing("retired")]
        BY <1>1 DEF Activation
    <2>2. \A c \in changed : c # k => Has(c, {"active"})
        OBVIOUS
    <2>3. changed \in SUBSET StatementKeys
        OBVIOUS
    <2> HIDE DEF changed
    <2>4. \A c \in changed : changes[c] \in Standings /\ Forward(inventory[c], changes[c])
        <3> TAKE c \in changed
        <3>1. CASE c = k
            BY <2>1, <3>1, StandingsTyped DEF Forward, New, Has
        <3>2. CASE c # k
            BY <2>1, <2>2, <2>3, <3>2, <1>0, StandingsTyped, StandingFields
            DEF Forward, New, Has, Rank
        <3> QED BY <3>1, <3>2
    <2> QED BY <2>1, <2>3, <2>4
<1>2. ASSUME changes = Retirement(k)
      PROVE  /\ DOMAIN changes \in SUBSET StatementKeys
             /\ changes = [c \in DOMAIN changes |-> changes[c]]
             /\ \A c \in DOMAIN changes :
                   changes[c] \in Standings /\ Forward(inventory[c], changes[c])
    <2>1. Has(k, {"active"}) /\ changes = [c \in {k} |-> Standing("retired")]
        BY <1>2 DEF Retirement
    <2> QED BY <2>1, <1>0, StandingsTyped, StandingFields DEF Forward, New, Has, Rank
<1>3. ASSUME NEW to \in {Standing("superseded")} \cup {Compromised(t) : t \in 1..LastSuspect},
             changes = Revocation(k, to)
      PROVE  /\ DOMAIN changes \in SUBSET StatementKeys
             /\ changes = [c \in DOMAIN changes |-> changes[c]]
             /\ \A c \in DOMAIN changes :
                   changes[c] \in Standings /\ Forward(inventory[c], changes[c])
    <2>1. /\ changes = [c \in {k} |-> to]
          /\ \/ Has(k, {"registered", "active", "retired"})
             \/ Has(k, {"superseded"}) /\ to.status = "compromised"
             \/ Has(k, {"compromised"}) /\ to.status = "compromised" /\ to.since < inventory[k].since
        BY <1>3 DEF Revocation
    <2>2. to \in Standings /\ to.status \in {"superseded", "compromised"}
        BY StandingsTyped
    <2>3. inventory[k].since \in Nat /\ to.since \in Nat /\ (inventory[k].since # 0 => inventory[k].status = "compromised")
        BY <1>0, <2>2, StandingFields
    <2>4. Forward(inventory[k], to)
        BY <2>1, <2>2, <2>3 DEF Forward, New, Has, Rank
    <2> QED BY <2>1, <2>2, <2>4
<1> QED BY <1>1, <1>2, <1>3 DEF ChangesOf

-----------------------------------------------------------------------------
LEMMA TrustInvInit == TrustInit => TrustInv
<1> SUFFICES ASSUME TrustInit PROVE TrustInv
    OBVIOUS
<1>1. TrustTypeInv
    BY StandingsTyped, NoCommandTyped DEF TrustInit, TrustTypeInv
<1>2. \A o \in Operators : command[o].at = "idle"
    BY NoCommandTyped DEF TrustInit
<1>3. documents = <<>> /\ DOMAIN documents = {} /\ Len(documents) = 0 /\ Len(inventoryThen) = 0
    BY DEF TrustInit
<1> QED BY <1>1, <1>2, <1>3
        DEF TrustInit, TrustInv, CommandInv, UsedInv, NothingPublishedOver,
            ChainStaysPublishable, RetiredAfterAnchoring

(* A command goes on to c, and nothing else changes but the ledger's.        *)
LEMMA CommandMoves ==
    ASSUME TrustInv, NEW o \in Operators, NEW c \in Commands, CommandIs(o, c),
           UNCHANGED <<inventory, everActive, documents, inventoryThen, ledgerVars>>,
           c.at \in {"planned", "checked"} => PlanOf(c),
           c.at = "checked" => c.gone \cap unanchored \subseteq late,
           c.at = "locking" => c.ever \subseteq everActive
    PROVE  TrustInv'
<1>1. /\ command'[o] = c /\ command' \in [Operators -> Commands]
      /\ \A p \in Operators \ {o} : command'[p] = command[p]
    BY DEF CommandIs, TrustInv, TrustTypeInv
<1>2. UNCHANGED <<inFlight, unanchored, late>>
    BY DEF ledgerVars
<1>3. TrustTypeInv'
    BY <1>1, <1>2 DEF TrustInv, TrustTypeInv
<1>4. CommandInv'
    BY <1>1, <1>2 DEF TrustInv, CommandInv, PlanOf
<1>5. Listed(everActive)' = Listed(everActive)
    BY DEF Listed, Publishable, Has
<1>6. UsedInv' /\ NothingPublishedOver' /\ RetiredAfterAnchoring'
    BY <1>2 DEF TrustInv, UsedInv, NothingPublishedOver, RetiredAfterAnchoring, Has
<1>7. ChainStaysPublishable'
    BY <1>5 DEF TrustInv, ChainStaysPublishable, MovesForward
<1> QED BY <1>3, <1>4, <1>6, <1>7 DEF TrustInv

LEMMA CommandGoes ==
    ASSUME NEW c \in Commands,
           NEW s \in {"idle", "planned", "checked", "listed", "signing", "locking"}
    PROVE  /\ [c EXCEPT !.at = s] \in Commands /\ [c EXCEPT !.at = s].at = s
           /\ [c EXCEPT !.at = s].changes = c.changes /\ [c EXCEPT !.at = s].seen = c.seen
           /\ [c EXCEPT !.at = s].gone = c.gone
BY DEF Commands

LEMMA CommandSet ==
    ASSUME NEW c \in Commands, NEW x \in KeySets
    PROVE  /\ [c EXCEPT !.changes = x] \in Commands /\ [c EXCEPT !.changes = x].at = c.at
           /\ [c EXCEPT !.changes = x].changes = x
           /\ [c EXCEPT !.seen = x] \in Commands /\ [c EXCEPT !.seen = x].at = c.at
           /\ [c EXCEPT !.seen = x].changes = c.changes /\ [c EXCEPT !.seen = x].gone = c.gone
           /\ [c EXCEPT !.seen = x].seen = x
BY DEF Commands

LEMMA CommandSetGone ==
    ASSUME NEW c \in Commands, NEW gone \in SUBSET StatementKeys
    PROVE  /\ [c EXCEPT !.gone = gone] \in Commands /\ [c EXCEPT !.gone = gone].at = c.at
           /\ [c EXCEPT !.gone = gone].changes = c.changes /\ [c EXCEPT !.gone = gone].gone = gone
BY DEF Commands

(* The inventory moves forward, so that the latest key set still continues.  *)
LEMMA InventoryForward ==
    ASSUME TrustInv, TrustTypeInv', UNCHANGED documents,
           everActive \subseteq everActive',
           \A k \in StatementKeys :
               inventory'[k] = inventory[k] \/ Forward(inventory[k], inventory'[k]),
           UsedInv'
    PROVE  ChainStaysPublishable'
<1> SUFFICES ASSUME documents # <<>> PROVE MovesForward(documents[Len(documents)], Listed(everActive)')
    BY DEF ChainStaysPublishable, MovesForward
<1> DEFINE latest == documents[Len(documents)]
           now == Listed(everActive)
           then == Listed(everActive)'
<1>1. MovesForward(latest, now)
    BY DEF TrustInv, ChainStaysPublishable
<1>2. /\ DOMAIN now = Publishable(everActive)
      /\ \A k \in Publishable(everActive) : now[k] = inventory[k]
    BY ListedTyped DEF TrustInv, TrustTypeInv
<1>3. /\ DOMAIN then = Publishable(everActive)'
      /\ \A k \in Publishable(everActive)' : then[k] = inventory'[k]
    BY DEF Listed
<1> HIDE DEF latest, now, then
<1>4. \A k \in Publishable(everActive) :
          /\ k \in everActive /\ k \in everActive' /\ k \in StatementKeys
          /\ inventory[k].status \notin New /\ inventory'[k].status \notin New
    BY DEF Publishable, TrustInv, TrustTypeInv, UsedInv
<1>5. \A k \in Publishable(everActive) : k \in Publishable(everActive)'
    BY <1>4 DEF Publishable, Has, New
<1> SUFFICES ASSUME NEW k \in DOMAIN latest
             PROVE  /\ k \in DOMAIN then
                    /\ Rank(latest[k].status) <= Rank(then[k].status)
                    /\ latest[k].since # 0 => then[k].since <= latest[k].since
    BY DEF MovesForward, latest, then
<1>6. /\ k \in DOMAIN now
      /\ Rank(latest[k].status) <= Rank(now[k].status)
      /\ latest[k].since # 0 => now[k].since <= latest[k].since
    BY <1>1 DEF MovesForward
<1>7. k \in DOMAIN then /\ now[k] = inventory[k] /\ then[k] = inventory'[k]
    BY <1>2, <1>3, <1>5, <1>6
<1>8. CASE inventory'[k] = inventory[k]
    BY <1>6, <1>7, <1>8
<1>9. CASE Forward(inventory[k], inventory'[k])
    <2>1. Rank(inventory[k].status) <= Rank(inventory'[k].status)
        BY <1>2, <1>4, <1>6, <1>9 DEF Forward
    <2>2. \A s : Rank(s) \in Nat
        BY DEF Rank
    <2>3. /\ inventory[k] \in Standings /\ inventory'[k] \in Standings
          /\ latest[k] \in Standings
        <3>1. latest \in KeySets
            BY DEF TrustInv, TrustTypeInv, latest
        <3> QED BY <1>2, <1>4, <1>6, <3>1 DEF TrustInv, TrustTypeInv, KeySets
    <2>4. ASSUME latest[k].since # 0 PROVE inventory'[k].since <= latest[k].since
        <3>1. latest[k].status = "compromised"
            BY <2>3, <2>4, StandingFields
        <3>2. inventory[k].status = "compromised"
            BY <1>2, <1>4, <1>6, <1>7, <2>3, <3>1, StandingFields DEF Rank, New
        <3>3. inventory'[k].since <= inventory[k].since /\ inventory[k].since <= latest[k].since
            BY <1>6, <1>7, <1>9, <2>4, <3>2 DEF Forward
        <3>4. inventory'[k].since \in Nat /\ inventory[k].since \in Nat /\ latest[k].since \in Nat
            BY <2>3, StandingFields
        <3> QED BY <3>3, <3>4
    <2> QED BY <1>6, <1>7, <2>1, <2>2, <2>4
<1> QED BY <1>2, <1>4, <1>6, <1>8, <1>9

LEMMA TrustInvStep == TrustInv /\ [TrustNext]_trustVars => TrustInv'
<1> SUFFICES ASSUME TrustInv, [TrustNext]_trustVars PROVE TrustInv'
    OBVIOUS
<1>0. /\ \A o \in Operators : command[o] \in Commands
      /\ \A k \in StatementKeys : inventory[k] \in Standings
      /\ documents \in Seq(KeySets) /\ everActive \in SUBSET StatementKeys
    BY DEF TrustInv, TrustTypeInv
<1>1. ASSUME NEW o \in Operators, CommandEnds(o),
             UNCHANGED <<inventory, everActive, documents, inventoryThen, ledgerVars>>
      PROVE  TrustInv'
    BY <1>1, NoCommandTyped, CommandMoves DEF CommandEnds
<1>2. ASSUME NEW k \in StatementKeys, Register(k) PROVE TrustInv'
    <2>1. /\ inventory' = [inventory EXCEPT ![k] = Standing("registered")] /\ Has(k, {"unknown"})
          /\ UNCHANGED <<everActive, documents, inventoryThen, command, inFlight, unanchored, late>>
        BY <1>2 DEF Register, publishedVars, ledgerVars
    <2>2. /\ k \notin everActive \cup inFlight \cup unanchored
          /\ \A c \in StatementKeys \ {k} : inventory'[c] = inventory[c]
          /\ inventory'[k] = Standing("registered")
        BY <2>1 DEF TrustInv, TrustTypeInv, UsedInv, Has, New
    <2>3. TrustTypeInv'
        BY <2>1, StandingsTyped DEF TrustInv, TrustTypeInv
    <2>4. CommandInv'
        BY <2>1 DEF TrustInv, CommandInv, PlanOf
    <2>5. UsedInv' /\ RetiredAfterAnchoring' /\ NothingPublishedOver'
        BY <2>1, <2>2 DEF TrustInv, TrustTypeInv, UsedInv, RetiredAfterAnchoring, NothingPublishedOver, Has
    <2>6. Listed(everActive)' = Listed(everActive)
        <3>1. Publishable(everActive)' = Publishable(everActive)
            BY <2>1, <2>2 DEF Publishable, Has, TrustInv, TrustTypeInv
        <3>2. \A c \in Publishable(everActive) : inventory'[c] = inventory[c]
            BY <1>0, <2>2 DEF Publishable
        <3> QED BY <2>1, <3>1, <3>2 DEF Listed
    <2>7. ChainStaysPublishable'
        BY <2>1, <2>6 DEF TrustInv, ChainStaysPublishable, MovesForward
    <2> QED BY <2>1, <2>3, <2>4, <2>5, <2>7 DEF TrustInv
<1>3. ASSUME NEW o \in Operators, PlanChanges(o) PROVE TrustInv'
    <2>0. PICK k \in StatementKeys : \E changes \in ChangesOf(k) \ {<<>>} :
              /\ CommandIs(o, [NoCommand EXCEPT !.at = "planned", !.changes = changes,
                                  !.gone = StopSigning(changes),
                                  !.seen = [c \in DOMAIN changes |-> inventory[c]]])
              /\ UNCHANGED <<inventory, everActive, publishedVars, ledgerVars>>
        BY <1>3 DEF PlanChanges, Begins
    <2>1. PICK changes \in ChangesOf(k) \ {<<>>} :
              /\ CommandIs(o, [NoCommand EXCEPT !.at = "planned", !.changes = changes,
                                  !.gone = StopSigning(changes),
                                  !.seen = [c \in DOMAIN changes |-> inventory[c]]])
              /\ UNCHANGED <<inventory, everActive, publishedVars, ledgerVars>>
        BY <2>0
    <2> DEFINE seen == [c \in DOMAIN changes |-> inventory[c]]
               c == [NoCommand EXCEPT !.at = "planned", !.changes = changes,
                                      !.gone = StopSigning(changes), !.seen = seen]
    <2>2. /\ DOMAIN changes \in SUBSET StatementKeys
          /\ changes = [d \in DOMAIN changes |-> changes[d]]
          /\ \A d \in DOMAIN changes :
                changes[d] \in Standings /\ Forward(inventory[d], changes[d])
        BY <2>1, ChangesForward DEF TrustInv
    <2>3. changes \in KeySets /\ seen \in KeySets /\ StopSigning(changes) \in SUBSET StatementKeys
        <3>1. changes \in [DOMAIN changes -> Standings] /\ seen \in [DOMAIN changes -> Standings]
            BY <1>0, <2>2
        <3> QED BY <2>2, <3>1 DEF KeySets, StopSigning
    <2>4. CommandIs(o, c)
        BY <2>1
    <2>5. [NoCommand EXCEPT !.at = "planned"] \in Commands /\ [NoCommand EXCEPT !.at = "planned"].at = "planned"
        BY NoCommandTyped, CommandGoes
    <2>6. /\ c \in Commands /\ c.at = "planned" /\ c.changes = changes
          /\ c.seen = seen /\ c.gone = StopSigning(changes)
        <3> DEFINE c1 == [NoCommand EXCEPT !.at = "planned"]
                   c2 == [c1 EXCEPT !.changes = changes]
                   c3 == [c2 EXCEPT !.gone = StopSigning(changes)]
                   c4 == [c3 EXCEPT !.seen = seen]
        <3>1. c = c4
            OBVIOUS
        <3> HIDE DEF c, seen
        <3>2. c4 = [c3 EXCEPT !.seen = seen]
            OBVIOUS
        <3>3. c3 = [c2 EXCEPT !.gone = StopSigning(changes)]
            OBVIOUS
        <3>4. c2 = [c1 EXCEPT !.changes = changes]
            OBVIOUS
        <3>5. c1 \in Commands /\ c1.at = "planned"
            BY <2>5
        <3> HIDE DEF c1, c2, c3, c4
        <3>6. c2 \in Commands /\ c2.at = "planned" /\ c2.changes = changes
            BY <2>3, <3>4, <3>5, CommandSet
        <3>7. c3 \in Commands /\ c3.at = "planned" /\ c3.changes = changes /\ c3.gone = StopSigning(changes)
            BY <2>3, <3>3, <3>6, CommandSetGone
        <3> QED BY <2>3, <3>1, <3>2, <3>7, CommandSet
    <2> HIDE DEF c, seen
    <2>7. PlanOf(c)
        BY <2>2, <2>6 DEF PlanOf, seen, StopSigning, Has
    <2> QED BY <2>1, <2>4, <2>6, <2>7, CommandMoves DEF publishedVars
<1>4. ASSUME NEW o \in Operators, RequireAnchored(o) PROVE TrustInv'
    <2>1. command[o].at = "planned" /\ UNCHANGED <<inventory, everActive, documents, inventoryThen, ledgerVars>>
        BY <1>4 DEF RequireAnchored, publishedVars
    <2>2. CASE Anchored(o) /\ CommandIs(o, [command[o] EXCEPT !.at = "checked"])
        <3> DEFINE c == [command[o] EXCEPT !.at = "checked"]
        <3>1. /\ c \in Commands /\ c.at = "checked" /\ c.changes = command[o].changes
              /\ c.seen = command[o].seen /\ c.gone = command[o].gone
            BY <1>0, CommandGoes
        <3>2. CommandIs(o, c)
            BY <2>2
        <3> HIDE DEF c
        <3>3. PlanOf(c) /\ c.gone \cap unanchored \subseteq late
            BY <2>1, <2>2, <3>1 DEF TrustInv, CommandInv, PlanOf, Anchored
        <3> QED BY <2>1, <3>1, <3>2, <3>3, CommandMoves
    <2> QED BY <1>1, <1>4, <2>1, <2>2 DEF RequireAnchored
<1>5. ASSUME NEW o \in Operators, ApplyChanges(o) PROVE TrustInv'
    <2> DEFINE changes == command[o].changes
    <2>1. /\ command[o].at = "checked" /\ PlanOf(command[o])
          /\ \A k \in DOMAIN changes : inventory[k] = command[o].seen[k]
          /\ inventory' = [k \in StatementKeys |-> IF k \in DOMAIN changes THEN changes[k] ELSE inventory[k]]
          /\ everActive' = everActive \cup {k \in DOMAIN changes : changes[k].status = "active"}
          /\ UNCHANGED <<documents, inventoryThen, inFlight, unanchored, late>>
          /\ CommandEnds(o)
        BY <1>5 DEF ApplyChanges, StillSeen, TrustInv, CommandInv, PlanOf, publishedVars, ledgerVars
    <2>2. \A k \in DOMAIN changes : k \in StatementKeys /\ inventory'[k] = changes[k]
        BY <2>1 DEF PlanOf
    <2>3. \A k \in DOMAIN changes : /\ changes[k] \in Standings
                                    /\ Forward(inventory[k], changes[k])
        BY <2>1 DEF PlanOf
    <2>4. /\ NoCommand \in Commands /\ command' = [command EXCEPT ![o] = NoCommand]
          /\ command'[o].at = "idle"
          /\ \A p \in Operators \ {o} : command'[p] = command[p]
        BY <2>1, NoCommandTyped DEF CommandEnds, CommandIs, TrustInv, TrustTypeInv
    <2>5. \A k \in DOMAIN changes :
              inventory[k].status = "active" /\ changes[k].status # "compromised" => k \in command[o].gone
        BY <2>1 DEF PlanOf
    <2>6. command[o].gone \cap unanchored \subseteq late
        BY <2>1 DEF TrustInv, CommandInv
    <2> HIDE DEF changes
    <2>7. TrustTypeInv'
        BY <1>0, <2>1, <2>2, <2>3, <2>4 DEF TrustInv, TrustTypeInv
    <2>8. CommandInv'
        BY <2>1, <2>4 DEF TrustInv, CommandInv, PlanOf
    <2>9. UsedInv'
        <3> SUFFICES ASSUME NEW k \in everActive' \cup inFlight \cup unanchored
                     PROVE  inventory'[k].status \notin New
            BY <2>1 DEF UsedInv
        <3>1. CASE k \in DOMAIN changes
            BY <2>2, <2>3, <3>1 DEF Forward
        <3>2. CASE k \notin DOMAIN changes
            <4>1. k \in everActive \cup inFlight \cup unanchored /\ k \in StatementKeys
                BY <2>1, <3>2 DEF TrustInv, TrustTypeInv
            <4>2. inventory'[k] = inventory[k]
                BY <2>1, <3>2, <4>1
            <4> QED BY <4>1, <4>2 DEF TrustInv, UsedInv
        <3> QED BY <3>1, <3>2
    <2>10. \A k \in StatementKeys :
               inventory'[k] = inventory[k] \/ Forward(inventory[k], inventory'[k])
        BY <2>1, <2>2, <2>3
    <2>11. ChainStaysPublishable'
        BY <2>1, <2>7, <2>9, <2>10, InventoryForward
    <2>12. RetiredAfterAnchoring'
        <3> SUFFICES ASSUME NEW k \in unanchored, inventory'[k].status \in {"retired", "superseded"}
                     PROVE  k \in late
            BY <2>1 DEF RetiredAfterAnchoring, Has
        <3>1. k \in StatementKeys /\ inventory[k].status \notin New
            BY DEF TrustInv, TrustTypeInv, UsedInv
        <3>2. CASE inventory[k].status \in {"retired", "superseded"}
            BY <3>2 DEF TrustInv, RetiredAfterAnchoring, Has
        <3>3. CASE inventory[k].status \notin {"retired", "superseded"}
            <4>1. k \in DOMAIN changes
                BY <2>1, <3>1, <3>3
            <4>2. inventory[k].status # "compromised"
                BY <2>2, <2>3, <4>1 DEF Forward
            <4>3. inventory[k].status = "active"
                BY <1>0, <3>1, <3>3, <4>2, StandingFields DEF New
            <4> QED BY <2>2, <2>5, <2>6, <4>1, <4>3
        <3> QED BY <3>2, <3>3
    <2>13. NothingPublishedOver' /\ Len(inventoryThen') = Len(documents')
        BY <2>1 DEF TrustInv, NothingPublishedOver
    <2> QED BY <2>7, <2>8, <2>9, <2>11, <2>12, <2>13 DEF TrustInv
<1>6. ASSUME NEW o \in Operators, PlanPublish(o) PROVE TrustInv'
    <2> DEFINE half == [NoCommand EXCEPT !.at = "listed"]
               c == [half EXCEPT !.changes = Listed(everActive)]
    <2>1. CommandIs(o, c) /\ UNCHANGED <<inventory, everActive, documents, inventoryThen, ledgerVars>>
        BY <1>6 DEF PlanPublish, Begins, publishedVars
    <2>2. half \in Commands /\ half.at = "listed"
        BY NoCommandTyped, CommandGoes
    <2>3. Listed(everActive) \in KeySets
        BY <1>0, ListedTyped DEF TrustInv
    <2> HIDE DEF half
    <2>4. c \in Commands /\ c.at = "listed"
        BY <2>2, <2>3, CommandSet
    <2> HIDE DEF c
    <2> QED BY <2>1, <2>4, CommandMoves
<1>7. ASSUME NEW o \in Operators, ReadDocuments(o) PROVE TrustInv'
    <2>1. UNCHANGED <<inventory, everActive, documents, inventoryThen, ledgerVars>>
        BY <1>7 DEF ReadDocuments, publishedVars
    <2>2. ASSUME CommandIs(o, [command[o] EXCEPT !.at = "signing", !.version = Len(documents) + 1])
          PROVE  TrustInv'
        <3> DEFINE half == [command[o] EXCEPT !.at = "signing"]
                   c == [half EXCEPT !.version = Len(documents) + 1]
        <3>1. half \in Commands /\ half.at = "signing"
            BY <1>0, CommandGoes
        <3>2. CommandIs(o, c)
            BY <2>2
        <3>3. Len(documents) + 1 \in Nat
            BY <1>0
        <3> HIDE DEF half
        <3>4. c \in Commands /\ c.at = "signing"
            BY <3>1, <3>3 DEF Commands
        <3> HIDE DEF c
        <3> QED BY <2>1, <3>2, <3>4, CommandMoves
    <2> QED BY <1>1, <1>7, <2>1, <2>2 DEF ReadDocuments
<1>8. ASSUME NEW o \in Operators, BeginStore(o) PROVE TrustInv'
    <2> DEFINE half == [command[o] EXCEPT !.at = "locking"]
               c == [half EXCEPT !.ever = everActive]
    <2>1. CommandIs(o, c) /\ UNCHANGED <<inventory, everActive, documents, inventoryThen, ledgerVars>>
        BY <1>8 DEF BeginStore, publishedVars
    <2>2. half \in Commands /\ half.at = "locking"
        BY <1>0, CommandGoes
    <2> HIDE DEF half
    <2>3. c \in Commands /\ c.at = "locking" /\ c.ever = everActive
        BY <1>0, <2>2 DEF Commands
    <2> HIDE DEF c
    <2> QED BY <2>1, <2>3, CommandMoves
<1>9. ASSUME NEW o \in Operators, StoreKeySet(o) PROVE TrustInv'
    <2> DEFINE n == Len(documents)
               ever == command[o].ever
    <2>1. /\ command[o].at = "locking" /\ Listed(ever) = command[o].changes
          /\ documents' = Append(documents, Listed(ever))
          /\ inventoryThen' = Append(inventoryThen, inventory)
          /\ UNCHANGED <<inventory, everActive, inFlight, unanchored, late>>
          /\ CommandEnds(o)
        BY <1>9 DEF StoreKeySet, StillPlanned, ledgerVars
    <2>2. ever \in SUBSET StatementKeys /\ ever \subseteq everActive
        BY <1>0, <2>1 DEF Commands, TrustInv, CommandInv
    <2>3. /\ Listed(ever) \in KeySets
          /\ DOMAIN Listed(ever) = Publishable(ever)
          /\ \A k \in Publishable(ever) : Listed(ever)[k] = inventory[k]
        BY <2>2, ListedTyped DEF TrustInv
    <2>4. /\ DOMAIN Listed(everActive) = Publishable(everActive)
          /\ \A k \in Publishable(everActive) : Listed(everActive)[k] = inventory[k]
        BY <1>0, ListedTyped DEF TrustInv
    <2> HIDE DEF ever
    <2>5. /\ NoCommand \in Commands /\ command' = [command EXCEPT ![o] = NoCommand]
          /\ command'[o].at = "idle"
          /\ \A p \in Operators \ {o} : command'[p] = command[p]
        BY <2>1, NoCommandTyped DEF CommandEnds, CommandIs, TrustInv, TrustTypeInv
    <2>6. TrustTypeInv'
        BY <2>1, <2>3, <2>5 DEF TrustInv, TrustTypeInv
    <2>7. /\ n \in Nat /\ Len(inventoryThen) = n /\ Len(documents') = n + 1
          /\ DOMAIN documents = 1..n /\ DOMAIN documents' = 1..(n + 1)
          /\ documents'[n + 1] = Listed(ever) /\ inventoryThen'[n + 1] = inventory
          /\ \A v \in 1..n : documents'[v] = documents[v] /\ inventoryThen'[v] = inventoryThen[v]
          /\ Len(inventoryThen') = n + 1
        BY <2>1 DEF TrustInv, TrustTypeInv
    <2>8. CommandInv'
        BY <2>1, <2>5 DEF TrustInv, CommandInv, PlanOf
    <2>9. UsedInv' /\ RetiredAfterAnchoring'
        BY <2>1 DEF TrustInv, UsedInv, RetiredAfterAnchoring, Has
    <2>10. NothingPublishedOver'
        <3> SUFFICES ASSUME NEW v \in 1..(n + 1), NEW k \in DOMAIN documents'[v]
                     PROVE  documents'[v][k] = inventoryThen'[v][k]
            BY <2>7 DEF NothingPublishedOver
        <3>1. CASE v = n + 1
            BY <2>3, <2>7, <3>1
        <3>2. CASE v \in 1..n
            BY <2>7, <3>2 DEF TrustInv, NothingPublishedOver
        <3> QED BY <2>7, <3>1, <3>2
    <2>11. ChainStaysPublishable'
        <3>1. Publishable(ever) \subseteq Publishable(everActive)
            BY <2>2 DEF Publishable
        <3>2. \A k \in Publishable(ever) : inventory[k].since \in Nat /\ Rank(inventory[k].status) \in Nat
            BY <1>0, <2>2, StandingFields DEF Publishable, Rank
        <3>3. MovesForward(Listed(ever), Listed(everActive))
            <4> SUFFICES ASSUME NEW k \in Publishable(ever)
                         PROVE  /\ k \in DOMAIN Listed(everActive)
                                /\ Rank(Listed(ever)[k].status) <= Rank(Listed(everActive)[k].status)
                                /\ Listed(ever)[k].since # 0 =>
                                      Listed(everActive)[k].since <= Listed(ever)[k].since
                BY <2>3 DEF MovesForward
            <4>1. Listed(ever)[k] = inventory[k] /\ Listed(everActive)[k] = inventory[k]
                BY <2>3, <2>4, <3>1
            <4> QED BY <2>4, <3>1, <3>2, <4>1
        <3>4. Listed(everActive)' = Listed(everActive)
            BY <2>1 DEF Listed, Publishable, Has
        <3> QED BY <2>7, <3>3, <3>4 DEF ChainStaysPublishable, MovesForward
    <2> QED BY <2>6, <2>7, <2>8, <2>9, <2>10, <2>11 DEF TrustInv
<1>10. ASSUME NEW o \in Operators, CommandFails(o) PROVE TrustInv'
    BY <1>1, <1>10 DEF CommandFails, publishedVars
<1>11. ASSUME NEW k \in StatementKeys, SignStatement(k) \/ ChainRecord(k) \/ AnchorRecords(k)
       PROVE  TrustInv'
    <2>1. UNCHANGED <<inventory, everActive, documents, inventoryThen, command>>
        BY <1>11 DEF SignStatement, ChainRecord, AnchorRecords, publishedVars
    <2>2. /\ inFlight' \cup unanchored' \subseteq StatementKeys
          /\ \A c \in inFlight' \cup unanchored' : inventory[c].status \notin New
        BY <1>11 DEF SignStatement, ChainRecord, AnchorRecords, Has, New, TrustInv, TrustTypeInv, UsedInv
    <2>3. TrustTypeInv' /\ UsedInv'
        BY <2>1, <2>2 DEF TrustInv, TrustTypeInv, UsedInv
    <2>4. CommandInv'
        <3>1. ASSUME NEW o \in Operators, command[o].at = "checked"
              PROVE  command[o].gone \cap unanchored' \subseteq late'
            BY <1>11, <3>1 DEF SignStatement, ChainRecord, AnchorRecords, TrustInv, CommandInv
        <3> QED BY <2>1, <3>1 DEF TrustInv, CommandInv, PlanOf
    <2>5. RetiredAfterAnchoring'
        BY <1>11, <2>1 DEF SignStatement, ChainRecord, AnchorRecords, Has, TrustInv, RetiredAfterAnchoring
    <2>6. Listed(everActive)' = Listed(everActive)
        BY <2>1 DEF Listed, Publishable, Has
    <2>7. NothingPublishedOver' /\ ChainStaysPublishable'
        BY <2>1, <2>6 DEF TrustInv, NothingPublishedOver, ChainStaysPublishable, MovesForward
    <2> QED BY <2>1, <2>3, <2>4, <2>5, <2>7 DEF TrustInv
<1>12. CASE UNCHANGED trustVars
    <2>1. UNCHANGED <<inventory, everActive, documents, inventoryThen, command, inFlight, unanchored, late>>
        BY <1>12 DEF trustVars, publishedVars, ledgerVars
    <2>2. Listed(everActive)' = Listed(everActive)
        BY <2>1 DEF Listed, Publishable, Has
    <2>3. ChainStaysPublishable'
        BY <2>1, <2>2 DEF TrustInv, ChainStaysPublishable, MovesForward
    <2> QED BY <2>1, <2>3 DEF TrustInv, TrustTypeInv, CommandInv, PlanOf, UsedInv,
                              NothingPublishedOver, RetiredAfterAnchoring, Has
<1> QED
    BY <1>2, <1>3, <1>4, <1>5, <1>6, <1>7, <1>8, <1>9, <1>10, <1>11, <1>12 DEF TrustNext

LEMMA TrustInvariant == TrustSpec => []TrustInv
BY TrustInvInit, TrustInvStep, PTL DEF TrustSpec

(* Every key set says of every key what the inventory said as it was stored, *)
(* though it was planned and signed before (storeKeySet's second reading).   *)
THEOREM KeySetsTrue == TrustSpec => []NothingPublishedOver
<1>1. TrustInv => NothingPublishedOver
    BY DEF TrustInv
<1> QED BY <1>1, TrustInvariant, PTL

(* The inventory always continues the latest key set: the part of the check  *)
(* that a chain only moves forward (forwardOnlyViolation) which is about the *)
(* standing of keys never refuses a publication.                             *)
THEOREM KeySetsContinue == TrustSpec => []ChainStaysPublishable
<1>1. TrustInv => ChainStaysPublishable
    BY DEF TrustInv
<1> QED BY <1>1, TrustInvariant, PTL

(* A key taken out of use leaves no record unanchored but what was chained   *)
(* after its command had looked (requireAnchored).                           *)
THEOREM RetirementsAnchored == TrustSpec => []RetiredAfterAnchoring
<1>1. TrustInv => RetiredAfterAnchoring
    BY DEF TrustInv
<1> QED BY <1>1, TrustInvariant, PTL

LEMMA ForwardIsAllowed ==
    ASSUME NEW old \in Standings, NEW new \in Standings, Forward(old, new)
    PROVE  GuardAllows(old, new)
<1>1. /\ old.status \in {"unknown", "registered", "active", "retired", "superseded", "compromised"}
      /\ new.status \in {"unknown", "registered", "active", "retired", "superseded", "compromised"}
    BY StandingFields
<1> QED BY <1>1 DEF Forward, New, Rank, GuardAllows, GuardRank

(* GuardNeverRefuses: whatever commands overlap, an update of a key's row is *)
(* one that the database's guard allows (updateKey's conditions stop what    *)
(* was planned on a row that has changed since).                             *)
THEOREM UpdatesPassTheGuard == TrustSpec => GuardNeverRefuses
<1> DEFINE Allowed == \A k \in StatementKeys :
                          ~Has(k, {"unknown"}) => GuardAllows(inventory[k], inventory'[k])
<1>1. ASSUME TrustInv, TrustNext PROVE Allowed
    <2> SUFFICES ASSUME NEW k \in StatementKeys, ~Has(k, {"unknown"})
                 PROVE  GuardAllows(inventory[k], inventory'[k])
        OBVIOUS
    <2>1. inventory \in [StatementKeys -> Standings] /\ inventory[k] \in Standings
        BY <1>1 DEF TrustInv, TrustTypeInv
    <2>2. CASE inventory'[k] = inventory[k]
        <3>1. inventory[k].since <= inventory[k].since /\ GuardRank(inventory[k].status) <= GuardRank(inventory[k].status)
            BY <2>1, StandingFields DEF GuardRank
        <3>2. ~(inventory[k].status = "registered" /\ inventory[k].status = "retired")
            OBVIOUS
        <3> QED BY <2>2, <3>1, <3>2 DEF GuardAllows
    <2>3. ASSUME NEW c \in StatementKeys, Register(c) PROVE inventory'[k] = inventory[k]
        BY <2>1, <2>3 DEF Register, Has
    <2>4. ASSUME NEW o \in Operators, ApplyChanges(o)
          PROVE  inventory'[k] = inventory[k] \/ GuardAllows(inventory[k], inventory'[k])
        <3> DEFINE changes == command[o].changes
        <3>1. /\ PlanOf(command[o])
              /\ \A c \in DOMAIN command[o].seen : inventory[c] = command[o].seen[c]
              /\ inventory'[k] = IF k \in DOMAIN changes THEN changes[k] ELSE inventory[k]
            BY <1>1, <2>4 DEF ApplyChanges, StillSeen, TrustInv, CommandInv
        <3>2. CASE k \in DOMAIN changes
            <4>1. changes[k] \in Standings /\ Forward(inventory[k], changes[k]) /\ inventory'[k] = changes[k]
                BY <3>1, <3>2 DEF PlanOf
            <4> QED BY <2>1, <4>1, ForwardIsAllowed
        <3> QED BY <3>1, <3>2
    <2>5. \/ inventory' = inventory
          \/ \E c \in StatementKeys : Register(c)
          \/ \E o \in Operators : ApplyChanges(o)
        BY <1>1 DEF TrustNext, SignStatement, ChainRecord, AnchorRecords, PlanChanges, RequireAnchored,
                    PlanPublish, ReadDocuments, BeginStore, StoreKeySet, CommandFails
    <2> QED BY <2>2, <2>3, <2>4, <2>5
<1>2. TrustInv /\ [TrustNext]_trustVars => [Allowed]_trustVars
    BY <1>1
<1> QED BY <1>2, TrustInvariant, PTL DEF TrustSpec, GuardNeverRefuses

-----------------------------------------------------------------------------
(* PullRequestCommits.                                                     *)

Places == {"idle", "listed", "removing", "adding", "snapshot", "merging", "ended", "failed"}

Enrichments ==
    [at : Places, merge : BOOLEAN, heard : BOOLEAN, listed : SUBSET PullCommits,
     todo : SUBSET PullCommits]

PullTypeInv ==
    /\ head \in 1..Len(Listings)
    /\ membership \in [PullCommits -> {"none", "active", "inactive"}]
    /\ enrichment \in [Webhooks -> Enrichments]
    /\ round \in [some : SUBSET PullCommits, all : SUBSET PullCommits, recorded : BOOLEAN]

(* What holds of a webhook at work: its list counts in the round; while it   *)
(* removes, every member that the round knows nothing of is still to be      *)
(* removed, and nothing it was listed is; while it adds, such members are    *)
(* gone, and what all were listed is a member or still to be added; and the  *)
(* merge takes its sources from a round that has recorded a list.            *)
WebhookInv(w) ==
    /\ enrichment[w].heard /\ w \in AtWork =>
          enrichment[w].listed \subseteq round.some /\ round.all \subseteq enrichment[w].listed
    /\ IsAt(w, "listed") \/ IsAt(w, "removing") \/ IsAt(w, "adding") => enrichment[w].heard
    /\ IsAt(w, "removing") =>
          /\ enrichment[w].todo \cap enrichment[w].listed = {}
          /\ Members \ round.some \subseteq enrichment[w].todo
    /\ IsAt(w, "adding") =>
          /\ enrichment[w].todo \subseteq enrichment[w].listed
          /\ Members \subseteq round.some
          /\ round.all \ enrichment[w].todo \subseteq Members
    /\ enrichment[w].heard /\ IsAt(w, "snapshot") => round.recorded
    /\ enrichment[w].heard /\ IsAt(w, "merging") => enrichment[w].todo \subseteq round.some

PullInv == PullTypeInv /\ MembersAgreed /\ \A w \in Webhooks : WebhookInv(w)

(* What a step of one webhook may do to the others: the round only widens,   *)
(* what becomes a member was listed in it, and what stops being one was not  *)
(* listed to all.                                                            *)
Widens ==
    /\ round.some \subseteq round'.some /\ round'.all \subseteq round.all
    /\ round.recorded => round'.recorded
    /\ Members' \ Members \subseteq round.some
    /\ (Members \ Members') \cap round.all = {}

LEMMA PullInvInit == PullInit => PullInv
<1> SUFFICES ASSUME PullInit PROVE PullInv
    OBVIOUS
<1>1. Listings \in Seq(SUBSET PullCommits) /\ Listings # <<>>
    BY PullAssumption
<1>2. Len(Listings) \in Nat /\ Len(Listings) # 0
    BY <1>1, SMT
<1>3. PullTypeInv
    BY <1>2, SMT DEF PullInit, PullTypeInv, Enrichments, Places, NotBegun, NewRound
<1>4. MembersAgreed
    BY DEF PullInit, MembersAgreed, NewRound
<1>5. ASSUME NEW w \in Webhooks PROVE WebhookInv(w)
    BY DEF PullInit, WebhookInv, IsAt, AtWork, NotBegun
<1> QED
    BY <1>3, <1>4, <1>5 DEF PullInv

\* A webhook that a step leaves where it was.
LEMMA OthersKept ==
    ASSUME PullInv, Widens, NEW w \in Webhooks, enrichment'[w] = enrichment[w]
    PROVE  WebhookInv(w)'
<1>1. WebhookInv(w) /\ (w \in AtWork' <=> w \in AtWork)
    BY DEF PullInv, AtWork
<1>2. /\ IsAt(w, "listed")' <=> IsAt(w, "listed")
      /\ IsAt(w, "removing")' <=> IsAt(w, "removing")
      /\ IsAt(w, "adding")' <=> IsAt(w, "adding")
      /\ IsAt(w, "snapshot")' <=> IsAt(w, "snapshot")
      /\ IsAt(w, "merging")' <=> IsAt(w, "merging")
    BY DEF IsAt
<1>3. ASSUME enrichment'[w].heard, w \in AtWork'
      PROVE  enrichment'[w].listed \subseteq round'.some /\ round'.all \subseteq enrichment'[w].listed
    BY <1>1, <1>3 DEF WebhookInv, Widens
<1>4. ASSUME IsAt(w, "removing")'
      PROVE  /\ enrichment'[w].todo \cap enrichment'[w].listed = {}
             /\ Members' \ round'.some \subseteq enrichment'[w].todo
  <2>1. /\ enrichment[w].todo \cap enrichment[w].listed = {}
        /\ Members \ round.some \subseteq enrichment[w].todo
    BY <1>1, <1>2, <1>4 DEF WebhookInv
  <2> QED
    BY <2>1 DEF Widens
<1>5. ASSUME IsAt(w, "adding")'
      PROVE  /\ enrichment'[w].todo \subseteq enrichment'[w].listed
             /\ Members' \subseteq round'.some
             /\ round'.all \ enrichment'[w].todo \subseteq Members'
  <2>1. /\ enrichment[w].todo \subseteq enrichment[w].listed
        /\ Members \subseteq round.some
        /\ round.all \ enrichment[w].todo \subseteq Members
    BY <1>1, <1>2, <1>5 DEF WebhookInv
  <2> QED
    BY <2>1 DEF Widens
<1>6. enrichment'[w].heard /\ IsAt(w, "snapshot")' => round'.recorded
    BY <1>1, <1>2 DEF WebhookInv, Widens
<1>7. enrichment'[w].heard /\ IsAt(w, "merging")' => enrichment'[w].todo \subseteq round'.some
    BY <1>1, <1>2 DEF WebhookInv, Widens
<1>8. IsAt(w, "listed")' \/ IsAt(w, "removing")' \/ IsAt(w, "adding")' => enrichment'[w].heard
    BY <1>1, <1>2 DEF WebhookInv
<1> QED
    BY <1>3, <1>4, <1>5, <1>6, <1>7, <1>8 DEF WebhookInv

\* A step of one webhook that widens the round.
LEMMA PullInvOfOne ==
    ASSUME PullInv, PullTypeInv', Widens, MembersAgreed', NEW w \in Webhooks, WebhookInv(w)',
           \A v \in Webhooks \ {w} : enrichment'[v] = enrichment[v]
    PROVE  PullInv'
<1>1. ASSUME NEW v \in Webhooks PROVE WebhookInv(v)'
  <2>1. CASE v = w
    BY <2>1
  <2>2. CASE v # w
    BY <2>2, OthersKept
  <2> QED
    BY <2>1, <2>2
<1> QED
    BY <1>1 DEF PullInv

LEMMA EnrichesTyped ==
    ASSUME PullTypeInv, NEW w \in Webhooks, NEW e \in Enrichments, Enriches(w, e)
    PROVE  /\ enrichment' \in [Webhooks -> Enrichments]
           /\ enrichment'[w] = e
           /\ \A v \in Webhooks \ {w} : enrichment'[v] = enrichment[v]
BY DEF PullTypeInv, Enriches

LEMMA GoesOnTyped ==
    ASSUME PullTypeInv, NEW w \in Webhooks, NEW place \in Places, NEW todo \in SUBSET PullCommits,
           GoesOn(w, place, todo)
    PROVE  /\ enrichment' \in [Webhooks -> Enrichments]
           /\ enrichment'[w].at = place /\ enrichment'[w].todo = todo
           /\ enrichment'[w].heard = enrichment[w].heard
           /\ enrichment'[w].listed = enrichment[w].listed
           /\ \A v \in Webhooks \ {w} : enrichment'[v] = enrichment[v]
<1> DEFINE e == [enrichment[w] EXCEPT !.at = place, !.todo = todo]
<1>1. enrichment[w] \in Enrichments
    BY DEF PullTypeInv
<1>2. /\ e \in Enrichments /\ e.at = place /\ e.todo = todo
      /\ e.heard = enrichment[w].heard /\ e.listed = enrichment[w].listed
    BY <1>1 DEF Enrichments
<1>3. Enriches(w, e)
    BY DEF GoesOn
<1> HIDE DEF e
<1> QED
    BY <1>2, <1>3, EnrichesTyped

\* A step that leaves round and memberships alone.
LEMMA NothingWidens ==
    ASSUME round' = round, membership' = membership PROVE Widens /\ Members' = Members
BY DEF Widens, Members

\* What a membership's new status makes of the members.
LEMMA MembersSet ==
    ASSUME PullTypeInv, NEW c \in PullCommits, NEW status \in {"none", "active", "inactive"},
           membership' = [membership EXCEPT ![c] = status]
    PROVE  /\ membership' \in [PullCommits -> {"none", "active", "inactive"}]
           /\ Members' = IF status = "active" THEN Members \cup {c} ELSE Members \ {c}
<1>1. membership \in [PullCommits -> {"none", "active", "inactive"}]
    BY DEF PullTypeInv
<1>2. \A d \in PullCommits : membership'[d] = IF d = c THEN status ELSE membership[d]
    BY <1>1
<1>3. Members' = IF status = "active" THEN Members \cup {c} ELSE Members \ {c}
    BY <1>2 DEF Members
<1> QED
    BY <1>1, <1>3

\* ListCommits and NotListed: the one action that may begin a round.
LEMMA RoundBegins ==
    ASSUME PullInv, NEW w \in Webhooks, NEW e \in Enrichments, IsAt(w, "idle"), Enriches(w, e),
           NEW list \in SUBSET PullCommits, NEW r \in [some : SUBSET PullCommits, all : SUBSET PullCommits, recorded : BOOLEAN],
           round' = r, UNCHANGED <<head, membership, lineage>>,
           r.some = JoinedRound.some \cup list, r.all \subseteq JoinedRound.all,
           r.recorded = JoinedRound.recorded,
           e.at \in {"listed", "snapshot"}, e.heard <=> e.at = "listed",
           e.heard => e.listed \subseteq r.some /\ r.all \subseteq e.listed
    PROVE  PullInv'
<1>1. PullTypeInv
    BY DEF PullInv
<1>2. /\ enrichment' \in [Webhooks -> Enrichments]
      /\ enrichment'[w] = e
      /\ \A v \in Webhooks \ {w} : enrichment'[v] = enrichment[v]
    BY <1>1, EnrichesTyped
<1>3. PullTypeInv'
    BY <1>1, <1>2 DEF PullTypeInv
<1>4. Members' = Members
    BY DEF Members
<1>5. WebhookInv(w)'
    BY <1>2 DEF WebhookInv, IsAt
<1>6. CASE AtWork = {}
  <2>1. ~r.recorded
    BY <1>6 DEF JoinedRound, NewRound
  <2>2. MembersAgreed'
    BY <2>1 DEF MembersAgreed
  <2>3. ASSUME NEW v \in Webhooks, v # w PROVE WebhookInv(v)'
    <3>1. enrichment'[v] = enrichment[v] /\ v \notin AtWork
      BY <1>2, <1>6, <2>3
    <3>2. enrichment'[v].at \in {"idle", "ended", "failed"}
      BY <3>1 DEF AtWork
    <3> QED
      BY <3>2 DEF WebhookInv, IsAt, AtWork
  <2>4. ASSUME NEW v \in Webhooks PROVE WebhookInv(v)'
    BY <1>5, <2>3, <2>4
  <2> QED
    BY <1>3, <2>2, <2>4 DEF PullInv
<1>7. CASE AtWork # {}
  <2>1. JoinedRound = round
    BY <1>7 DEF JoinedRound
  <2>2. Widens
    BY <1>4, <2>1 DEF Widens
  <2>3. MembersAgreed'
    <3>1. MembersAgreed
      BY DEF PullInv
    <3> QED
      BY <1>4, <2>1, <3>1 DEF MembersAgreed
  <2> QED
    BY <1>2, <1>3, <1>5, <2>2, <2>3, PullInvOfOne
<1> QED
    BY <1>6, <1>7

LEMMA PullInvStep == PullInv /\ [PullNext]_pullVars => PullInv'
<1> SUFFICES ASSUME PullInv, [PullNext]_pullVars PROVE PullInv'
    OBVIOUS
<1>1. PullTypeInv /\ MembersAgreed
    BY DEF PullInv
<1>2. ASSUME NEW w \in Webhooks PROVE WebhookInv(w) /\ enrichment[w] \in Enrichments
    BY <1>1, <1>2 DEF PullInv, PullTypeInv
<1>3. Listings \in Seq(SUBSET PullCommits) /\ head \in 1..Len(Listings)
    BY <1>1, PullAssumption DEF PullTypeInv
<1>4. Listings[head] \in SUBSET PullCommits
    BY <1>3
<1>5. JoinedRound \in [some : SUBSET PullCommits, all : SUBSET PullCommits, recorded : BOOLEAN]
    BY <1>1 DEF JoinedRound, NewRound, PullTypeInv
<1>6. Members \in SUBSET PullCommits
    BY DEF Members
<1>10. CASE PushHead
  <2>1. head' \in 1..Len(Listings)
    BY <1>3, <1>10 DEF PushHead
  <2>2. UNCHANGED <<membership, enrichment, round>>
    BY <1>10 DEF PushHead
  <2>3. PullTypeInv' /\ MembersAgreed'
    BY <1>1, <2>1, <2>2 DEF PullTypeInv, MembersAgreed, Members
  <2>4. ASSUME NEW w \in Webhooks PROVE WebhookInv(w)'
    BY <2>2, OthersKept, NothingWidens
  <2> QED
    BY <2>3, <2>4 DEF PullInv
<1>11. ASSUME NEW w \in Webhooks, NEW merge \in BOOLEAN, ListCommits(w, merge) PROVE PullInv'
  <2> DEFINE e == [NotBegun EXCEPT !.at = "listed", !.merge = merge, !.heard = TRUE, !.listed = Listings[head]]
             r == [JoinedRound EXCEPT !.some = @ \cup Listings[head], !.all = @ \cap Listings[head]]
  <2>1. e \in Enrichments /\ e.at = "listed" /\ e.heard = TRUE /\ e.listed = Listings[head]
    BY <1>4 DEF NotBegun, Enrichments, Places
  <2>2. /\ r \in [some : SUBSET PullCommits, all : SUBSET PullCommits, recorded : BOOLEAN]
        /\ r.some = JoinedRound.some \cup Listings[head] /\ r.all = JoinedRound.all \cap Listings[head]
        /\ r.recorded = JoinedRound.recorded
    BY <1>4, <1>5
  <2>3. IsAt(w, "idle") /\ Enriches(w, e) /\ round' = r /\ UNCHANGED <<head, membership, lineage>>
    BY <1>11 DEF ListCommits
  <2> HIDE DEF e, r
  <2>4. /\ r.all \subseteq JoinedRound.all /\ e.at \in {"listed", "snapshot"}
        /\ e.heard <=> e.at = "listed"
        /\ e.heard => e.listed \subseteq r.some /\ r.all \subseteq e.listed
    BY <2>1, <2>2
  <2> QED
    BY <1>4, <2>1, <2>2, <2>3, <2>4, RoundBegins
<1>12. ASSUME NEW w \in Webhooks, NotListed(w) PROVE PullInv'
  <2> DEFINE e == [NotBegun EXCEPT !.at = "snapshot", !.merge = TRUE]
  <2>1. e \in Enrichments /\ e.at = "snapshot" /\ e.heard = FALSE
    BY DEF NotBegun, Enrichments, Places
  <2>2. IsAt(w, "idle") /\ Enriches(w, e) /\ round' = JoinedRound /\ UNCHANGED <<head, membership, lineage>>
    BY <1>12 DEF NotListed
  <2> HIDE DEF e
  <2>3. /\ {} \in SUBSET PullCommits /\ JoinedRound.some = JoinedRound.some \cup {}
        /\ JoinedRound.all \subseteq JoinedRound.all /\ JoinedRound.recorded = JoinedRound.recorded
        /\ e.at \in {"listed", "snapshot"} /\ (e.heard <=> e.at = "listed")
        /\ e.heard => e.listed \subseteq JoinedRound.some /\ JoinedRound.all \subseteq e.listed
    BY <2>1
  <2> QED
    BY <1>5, <2>1, <2>2, <2>3, RoundBegins
<1>13. ASSUME NEW w \in Webhooks, ReadMemberships(w) PROVE PullInv'
  <2>1. GoesOn(w, "removing", Gone(w)) /\ IsAt(w, "listed") /\ UNCHANGED <<head, membership, lineage, round>>
    BY <1>13 DEF ReadMemberships
  <2>2. Gone(w) = Members \ enrichment[w].listed /\ Gone(w) \in SUBSET PullCommits
    BY <1>6 DEF Gone
  <2>3. /\ enrichment' \in [Webhooks -> Enrichments]
        /\ enrichment'[w].at = "removing" /\ enrichment'[w].todo = Gone(w)
        /\ enrichment'[w].heard = enrichment[w].heard
        /\ enrichment'[w].listed = enrichment[w].listed
        /\ \A v \in Webhooks \ {w} : enrichment'[v] = enrichment[v]
    BY <1>1, <2>1, <2>2, GoesOnTyped DEF Places
  <2>4. Widens /\ Members' = Members
    BY <2>1, NothingWidens
  <2>5. PullTypeInv' /\ MembersAgreed'
    BY <1>1, <2>1, <2>3, <2>4 DEF PullTypeInv, MembersAgreed
  <2>6. /\ enrichment[w].heard /\ w \in AtWork
        /\ enrichment[w].listed \subseteq round.some /\ round.all \subseteq enrichment[w].listed
    BY <1>2, <2>1 DEF WebhookInv, IsAt, AtWork
  <2>7. WebhookInv(w)'
    BY <2>1, <2>2, <2>3, <2>4, <2>6 DEF WebhookInv, IsAt
  <2> QED
    BY <2>3, <2>4, <2>5, <2>7, PullInvOfOne
<1>14. ASSUME NEW w \in Webhooks, Deactivate(w) PROVE PullInv'
  <2>1. PICK c \in enrichment[w].todo :
            /\ membership' = [membership EXCEPT ![c] = "inactive"]
            /\ GoesOn(w, "removing", enrichment[w].todo \ {c})
    BY <1>14 DEF Deactivate
  <2>2. IsAt(w, "removing") /\ UNCHANGED <<head, lineage, round>>
    BY <1>14 DEF Deactivate
  <2>3. enrichment[w].todo \in SUBSET PullCommits
    BY <1>2 DEF Enrichments
  <2>4. /\ membership' \in [PullCommits -> {"none", "active", "inactive"}]
        /\ Members' = Members \ {c}
    BY <1>1, <2>1, <2>3, MembersSet
  <2>5. /\ enrichment' \in [Webhooks -> Enrichments]
        /\ enrichment'[w].at = "removing" /\ enrichment'[w].todo = enrichment[w].todo \ {c}
        /\ enrichment'[w].heard = enrichment[w].heard
        /\ enrichment'[w].listed = enrichment[w].listed
        /\ \A v \in Webhooks \ {w} : enrichment'[v] = enrichment[v]
    BY <1>1, <2>1, <2>3, GoesOnTyped DEF Places
  <2>6. /\ enrichment[w].heard /\ w \in AtWork
        /\ enrichment[w].listed \subseteq round.some /\ round.all \subseteq enrichment[w].listed
        /\ enrichment[w].todo \cap enrichment[w].listed = {}
        /\ Members \ round.some \subseteq enrichment[w].todo
    BY <1>2, <2>2 DEF WebhookInv, IsAt, AtWork
  <2>7. c \notin round.all
    BY <2>6
  <2>8. Widens
    BY <2>2, <2>4, <2>7 DEF Widens
  <2>9. PullTypeInv' /\ MembersAgreed'
    BY <1>1, <2>2, <2>4, <2>5, <2>7 DEF PullTypeInv, MembersAgreed
  <2>10. WebhookInv(w)'
    BY <2>2, <2>4, <2>5, <2>6 DEF WebhookInv, IsAt
  <2> QED
    BY <2>5, <2>8, <2>9, <2>10, PullInvOfOne
<1>15. ASSUME NEW w \in Webhooks, AllDeactivated(w) PROVE PullInv'
  <2>1. /\ GoesOn(w, "adding", enrichment[w].listed)
        /\ IsAt(w, "removing") /\ enrichment[w].todo = {} /\ UNCHANGED <<head, membership, lineage, round>>
    BY <1>15 DEF AllDeactivated
  <2>2. enrichment[w].listed \in SUBSET PullCommits
    BY <1>2 DEF Enrichments
  <2>3. /\ enrichment' \in [Webhooks -> Enrichments]
        /\ enrichment'[w].at = "adding" /\ enrichment'[w].todo = enrichment[w].listed
        /\ enrichment'[w].heard = enrichment[w].heard
        /\ enrichment'[w].listed = enrichment[w].listed
        /\ \A v \in Webhooks \ {w} : enrichment'[v] = enrichment[v]
    BY <1>1, <2>1, <2>2, GoesOnTyped DEF Places
  <2>4. Widens /\ Members' = Members
    BY <2>1, NothingWidens
  <2>5. PullTypeInv' /\ MembersAgreed'
    BY <1>1, <2>1, <2>3, <2>4 DEF PullTypeInv, MembersAgreed
  <2>6. /\ enrichment[w].heard /\ w \in AtWork
        /\ enrichment[w].listed \subseteq round.some /\ round.all \subseteq enrichment[w].listed
        /\ Members \subseteq round.some
    BY <1>2, <2>1 DEF WebhookInv, IsAt, AtWork
  <2>7. WebhookInv(w)'
    BY <2>1, <2>3, <2>4, <2>6 DEF WebhookInv, IsAt
  <2> QED
    BY <2>3, <2>4, <2>5, <2>7, PullInvOfOne
<1>16. ASSUME NEW w \in Webhooks, Activate(w) PROVE PullInv'
  <2>1. PICK c \in enrichment[w].todo :
            /\ membership' = [membership EXCEPT ![c] = "active"]
            /\ GoesOn(w, "adding", enrichment[w].todo \ {c})
    BY <1>16 DEF Activate
  <2>2. IsAt(w, "adding") /\ UNCHANGED <<head, lineage, round>>
    BY <1>16 DEF Activate
  <2>3. enrichment[w].todo \in SUBSET PullCommits
    BY <1>2 DEF Enrichments
  <2>4. /\ membership' \in [PullCommits -> {"none", "active", "inactive"}]
        /\ Members' = Members \cup {c}
    BY <1>1, <2>1, <2>3, MembersSet
  <2>5. /\ enrichment' \in [Webhooks -> Enrichments]
        /\ enrichment'[w].at = "adding" /\ enrichment'[w].todo = enrichment[w].todo \ {c}
        /\ enrichment'[w].heard = enrichment[w].heard
        /\ enrichment'[w].listed = enrichment[w].listed
        /\ \A v \in Webhooks \ {w} : enrichment'[v] = enrichment[v]
    BY <1>1, <2>1, <2>3, GoesOnTyped DEF Places
  <2>6. /\ enrichment[w].heard /\ w \in AtWork
        /\ enrichment[w].listed \subseteq round.some /\ round.all \subseteq enrichment[w].listed
        /\ enrichment[w].todo \subseteq enrichment[w].listed
        /\ Members \subseteq round.some
        /\ round.all \ enrichment[w].todo \subseteq Members
    BY <1>2, <2>2 DEF WebhookInv, IsAt, AtWork
  <2>7. c \in round.some
    BY <2>6
  <2>8. Widens
    BY <2>2, <2>4, <2>7 DEF Widens
  <2>9. PullTypeInv' /\ MembersAgreed'
    BY <1>1, <2>2, <2>4, <2>5, <2>7 DEF PullTypeInv, MembersAgreed
  <2>10. WebhookInv(w)'
    BY <2>2, <2>4, <2>5, <2>6, <2>7 DEF WebhookInv, IsAt
  <2> QED
    BY <2>5, <2>8, <2>9, <2>10, PullInvOfOne
<1>17. ASSUME NEW w \in Webhooks, SnapshotRecorded(w) PROVE PullInv'
  <2> DEFINE place == IF enrichment[w].merge THEN "snapshot" ELSE "ended"
  <2>1. /\ GoesOn(w, place, {}) /\ IsAt(w, "adding") /\ enrichment[w].todo = {}
        /\ round' = [round EXCEPT !.recorded = TRUE] /\ UNCHANGED <<head, membership, lineage>>
    BY <1>17 DEF SnapshotRecorded
  <2>2. place \in Places /\ place \in {"snapshot", "ended"} /\ {} \in SUBSET PullCommits
    BY DEF Places
  <2> HIDE DEF place
  <2>3. /\ enrichment' \in [Webhooks -> Enrichments]
        /\ enrichment'[w].at = place /\ enrichment'[w].todo = {}
        /\ enrichment'[w].heard = enrichment[w].heard
        /\ enrichment'[w].listed = enrichment[w].listed
        /\ \A v \in Webhooks \ {w} : enrichment'[v] = enrichment[v]
    BY <1>1, <2>1, <2>2, GoesOnTyped
  <2>4. /\ round' \in [some : SUBSET PullCommits, all : SUBSET PullCommits, recorded : BOOLEAN]
        /\ round'.some = round.some /\ round'.all = round.all /\ round'.recorded = TRUE
    BY <1>1, <2>1 DEF PullTypeInv
  <2>5. Members' = Members
    BY <2>1 DEF Members
  <2>6. /\ enrichment[w].heard /\ w \in AtWork
        /\ enrichment[w].listed \subseteq round.some /\ round.all \subseteq enrichment[w].listed
        /\ Members \subseteq round.some /\ round.all \subseteq Members
    BY <1>2, <2>1 DEF WebhookInv, IsAt, AtWork
  <2>7. Widens
    BY <2>4, <2>5 DEF Widens
  <2>8. PullTypeInv' /\ MembersAgreed'
    BY <1>1, <2>1, <2>3, <2>4, <2>5, <2>6 DEF PullTypeInv, MembersAgreed
  <2>9. WebhookInv(w)'
    BY <2>2, <2>3, <2>4, <2>6 DEF WebhookInv, IsAt
  <2> QED
    BY <2>3, <2>7, <2>8, <2>9, PullInvOfOne
<1>18. ASSUME NEW w \in Webhooks, ReadSources(w) PROVE PullInv'
  <2>1. GoesOn(w, "merging", Sources) /\ IsAt(w, "snapshot") /\ UNCHANGED <<head, membership, lineage, round>>
    BY <1>18 DEF ReadSources
  <2>2. Sources = Members /\ Sources \in SUBSET PullCommits
    BY <1>6 DEF Sources
  <2>3. /\ enrichment' \in [Webhooks -> Enrichments]
        /\ enrichment'[w].at = "merging" /\ enrichment'[w].todo = Sources
        /\ enrichment'[w].heard = enrichment[w].heard
        /\ enrichment'[w].listed = enrichment[w].listed
        /\ \A v \in Webhooks \ {w} : enrichment'[v] = enrichment[v]
    BY <1>1, <2>1, <2>2, GoesOnTyped DEF Places
  <2>4. Widens /\ Members' = Members
    BY <2>1, NothingWidens
  <2>5. PullTypeInv' /\ MembersAgreed'
    BY <1>1, <2>1, <2>3, <2>4 DEF PullTypeInv, MembersAgreed
  <2>6. /\ w \in AtWork
        /\ enrichment[w].heard =>
              /\ enrichment[w].listed \subseteq round.some /\ round.all \subseteq enrichment[w].listed
              /\ round.recorded
    BY <1>2, <2>1 DEF WebhookInv, IsAt, AtWork
  <2>7. enrichment[w].heard => Sources \subseteq round.some
    BY <1>1, <2>2, <2>6 DEF MembersAgreed
  <2>8. WebhookInv(w)'
    BY <2>1, <2>3, <2>6, <2>7 DEF WebhookInv, IsAt
  <2> QED
    BY <2>3, <2>4, <2>5, <2>8, PullInvOfOne
<1>19. ASSUME NEW w \in Webhooks, NEW c \in enrichment[w].todo, IsAt(w, "merging"),
              GoesOn(w, "merging", enrichment[w].todo \ {c}), UNCHANGED <<head, membership, round>>
       PROVE  PullInv'
  <2>1. enrichment[w].todo \ {c} \in SUBSET PullCommits
    BY <1>2 DEF Enrichments
  <2>2. /\ enrichment' \in [Webhooks -> Enrichments]
        /\ enrichment'[w].at = "merging" /\ enrichment'[w].todo = enrichment[w].todo \ {c}
        /\ enrichment'[w].heard = enrichment[w].heard
        /\ enrichment'[w].listed = enrichment[w].listed
        /\ \A v \in Webhooks \ {w} : enrichment'[v] = enrichment[v]
    BY <1>1, <1>19, <2>1, GoesOnTyped DEF Places
  <2>3. Widens /\ Members' = Members
    BY <1>19, NothingWidens
  <2>4. PullTypeInv' /\ MembersAgreed'
    BY <1>1, <1>19, <2>2, <2>3 DEF PullTypeInv, MembersAgreed
  <2>5. /\ w \in AtWork
        /\ enrichment[w].heard =>
              /\ enrichment[w].listed \subseteq round.some /\ round.all \subseteq enrichment[w].listed
              /\ enrichment[w].todo \subseteq round.some
    BY <1>2, <1>19 DEF WebhookInv, IsAt, AtWork
  <2>6. WebhookInv(w)'
    BY <1>19, <2>2, <2>5 DEF WebhookInv, IsAt
  <2> QED
    BY <2>2, <2>3, <2>4, <2>6, PullInvOfOne
<1>20. ASSUME NEW w \in Webhooks, NEW place \in {"ended", "failed"}, GoesOn(w, place, {}),
              UNCHANGED <<head, membership, lineage, round>>
       PROVE  PullInv'
  <2>1. place \in Places /\ {} \in SUBSET PullCommits
    BY <1>20 DEF Places
  <2>2. /\ enrichment' \in [Webhooks -> Enrichments]
        /\ enrichment'[w].at = place
        /\ \A v \in Webhooks \ {w} : enrichment'[v] = enrichment[v]
    BY <1>1, <1>20, <2>1, GoesOnTyped
  <2>3. Widens /\ Members' = Members
    BY <1>20, NothingWidens
  <2>4. PullTypeInv' /\ MembersAgreed'
    BY <1>1, <1>20, <2>2, <2>3 DEF PullTypeInv, MembersAgreed
  <2>5. WebhookInv(w)'
    BY <1>20, <2>2 DEF WebhookInv, IsAt, AtWork
  <2> QED
    BY <2>2, <2>3, <2>4, <2>5, PullInvOfOne
<1>21. CASE UNCHANGED pullVars
  <2>1. UNCHANGED <<head, membership, enrichment, round>>
    BY <1>21 DEF pullVars
  <2>2. PullTypeInv' /\ MembersAgreed'
    BY <1>1, <2>1 DEF PullTypeInv, MembersAgreed, Members
  <2>3. ASSUME NEW w \in Webhooks PROVE WebhookInv(w)'
    BY <2>1, OthersKept, NothingWidens
  <2> QED
    BY <2>2, <2>3 DEF PullInv
<1>22. ASSUME NEW w \in Webhooks,
              AddSource(w) \/ LineageRecorded(w) \/ EnrichmentFails(w)
       PROVE  PullInv'
  <2>1. CASE AddSource(w)
    BY <1>19, <2>1 DEF AddSource
  <2>2. CASE LineageRecorded(w)
    BY <1>20, <2>2 DEF LineageRecorded
  <2>3. CASE EnrichmentFails(w)
    BY <1>20, <2>3 DEF EnrichmentFails
  <2> QED
    BY <1>22, <2>1, <2>2, <2>3
<1> QED
    BY <1>10, <1>11, <1>12, <1>13, <1>14, <1>15, <1>16, <1>17, <1>18, <1>21, <1>22 DEF PullNext

LEMMA PullInvariant == PullSpec => []PullInv
<1>1. PullInit => PullInv
    BY PullInvInit
<1>2. PullInv /\ [PullNext]_pullVars => PullInv'
    BY PullInvStep
<1> QED
    BY <1>1, <1>2, PTL DEF PullSpec

(* MembersAgreed, of any webhooks of a pull request, however they overlap    *)
(* and whichever fail.                                                       *)
THEOREM MembersAgree == PullSpec => []MembersAgreed
<1>1. PullInv => MembersAgreed
    BY DEF PullInv
<1> QED
    BY <1>1, PullInvariant, PTL

(* SourcesListed: what a merge that heard the list records was listed to it, *)
(* or to a webhook at work with it.                                          *)
THEOREM SourcesAreListed == PullSpec => SourcesListed
<1> DEFINE Kept ==
        \A w \in Webhooks : enrichment[w].heard /\ enrichment'[w] # enrichment[w]
            => lineage' \ lineage \subseteq round.some
<1>1. ASSUME PullInv, [PullNext]_pullVars PROVE [Kept]_pullVars
  <2> SUFFICES ASSUME NEW w \in Webhooks, enrichment[w].heard, enrichment'[w] # enrichment[w]
               PROVE  lineage' \ lineage \subseteq round.some
      OBVIOUS
  <2>1. CASE lineage' = lineage
    BY <2>1
  <2>2. ASSUME NEW v \in Webhooks, AddSource(v) PROVE lineage' \ lineage \subseteq round.some
    <3>1. PICK c \in enrichment[v].todo :
              lineage' = lineage \cup {c} /\ GoesOn(v, "merging", enrichment[v].todo \ {c})
      BY <2>2 DEF AddSource
    <3>2. v = w
      BY <3>1 DEF GoesOn, Enriches, PullInv, PullTypeInv
    <3>3. WebhookInv(w)
      BY <1>1 DEF PullInv
    <3>4. IsAt(w, "merging")
      BY <2>2, <3>2 DEF AddSource
    <3>5. enrichment[w].todo \subseteq round.some
      BY <3>3, <3>4 DEF WebhookInv
    <3> QED
      BY <3>1, <3>2, <3>5
  <2>3. lineage' = lineage \/ \E v \in Webhooks : AddSource(v)
    BY <1>1 DEF PullNext, pullVars, PushHead, ListCommits, NotListed, ReadMemberships, Deactivate,
                AllDeactivated, Activate, SnapshotRecorded, ReadSources, LineageRecorded, EnrichmentFails
  <2> QED
    BY <2>1, <2>2, <2>3
<1>2. [PullNext]_pullVars /\ PullInv => [Kept]_pullVars
    BY <1>1
<1> QED
    BY <1>2, PullInvariant, PTL DEF PullSpec, SourcesListed
=============================================================================
