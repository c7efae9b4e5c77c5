----------------------------- MODULE ExportJobs -----------------------------
(***************************************************************************)
(* The jobs behind evidence packs, audit exports and period reports        *)
(* (features/attesta/evidence-pack-service.ts, period-report-service.ts,   *)
(* features/audit/export-service.ts): one row per idempotency key, claimed *)
(* under a lease of ten minutes by whoever runs it, the API process that   *)
(* created it or the recovery command.                                     *)
(*                                                                         *)
(* The result of a pack or an export is a file, written before the row is  *)
(* marked ready; the result of a report is a statement, chained in the     *)
(* transaction that marks the row.  What they hold is left out.            *)
(***************************************************************************)
EXTENDS Naturals, FiniteSets

CONSTANTS
    Posters,    \* HTTP requests at the same time
    JobKeys,    \* idempotency keys, each always sent with the same scope
    Reports,    \* the keys whose job chains a statement
    Runners,    \* runs of a job: started by the API, or by the recovery CLI
    MaxOpen,    \* MAX_OPEN_PACKS
    MaxClaims   \* bound: claims of one job

ASSUME ExportAssumption ==
    Reports \subseteq JobKeys /\ MaxOpen \in Nat \ {0} /\ MaxClaims \in Nat \ {0}

VARIABLES
    jobs,       \* the job table, by key
    files,      \* the files in the sink
    chained,    \* the report statements in the ledger
    asked,      \* the key a request is about to insert
    rpc, held,  \* where a run is, and the claim it holds
    unheard     \* history: jobs finished by a statement whose answer was lost

exportVars == <<jobs, files, chained, asked, rpc, held, unheard>>

NoKey == "none"
NoFile == <<>>
NoJobRow == [status |-> "absent", attempts |-> 0, leased |-> FALSE, file |-> NoFile]
NoClaim == [key |-> NoKey, attempts |-> 0]

ExportInit ==
    /\ jobs = [k \in JobKeys |-> NoJobRow]
    /\ files = {} /\ chained = {}
    /\ asked = [q \in Posters |-> NoKey]
    /\ rpc = [p \in Runners |-> "idle"]
    /\ held = [p \in Runners |-> NoClaim]
    /\ unheard = {}

----------------------------------------------------------------------------
(* Creating a job.                                                         *)

\* Queued or running within ten minutes of its creation or claim.
IsOpen(k) == jobs[k].status \in {"queued", "running"} /\ jobs[k].leased

\* A known key is a replay and a full queue refuses: neither changes anything.
Post(q, k) ==
    /\ asked[q] = NoKey
    /\ jobs[k].status = "absent"
    /\ Cardinality({o \in JobKeys : IsOpen(o)}) < MaxOpen
    /\ asked' = [asked EXCEPT ![q] = k]
    /\ UNCHANGED <<jobs, files, chained, rpc, held, unheard>>

\* insert ... on conflict do nothing; the loser answers with the winner's job.
CreateOrGet(q) ==
    /\ asked[q] # NoKey
    /\ jobs' = IF jobs[asked[q]].status # "absent" THEN jobs
               ELSE [jobs EXCEPT ![asked[q]] =
                        [NoJobRow EXCEPT !.status = "queued", !.leased = TRUE]]
    /\ asked' = [asked EXCEPT ![q] = NoKey]
    /\ UNCHANGED <<files, chained, rpc, held, unheard>>

LeaseEnds(k) ==
    /\ IsOpen(k)
    /\ jobs' = [jobs EXCEPT ![k].leased = FALSE]
    /\ UNCHANGED <<files, chained, asked, rpc, held, unheard>>

----------------------------------------------------------------------------
(* Running a job.                                                          *)

ClaimJob(p, k) ==
    /\ rpc[p] = "idle"
    /\ \/ jobs[k].status = "queued"
       \/ jobs[k].status = "running" /\ ~jobs[k].leased
    /\ jobs[k].attempts < MaxClaims
    /\ jobs' = [jobs EXCEPT ![k].status = "running", ![k].leased = TRUE,
                            ![k].attempts = @ + 1]
    /\ held' = [held EXCEPT ![p] = [key |-> k, attempts |-> jobs[k].attempts + 1]]
    /\ rpc' = [rpc EXCEPT ![p] = "building"]
    /\ UNCHANGED <<files, chained, asked, unheard>>

\* Mutant: the name without its random part.
FileNamedByJob(claim) == <<claim.key>>

\* The name holds a random part: every write makes a file of its own.
FileOf(claim) == <<claim.key, claim.attempts>>

ExportGoes(p, where) == rpc' = [rpc EXCEPT ![p] = where]
RunEnds(p) == ExportGoes(p, "idle") /\ held' = [held EXCEPT ![p] = NoClaim]

\* Read, build and sign; for a pack, write the file.
Build(p) ==
    /\ rpc[p] = "building"
    /\ files' = IF held[p].key \in Reports THEN files
                ELSE files \cup {FileOf(held[p])}
    /\ ExportGoes(p, "built")
    /\ UNCHANGED <<jobs, chained, asked, held, unheard>>

\* The signer, the trust material, the sink or the database fails.
BuildFails(p) ==
    /\ rpc[p] = "building"
    /\ ExportGoes(p, "failing")
    /\ UNCHANGED <<jobs, files, chained, asked, held, unheard>>

StillRunning(p) == jobs[held[p].key].status = "running"

\* where status = 'running' and attempts = ours
StillOurs(p) == StillRunning(p) /\ jobs[held[p].key].attempts = held[p].attempts

Finished(p, status, file) ==
    [jobs EXCEPT ![held[p].key] =
        [@ EXCEPT !.status = status, !.leased = FALSE, !.file = file]]

FinishPack(p) ==
    /\ rpc[p] = "built" /\ held[p].key \notin Reports
    /\ \/ /\ StillOurs(p)
          /\ jobs' = Finished(p, "ready", FileOf(held[p]))
          /\ \/ RunEnds(p) /\ UNCHANGED unheard
             \/ /\ ExportGoes(p, "cleaning")
                /\ unheard' = unheard \cup {held[p].key}
                /\ UNCHANGED held
       \/ /\ ~StillOurs(p)
          /\ ExportGoes(p, "leaseLost")
          /\ UNCHANGED <<jobs, held, unheard>>
    /\ UNCHANGED <<files, chained, asked>>

\* chainReady: the row lock, the statement and the row in one transaction.
FinishReport(p) ==
    /\ rpc[p] = "built" /\ held[p].key \in Reports
    /\ \/ /\ StillOurs(p)
          /\ chained' = chained \cup {held[p]}
          /\ jobs' = Finished(p, "ready", NoFile)
          /\ \/ RunEnds(p)
             \/ ExportGoes(p, "failing") /\ UNCHANGED held
       \/ /\ ~StillOurs(p)
          /\ RunEnds(p)
          /\ UNCHANGED <<jobs, chained>>
    /\ UNCHANGED <<files, asked, unheard>>

\* The ledger moved on: the report is read and built again.
RebuildReport(p) ==
    /\ rpc[p] = "built" /\ held[p].key \in Reports
    /\ StillOurs(p)
    /\ ExportGoes(p, "building")
    /\ UNCHANGED <<jobs, files, chained, asked, held, unheard>>

FinishFails(p) ==
    /\ rpc[p] = "built"
    /\ ExportGoes(p, IF held[p].key \in Reports THEN "failing" ELSE "cleaning")
    /\ UNCHANGED <<jobs, files, chained, asked, held, unheard>>

\* Remove the file; that this fails is ignored.
RemoveFile(p) ==
    /\ rpc[p] \in {"cleaning", "leaseLost"}
    /\ files' \in {files, files \ {FileOf(held[p])}}
    /\ IF rpc[p] = "leaseLost" THEN RunEnds(p)
       ELSE ExportGoes(p, "failing") /\ UNCHANGED held
    /\ UNCHANGED <<jobs, chained, asked, unheard>>

FinishFailed(p) ==
    /\ rpc[p] = "failing"
    /\ \/ StillOurs(p) /\ jobs' = Finished(p, "failed", NoFile)
       \/ UNCHANGED jobs  \* lost, or the statement failed
    /\ RunEnds(p)
    /\ UNCHANGED <<files, chained, asked, unheard>>

RunCrashes(p) ==
    /\ rpc[p] # "idle"
    /\ RunEnds(p)
    /\ UNCHANGED <<jobs, files, chained, asked, unheard>>

ExportNext ==
    \/ \E q \in Posters : CreateOrGet(q) \/ \E k \in JobKeys : Post(q, k)
    \/ \E k \in JobKeys : LeaseEnds(k)
    \/ \E p \in Runners :
          \/ \E k \in JobKeys : ClaimJob(p, k)
          \/ Build(p) \/ BuildFails(p)
          \/ FinishPack(p) \/ FinishReport(p) \/ RebuildReport(p) \/ FinishFails(p)
          \/ RemoveFile(p) \/ FinishFailed(p) \/ RunCrashes(p)

ExportSpec == ExportInit /\ [][ExportNext]_exportVars

----------------------------------------------------------------------------
Ready == {k \in JobKeys : jobs[k].status = "ready"}

(* What runEvidencePack's comment says: the file is removed when the job     *)
(* could not be finished.  A job that is ready still has its file.           *)
ReadyHasFile == \A k \in Ready \ Reports : jobs[k].file \in files

(* The same while every answer of the database arrives: a run whose lease    *)
(* was retaken cleans up after itself and never takes away what its          *)
(* successor finished with.                                                  *)
StaleRunHarmless == \A k \in Ready \ (Reports \cup unheard) : jobs[k].file \in files

(* A report is ready exactly when one statement was chained for it, by the   *)
(* run that holds its last claim: a slow run, a retaken lease or a lost      *)
(* answer never leads to a second statement, or to one without its report.   *)
ReportChainedOnce ==
    \A k \in Reports :
        {c \in chained : c.key = k} =
            IF k \in Ready THEN {[key |-> k, attempts |-> jobs[k].attempts]} ELSE {}
============================================================================
