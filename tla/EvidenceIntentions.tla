------------------------- MODULE EvidenceIntentions -------------------------
(***************************************************************************)
(* The evidence of one coding session: events and their raw content, the   *)
(* versions of its intention, and the semantic jobs they enqueue           *)
(* (features/evidence/service.ts).                                         *)
(*                                                                         *)
(* No handler here runs in a transaction: every statement commits alone,   *)
(* so every statement is a step, and a request may end between any two.    *)
(* Two unique keys and a foreign key of the database refuse some inserts.  *)
(*                                                                         *)
(* A batch has one prompt event and one text.  The session row, the links  *)
(* and the summaries, which no handler reads back to decide, are left out. *)
(***************************************************************************)
EXTENDS Naturals, FiniteSets

CONSTANTS
    Batches,        \* evidence batches of the collector
    Explicit,       \* the batches that carry an explicit intention
    TextOf,         \* the normalized text of a batch's intention
    CorrectedText,  \* what an administrator writes instead
    Requests,       \* requests that ingest at the same time
    Admins,         \* administrators correcting or purging
    Revisions,      \* model revisions that processes are configured with
    Retention,      \* RETENTION_MS, in ticks of the clock
    MaxTime,        \* bound: the clock stops here
    MaxIntentions,  \* bound: rows of evidence_intentions ever inserted
    MaxBegun        \* bound: batches, corrections, purges, reindexes begun

ASSUME RetentionAssumption ==
    /\ Retention \in Nat \ {0} /\ MaxTime \in Nat /\ MaxIntentions \in Nat /\ MaxBegun \in Nat
ASSUME BatchesAssumption == Explicit \subseteq Batches

Ids == 1..MaxIntentions
None == 0

\* A version has a job and a vector for each revision of the model.  (A job names
\* the fingerprint of its version's text too, which never changes.)
IndexKeys == [id : Ids, revision : Revisions]

VARIABLES
    now,        \* the clock
    events,     \* evidence_events, by batch, with the time they expire
    contents,   \* evidence_event_contents: the batches whose content is kept
    rows,       \* evidence_intentions: id -> row
    lastId,     \* ids given so far
    job,        \* evidence_semantic_jobs: intention and revision -> job
    vectors,    \* evidence_intention_embeddings: those with a vector
    pc, req,    \* where a request is, and what it has read
    apc, adm,   \* the same of an administrator's request
    begun       \* how many of these have begun

tables == <<events, contents, rows, lastId, job, vectors>>
ingest == <<pc, req>>
admin  == <<apc, adm>>
evidenceVars == <<now, tables, ingest, admin, begun>>

NoRow == [series |-> None]
NoRequest == [batch |-> None]
NoJob == [state |-> "none", attempts |-> 0, stale |-> FALSE]
PendingJob == [state |-> "pending", attempts |-> 0, stale |-> FALSE]

Stored == {i \in Ids : rows[i] # NoRow}
Series(s) == {i \in Stored : rows[i].series = s}
Versions(s) == {rows[i].version : i \in Series(s)}
Current == {i \in Stored : rows[i].current}
Expired(i) == rows[i].expires <= now

\* The current rows of the session with the highest version: the code sorts
\* them and takes the first.
Newest == {i \in Current : \A o \in Current : rows[o].version <= rows[i].version}

\* Mutant: without the two unique keys.
AcceptsAny(row) == row.supersedes # None => row.supersedes \in Stored

(***************************************************************************)
(* A new version takes effect only past the unique keys (series, version)  *)
(* and (series) where is_current, and the foreign key of its predecessor.  *)
(***************************************************************************)
Accepts(row) ==
    /\ \A i \in Series(row.series) :
           rows[i].version # row.version /\ ~rows[i].current
    /\ row.supersedes # None => row.supersedes \in Stored

InsertRow(row) ==
    /\ Accepts(row)
    /\ lastId' = lastId + 1
    /\ rows' = [rows EXCEPT ![lastId + 1] = row]

\* The insert, for the revision of the process, that does nothing when there is
\* such a job; with its intention deleted meanwhile it fails, and adds nothing
\* either.
EnqueueJob(i) ==
    \E m \in Revisions :
        LET k == [id |-> i, revision |-> m]
        IN  job' = IF i \in Stored /\ job[k] = NoJob
                   THEN [job EXCEPT ![k] = PendingJob] ELSE job

EvidenceInit ==
    /\ now = 0
    /\ events = [b \in Batches |-> None]
    /\ contents = {}
    /\ rows = [i \in Ids |-> NoRow]
    /\ lastId = 0
    /\ job = [k \in IndexKeys |-> NoJob]
    /\ vectors = {}
    /\ pc = [r \in Requests |-> "idle"]
    /\ req = [r \in Requests |-> NoRequest]
    /\ apc = [a \in Admins |-> "idle"]
    /\ begun = 0
    /\ adm = [a \in Admins |-> NoRequest]

Tick ==
    /\ now < MaxTime
    /\ now' = now + 1
    /\ UNCHANGED <<tables, ingest, admin, begun>>

----------------------------------------------------------------------------
(* Ingesting a batch.                                                      *)

\* The request is over: answered, failed or crashed.
EndRequest(r) ==
    /\ pc' = [pc EXCEPT ![r] = "idle"]
    /\ req' = [req EXCEPT ![r] = NoRequest]

\* One more request; a request that is idle may take it.
Starts == begun < MaxBegun /\ begun' = begun + 1

\* The clock is read and the event inserted.  An event seen before counts as a
\* duplicate, and a batch that brings no new event decides nothing about the
\* intention.
InsertEvent(r, b) ==
    /\ pc[r] = "idle"
    /\ Starts
    /\ \/ /\ events[b] = None
          /\ events' = [events EXCEPT ![b] = now + Retention]
          /\ pc' = [pc EXCEPT ![r] = "content"]
          /\ req' = [req EXCEPT ![r] = [batch |-> b, expires |-> now + Retention]]
       \/ events[b] # None /\ UNCHANGED <<events, ingest>>
    /\ UNCHANGED <<now, contents, rows, lastId, job, vectors, admin>>

StateOf(b) == IF b \in Explicit THEN "observed" ELSE "inferred"

\* shouldCreateIntentionVersion
Revises(b, i) ==
    /\ b \in Explicit
    /\ \/ rows[i].text # TextOf[b]
       \/ rows[i].state # "observed"

\* The content is inserted and the session's intention is read.
ReadIntention(r) ==
    /\ pc[r] = "content"
    /\ contents' = contents \cup {req[r].batch}
    /\ LET b == req[r].batch
           Version(s, v, p) ==
               [series |-> s, version |-> v, supersedes |-> p, current |-> TRUE,
                state |-> StateOf(b), text |-> TextOf[b],
                expires |-> req[r].expires, avail |-> "pending"]
       IN
       \/ /\ Newest = {}
          /\ pc' = [pc EXCEPT ![r] = "insert"]
          /\ req' = [req EXCEPT ![r] = [batch |-> b, new |-> Version(None, 1, None)]]
       \/ \E i \in Newest :
             \/ /\ Revises(b, i)
                /\ pc' = [pc EXCEPT ![r] = "unset"]
                /\ req' = [req EXCEPT ![r] =
                      [batch |-> b,
                       new |-> Version(rows[i].series, rows[i].version + 1, i)]]
             \/ /\ ~Revises(b, i)
                /\ EndRequest(r)
    /\ UNCHANGED <<now, events, rows, lastId, job, vectors, admin, begun>>

UnsetCurrent(r) ==
    /\ pc[r] = "unset"
    /\ LET i == req[r].new.supersedes IN
       rows' = IF i \in Stored THEN [rows EXCEPT ![i].current = FALSE] ELSE rows
    /\ pc' = [pc EXCEPT ![r] = "insert"]
    /\ UNCHANGED <<now, events, contents, lastId, job, vectors, req, admin, begun>>

\* A series is named by the id of its first version.
InsertIntention(r) ==
    /\ pc[r] = "insert"
    /\ lastId < MaxIntentions
    /\ LET new == [req[r].new EXCEPT !.series =
                      IF @ = None THEN lastId + 1 ELSE @] IN
       \/ /\ InsertRow(new)
          /\ pc' = [pc EXCEPT ![r] = "enqueue"]
          /\ req' = [req EXCEPT ![r] = [batch |-> @.batch, id |-> lastId + 1]]
       \/ /\ ~Accepts(new)
          /\ EndRequest(r)
          /\ UNCHANGED <<rows, lastId>>
    /\ UNCHANGED <<now, events, contents, job, vectors, admin, begun>>

EnqueueNew(r) ==
    /\ pc[r] = "enqueue"
    /\ EnqueueJob(req[r].id)
    /\ EndRequest(r)
    /\ UNCHANGED <<now, events, contents, rows, lastId, vectors, admin, begun>>

\* The process dies: nothing is undone, nothing is answered.
CrashRequest(r) ==
    /\ pc[r] # "idle"
    /\ EndRequest(r)
    /\ UNCHANGED <<now, tables, admin, begun>>

----------------------------------------------------------------------------
(* Correcting an intention.                                                *)

AdminDone(a) ==
    /\ apc' = [apc EXCEPT ![a] = "idle"]
    /\ adm' = [adm EXCEPT ![a] = NoRequest]

\* The version after the highest, and the predecessor: the current version, or
\* the corrected one when the series has none.
ReadSeries(a, i) ==
    /\ apc[a] = "idle"
    /\ Starts
    /\ i \in Stored /\ ~Expired(i)
    /\ LET o == rows[i]
           latest == CHOOSE v \in Versions(o.series) : \A u \in Versions(o.series) : u <= v
           current == Series(o.series) \cap Current
           before == IF current = {} THEN i ELSE CHOOSE c \in current : TRUE
       IN adm' = [adm EXCEPT ![a] =
                     [new |-> [series |-> o.series, version |-> latest + 1,
                               supersedes |-> before, current |-> TRUE,
                               state |-> "corrected", text |-> CorrectedText,
                               expires |-> o.expires, avail |-> "pending"]]]
    /\ apc' = [apc EXCEPT ![a] = "clear"]
    /\ UNCHANGED <<now, tables, ingest>>

ClearSeries(a) ==
    /\ apc[a] = "clear"
    /\ rows' = [i \in Ids |-> IF i \in Series(adm[a].new.series)
                              THEN [rows[i] EXCEPT !.current = FALSE] ELSE rows[i]]
    /\ apc' = [apc EXCEPT ![a] = "insert"]
    /\ UNCHANGED <<now, events, contents, lastId, job, vectors, ingest, adm, begun>>

InsertCorrection(a) ==
    /\ apc[a] = "insert"
    /\ lastId < MaxIntentions
    /\ \/ /\ InsertRow(adm[a].new)
          /\ apc' = [apc EXCEPT ![a] = "enqueue"]
          /\ adm' = [adm EXCEPT ![a] = [id |-> lastId + 1]]
       \/ /\ ~Accepts(adm[a].new)
          /\ AdminDone(a)
          /\ UNCHANGED <<rows, lastId>>
    /\ UNCHANGED <<now, events, contents, job, vectors, ingest, begun>>

EnqueueCorrection(a) ==
    /\ apc[a] = "enqueue"
    /\ EnqueueJob(adm[a].id)
    /\ AdminDone(a)
    /\ UNCHANGED <<now, events, contents, rows, lastId, vectors, ingest, begun>>

----------------------------------------------------------------------------
(* Purging what has expired.                                               *)

\* Mutant: the purge forgets to ask what has expired.
PurgeAny(a) ==
    /\ apc[a] = "idle"
    /\ Starts
    /\ contents' = {}
    /\ adm' = [adm EXCEPT ![a] = [ids |-> Stored]]
    /\ apc' = [apc EXCEPT ![a] = "vectors"]
    /\ UNCHANGED <<now, events, rows, lastId, job, vectors, ingest>>

\* What has expired is read, and the content of expired events deleted.
PurgeContents(a) ==
    /\ apc[a] = "idle"
    /\ Starts
    /\ contents' = contents \ {b \in Batches : events[b] \in 1..now}
    /\ adm' = [adm EXCEPT ![a] = [ids |-> {i \in Stored : Expired(i)}]]
    /\ apc' = [apc EXCEPT ![a] = "vectors"]
    /\ UNCHANGED <<now, events, rows, lastId, job, vectors, ingest>>

JobsWithout(ids) == [k \in IndexKeys |-> IF k.id \in ids THEN NoJob ELSE job[k]]
VectorsWithout(ids) == {k \in vectors : k.id \notin ids}

PurgeVectors(a) ==
    /\ apc[a] = "vectors"
    /\ vectors' = VectorsWithout(adm[a].ids)
    /\ apc' = [apc EXCEPT ![a] = "jobs"]
    /\ UNCHANGED <<now, events, contents, rows, lastId, job, ingest, adm, begun>>

PurgeJobs(a) ==
    /\ apc[a] = "jobs"
    /\ job' = JobsWithout(adm[a].ids)
    /\ apc' = [apc EXCEPT ![a] = "rows"]
    /\ UNCHANGED <<now, events, contents, rows, lastId, vectors, ingest, adm, begun>>

RowsWithout(ids) == [i \in Ids |-> IF i \in ids THEN NoRow ELSE rows[i]]

\* A version that stays still names one that is to go.
Referenced(ids) == \E i \in Stored \ ids : rows[i].supersedes \in ids

\* Mutant: the derived records have been deleted already, so only the rows are.
PurgeRowsOnly(a) ==
    /\ apc[a] = "rows"
    /\ ~Referenced(adm[a].ids)
    /\ rows' = RowsWithout(adm[a].ids)
    /\ AdminDone(a)
    /\ UNCHANGED <<now, events, contents, lastId, job, vectors, ingest, begun>>

\* The delete takes jobs and vectors along; the foreign key of a version that
\* stays refuses all of it.
PurgeRows(a) ==
    /\ apc[a] = "rows"
    /\ ~Referenced(adm[a].ids)
    /\ rows' = RowsWithout(adm[a].ids)
    /\ job' = JobsWithout(adm[a].ids)
    /\ vectors' = VectorsWithout(adm[a].ids)
    /\ AdminDone(a)
    /\ UNCHANGED <<now, events, contents, lastId, ingest, begun>>

PurgeRefused(a) ==
    /\ apc[a] = "rows"
    /\ Referenced(adm[a].ids)
    /\ AdminDone(a)
    /\ UNCHANGED <<now, tables, ingest, begun>>

CrashAdmin(a) ==
    /\ apc[a] # "idle"
    /\ AdminDone(a)
    /\ UNCHANGED <<now, tables, ingest, begun>>

----------------------------------------------------------------------------
RequestStep(r) ==
    \/ \E b \in Batches : InsertEvent(r, b)
    \/ ReadIntention(r) \/ UnsetCurrent(r) \/ InsertIntention(r) \/ EnqueueNew(r) \/ CrashRequest(r)

AdminStep(a) ==
    \/ \E i \in Ids : ReadSeries(a, i)
    \/ ClearSeries(a) \/ InsertCorrection(a) \/ EnqueueCorrection(a)
    \/ PurgeContents(a) \/ PurgeVectors(a) \/ PurgeJobs(a)
    \/ PurgeRows(a) \/ PurgeRefused(a) \/ CrashAdmin(a)

EvidenceNext ==
    \/ Tick
    \/ \E r \in Requests : RequestStep(r)
    \/ \E a \in Admins : AdminStep(a)

----------------------------------------------------------------------------
(* A series has at most one current version, and until a purge has deleted a  *)
(* version the current one is the newest, whatever corrections and ingests    *)
(* read before they wrote: a slow writer never puts an older text back, or a  *)
(* rival beside it.  After a purge a number may be given a second time.       *)
CurrentIsLatest ==
    \A i \in Current : \A o \in Series(rows[i].series) \ {i} :
        /\ ~rows[o].current /\ rows[o].version # rows[i].version
        /\ 1..lastId \subseteq Stored => rows[o].version < rows[i].version

(* What TASK5_SEMANTIC_EVIDENCE_DESIGN.md says of retention: a version that   *)
(* has expired is deleted.  When a purge comes to delete the versions it      *)
(* found expired, nothing stands in its way.                                  *)
PurgeCanFinish ==
    \A a \in Admins : apc[a] = "rows" => ~Referenced(adm[a].ids)
============================================================================
