------------------------- MODULE SemanticIndexProofs -------------------------
(***************************************************************************)
(* Theorems about EvidenceIntentions and SemanticIndex, for any batches,    *)
(* requests, administrators, workers and times.                             *)
(***************************************************************************)
EXTENDS SemanticIndex, TLAPS, WellFoundedInduction

(***************************************************************************)
(* Types.  What a request, an administrator or a worker holds depends on    *)
(* where it is.                                                             *)
(***************************************************************************)
Texts == {TextOf[b] : b \in Batches} \cup {CorrectedText}
States == {"observed", "inferred", "corrected"}
Availabilities == {"pending", "available", "unavailable"}
RowsOf(series) ==
    [series : series, version : Nat \ {0}, supersedes : Ids \cup {None}, current : BOOLEAN,
     state : States, text : Texts, expires : Nat, avail : Availabilities]
Rows == RowsOf(Ids)
NewRows == RowsOf(Ids \cup {None})
Jobs == [state : Settled \cup {"none", "pending", "processing"},
         attempts : 0..MaxAttempts, stale : BOOLEAN]
Claims == [job : IndexKeys, at : 0..MaxTime, attempts : 0..(MaxAttempts - 1)]
Visits ==
    {v \in [ids : SUBSET Ids, marking : Ids \cup {None}, revision : Revisions \cup {None}] :
        v.ids # {} => v.revision \in Revisions}

TablesInv ==
    /\ now \in 0..MaxTime
    /\ events \in [Batches -> 0..(MaxTime + Retention)]
    /\ contents \subseteq {b \in Batches : events[b] # None}
    /\ lastId \in 0..MaxIntentions
    /\ rows \in [Ids -> Rows \cup {NoRow}]
    /\ Stored \subseteq 1..lastId
    /\ \A i \in Stored : rows[i].version <= lastId
    /\ job \in [IndexKeys -> Jobs]
    /\ \A k \in IndexKeys :
          job[k].state \in {"pending", "processing"} => job[k].attempts < MaxAttempts
    /\ vectors \subseteq IndexKeys

RequestsInv ==
    /\ pc = [r \in Requests |-> pc[r]] /\ req = [r \in Requests |-> req[r]]
    /\ \A r \in Requests :
          /\ pc[r] = "content" =>
                /\ req[r] \in [batch : Batches, expires : Nat]
                /\ events[req[r].batch] # None
          /\ pc[r] \in {"unset", "insert"} =>
                /\ req[r] \in [batch : Batches, new : NewRows]
                /\ req[r].new.version <= lastId + 1
          /\ pc[r] = "enqueue" => req[r] \in [batch : Batches, id : Ids]

AdminsInv ==
    /\ apc = [a \in Admins |-> apc[a]] /\ adm = [a \in Admins |-> adm[a]]
    /\ \A a \in Admins :
          /\ apc[a] \in {"clear", "insert"} =>
                adm[a] \in [new : Rows] /\ adm[a].new.version <= lastId + 1
          /\ apc[a] = "enqueue" => adm[a] \in [id : Ids]
          /\ apc[a] \in {"vectors", "jobs", "rows"} => adm[a] \in [ids : SUBSET (1..lastId)]

WorkersInv ==
    /\ wpc = [w \in Workers |-> wpc[w]]
    /\ work \in [Workers -> Claims \cup {Idle}]
    /\ \A w \in Workers : wpc[w] # "idle" => work[w] \in Claims /\ work[w].job.id <= lastId
    /\ reindexing \in Visits

IndexTypeInv == TablesInv /\ RequestsInv /\ AdminsInv /\ WorkersInv

LEMMA RowTypes ==
    /\ NoRow \notin Rows
    /\ \A row \in Rows : row \in NewRows
    /\ \A row \in Rows : row # NoRow /\ row.series \in Ids /\ row.version \in Nat /\ row.expires \in Nat
    /\ NoJob \in Jobs /\ PendingJob \in Jobs /\ NoJob # PendingJob
    /\ NoJob.state = "none" /\ PendingJob.state = "pending" /\ PendingJob.attempts = 0
<1>1. \A row \in Rows : row.series \in Ids /\ row.version \in Nat /\ row.expires \in Nat
    BY DEF Rows, RowsOf
<1>2. \A row \in Rows : row.series # None
    BY <1>1 DEF Ids, None
<1>3. NoRow.series = None
    BY DEF NoRow
<1>4. \A row \in Rows : row \in NewRows
    BY DEF Rows, NewRows, RowsOf
<1>5. NoJob \in Jobs /\ PendingJob \in Jobs
    BY AttemptsAssumption DEF NoJob, PendingJob, Jobs
<1> QED BY <1>1, <1>2, <1>3, <1>4, <1>5 DEF NoJob, PendingJob

LEMMA RowOfStored ==
    ASSUME TablesInv, NEW i \in Stored
    PROVE  i \in Ids /\ rows[i] \in Rows
BY DEF TablesInv, Stored

(* The updates of one field of a row, of a job or of a claim.                *)
LEMMA RowUpdates ==
    ASSUME NEW row \in Rows
    PROVE  /\ [row EXCEPT !.current = FALSE] \in Rows
           /\ [row EXCEPT !.current = FALSE].series = row.series
           /\ [row EXCEPT !.current = FALSE].version = row.version
           /\ [row EXCEPT !.current = FALSE].expires = row.expires
           /\ [row EXCEPT !.current = FALSE].avail = row.avail
           /\ [row EXCEPT !.current = FALSE].current = FALSE
           /\ \A v \in Availabilities :
                 /\ [row EXCEPT !.avail = v] \in Rows
                 /\ [row EXCEPT !.avail = v].series = row.series
                 /\ [row EXCEPT !.avail = v].version = row.version
                 /\ [row EXCEPT !.avail = v].expires = row.expires
                 /\ [row EXCEPT !.avail = v].current = row.current
                 /\ [row EXCEPT !.avail = v].avail = v
BY DEF Rows, RowsOf

LEMMA JobUpdates ==
    ASSUME NEW j \in Jobs, NEW s \in Settled \cup {"pending", "processing"}, NEW b \in BOOLEAN
    PROVE  /\ [j EXCEPT !.stale = b] \in Jobs /\ [j EXCEPT !.stale = b].state = j.state
           /\ [j EXCEPT !.stale = b].attempts = j.attempts
           /\ [j EXCEPT !.state = s, !.stale = b] \in Jobs
           /\ [j EXCEPT !.state = s, !.stale = b].state = s
           /\ [j EXCEPT !.state = s, !.stale = b].attempts = j.attempts
<1> DEFINE half == [j EXCEPT !.state = s]
<1>1. half \in Jobs /\ half.state = s /\ half.attempts = j.attempts
    BY DEF Jobs
<1>2. [j EXCEPT !.state = s, !.stale = b] = [half EXCEPT !.stale = b]
    OBVIOUS
<1> HIDE DEF half
<1>3. /\ [half EXCEPT !.stale = b] \in Jobs /\ [half EXCEPT !.stale = b].state = s
      /\ [half EXCEPT !.stale = b].attempts = j.attempts
    BY <1>1 DEF Jobs
<1>4. /\ [j EXCEPT !.stale = b] \in Jobs /\ [j EXCEPT !.stale = b].state = j.state
      /\ [j EXCEPT !.stale = b].attempts = j.attempts
    BY DEF Jobs
<1> QED BY <1>2, <1>3, <1>4

LEMMA IndexTypeInit == Init => IndexTypeInv
<1> SUFFICES ASSUME Init PROVE IndexTypeInv
    OBVIOUS
<1>1. TablesInv
    BY RowTypes, RetentionAssumption DEF Init, EvidenceInit, TablesInv, Stored, NoJob, None
<1>2. RequestsInv /\ AdminsInv
    BY DEF Init, EvidenceInit, RequestsInv, AdminsInv
<1>3. WorkersInv
    BY DEF Init, WorkersInv, Visits, NotReindexing, None
<1> QED BY <1>1, <1>2, <1>3 DEF IndexTypeInv

(* A request goes to s with q in its hands.                                  *)
LEMMA RequestMoves ==
    ASSUME RequestsInv, NEW r \in Requests, NEW s, NEW q,
           pc' = [pc EXCEPT ![r] = s], req' = [req EXCEPT ![r] = q],
           \A b \in Batches : events[b] # None => events'[b] # None,
           lastId \in Nat, lastId' \in Nat, lastId <= lastId',
           s = "content" => q \in [batch : Batches, expires : Nat] /\ events'[q.batch] # None,
           s \in {"unset", "insert"} =>
               q \in [batch : Batches, new : NewRows] /\ q.new.version <= lastId' + 1,
           s = "enqueue" => q \in [batch : Batches, id : Ids]
    PROVE  RequestsInv'
<1> SUFFICES ASSUME NEW t \in Requests
             PROVE  /\ pc'[t] = "content" =>
                          /\ req'[t] \in [batch : Batches, expires : Nat]
                          /\ events'[req'[t].batch] # None
                    /\ pc'[t] \in {"unset", "insert"} =>
                          /\ req'[t] \in [batch : Batches, new : NewRows]
                          /\ req'[t].new.version <= lastId' + 1
                    /\ pc'[t] = "enqueue" => req'[t] \in [batch : Batches, id : Ids]
    BY DEF RequestsInv
<1>1. CASE t = r
    BY <1>1 DEF RequestsInv
<1>2. CASE t # r
    <2>1. pc'[t] = pc[t] /\ req'[t] = req[t]
        BY <1>2 DEF RequestsInv
    <2>2. pc[t] = "content" => req[t].batch \in Batches
        BY DEF RequestsInv
    <2>3. pc[t] \in {"unset", "insert"} => req[t].new.version <= lastId' + 1
        <3>1. SUFFICES ASSUME pc[t] \in {"unset", "insert"} PROVE req[t].new.version <= lastId' + 1
            OBVIOUS
        <3>2. req[t].new.version \in Nat /\ req[t].new.version <= lastId + 1
            BY <3>1 DEF RequestsInv, NewRows, RowsOf
        <3> QED BY <3>2
    <2> QED BY <2>1, <2>2, <2>3 DEF RequestsInv
<1> QED BY <1>1, <1>2

LEMMA RequestEnds ==
    ASSUME RequestsInv, NEW r \in Requests, EndRequest(r), UNCHANGED <<events, lastId>>, lastId \in Nat
    PROVE  RequestsInv'
<1>1. /\ \A b \in Batches : events[b] # None => events'[b] # None
      /\ lastId' \in Nat /\ lastId <= lastId'
    OBVIOUS
<1>2. pc' = [pc EXCEPT ![r] = "idle"] /\ req' = [req EXCEPT ![r] = NoRequest]
    BY DEF EndRequest
<1> QED BY <1>1, <1>2, RequestMoves

LEMMA RequestsKept ==
    ASSUME RequestsInv, UNCHANGED <<pc, req>>,
           \A b \in Batches : events[b] # None => events'[b] # None,
           lastId \in Nat, lastId' \in Nat, lastId <= lastId'
    PROVE  RequestsInv'
<1>1. \A t \in Requests : pc[t] = "content" => req[t].batch \in Batches
    BY DEF RequestsInv
<1>2. ASSUME NEW t \in Requests, pc[t] \in {"unset", "insert"}
      PROVE  req[t].new.version <= lastId' + 1
    <2>1. req[t].new.version \in Nat /\ req[t].new.version <= lastId + 1
        BY <1>2 DEF RequestsInv, NewRows, RowsOf
    <2> QED BY <2>1
<1> QED BY <1>1, <1>2 DEF RequestsInv

LEMMA AdminMoves ==
    ASSUME AdminsInv, NEW a \in Admins, NEW s, NEW q,
           apc' = [apc EXCEPT ![a] = s], adm' = [adm EXCEPT ![a] = q],
           lastId \in Nat, lastId' \in Nat, lastId <= lastId',
           s \in {"clear", "insert"} => q \in [new : Rows] /\ q.new.version <= lastId' + 1,
           s = "enqueue" => q \in [id : Ids],
           s \in {"vectors", "jobs", "rows"} => q \in [ids : SUBSET (1..lastId')]
    PROVE  AdminsInv'
<1>1. \A t : t \in [ids : SUBSET (1..lastId)] => t \in [ids : SUBSET (1..lastId')]
    OBVIOUS
<1> SUFFICES ASSUME NEW t \in Admins
             PROVE  /\ apc'[t] \in {"clear", "insert"} =>
                          adm'[t] \in [new : Rows] /\ adm'[t].new.version <= lastId' + 1
                    /\ apc'[t] = "enqueue" => adm'[t] \in [id : Ids]
                    /\ apc'[t] \in {"vectors", "jobs", "rows"} => adm'[t] \in [ids : SUBSET (1..lastId')]
    BY DEF AdminsInv
<1>2. CASE t = a
    BY <1>2 DEF AdminsInv
<1>3. CASE t # a
    <2>1. apc'[t] = apc[t] /\ adm'[t] = adm[t]
        BY <1>3 DEF AdminsInv
    <2>2. apc[t] \in {"clear", "insert"} => adm[t].new.version <= lastId' + 1
        <3>1. SUFFICES ASSUME apc[t] \in {"clear", "insert"} PROVE adm[t].new.version <= lastId' + 1
            OBVIOUS
        <3>2. adm[t].new.version \in Nat /\ adm[t].new.version <= lastId + 1
            BY <3>1 DEF AdminsInv, Rows, RowsOf
        <3> QED BY <3>2
    <2> QED BY <1>1, <2>1, <2>2 DEF AdminsInv
<1> QED BY <1>2, <1>3

LEMMA AdminsKept ==
    ASSUME AdminsInv, UNCHANGED <<apc, adm>>, lastId \in Nat, lastId' \in Nat, lastId <= lastId'
    PROVE  AdminsInv'
<1>1. \A t : t \in [ids : SUBSET (1..lastId)] => t \in [ids : SUBSET (1..lastId')]
    OBVIOUS
<1>2. ASSUME NEW t \in Admins, apc[t] \in {"clear", "insert"}
      PROVE  adm[t].new.version <= lastId' + 1
    <2>1. adm[t].new.version \in Nat /\ adm[t].new.version <= lastId + 1
        BY <1>2 DEF AdminsInv, Rows, RowsOf
    <2> QED BY <2>1
<1> QED BY <1>1, <1>2 DEF AdminsInv

LEMMA WorkersKept ==
    ASSUME TablesInv, WorkersInv, UNCHANGED <<wpc, work, reindexing>>,
           lastId' \in Nat, lastId <= lastId'
    PROVE  WorkersInv'
<1> SUFFICES ASSUME NEW w \in Workers, wpc[w] # "idle" PROVE work[w].job.id <= lastId'
    BY DEF WorkersInv
<1>1. work[w].job.id \in Nat /\ work[w].job.id <= lastId /\ lastId \in Nat
    BY DEF WorkersInv, TablesInv, Claims, IndexKeys, Ids
<1> QED BY <1>1

LEMMA WorkerMoves ==
    ASSUME WorkersInv, NEW w \in Workers, NEW s, NEW q \in Claims \cup {Idle},
           wpc' = [wpc EXCEPT ![w] = s], work' = [work EXCEPT ![w] = q],
           s # "idle" => q \in Claims /\ q.job.id <= lastId,
           UNCHANGED <<lastId, reindexing>>
    PROVE  WorkersInv'
BY DEF WorkersInv

(* The updates by id, of a job and of the availability of a version.         *)
LEMMA SetJobTyped ==
    ASSUME TablesInv, NEW k \in IndexKeys, NEW f \in Jobs,
           f.state \in {"pending", "processing"} => f.attempts < MaxAttempts,
           job' = IF job[k] = NoJob THEN job ELSE [job EXCEPT ![k] = f],
           UNCHANGED <<now, events, contents, lastId, rows, vectors>>
    PROVE  TablesInv'
<1>1. Stored' = Stored
    BY DEF Stored
<1> QED BY <1>1 DEF TablesInv

LEMMA RowsSetTyped ==
    ASSUME TablesInv, NEW F, F \in [Ids -> Rows \cup {NoRow}], rows' = F,
           \A i \in Ids : F[i] # NoRow => rows[i] # NoRow /\ F[i].version = rows[i].version,
           UNCHANGED <<now, events, contents, lastId, job>>,
           vectors' \subseteq IndexKeys
    PROVE  TablesInv'
<1>1. Stored' \subseteq Stored /\ \A i \in Stored' : rows'[i].version = rows[i].version
    BY DEF Stored
<1> QED BY <1>1 DEF TablesInv

LEMMA SetAvailabilityTyped ==
    ASSUME TablesInv, NEW i \in Ids, NEW v \in Availabilities, SetAvailability(i, v),
           UNCHANGED <<now, events, contents, lastId, job, vectors>>
    PROVE  TablesInv'
<1>1. CASE i \in Stored
    <2>1. rows[i] \in Rows
        BY <1>1, RowOfStored
    <2>2. [rows EXCEPT ![i].avail = v] \in [Ids -> Rows \cup {NoRow}]
        BY <2>1, RowUpdates DEF TablesInv
    <2>3. \A o \in Ids : [rows EXCEPT ![i].avail = v][o] # NoRow =>
              rows[o] # NoRow /\ [rows EXCEPT ![i].avail = v][o].version = rows[o].version
        BY <1>1, <2>1, RowUpdates DEF TablesInv, Stored
    <2> QED BY <1>1, <2>2, <2>3, RowsSetTyped DEF SetAvailability, TablesInv
<1>2. CASE i \notin Stored
    <2>1. rows' = rows
        BY <1>2 DEF SetAvailability
    <2> QED BY <2>1 DEF TablesInv, Stored
<1> QED BY <1>1, <1>2

LEMMA EnqueueJobTyped ==
    ASSUME TablesInv, NEW i \in Ids, EnqueueJob(i),
           UNCHANGED <<now, events, contents, lastId, rows, vectors>>
    PROVE  TablesInv'
<1>1. Stored' = Stored
    BY DEF Stored
<1>2. PICK m \in Revisions :
          LET k == [id |-> i, revision |-> m]
          IN  job' = IF i \in Stored /\ job[k] = NoJob
                     THEN [job EXCEPT ![k] = PendingJob] ELSE job
    BY DEF EnqueueJob
<1> DEFINE k == [id |-> i, revision |-> m]
<1>3. k \in IndexKeys
    BY DEF IndexKeys
<1> HIDE DEF k
<1>4. job' \in [IndexKeys -> Jobs]
    BY <1>2, <1>3, RowTypes DEF TablesInv, k
<1>5. \A o \in IndexKeys :
          job'[o].state \in {"pending", "processing"} => job'[o].attempts < MaxAttempts
    BY <1>2, <1>3, RowTypes, AttemptsAssumption DEF TablesInv, k
<1> QED BY <1>1, <1>4, <1>5 DEF TablesInv

LEMMA InsertRowTyped ==
    ASSUME TablesInv, NEW row \in Rows, InsertRow(row), lastId < MaxIntentions,
           row.version <= lastId + 1,
           UNCHANGED <<now, events, contents, job, vectors>>
    PROVE  TablesInv' /\ lastId + 1 \in Ids /\ lastId' = lastId + 1 /\ lastId' \in Nat /\ lastId <= lastId'
<1>1. lastId + 1 \in Ids /\ lastId \in Nat
    BY RetentionAssumption DEF TablesInv, Ids
<1>2. rows' = [rows EXCEPT ![lastId + 1] = row] /\ lastId' = lastId + 1
    BY DEF InsertRow
<1>3. Stored' \subseteq Stored \cup {lastId + 1}
    BY <1>2 DEF Stored, TablesInv
<1>4. lastId' \in 0..MaxIntentions
    BY <1>1, <1>2, RetentionAssumption DEF TablesInv
<1>5. Stored' \subseteq 1..lastId'
    BY <1>1, <1>2, <1>3 DEF TablesInv
<1>6. \A i \in Stored' : rows'[i].version <= lastId'
    <2> SUFFICES ASSUME NEW i \in Stored' PROVE rows'[i].version <= lastId'
        OBVIOUS
    <2>1. CASE i = lastId + 1
        BY <1>1, <1>2, <2>1 DEF TablesInv
    <2>2. CASE i # lastId + 1
        <3>1. i \in Stored /\ rows'[i] = rows[i]
            BY <1>2, <1>3, <2>2 DEF Stored, TablesInv
        <3>2. rows[i].version \in Nat /\ rows[i].version <= lastId
            BY <3>1, RowOfStored, RowTypes DEF TablesInv
        <3> QED BY <1>1, <1>2, <3>1, <3>2
    <2> QED BY <2>1, <2>2
<1> QED BY <1>1, <1>2, <1>4, <1>5, <1>6 DEF TablesInv

(* The greatest of a set of numbers, for a version after the latest one.     *)
LEMMA LeastNumber == \A T \in SUBSET Nat : T # {} => \E m \in T : \A n \in T : m <= n
<1> SUFFICES ASSUME NEW T \in SUBSET Nat, T # {} PROVE \E m \in T : \A n \in T : m <= n
    OBVIOUS
<1> DEFINE R == OpToRel(<, Nat)
<1>1. IsWellFoundedOn(R, Nat)
    BY NatLessThanWellFounded
<1>2. \A m, n \in Nat : m < n => <<m, n>> \in R
    BY DEF OpToRel
<1> HIDE DEF R
<1>3. PICK m \in T : \A n \in T : ~(<<n, m>> \in R)
    BY <1>1, WFMin
<1>4. \A n \in T : n \in Nat
    OBVIOUS
<1>5. \A n \in T : m <= n
    <2> SUFFICES ASSUME NEW n \in T PROVE m <= n
        OBVIOUS
    <2>1. m \in Nat /\ n \in Nat /\ ~(n < m)
        BY <1>2, <1>3, <1>4
    <2> QED BY <2>1
<1> QED BY <1>5

LEMMA GreatestNumber ==
    ASSUME NEW T \in SUBSET Nat, T # {}, NEW b \in Nat, \A n \in T : n <= b
    PROVE  \E m \in T : \A n \in T : n <= m
<1> DEFINE U == {u \in Nat : \A n \in T : n <= u}
<1>1. b \in U
    OBVIOUS
<1>2. PICK m \in U : \A u \in U : m <= u
    BY <1>1, LeastNumber
<1>3. m \in Nat /\ \A n \in T : n <= m
    BY <1>2
<1>4. m \in T
    <2> SUFFICES ASSUME m \notin T PROVE FALSE
        OBVIOUS
    <2>1. PICK n \in T : TRUE
        OBVIOUS
    <2>2. \A o \in T : o \in Nat /\ o < m
        BY <1>3
    <2>3. m - 1 \in Nat /\ \A o \in T : o <= m - 1
        BY <1>3, <2>1, <2>2
    <2>4. m - 1 \in U
        BY <2>3
    <2> HIDE DEF U
    <2>5. m <= m - 1
        BY <1>2, <2>4
    <2> QED BY <1>3, <2>5
<1> QED BY <1>3, <1>4

(* What a request or an administrator is about to insert.                    *)
LEMMA NewSeriesTyped ==
    ASSUME NEW new \in NewRows, NEW n \in Ids
    PROVE  /\ [new EXCEPT !.series = IF @ = None THEN n ELSE @] \in Rows
           /\ [new EXCEPT !.series = IF @ = None THEN n ELSE @].version = new.version
           /\ [new EXCEPT !.series = IF @ = None THEN n ELSE @].expires = new.expires
           /\ [new EXCEPT !.series = IF @ = None THEN n ELSE @].avail = new.avail
           /\ [new EXCEPT !.series = IF @ = None THEN n ELSE @].series =
                  IF new.series = None THEN n ELSE new.series
<1> DEFINE s == IF new.series = None THEN n ELSE new.series
<1>1. s \in Ids
    BY DEF NewRows, RowsOf
<1>2. [new EXCEPT !.series = IF @ = None THEN n ELSE @] = [new EXCEPT !.series = s]
    OBVIOUS
<1> HIDE DEF s
<1>3. /\ [new EXCEPT !.series = s] \in Rows
      /\ [new EXCEPT !.series = s].version = new.version
      /\ [new EXCEPT !.series = s].expires = new.expires
      /\ [new EXCEPT !.series = s].avail = new.avail
      /\ [new EXCEPT !.series = s].series = s
    BY <1>1 DEF NewRows, Rows, RowsOf
<1> QED BY <1>2, <1>3 DEF s

(* The steps of a request.                                                   *)
LEMMA RequestTyped ==
    ASSUME IndexTypeInv, NEW r \in Requests, RequestStep(r), UNCHANGED index
    PROVE  IndexTypeInv'
<1>0. /\ UNCHANGED <<wpc, work, reindexing>>
      /\ TablesInv /\ RequestsInv /\ AdminsInv /\ WorkersInv
      /\ lastId \in Nat /\ now \in Nat
    BY RetentionAssumption DEF index, workers, IndexTypeInv, TablesInv
<1>1. ASSUME NEW b \in Batches, InsertEvent(r, b) PROVE IndexTypeInv'
    <2>1. UNCHANGED <<now, contents, rows, lastId, job, vectors, apc, adm>>
        BY <1>1 DEF InsertEvent, admin
    <2>2. /\ events' \in [Batches -> 0..(MaxTime + Retention)]
          /\ \A c \in Batches : events[c] # None => events'[c] # None
        <3>1. now + Retention \in 0..(MaxTime + Retention) /\ now + Retention # None
            BY <1>0, RetentionAssumption DEF TablesInv, None
        <3> QED BY <1>0, <1>1, <3>1 DEF InsertEvent, TablesInv
    <2>3. TablesInv'
        BY <1>0, <2>1, <2>2 DEF TablesInv, Stored
    <2>4. RequestsInv'
        <3>1. CASE UNCHANGED ingest
            BY <1>0, <2>1, <2>2, <3>1, RequestsKept DEF ingest
        <3>2. CASE /\ events' = [events EXCEPT ![b] = now + Retention]
                   /\ pc' = [pc EXCEPT ![r] = "content"]
                   /\ req' = [req EXCEPT ![r] = [batch |-> b, expires |-> now + Retention]]
            <4> DEFINE q == [batch |-> b, expires |-> now + Retention]
            <4>1. q \in [batch : Batches, expires : Nat] /\ q.batch = b
                BY <1>0, RetentionAssumption
            <4>2. events'[b] # None
                BY <1>0, <3>2, RetentionAssumption DEF TablesInv, None
            <4>3. req' = [req EXCEPT ![r] = q]
                BY <3>2
            <4> HIDE DEF q
            <4>4. events'[q.batch] # None /\ lastId' \in Nat /\ lastId <= lastId'
                BY <1>0, <2>1, <4>1, <4>2
            <4>5. pc' = [pc EXCEPT ![r] = "content"]
                BY <3>2
            <4> QED BY <1>0, <2>2, <4>1, <4>3, <4>4, <4>5, RequestMoves
        <3> QED BY <1>1, <3>1, <3>2 DEF InsertEvent
    <2>5. AdminsInv' /\ WorkersInv'
        BY <1>0, <2>1, AdminsKept, WorkersKept
    <2> QED BY <2>3, <2>4, <2>5 DEF IndexTypeInv
<1>2. ASSUME EndRequest(r), UNCHANGED <<now, tables, admin>> PROVE IndexTypeInv'
    <2>1. UNCHANGED <<now, events, contents, rows, lastId, job, vectors, apc, adm>>
        BY <1>2 DEF tables, admin
    <2>2. TablesInv'
        BY <1>0, <2>1 DEF TablesInv, Stored
    <2>3. RequestsInv'
        BY <1>0, <1>2, <2>1, RequestEnds
    <2> QED BY <1>0, <2>1, <2>2, <2>3, AdminsKept, WorkersKept DEF IndexTypeInv
<1>3. CASE ReadIntention(r)
    <2>0. /\ pc[r] = "content" /\ contents' = contents \cup {req[r].batch}
          /\ UNCHANGED <<now, events, rows, lastId, job, vectors, apc, adm>>
          /\ req[r] \in [batch : Batches, expires : Nat] /\ events[req[r].batch] # None
        BY <1>0, <1>3 DEF ReadIntention, admin, RequestsInv
    <2>1. TablesInv'
        BY <1>0, <2>0 DEF TablesInv, Stored
    <2> DEFINE b == req[r].batch
               Version(s, v, p) ==
                   [series |-> s, version |-> v, supersedes |-> p, current |-> TRUE,
                    state |-> StateOf(b), text |-> TextOf[b],
                    expires |-> req[r].expires, avail |-> "pending"]
    <2>2. \A s \in Ids \cup {None}, v \in Nat \ {0}, p \in Ids \cup {None} :
              /\ [batch |-> b, new |-> Version(s, v, p)] \in [batch : Batches, new : NewRows]
              /\ [batch |-> b, new |-> Version(s, v, p)].new.version = v
        BY <2>0 DEF NewRows, RowsOf, StateOf, States, Texts, Availabilities
    <2>3. CASE EndRequest(r)
        BY <1>0, <2>0, <2>3, RequestEnds, <2>1, AdminsKept, WorkersKept DEF IndexTypeInv
    <2>4. ASSUME NEW s \in Ids \cup {None}, NEW v \in Nat \ {0}, NEW p \in Ids \cup {None},
                 v <= lastId + 1, NEW t \in {"unset", "insert"}, pc' = [pc EXCEPT ![r] = t],
                 req' = [req EXCEPT ![r] = [batch |-> b, new |-> Version(s, v, p)]]
          PROVE  IndexTypeInv'
        <3> DEFINE q == [batch |-> b, new |-> Version(s, v, p)]
        <3>1. q \in [batch : Batches, new : NewRows] /\ q.new.version <= lastId' + 1
            BY <2>0, <2>2, <2>4
        <3>2. req' = [req EXCEPT ![r] = q]
            BY <2>4
        <3> HIDE DEF q
        <3>3. \A c \in Batches : events[c] # None => events'[c] # None
            BY <2>0
        <3>4. t # "content" /\ t # "enqueue" /\ lastId' \in Nat /\ lastId <= lastId'
            BY <1>0, <2>0
        <3>5. RequestsInv'
            BY <1>0, <2>4, <3>1, <3>2, <3>3, <3>4, RequestMoves
        <3> QED BY <1>0, <2>0, <2>1, <3>5, AdminsKept, WorkersKept DEF IndexTypeInv
    <2> HIDE DEF Version, b
    <2>5. CASE /\ pc' = [pc EXCEPT ![r] = "insert"]
               /\ req' = [req EXCEPT ![r] = [batch |-> b, new |-> Version(None, 1, None)]]
        <3>1. 1 <= lastId + 1 /\ 1 \in Nat \ {0} /\ None \in Ids \cup {None}
            BY <1>0
        <3> QED BY <2>4, <2>5, <3>1
    <2>6. ASSUME NEW i \in Newest,
                 pc' = [pc EXCEPT ![r] = "unset"],
                 req' = [req EXCEPT ![r] =
                      [batch |-> b, new |-> Version(rows[i].series, rows[i].version + 1, i)]]
          PROVE  IndexTypeInv'
        <3>1. i \in Stored /\ i \in Ids
            BY DEF Newest, Current, Stored
        <3>2. rows[i].series \in Ids /\ rows[i].version \in Nat /\ rows[i].version <= lastId
            BY <1>0, <3>1, RowOfStored, RowTypes DEF TablesInv
        <3>3. rows[i].version + 1 \in Nat \ {0} /\ rows[i].version + 1 <= lastId + 1
            BY <1>0, <3>2
        <3> QED BY <2>4, <2>6, <3>1, <3>2, <3>3
    <2> QED BY <1>3, <2>3, <2>5, <2>6 DEF ReadIntention, Version, b
<1>4. CASE UnsetCurrent(r)
    <2> DEFINE i == req[r].new.supersedes
               F == IF i \in Stored THEN [rows EXCEPT ![i].current = FALSE] ELSE rows
    <2>1. /\ UNCHANGED <<now, events, contents, lastId, job, vectors, apc, adm>>
          /\ pc[r] = "unset" /\ pc' = [pc EXCEPT ![r] = "insert"] /\ req' = req
          /\ rows' = F
        BY <1>4 DEF UnsetCurrent, admin
    <2>2. /\ F \in [Ids -> Rows \cup {NoRow}]
          /\ \A o \in Ids : F[o] # NoRow => rows[o] # NoRow /\ F[o].version = rows[o].version
        <3>1. CASE i \in Stored
            <4>1. rows[i] \in Rows /\ i \in Ids /\ rows[i] # NoRow
                BY <1>0, <3>1, RowOfStored DEF Stored
            <4>2. F = [rows EXCEPT ![i] = [rows[i] EXCEPT !.current = FALSE]]
                BY <3>1
            <4> HIDE DEF F, i
            <4> QED BY <1>0, <4>1, <4>2, RowUpdates DEF TablesInv
        <3>2. CASE i \notin Stored
            BY <1>0, <3>2 DEF TablesInv
        <3> QED BY <3>1, <3>2
    <2> HIDE DEF F
    <2>3. TablesInv'
        BY <1>0, <2>1, <2>2, RowsSetTyped DEF TablesInv
    <2>4. /\ req[r] \in [batch : Batches, new : NewRows] /\ req[r].new.version <= lastId + 1
          /\ req' = [req EXCEPT ![r] = req[r]]
        BY <1>0, <2>1 DEF RequestsInv
    <2>5. RequestsInv'
        <3>1. /\ \A b \in Batches : events[b] # None => events'[b] # None
              /\ lastId' \in Nat /\ lastId <= lastId' /\ req[r].new.version <= lastId' + 1
            BY <1>0, <2>1, <2>4
        <3> QED BY <1>0, <2>1, <2>4, <3>1, RequestMoves
    <2> QED BY <1>0, <2>1, <2>3, <2>5, AdminsKept, WorkersKept DEF IndexTypeInv
<1>5. CASE InsertIntention(r)
    <2> DEFINE new == [req[r].new EXCEPT !.series = IF @ = None THEN lastId + 1 ELSE @]
    <2>1. /\ pc[r] = "insert" /\ lastId < MaxIntentions
          /\ UNCHANGED <<now, events, contents, job, vectors, apc, adm>>
        BY <1>5 DEF InsertIntention, admin
    <2>2. /\ req[r] \in [batch : Batches, new : NewRows] /\ req[r].new.version <= lastId + 1
        BY <1>0, <2>1 DEF RequestsInv
    <2>3. lastId + 1 \in Ids
        BY <1>0, <2>1, RetentionAssumption DEF Ids
    <2>4. new \in Rows /\ new.version <= lastId + 1
        BY <2>2, <2>3, NewSeriesTyped
    <2>5. CASE /\ InsertRow(new) /\ pc' = [pc EXCEPT ![r] = "enqueue"]
               /\ req' = [req EXCEPT ![r] = [batch |-> @.batch, id |-> lastId + 1]]
        <3> DEFINE q == [batch |-> req[r].batch, id |-> lastId + 1]
        <3>1. q \in [batch : Batches, id : Ids] /\ req' = [req EXCEPT ![r] = q]
            BY <1>0, <2>2, <2>3, <2>5 DEF RequestsInv
        <3> HIDE DEF q, new
        <3>2. TablesInv' /\ lastId' \in Nat /\ lastId <= lastId'
            BY <1>0, <2>1, <2>4, <2>5, InsertRowTyped
        <3>3. \A b \in Batches : events[b] # None => events'[b] # None
            BY <2>1
        <3>4. RequestsInv'
            BY <1>0, <2>5, <3>1, <3>2, <3>3, RequestMoves
        <3> QED BY <1>0, <2>1, <3>2, <3>4, AdminsKept, WorkersKept DEF IndexTypeInv
    <2>6. CASE EndRequest(r) /\ UNCHANGED <<rows, lastId>>
        BY <1>2, <2>1, <2>6 DEF tables, admin
    <2> QED BY <1>5, <2>5, <2>6 DEF InsertIntention
<1>6. CASE EnqueueNew(r)
    <2>1. /\ EnqueueJob(req[r].id) /\ EndRequest(r) /\ pc[r] = "enqueue"
          /\ UNCHANGED <<now, events, contents, rows, lastId, vectors, apc, adm>>
        BY <1>6 DEF EnqueueNew, admin
    <2>2. req[r].id \in Ids
        BY <1>0, <2>1 DEF RequestsInv
    <2>3. TablesInv'
        BY <1>0, <2>1, <2>2, EnqueueJobTyped
    <2>4. RequestsInv'
        BY <1>0, <2>1, RequestEnds
    <2> QED BY <1>0, <2>1, <2>3, <2>4, AdminsKept, WorkersKept DEF IndexTypeInv
<1>7. CASE CrashRequest(r)
    BY <1>2, <1>7 DEF CrashRequest
<1> QED BY <1>1, <1>3, <1>4, <1>5, <1>6, <1>7 DEF RequestStep
LEMMA LatestVersion ==
    ASSUME TablesInv, NEW i \in Stored
    PROVE  LET T == Versions(rows[i].series)
               latest == CHOOSE v \in T : \A u \in T : u <= v
           IN  latest \in T /\ latest \in Nat /\ latest <= lastId /\ \A u \in T : u \in Nat /\ u <= latest
<1> DEFINE T == Versions(rows[i].series)
<1>1. \A u \in T : u \in Nat /\ u <= lastId
    <2> SUFFICES ASSUME NEW o \in Stored PROVE rows[o].version \in Nat /\ rows[o].version <= lastId
        BY DEF Versions, Series
    <2> QED BY RowOfStored, RowTypes DEF TablesInv
<1>2. rows[i].version \in T
    BY DEF Versions, Series
<1> HIDE DEF T
<1>3. lastId \in Nat /\ T \in SUBSET Nat /\ T # {}
    BY <1>1, <1>2, RetentionAssumption DEF TablesInv
<1>4. \E v \in T : \A u \in T : u <= v
    BY <1>1, <1>3, GreatestNumber
<1> DEFINE latest == CHOOSE v \in T : \A u \in T : u <= v
<1>5. latest \in T /\ \A u \in T : u <= latest
    BY <1>4
<1> QED BY <1>1, <1>5 DEF T

(* The steps of an administrator.                                            *)
LEMMA AdminEnds ==
    ASSUME AdminsInv, NEW a \in Admins, AdminDone(a), UNCHANGED lastId, lastId \in Nat
    PROVE  AdminsInv'
<1>1. lastId' \in Nat /\ lastId <= lastId'
    OBVIOUS
<1>2. apc' = [apc EXCEPT ![a] = "idle"] /\ adm' = [adm EXCEPT ![a] = NoRequest]
    BY DEF AdminDone
<1> QED BY <1>1, <1>2, AdminMoves

LEMMA WithoutTyped ==
    ASSUME TablesInv, NEW ids \in SUBSET Ids
    PROVE  /\ RowsWithout(ids) \in [Ids -> Rows \cup {NoRow}]
           /\ \A i \in Ids : RowsWithout(ids)[i] # NoRow =>
                 rows[i] # NoRow /\ RowsWithout(ids)[i] = rows[i]
           /\ JobsWithout(ids) \in [IndexKeys -> Jobs]
           /\ \A k \in IndexKeys : JobsWithout(ids)[k].state \in {"pending", "processing"} =>
                 JobsWithout(ids)[k].attempts < MaxAttempts
           /\ VectorsWithout(ids) \subseteq vectors
BY RowTypes DEF TablesInv, RowsWithout, JobsWithout, VectorsWithout

LEMMA AdminTyped ==
    ASSUME IndexTypeInv, NEW a \in Admins, AdminStep(a), UNCHANGED index
    PROVE  IndexTypeInv'
<1>0. /\ UNCHANGED <<wpc, work, reindexing>>
      /\ TablesInv /\ RequestsInv /\ AdminsInv /\ WorkersInv
      /\ lastId \in Nat /\ now \in Nat
    BY RetentionAssumption DEF index, workers, IndexTypeInv, TablesInv
<1>1. ASSUME TablesInv', AdminsInv', UNCHANGED <<events, pc, req>>, lastId' \in Nat, lastId <= lastId'
      PROVE  IndexTypeInv'
    <2>1. \A b \in Batches : events[b] # None => events'[b] # None
        BY <1>1
    <2> QED BY <1>0, <1>1, <2>1, RequestsKept, WorkersKept DEF IndexTypeInv
<1>2. ASSUME UNCHANGED <<now, tables, ingest>> PROVE TablesInv' /\ UNCHANGED <<events, pc, req, lastId>>
    BY <1>0, <1>2 DEF tables, ingest, TablesInv, Stored
<1>3. ASSUME NEW i \in Ids, ReadSeries(a, i) PROVE IndexTypeInv'
    <2> DEFINE o == rows[i]
               T == Versions(o.series)
               latest == CHOOSE v \in T : \A u \in T : u <= v
               current == Series(o.series) \cap Current
               before == IF current = {} THEN i ELSE CHOOSE c \in current : TRUE
               q == [new |-> [series |-> o.series, version |-> latest + 1,
                              supersedes |-> before, current |-> TRUE,
                              state |-> "corrected", text |-> CorrectedText,
                              expires |-> o.expires, avail |-> "pending"]]
    <2>1. /\ i \in Stored /\ apc' = [apc EXCEPT ![a] = "clear"] /\ adm' = [adm EXCEPT ![a] = q]
          /\ UNCHANGED <<now, tables, ingest>>
        BY <1>3 DEF ReadSeries
    <2>2. latest \in Nat /\ latest <= lastId
        BY <1>0, <2>1, LatestVersion
    <2>3. before \in Ids
        BY DEF Series, Stored
    <2>4. o.series \in Ids /\ o.expires \in Nat
        BY <1>0, <2>1, RowOfStored, RowTypes
    <2> HIDE DEF latest, before, o
    <2>5. q \in [new : Rows] /\ q.new.version = latest + 1
        BY <2>2, <2>3, <2>4 DEF Rows, RowsOf, States, Texts, Availabilities
    <2> HIDE DEF q
    <2>6. lastId' \in Nat /\ lastId <= lastId' /\ q.new.version <= lastId' + 1
        BY <1>0, <1>2, <2>1, <2>2, <2>5
    <2>7. AdminsInv'
        BY <1>0, <2>1, <2>5, <2>6, AdminMoves
    <2> QED BY <1>1, <1>2, <2>1, <2>6, <2>7
<1>4. CASE ClearSeries(a)
    <2> DEFINE S == Series(adm[a].new.series)
               F == [i \in Ids |-> IF i \in S THEN [rows[i] EXCEPT !.current = FALSE] ELSE rows[i]]
    <2>1. /\ apc[a] = "clear" /\ apc' = [apc EXCEPT ![a] = "insert"] /\ adm' = adm
          /\ rows' = F
          /\ UNCHANGED <<now, events, contents, lastId, job, vectors, pc, req>>
        BY <1>4 DEF ClearSeries, ingest
    <2>2. /\ F \in [Ids -> Rows \cup {NoRow}]
          /\ \A i \in Ids : F[i] # NoRow => rows[i] # NoRow /\ F[i].version = rows[i].version
        <3>1. \A i \in S : i \in Stored /\ rows[i] \in Rows /\ rows[i] # NoRow
            BY <1>0, RowOfStored DEF Series, Stored
        <3>2. \A i \in Ids : rows[i] \in Rows \cup {NoRow}
            BY <1>0 DEF TablesInv
        <3> HIDE DEF S
        <3> QED BY <3>1, <3>2, RowUpdates
    <2> HIDE DEF F
    <2>3. TablesInv'
        BY <1>0, <2>1, <2>2, RowsSetTyped DEF TablesInv
    <2>4. /\ adm[a] \in [new : Rows] /\ adm[a].new.version <= lastId' + 1
          /\ adm' = [adm EXCEPT ![a] = adm[a]] /\ lastId' \in Nat /\ lastId <= lastId'
        BY <1>0, <2>1 DEF AdminsInv
    <2>5. AdminsInv'
        BY <1>0, <2>1, <2>4, AdminMoves
    <2> QED BY <1>1, <2>1, <2>3, <2>4, <2>5
<1>5. CASE InsertCorrection(a)
    <2>1. /\ apc[a] = "insert" /\ lastId < MaxIntentions
          /\ UNCHANGED <<now, events, contents, job, vectors, pc, req>>
        BY <1>5 DEF InsertCorrection, ingest
    <2>2. adm[a].new \in Rows /\ adm[a].new.version <= lastId + 1
        BY <1>0, <2>1 DEF AdminsInv
    <2>3. CASE /\ InsertRow(adm[a].new) /\ apc' = [apc EXCEPT ![a] = "enqueue"]
               /\ adm' = [adm EXCEPT ![a] = [id |-> lastId + 1]]
        <3> DEFINE q == [id |-> lastId + 1]
        <3>1. TablesInv' /\ lastId + 1 \in Ids /\ lastId' \in Nat /\ lastId <= lastId'
            BY <1>0, <2>1, <2>2, <2>3, InsertRowTyped
        <3>2. q \in [id : Ids] /\ adm' = [adm EXCEPT ![a] = q] /\ apc' = [apc EXCEPT ![a] = "enqueue"]
            BY <2>3, <3>1
        <3> HIDE DEF q
        <3>3. AdminsInv'
            BY <1>0, <3>1, <3>2, AdminMoves
        <3> QED BY <1>1, <2>1, <3>1, <3>3
    <2>4. CASE AdminDone(a) /\ UNCHANGED <<rows, lastId>>
        BY <1>0, <1>1, <1>2, <2>1, <2>4, AdminEnds DEF tables, ingest
    <2> QED BY <1>5, <2>3, <2>4 DEF InsertCorrection
<1>6. CASE EnqueueCorrection(a)
    <2>1. /\ EnqueueJob(adm[a].id) /\ AdminDone(a) /\ apc[a] = "enqueue"
          /\ UNCHANGED <<now, events, contents, rows, lastId, vectors, pc, req>>
        BY <1>6 DEF EnqueueCorrection, ingest
    <2>2. adm[a].id \in Ids
        BY <1>0, <2>1 DEF AdminsInv
    <2>3. TablesInv'
        BY <1>0, <2>1, <2>2, EnqueueJobTyped
    <2> QED BY <1>0, <1>1, <2>1, <2>3, AdminEnds
<1>7. CASE PurgeContents(a)
    <2> DEFINE q == [ids |-> {i \in Stored : Expired(i)}]
    <2>1. /\ apc' = [apc EXCEPT ![a] = "vectors"] /\ adm' = [adm EXCEPT ![a] = q]
          /\ contents' \subseteq contents
          /\ UNCHANGED <<now, events, rows, lastId, job, vectors, pc, req>>
        BY <1>7 DEF PurgeContents, ingest
    <2>2. TablesInv'
        BY <1>0, <2>1 DEF TablesInv, Stored
    <2>3. q \in [ids : SUBSET (1..lastId')] /\ lastId' \in Nat /\ lastId <= lastId'
        <3>1. {i \in Stored : Expired(i)} \in SUBSET (1..lastId)
            BY <1>0 DEF TablesInv
        <3>2. lastId' = lastId
            BY <2>1
        <3> QED BY <1>0, <3>1, <3>2
    <2> HIDE DEF q
    <2>4. AdminsInv'
        BY <1>0, <2>1, <2>3, AdminMoves
    <2> QED BY <1>1, <2>1, <2>2, <2>3, <2>4
<1>8. ASSUME apc[a] \in {"vectors", "jobs", "rows"}
      PROVE  adm[a] \in [ids : SUBSET (1..lastId)] /\ adm[a].ids \in SUBSET Ids
    BY <1>0, <1>8, RetentionAssumption DEF AdminsInv, TablesInv, Ids
<1>9. ASSUME NEW s \in {"jobs", "rows"}, apc[a] \in {"vectors", "jobs"},
             apc' = [apc EXCEPT ![a] = s], adm' = adm, lastId' = lastId
      PROVE  AdminsInv' /\ lastId' \in Nat /\ lastId <= lastId'
    <2>1. /\ adm[a] \in [ids : SUBSET (1..lastId')] /\ adm' = [adm EXCEPT ![a] = adm[a]]
          /\ lastId' \in Nat /\ lastId <= lastId' /\ s \notin {"clear", "insert", "enqueue"}
        BY <1>0, <1>8, <1>9 DEF AdminsInv
    <2> QED BY <1>0, <1>9, <2>1, AdminMoves
<1>10. CASE PurgeVectors(a)
    <2>1. /\ apc[a] = "vectors" /\ apc' = [apc EXCEPT ![a] = "jobs"] /\ adm' = adm
          /\ vectors' \subseteq vectors
          /\ UNCHANGED <<now, events, contents, rows, lastId, job, pc, req>>
        BY <1>10 DEF PurgeVectors, VectorsWithout, ingest
    <2>2. TablesInv'
        BY <1>0, <2>1 DEF TablesInv, Stored
    <2> QED BY <1>1, <1>9, <2>1, <2>2
<1>11. CASE PurgeJobs(a)
    <2>1. /\ apc[a] = "jobs" /\ apc' = [apc EXCEPT ![a] = "rows"] /\ adm' = adm
          /\ job' = JobsWithout(adm[a].ids)
          /\ UNCHANGED <<now, events, contents, rows, lastId, vectors, pc, req>>
        BY <1>11 DEF PurgeJobs, ingest
    <2>2. TablesInv'
        BY <1>0, <1>8, <2>1, WithoutTyped DEF TablesInv, Stored
    <2> QED BY <1>1, <1>9, <2>1, <2>2
<1>12. CASE PurgeRows(a)
    <2> DEFINE F == RowsWithout(adm[a].ids)
    <2>1. /\ apc[a] = "rows" /\ AdminDone(a)
          /\ rows' = F /\ job' = JobsWithout(adm[a].ids) /\ vectors' \subseteq vectors
          /\ UNCHANGED <<now, events, contents, lastId, pc, req>>
        BY <1>12 DEF PurgeRows, VectorsWithout, ingest
    <2>2. /\ F \in [Ids -> Rows \cup {NoRow}]
          /\ \A i \in Ids : F[i] # NoRow => rows[i] # NoRow /\ F[i] = rows[i]
        BY <1>0, <1>8, <2>1, WithoutTyped
    <2> HIDE DEF F
    <2>3. Stored' \subseteq Stored /\ \A i \in Stored' : rows'[i].version = rows[i].version
        BY <2>1, <2>2 DEF Stored
    <2>4. TablesInv'
        BY <1>0, <1>8, <2>1, <2>2, <2>3, WithoutTyped DEF TablesInv
    <2> QED BY <1>0, <1>1, <2>1, <2>4, AdminEnds
<1>13. CASE PurgeRefused(a) \/ CrashAdmin(a)
    <2>1. AdminDone(a) /\ UNCHANGED <<now, tables, ingest>>
        BY <1>13 DEF PurgeRefused, CrashAdmin
    <2> QED BY <1>0, <1>1, <1>2, <2>1, AdminEnds
<1> QED BY <1>3, <1>4, <1>5, <1>6, <1>7, <1>10, <1>11, <1>12, <1>13 DEF AdminStep

(* The steps of a worker, of a lock and of the reindex.                      *)
LEMMA WorkerTyped ==
    ASSUME IndexTypeInv, NEW w \in Workers, WorkerStep(w) \/ CrashWorker(w)
    PROVE  IndexTypeInv'
<1>0. TablesInv /\ RequestsInv /\ AdminsInv /\ WorkersInv /\ lastId \in Nat
    BY RetentionAssumption DEF IndexTypeInv, TablesInv
<1>1. ASSUME TablesInv', WorkersInv', UNCHANGED <<events, lastId, pc, req, apc, adm>>
      PROVE  IndexTypeInv'
    <2>1. /\ \A b \in Batches : events[b] # None => events'[b] # None
          /\ lastId' \in Nat /\ lastId <= lastId'
        BY <1>0, <1>1
    <2> QED BY <1>0, <1>1, <2>1, RequestsKept, AdminsKept DEF IndexTypeInv
<1>2. wpc[w] # "idle" => /\ work[w] \in Claims /\ work[w].job \in IndexKeys
                         /\ work[w].job.id \in Ids /\ work[w].job.id <= lastId
                         /\ work[w].attempts \in Nat /\ work[w].attempts < MaxAttempts
                         /\ work[w].attempts + 1 \in 0..MaxAttempts
    BY <1>0, AttemptsAssumption DEF WorkersInv, Claims, IndexKeys
<1>3. ASSUME WorkerDone(w), UNCHANGED <<lastId, reindexing>> PROVE WorkersInv'
    BY <1>0, <1>3, WorkerMoves DEF WorkerDone
<1>4. ASSUME NEW s, wpc[w] # "idle", wpc' = [wpc EXCEPT ![w] = s], UNCHANGED <<work, lastId, reindexing>>
      PROVE  WorkersInv'
    <2>1. work' = [work EXCEPT ![w] = work[w]] /\ work[w] \in Claims /\ work[w].job.id <= lastId
        BY <1>0, <1>2, <1>4 DEF WorkersInv
    <2> QED BY <1>0, <1>4, <2>1, WorkerMoves
<1>5. ASSUME NEW k \in IndexKeys, Claim(w, k) PROVE IndexTypeInv'
    <2> DEFINE f == [job[k] EXCEPT !.state = "processing", !.stale = FALSE]
               q == [job |-> k, at |-> now, attempts |-> job[k].attempts]
    <2>1. /\ k.id \in Stored /\ job[k].state \in {"pending", "processing"}
          /\ job' = [job EXCEPT ![k] = f]
          /\ wpc' = [wpc EXCEPT ![w] = "read"] /\ work' = [work EXCEPT ![w] = q]
          /\ UNCHANGED <<now, events, contents, rows, lastId, vectors, pc, req, apc, adm, reindexing>>
        BY <1>5 DEF Claim, Claimable, Live, ingest, admin
    <2>2. job[k] \in Jobs /\ job[k].attempts < MaxAttempts
        BY <1>0, <2>1 DEF TablesInv
    <2>3. f \in Jobs /\ f.attempts < MaxAttempts
        BY <2>2, JobUpdates
    <2>4. q \in Claims /\ q.job.id <= lastId
        BY <1>0, <2>1, <2>2, AttemptsAssumption DEF Claims, TablesInv, Jobs
    <2> HIDE DEF f, q
    <2>5. WorkersInv'
        BY <1>0, <2>1, <2>4, WorkerMoves
    <2>6. TablesInv'
        BY <1>0, <2>1, <2>3 DEF TablesInv, Stored
    <2> QED BY <1>1, <2>1, <2>5, <2>6
<1>6. CASE ReadJob(w)
    <2>1. /\ wpc[w] # "idle" /\ wpc' = [wpc EXCEPT ![w] = IF Obsolete(w) THEN "skip" ELSE "embed"]
          /\ UNCHANGED <<now, events, contents, rows, lastId, job, vectors, pc, req, apc, adm,
                         work, reindexing>>
        BY <1>6 DEF ReadJob, evidenceVars, tables, ingest, admin
    <2>2. TablesInv'
        BY <1>0, <2>1 DEF TablesInv, Stored
    <2> QED BY <1>1, <1>4, <2>1, <2>2
<1>7. ASSUME NEW s \in Settled, wpc[w] # "idle",
             SetJob(work[w].job, [job[work[w].job] EXCEPT !.state = s, !.stale = FALSE]), WorkerDone(w),
             UNCHANGED <<now, events, contents, rows, lastId, vectors, pc, req, apc, adm, reindexing>>
      PROVE  IndexTypeInv'
    <2> DEFINE f == [job[work[w].job] EXCEPT !.state = s, !.stale = FALSE]
    <2>1. f \in Jobs /\ f.state = s
        <3>1. job[work[w].job] \in Jobs
            BY <1>0, <1>2, <1>7 DEF TablesInv
        <3> QED BY <3>1, JobUpdates
    <2>2. SetJob(work[w].job, f)
        BY <1>7
    <2> HIDE DEF f
    <2>3. TablesInv'
        BY <1>0, <1>2, <1>7, <2>1, <2>2, SetJobTyped DEF SetJob, Settled
    <2> QED BY <1>1, <1>3, <1>7, <2>3
<1>8. CASE Skip(w) \/ Complete(w)
    BY <1>7, <1>8 DEF Skip, Complete, Settled, ingest, admin
<1>9. CASE WriteVector(w)
    <2>1. /\ wpc[w] # "idle" /\ wpc' = [wpc EXCEPT ![w] = "available"]
          /\ vectors' = vectors \cup {[id |-> work[w].job.id, revision |-> EngineOf[w]]}
          /\ UNCHANGED <<now, events, contents, rows, lastId, job, pc, req, apc, adm, work, reindexing>>
        BY <1>9 DEF WriteVector, ingest, admin
    <2>2. [id |-> work[w].job.id, revision |-> EngineOf[w]] \in IndexKeys
        BY <1>2, <2>1, EnginesAssumption DEF IndexKeys
    <2>3. TablesInv'
        BY <1>0, <2>1, <2>2 DEF TablesInv, Stored
    <2> QED BY <1>1, <1>4, <2>1, <2>3
<1>10. CASE MarkAvailable(w)
    <2>1. /\ wpc[w] # "idle" /\ wpc' = [wpc EXCEPT ![w] = "complete"]
          /\ SetAvailability(work[w].job.id, "available")
          /\ UNCHANGED <<now, events, contents, lastId, job, vectors, pc, req, apc, adm, work, reindexing>>
        BY <1>10 DEF MarkAvailable, ingest, admin
    <2>2. TablesInv'
        BY <1>0, <1>2, <2>1, SetAvailabilityTyped DEF Availabilities
    <2> QED BY <1>1, <1>4, <2>1, <2>2
<1>11. CASE Fail(w)
    <2> DEFINE f == [state |-> IF Terminal(w) THEN "failed" ELSE "pending",
                     attempts |-> work[w].attempts + 1, stale |-> FALSE]
    <2>1. /\ wpc[w] # "idle" /\ SetJob(work[w].job, f)
          /\ UNCHANGED <<now, events, contents, rows, lastId, vectors, pc, req, apc, adm, reindexing>>
        BY <1>11 DEF Fail, ingest, admin
    <2>2. f \in Jobs /\ (f.state \in {"pending", "processing"} => f.attempts < MaxAttempts)
        BY <1>2, <2>1, AttemptsAssumption DEF Jobs, Settled, Terminal
    <2> HIDE DEF f
    <2>3. TablesInv'
        BY <1>0, <1>2, <2>1, <2>2, SetJobTyped DEF SetJob
    <2>4. CASE wpc' = [wpc EXCEPT ![w] = "unavailable"] /\ work' = work
        BY <1>1, <1>4, <2>1, <2>3, <2>4
    <2>5. CASE WorkerDone(w)
        BY <1>1, <1>3, <2>1, <2>3, <2>5
    <2> QED BY <1>11, <2>4, <2>5 DEF Fail
<1>12. CASE MarkUnavailable(w)
    <2>1. /\ wpc[w] # "idle" /\ WorkerDone(w)
          /\ SetAvailability(work[w].job.id, "unavailable")
          /\ UNCHANGED <<now, events, contents, lastId, job, vectors, pc, req, apc, adm, reindexing>>
        BY <1>12 DEF MarkUnavailable, ingest, admin
    <2>2. TablesInv'
        BY <1>0, <1>2, <2>1, SetAvailabilityTyped DEF Availabilities
    <2> QED BY <1>1, <1>3, <2>1, <2>2
<1>13. CASE CrashWorker(w)
    <2> DEFINE k == work[w].job
               f == [job[k] EXCEPT !.stale = job[k].state = "processing"]
    <2>1. /\ wpc[w] # "idle" /\ WorkerDone(w)
          /\ UNCHANGED <<now, events, contents, rows, lastId, vectors, pc, req, apc, adm, reindexing>>
          /\ job' = [job EXCEPT ![k] = f]
        BY <1>13 DEF CrashWorker, ingest, admin
    <2>2. k \in IndexKeys /\ job[k] \in Jobs
        BY <1>0, <1>2, <2>1 DEF TablesInv
    <2>3. f \in Jobs /\ f.state = job[k].state /\ f.attempts = job[k].attempts
        BY <2>2 DEF Jobs
    <2> HIDE DEF f, k
    <2>4. TablesInv'
        BY <1>0, <2>1, <2>2, <2>3 DEF TablesInv, Stored
    <2> QED BY <1>1, <1>3, <2>1, <2>4
<1> QED BY <1>5, <1>6, <1>8, <1>9, <1>10, <1>11, <1>12, <1>13 DEF WorkerStep

LEMMA ReindexTyped ==
    ASSUME IndexTypeInv, ReindexStep \/ \E k \in IndexKeys : LockExpires(k)
    PROVE  IndexTypeInv'
<1>0. TablesInv /\ RequestsInv /\ AdminsInv /\ WorkersInv /\ lastId \in Nat
    BY RetentionAssumption DEF IndexTypeInv, TablesInv
<1>1. ASSUME TablesInv', reindexing' \in Visits,
             UNCHANGED <<events, lastId, pc, req, apc, adm, wpc, work>>
      PROVE  IndexTypeInv'
    <2>1. /\ \A b \in Batches : events[b] # None => events'[b] # None
          /\ lastId' \in Nat /\ lastId <= lastId'
        BY <1>0, <1>1
    <2>2. WorkersInv'
        BY <1>0, <1>1 DEF WorkersInv
    <2> QED BY <1>0, <1>1, <2>1, <2>2, RequestsKept, AdminsKept DEF IndexTypeInv
<1>2. reindexing \in Visits
    BY <1>0 DEF WorkersInv
<1> HIDE DEF Visits
<1>7. \A ids \in SUBSET reindexing.ids :
          Visiting(ids, reindexing.revision) \in Visits
    BY <1>2 DEF Visits, Visiting, NotReindexing
<1>3. ASSUME NEW k \in IndexKeys, LockExpires(k) PROVE IndexTypeInv'
    <2> DEFINE f == [job[k] EXCEPT !.stale = TRUE]
    <2>1. /\ UNCHANGED <<now, events, contents, rows, lastId, vectors, pc, req, apc, adm, wpc, work, reindexing>>
          /\ job' = [job EXCEPT ![k] = f]
        BY <1>3 DEF LockExpires, ingest, admin, workers
    <2>2. f \in Jobs /\ f.state = job[k].state /\ f.attempts = job[k].attempts
        BY <1>0 DEF TablesInv, Jobs
    <2> HIDE DEF f
    <2>3. TablesInv'
        BY <1>0, <2>1, <2>2 DEF TablesInv, Stored
    <2> QED BY <1>1, <1>2, <2>1, <2>3
<1>4. CASE BeginReindex
    <2>1. /\ \E m \in Revisions : reindexing' = Visiting({i \in Current : ~Expired(i)}, m)
          /\ UNCHANGED <<now, events, contents, rows, lastId, job, vectors, pc, req, apc, adm, wpc, work>>
        BY <1>4 DEF BeginReindex, tables, ingest, admin, workers
    <2>2. TablesInv'
        BY <1>0, <2>1 DEF TablesInv, Stored
    <2>3. {i \in Current : ~Expired(i)} \in SUBSET Ids
        BY DEF Current, Stored
    <2>4. reindexing' \in Visits
        BY <2>1, <2>3 DEF Visits, Visiting, NotReindexing
    <2> QED BY <1>1, <2>1, <2>2, <2>4
<1>5. ASSUME NEW i \in Ids, ReindexJob(i) PROVE IndexTypeInv'
    <2> DEFINE k == [id |-> i, revision |-> reindexing.revision]
    <2>1. /\ i \in reindexing.ids
          /\ UNCHANGED <<now, events, contents, rows, lastId, vectors, pc, req, apc, adm, wpc, work>>
        BY <1>5 DEF ReindexJob, ingest, admin, workers
    <2>2. k \in IndexKeys
        BY <1>2, <2>1 DEF Visits, IndexKeys
    <2>3. reindexing' \in Visits
        <3>1. CASE reindexing' = [reindexing EXCEPT !.marking = i]
            BY <1>2, <3>1 DEF Visits
        <3>2. CASE reindexing' = Visiting(reindexing.ids \ {i}, reindexing.revision)
            BY <1>7, <3>2
        <3>3. CASE reindexing' = NotReindexing
            BY <3>3 DEF Visits, NotReindexing
        <3> QED BY <1>5, <3>1, <3>2, <3>3 DEF ReindexJob
    <2>4. job' = job \/ job' = [job EXCEPT ![k] = PendingJob]
        BY <1>5 DEF ReindexJob
    <2> HIDE DEF k
    <2>5. TablesInv'
        BY <1>0, <2>1, <2>2, <2>4, RowTypes, AttemptsAssumption DEF TablesInv, Stored
    <2> QED BY <1>1, <2>1, <2>3, <2>5
<1>6. ASSUME NEW i \in Ids, ReindexPending(i) PROVE IndexTypeInv'
    <2>1. UNCHANGED <<now, events, contents, lastId, job, vectors, pc, req, apc, adm, wpc, work>>
        BY <1>6 DEF ReindexPending, ingest, admin, workers
    <2>2. reindexing' \in Visits
        BY <1>6, <1>7 DEF ReindexPending
    <2>3. TablesInv'
        BY <1>0, <1>6, <2>1, SetAvailabilityTyped DEF ReindexPending, Availabilities
    <2> QED BY <1>1, <2>1, <2>2, <2>3
<1> QED BY <1>3, <1>4, <1>5, <1>6 DEF ReindexStep

LEMMA IndexTypeStep ==
    ASSUME IndexTypeInv, [Next]_vars
    PROVE  IndexTypeInv'
<1>0. TablesInv /\ RequestsInv /\ AdminsInv /\ WorkersInv /\ lastId \in Nat
    BY RetentionAssumption DEF IndexTypeInv, TablesInv
<1>1. ASSUME UNCHANGED <<tables, ingest, admin, index>>, now' \in 0..MaxTime PROVE IndexTypeInv'
    <2>1. UNCHANGED <<events, contents, rows, lastId, job, vectors, pc, req, apc, adm, wpc, work, reindexing>>
        BY <1>1 DEF tables, ingest, admin, index, workers
    <2>2. TablesInv'
        BY <1>0, <1>1, <2>1 DEF TablesInv, Stored
    <2>3. RequestsInv' /\ AdminsInv' /\ WorkersInv'
        BY <1>0, <2>1 DEF RequestsInv, AdminsInv, WorkersInv
    <2> QED BY <2>2, <2>3 DEF IndexTypeInv
<1>2. CASE Tick /\ UNCHANGED index
    <2>1. now' \in 0..MaxTime
        BY <1>0, <1>2, RetentionAssumption DEF Tick, TablesInv
    <2> QED BY <1>1, <1>2, <2>1 DEF Tick
<1>3. CASE UNCHANGED vars
    <2>1. now' \in 0..MaxTime /\ UNCHANGED <<tables, ingest, admin, index>>
        BY <1>0, <1>3 DEF vars, evidenceVars, TablesInv
    <2> QED BY <1>1, <2>1
<1>4. CASE EvidenceNext /\ UNCHANGED index
    BY <1>2, <1>4, RequestTyped, AdminTyped DEF EvidenceNext
<1>5. CASE \E w \in Workers : WorkerStep(w) \/ CrashWorker(w)
    BY <1>5, WorkerTyped
<1>6. CASE (\E k \in IndexKeys : LockExpires(k)) \/ ReindexStep
    BY <1>6, ReindexTyped
<1> QED BY <1>3, <1>4, <1>5, <1>6 DEF Next

(* What the tables hold is what their columns allow, and a version is never   *)
(* higher than the number of versions ever inserted (TypeOK).                 *)
THEOREM IndexTypes == Spec => []TypeOK
<1>1. IndexTypeInv => TypeOK
    <2> SUFFICES ASSUME IndexTypeInv PROVE TypeOK
        OBVIOUS
    <2>1. \A i \in Stored : /\ rows[i].state \in States /\ rows[i].avail \in Availabilities
                            /\ rows[i].version \in Nat \ {0}
        BY RowOfStored DEF IndexTypeInv, Rows, RowsOf
    <2>2. \A w \in Workers : wpc[w] # "idle" => work[w].job \in IndexKeys
        BY DEF IndexTypeInv, WorkersInv, Claims
    <2> QED BY <2>1, <2>2 DEF IndexTypeInv, TablesInv, TypeOK, States, Availabilities, Jobs
<1> QED BY <1>1, IndexTypeInit, IndexTypeStep, PTL DEF Spec

(***************************************************************************)
(* What the services are about to insert, and to delete.                    *)
(***************************************************************************)
Pending ==
    {req[r].new : r \in {t \in Requests : pc[t] \in {"unset", "insert"}}}
        \cup {adm[a].new : a \in {t \in Admins : apc[t] \in {"clear", "insert"}}}
Doomed == UNION {adm[a].ids : a \in {t \in Admins : apc[t] \in {"vectors", "jobs", "rows"}}}

PendingInv ==
    \A p \in Pending : p.avail = "pending" /\ (p.series = None => p.version = 1)

DoomedInv == \A i \in Doomed : ~Live(i)

VectorsInv ==
    /\ AvailableHasVector
    /\ \A w \in Workers : wpc[w] = "available" /\ Live(work[w].job.id) => Vectors(work[w].job.id) # {}

SkipsInv ==
    /\ \A w \in Workers : wpc[w] # "idle" => work[w].at <= now
    /\ \A w \in Workers : wpc[w] = "skip" =>
          \/ ~Live(work[w].job.id) \/ ~rows[work[w].job.id].current
          \/ EngineOf[w] # work[w].job.revision

IndexInv ==
    IndexTypeInv /\ PendingInv /\ DoomedInv /\ NothingDerivedRemains /\ VectorsInv /\ SkipsInv

(***************************************************************************)
(* The versions of a series.  Nothing is deleted while 1..lastId are stored: *)
(* then the versions below any version are there, of those about to be      *)
(* inserted too, so that a version that is new is the highest.               *)
(***************************************************************************)
NoTwins ==
    \A i \in Stored : \A o \in Series(rows[i].series) \ {i} :
        rows[o].version # rows[i].version /\ ~(rows[i].current /\ rows[o].current)

Below(series, version) ==
    \A v \in 1..(version - 1) : \E o \in Series(series) : rows[o].version = v

HistoryInv ==
    1..lastId \subseteq Stored =>
        /\ \A i \in Stored : Below(rows[i].series, rows[i].version)
        /\ \A p \in Pending : Below(p.series, p.version)
        /\ \A i \in Current : \A o \in Series(rows[i].series) \ {i} : rows[o].version < rows[i].version

VersionsInv == PendingInv /\ NoTwins /\ HistoryInv

(***************************************************************************)
(* What any step does to the rows, the jobs, the vectors and to what the    *)
(* services hold.                                                           *)
(***************************************************************************)
RowsStep ==
    /\ now <= now' /\ lastId <= lastId'
    /\ \A i \in Stored : i \in Stored' =>
          /\ rows'[i].series = rows[i].series /\ rows'[i].version = rows[i].version
          /\ rows'[i].expires = rows[i].expires
          /\ rows'[i].current => rows[i].current
          /\ rows'[i].avail = "available" =>
                \/ rows[i].avail = "available"
                \/ \E w \in Workers : wpc[w] = "available" /\ work[w].job.id = i
    /\ \A i \in Stored : i \notin Stored' =>
          \A k \in IndexKeys : k.id = i => job'[k] = NoJob /\ k \notin vectors'
    /\ \A i \in Stored' : i \notin Stored =>
          /\ i = lastId + 1
          /\ Accepts(rows'[i])
          /\ \E p \in Pending : /\ rows'[i].version = p.version /\ rows'[i].avail = p.avail
                                /\ p.series # None => rows'[i].series = p.series

Fresh(p) ==
    /\ p.avail = "pending"
    /\ \/ p.series = None /\ p.version = 1
       \/ \E i \in Stored : p.series = rows[i].series /\ p.version = rows[i].version + 1
    /\ UNCHANGED <<rows, lastId>>

PendingStep == \A p \in Pending' : p \in Pending \/ Fresh(p)

DoomedStep ==
    \A i \in Doomed' : i \in Doomed \/ (i \in Stored /\ Expired(i) /\ UNCHANGED <<now, rows>>)

JobStep ==
    \A k \in IndexKeys :
        /\ job'[k] # NoJob => job[k] # NoJob \/ k.id \in Stored
        /\ job'[k].state = "skipped" =>
              \/ job[k].state = "skipped"
              \/ \E w \in Workers : wpc[w] = "skip" /\ wpc'[w] = "idle" /\ work[w].job = k

VectorStep ==
    /\ \A k \in vectors' : k \in vectors \/ k.id \in Stored
    /\ \A k \in vectors : k \in vectors' \/ k.id \in Doomed

WorkStep ==
    \A w \in Workers :
        /\ wpc'[w] # "idle" => work'[w].at = now \/ (wpc[w] # "idle" /\ work'[w].at = work[w].at)
        /\ wpc'[w] = "available" =>
              (wpc[w] = "available" /\ work'[w] = work[w]) \/ \E k \in vectors' : k.id = work'[w].job.id
        /\ wpc'[w] = "skip" =>
              /\ work'[w] = work[w]
              /\ wpc[w] = "skip" \/ (wpc[w] # "idle" /\ Obsolete(w) /\ UNCHANGED <<rows, now>>)

LEMMA RowsSame ==
    ASSUME UNCHANGED <<rows, lastId>>, now <= now', lastId \in Nat PROVE RowsStep
<1>1. Stored' = Stored
    BY DEF Stored
<1> QED BY <1>1 DEF RowsStep

LEMMA RowsInserted ==
    ASSUME TablesInv, NEW row \in Rows, InsertRow(row), lastId < MaxIntentions, UNCHANGED now,
           NEW p \in Pending, row.version = p.version, row.avail = p.avail,
           p.series # None => row.series = p.series
    PROVE  RowsStep
<1>1. lastId + 1 \in Ids /\ lastId \in Nat /\ now \in Nat
    BY RetentionAssumption DEF TablesInv, Ids
<1>2. rows' = [rows EXCEPT ![lastId + 1] = row] /\ lastId' = lastId + 1 /\ Accepts(row)
    BY DEF InsertRow
<1>3. \A i \in Stored : i # lastId + 1
    BY <1>1 DEF TablesInv
<1>4. \A i \in Stored : i \in Stored' /\ rows'[i] = rows[i]
    BY <1>1, <1>2, <1>3 DEF TablesInv, Stored
<1>5. \A i \in Stored' : i \notin Stored => i = lastId + 1
    BY <1>1, <1>2 DEF TablesInv, Stored
<1>6. rows'[lastId + 1] = row
    BY <1>1, <1>2 DEF TablesInv
<1>7. now <= now' /\ lastId <= lastId'
    BY <1>1, <1>2
<1> QED BY <1>2, <1>4, <1>5, <1>6, <1>7 DEF RowsStep

LEMMA RowsSet ==
    ASSUME UNCHANGED <<now, lastId>>, now \in Nat, lastId \in Nat, Stored' = Stored,
           \A i \in Stored :
               /\ rows'[i].series = rows[i].series /\ rows'[i].version = rows[i].version
               /\ rows'[i].expires = rows[i].expires
               /\ rows'[i].current => rows[i].current
               /\ rows'[i].avail = "available" =>
                     \/ rows[i].avail = "available"
                     \/ \E w \in Workers : wpc[w] = "available" /\ work[w].job.id = i
    PROVE  RowsStep
BY DEF RowsStep

LEMMA AvailabilitySet ==
    ASSUME TablesInv, NEW i \in Ids, NEW v \in Availabilities, SetAvailability(i, v),
           UNCHANGED <<now, lastId>>,
           v = "available" => \E w \in Workers : wpc[w] = "available" /\ work[w].job.id = i
    PROVE  RowsStep
<1>0. now \in Nat /\ lastId \in Nat
    BY DEF TablesInv
<1>1. CASE i \in Stored
    <2>1. rows[i] \in Rows /\ rows[i] # NoRow /\ [rows[i] EXCEPT !.avail = v] \in Rows
        BY <1>1, RowOfStored, RowUpdates, RowTypes
    <2>2. rows' = [rows EXCEPT ![i] = [rows[i] EXCEPT !.avail = v]]
        BY <1>1 DEF SetAvailability
    <2>3. rows'[i] = [rows[i] EXCEPT !.avail = v] /\ \A o \in Ids \ {i} : rows'[o] = rows[o]
        BY <2>2 DEF TablesInv
    <2>4. Stored' = Stored
        BY <1>1, <2>1, <2>3, RowTypes DEF Stored
    <2>5. ASSUME NEW o \in Stored
          PROVE /\ rows'[o].series = rows[o].series /\ rows'[o].version = rows[o].version
                /\ rows'[o].expires = rows[o].expires
                /\ rows'[o].current => rows[o].current
                /\ rows'[o].avail = "available" =>
                      \/ rows[o].avail = "available"
                      \/ \E w \in Workers : wpc[w] = "available" /\ work[w].job.id = o
        <3>1. CASE o = i
            <4> DEFINE n == [rows[i] EXCEPT !.avail = v]
            <4>1. /\ n.series = rows[i].series /\ n.version = rows[i].version
                  /\ n.expires = rows[i].expires /\ n.current = rows[i].current /\ n.avail = v
                BY <2>1, RowUpdates
            <4>2. rows'[i] = n
                BY <2>3
            <4> HIDE DEF n
            <4> QED BY <3>1, <4>1, <4>2
        <3>2. CASE o # i
            BY <2>3, <3>2 DEF Stored
        <3> QED BY <3>1, <3>2
    <2> QED BY <1>0, <2>4, <2>5, RowsSet
<1>2. CASE i \notin Stored
    BY <1>0, <1>2, RowsSame DEF SetAvailability
<1> QED BY <1>1, <1>2

LEMMA RowsSteps ==
    ASSUME IndexTypeInv, [Next]_vars PROVE RowsStep
<1>0. /\ TablesInv /\ RequestsInv /\ AdminsInv /\ WorkersInv
      /\ lastId \in Nat /\ now \in Nat
    BY DEF IndexTypeInv, TablesInv
<1>1. CASE UNCHANGED <<now, rows, lastId>>
    BY <1>0, <1>1, RowsSame
<1>2. CASE Tick
    <2>1. UNCHANGED <<rows, lastId>> /\ now <= now'
        BY <1>0, <1>2 DEF Tick, tables
    <2> QED BY <1>0, <2>1, RowsSame
<1>3. ASSUME NEW r \in Requests, UnsetCurrent(r) PROVE RowsStep
    <2> DEFINE i == req[r].new.supersedes
    <2>1. CASE i \in Stored
        <3>1. rows[i] \in Rows /\ i \in Ids
            BY <1>0, <2>1, RowOfStored
        <3>2. rows' = [rows EXCEPT ![i] = [rows[i] EXCEPT !.current = FALSE]] /\ UNCHANGED <<now, lastId>>
            BY <1>3, <2>1 DEF UnsetCurrent
        <3> HIDE DEF i
        <3>3. rows'[i] = [rows[i] EXCEPT !.current = FALSE] /\ \A o \in Ids \ {i} : rows'[o] = rows[o]
            BY <1>0, <3>1, <3>2 DEF TablesInv
        <3>4. Stored' = Stored
            BY <2>1, <3>1, <3>3, RowUpdates, RowTypes DEF Stored
        <3>5. /\ rows'[i].series = rows[i].series /\ rows'[i].version = rows[i].version
              /\ rows'[i].expires = rows[i].expires /\ rows'[i].avail = rows[i].avail
              /\ rows'[i].current = FALSE
            BY <3>1, <3>3, RowUpdates
        <3>6. \A o \in Stored \ {i} : rows'[o] = rows[o]
            BY <3>3 DEF Stored
        <3> QED BY <1>0, <3>2, <3>4, <3>5, <3>6, RowsSet
    <2>2. CASE i \notin Stored
        BY <1>1, <1>3, <2>2 DEF UnsetCurrent
    <2> QED BY <2>1, <2>2
<1>4. ASSUME NEW a \in Admins, ClearSeries(a) PROVE RowsStep
    <2> DEFINE S == Series(adm[a].new.series)
    <2>1. /\ rows' = [i \in Ids |-> IF i \in S THEN [rows[i] EXCEPT !.current = FALSE] ELSE rows[i]]
          /\ UNCHANGED <<now, lastId>>
        BY <1>4 DEF ClearSeries
    <2>2. \A i \in Stored : i \in Ids /\ rows[i] \in Rows
        BY <1>0, RowOfStored
    <2>3. S \subseteq Stored
        BY DEF Series
    <2> HIDE DEF S
    <2>4. /\ \A i \in S : rows'[i] = [rows[i] EXCEPT !.current = FALSE]
          /\ \A i \in Ids \ S : rows'[i] = rows[i]
        BY <2>1, <2>2, <2>3
    <2>5. ASSUME NEW i \in S
          PROVE  /\ rows'[i].series = rows[i].series /\ rows'[i].version = rows[i].version
                 /\ rows'[i].expires = rows[i].expires /\ rows'[i].avail = rows[i].avail
                 /\ rows'[i].current = FALSE /\ rows'[i] # NoRow
        <3>1. rows[i] \in Rows /\ rows'[i] = [rows[i] EXCEPT !.current = FALSE]
            BY <2>2, <2>3, <2>4
        <3> QED BY <3>1, RowUpdates, RowTypes
    <2>6. Stored' = Stored
        BY <2>2, <2>3, <2>4, <2>5 DEF Stored
    <2>7. \A i \in Stored \ S : rows'[i] = rows[i]
        BY <2>2, <2>4
    <2> QED BY <1>0, <2>1, <2>5, <2>6, <2>7, RowsSet
<1>5. ASSUME NEW r \in Requests, InsertIntention(r) PROVE RowsStep
    <2> DEFINE p == req[r].new
               row == [p EXCEPT !.series = IF @ = None THEN lastId + 1 ELSE @]
    <2>1. pc[r] = "insert" /\ lastId < MaxIntentions /\ UNCHANGED now
        BY <1>5 DEF InsertIntention
    <2>2. p \in NewRows /\ p \in Pending /\ lastId + 1 \in Ids
        BY <1>0, <2>1, RetentionAssumption DEF RequestsInv, Pending, Ids
    <2>3. /\ row \in Rows /\ row.version = p.version /\ row.avail = p.avail
          /\ row.series = IF p.series = None THEN lastId + 1 ELSE p.series
        BY <2>2, NewSeriesTyped
    <2>4. InsertRow(row) \/ UNCHANGED <<rows, lastId>>
        BY <1>5 DEF InsertIntention
    <2> HIDE DEF p, row
    <2> QED BY <1>0, <1>1, <2>1, <2>2, <2>3, <2>4, RowsInserted
<1>6. ASSUME NEW a \in Admins, InsertCorrection(a) PROVE RowsStep
    <2>1. apc[a] = "insert" /\ lastId < MaxIntentions /\ UNCHANGED now
        BY <1>6 DEF InsertCorrection
    <2>2. adm[a].new \in Rows /\ adm[a].new \in Pending
        BY <1>0, <2>1 DEF AdminsInv, Pending
    <2>3. InsertRow(adm[a].new) \/ UNCHANGED <<rows, lastId>>
        BY <1>6 DEF InsertCorrection
    <2> QED BY <1>0, <1>1, <2>1, <2>2, <2>3, RowsInserted
<1>7. ASSUME NEW a \in Admins, PurgeRows(a) PROVE RowsStep
    <2>1. /\ rows' = RowsWithout(adm[a].ids) /\ job' = JobsWithout(adm[a].ids)
          /\ vectors' = VectorsWithout(adm[a].ids) /\ UNCHANGED <<now, lastId>>
        BY <1>7 DEF PurgeRows
    <2>2. /\ \A i \in Ids : rows'[i] = IF i \in adm[a].ids THEN NoRow ELSE rows[i]
          /\ \A k \in IndexKeys : k.id \in adm[a].ids => job'[k] = NoJob /\ k \notin vectors'
        BY <2>1 DEF RowsWithout, JobsWithout, VectorsWithout
    <2>3. \A i \in Stored : i \in Stored' => rows'[i] = rows[i]
        BY <2>2 DEF Stored
    <2>4. \A i \in Stored : i \notin Stored' => i \in adm[a].ids
        BY <2>2 DEF Stored
    <2>5. \A i \in Stored' : i \in Stored
        BY <2>2 DEF Stored
    <2>6. now <= now' /\ lastId <= lastId'
        BY <1>0, <2>1
    <2> QED BY <2>2, <2>3, <2>4, <2>5, <2>6 DEF RowsStep
<1>8. ASSUME NEW w \in Workers, MarkAvailable(w) \/ MarkUnavailable(w) PROVE RowsStep
    <2>1. work[w].job.id \in Ids
        BY <1>0, <1>8 DEF WorkersInv, Claims, IndexKeys, MarkAvailable, MarkUnavailable
    <2>2. UNCHANGED <<now, lastId>>
        BY <1>8 DEF MarkAvailable, MarkUnavailable
    <2>3. CASE MarkAvailable(w)
        BY <1>0, <2>1, <2>2, <2>3, AvailabilitySet DEF MarkAvailable, Availabilities
    <2>4. CASE MarkUnavailable(w)
        BY <1>0, <2>1, <2>2, <2>4, AvailabilitySet DEF MarkUnavailable, Availabilities
    <2> QED BY <1>8, <2>3, <2>4
<1>9. ASSUME NEW i \in Ids, ReindexPending(i) PROVE RowsStep
    BY <1>0, <1>9, AvailabilitySet DEF ReindexPending, Availabilities
<1>10. ASSUME NEW r \in Requests, RequestStep(r) PROVE RowsStep
    <2>1. CASE \E b \in Batches : InsertEvent(r, b)
        BY <1>1, <2>1 DEF InsertEvent
    <2>2. CASE ReadIntention(r) \/ EnqueueNew(r) \/ CrashRequest(r)
        BY <1>1, <2>2 DEF ReadIntention, EnqueueNew, CrashRequest, tables
    <2> QED BY <1>3, <1>5, <1>10, <2>1, <2>2 DEF RequestStep
<1>11. ASSUME NEW a \in Admins, AdminStep(a) PROVE RowsStep
    <2>1. CASE \E i \in Ids : ReadSeries(a, i)
        BY <1>1, <2>1 DEF ReadSeries, tables
    <2>2. CASE EnqueueCorrection(a) \/ PurgeContents(a) \/ PurgeVectors(a) \/ PurgeJobs(a)
        BY <1>1, <2>2 DEF EnqueueCorrection, PurgeContents, PurgeVectors, PurgeJobs
    <2>3. CASE PurgeRefused(a) \/ CrashAdmin(a)
        BY <1>1, <2>3 DEF PurgeRefused, CrashAdmin, tables
    <2> QED BY <1>4, <1>6, <1>7, <1>11, <2>1, <2>2, <2>3 DEF AdminStep
<1>12. ASSUME NEW w \in Workers, WorkerStep(w) \/ CrashWorker(w) PROVE RowsStep
    <2>1. CASE (\E k \in IndexKeys : Claim(w, k)) \/ ReadJob(w) \/ Skip(w) \/ WriteVector(w)
        BY <1>1, <2>1 DEF Claim, ReadJob, evidenceVars, tables, Skip, WriteVector
    <2>2. CASE Complete(w) \/ Fail(w) \/ CrashWorker(w)
        BY <1>1, <2>2 DEF Complete, Fail, CrashWorker
    <2> QED BY <1>8, <1>12, <2>1, <2>2 DEF WorkerStep
<1>13. CASE \/ \E k \in IndexKeys : LockExpires(k)
            \/ \E i \in Ids : ReindexJob(i)
            \/ BeginReindex
            \/ UNCHANGED vars
    BY <1>1, <1>13 DEF LockExpires, ReindexJob, BeginReindex, vars, evidenceVars, tables
<1> QED BY <1>2, <1>9, <1>10, <1>11, <1>12, <1>13 DEF Next, EvidenceNext, ReindexStep

(* What the services are about to insert, process by process.                *)
LEMMA PendingSame == UNCHANGED <<pc, req, apc, adm>> => PendingStep
BY DEF PendingStep, Pending

LEMMA PendingOfRequest ==
    ASSUME RequestsInv, NEW r \in Requests, NEW s, NEW q,
           pc' = [pc EXCEPT ![r] = s], req' = [req EXCEPT ![r] = q], UNCHANGED <<apc, adm>>,
           s \in {"unset", "insert"} => q.new \in Pending \/ Fresh(q.new)
    PROVE  PendingStep
<1> SUFFICES ASSUME NEW p \in Pending' PROVE p \in Pending \/ Fresh(p)
    BY DEF PendingStep
<1>1. ASSUME NEW a \in Admins, apc'[a] \in {"clear", "insert"}, p = adm'[a].new PROVE p \in Pending
    BY <1>1 DEF Pending
<1>2. ASSUME NEW t \in Requests, pc'[t] \in {"unset", "insert"}, p = req'[t].new
      PROVE  p \in Pending \/ Fresh(p)
    <2>1. CASE t = r
        <3>1. pc'[r] = s /\ req'[r] = q
            BY DEF RequestsInv
        <3> QED BY <1>2, <2>1, <3>1
    <2>2. CASE t # r
        <3>1. pc'[t] = pc[t] /\ req'[t] = req[t]
            BY <2>2 DEF RequestsInv
        <3> QED BY <1>2, <3>1 DEF Pending
    <2> QED BY <2>1, <2>2
<1>3. \/ \E t \in Requests : pc'[t] \in {"unset", "insert"} /\ p = req'[t].new
      \/ \E a \in Admins : apc'[a] \in {"clear", "insert"} /\ p = adm'[a].new
    BY DEF Pending
<1> QED BY <1>1, <1>2, <1>3

LEMMA PendingOfAdmin ==
    ASSUME AdminsInv, NEW a \in Admins, NEW s, NEW q,
           apc' = [apc EXCEPT ![a] = s], adm' = [adm EXCEPT ![a] = q], UNCHANGED <<pc, req>>,
           s \in {"clear", "insert"} => q.new \in Pending \/ Fresh(q.new)
    PROVE  PendingStep
<1> SUFFICES ASSUME NEW p \in Pending' PROVE p \in Pending \/ Fresh(p)
    BY DEF PendingStep
<1>1. ASSUME NEW t \in Requests, pc'[t] \in {"unset", "insert"}, p = req'[t].new PROVE p \in Pending
    BY <1>1 DEF Pending
<1>2. ASSUME NEW t \in Admins, apc'[t] \in {"clear", "insert"}, p = adm'[t].new
      PROVE  p \in Pending \/ Fresh(p)
    <2>1. CASE t = a
        <3>1. apc'[a] = s /\ adm'[a] = q
            BY DEF AdminsInv
        <3> QED BY <1>2, <2>1, <3>1
    <2>2. CASE t # a
        <3>1. apc'[t] = apc[t] /\ adm'[t] = adm[t]
            BY <2>2 DEF AdminsInv
        <3> QED BY <1>2, <3>1 DEF Pending
    <2> QED BY <2>1, <2>2
<1>3. \/ \E t \in Requests : pc'[t] \in {"unset", "insert"} /\ p = req'[t].new
      \/ \E t \in Admins : apc'[t] \in {"clear", "insert"} /\ p = adm'[t].new
    BY DEF Pending
<1> QED BY <1>1, <1>2, <1>3

LEMMA PendingSteps ==
    ASSUME IndexTypeInv, [Next]_vars PROVE PendingStep
<1>0. TablesInv /\ RequestsInv /\ AdminsInv
    BY DEF IndexTypeInv
<1>1. CASE UNCHANGED <<ingest, admin>>
    BY <1>1, PendingSame DEF ingest, admin
<1>2. ASSUME NEW r \in Requests, RequestStep(r) PROVE PendingStep
    <2>1. ASSUME EndRequest(r), UNCHANGED admin PROVE PendingStep
        <3>1. pc' = [pc EXCEPT ![r] = "idle"] /\ req' = [req EXCEPT ![r] = NoRequest] /\ UNCHANGED <<apc, adm>>
            BY <2>1 DEF EndRequest, admin
        <3> QED BY <1>0, <3>1, PendingOfRequest
    <2>2. ASSUME NEW b \in Batches, InsertEvent(r, b) PROVE PendingStep
        <3>1. UNCHANGED admin
            BY <2>2 DEF InsertEvent
        <3>2. CASE UNCHANGED ingest
            BY <1>1, <3>1, <3>2
        <3>3. CASE /\ pc' = [pc EXCEPT ![r] = "content"]
                   /\ req' = [req EXCEPT ![r] = [batch |-> b, expires |-> now + Retention]]
            <4> DEFINE q == [batch |-> b, expires |-> now + Retention]
            <4>1. req' = [req EXCEPT ![r] = q] /\ UNCHANGED <<apc, adm>>
                BY <3>1, <3>3 DEF admin
            <4> HIDE DEF q
            <4> QED BY <1>0, <3>3, <4>1, PendingOfRequest
        <3> QED BY <2>2, <3>2, <3>3 DEF InsertEvent
    <2>3. CASE ReadIntention(r)
        <3> DEFINE b == req[r].batch
                   Version(s, v, p) ==
                       [series |-> s, version |-> v, supersedes |-> p, current |-> TRUE,
                        state |-> StateOf(b), text |-> TextOf[b],
                        expires |-> req[r].expires, avail |-> "pending"]
        <3>1. UNCHANGED <<rows, lastId, apc, adm>>
            BY <2>3 DEF ReadIntention, admin
        <3>2. \A s, v, p : /\ [batch |-> b, new |-> Version(s, v, p)].new.avail = "pending"
                           /\ [batch |-> b, new |-> Version(s, v, p)].new.series = s
                           /\ [batch |-> b, new |-> Version(s, v, p)].new.version = v
            OBVIOUS
        <3> HIDE DEF Version, b
        <3>3. CASE /\ pc' = [pc EXCEPT ![r] = "insert"]
                   /\ req' = [req EXCEPT ![r] = [batch |-> b, new |-> Version(None, 1, None)]]
            <4> DEFINE q == [batch |-> b, new |-> Version(None, 1, None)]
            <4>1. Fresh(q.new)
                BY <3>1, <3>2 DEF Fresh
            <4>2. req' = [req EXCEPT ![r] = q]
                BY <3>3
            <4> HIDE DEF q
            <4> QED BY <1>0, <3>1, <3>3, <4>1, <4>2, PendingOfRequest
        <3>4. ASSUME NEW i \in Newest,
                     pc' = [pc EXCEPT ![r] = "unset"],
                     req' = [req EXCEPT ![r] =
                          [batch |-> b,
                           new |-> Version(rows[i].series, rows[i].version + 1, i)]]
              PROVE  PendingStep
            <4> DEFINE q == [batch |-> b, new |-> Version(rows[i].series, rows[i].version + 1, i)]
            <4>1. i \in Stored
                BY DEF Newest, Current
            <4>2. Fresh(q.new)
                BY <3>1, <3>2, <4>1 DEF Fresh
            <4>3. req' = [req EXCEPT ![r] = q]
                BY <3>4
            <4> HIDE DEF q
            <4> QED BY <1>0, <3>1, <3>4, <4>2, <4>3, PendingOfRequest
        <3>5. CASE EndRequest(r)
            BY <2>1, <3>1, <3>5 DEF admin
        <3> QED BY <2>3, <3>3, <3>4, <3>5 DEF ReadIntention, Version, b
    <2>4. CASE UnsetCurrent(r)
        <3>1. /\ pc' = [pc EXCEPT ![r] = "insert"] /\ req' = [req EXCEPT ![r] = req[r]]
              /\ UNCHANGED <<apc, adm>> /\ pc[r] = "unset"
            BY <1>0, <2>4 DEF UnsetCurrent, admin, RequestsInv
        <3>2. req[r].new \in Pending
            BY <3>1 DEF Pending
        <3> QED BY <1>0, <3>1, <3>2, PendingOfRequest
    <2>5. CASE InsertIntention(r)
        <3>1. CASE EndRequest(r)
            BY <2>1, <2>5, <3>1 DEF InsertIntention
        <3>2. CASE /\ pc' = [pc EXCEPT ![r] = "enqueue"]
                   /\ req' = [req EXCEPT ![r] = [batch |-> @.batch, id |-> lastId + 1]]
            <4> DEFINE q == [batch |-> req[r].batch, id |-> lastId + 1]
            <4>1. req' = [req EXCEPT ![r] = q] /\ UNCHANGED <<apc, adm>>
                BY <1>0, <2>5, <3>2 DEF InsertIntention, admin, RequestsInv
            <4> HIDE DEF q
            <4> QED BY <1>0, <3>2, <4>1, PendingOfRequest
        <3> QED BY <2>5, <3>1, <3>2 DEF InsertIntention
    <2>6. CASE EnqueueNew(r) \/ CrashRequest(r)
        BY <2>1, <2>6 DEF EnqueueNew, CrashRequest
    <2> QED BY <1>2, <2>2, <2>3, <2>4, <2>5, <2>6 DEF RequestStep
<1>3. ASSUME NEW a \in Admins, AdminStep(a) PROVE PendingStep
    <2>1. ASSUME AdminDone(a), UNCHANGED ingest PROVE PendingStep
        <3>1. apc' = [apc EXCEPT ![a] = "idle"] /\ adm' = [adm EXCEPT ![a] = NoRequest] /\ UNCHANGED <<pc, req>>
            BY <2>1 DEF AdminDone, ingest
        <3> QED BY <1>0, <3>1, PendingOfAdmin
    <2>2. ASSUME NEW i \in Ids, ReadSeries(a, i) PROVE PendingStep
        <3> DEFINE o == rows[i]
                   T == Versions(o.series)
                   latest == CHOOSE v \in T : \A u \in T : u <= v
                   current == Series(o.series) \cap Current
                   before == IF current = {} THEN i ELSE CHOOSE c \in current : TRUE
                   q == [new |-> [series |-> o.series, version |-> latest + 1,
                                  supersedes |-> before, current |-> TRUE,
                                  state |-> "corrected", text |-> CorrectedText,
                                  expires |-> o.expires, avail |-> "pending"]]
        <3>1. /\ i \in Stored /\ apc' = [apc EXCEPT ![a] = "clear"] /\ adm' = [adm EXCEPT ![a] = q]
              /\ UNCHANGED <<rows, lastId, pc, req>>
            BY <2>2 DEF ReadSeries, tables, ingest
        <3>2. latest \in T
            BY <1>0, <3>1, LatestVersion
        <3>3. PICK k \in Stored : rows[k].series = o.series /\ rows[k].version = latest
            BY <3>2 DEF Versions, Series
        <3>4. q.new.avail = "pending" /\ q.new.series = o.series /\ q.new.version = latest + 1
            OBVIOUS
        <3> HIDE DEF q, latest, o
        <3>5. Fresh(q.new)
            BY <3>1, <3>3, <3>4 DEF Fresh
        <3> QED BY <1>0, <3>1, <3>5, PendingOfAdmin
    <2>3. CASE ClearSeries(a)
        <3>1. /\ apc' = [apc EXCEPT ![a] = "insert"] /\ adm' = [adm EXCEPT ![a] = adm[a]]
              /\ UNCHANGED <<pc, req>> /\ apc[a] = "clear"
            BY <1>0, <2>3 DEF ClearSeries, ingest, AdminsInv
        <3>2. adm[a].new \in Pending
            BY <3>1 DEF Pending
        <3> QED BY <1>0, <3>1, <3>2, PendingOfAdmin
    <2>4. CASE InsertCorrection(a)
        <3>1. CASE AdminDone(a)
            BY <2>1, <2>4, <3>1 DEF InsertCorrection
        <3>2. CASE /\ apc' = [apc EXCEPT ![a] = "enqueue"]
                   /\ adm' = [adm EXCEPT ![a] = [id |-> lastId + 1]]
            <4> DEFINE q == [id |-> lastId + 1]
            <4>1. adm' = [adm EXCEPT ![a] = q] /\ UNCHANGED <<pc, req>>
                BY <2>4, <3>2 DEF InsertCorrection, ingest
            <4> HIDE DEF q
            <4> QED BY <1>0, <3>2, <4>1, PendingOfAdmin
        <3> QED BY <2>4, <3>1, <3>2 DEF InsertCorrection
    <2>5. CASE PurgeContents(a)
        <3> DEFINE q == [ids |-> {i \in Stored : Expired(i)}]
        <3>1. apc' = [apc EXCEPT ![a] = "vectors"] /\ adm' = [adm EXCEPT ![a] = q] /\ UNCHANGED <<pc, req>>
            BY <2>5 DEF PurgeContents, ingest
        <3> HIDE DEF q
        <3> QED BY <1>0, <3>1, PendingOfAdmin
    <2>6. ASSUME NEW s \in {"jobs", "rows"}, apc' = [apc EXCEPT ![a] = s], UNCHANGED <<adm, ingest>>
          PROVE  PendingStep
        <3>1. adm' = [adm EXCEPT ![a] = adm[a]] /\ UNCHANGED <<pc, req>> /\ s \notin {"clear", "insert"}
            BY <1>0, <2>6 DEF ingest, AdminsInv
        <3> QED BY <1>0, <2>6, <3>1, PendingOfAdmin
    <2>7. CASE PurgeVectors(a) \/ PurgeJobs(a)
        BY <2>6, <2>7 DEF PurgeVectors, PurgeJobs
    <2>8. CASE EnqueueCorrection(a) \/ PurgeRows(a) \/ PurgeRefused(a) \/ CrashAdmin(a)
        BY <2>1, <2>8 DEF EnqueueCorrection, PurgeRows, PurgeRefused, CrashAdmin
    <2> QED BY <1>3, <2>2, <2>3, <2>4, <2>5, <2>7, <2>8 DEF AdminStep
<1>4. ASSUME NEW w \in Workers, WorkerStep(w) \/ CrashWorker(w) PROVE PendingStep
    <2>1. CASE (\E k \in IndexKeys : Claim(w, k)) \/ ReadJob(w) \/ Skip(w) \/ WriteVector(w)
        BY <1>1, <2>1 DEF Claim, ReadJob, evidenceVars, Skip, WriteVector
    <2>2. CASE MarkAvailable(w) \/ Complete(w) \/ Fail(w) \/ MarkUnavailable(w) \/ CrashWorker(w)
        BY <1>1, <2>2 DEF MarkAvailable, Complete, Fail, MarkUnavailable, CrashWorker
    <2> QED BY <1>4, <2>1, <2>2 DEF WorkerStep
<1>5. CASE \/ \E k \in IndexKeys : LockExpires(k)
           \/ \E i \in Ids : ReindexJob(i) \/ ReindexPending(i)
           \/ BeginReindex \/ Tick
           \/ UNCHANGED vars
    BY <1>1, <1>5 DEF LockExpires, ReindexJob, ReindexPending, BeginReindex, Tick, vars, evidenceVars
<1> QED BY <1>2, <1>3, <1>4, <1>5 DEF Next, EvidenceNext, ReindexStep

(* What the purges are about to delete.                                      *)
LEMMA DoomedOfAdmin ==
    ASSUME AdminsInv, NEW a \in Admins, NEW s, NEW q,
           apc' = [apc EXCEPT ![a] = s], adm' = [adm EXCEPT ![a] = q],
           s \in {"vectors", "jobs", "rows"} =>
               \A i \in q.ids : i \in Doomed \/ (i \in Stored /\ Expired(i) /\ UNCHANGED <<now, rows>>)
    PROVE  DoomedStep
<1> SUFFICES ASSUME NEW t \in Admins, apc'[t] \in {"vectors", "jobs", "rows"}, NEW i \in adm'[t].ids
             PROVE  i \in Doomed \/ (i \in Stored /\ Expired(i) /\ UNCHANGED <<now, rows>>)
    BY DEF DoomedStep, Doomed
<1>1. CASE t = a
    <2>1. apc'[a] = s /\ adm'[a] = q
        BY DEF AdminsInv
    <2> QED BY <1>1, <2>1
<1>2. CASE t # a
    <2>1. apc'[t] = apc[t] /\ adm'[t] = adm[t]
        BY <1>2 DEF AdminsInv
    <2> QED BY <2>1 DEF Doomed
<1> QED BY <1>1, <1>2

LEMMA DoomedSteps ==
    ASSUME IndexTypeInv, [Next]_vars PROVE DoomedStep
<1>0. AdminsInv
    BY DEF IndexTypeInv
<1>1. CASE UNCHANGED admin
    BY <1>1 DEF admin, DoomedStep, Doomed
<1>2. ASSUME NEW a \in Admins, AdminStep(a) PROVE DoomedStep
    <2>1. CASE AdminDone(a)
        <3>1. apc' = [apc EXCEPT ![a] = "idle"] /\ adm' = [adm EXCEPT ![a] = NoRequest]
            BY <2>1 DEF AdminDone
        <3> QED BY <1>0, <3>1, DoomedOfAdmin
    <2>2. ASSUME NEW s \in {"clear", "insert", "enqueue"}, NEW q,
                 apc' = [apc EXCEPT ![a] = s], adm' = [adm EXCEPT ![a] = q]
          PROVE  DoomedStep
        <3>1. s \notin {"vectors", "jobs", "rows"}
            OBVIOUS
        <3> QED BY <1>0, <2>2, <3>1, DoomedOfAdmin
    <2>3. ASSUME NEW i \in Ids, ReadSeries(a, i) PROVE DoomedStep
        <3>1. \E q : adm' = [adm EXCEPT ![a] = q]
            BY <2>3 DEF ReadSeries
        <3> QED BY <2>2, <2>3, <3>1 DEF ReadSeries
    <2>4. CASE ClearSeries(a)
        <3>1. apc' = [apc EXCEPT ![a] = "insert"] /\ adm' = [adm EXCEPT ![a] = adm[a]]
            BY <1>0, <2>4 DEF ClearSeries, AdminsInv
        <3> QED BY <2>2, <3>1
    <2>5. CASE InsertCorrection(a)
        BY <2>1, <2>2, <2>5 DEF InsertCorrection
    <2>6. CASE PurgeContents(a)
        <3> DEFINE q == [ids |-> {i \in Stored : Expired(i)}]
        <3>1. /\ apc' = [apc EXCEPT ![a] = "vectors"] /\ adm' = [adm EXCEPT ![a] = q]
              /\ UNCHANGED <<now, rows>>
            BY <2>6 DEF PurgeContents
        <3>2. \A i \in q.ids : i \in Stored /\ Expired(i)
            OBVIOUS
        <3> HIDE DEF q
        <3> QED BY <1>0, <3>1, <3>2, DoomedOfAdmin
    <2>7. CASE PurgeVectors(a) \/ PurgeJobs(a)
        <3>1. PICK s \in {"jobs", "rows"} : apc' = [apc EXCEPT ![a] = s]
            BY <2>7 DEF PurgeVectors, PurgeJobs
        <3>2. adm' = [adm EXCEPT ![a] = adm[a]] /\ apc[a] \in {"vectors", "jobs"}
            BY <1>0, <2>7 DEF PurgeVectors, PurgeJobs, AdminsInv
        <3>3. \A i \in adm[a].ids : i \in Doomed
            BY <3>2 DEF Doomed
        <3> QED BY <1>0, <3>1, <3>2, <3>3, DoomedOfAdmin
    <2>8. CASE EnqueueCorrection(a) \/ PurgeRows(a) \/ PurgeRefused(a) \/ CrashAdmin(a)
        BY <2>1, <2>8 DEF EnqueueCorrection, PurgeRows, PurgeRefused, CrashAdmin
    <2> QED BY <1>2, <2>3, <2>4, <2>5, <2>6, <2>7, <2>8 DEF AdminStep
<1>3. ASSUME NEW r \in Requests, RequestStep(r) PROVE DoomedStep
    BY <1>1, <1>3 DEF RequestStep, InsertEvent, ReadIntention, UnsetCurrent, InsertIntention,
                      EnqueueNew, CrashRequest
<1>4. ASSUME NEW w \in Workers, WorkerStep(w) \/ CrashWorker(w) PROVE DoomedStep
    <2>1. CASE (\E k \in IndexKeys : Claim(w, k)) \/ ReadJob(w) \/ Skip(w) \/ WriteVector(w)
        BY <1>1, <2>1 DEF Claim, ReadJob, evidenceVars, Skip, WriteVector
    <2>2. CASE MarkAvailable(w) \/ Complete(w) \/ Fail(w) \/ MarkUnavailable(w) \/ CrashWorker(w)
        BY <1>1, <2>2 DEF MarkAvailable, Complete, Fail, MarkUnavailable, CrashWorker
    <2> QED BY <1>4, <2>1, <2>2 DEF WorkerStep
<1>5. CASE \/ \E k \in IndexKeys : LockExpires(k)
           \/ \E i \in Ids : ReindexJob(i) \/ ReindexPending(i)
           \/ BeginReindex \/ Tick
           \/ UNCHANGED vars
    BY <1>1, <1>5 DEF LockExpires, ReindexJob, ReindexPending, BeginReindex, Tick, vars, evidenceVars
<1> QED BY <1>2, <1>3, <1>4, <1>5 DEF Next, EvidenceNext, ReindexStep

(* The jobs: made for a version that is stored, skipped by a worker that was  *)
(* about to.                                                                 *)
LEMMA JobSteps ==
    ASSUME IndexTypeInv, [Next]_vars PROVE JobStep
<1>0. TablesInv /\ WorkersInv
    BY DEF IndexTypeInv
<1>1. CASE UNCHANGED job
    BY <1>1 DEF JobStep
<1>2. ASSUME NEW i \in Ids, EnqueueJob(i) PROVE JobStep
    <2>1. PICK m \in Revisions :
              LET k == [id |-> i, revision |-> m]
              IN  job' = IF i \in Stored /\ job[k] = NoJob
                         THEN [job EXCEPT ![k] = PendingJob] ELSE job
        BY <1>2 DEF EnqueueJob
    <2> DEFINE k == [id |-> i, revision |-> m]
    <2>2. k \in IndexKeys /\ k.id = i
        BY DEF IndexKeys
    <2>3. job' = job \/ (i \in Stored /\ job' = [job EXCEPT ![k] = PendingJob])
        BY <2>1
    <2> HIDE DEF k
    <2> QED BY <1>0, <2>2, <2>3, RowTypes DEF JobStep, TablesInv
<1>3. ASSUME NEW k \in IndexKeys, NEW f, job' = [job EXCEPT ![k] = f],
             f # NoJob => job[k] # NoJob \/ k.id \in Stored,
             f.state = "skipped" =>
                 \/ job[k].state = "skipped"
                 \/ \E w \in Workers : wpc[w] = "skip" /\ wpc'[w] = "idle" /\ work[w].job = k
      PROVE  JobStep
    BY <1>0, <1>3 DEF JobStep, TablesInv
<1>4. ASSUME NEW ids, job' = JobsWithout(ids) PROVE JobStep
    BY <1>4, RowTypes DEF JobStep, JobsWithout
<1>5. ASSUME NEW w \in Workers, WorkerStep(w) \/ CrashWorker(w) PROVE JobStep
    <2> DEFINE k == work[w].job
    <2>0. wpc[w] # "idle" => k \in IndexKeys /\ job[k] \in Jobs
        BY <1>0 DEF WorkersInv, Claims, TablesInv
    <2>1. ASSUME wpc[w] # "idle", NEW f, SetJob(k, f),
                 f.state = "skipped" => wpc[w] = "skip" /\ wpc'[w] = "idle"
          PROVE  JobStep
        <3>1. CASE job[k] = NoJob
            BY <1>1, <2>1, <3>1 DEF SetJob
        <3>2. CASE job[k] # NoJob
            BY <1>3, <2>0, <2>1, <3>2 DEF SetJob
        <3> QED BY <3>1, <3>2
    <2>2. CASE (\E o \in IndexKeys : Claim(w, o))
        <3>1. PICK o \in IndexKeys : Claim(w, o)
            BY <2>2
        <3> DEFINE f == [job[o] EXCEPT !.state = "processing", !.stale = FALSE]
        <3>2. f.state = "processing"
            <4>1. job[o] \in Jobs
                BY <1>0 DEF TablesInv
            <4> QED BY <4>1, JobUpdates
        <3>3. job' = [job EXCEPT ![o] = f] /\ o.id \in Stored
            BY <3>1 DEF Claim, Claimable, Live
        <3> HIDE DEF f
        <3> QED BY <1>3, <3>2, <3>3
    <2>3. ASSUME NEW s \in Settled, wpc[w] # "idle", s = "skipped" => wpc[w] = "skip", WorkerDone(w),
                 SetJob(k, [job[k] EXCEPT !.state = s, !.stale = FALSE])
          PROVE  JobStep
        <3> DEFINE f == [job[k] EXCEPT !.state = s, !.stale = FALSE]
        <3>1. f.state = s
            BY <2>0, <2>3, JobUpdates
        <3>2. SetJob(k, f)
            BY <2>3
        <3>3. wpc'[w] = "idle"
            BY <1>0, <2>3 DEF WorkerDone, WorkersInv
        <3> HIDE DEF f, k
        <3> QED BY <2>1, <2>3, <3>1, <3>2, <3>3
    <2>4. CASE Skip(w) \/ Complete(w)
        BY <2>3, <2>4 DEF Skip, Complete, Settled
    <2>5. CASE Fail(w)
        <3> DEFINE f == [state |-> IF Terminal(w) THEN "failed" ELSE "pending",
                         attempts |-> work[w].attempts + 1, stale |-> FALSE]
        <3>1. SetJob(k, f) /\ wpc[w] # "idle" /\ f.state # "skipped"
            BY <2>5 DEF Fail
        <3> HIDE DEF f, k
        <3> QED BY <2>1, <3>1
    <2>6. CASE CrashWorker(w)
        <3> DEFINE f == [job[k] EXCEPT !.stale = job[k].state = "processing"]
        <3>1. job' = [job EXCEPT ![k] = f] /\ k \in IndexKeys /\ job[k] \in Jobs
            BY <2>0, <2>6 DEF CrashWorker
        <3>2. f.state = job[k].state /\ (job[k] = NoJob => f = NoJob)
            BY <3>1 DEF Jobs, NoJob
        <3> HIDE DEF f, k
        <3> QED BY <1>3, <3>1, <3>2
    <2>7. CASE ReadJob(w) \/ WriteVector(w) \/ MarkAvailable(w) \/ MarkUnavailable(w)
        BY <1>1, <2>7 DEF ReadJob, evidenceVars, tables, WriteVector, MarkAvailable, MarkUnavailable
    <2> QED BY <1>5, <2>2, <2>4, <2>5, <2>6, <2>7 DEF WorkerStep
<1>6. ASSUME NEW k \in IndexKeys, LockExpires(k) PROVE JobStep
    <2> DEFINE f == [job[k] EXCEPT !.stale = TRUE]
    <2>1. job' = [job EXCEPT ![k] = f] /\ f.state = job[k].state /\ job[k] # NoJob
        BY <1>0, <1>6, RowTypes DEF LockExpires, TablesInv, Jobs
    <2> HIDE DEF f
    <2> QED BY <1>3, <2>1
<1>7. ASSUME NEW i \in Ids, ReindexJob(i) PROVE JobStep
    <2> DEFINE k == [id |-> i, revision |-> reindexing.revision]
    <2>1. k \in IndexKeys /\ k.id = i
        BY <1>0, <1>7 DEF ReindexJob, WorkersInv, Visits, IndexKeys
    <2>2. job' = job \/ (i \in Stored /\ job' = [job EXCEPT ![k] = PendingJob])
        BY <1>7 DEF ReindexJob
    <2> HIDE DEF k
    <2> QED BY <1>1, <1>3, <2>1, <2>2, RowTypes
<1>8. ASSUME NEW r \in Requests, RequestStep(r) PROVE JobStep
    <2>1. CASE EnqueueNew(r)
        <3>1. req[r].id \in Ids
            BY <2>1 DEF IndexTypeInv, RequestsInv, EnqueueNew
        <3> QED BY <1>2, <2>1, <3>1 DEF EnqueueNew
    <2> QED BY <1>1, <1>8, <2>1 DEF RequestStep, InsertEvent, ReadIntention, UnsetCurrent,
                                    InsertIntention, CrashRequest, tables
<1>9. ASSUME NEW a \in Admins, AdminStep(a) PROVE JobStep
    <2>1. CASE EnqueueCorrection(a)
        <3>1. adm[a].id \in Ids
            BY <2>1 DEF IndexTypeInv, AdminsInv, EnqueueCorrection
        <3> QED BY <1>2, <2>1, <3>1 DEF EnqueueCorrection
    <2>2. CASE PurgeJobs(a) \/ PurgeRows(a)
        BY <1>4, <2>2 DEF PurgeJobs, PurgeRows
    <2>3. CASE (\E i \in Ids : ReadSeries(a, i)) \/ ClearSeries(a) \/ InsertCorrection(a)
        BY <1>1, <2>3 DEF ReadSeries, ClearSeries, InsertCorrection, tables
    <2>4. CASE PurgeContents(a) \/ PurgeVectors(a) \/ PurgeRefused(a) \/ CrashAdmin(a)
        BY <1>1, <2>4 DEF PurgeContents, PurgeVectors, PurgeRefused, CrashAdmin, tables
    <2> QED BY <1>9, <2>1, <2>2, <2>3, <2>4 DEF AdminStep
<1>10. CASE \/ \E i \in Ids : ReindexPending(i)
            \/ BeginReindex \/ Tick
            \/ UNCHANGED vars
    BY <1>1, <1>10 DEF ReindexPending, BeginReindex, Tick, vars, evidenceVars, tables
<1> QED BY <1>5, <1>6, <1>7, <1>8, <1>9, <1>10 DEF Next, EvidenceNext, ReindexStep

(* The vectors: written for a version that is stored, deleted with those that *)
(* have expired.                                                             *)
LEMMA VectorSteps ==
    ASSUME IndexTypeInv, [Next]_vars PROVE VectorStep
<1>1. CASE UNCHANGED vectors
    BY <1>1 DEF VectorStep
<1>2. ASSUME NEW w \in Workers, WorkerStep(w) \/ CrashWorker(w) PROVE VectorStep
    <2>1. CASE WriteVector(w)
        BY <2>1 DEF WriteVector, VectorStep
    <2>2. CASE (\E k \in IndexKeys : Claim(w, k)) \/ ReadJob(w) \/ Skip(w)
        BY <1>1, <2>2 DEF Claim, ReadJob, evidenceVars, tables, Skip
    <2>3. CASE MarkAvailable(w) \/ Complete(w) \/ Fail(w) \/ MarkUnavailable(w) \/ CrashWorker(w)
        BY <1>1, <2>3 DEF MarkAvailable, Complete, Fail, MarkUnavailable, CrashWorker
    <2> QED BY <1>2, <2>1, <2>2, <2>3 DEF WorkerStep
<1>3. ASSUME NEW r \in Requests, RequestStep(r) PROVE VectorStep
    BY <1>1, <1>3 DEF RequestStep, InsertEvent, ReadIntention, UnsetCurrent, InsertIntention,
                      EnqueueNew, CrashRequest, tables
<1>4. ASSUME NEW a \in Admins, AdminStep(a) PROVE VectorStep
    <2>1. CASE PurgeVectors(a) \/ PurgeRows(a)
        <3>1. vectors' = VectorsWithout(adm[a].ids) /\ apc[a] \in {"vectors", "rows"}
            BY <2>1 DEF PurgeVectors, PurgeRows
        <3> QED BY <3>1 DEF VectorStep, VectorsWithout, Doomed
    <2>2. CASE (\E i \in Ids : ReadSeries(a, i)) \/ ClearSeries(a) \/ InsertCorrection(a)
        BY <1>1, <2>2 DEF ReadSeries, ClearSeries, InsertCorrection, tables
    <2>3. CASE \/ EnqueueCorrection(a) \/ PurgeContents(a) \/ PurgeJobs(a)
               \/ PurgeRefused(a) \/ CrashAdmin(a)
        BY <1>1, <2>3 DEF EnqueueCorrection, PurgeContents, PurgeJobs, PurgeRefused, CrashAdmin, tables
    <2> QED BY <1>4, <2>1, <2>2, <2>3 DEF AdminStep
<1>5. CASE \/ \E k \in IndexKeys : LockExpires(k)
           \/ \E i \in Ids : ReindexJob(i) \/ ReindexPending(i)
           \/ BeginReindex \/ Tick
           \/ UNCHANGED vars
    BY <1>1, <1>5 DEF LockExpires, ReindexJob, ReindexPending, BeginReindex, Tick, vars, evidenceVars,
                      tables
<1> QED BY <1>2, <1>3, <1>4, <1>5 DEF Next, EvidenceNext, ReindexStep

(* The workers.                                                              *)
LEMMA WorkSteps ==
    ASSUME IndexTypeInv, [Next]_vars PROVE WorkStep
<1>0. WorkersInv
    BY DEF IndexTypeInv
<1>1. CASE UNCHANGED workers
    BY <1>1 DEF WorkStep, workers
<1>2. ASSUME NEW w \in Workers, NEW s, NEW q, wpc' = [wpc EXCEPT ![w] = s],
             work' = [work EXCEPT ![w] = q],
             s # "idle" => q.at = now \/ (wpc[w] # "idle" /\ q.at = work[w].at),
             s = "available" => \E k \in vectors' : k.id = q.job.id,
             s = "skip" => q = work[w] /\ wpc[w] # "idle" /\ Obsolete(w) /\ UNCHANGED <<rows, now>>
      PROVE  WorkStep
    <2> SUFFICES ASSUME NEW x \in Workers
                 PROVE  /\ wpc'[x] # "idle" => work'[x].at = now \/ (wpc[x] # "idle" /\ work'[x].at = work[x].at)
                        /\ wpc'[x] = "available" =>
                              (wpc[x] = "available" /\ work'[x] = work[x]) \/ \E k \in vectors' : k.id = work'[x].job.id
                        /\ wpc'[x] = "skip" =>
                              /\ work'[x] = work[x]
                              /\ wpc[x] = "skip" \/ (wpc[x] # "idle" /\ Obsolete(x) /\ UNCHANGED <<rows, now>>)
        BY DEF WorkStep
    <2>1. CASE x = w
        BY <1>0, <1>2, <2>1 DEF WorkersInv
    <2>2. CASE x # w
        BY <1>0, <1>2, <2>2 DEF WorkersInv
    <2> QED BY <2>1, <2>2
<1>3. ASSUME NEW w \in Workers, WorkerStep(w) \/ CrashWorker(w) PROVE WorkStep
    <2>0. work = [work EXCEPT ![w] = work[w]]
        BY <1>0 DEF WorkersInv
    <2>1. CASE WorkerDone(w)
        BY <1>2, <2>1 DEF WorkerDone
    <2>2. CASE \E k \in IndexKeys : Claim(w, k)
        <3>1. PICK k \in IndexKeys : Claim(w, k)
            BY <2>2
        <3> DEFINE q == [job |-> k, at |-> now, attempts |-> job[k].attempts]
        <3>2. wpc' = [wpc EXCEPT ![w] = "read"] /\ work' = [work EXCEPT ![w] = q] /\ q.at = now
            BY <3>1 DEF Claim
        <3> HIDE DEF q
        <3> QED BY <1>2, <3>2
    <2>3. CASE ReadJob(w)
        <3>1. /\ wpc' = [wpc EXCEPT ![w] = IF Obsolete(w) THEN "skip" ELSE "embed"]
              /\ UNCHANGED <<work, rows, now>> /\ wpc[w] = "read"
            BY <2>3 DEF ReadJob, evidenceVars, tables
        <3> QED BY <1>2, <2>0, <3>1
    <2>4. CASE WriteVector(w)
        <3>1. /\ wpc[w] = "embed" /\ wpc' = [wpc EXCEPT ![w] = "available"] /\ work' = work
              /\ [id |-> work[w].job.id, revision |-> EngineOf[w]] \in vectors'
            BY <2>4 DEF WriteVector
        <3>2. \E k \in vectors' : k.id = work[w].job.id
            BY <3>1
        <3> QED BY <1>2, <2>0, <3>1, <3>2
    <2>5. CASE MarkAvailable(w)
        BY <1>2, <2>0, <2>5 DEF MarkAvailable
    <2>6. CASE Fail(w)
        BY <1>2, <2>0, <2>1, <2>6 DEF Fail
    <2>7. CASE Skip(w) \/ Complete(w) \/ MarkUnavailable(w) \/ CrashWorker(w)
        BY <2>1, <2>7 DEF Skip, Complete, MarkUnavailable, CrashWorker
    <2> QED BY <1>3, <2>2, <2>3, <2>4, <2>5, <2>6, <2>7 DEF WorkerStep
<1>4. CASE \/ EvidenceNext /\ UNCHANGED index
           \/ \E k \in IndexKeys : LockExpires(k)
           \/ \E i \in Ids : ReindexJob(i) \/ ReindexPending(i)
           \/ BeginReindex
           \/ UNCHANGED vars
    BY <1>1, <1>4 DEF LockExpires, ReindexJob, ReindexPending, BeginReindex, vars, index
<1> QED BY <1>3, <1>4 DEF Next, ReindexStep

(***************************************************************************)
(* What has died stays dead: with what any step does, the invariant is kept. *)
(***************************************************************************)
Steps == RowsStep /\ PendingStep /\ DoomedStep /\ JobStep /\ VectorStep /\ WorkStep

LEMMA AllSteps == IndexTypeInv /\ [Next]_vars => Steps /\ IndexTypeInv'
BY IndexTypeStep, RowsSteps, PendingSteps, DoomedSteps, JobSteps, VectorSteps, WorkSteps DEF Steps

LEMMA Lives ==
    ASSUME IndexTypeInv, IndexTypeInv', RowsStep, NEW i \in Ids, i <= lastId, Live(i)'
    PROVE  Live(i) /\ (rows'[i].current => rows[i].current)
<1>0. TablesInv /\ lastId \in Nat /\ now \in Nat /\ now' \in Nat /\ now <= now'
    BY DEF IndexTypeInv, TablesInv, RowsStep
<1>1. i \in Stored' /\ ~(rows'[i].expires <= now')
    BY DEF Live, Expired
<1>2. i \in Stored
    BY <1>0, <1>1 DEF RowsStep, Ids
<1>3. rows'[i].expires = rows[i].expires /\ (rows'[i].current => rows[i].current)
    BY <1>1, <1>2 DEF RowsStep
<1>4. rows[i].expires \in Nat
    BY <1>0, <1>2, RowOfStored, RowTypes
<1>5. ~(rows[i].expires <= now)
    BY <1>0, <1>1, <1>3, <1>4
<1> QED BY <1>2, <1>3, <1>5 DEF Live, Expired

LEMMA PendingKept ==
    ASSUME IndexTypeInv, PendingInv, PendingStep PROVE PendingInv'
<1> SUFFICES ASSUME NEW p \in Pending' PROVE p.avail = "pending" /\ (p.series = None => p.version = 1)
    BY DEF PendingInv
<1>1. ASSUME Fresh(p) PROVE p.series = None => p.version = 1
    <2>1. \A i \in Stored : rows[i].series # None
        BY <1>1, RowOfStored, RowTypes DEF IndexTypeInv, Ids, None
    <2> QED BY <1>1, <2>1 DEF Fresh
<1> QED BY <1>1 DEF PendingStep, PendingInv, Fresh

LEMMA DoomedIds ==
    ASSUME IndexTypeInv, NEW i \in Doomed PROVE i \in Ids /\ i <= lastId
<1>1. PICK a \in Admins : apc[a] \in {"vectors", "jobs", "rows"} /\ i \in adm[a].ids
    BY DEF Doomed
<1>2. adm[a].ids \subseteq 1..lastId
    BY <1>1 DEF IndexTypeInv, AdminsInv
<1> QED BY <1>1, <1>2, RetentionAssumption DEF IndexTypeInv, TablesInv, Ids

LEMMA DoomedKept ==
    ASSUME IndexTypeInv, IndexTypeInv', DoomedInv, RowsStep, DoomedStep PROVE DoomedInv'
<1> SUFFICES ASSUME NEW i \in Doomed' PROVE ~Live(i)'
    BY DEF DoomedInv
<1>1. CASE i \in Doomed
    BY <1>1, DoomedIds, Lives DEF DoomedInv
<1>2. CASE i \in Stored /\ Expired(i) /\ UNCHANGED <<now, rows>>
    BY <1>2 DEF Live, Expired, Stored
<1> QED BY <1>1, <1>2 DEF DoomedStep

LEMMA DerivedKept ==
    ASSUME IndexTypeInv, NothingDerivedRemains, RowsStep, JobStep, VectorStep
    PROVE  NothingDerivedRemains'
<1> SUFFICES ASSUME NEW k \in IndexKeys, k.id \notin Stored' PROVE job'[k] = NoJob /\ k \notin vectors'
    BY DEF NothingDerivedRemains
<1>1. CASE k.id \in Stored
    BY <1>1 DEF RowsStep
<1>2. CASE k.id \notin Stored
    BY <1>2 DEF NothingDerivedRemains, JobStep, VectorStep
<1> QED BY <1>1, <1>2

LEMMA VectorsKept ==
    ASSUME IndexTypeInv, IndexTypeInv', PendingInv, DoomedInv, VectorsInv, RowsStep, VectorStep, WorkStep
    PROVE  VectorsInv'
<1>0. TablesInv /\ WorkersInv /\ lastId \in Nat
    BY DEF IndexTypeInv, TablesInv
<1>1. ASSUME NEW i \in Ids, Live(i)', Vectors(i) # {} PROVE \E k \in vectors' : k.id = i
    <2>1. PICK k \in vectors : k.id = i
        BY <1>1 DEF Vectors
    <2>2. CASE i \in Doomed
        BY <1>1, <2>2, DoomedIds, Lives DEF DoomedInv
    <2> QED BY <2>1, <2>2 DEF VectorStep
<1>2. ASSUME NEW i \in Stored', rows'[i].avail = "available", ~Expired(i)'
      PROVE  \E k \in vectors' : k.id = i
    <2>1. Live(i)' /\ i \in Ids
        BY <1>2 DEF Live, Stored
    <2>2. CASE i \in Stored
        <3>1. i <= lastId
            BY <1>0, <2>2 DEF TablesInv
        <3>2. Live(i)
            BY <2>1, <3>1, Lives
        <3>3. \/ rows[i].avail = "available"
              \/ \E w \in Workers : wpc[w] = "available" /\ work[w].job.id = i
            BY <1>2, <2>2 DEF RowsStep
        <3>4. Vectors(i) # {}
            BY <3>2, <3>3 DEF VectorsInv, AvailableHasVector, Live
        <3> QED BY <1>1, <2>1, <3>4
    <2>3. CASE i \notin Stored
        BY <1>2, <2>3 DEF RowsStep, PendingInv
    <2> QED BY <2>2, <2>3
<1>3. ASSUME NEW w \in Workers, wpc'[w] = "available", Live(work[w].job.id)'
      PROVE  \E k \in vectors' : k.id = work'[w].job.id
    <2>1. CASE wpc[w] = "available" /\ work'[w] = work[w]
        <3>1. PICK i \in Ids : i = work[w].job.id
            BY <1>0, <2>1 DEF WorkersInv, Claims, IndexKeys
        <3>2. work'[w].job.id = i /\ i <= lastId
            BY <1>0, <2>1, <3>1 DEF WorkersInv
        <3>3. Live(i)'
            BY <1>3, <3>2 DEF Live, Expired
        <3>4. Live(i)
            BY <3>2, <3>3, Lives
        <3>5. Vectors(i) # {}
            BY <2>1, <3>1, <3>4 DEF VectorsInv
        <3> QED BY <1>1, <3>2, <3>3, <3>5
    <2> QED BY <1>3, <2>1 DEF WorkStep
<1> QED BY <1>2, <1>3 DEF VectorsInv, AvailableHasVector, Vectors

LEMMA SkipsKept ==
    ASSUME IndexTypeInv, IndexTypeInv', SkipsInv, RowsStep, WorkStep
    PROVE  SkipsInv'
<1>0. /\ TablesInv /\ WorkersInv /\ lastId \in Nat
      /\ now \in Nat /\ now' \in Nat /\ now <= now'
    BY DEF IndexTypeInv, TablesInv, RowsStep
<1>1. ASSUME NEW i \in Ids, i <= lastId, ~Live(i) \/ ~rows[i].current
      PROVE  ~Live(i)' \/ ~rows'[i].current
    BY <1>1, Lives
<1>2. ASSUME NEW w \in Workers, wpc'[w] # "idle" PROVE work'[w].at <= now'
    <2>1. CASE work'[w].at = now
        BY <1>0, <2>1
    <2>2. CASE wpc[w] # "idle" /\ work'[w].at = work[w].at
        <3>1. work[w].at \in Nat /\ work[w].at <= now
            BY <1>0, <2>2 DEF WorkersInv, Claims, SkipsInv
        <3> QED BY <1>0, <2>2, <3>1
    <2> QED BY <1>2, <2>1, <2>2 DEF WorkStep
<1>3. ASSUME NEW w \in Workers, wpc'[w] = "skip"
      PROVE  \/ ~Live(work[w].job.id)' \/ ~rows'[work'[w].job.id].current
             \/ EngineOf[w] # work'[w].job.revision
    <2>1. work'[w] = work[w] /\ wpc[w] # "idle"
        BY <1>3 DEF WorkStep
    <2>2. PICK i \in Ids : i = work[w].job.id
        BY <1>0, <2>1 DEF WorkersInv, Claims, IndexKeys
    <2>3. i <= lastId /\ work[w].at \in Nat /\ work[w].at <= now
        BY <1>0, <2>1, <2>2 DEF WorkersInv, Claims, SkipsInv
    <2>4. ~Live(i) \/ ~rows[i].current \/ EngineOf[w] # work[w].job.revision
        <3>1. CASE wpc[w] = "skip"
            BY <2>2, <3>1 DEF SkipsInv
        <3>2. CASE Obsolete(w)
            <4>1. CASE i \in Stored /\ rows[i].expires <= work[w].at
                <5>1. rows[i].expires \in Nat
                    BY <1>0, <4>1, RowOfStored, RowTypes
                <5>2. rows[i].expires <= now
                    BY <1>0, <2>3, <4>1, <5>1
                <5> QED BY <5>2 DEF Live, Expired
            <4> QED BY <2>2, <3>2, <4>1 DEF Obsolete, Live
        <3> QED BY <1>3, <3>1, <3>2 DEF WorkStep
    <2>5. ~Live(i)' \/ ~rows'[i].current \/ EngineOf[w] # work[w].job.revision
        BY <1>1, <2>3, <2>4
    <2>6. work'[w].job.id = i
        BY <2>1, <2>2
    <2> QED BY <2>1, <2>5, <2>6 DEF Live, Expired
<1> QED BY <1>2, <1>3 DEF SkipsInv

LEMMA IndexInvInit == Init => IndexInv
<1> SUFFICES ASSUME Init PROVE IndexInv
    OBVIOUS
<1>1. /\ Stored = {} /\ Pending = {} /\ Doomed = {}
      /\ vectors = {} /\ \A k \in IndexKeys : job[k] = NoJob
      /\ \A w \in Workers : wpc[w] = "idle"
    BY DEF Init, EvidenceInit, Stored, Pending, Doomed
<1> QED BY <1>1, IndexTypeInit, RowTypes
        DEF IndexInv, PendingInv, DoomedInv, NothingDerivedRemains, VectorsInv, SkipsInv,
            AvailableHasVector

LEMMA IndexInvStep == IndexInv /\ [Next]_vars => IndexInv'
<1> SUFFICES ASSUME IndexInv, [Next]_vars PROVE IndexInv'
    OBVIOUS
<1>1. Steps /\ IndexTypeInv'
    BY AllSteps DEF IndexInv
<1>2. PendingInv' /\ DoomedInv' /\ NothingDerivedRemains'
    BY <1>1, PendingKept, DoomedKept, DerivedKept DEF IndexInv, Steps
<1> QED BY <1>1, <1>2, VectorsKept, SkipsKept DEF IndexInv, Steps

(* No derived record outlives its intention, whichever of the statements of  *)
(* slow ingests, corrections, purges, workers and reindexes come in between   *)
(* (NothingDerivedRemains).                                                  *)
THEOREM DerivedGoWithTheRow == Spec => []NothingDerivedRemains
BY IndexInvInit, IndexInvStep, PTL DEF Spec, IndexInv

(* While it has not expired, a version marked available has its vector        *)
(* (AvailableHasVector): a purge deletes the vectors of what has expired only, *)
(* and a worker marks a version whose vector it has written.                 *)
THEOREM AvailableVersionsFound == Spec => []AvailableHasVector
BY IndexInvInit, IndexInvStep, PTL DEF Spec, IndexInv, VectorsInv

(* A job is skipped only for a version that is no longer current, has expired *)
(* or is gone by then, though the worker read the row with an older clock; or *)
(* by a worker of another revision of the model (SkippedIsObsolete).          *)
THEOREM SkippedForGood == Spec => SkippedIsObsolete
<1>1. ASSUME IndexInv, [Next]_vars
      PROVE  [\A k \in IndexKeys : job[k].state # "skipped" /\ job'[k].state = "skipped" =>
                 \/ ~Live(k.id) \/ ~rows[k.id].current
                 \/ \E w \in Workers : /\ wpc[w] = "skip" /\ wpc'[w] = "idle"
                                      /\ work[w].job = k /\ EngineOf[w] # k.revision]_vars
    <2> SUFFICES ASSUME NEW k \in IndexKeys, job[k].state # "skipped", job'[k].state = "skipped"
                 PROVE  \/ ~Live(k.id) \/ ~rows[k.id].current
                        \/ \E w \in Workers : /\ wpc[w] = "skip" /\ wpc'[w] = "idle"
                                             /\ work[w].job = k /\ EngineOf[w] # k.revision
        OBVIOUS
    <2>1. PICK w \in Workers : wpc[w] = "skip" /\ wpc'[w] = "idle" /\ work[w].job = k
        BY <1>1, AllSteps DEF IndexInv, Steps, JobStep
    <2> QED BY <1>1, <2>1 DEF IndexInv, SkipsInv
<1> QED BY <1>1, IndexInvInit, IndexInvStep, PTL DEF Spec, SkippedIsObsolete

(* The versions of a series.                                                 *)
LEMMA PendingTyped ==
    ASSUME IndexTypeInv, NEW p \in Pending PROVE p \in NewRows /\ p.version \in Nat \ {0}
<1>1. \A r \in Requests : pc[r] \in {"unset", "insert"} => req[r].new \in NewRows
    BY DEF IndexTypeInv, RequestsInv
<1>2. \A a \in Admins : apc[a] \in {"clear", "insert"} => adm[a].new \in NewRows
    BY RowTypes DEF IndexTypeInv, AdminsInv
<1>3. p \in NewRows
    BY <1>1, <1>2 DEF Pending
<1> QED BY <1>3 DEF NewRows, RowsOf

LEMMA VersionOfStored ==
    ASSUME IndexTypeInv, NEW i \in Stored
    PROVE  rows[i].version \in Nat \ {0} /\ rows[i].series # None /\ i \in Ids /\ i \in Nat /\ i <= lastId
<1>1. rows[i] \in Rows /\ i \in Ids
    BY RowOfStored DEF IndexTypeInv
<1>2. i \in 1..lastId /\ lastId \in Nat
    BY DEF IndexTypeInv, TablesInv
<1> QED BY <1>1, <1>2 DEF Rows, RowsOf, Ids, None

LEMMA NoTwinsKept ==
    ASSUME IndexTypeInv, IndexTypeInv', NoTwins, RowsStep PROVE NoTwins'
<1> SUFFICES ASSUME NEW i \in Stored', NEW o \in Stored', o # i, rows'[o].series = rows'[i].series
             PROVE  rows'[o].version # rows'[i].version /\ ~(rows'[i].current /\ rows'[o].current)
    BY DEF NoTwins, Series
<1>1. ASSUME NEW k \in Stored, NEW n \in Stored', n \notin Stored, k \in Stored',
             rows'[k].series = rows'[n].series
      PROVE  rows'[k].version # rows'[n].version /\ ~rows'[k].current
    <2>1. k \in Series(rows'[n].series)
        BY <1>1 DEF RowsStep, Series
    <2>2. rows[k].version # rows'[n].version /\ ~rows[k].current
        BY <1>1, <2>1 DEF RowsStep, Accepts
    <2> QED BY <1>1, <2>2 DEF RowsStep
<1>2. CASE i \in Stored /\ o \in Stored
    <2>1. /\ rows'[i].series = rows[i].series /\ rows'[o].series = rows[o].series
          /\ rows'[i].version = rows[i].version /\ rows'[o].version = rows[o].version
          /\ (rows'[i].current => rows[i].current) /\ (rows'[o].current => rows[o].current)
        BY <1>2 DEF RowsStep
    <2> QED BY <1>2, <2>1 DEF NoTwins, Series
<1>3. ~(i \notin Stored /\ o \notin Stored)
    BY DEF RowsStep
<1> QED BY <1>1, <1>2, <1>3

LEMMA BelowKept ==
    ASSUME IndexTypeInv, IndexTypeInv', RowsStep, 1..lastId' \subseteq Stored', NEW s, NEW v, Below(s, v)
    PROVE  Below(s, v)'
<1>1. lastId \in Nat /\ lastId' \in Nat /\ lastId <= lastId' /\ \A o \in Stored : o \in 1..lastId
    BY DEF IndexTypeInv, TablesInv, RowsStep
<1>2. \A o \in Stored : o \in Stored'
    BY <1>1
<1>3. \A o \in Series(s) : o \in Series(s)' /\ rows'[o].version = rows[o].version
    BY <1>2 DEF Series, RowsStep
<1> QED BY <1>3 DEF Below

LEMMA HistoryKept ==
    ASSUME IndexTypeInv, IndexTypeInv', PendingInv, HistoryInv, RowsStep, PendingStep
    PROVE  HistoryInv'
<1> SUFFICES ASSUME 1..lastId' \subseteq Stored'
             PROVE  /\ \A i \in Stored' : Below(rows[i].series, rows[i].version)'
                    /\ \A p \in Pending' : Below(p.series, p.version)'
                    /\ \A i \in Stored' : \A o \in Stored' \ {i} :
                          rows'[i].current /\ rows'[o].series = rows'[i].series =>
                              rows'[o].version < rows'[i].version
    BY DEF HistoryInv, Current, Series
<1>1. lastId \in Nat /\ lastId' \in Nat /\ lastId <= lastId' /\ \A o \in Stored : o \in 1..lastId
    BY DEF IndexTypeInv, TablesInv, RowsStep
<1>2. \A o \in Stored : o \in Stored'
    BY <1>1
<1>3. 1..lastId \subseteq Stored
    <2> SUFFICES ASSUME NEW i \in 1..lastId PROVE i \in Stored
        OBVIOUS
    <2>1. i \in Stored' /\ i # lastId + 1
        BY <1>1
    <2> QED BY <2>1 DEF RowsStep
<1>4. /\ \A i \in Stored : Below(rows[i].series, rows[i].version)
      /\ \A p \in Pending : Below(p.series, p.version)
      /\ \A i \in Current : \A o \in Series(rows[i].series) \ {i} : rows[o].version < rows[i].version
    BY <1>3 DEF HistoryInv
<1>5. \A s, v : Below(s, v) => Below(s, v)'
    BY BelowKept
<1>6. \A s : Below(s, 1)
    BY DEF Below
<1>7. ASSUME NEW i \in Stored' PROVE Below(rows'[i].series, rows'[i].version)
    <2>1. CASE i \in Stored
        BY <1>4, <1>7, <2>1 DEF RowsStep
    <2>2. CASE i \notin Stored
        <3>1. PICK p \in Pending : /\ rows'[i].version = p.version
                                   /\ p.series # None => rows'[i].series = p.series
            BY <2>2 DEF RowsStep
        <3> QED BY <1>4, <1>6, <3>1 DEF PendingInv
    <2> QED BY <2>1, <2>2
<1>8. ASSUME NEW i \in Stored' PROVE Below(rows[i].series, rows[i].version)'
    <2>1. PICK s, v : s = rows'[i].series /\ v = rows'[i].version
        OBVIOUS
    <2>2. Below(s, v)'
        BY <1>5, <1>7, <2>1
    <2> QED BY <2>1, <2>2 DEF Below
<1>9. ASSUME NEW p \in Pending' PROVE Below(p.series, p.version)'
    <2>1. ASSUME NEW i \in Stored, p.series = rows[i].series, p.version = rows[i].version + 1
          PROVE  Below(p.series, p.version)
        <3> SUFFICES ASSUME NEW v \in 1..(p.version - 1)
                     PROVE  \E o \in Series(p.series) : rows[o].version = v
            BY DEF Below
        <3>1. rows[i].version \in Nat
            BY VersionOfStored
        <3>2. CASE v = rows[i].version
            BY <2>1, <3>2 DEF Series
        <3>3. CASE v # rows[i].version
            <4>1. v \in 1..(rows[i].version - 1)
                BY <2>1, <3>1, <3>3
            <4> QED BY <1>4, <2>1, <4>1 DEF Below
        <3> QED BY <3>2, <3>3
    <2>2. Below(p.series, p.version)
        BY <1>4, <1>6, <2>1 DEF PendingStep, Fresh
    <2> QED BY <1>5, <2>2
<1>10. ASSUME NEW i \in Stored', NEW o \in Stored', o # i, rows'[i].current,
              rows'[o].series = rows'[i].series
       PROVE  rows'[o].version < rows'[i].version
    <2>1. CASE i \in Stored /\ o \in Stored
        <3>1. /\ rows'[i].series = rows[i].series /\ rows'[o].series = rows[o].series
              /\ rows'[i].version = rows[i].version /\ rows'[o].version = rows[o].version
              /\ rows[i].current
            BY <1>10, <2>1 DEF RowsStep
        <3> QED BY <1>4, <1>10, <2>1, <3>1 DEF Current, Series
    <2>2. CASE i \in Stored /\ o \notin Stored
        <3>1. i \in Series(rows'[o].series) /\ rows[i].current
            BY <1>10, <2>2 DEF RowsStep, Series
        <3>2. Accepts(rows'[o])
            BY <2>2 DEF RowsStep
        <3> QED BY <3>1, <3>2 DEF Accepts
    <2>3. CASE i \notin Stored /\ o \in Stored
        <3>1. o \in Series(rows'[i].series) /\ rows'[o].version = rows[o].version
            BY <1>10, <2>3 DEF RowsStep, Series
        <3>2. \A k \in Series(rows'[i].series) : rows[k].version # rows'[i].version
            BY <2>3 DEF RowsStep, Accepts
        <3>3. rows[o].version \in Nat /\ rows'[i].version \in Nat /\ rows'[i].version >= 1
            <4>1. PICK p \in Pending : rows'[i].version = p.version
                BY <2>3 DEF RowsStep
            <4>2. rows'[i].version \in Nat \ {0}
                BY <4>1, PendingTyped
            <4> QED BY <2>3, <4>2, VersionOfStored
        <3>4. ~(rows'[i].version < rows[o].version)
            <4> SUFFICES ASSUME rows'[i].version < rows[o].version PROVE FALSE
                OBVIOUS
            <4>1. rows'[i].version \in 1..(rows[o].version - 1)
                BY <3>3
            <4>2. Below(rows'[i].series, rows[o].version)
                BY <1>4, <2>3, <3>1 DEF Series
            <4> QED BY <3>2, <4>1, <4>2 DEF Below
        <3> QED BY <3>1, <3>2, <3>3, <3>4
    <2>4. ~(i \notin Stored /\ o \notin Stored)
        BY <1>10 DEF RowsStep
    <2> QED BY <2>1, <2>2, <2>3, <2>4
<1> QED BY <1>8, <1>9, <1>10

LEMMA VersionsInit == Init => VersionsInv
<1> SUFFICES ASSUME Init PROVE VersionsInv
    OBVIOUS
<1>1. Stored = {} /\ Pending = {}
    BY DEF Init, EvidenceInit, Stored, Pending
<1>2. Current = {}
    BY <1>1 DEF Current
<1> QED BY <1>1, <1>2 DEF VersionsInv, PendingInv, NoTwins, HistoryInv

LEMMA VersionsStep == IndexTypeInv /\ VersionsInv /\ [Next]_vars => VersionsInv'
<1> SUFFICES ASSUME IndexTypeInv, VersionsInv, [Next]_vars PROVE VersionsInv'
    OBVIOUS
<1>1. Steps /\ IndexTypeInv'
    BY AllSteps
<1> QED BY <1>1, PendingKept, NoTwinsKept, HistoryKept DEF VersionsInv, Steps

(* A series has one current version at most and its versions have numbers of  *)
(* their own; as long as nothing has been purged the current version has the  *)
(* highest, whatever corrections and ingests read before they wrote           *)
(* (CurrentIsLatest).                                                        *)
THEOREM CurrentVersionIsLatest == Spec => []CurrentIsLatest
<1>1. VersionsInv => CurrentIsLatest
    <2> SUFFICES ASSUME VersionsInv, NEW i \in Current, NEW o \in Series(rows[i].series) \ {i}
                 PROVE  /\ ~rows[o].current /\ rows[o].version # rows[i].version
                        /\ 1..lastId \subseteq Stored => rows[o].version < rows[i].version
        BY DEF CurrentIsLatest
    <2>1. i \in Stored /\ rows[i].current
        BY DEF Current
    <2> QED BY <2>1 DEF VersionsInv, NoTwins, HistoryInv
<1>2. IndexTypeInv /\ VersionsInv /\ [Next]_vars => (IndexTypeInv /\ VersionsInv)'
    BY IndexTypeStep, VersionsStep
<1> QED BY <1>1, <1>2, IndexTypeInit, VersionsInit, PTL DEF Spec
=============================================================================
