# TrackAI verification project

TrackAI observes how AI-assisted code travels from a commit through a pull
request to a deployment, and signs what it observed into a hash chain that is
anchored in public services (Attesta). This directory holds TLA+ models of the
parts of TrackAI where interleavings, crashes, retries and expiring leases
decide whether that record is right; the TLC configurations that check them on
small instances; and theorems, proved with TLAPS, that hold for every value of
the constants.

All source paths below are under `src/`; `attesta/`, `scm/` and so on are short
for `src/apps/api/src/features/attesta/` etc.

- [The system](#the-system)
- [The modules](#the-modules)
- [What is checked](#what-is-checked)
- [What is proved](#what-is-proved)
- [Findings](#findings)
- [What is not modelled, and the plan](#what-is-not-modelled-and-the-plan)

## The system

### Components, and what makes each correct

| Component | State | Operations | Correct when | Here |
|---|---|---|---|---|
| SCM webhook receiver (`scm/scm.routes.ts`, `provider-delivery-store.ts`, `provider-event.ts`) | `provider_event_deliveries` (status, lease), `provider_projection_cursors`, projections | claim, project, enrich, complete, release, retry by the provider | a delivery is projected once, projections never go back in time, an acknowledgement is final | `ProviderDelivery` |
| Attesta outbox and builder workers (`attesta/outbox.ts`, `worker.ts`) | `attesta_subjects` (status, attempts, claimed_at, not_before) | enqueue, recover, claim, build, release, requeue | every queued row ends done or visibly failed; no worker acts on a claim it has lost | `AttestaLedger` |
| Attesta ledger (`attesta/ledger.ts`, its SQL guards) | `attesta_records`, `attesta_envelopes`, `chain_head` | chain a statement | no gap or fork; every statement names its predecessors; one statement per row | `AttestaLedger` |
| Attesta anchoring worker (`attesta/anchor-worker.ts`, `anchor-dual.ts`) | `attesta_anchor_batches`, `attesta_anchors` | plan, submit to Rekor and a time authority, record | the batches tile the chain; a batch is anchored in both services or in none | `AnchorWorker` |
| Anchor resume CLI (`attesta-anchor-resume-cli.ts`, `drizzle/0021`) | `attesta_anchor_resumes` | lift a stop | one resume per terminal failure | `AnchorWorker` |
| Statement builder (`attesta/builder.ts`) | none (one snapshot) | read facts, build a predicate | a projection of the snapshot | its two reads that can go stale, in `AttestaLedger` |
| Audit and security-findings seals (`audit-seal-service.ts`, `security-seal-service.ts`) | `security_audit_events`, `security_findings`, the seal tables | plan a window, sign, chain | windows are contiguous; every row is sealed once | `AuditSeal`, `SecuritySeal` |
| Evidence packs, period reports, audit exports (`evidence-pack-service.ts`, `period-report-service.ts`, `features/audit/export-service.ts`) | job rows with leases, pack files | request, claim, build, finish, clean up | a job ends once, with the file or the statement of the run that ended it | `ExportJobs` |
| Security settings, bundles, leases, acknowledgements (`security/`) | versioned settings, `security_activation_leases` | publish, issue a lease, acknowledge | no lease is stored or served for settings that have been replaced | `SecurityLease` (no acknowledgements) |
| Evidence and semantic worker (`evidence/service.ts`) | events, contents, intentions, `evidence_semantic_jobs`, vectors | ingest, correct, purge; take a job, embed, complete, reindex | one current version; nothing derived outlives what it derives from | `EvidenceIntentions`, `SemanticIndex` |
| SCM lifecycle and GitHub client (`scm/lifecycle-service.ts`, `github-app.ts`) | commits, snapshots, memberships of pull requests, merge lineage | record what GitHub lists for a pull request; record what a merge merged | overlapping webhooks leave members that one of them was listed; a merge's sources were in the pull request | `PullRequestCommits` (memberships and sources) |
| Telemetry ingest and lifecycle rebuild (`telemetry/service.ts`) | metric batches and events, commits and their reachability | ingest, normalise, reconcile, rebuild | the order of arrival does not decide what is reachable | `CommitLifecycle` |
| Trust inventory, resolver and trust documents (`trust-inventory.ts`) | signing keys, key set documents | register, activate, replace, retire, revoke, publish | a published key set never contradicts the inventory; the next one can follow it | `TrustKeys` |
| Merkle trees (`merkle.ts`), DSSE, canonical JSON | none | root, path, verify; encode | a path verifies for its member only | `MerkleProofs` (no encodings) |
| Chain and offline verification (`verify-chain.ts`, `offline-verifier.ts`) | none | verify | accepts every honest ledger and no altered one | not modelled |
| Security findings ingest, fleet heartbeats | findings, fleet states | idempotent upserts | a batch counts once | not modelled |
| Machines, repositories, GitHub App (`core/security/`) | credentials and versions | register, rotate, revoke | old and new credentials overlap as intended | not modelled |
| Operations (`core/operations/`) | export jobs, retention runs | export, retain | states move forward | not modelled |
| Signers, QA answerers, admin routes, read APIs, GitHub check publisher, web console | none, or rows written by others | single inserts and reads | - | not modelled |

`PROJECT.json` lists every component with its files and status.

### How they interact

A provider's webhook is a delivery. Its request claims the delivery, and in one
transaction applies the projection (a pull request, branch or deployment) and,
when the pull request was merged, queues a `pr_merged` row in the Attesta
outbox. Outside the transaction it enriches the delivery with calls to the
provider, which record the commits of its pull request and of a merge; a
successful production deployment queues a `deployed` row there.
Telemetry ingest queues `commit_observed` rows the same way. Builder workers,
any number of processes, take rows from the outbox, build a statement from one
read snapshot, have it signed over the network, and append it to the tenant's
hash chain in a single ledger transaction that re-checks everything the
signature depended on. Anchoring workers cut the chain into batches and anchor
each batch root with two outside services; the published key sets of the tenant
say under which keys its statements verify. Seals of the audit trail and of the
security findings, and period reports, are statements on the same chain.
Telemetry and evidence are stored as they come and projected by requests,
reconcilers and a semantic worker. Nothing is passed in memory: all interaction
is through PostgreSQL rows, row locks and guards (triggers).

### What is hard

- **Leases, not locks.** A builder's claim and a webhook's delivery lease
  outlive no transaction; their holder may be slow rather than dead, and comes
  back after another has taken over.
- **Network calls between two transactions.** Signing, anchoring and
  enrichment run with no lock held; what was read before may be stale after.
- **Two steps that look like one.** Recovery of expired claims is two
  statements; a wait takes an attempt back after the claim has spent it, while
  attempts is half of the claim's identity.
- **Lost answers.** A commit may succeed and its caller never know.
- **An adversarial order.** Webhooks are redelivered, duplicated and reordered;
  records of overlapping anchoring passes commit in any order. Audit rows carry
  the time at which their transaction began and appear when it commits. Metric
  events of one branch arrive in any order and in parallel.
- **Several statements, one intent.** Evidence is ingested, corrected and purged
  statement by statement; a batch of metrics is stored before its events and
  its events before their effects.
- **Progress.** Rows wait for other rows; batches that fail wait for an
  operator; limits on what one pass reads can crowd out what would make
  progress.

`PROJECT.json` lists these hazards line by line, each with the property that
covers it or the reason why none does yet.

## The modules

| Module | What it is |
|---|---|
| `AttestationLog` | abstract: every observation is attested at most once, in one append-only log, with its predecessors, or visibly abandoned |
| `AttestaLedger` | outbox, builder workers and hash chain; implements `AttestationLog` |
| `AttestaLedgerProofs` | seven theorems about `AttestaLedger` |
| `ChronologicalStore` | abstract: every delivery is decided once, old evidence never overwrites new |
| `ProviderDelivery` | the webhook receiver and its delivery store; implements `ChronologicalStore` |
| `ProviderDeliveryProofs` | seven theorems about `ProviderDelivery` |
| `AnchoredLog` | abstract: a log is cut into ranges in order, and a range is proven as a whole, once |
| `AnchorWorker` | anchoring passes, the anchor tables' guards, the resume CLI; implements `AnchoredLog` |
| `AnchorWorkerProofs` | five theorems about `AnchorWorker` |
| `EvidenceIntentions` | events, contents and versions of intentions: ingest, correction, purge |
| `SemanticIndex` | the semantic worker, its jobs and vectors, the reindex; extends `EvidenceIntentions` |
| `SemanticIndexProofs` | five theorems about both |
| `AuditSeal` | the audit trail and the windows that seal it |
| `SecuritySeal` | the same windows over security findings, with their own cadence; extends `AuditSeal` |
| `SealProofs` | two theorems, one about each of them |
| `ExportJobs` | evidence packs, audit exports and period reports: job rows, leases, files |
| `SecurityLease` | published settings and the leases that are issued for them |
| `PullRequestCommits` | the commits of a pull request as its webhooks record them, and the sources of its merge |
| `ServiceProofs` | two theorems about `ExportJobs`, three about `SecurityLease`, four about `TrustKeys`, two about `PullRequestCommits` |
| `CommitLifecycle` | metric events of a branch and the reachability of its commits |
| `CommitLifecycleProofs` | four theorems about `CommitLifecycle` |
| `TrustKeys` | a tenant's statement keys, its key sets, the records signed with them |
| `MerkleProofs` | trees, paths and the loop that checks a path |
| `MerkleTheorems` | one theorem about `MerkleProofs` |
| `MC*` | small instances for TLC |

The ledger, the receiver and the anchoring worker write to one another's tables
at one point each, and every such point is an action of the module that owns the
guard: the receiver's enqueue is `Enqueue` of the ledger, chaining is `Chain` of
the anchoring worker. `SemanticIndex` is composed with `EvidenceIntentions`, with
which it shares rows. `PullRequestCommits` is what `ProviderDelivery` takes as the one
step `Enrich`; it and the other parts share no state, so `MCServices` checks them
in one run: a behaviour of `MCSpec` is a behaviour of one of them, chosen in the
first state, and the variables of the others keep their initial values.

Each component module has one action per statement or transaction of the code:
a step of the model is what the database makes atomic. Definitions whose
comment begins with `Mutant` are single-fault variants of the definition that
follows them; they are used to make sure that each property can fail.

### AttestaLedger

| Model | Code |
|---|---|
| `status`, `attempts`, `due`, `expired`, `created` | columns of `attesta_subjects`; `due` is `not_before <= now()`, `expired` is a claim older than the lease |
| `Enqueue` | `enqueueAttestaSubject`; a `pr_merged` row is not due for five minutes |
| `RecoverFail`, `Recover` | the two updates of `recoverExpired`, each with its own `now()` |
| `Claim` | `claimDue`: the oldest due rows, `FOR UPDATE SKIP LOCKED`, attempts + 1 |
| `Build`, `BuildWaits`, `BuildFails` | the snapshot reads of `builder.ts` (earlier statements; `waitForEarlierKinds`), signing, and their failures |
| `ChainCommit`, `ChainLost`, `ChainRefused` | `chainStatement`: claim re-check, previous re-check under the chain lock, append, head, done mark |
| `ReleaseRetry`, `ReleaseFail`, `ReleaseLost` | `release`, guarded by (claimed, attempts) |
| `LeaveClaimed`, `Crash` | an unexpected error; a process that dies |
| `Requeue` | `requeueFailedSubjects`: failed rows with one error code, together |
| `records`, `head` | `attesta_records`, `chain_head`; a hash is the sequence of bodies it covers |

The claim token of the code is (`claimed_at`, `attempts`). The model keeps
attempts only, the weaker half: if fencing holds with it, it holds with both.

### ProviderDelivery

| Model | Code |
|---|---|
| `ClaimNew`, `Acknowledge`, `InProgress`, `ReadClaimable`, `Process`, `Resume`, `TakeLost` | `claimProviderDelivery`: insert, read back, classify, compare-and-swap |
| `Suppress`, `Project`, `ProjectFails` | `projectProviderDelivery` under the cursor's row lock, with the callback's `pr_merged` row |
| `Enrich`, `EnrichFails` | the provider calls after it, with the `deployed` row |
| `Complete`, `CompleteFails` | `completeProviderDelivery` |
| `Release`, `ReleaseFails` | `releaseProviderDeliveryForRetry`, then 503 |
| `Expire`, `Crash` | five minutes pass; the process dies |
| `AnswerIfHeard`, and `heard` in `Project` | the commit succeeded but the connection broke: the request continues on its error path |

### AnchorWorker

| Model | Code |
|---|---|
| `Chain`, `Wait` | the chain grows; `partialAfterMs` passes for a record |
| `Plan` | `planTenant` over one snapshot: due retries, then new batches, up to the limit; incomplete batches are read stopped last, at most `ListLimit` |
| `Submit` | `DualAnchor.anchor`: Rekor first, then the time authority |
| `RecordAnchored`, `RecordFailed`, `Superseded` | `record`: the batch insert with its contiguity guard (ATA01), rows with `ON CONFLICT DO NOTHING`, the failed row |
| `CoolDown` | the backoff of a failed batch |
| `Resume` | the guarded insert of `attesta:anchor-resume` |
| `Abandon` | a crash between two steps |

A failure row carries `epoch`, the number of resumes there were when its
transaction began: the code compares the failure's `created_at`, which is the
start of its transaction, with the latest resume.

### EvidenceIntentions and SemanticIndex

| Model | Code |
|---|---|
| `InsertEvent`, `ReadIntention`, `UnsetCurrent`, `InsertIntention`, `EnqueueNew` | one evidence of a batch: `on conflict do nothing`, the series' current version, the update that unsets it, the insert under its unique keys, the job |
| `ReadSeries`, `ClearSeries`, `InsertCorrection`, `EnqueueCorrection` | an explicit correction |
| `PurgeContents`, `PurgeVectors`, `PurgeJobs`, `PurgeRows`, `PurgeRefused` | `purgeExpiredEvidence`, one statement each; the last may be refused by the foreign key of `supersedes` |
| `CrashRequest`, `CrashAdmin`, `Tick` | death between two statements; time passes |
| `Claim`, `ReadJob`, `Skip`, `WriteVector`, `MarkAvailable`, `Complete` | a job of `processNextSemanticJob`; its last updates name job and intention by id only |
| `Fail`, `MarkUnavailable`, `CrashWorker`, `LockExpires` | an error counts an attempt, a death does not; five minutes pass |
| `BeginReindex`, `ReindexJob`, `ReindexPending` | `enqueueSemanticReindex` |
| `EngineOf`, `Revisions`, `IndexKeys` | `TRACKAI_BGE_REVISION` of each process; jobs and vectors have a version and a model revision as their key |

A worker claims jobs of any revision and finds out afterwards: `Obsolete` has the
disjunct on the engine's revision beside those on the version's expiry and currency.
Which revision a request or a reindex writes into its job is its process's own, hence any.

### AuditSeal and SecuritySeal

| Model | Code |
|---|---|
| `BeginWrite`, `CommitWrite` | a transaction that writes an audit row; `occurred_at` is its start |
| `PlanSeal`, `PassEnds` | the planned window: the previous seal's end, the settle cutoff, the cap on rows, the cadence |
| `BeginChaining`, `ChainSeal`, `Stale`, `GiveUp` | the signature; the chaining transaction, which re-checks the previous seal; a failure |
| `PlanSecuritySeal`, `ChainSecuritySeal` | the same for findings, with `--now`, and the backlog that goes on in the same pass |

### ExportJobs

| Model | Code |
|---|---|
| `Post`, `CreateOrGet` | a request with an idempotency key: replayed, refused at the limit, or a new job |
| `ClaimJob`, `LeaseEnds` | the claim with attempts + 1; ten minutes pass |
| `Build`, `BuildFails` | reads, and the file, whose name holds the attempt |
| `FinishPack`, `FinishReport`, `RebuildReport`, `FinishFails` | the guarded update that ends the job; for a report in one transaction with its statement; an answer that is lost |
| `RemoveFile`, `FinishFailed`, `RunCrashes` | the catch block; a death |

### SecurityLease

| Model | Code |
|---|---|
| `ReadRules`, `ReadData`, `ReadBundle`, `Apply`, `PublishFails` | publishing: reads outside a transaction, the signed bundle, the locked re-read and write |
| `BeginFetch`, `SeeData`, `SeeBundle`, `SeeNewest` | a fetch reads the settings in two reads, and may reuse the newest lease |
| `StoreLease`, `Restart`, `EndFetch` | the decision under the locks after signing: store, serve another fetch's, or start again (three rounds) |

### CommitLifecycle

| Model | Code |
|---|---|
| `StartUpload`, `RepeatUpload`, `StoreEvent`, `NextStored` | a batch is stored, then its events; a retry of the batch is answered at once |
| `BeginNormalize`, `FindSiblings`, `AbandonSiblings`, `FindReplaced`, `SupersedeReplaced`, `CommitNormalize` | the transaction of one commit event: its reads, its updates with the rows they lock, its end |
| `NormalizeFails`, `SetStatus`, `EndsEarly` | a rollback, the status set after the transaction, a process that stops |
| `StartReconcile`, `StartRebuild`, `Push` | the reconciler over pending events; the rebuild in order of time; a push that makes its commit reachable |
| `InOrder`, `PendingRows` | the reconciler's `ORDER BY created_at` |
| `InOrderOfTime` | the rebuild's sort by `event.t`; events of one second in any order, as the select has none |
| `EventTime`, `CommitTime` | `event.t`, and `committed_at`, which is the metadata's `committedAtSeconds` where there is one: by the first the rebuild sorts, by the second one commit displaces another |

### TrustKeys

| Model | Code |
|---|---|
| `Register`, `PlanChanges`, `RequireAnchored`, `ApplyChanges` | commands on keys: the plan read, the check that no record of the key is left unanchored, the conditional writes |
| `PlanPublish`, `ReadDocuments`, `BeginStore`, `StoreKeySet` | publishing: the key set and its version are read, signed by a slow service, and stored if nothing has changed |
| `SignStatement`, `ChainRecord`, `AnchorRecords` | the builder signs with the active key of the published set, chains; the anchor pass |

`GuardAllows` is the trigger `attesta_trust_keys_update_guard` on the statuses. No action
asks it: that the commands never need it is the property `GuardNeverRefuses`.

### PullRequestCommits

| Model | Code |
|---|---|
| `ListCommits`, `NotListed`, `PushHead` | `listPullRequestCommits`: what GitHub lists at that moment, or no answer; a push in between |
| `ReadMemberships`, `Deactivate`, `AllDeactivated` | the first loop of `recordPullRequestSnapshot`: members read once, those not listed put away one by one |
| `Activate`, `SnapshotRecorded` | its second loop; a webhook of a merge goes on |
| `ReadSources`, `AddSource`, `LineageRecorded` | `recordMergeLineage`: the active members, and a row for each |
| `EnrichmentFails` | an error or a death; the retry is another of `Webhooks` |

`round` is a history variable: the webhooks at work since none was. The properties
speak of it because there is no fence: what a webhook may promise is only in terms of
those it overlapped.

### MerkleProofs

`Mth` and `PathFor` are `merkleRoot` and `inclusionPath`, recursive on the split at
the largest power of two below the size (`Split`, one of the powers `Pow2`). `Claim`,
`Climb` and `Conclude` are `verifyInclusion` and the loop of `rootFromPath` on the bits
of the index; `Lift` is the inner loop, which passes over the levels where the node has
no sibling. A hash is the term that was hashed. `Paths(n)` is what may be claimed in a
tree of n leaves, any sequences of `Nodes`; `data` may be a leaf that the tree does not
have.

## What is checked

| Run | Question | Instance |
|---|---|---|
| `ledger_safety` | is the chain right, is each row attested once, are claims fenced, are kinds in order, is the abstract log implemented? | a commit and the merge of it, 2 workers, 2 attempts, requeues |
| `ledger_live` | does every queued row end, but for the gap of finding 1? | 2 rows, 2 looping workers that may crash, claims at the limit that recovery returns |
| `ledger_limit` | (finding 1) is a claim at the attempt limit failed at recovery? | 2 rows, 2 workers, limit 1 |
| `ledger_starve` | (finding 2) does the row that others wait for always end? | 2 rows, 1 worker, batch of 1 |
| `provider_safety` | is a delivery projected once and in order, are leases fenced, is what is acknowledged complete, is the store implemented? | 5 deliveries under 3 ids, a pull request and a deployment, 3 requests |
| `provider_two_merges` | (finding 3) does every delivery of a merge give an outbox row? | 2 webhooks, one merge |
| `anchor_safety` | do batches tile, is a batch anchored whole, does each resume answer a stop of its own, is the abstract log implemented? | 2 records, 2 processes with batch sizes 1 and 2, 2 resumes |
| `anchor_live` | does every record end anchored or visibly stopped? | 3 records, 1 process whose plan reads one batch, 1 resume |
| `evidence_index` | does anything derived outlive its intention, is what is marked available there, is only obsolete work skipped, does every job settle? | 2 batches, 1 request, 1 administrator, 2 workers of two model revisions, 2 attempts, 1 stall |
| `evidence_purge` | (finding 4) can a purge always finish? | 2 versions, one of which expires first |
| `services` | are rows sealed once (audit, security); is what a run leaves behind harmless, is a report chained once; is a served lease current, are leases stored in order and without twins; is there at most one current version; is reachability after a rebuild independent of arrival, as far as the times of the events decide it; are key sets never contradicted, and does the keys' guard never have to refuse; do overlapping webhooks agree on the members of a pull request, and is what a merge records among what was listed; do only members verify? | see below |
| `export_lost_answer` | (finding 5) does a ready pack have its file? | 1 pack, 1 run |

In `services`: seals have two writers and two passes over four ticks; exports two
requests, a pack and a report, two runs with two claims each; leases two fetches
and a publisher that publishes twice; evidence three batches, two
requests and an administrator, of which three may begin; commits four of one branch (three on the same base,
one of which rewrites another, one that has another's patch; the times of their
events and of the commits order them differently, and each ties once), two uploads that
overlap in opposite orders, two hands, three starts; keys two of them, two
operators, four commands, the builder and the anchor pass; a pull request three commits, two force-pushes
and two webhooks; trees have one to nine
leaves, and every index and leaf is claimed with every path of the tree, each also
one node short and one node long.

### Bounds, and why they are enough

- **Rows, requests, processes.** Every fault described under "What is hard"
  needs at most two actors and one row they both act on, plus one row for
  "earlier" or "waits for". `ProviderDelivery` has a third request, so that a
  slow holder, its successor and a reader of the successor's lease coexist.
- **`MaxAttempts`** is 1 or 2: what matters is below, at, and above the limit.
- **`LateClaims`** (ledger) is how many attempts beyond `MaxAttempts` a claim
  may still expire between the two statements of recovery; it keeps `attempts`
  finite (the code has no such limit). It is 1 in `ledger_safety`, `ledger_live` and
  `ledger_limit`, and 0 only in `ledger_starve`, whose counterexample needs no
  late claim. A row whose claims always expire in that moment goes back for ever, so
  `EventuallySettled` excepts the rows that recovery has returned at the limit
  (`ReturnedAtLimit`) and those that wait for one: what it promises is that nothing
  else keeps a row from ending.
- **`Requeueable`** (ledger): the rows an administrator may put back, each
  once. Attempts survive a requeue, so a second one shows nothing new. It is
  empty in `ledger_live`, where a requeue is an environment's choice and, as it keeps
  the attempts, leaves one more way to exceed the limit.
- **`Limit`** is 1 where batches smaller than the queue matter, otherwise 2.
- **Requests** are single HTTP requests; a provider's retry is another request.
  When all have ended nothing is left to do, so these runs do not ask for
  deadlock freedom; nor do the runs of evidence and services, whose requests,
  commands and clock ticks are bounded. In the ledger and the anchoring worker
  timers, passes or crashes can always go on, and TLC checks that they can.
- **`MaxRecords`, `MaxResumes`** (anchor): two records give a batch of two
  beside batches of one, hence overlapping and stale plans; two resumes give a
  resume between the two ends of a record transaction. The proofs cover more.
  `anchor_live` has three records in batches of one, so that one is behind a stopped
  batch and another behind both. No batch is partial there: the timer `Wait` decides
  nothing in that run, and is exercised in `anchor_safety`.
- **`ListLimit`** is 1 in `anchor_live`, the smallest, hence the one in which
  stopped batches could crowd out the most.
- **`MaxStalls`** (semantic index): how often a worker may die or outlive its
  lock. One stall gives a worker that writes after its job was taken over.
- **`Revisions`** (semantic index): two in `evidence_index`, one for each worker, so that
  every job is one worker's own and another's to skip; one where no worker runs.
- **`MaxClock`, `MaxSeals`, `MaxSealRows`, `MaxInstantRows`** (seals): four ticks
  with a settle margin of one let a transaction be older than a window's end, and
  three seals with a cap of one row put a window between two others.
- **`MaxBegun`, `MaxIntentions`, `MaxCommands`, `MaxStarted`, `MaxPublished`,
  `MaxTicks`, `MaxLeases`, `MaxClaims`**: how often an actor may begin. Each lets
  two actors overlap in every way and a third action follow.
- **`Listings`** (pull requests): a push that keeps a commit and drops one, and one
  that keeps none of the first list. Two webhooks already interleave the loop that
  removes with the one that adds; with three, TLC found nothing more.
- **`MaxTree`** is 9: sizes on both sides of 2, 4 and 8, so that levels with and
  without a lone last node occur in every combination that has a proof.

Symmetry is used only for sets whose members are interchangeable (workers,
requests, webhooks, the hands of `CommitLifecycle`), and only in runs without liveness
properties.

### Fairness

- **Ledger.** `attesta-build-cli.ts --loop` runs passes for ever, so each
  worker's step is weakly fair, and so are the two timers. A worker may crash
  at any point, even infinitely often; strong fairness of `Recover` and `Claim`
  says only that it does not crash before the claim of every pass it starts.
- **Anchoring.** `attesta-anchor-cli.ts --loop` runs passes for ever: weak
  fairness of passes and timers. Strong fairness of a submission that both
  services accept, and of its record, says that a batch submitted again and
  again is accepted some time; without it nothing could promise an anchor.
- **Semantic worker.** Its loop runs for ever: weak fairness of each worker's
  step, which includes the claim of a job whose lock has run out. Nothing is
  assumed of requests, purges, reindexing or the clock.
- **Webhooks and services.** None: whether a delivery, a seal or a job is ever
  finished depends on the provider, a schedule or a client asking again. Only
  safety is stated.

## What is proved

All proofs are checked by TLAPS (SMT, Zenon, LS4 for the temporal steps). They
hold for any sets of rows, workers, requests, webhooks, deliveries, evidence, keys,
commits and processes, and for any bounds, under the assumptions named in the component
modules. Those only type the constants, with four exceptions:

- `SealAssumption` says `OpenFor <= Settle`: no transaction that writes an audit
  row is open for longer than the settle margin. The code does not enforce it,
  and the theorems about seals say nothing without it (a transaction that is open
  longer puts its row behind a seal). `MinInterval <= EmptyInterval` and
  `MaxInstantRows >= MaxSealRows` are so for the code's defaults.
- `LeaseAssumption` says that a lease lives at least as long as it is reused, as
  the code's constants do.
- `CommitsAssumption` says that commits are numbered so that a commit comes after its
  base and those it rewrites: neither relation has a cycle. Of times it says nothing.
- `RetentionAssumption` and `BatchesAssumption` say that evidence is kept for some
  time, and which batches state their intention.

No fairness is assumed. A theorem states the definition that a run checks, so
that the same formula is evaluated on the small instance and proved for all; every
inductive invariant was checked by TLC too, on instances of the size of the runs'.
Type correctness is a theorem of four modules and a conjunct of the invariants of the
others; only the ledger's, which says that a refund never takes `attempts` below zero, is
repeated by a run.

**AttestaLedgerProofs.** `TypeCorrect`, `ChainAlwaysLinked`,
`PreviousAlwaysComplete`, `AttestedExactlyOnce`, `ClaimsEndByHolder`,
`KindsInOrder`, `LedgerImplementsLog`. The invariants build on each other:

1. `TypeInv`: types, and that a worker past the claim works on a row it has
   claimed with a count above zero (so a refund stays natural).
2. `TokenInv`: two workers never hold the same token of a row, no token is
   above the row's count of attempts, and a token is only held of a queued row.
   This is the heart: a refund takes the count back to a value an earlier claim
   had, and is safe because the worker that gives the row up drops the highest
   token in the same step.
3. `LedgerInv`: the head is the end of the records; done rows and chained rows
   are the same; recorded predecessors are exactly those before.
4. `OrderInv`: once a build found nothing to wait for (a worker at `chain`, and
   every done row), a row it waits for can only be open if it was queued later
   or put back by a requeue.

`LedgerImplementsLog` maps statuses to fates and records to log entries.

**ProviderDeliveryProofs.** `TypeCorrect`, `LeasesFence`,
`AcknowledgedStaysSettled`, `AppliedAlwaysComplete`, `ProjectedExactlyOnce`,
`AlwaysChronological`, `ReceiverImplementsStore`. The invariant is `FenceInv`:
a lease names a request that carries the delivery's evidence and has passed its
claim for good, and a request about to swap a lease has read one that is free,
or held by a request that cannot take it again and expired. That is why the
compare-and-swap on (status, lease) suffices. `EnrichInv`, `OnceInv` and
`ChronoInv` add what has been enriched, that a shown delivery has one entry,
and that the cursor stands for the whole history of its projection.

**AnchorWorkerProofs.** `TypeCorrect`, `BatchesAlwaysTile`,
`AnchoredAlwaysWhole`, `ResumesMatchStops`, `WorkerImplementsLog`. `PassInv`
says that what a pass carries are ranges of chained records and an epoch not
later than now. `EndInv` says that some batch ends after all others, so that
"the next range" is well defined; with the guard it makes tiling inductive.
With the batches apart, a record transaction finds either no row of its range
or all of them (`JobIsEmptyOrWhole`), which gives `AnchoredWhole` and the
refinement.

**SealProofs.** `AuditRowsSealedOnce`, `SecurityRowsSealedOnce`, for the two
next-state relations over the same variables. The invariant is built on the closed
window: one that ends at least the settle margin ago and whose rows are exactly
those of its span. A closed window stays closed, because a transaction that is
still open began after its end. `SealsInv` says that all seals are closed and
contiguous and that nothing older than the last end is outside them; `PlansInv`
that every plan is a closed window that continues the last seal, if it was made
after that one. The re-check of the previous seal in the chaining transaction is
what lets a plan be chained only in that case. The security pass also needs that
an instant with too many rows is sealed alone, as the window of one tick.

**ServiceProofs, ExportJobs.** `StaleRunsHarmless`, `ReportsChainedOnce`. The
claim of the code is the count of attempts, and it never goes down. `ClaimInv`:
two runs never hold the same claim, and none is above the job's count.
`FinishInv`: a run that may still finish with the last claim finds the job
running, and one that is about to remove a file holds an older claim, or did not
hear that it had finished. `FileInv`: a ready job names the file of its last claim.

**ServiceProofs, SecurityLease.** `ServedLeaseIsCurrent`, `LeasesStoredInOrder`,
`LeasesNotTwice`. `StoredInv`: no stored lease is ahead of the settings, and one
of the same data settings has their mode. `FreshInv`: what a fetch has read, if no
publication has overtaken it, is what is published, and every lease issued since it
began is for that. The second half is needed for the lease that another fetch
stored and this one is served instead of its own.

**ServiceProofs, TrustKeys.** `KeySetsTrue`, `KeySetsContinue`, `RetirementsAnchored`,
`UpdatesPassTheGuard`.
`CommandInv` says that what a command has planned moves each key forward from the
standing it has seen, and that the records of a key it takes out of use are
anchored, but for late ones; the conditional writes find the standing seen, so
the inventory only moves forward. `UsedInv`: a key that has signed or was active
is not a new one. Then the inventory always continues the last key set, and every update
is one the table's guard allows.

**ServiceProofs, PullRequestCommits.** `MembersAgree`, `SourcesAreListed`. `WebhookInv`
is the invariant of the two loops, for every webhook at work: while it removes, each
member that nobody in the round was listed is still on its list to remove, and nothing
it was listed is; while it adds, such members are gone, and what all were listed is a
member or on its list to add. `Widens` says what the step of one webhook may do to the
others: what becomes a member was listed to one of them, and what stops being one was
not listed to all. It is all that `OthersKept` needs.

**SemanticIndexProofs.** `IndexTypes`, `DerivedGoWithTheRow`,
`AvailableVersionsFound`, `SkippedForGood`, `CurrentVersionIsLatest`. Two
invariants over the same type invariant. `IndexInv` speaks of what is about to
happen to a row: what a purge has listed has expired and stays so
(`DoomedInv`), what is about to be inserted is marked pending (`PendingInv`), a
worker that will mark a version available has written its vector or the version has
expired (`VectorsInv`), and one that will skip a job has an obsolete version or an engine
of another revision than the job's (`SkipsInv`, with clocks that are at most now). `SkippedForGood`
speaks of the step that sets a job to skipped. The foreign keys with cascade carry
`DerivedGoWithTheRow`. `VersionsInv` speaks of a series: no two versions with one
number or both current (`NoTwins`, from the unique keys alone), and, while nothing
has been purged, every number below a stored or waiting version is taken
(`HistoryInv`), so that a number that is free is the highest.

`HistoryInv` shows the limit of the version numbers. A number is one more than
what was read before the insert: the current version's for an ingest
(`service.ts:122`), the highest of the series for a correction (`:420`). When a
purge deletes a version in between, its number may be given a second time, below one
that was inserted meanwhile. That takes corrections that die between their
statements, one that is purged, and a slow ingest, and is out of reach of the bounds
of `services`; the attempt to prove the order without a condition led to it, and
TLC, led along that behaviour with larger bounds, confirmed it. `CurrentIsLatest`
promises the order of the numbers only while every version is still there, and
the rest always.

**CommitLifecycleProofs.** `DroppedHaveSuccessors`, `AnsweredBatchesStored`,
`RebuildsRepair`, `RebuildsComplete`. `FoundInv` says that what a transaction has found to drop, the
commit it normalises replaces: locks are taken row by row after the read, so this
must hold of what was read, not of the rows as they are. `UploadsInv` says that an
upload has still to do what is not stored of its batch. `RebuildsInv` is a loop
invariant: a rebuild that nothing interferes with has replayed the events before
those left, in some order of their times; they are all known; every one of them is as
those say that followed its own (`Reference`); and what its transaction has found is
everything there is to find. `RebuildsRepair` is that at the end of the list.
`RebuildsComplete` says when this is the best there is: where every event that
supersedes or displaces a commit is later than that commit's own, every commit is as
all events together say. `InOrderLists` is for the reconciler's rows: each is listed
once, and in order.

**MerkleTheorems.** `OnlyMembersAccepted`: for trees of every size and any paths over
any hashes. The tree is built from the root down and a path is checked from the leaf
up, so the two have to be brought to one measure first. `Level` is that: after some
rounds of the loop a node stands for p leaves, p a power of two, from one of its
multiples on, or for those there are (`Width`), and `Node` and `Within` are the root over
those leaves and the path of the claimed leaf among them. `NextNode` says what the next
level is of this one, which is where the split at the largest power of two matters
(`SplitIs`), and `LiftLevels` that the levels without a sibling change nothing.
`MerkleInv` is then: of what the loop has seen, its hash is that of the node it stands at
exactly if the data is the leaf's and the nodes so far are those of `Within`, and it has
seen as many. `TopLevel` concludes at the root; `PathGrows`, that below the root the path
is not complete, is why one that is too short is refused. That the recursive functions
satisfy their equations (`Pow2Def`, `MthDef`, `PathForDef`, `LiftDef`), and what they
return, is proved by induction over the size, stated once for sets of numbers
(`Induction`, from the well-foundedness of `<`).

**Only model-checked.** `EventuallySettled`, `EveryRecordSettles` and
`EveryJobSettles`: liveness under fairness is out of the prover's reach.
`RecoveryFailsAtLimit`, `WaitedForSettles`, `EveryMergeDeliveryQueued`,
`PurgeCanFinish` and `ReadyHasFile` are false of the code (see below).
All other properties of the runs are stated by a theorem.

## Findings

1. **Recovery can return a claim at the attempt limit** (`ledger_limit`).
   `worker.ts:14` says that a claim that outlives its lease with its attempts
   at the limit is failed at recovery. Recovery is two statements, each with
   its own clock (`worker.ts:155`, `:161`); a claim that expires between them
   meets only the second, which puts it back. The row gets one more attempt
   than the limit each time.
2. **Waiting rows can starve the row they wait for** (`ledger_starve`).
   `worker.ts:18-19` says that the row a waiting row waits for always ends.
   Rows are claimed oldest first, up to a limit, and a wait is free of charge;
   when a full batch of older rows waits, the younger row they wait for is
   never claimed.
3. **A merge delivered twice gives one outbox row** (`provider_two_merges`).
   `docs/contracts/attesta/outbox.md:42` says it gives two. The second
   delivery is not newer than the cursor, is classified `conflict` or
   `duplicate`, and its callback never runs.

4. **A purge can be refused half way** (`evidence_purge`).
   `purgeExpiredEvidence` (`evidence/service.ts:487`) deletes expired versions
   with one statement, which the foreign key of `supersedes_intention_id`
   (`drizzle/0011_plain_xavin.sql:64-66`) refuses while a version that
   supersedes one of them has not expired. The request fails after content,
   vectors and jobs were deleted, and the expired text stays.
5. **The file of a finished pack can be removed** (`export_lost_answer`). When
   the answer of the statement that marks the job ready is lost, the catch block
   of `runEvidencePack` (`evidence-pack-service.ts:557`) removes the file, though
   the job is ready and stays so. The comment at lines 505-506 says that a file
   is removed when the job could not be finished. `runAuditExport`
   (`features/audit/export-service.ts:358`) does the same.

Everything else that was checked holds. Five observations have no run of their own:
a commit that was force-pushed away may become an active member of its pull request
again, when the webhook before the push is still adding what it was listed
(`scm/scm.routes.ts:519`, `lifecycle-service.ts:145-188`), and stays one until
another webhook of the pull request comes, though step 3 of `TASK2_RUNBOOK.md:110`
has the operator confirm that it is inactive (what does hold is `MembersAgreed`,
which names the webhooks that overlapped); `docs/plan/CUSTOMER_AUDITOR_QA.md:235`
says that failed normalisation is retried by the reconciler, which selects only
events that are `pending`; a retirement's `revoked_at` is read before the check that
its records are anchored, so a record anchored in between is anchored too late to
verify; a job whose revision is not that of the worker that takes it is skipped for good
(`evidence/service.ts:1020`), so a live, current version that was enqueued under another
`TRACKAI_BGE_REVISION`, or by an API that has none (`:66-68`), is not searchable until
a reindex; and a Merkle path does not say the size of its tree (a path of a tree of
three leaves also verifies with the claimed size four), so the size must come, as it
does, from the batch.

## What is not modelled, and the plan

### Assumptions and abstractions

- **One tenant** everywhere: every query of the modelled code names its tenant,
  except the choice of tenants of an anchoring pass and the builder's claim across
  tenants. Contents are abstract: statement fields, payload parsing, signatures,
  hashes (taken as injective), Rekor and TSA formats.
- **`AttestaLedger`**: rows commit in the order of `created_at`; the code's is the
  start of the enqueuing transaction. `Lineage` is constant: a builder reads the lineage
  rows in its snapshot (`builder.ts:522`, `:586`), and enrichment may record more later;
  what was there when it looked is what `KindOrder` is about. The branch of `chainStatement` for a
  statement that is already chained is left out, as it needs two rows with one
  statement digest.
- **`ProviderDelivery`**: enrichment is one idempotent step. A projection is one step too:
  two first events that race for a missing cursor row are ordered by its insert.
- **`PullRequestCommits`**: one pull request; a list is what GitHub had at one moment
  (the code reads up to three pages). Snapshots, the metadata and the reachability of
  the listed commits, the method of a merge and its lifecycle events are left out.
- **`AuditSeal`**: no transaction that writes an audit row is open for longer than
  the settle margin (`OpenFor <= Settle`). Nothing in the code enforces it: a
  transaction that is open longer puts its row behind a seal, where none will ever
  cover it. More rows of one instant than the cap on a seal's rows stop the
  sealing of the audit trail (the security seals take such an instant alone). A
  seal writes an audit row of its own, so the rule that seals an empty day
  never decides.
- **`SecuritySeal`**: `received_at` of a finding is the clock of the API process, and a
  window's end that of the sealing one (`security-seal-service.ts:47`). The model has one
  clock, as for audit rows: the settle margin must also cover the skew between them.
- **`ExportJobs`**: one limit on open jobs for all; the limit of period reports counts
  every queued report (`period-report-service.ts:401-407`). No property depends on it.
- **`SecurityLease`**: one clock for all servers. Two leases of one instant are
  told apart by their random identifiers, so the order between them is arbitrary.
  Acknowledgements, a machine deactivated during its fetch and a publication that
  changes rules and data at once are left out.
- **`CommitLifecycle`**: one event per commit, with two times of whole seconds that may
  differ and tie (`service.ts:853`, `:668`, `lifecycle.ts:322`); a commit that GitHub
  tells of as well has one `committed_at`, the committer's date, from both
  (`recordPushedCommit`, `lifecycle-service.ts:56-81`). Where the two orders differ, or
  two events tie, a rebuild may replay a sibling after the one that displaces it and
  leave it reachable: `RebuildConverges` promises only what some order of the events'
  times gives. The loop over siblings is one read and one update; the reconciler's delay
  of five minutes and its limit are left out, as is a push that deletes a branch.
  A batch whose upload ended early is answered at its retry, and what it had not
  stored is never stored; `AnsweredIsStored` therefore excepts batches
  whose upload ended early or is still at work. Normalising a superseded commit again,
  or pushing it, makes it reachable until a rebuild.
- **`TrustKeys`**: a locking statement sees the rows as locked and everything else
  as of its start. Platform roots are left out. Of what a key set says of a key, the model
  keeps status and `compromised_since`, and `ChainStaysPublishable` is about that part of
  `forwardOnlyViolation`. Left out are its rules that `issued_at` does not go back
  (`trust-documents.ts:292`), `revoked_at` does not get later (`:287`) and `not_after` not
  longer (`:282`), and the limits of 1000 keys and 1024 documents
  (`trust-contract.ts:248-253`).
- **`EvidenceIntentions`**, **`SemanticIndex`**: sessions, links, summaries and consent are
  left out. The worker also compares the job's content fingerprint with the version's
  (`service.ts:1019`); a version's never changes and its jobs copy it, so they never
  differ. A version is available or not, whatever the revision of its vector, while a
  search reads the vectors of its own engine's revision only (`:877`, `:901`): what
  `AvailableHasVector` promises is a vector, not one for every engine.

### Not modelled

- The acceptance predicate of `verify-chain.ts` and the offline verifier: a pure
  function over a whole export, most of which checks formats and signatures. Its
  chain part restates the guards of `AttestaLedger`.
- Security findings ingest, fleet heartbeats, acknowledgements, the GitHub check
  publisher, credentials of machines, repositories and GitHub Apps, operations
  (exports, retention, monitoring): idempotent upserts and guarded updates of one
  row each; a next step where they are not listed as left out for good.
- Pure reads, CRUD, the web console, signers as network clients and encodings are
  left out for good: they have no state or no order that a model could get wrong.

### Plan

The order of work was by how much of TrackAI's promise rests on a part and how
much concurrency it has. Every safety property that a run checks and the code
fulfils is proved. What is left:

- properties of the three hazards that none covers yet (`PROJECT.json` names them):
  two first events of a projection, evidence that a crash leaves half ingested, a tenant
  whose first batch always fails;
- type invariants of `ExportJobs`, `SecurityLease`, `TrustKeys`, `PullRequestCommits`, `AuditSeal` and
  `CommitLifecycle` are conjuncts of the proved invariants, and have no theorem or
  run of their own;
- acknowledgements of leases and the ingest of security findings, should their
  rules grow beyond one guarded update.
