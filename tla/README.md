# A TLA+ verification of the enterprise RAG backend

The repository is a multi-tenant retrieval-augmented-generation service: a FastAPI
backend (`backend/enterprise_rag`), background workers, PostgreSQL with row-level
security as the source of truth, a message queue, two search indexes (dense and
lexical), an object store, a coordination cache, model providers, and a browser front
end (`web/`). This directory models the parts of it that are concurrent or that must
survive failures, checks them with TLC and proves the central facts with TLAPS.

## 1. Inventory

| Component (source) | State it keeps | Operations | Interacts with | What is hard | What makes it correct |
|---|---|---|---|---|---|
| Transactional outbox, dispatchers (`infrastructure/queue.py`) | `outbox_events` rows: published, poisoned, claim, attempts, available_at | `OutboxService.add`, `dispatch_batch` (claim, publish, mark, fail) | every service adds events in its own transaction; every worker runs a dispatch loop | claims that expire under a slow batch, lost confirmations, crash between publish and mark, counter written back from a snapshot | at-least-once, one final verdict, exact failure counting, every polled event settles |
| Queues (`infrastructure/queue.py`) | pending and unacknowledged messages | publish, consume, ack, nack | outbox, worker | redelivery, duplicates | nothing acknowledged is needed again |
| Worker, task leases (`application/worker.py`, `task_leases.py`) | the claim columns of `ingestion_jobs` | claim, heartbeat, assert_owned, recover_expired, schedule_retry, ack/nack | queue, ingestion, outbox | a lease that expires under a live worker, crash, row locks, late heartbeats | one worker at a time, no stuck row, no lost wake-up |
| Ingestion job (`application/ingestion.py`) | status, stage, attempts, cancellation | submit, process, retry, cancel | worker, API, tenant lifecycle | requests that decide on a row read without a lock; counters rolled back with the attempt | bounded attempts, one effect per request, final cancellation |
| Document versions and generations (`ingestion.py`, `generation_cleanup.py`, `reconciliation.py`) | active version and generation, generation and chunk states, index pointers | publish, restore, rollback, delete, rebuild, clean up, reconcile | both indexes, retrieval | two external pointers moved before the database switch; delete and rebuild racing; delayed cleanup | readers see one complete generation; the last valid one stays served; deleted stays deleted |
| Search adapters, reranking (`infrastructure/search.py`) | chunks with a published flag, or chunks and a pointer; a cached ACL epoch | stage, publish, delete, search | ingestion, retrieval | partial batches, read-modify-write without locks, skipped conflicts | one version shown, deletions last |
| Object store, orphan sweep (`infrastructure/object_store.py`, `application/orphans.py`) | objects | put, get, delete, sweep | upload, worker | a sweep racing an upload that has not committed | no referenced object is deleted |
| Retrieval (`application/retrieval.py`, `security.py`) | none | hybrid search, fusion, rerank, authority check | indexes, database | index answers that are stale against the database | only current, authorised chunks are returned |
| Query and chat (`application/query.py`, `api/chat.py`) | conversations, messages, runs, citations; the cancel registry of a process | ask, stream, cancel, finalize | retrieval, models, quota | disconnects, cancel racing the end of the stream, evidence retired while text is generated | every run ends; no answer after an honoured cancel, on dead evidence, or stitched from two attempts |
| Models (`application/providers.py`) | circuit, rate window, semaphore | complete, stream, embed | query, ingestion | failures in the middle of a stream, several calls sharing the counters | retry before the first token only, counters that agree |
| Quotas, limits, cache (`tenant_configuration.py`, `tenant_limits.py`, `infrastructure/limits.py`, `cache.py`) | usage rows, reservations, rate and concurrency counters | reserve, consume, release, reconcile, invalidate | query, upload | concurrent reservations, stale reconciliation | usage never exceeds the limit, nothing leaks |
| Tenant configuration | versions | draft, activate, roll back | every service | two administrators | exactly one active version, history immutable |
| Membership, lifecycle, bootstrap (`tenant_membership.py`, `tenant_admin.py`, `tenant_bootstrap.py`) | memberships, invitations, tenant state, ACL epoch | invite, accept, change role, suspend, reactivate | identity, ingestion, cache | last administrator, expired invitations, epoch | an administrator remains; revocation takes effect |
| Identity, RLS, secrets | claims, per-connection tenant | authenticate, scope | all | connection reuse | no cross-tenant row |
| Audit (`audit.py`) | hash chain per tenant | append, verify | all | two transactions chaining to one predecessor | one chain |
| Knowledge spaces, data sources (`knowledge.py`) | spaces, grants, sources | create, set state, grant | retrieval, quotas | revocation against running queries | scope changes take effect |
| Assistants, configuration (`assistants.py`, `configuration.py`) | assistant versions, policy versions, provider profiles | draft, validate, activate, roll back | knowledge, query | two administrators, policies replaced under a version | one unbroken trail of activations; a version keeps its policy |
| Evaluation (`evaluation.py`, `api/evaluation.py`) | datasets, runs, gates, overrides | create, run, judge, override | query, assistants | long runs beside activations, one failing item | a run is whole and about one version; a gate means what it says |
| Parsers, telemetry, health, migrations, scripts | none relevant | | | | |
| Web front end (`web/`) | OIDC login, stream reading | | API | partial frames, aborted streams | |

`PROJECT.json` lists each of these with its modelling status, and under `hazards` the
places where the code is exposed to an ordering, failure or boundary that a test would
hardly reach.

## 2. Modules

| Module | Models | Lines of the code |
|---|---|---|
| `Delivery` | what the outbox promises: accepted, delivered at least once, one final verdict | |
| `Outbox`, `OutboxProofs` | `OutboxService.add` and each transaction of `OutboxDispatcher.dispatch_batch` | `infrastructure/queue.py` |
| `IngestionJob`, `IngestionJobProofs` | one `ingestion_jobs` row with the workers, leases, requests and messages around it | `ingestion.py`, `worker.py`, `task_leases.py` |
| `Publication`, `PublicationProofs` | one document: its versions, generations and chunks, both indexes, and what moves them | `ingestion.py`, `generation_cleanup.py`, `retrieval.py` |
| `SearchIndex`, `SearchIndexProofs` | the four adapters request by request, retrieval and reconciliation reading them | `search.py`, `retrieval.py`, `reconciliation.py` |
| `AnswerLedger` | what query rows promise: opened, answered once, announced with the answer | |
| `QueryRun`, `QueryRunProofs` | `execute_stream`, the model gateway, the SSE and cancel endpoints | `query.py`, `providers.py`, `api/chat.py` |
| `TenantControl`, `TenantControlProofs` | one tenant's configuration versions, one quota, one operation's slots | `tenant_configuration.py`, `tenant_limits.py`, `cache.py`, `tenant_admin.py` |
| `TenantAccess`, `TenantAccessProofs` | one tenant's members, groups, invitations, ACL epoch, lifecycle and audit chain | `tenant_membership.py`, `tenant_context.py`, `security.py`, `audit.py` |
| `AssistantRelease`, `AssistantReleaseProofs` | one assistant from draft through evaluation to release | `assistants.py`, `configuration.py`, `evaluation.py` |
| `MC...` | the instances TLC checks | |

The modules meet where one component relies on another: `IngestionJob` delivers messages
the way `Outbox` allows (late, twice); `Publication` opens the phase that `IngestionJob`
treats as one step, and assumes of an index the two calls that `SearchIndex` opens further;
`QueryRun` takes its evidence under the authority check that `SearchIndex` and
`Publication` have, and sees their switches as `Retire`; `AssistantRelease` runs a whole
query as two steps. `map` in `PROJECT.json` gives the source lines of every definition.

### Outbox

A dispatcher claims a batch in one transaction (`Claim`), publishes record by record
outside any transaction (`Publish`), and settles each record in a transaction of its own
(`Mark`, or `Fail` from the `except` branch). `Publish` has the three outcomes a broker
with confirmations has: confirmed, refused, accepted with the confirmation lost.
`MarkRaises` is the marking transaction failing, with or without having committed, which
the code answers by running the `except` branch. `Crash` forgets the batch and leaves the
claims in the table. The clock is two sets: `available` (`available_at <= now`) and
`expired` (`claim_expires_at <= now`). `TopOf` is `ORDER BY priority DESC LIMIT n`; among
equal priorities `created_at` order is left open. `delivered` is the queue's view and is
external to the table.

### IngestionJob

The committed row is `job`. A transaction is what PostgreSQL at READ COMMITTED and
SQLAlchemy make of it: the flush at the start of an attempt takes the row lock (`lock`)
until commit or rollback; a plain `UPDATE` waits for it; `FOR UPDATE SKIP LOCKED` passes
it over; a session keeps the attributes it loaded (`view`, `reqview`) and writes only the
attributes it changed (`Flush`). `cancel` and `retry` are therefore two actions each, a
`SELECT` and a later `UPDATE`. `_check_runtime` is one action per position that matters,
with its three outcomes (`CheckPasses`, `CheckCancelled`, `CheckLost`). Parsing, chunking,
embedding and staging are one phase that can succeed, fail finally or fail transiently.
Messages of one job are interchangeable, so broker and outbox are counters;
`DispatchTwice` is the duplicate `Outbox` allows, and `Poison` the event it gives up: from
then on nothing wakes a worker for the job, which `poisoned` remembers until the job is
queued again with a new event. A crashed worker stays dead, because a
restarted process has a new `worker_id`; `Workers` is the set of incarnations.

The lease is `none`, `valid` or `expired`. It may expire when its owner no longer works on
the job; under a live owner only as `Expiry` says: `"blocked"` when the heartbeat waits
for the row lock of the attempt it should keep alive, `"stalled"` when the event loop
stops. These expiries, crashes, aborts and duplicates share the budget `MaxFaults`.

### Publication

Every attempt creates one generation, so a generation carries the name of its attempt. An
index has the generations with content (`staged`) and those flagged published (`shown`).
Publishing is the adapters' two calls, unpublish the whole document (`Hide`) and publish
the target (`Show`), in the dense index first and then in the lexical one. `Raise`,
`UndoHide` and `UndoShow` are the restoring code of `_process` (both indexes) and of
`rollback_generation` (the indexes already finished).

The documents row is never locked between the `SELECT` of an operation and its commit, so
a session has a `view` and writes back only the attributes it changed (`FlushDoc`;
`autoflush` is off). All database writes of an operation become visible together, in
`Switch`, `CommitFailure`, `RollbackCommit`, `DeleteCommit` or `SweepCommit`. The one thing
that keeps two attempts of a document apart is `UNIQUE(document_id, generation_number)`:
`holder` is the attempt whose generation row is inserted and not committed, and `Insert`
waits for it. An attempt is admitted by the epoch check (`Admit`) and reads the document
only after a flush it awaits (`Load`), so a deletion may commit in between.

A deletion leaves a `document.cleanup` message (`Cleanup`), handled at any later time.
`Readable` is the authority query of retrieval: what it accepts, joined with what an index
returns, is all a reader sees, so the reader properties bound every index answer.
`erased` records the versions that existed when a deletion committed, `crossed` the
generations that a rollback and a sweep were about together, `unrestored` the indexes that
a failed operation left as they were. Failures are chosen per run: `"refuse"` (an index or
a processing step raises), `Torn` (an index fails between its two calls), `"undo"`
(restoring fails), `"abort"` (crash, lost lease, database error).

### SearchIndex

One document, chunk by chunk, in a dense and a lexical index whose adapters are chosen in
`Init` from every pairing the container can be configured with. A call (`Call...`) is a
sequence of requests to the engine. The memory adapters change chunks and pointer at once.
Qdrant updates by filter in the server, one request to hide and one to show. Milvus has no
update: `MilvusQueryAll` reads the rows (`snap`) and `MilvusUpsert` writes all of them
back, deleted ones included. OpenSearch takes a snapshot and writes chunk by chunk, and
skips chunks that changed since (`stale`, from `conflicts=proceed`). Bulk requests may
stage a part and raise. No lock orders the callers, so any two calls overlap. A call that
raises is over: requests that the client gave up on and the engine applies later are left
out (section 7).

A query compiles its scope (ACL epoch, generations), searches both indexes in any order,
each of which may raise, and passes what it found through the authority check (`Judge`) at
a later moment. `Switch` is the committed change of the active generation. A reconciliation
inspects the indexes one after the other.

### QueryRun

A run is the generator `execute_stream`. It commits its row as open (`Admit`), looks at its
cancel event, retrieves, looks again, asks the gateway, streams, looks a last time
(`Gate`), validates its citations (`Validate`) and settles in a second commit. Its session
has `expire_on_commit=False`, so it writes the status without reading it again; so does the
cancel endpoint, in two actions (`CancelRead`, `CancelWrite`). The cancel registry is of one
process, and `Remote` requests are served by another. The gateway's rate window,
semaphore, circuit and retry loop are shared by all runs (`Ask`, `Acquire`,
`ProviderFails`, `StreamEnds`, `Reply`). `stream_events` does not look at the circuit and
`complete` does; both count in it. `CommitRaises`, `Disconnect` (client gone) and `Abandon`
(task cancelled, at an await or at a yield) are the faults.

### TenantControl

Three mechanisms that one administrator's change connects. Configuration requests lock the
tenant row and compare its revision with `If-Match` (`based`). A reservation reads the
quota of the active version, locks the usage row later, and consumes in the same
transaction; a reconciliation counts the rows before it locks. Slots are kept by
`MemoryCoordinationStore` (one step) or by `RedisCoordinationStore` (INCR, DECR and DEL are
steps of their own), deleted by a configuration change, or forgotten by `EXPIRE`. At each
Redis command a request may be interrupted: its process dies, the command fails, or the task
is cancelled, as a disconnect cancels the SSE generator that holds the lease
(`AcquireInterrupted`, `ReleaseInterrupted`). What was incremented for it and is not
decremented any more is a ghost, counted until the key goes.

### TenantAccess

A request resolves its identity in one session (`ReadTenant`, `ReadRoles`: two reads) and
acts in another: read and lock rows, check the last administrator, flush, raise the epoch
under the tenant lock (`Bump`), append to the audit chain (`Record`), commit. Events are
stamped by the host that serves the request, whose clock may be behind by one of `Lags`; the
predecessor and the verification go by these stamps. `held` are
the `FOR UPDATE` locks, `shared` the `FOR KEY SHARE` locks an insert takes on the rows it
refers to. Every operation of `TenantMembershipService` is an `op`; `Fail` is any refusal,
lost connection or deadlock victim. The queries of the check of the last administrator are
one read; a commit while a request makes its check counts as one beside it (`Checking`).

### AssistantRelease

Sessions of administrators, quality users and readers, each with one request at a time and
what that request has read. Version and dataset numbers come from a `max()` read earlier and
are refused when taken. `activate` holds the assistant row `FOR UPDATE` from its first
statement to its commit. `Resolved` is the policy, model and space resolution of a query,
at the time of the query. An evaluation run is one transaction over all its items; an item
runs a query of the version under evaluation.

## 3. Runs

| Run (configuration) | What it checks | Bounds, and why they are enough |
|---|---|---|
| `outbox` (`Outbox.cfg`) | types; exact failure counts; every accepted event is settled; `Delivery` is implemented | two records of different priority, two dispatchers, batches of two, two attempts, two crashes, two claims that expire under their owner: takeovers, late settlements by the old claimant and poisoning all occur. No symmetry: the run checks liveness |
| `job_delivery` | types; only the claimant works; no wake-up lost but by poisoning; cancellation final; the job settles or is left queued by a poisoned event | two workers, one crashable, two attempts, one cancel request, two faults, both kinds of lease expiry, upload and rebuild jobs |
| `job_requests` | one effect per submission or accepted retry | adds a manual retry to the cancel request, and jobs that end as unchanged |
| `pub_concurrent` | types; a reader sees one generation; the sweep spares the active one | three attempts on two versions by two workers, a rollback, a deletion with its cleanup and a sweep, any two of them overlapping, one failure of any kind |
| `pub_serial` | both indexes end on the active generation | four attempts on three versions, a rollback and a sweep, one at a time, two failures: refusals, indexes that fail between the two calls of an attempt or a rollback, restorations that fail. With overlaps, a deletion or an abort the property fails (sections 4 and 6) |
| `query_run` | types; the four answer properties; every run ends; `AnswerLedger` is implemented | a streaming run that is cancelled and a buffered one, a gateway with one permit and one call per minute, a threshold of two failures, one retry, one retired and one unsafe chunk, one fault: the runs wait for each other, exceed the rate, open the circuit and lose it again |
| `tenant_limits` | types; no lost update; quota; slots | two administrators, two configurations (limits 1 and 2), two uploads, a reconciliation, two clients, both stores, one fault (a failed transaction or an interrupted lease): with limits of one, every request that may be one too many exists |
| `tenant_access` | types; epoch; invitations; audit chain; last administrator | two principals, a group, an invitation, every pair of requests out of all eleven operations, from every initial membership, on hosts whose clocks agree or are three ticks behind, when two events are two ticks apart. Each hazard listed needs two requests |
| `search` | types; one version shown; purges last; publications exact; reports sound | two generations of two versions with two chunks each, all six pairings of engines, two callers, three events (calls, switches, reads), one failing request. Two publications and a query, or a publication, a deletion and a reconciliation, overlap completely |
| `release` | types; trail of activations; one policy per version; whole runs; gates | two sessions, two versions, two policies, two activations, one dataset of two items, one run, one change of space or secret |
| `pub_resurrect` | violation of `ErasedUnreadable` | an upload, a rebuild and a deletion, without faults |
| `last_admin` | violation of `AdminRemains` | two administrators who update each other |

`CHECK_DEADLOCK FALSE` stands where a bounded instance ends: all records settled, all
operations or requests over. In the job model the tenant may always change, so a deadlock
would be reported and none is. Symmetry is used in safety runs only, over sets whose
members the constants do not tell apart.

Every property of a passing run has a mutant in `PROJECT.json`: a definition named
"Mutant" in a comment, never used by the specification, that has a plausible mistake of the
code it stands for and breaks the property.

### Properties with an exemption

Some promises hold except through gaps that are in the code. The specification names the
gap in a history variable and the property says that nothing else leads there:

| Property | Exempt when | The gap |
|---|---|---|
| `QuotaHeld` | `escaped` | a reconciliation counts the rows before it locks the usage row (`tenant_configuration.py:403`); a row consumed or restored in between, or restored later, is not in the usage |
| `SlotsHeld` | `dropped` | an activation deletes the counter, `EXPIRE` forgets it, or the `DEL` of a release follows another request's `INCR` |
| `SlotsAccounted` | ghosts, `dropped` | `INCR` and `EXPIRE` (`cache.py:114`) come before the `try` of `tenant_limits.py:45`, and the `DECR` in its `finally` may fail or be cancelled: the slot of a request that is over stays counted. After a deletion of the counter it is less than the requests |
| `QueuedHasWakeup`, `JobSettles` | `poisoned` | an event that used up its publications is poisoned (`queue.py:396`) and nothing replays it |
| `IndexesServeActive` | `unrestored` | `rollback_generation` restores the indexes it has finished (`ingestion.py:1023`), so one that failed between its two calls serves nothing; restoring calls that raise are suppressed (`:773`) |
| `ActiveNotSwept` | `crossed` | the sweep holds no lock between its check (`generation_cleanup.py:91`) and its deletion, and a rollback may activate the generation in between |
| `RunEnds` | `lost` | a task cancelled where `execute_stream` writes no status |
| `EpochGuards` | `rewound` | a recovery has the tenant row loaded, so the locking read does not refresh it and an old epoch is written back |
| `ChainVerifies` | `overlapped`, `backdated` | issuing and revoking invitations append to the chain without the tenant lock; events are stamped by the clock of the host that serves the request (`audit.py:52`), and predecessor (`:48`) and verification (`:105`) go by it |
| `LastAdminGuarded` | `exposed` | `assign_member` and `accept_invitation` have no check; checks of concurrent requests count committed rows, so a commit between the start of a check and the commit of its own change is exempt, and what remains is that each check suffices by itself |
| `OneVersionShown`, `PurgeFinal`, `PublishedExactly` | `mixed` | calls that overlap in one index, for the engines named in the property |

## 4. Known divergences

Two disagreements between the code and a sentence of the repository are runs of the
project, and `PROJECT.json` quotes the sentences:

* `pub_resurrect`: a rebuild queued before a deletion has no epoch check; it republishes
  the deleted content and sets the document active.
* `last_admin`: two administrators demote each other, each check counts the other one.

The following configurations are kept for the others. Each shows the counterexample in
seconds, for instance with `tlc -config Pub_crash.cfg MCPublication`.

| Configuration | Property | What TLC shows, and what it contradicts |
|---|---|---|
| `Job_heartbeat.cfg` | `HeartbeatKeepsLease` | the attempt holds the row lock that its own heartbeat needs (`task_leases.py:96`), so the lease expires under a live worker; the comment at `worker.py:211` and the hardening `design.md:91` want long phases to renew it |
| `Job_retry_lost.cfg` | `JobSettles` | a retry commits while a worker owns the claim (`ingestion.py:1116`); its message misses the claim and is acknowledged, and the job stays queued with no message |
| `Pub_crash.cfg` | `IndexesServeActive` | a crash or lost lease after both indexes were switched and before the commit (`ingestion.py:707`): the database keeps the old generation, the indexes serve one that does not exist; the release evidence says the last valid generation is kept |
| `Pub_sweep.cfg` | `ActiveKept` | a rollback commits between the sweep's check of the active pointer (`generation_cleanup.py:91`) and its deletion |
| `Pub_uploads.cfg` | `ErasedUnreadable` | an upload passes the epoch check (`ingestion.py:537`), a deletion commits while it awaits the flush (`:563`), and it loads the deleted document (`:577`) and sets it active again; `UploadsStayErased` proves that uploads have no other way (section 6) |
| `Query_terminal.cfg` | `OneTerminalStatus` | the cancel endpoint (`chat.py:201`) and the run write the final status over each other; the hardening `design.md:137` wants a conditional update by one actor. The answer itself is safe: `ImplementsLedger` holds |
| `Search_epoch.cfg` | `CurrentScopeAccepted` | the adapters compare the cached epoch with `!=` (`search.py:312`): a scope newer than the cache is rejected, although the comment at `:310` says "has not fallen behind" |
| `Release_gate.cfg` | `PromotedPassesGates` | `activate` never asks for the gate status, and a version must be active before it can be evaluated; the quality specification (`quality-observability/spec.md:52`) forbids the promotion of a version that violates a mandatory gate |

Four statements about jobs have no configuration of their own; each is violated as an
invariant of the configuration named:

| Property | Configuration | Counterexample |
|---|---|---|
| `AttemptsWithinLimit` | `Job_requests.cfg` | `retry()` compares the attempt counter of a row read without a lock; an attempt that ends in between uses up the last attempt |
| `RunningIsRecoverable` | `Job_requests.cfg` | a retry of a job finished as `unchanged` is claimed as `running` and released without a status: no lease, so nothing recovers it |
| `CancelledNotPublished` | `Job_delivery.cfg` | `cancel()` read `running`, the job succeeds, the late `UPDATE` makes it `cancelled` although its generation is active |
| `StartsWithinLimit` | `Job_delivery.cfg` | the attempt counter is rolled back with a crashed attempt, so `max_attempts` does not bound attempts that kill the worker |

## 5. Fairness

`Outbox!Fairness`: each dispatcher's loop keeps taking its steps (`_outbox_loop` runs until
the worker is told to stop, and a worker that dies is restarted by its supervisor), and
the clock passes every deadline. Nothing is assumed of the broker: it may refuse every
message, and poisoning ends the retries.

`IngestionJob!Fairness`: each event is dispatched or poisoned (`EveryEventSettles` of
`Outbox`), the lease loop
of a surviving worker runs, a lease nobody renews expires, backoffs end, and every worker
that is not dead takes its next step. Cancel and retry requests, tenant changes, crashes,
aborts and heartbeats are never forced. `MaxFaults` bounds crashes, aborts and expiries
under a live owner.

`QueryRun!Fairness`: the event loop runs every task that can go on, and a provider answers,
fails or times out, as the HTTP client's timeouts make it. Which of these happens is open.
Nothing is assumed of clients, cancel requests, publications or of the rate window, which
may stay full: a refused call ends its run.

No strong fairness is used. The other modules claim no liveness: their requests
end by an answer, an error or a deadlock victim, and only safety is at stake.

## 6. Proofs

All theorems hold for every value of the constants that satisfies the named assumption of
the module (`OutboxAssumption`, `JobAssumption`, `PublicationAssumption`,
`SearchAssumption`, `QueryAssumption`, `ControlAssumption`, `AccessAssumption`,
`ReleaseAssumption`): any number of workers, sessions, requests, versions and chunks. The
assumptions give the constants their types and state what the code's constraints
guarantee, such as positive limits. Every safety invariant that a run checks is a theorem.
Some theorems have a hypothesis besides, and TLC shows that it is needed:

| Hypothesis | Theorems | Without it |
|---|---|---|
| `RetryRequests = {}` | `AttemptsBounded`, `AlwaysRecoverable`, `CancellationFinal`, `NoLostWakeup`, `AttemptsPaidFor` | with a manual retry (`Job_requests.cfg`) the first four are violated |
| that, and `MaxFaults = 0` | `FaultlessStartsBounded` | `Job_delivery.cfg` violates `StartsWithinLimit` (section 4), and one fault is enough for one more start |
| `TakingTurns`, `Deletes = {}`, `Mended` | `RestorationWorks` | violated with two workers, with an overlapping rollback, with a deletion (its delayed cleanup removes what a later upload is publishing) and with a crash (`Pub_crash.cfg`) |
| `UploadsOnly` | `UploadsStayErased` | other ways exist with a rebuild (`Pub_resurrect.cfg`), with a rollback, with two workers and with two overlapping deletions |
| `Cancels = {}`, `MaxFaults = 0` | `OneStatusWithoutCancel` | `Query_terminal.cfg`: a cancel request; a failed commit or an abandoned task does the same |

The inductive invariants were invariants of TLC runs before they were proved: those of
`SearchIndex`, `TenantAccess` and `AssistantRelease` with `Search.cfg`, `Tenant_access.cfg`
and `Release.cfg`, `EffectInv` and `WakeupInv` with the two job configurations, `ServeInv` with
`Pub_serial.cfg`, `SweptInv`, `TurnsInv` and `UploadInv` on instances of
`MCPublication` that satisfy the hypotheses and have overlaps (up to three attempts, two
sweeps, a deletion and every kind of fault), the account of `StartsInv` with
`Job_delivery.cfg`, where the bound of `StartsPaidFor` is reached, and `SettledLast` with
`Query_run.cfg`.

`OutboxProofs`:

* `TypeCorrect`, `NothingLost`, `SingleVerdict`, `ExactAttempts`, `FinalVerdict`, from one
  inductive invariant. The verdict properties are not inductive: that a failing dispatcher
  cannot poison a record another one published needs that settling clears the claim (a
  settled record has no claimant), and that the counter is exact needs that, while a claim
  stands, the snapshot it wrote back equals the row.
* `OutboxImplementsDelivery`: every step of `Outbox` is a step of `Delivery` or a stutter,
  under the identity mapping on the four shared variables. `Mark` needs
  `pc = "mark"` to imply that the queue accepted the record.

`IngestionJobProofs`:

* `JobTypeCorrect` and `ClaimantOnly`, with no restriction. The key conjunct is that the
  row lock is held exactly by the worker inside an attempt. Every other writer waits for
  the lock, so what the first runtime check saw stays true (`LockedRow`).
* `AttemptsBounded`, `AlwaysRecoverable`, `CancellationFinal`, for jobs nobody retries by
  hand (`RetryRequests = {}`). They share
  the inductive invariant `UnretriedInv`: besides the three properties it says that a
  cancelled row has a final status, that the row a session loaded still agrees with the
  committed row in what it will write back (`SessionsFresh`), and that an unchanged job
  stays finished.
* `OneEffect`: `OneEffectPerRequest`, with any retries. The bound on publications is not
  inductive, since a job that is still open may publish once more. `EffectInv` counts that
  as a credit: publications plus the credit of a queued or running job are at most one
  more than the accepted retries. The proof shows that nothing but an accepted retry
  reopens a finished job (`NoReopening`; sessions that reject or skip on an old view write
  a final status or none), that no acceptance is taken back (`AcceptedEffect`), and that a
  publication closes a job that was running (`PublicationEffect`, from `ClaimantOnly`).
* `NoLostWakeup`: `QueuedHasWakeup`, for `RetryRequests = {}`; `Job_retry_lost.cfg` shows
  where a retry loses the wake-up. A worker that finds the job unclaimable acknowledges
  the message, so the invariant says why a queued job can be unclaimable
  (`WaitsForWorker`): nobody owns it, and the instant it waits for, if any, is that of an
  event still to come. Poisoning is the one step that takes the last wake-up away, and
  every step that queues the job again adds an event (`PutBack`).
* `AttemptsPaidFor`, for `RetryRequests = {}`: how far `StartsWithinLimit`, which does not
  hold, is from holding. An attempt that is rolled back is not counted in the row, but each
  such attempt is paid for by a fault: `starts <= MaxAttempts + faults`. `StartsInv` is the
  account. A worker that has claimed the job starts at most one attempt; the one that still
  holds a valid lease will be counted when it settles (`CounterLoaded`: its session has the
  counter the row has), every other one was paid for by the fault that took the lease
  (`ExpiryStep`). Recovery, redelivery, rejections and stale sessions leave the balance as
  it is, and a job that closes has an attempt to spare (`CloseStep`).
  `FaultlessStartsBounded` is the case without faults: `StartsWithinLimit`.

`PublicationProofs`, with no restriction on what overlaps or fails:

* `PublicationTypeCorrect`: besides the types, `holder` is exactly the attempt between its
  insertion and its commit.
* `ReadersSeeOneGeneration` and `ReadersSeeCommitted`. A reader compares generations unless
  the active generation is NULL, and switches leave the chunks of several generations
  active, so the argument is about the pointer: `Activated` (every
  generation the document, a session or a rollback refers to was activated by a committed
  switch, and failed generations never were), `SessionsOK` (a rollback's target differs
  from the generation it loaded as active, and a deletion loaded a live document, so both
  commits are certain to write what they change) and `VersionHasGeneration` (a live
  document with an active version has an active generation, so the branch of the query
  that skips the comparison accepts nothing).

* `SweepSparesActive`: `ActiveNotSwept`. A generation becomes active only through the
  attempt that created it, once, or through a rollback to it, which leaves an audit event
  that later sweeps respect. `SweptInv`: what a sweep has picked is not active, and no
  rollback to it is under way, unless the two were under way together (`crossed`); what a
  rollback aims at keeps its row in the same sense.

and under restrictions, none of which the code enforces:

* `RestorationWorks`: `IndexesServeActive`, if publications take turns (`TakingTurns`:
  `MaxOpen = 1`, or one worker and no rollback, with sweeps overlapping the attempts and
  each other), no document is deleted and nothing crashes or loses its lease (`Mended`).
  Indexes that refuse or fail between the two calls, of an attempt or of a rollback, and
  restorations that fail are all allowed. `TurnsInv` says that only one session publishes
  (`PublishersAlone`) and that no rollback crosses a sweep, and `ServeInv` follows the two
  pointers through a publication and its undoing: the active generation is staged in both
  indexes and shown in every one that is not `unrestored` and that no session has hidden it
  in (`Hidden`), and a session that goes back has the old generation to go back to
  (`SessionServes`).
* `UploadsStayErased`: `ErasedUnlessLoadedDeleted`, if the document is only uploaded, by one
  worker, never rolled back and deleted once (`UploadsOnly`), with any overlap, sweeps,
  crashes and refusals. `UploadInv`: an upload under way was submitted after every committed
  deletion (`SubmittedAfter`; the epoch check turns older ones away), or it loaded the
  document before the deletion, and then its commit does not write the state it believes
  unchanged, so that the document stays deleted (`LoadedBefore`), or it was admitted before
  the deletion and loaded the document after it (`LoadedDeleted`): the gap at the flush.

`SearchIndexProofs`: `TypeCorrect`, `OneVersionAtATime`, `PurgedStaysAway`,
`PublicationsAreExact`, `ReportIsSound`, from `SearchInv` (`SearchInductive`), for every
pairing of engines. An index that two calls have not overlapped in is described by
`Alone`: it has one call, whose rows read earlier are still there and unchanged, which has
read every row it is to hide or to show and shows its target only when nothing else is
flagged; this carries `OneVersionShown` through publications that stop half way, and makes
one that returns leave exactly its target visible, whatever those left behind. `CallersOK`
says which engines hold rows between requests; those that hold none keep purged chunks
away under any overlap. `ReportInv` ties the report to the calls since it began.

`QueryRunProofs`: `TypeCorrect`, `CancelIsHonoured`, `AnswersCiteLiveEvidence`,
`NoRetryAfterText`, `PublishedIsAnswered`, from one invariant (`InvariantHolds`): `Course`
(a run under way has its row, and an answer belongs to a run that has settled), `Stopping`
(a signalled run keeps its signal until a check sees it and never passes the gate),
`Evidence` (retired chunks are not active, and a validated outcome cites none), `Text`
(text appears during a call only, and is the current attempt's), and that the circuit is
open exactly at the threshold. `RunsImplementLedger` proves the refinement of
`AnswerLedger`: the answered set and the announced status are state functions of the rows,
and a commit that raises, an abandoned task and a late cancel are ledger steps or
stutters. `OnlyCancelOverwrites` confines the divergence of `Query_terminal.cfg`: until a
cancel request that names the run is received, or something fails (`Undisputed`), the run
alone writes its status and does so last (`SettledLast`), so that a terminal status stays.
`OneStatusWithoutCancel` is the case without either: `OneTerminalStatus`.

`TenantControlProofs`: `TypeCorrect`, `OneVersionActive`, `NoLostUpdate`, `QuotasHold`,
`SlotsAreAccounted`, `ConcurrencyBounded`, from `ControlInv` (`ControlInvariant`):
`WriterInv` (one writer past the lock, from the current revision), `KnownInv` (limits in use
were active once), `UsageInv` (one reservation open, and it fits the quota it read; a
count under way covers the rows unless one escaped) and `SlotInv` (the counter equals the
requests it counts, interrupted ones included, unless it was dropped, and never exceeds
them).

`TenantAccessProofs`: `TypeCorrect`, `AcceptedOnce`, `EpochVouches`,
`EveryChangeRaisesEpoch`, `ChainIsWhole`, `LastAdminStays`. `LockInv` (`LockInductive`) is
common to all: no row is held twice, what a request is about to write follows from how far
it has come, and every change but issuing and revoking invitations holds the tenant row
from the epoch on. On top of it, each property has an invariant of its own: `InviteInv` (a
request that took an invitation has it locked and pending, so that a settled one never
changes), `EpochInv` (every epoch written is one more than the committed one, except a
recovery's, so that an epoch read earlier is current only if nothing it vouches for has
changed), `ChainInv` (one request past reading the latest event, which is still the latest
and has the earlier stamp) and `AdminInv` (a change that passed the check leaves an
administrator). The exemptions of section 3 are hypotheses of these conjuncts, so in the
model nothing but the named gaps leads to a violation. `EveryChangeRaisesEpoch` is an
action property on `LockInv` and `EpochInv`, without an exemption by history: a step that
changes rights or the tenant's state raises the epoch by exactly one, no other step moves
it, and a recovery's own commit is the only exception.

`AssistantReleaseProofs`: `ReleaseTypeCorrect`, `ActivationTrail`, `PolicyPinned`,
`WholeRuns`, from `ReleaseInv` (`ReleaseInvariant`): `PolicyInv` (there is a newest default
policy, so every version names a policy), `HistoryInv` (what was answered under a version
was answered under the policy it names) and `RequestInv` (a request refers to rows that
exist; a session that is activating remembers the version that is active, which the lock
keeps true; an unfinished run has measured items of its dataset, each once).
`SessionMoves` and `WriterEnds` are the two frames: requests that move their session only,
and requests that write and end. `EligibleContained` (`EligibleRunsContained`) is about the
sum a gate compares. `TotalAccess` computes it for `access_control`: `Scale` times the
number of contained results. The sum is a fold, defined by recursion over sets; the lemma gives
the closed form as a solution of the recursion and shows by a smallest counterexample,
with the well-foundedness of the strict subsets of a finite set, that any solution agrees
with it. A run has finitely many results because it measures no item twice. The theorem
uses that the metric value 1.0 is positive (`Scale` in `ReleaseAssumption`).

Checked by TLC only: liveness (`EveryEventSettles`, `JobSettles`, `RunEnds`), which the
prover does not support; and the violations of section 4.

## 7. Not modelled

* Object store and orphan sweep (`object_store.py`, `orphans.py`): an object is written
  before the transaction that refers to it, and the sweep reads the references, lists the
  objects and deletes those older than a retention of 24 hours. Its safety is that
  retention against the length of a transaction, a statement about clocks that the models
  do not have.
* A request to an index that the HTTP client has given up on (20 seconds, `search.py:361`,
  `:943`) and that the engine applies later: a call that raised counts as over, so work
  that goes on in the engine beside later calls is not an overlap in `SearchIndex`.
* Audit events with the same microsecond: stamps are distinct. The several `SELECT`s of the
  check of the last administrator are one read (see `TenantAccess`).
* Why an event is poisoned: `Outbox` counts its failures, `IngestionJob` may poison any.
* Text extraction, chunking, prompts, guardrail patterns, scoring, rank fusion, token
  budgets, HTTP and SQL encodings: data, of which the models keep the outcomes the control
  flow distinguishes.
* Row-level security, token verification, secret encryption: configuration and libraries.
* Telemetry, health, container wiring, migrations, scripts and the web front end: no state
  the properties depend on.
* The in-process queue's size limit and de-duplication; start-up of collections; feedback
  and exports of evaluations; the backfill command.

## 8. Plan

1. The steps of the liveness arguments that are safety (what a fair step achieves, what no
   other step undoes), as lemmas.
2. Requests that an engine applies after the client gave up, in `SearchIndex`.
