# Verification of nextral

nextral is a memory runtime for agents, written in Rust. It keeps canonical
records in PostgreSQL and derived copies in Qdrant (vectors), Neo4j (graph),
Redis (session tails, policy copies) and an object store (archives). Several
hosts and workers may run against the same stores; they coordinate only through
rows, leases and guarded writes in PostgreSQL. Inside a process a package client
admits calls, runs them on blocking threads and shares a connection pool, a
telemetry service and network listeners. This directory models that coordination
in TLA+, checks it with TLC and proves its safety with TLAPS. Paths below
are relative to the repository root; `PROJECT.json` maps every definition to the
lines it models.

## 1. Inventory

| Part | State | Operations | Hard behaviour | What makes it correct |
|---|---|---|---|---|
| Lifecycle jobs (`runtime/prospective.rs`, job SQL in `adapters/postgres.rs`) | `nextral_lifecycle_jobs`: status, attempts, completed memory ids, lease | enqueue, claim due batch, guarded save, retention, consolidation, retry | stale private copies, lapsed leases, colliding owner strings, crash between effect and record | completed means done, progress is never rolled back, terminal is final, everything settles |
| Reminders (`runtime/reminders.rs`, `domain/reminder.rs`) | delivery state and row, user lease | schedule, transition, execute due, webhook | webhook outlasting the lease, lost acknowledgement, crash around the call, forget in between | copies agree, attempts cover calls, no repeat after acknowledgement, closed stays closed |
| Forget and outbox (`runtime/governance.rs`, `lifecycle_forget`, `drain_outbox`) | intents, tombstones, memory status, events, plans | ingest, forget, cascade, claim, sync, acknowledge, replay | partial propagation, crash and resume, events out of order | forgotten sources do not come back, indexes converge |
| Session, consolidation, archive (`runtime/session.rs`, `runtime/consolidation.rs`, `adapters/s3.rs`, `adapters/redis.rs`) | messages, hot tail, summary, manifests, objects | append, assemble, consolidate, archive, retain | Redis behind PostgreSQL, late upload, crash between upload and manifest | no forgotten text in a context or archive, retention loses nothing unarchived |
| Re-embedding (`runtime/reembed.rs`, route code in `runtime/storage.rs`) | route, shadow collections, checkpoints | execute, cut over, roll back, repair | writes during backfill, route moved under a prepared vector | route and vectors change together |
| Package client (`package/mod.rs`), pool (`adapters/postgres.rs`) | admission counters, permits, tasks, hosts, connections | call, close, start worker, serve, check out, return | a task that outlives its call, close racing calls, lost wake-ups | answers do not deny work, capacity comes back |
| Control plane (`runtime/intelligence.rs`, `with_control`) | one document of experiments and safety policy | create, promote, roll back, retrieve under a policy | read-modify-write by several hosts | no update is lost, labels match settings |
| Evaluation (`runtime/evaluation.rs`) | suites, reports | replay, validate, gate | percentile at the boundary, gains hiding losses | only evidence that is no worse is accepted |
| Retrieval, listing, graph evidence (`runtime/retrieval.rs`, `memory.list`, `adapters/neo4j.rs`) | indexes that lag, cursors, edge provenance | retrieve, assemble, list, update | stale indexes in both directions, pages read while rows change | what is served was visible, budgets are kept |
| Policy and batch tools (`policy_mutate`, `package/mod.rs`) | policy rows and versions, Redis copy, batch responses | upsert, remove, list, batch | stale copy, retry under a key | a believed copy is current, a finished batch is not run again |
| Network service (`api/`), telemetry (`runtime/observability.rs`), MCP host (`apps/mcp`) | listeners, permits, buckets, signing keys, leases, spans, session | serve, authenticate, limit, export, stop | stop with requests in flight, exporter joined under a mutex, key rotation | permits and leases exact, the host ends, spans are accounted for |
| Configuration, planner, topology, bindings, CLI | none that others change | parse, translate | - | - |

Components meet in four places: the user lease `privacy/<user>` (forget,
reminders, outbox, consolidation, retention, re-embedding), the tenant advisory
lock inside the memory transactions, the rows of `nextral_runtime_state`, and
the connection pool of a process.

## 2. Plan

1. `LifecycleJobs` with its proofs, `ReminderDelivery`, `MemoryPropagation`. **done**
2. `SessionConsolidation`, `VectorRoute`. **done**
3. `ConnectionPool`, `ClientRuntime` as a refinement of `CallContract`. **done**
4. `ControlPlane` as a refinement of `ExperimentRegistry`, `ReplayGate`. **done**
5. `GraphEvidence`, `MemoryListing`, `MemoryReads`; `PolicyCache`, `BatchKeys`,
   `PackageTools`; `Telemetry`, `KeyCache`, `ServiceHost`, `McpSession`,
   `NetworkService`. **done**
6. Proofs: `LifecycleJobsProofs`, `ReminderDeliveryProofs`,
   `MemoryPropagationProofs`, `ClientReplayAndReadsProofs` (with the refinement of
   `CallContract`, and with `ReplayGate` and `MemoryReads`), `ControlPlaneProofs`
   (with the refinement of `ExperimentRegistry`), `SessionConsolidationProofs`,
   `VectorRouteProofs`, `HostToolsProofs` (`PackageTools` and `NetworkService`). **done**

## 3. Modules

### LifecycleJobs

A job row carries status, attempts, the set of completed memory ids, whether
`next_attempt_at` has come (`due`, `timer`, `idle`), and its lease (owner,
live, fence). A worker's program counter follows `execute_lifecycle_jobs`:
`ClaimDue` is the claiming UPDATE; `Postpone` and `Begin` are the first guarded
save of a job; `FenceJob`, `EraseItem`, `SaveProgress` one memory of a
retention job; `Consolidate` the call of `consolidate_session`; `Complete` and
`FailJob` the last save. `snap[w][j]` is the worker's private copy of the job
with the fence it got. A refused save ends the batch before the work and goes
to the error path inside it, as in the code. `EnqueueLookup`, `EnqueueStamp`
and `EnqueueInsert` are the three transactions of `enqueue_lifecycle_job`.

`Store` selects which store is modelled. They differ in two places: renewal of
a job lease (the PostgreSQL statement searches `nextral_runtime_state`) and
insertion of an existing id (the in-memory store overwrites, but belongs to one
process). The run has the in-memory store; the theorems are about both.

Abstractions: retention of one memory and one consolidation are single steps
that may be refused (`EffectsFail` stands for lease contention, failed archive
verification and unacknowledged stores alike); reading the session activity is
merged with the save it decides; `Crash` also stands for a store error that
ends the run. With `Store` set to PostgreSQL the model takes the SQL to run as it
is meant to. As the repository stands, it does not: the table of migration 0003 lacks
`created_at`, `completed_memory_ids` and `last_error`, which the statements name
(0004 adds only indexes), and `($4 || ' seconds')::interval` is bound with a 64-bit
integer, so no job gets past the first statement (section 6).

### ReminderDelivery

`state` is the delivery state, `row` the row of `nextral_reminders`, `lease`
the user lease. Workers run `execute_claimed`: list, then per reminder renew,
load, check, persist `dispatched`, call the webhook, renew, persist the
outcome. Clients schedule, transition and forget. `Commit` is the fenced
transaction over both copies; `Upsert` and `Scrub` write without a fence, as in
the code. Conditions on privacy scope, channel, clock and timezone are a free
choice in `Check`. Audit rows, texts and receipts' contents are left out.

### MemoryPropagation

One user's memories in every store that holds a copy: `mem` the rows of
`nextral_memories` (status, version, whether the content is still readable),
`plan` the graph plan of a memory and the revision applied last, `events` the
outbox, `tomb` and `forget` the tombstones and the stored answers of forget,
`vec` and `graph` what Qdrant and Neo4j hold. Two different locks protect them,
and both are modelled as they are: `tx` is the tenant advisory lock inside the
transactions of ingest, replay, row updates and scrubbing; `lease` is the user
lease `privacy/<user>` that forget holds without renewing and an outbox worker
renews before each external write. Tombstones are written under the lease only.

Clients run `IngestCheck`/`IngestCommit` (memory_write under the advisory
lock), `ReplayRead`/`ReplayCheck`/`ReplayCommit` (graphify_memory) and forget,
one action per durable step of `forget_claimed` and `lifecycle_forget`. Workers
run `drain_outbox`: `ClaimEvent`, the steps of `sync_payload`, and
`FinishEvent`. The drain that every mutation makes at its end is a worker like
the others; an error of it is an error of the mutation.

Abstractions: one collection for all; a store that fails leaves any part of the
affected memories untouched (`Reached`); events are claimed in any order, which
covers `created_at` with every retry delay; refused ingests change nothing and
have no action. `promised`, the answers given, is a history variable.

### SessionConsolidation

One session: `Messages` appended to the table and pushed to the Redis tail,
contexts assembled without the lease, the two consolidation lanes with their
record, manifest, upload and summary, forget's way through tail, summary and
archive, and `retain_memory`, which erases only what a verified transcript
holds. The object store is a conditional put against tombstones; an upload may
arrive late. A lease may lapse under its owner, and consolidation renews with
`claim`, which also succeeds when others have held the lease in between.
Of the locals of a call, `seen` is a history variable (the table when Redis was
read), and `covered` is what `retain_memory` has verified to be archived: nothing
when it resumes an erasure, as the code then skips the verification.

### VectorRoute

PostgreSQL rows with their embedding, the route (`alias`), the Qdrant
collections (`pts`), staged snapshots and the checkpoint of a plan. Actions
follow `execute_reembed` step by step (list, stage, save, measure, validate,
compare, cut over, save), rollback, ingest with the route check in the commit,
outbox synchronisation, forget in every collection and snapshot, search (route
check, then search), and `index_repair` under its constant owner. `count.foreign` is a
history variable: the rollbacks that restored a snapshot which another plan had
replaced by vectors of a model that is not the configured one. `my` holds the
locals of a call, `Locals` their types; `SyncPcs`, `ReembedPcs` and the like are the
points at which a call of each kind can be.

### ConnectionPool, CallContract, ClientRuntime

`ConnectionPool` is the mutex-and-condition-variable pool: a critical section is
one action, a woken thread looks again, newcomers may overtake. `ClientRuntime`
extends it with `call_json` (size check, count and byte reservation, permit,
blocking task, timeout, dropped future), `close`, and `start_worker`/`serve`
with their loops. `CallContract` is the abstract specification of the answers: a
call told `not_started` never runs, an answer is that of a finished execution.
`Implements` is the refinement, through the mapping `Stage`. `SetSums` is the sum of
the payload sizes.

### ExperimentRegistry, ControlPlane, ReplayGate

`ExperimentRegistry` is the abstract specification: every operation is applied
at once to one registry and one safety policy. `ControlPlane` is the code: a
document read, changed and written back under a fenced lease by several hosts
whose owner ids may collide; `ImplementsRegistry` is the refinement, in which
the writing transaction is the step and everything else stutters. The tools
that read the document without a lease (`memory.retrieve`) are there too.
`ReplayGate` models the replay of a suite under two policies, the reports, their
validation and the gate; ratios are compared by cross multiplication, and a
counter is a machine word whose largest value is `MaxWord`. The sorted samples are
given by the place of each (`Position`), which is also what the proof of the
percentile counts. Its names (`GateSpec` and so on) are not those of `ClientRuntime`,
so that one module can prove things about both, and about `MemoryReads`, with the
same lemmas about sums.

### MemoryReads, with GraphEvidence, MemoryListing and Orderings

Retrieval over both paths against indexes that lag, working contexts under one
token budget, `memory.update`'s read and write and the walk through pages of
`memory.list`. An update changes tags, the privacy level or both, and with the tags the
graph plan: it is written without the hints of the ingest, so it holds what the
heuristic makes of the record (`Inferred`), or nothing. `GraphEvidence` has the
provenance of an edge as the Cypher statements keep it and the traversal with its
limit on the number of ids (`MaxLinked`, 64 in the code): with more, any `MaxLinked` of
them come back, before PostgreSQL is asked which are visible. `MemoryListing` is one
page: the filter by privacy scope, tag and statuses, and the fingerprint of all three
in the cursor. Floating-point scores are ranks.
`reader` is one call of retrieval or context assembly with its locals; it and `walk`
have the program counters of `retrieve_impl`, `assemble_claimed` and the tool
`memory.list`. `seen` is a history variable: how each memory looked at every moment of
the call, which is what an answer is compared with. A list that the code sorts and
then takes from while the budget lasts is a set with its order: `Fit` is the set of
those that fit beside the ones taken before them, which is what the loop computes,
and `Orderings` puts a set in order where places matter (the arrays of an edge, the
rows of a page). The session's messages are charged newest first, each after a
reading of its tombstone.

### PackageTools, with PolicyCache and BatchKeys

`PolicyCache`: rows, version row, Redis copy and invalidation event of the
procedural policies; a version is the chain of changes the digest stands for. An
event that cannot be handled is tried again for ever; the code gives it up after ten
attempts (`postgres.rs:943`), which could only leave the copy unchanged for longer.
`BatchKeys`: the lease, the lookup, the items and the kept response of a keyed
batch. `PackageTools` puts both behind the dispatcher; its specification is
`ToolsSpec`, and no name of it is one of `NetworkService`, so that the two can be
proved about in one module.

### NetworkService, with Telemetry, KeyCache, ServiceHost and McpSession

`ServiceHost`: binding, serving and stopping several listeners, and the way of
a request (in-flight limit, decoding, authentication, authorization, rate
limit, preparation, permit, tool, filter). The limiter may be off, its default; a
listener may fail with requests open, and the requests of an aborted listener go on
in the tasks of their connections and keep their permits. `KeyCache`: the signing keys
and their rate-limited fetch. `Telemetry`: leases under one mutex, the exporter
thread, the bounded span queue, the dropped counter. Spans are taken wherever a
collector is set, the exporter thread exists only where telemetry is enabled as well
(`Exports`), as in the code. `McpSession`: the lines of
an MCP session and the two clients of its process. `NetworkService` composes
them, in the order in which `serve_with_shutdown` and the MCP `main` call them.

## 4. Runs

| Run | Instance | Properties (parts in parentheses) |
|---|---|---|
| jobs | retention job of 2 memories, or an idle and a close job; 2 workers with the same owner string, 2 faults, 2 attempts, in-memory store, fairness | CompletedIsReal, ClaimsSound, ProgressKept, TerminalFinal, JobsSettle |
| reminders | 2 reminders, 2 workers, 1 client with 3 calls, 1 crash, 1 lapse, 1 postponement, fairness | DeliveryRecorded (StoresAgree, PostsBounded, CompletedDelivered), NothingReopened (TerminalStays, NoRepost, NoPostAfterForget), ForgetFinal, RemindersSettle |
| memory | 2 memories of 1 source, 2 clients with 3 calls, 2 workers, failing stores, 1 crash or lapse, fairness | ForgottenGone, NoResurrection, IndexesSound (IndexConverges, GraphGateSound), OutboxSettles |
| session_life | 2 messages and a third to come, 2 callers with 4 calls of six kinds, 1 fault (crash, lapse, store error, late upload) | ContextClean, HotTailExact, ArchiveWhole (ArchiveFindable, CompletedWhole, ForgottenSources), ErasureExact (ErasureFinal, RetentionCovered) |
| vector_route | 1 indexed and 1 new memory, 1 plan, 2 callers with 4 calls of six kinds, 1 crash | RouteConsistent (RouteCompatible, EmbeddingsMatchRoute, HitsComparable), IndexExact (IndexComplete, ForgottenEverywhere, ValidatedReal), RolledBackFinal |
| client_calls | 2 calls under four limit configurations, a call beside a worker, 2 workers, a service; 1 connection, fairness | CapacityExact (AdmissionExact, ConnectionsBounded, NoLostWakeup), EverythingEnds (CallsAnswered, CapacityReturns, CloseStopsHosts), DrainedIdle, Implements |
| control_plane | 3 experiments, 2 hosts with 4 calls, 2 owner ids, 1 fault, fairness | PolicyConsistent (PromotionsFormAStack, LabelsMatchSettings), ImplementsRegistry, LeaseFrees |
| replay_gate | suites of 4 cases (and ill-formed ones), 2 timings, tail share 3 in place of 20 | ReportsExact (MeasuredReportsValid, TailIsNearestRank), GateSound (AcceptedNoWorse, FabricatedRejected, EqualEvidencePasses) |
| memory_reads | 3 memories of 2 sources, 2 writes among ingest, update (3 patches) and forget, 4 requests, 4 listings with pages of one or two rows, a traversal that returns 2 ids, failing paths | AnswersTrue (ServedWasVisible, CompleteWhenOk), BudgetShared (BudgetKept, AccessedServed), WalkConsistent, EdgesMatchContributions |
| reads_preview | the same | RedactedPreviewHidden, violated: section 6 |
| package_tools | 4 workloads: a policy goes and comes back between two listings, any two policy calls, three batches under one key, any two batches; 1 store fault, 1 overrun, fairness | AnswersReal (CacheFresh, ListedWithinCall, SuccessIsReal), BatchesExact (CompletedNotRerun, KeyBoundToRequest), BatchesEnd (KeysFreed, BatchesAnswered) |
| network_service | 12 workloads: leases and spans under three settings, a host beside a client, a host aborted under its requests, an embedded host, requests over two listeners with the limiter off, the rate limit over time with a burst that refills in the idle time and one that does not, requests that end early, a key rotation, MCP sessions; fairness | TelemetrySound (SpansAccounted, FlushedAtStop, ServiceLeased), RequestsBounded (PermitsExact, RateBounded, StoppedClean), ToolsAfterHandshake, ServiceRecovers (MutexFreed, HostEnds, KeysPickedUp) |

A property with parts is their conjunction, and `PROJECT.json` lists a mutant for
each part. The type invariant of a module is a part of one of its properties; that
of `LifecycleJobs` is proved.

Bounds. Two workers are enough for every overtaking: one holds a stale claim,
one the current one. Two memories per retention job allow a partial retention.
Two faults allow a crash of the worker that took over from a crashed one. Two
memories of one source give forget something to cascade to while the other
client ingests it, and three calls allow ingest, ingest, forget as well as
ingest, forget, forget again. Two calls against limits of one make every queue
and every refusal of the client happen. A tail share of three has its boundary
at three samples, and four samples lie beyond it. Three memories and a traversal that
returns two ids make a linked one be cut off. A burst of two, a rate of one and an idle
time of one give a dropped bucket a surplus. The largest runs have 4.4 million
(`memory_reads`), 1.0 million (`vector_route`) and 0.4 million states
(`network_service`). All bounds are constants
(`MaxFaults`, `MaxClock`, `MaxAttempts`, `MaxActivity`, `MaxCalls`,
`MaxCrashes`, `MaxLapses`, `MaxQuiet`, `MaxTx`, `MaxTicks`, `MaxWrites`,
`MaxLines`, `MaxTime`, `MaxRotations`, `MaxOutages`, `MaxOverruns`).

Workloads. Three MC modules restrict what is asked for together, so that one
run covers several situations whose product is too large. `MCLifecycleJobs`
(`OneBatch`) takes either the retention job with faults or the session jobs
without. `MCReminderDelivery` (`LapseAlone`) lets a lease lapse only while one
of the reminders is unused. `MCMemoryPropagation` (`OneWay`) takes either
forgetting and redacting by clients that race, with one worker and no fault, or
replaying and indexing by two workers with one fault. A restriction is a
conjunct of the next-state relation on the primed state, about what is begun
(an enqueue, a schedule, a call) or about a fault, and fairness forces none of
these: a lease that lapses under its holder is enabled only until the holder's
own fair steps end the run. The exception is the claim of an event by the second
worker, for which `MCFairness` states fairness of the restricted action. `PackageTools`,
`NetworkService` and `ClientRuntime` take their workloads as a constant.

Fairness. The package worker thread calls `run_worker_tick` for ever, so its
steps and new claims are weakly fair; time passes, so due times and the leases
of dead owners expire; a request that has begun goes on, since every external
call has a timeout, and so do the exporter, the joining of it and the stop of a
host. No fairness on hosts' requests, on forget's being called, on faults or on
the outcome of effects: a job that is refused every time must still settle, and
a tool that hangs in `client_calls` may hang for ever.

Deadlock is not checked: when all jobs are settled and all calls used up, these
systems really have nothing left to do.

## 5. Proofs

Each theorem holds for every value of the constants: any number of workers,
hosts, memories, calls, crashes and lapses, where the runs have a few.

| Module | Theorems (property of the run) |
|---|---|
| `LifecycleJobsProofs` | `TypeCorrect`, `ClaimsCorrect` (ClaimsSound), `CompletionCorrect` (CompletedIsReal), `ProgressCorrect` (ProgressKept), `TerminalCorrect` (TerminalFinal) |
| `ReminderDeliveryProofs` | `DeliveriesAreRecorded` (DeliveryRecorded), `ForgetIsFinal` (ForgetFinal), `NothingIsReopened` (NothingReopened) |
| `MemoryPropagationProofs` | `ForgottenStaysGone` (ForgottenGone), `IndexesFollow` (IndexesSound), `NothingIsResurrected` (NoResurrection) |
| `ClientReplayAndReadsProofs` | `CapacityIsExact` (CapacityExact), `DrainedIsIdle` (DrainedIdle), `Refinement` (Implements); `MeasuredIsExact` (ReportsExact), `GateIsSound` (GateSound); `AnswersAreTrue` (AnswersTrue), `BudgetIsShared` (BudgetShared), `WalksAreConsistent` (WalkConsistent), `EdgesShowContributions` (EdgesMatchContributions) |
| `ControlPlaneProofs` | `PolicyIsConsistent` (PolicyConsistent), `Refinement` (ImplementsRegistry) |
| `SessionConsolidationProofs` | `ContextStaysClean` (ContextClean), `ArchiveStaysWhole` (ArchiveWhole), `HotTailStaysExact` (HotTailExact), `ErasureStaysExact` (ErasureExact) |
| `VectorRouteProofs` | `RouteStaysConsistent` (RouteConsistent), `OnePlanIsRestored`, `IndexStaysExact` (IndexExact), `RollbackIsFinal` (RolledBackFinal) |
| `HostToolsProofs` | `SpansAreAccounted` (TelemetrySound), `LimitsHold` (RequestsBounded), `ToolsWait` (ToolsAfterHandshake); `AnswersAreReal` (AnswersReal), `BatchesAreExact` (BatchesExact) |

Every module proves first that its `IInv` is inductive (`InductiveInvariant`;
`TypeCorrect` for the jobs, `NetworkInvariant` and `ToolsInvariant` for the host,
`ReportsStayGenuine` for the gate, `ReadsKeepTrack` for the reads),
with one lemma for each action, and derives the rest
from it. Why the checked properties are not inductive alone, and what `IInv` adds:

- **LifecycleJobs**. ClaimsSound, that a worker's copy is at least as advanced as
  its row, needs `BusyHasClaim` (who can have a claim at all); completion needs
  `ProgressHappened` (what is recorded as done was done, in rows and in private
  copies); finality needs `RestingRows` (a terminal row has no lease, so no guard
  holds on it). Each action is classified by what it does to the table (insert,
  retime, claim, guarded save, nothing), and each part is shown stable per class.
  The run uses the in-memory store, where there is one host; two hosts that
  enqueue the same job on PostgreSQL are covered by the theorems.
- **ReminderDelivery**. What the stores say depends on what the copies of calls in
  progress will write. `HolderOK` relates the copy of whoever holds the lease to the
  stored state at each control point; `PostOK` and `UpsertOK` say what remains true
  of a call that has lost the lease at the webhook or at an unfenced write;
  `Distinct` keeps two calls from being at the webhook for one reminder.
- **MemoryPropagation**. The invariant has two layers. `Base` holds always: what the
  advisory lock protects (a writer that passed its checks commits against the rows it
  saw), the tombstones a forget has written so far, the events' types. `Leased` holds
  while no lease lapses: how far the forget of a client has come (`ClientLeased`),
  what a worker between two steps may rely on (`WorkerLeased`), and for each memory
  that either its indexes agree with the rows or an event that is not yet done will
  bring them there (`Waits`). Events are handled in any order, so the worker that
  writes an old copy must know of another event still waiting (`OtherSync`,
  `OtherWaits`).
- **SessionConsolidation**. Three layers, each with the interference it excludes.
  `Base` holds always: the copy of the record that a consolidation works on claims
  only what is so (`WorkOK`), so that a caller who resumes or has lost the lease
  completes nothing that was not done; a transcript has its manifest before it is
  uploaded (`Safe`), so forget finds it whatever crashes (`Findable`); what is done
  with is forgotten in the rows (`DoneOK`). `Leased` holds while no lease lapses: at
  each step of an erasure, how much of the log, the summary and the object store is
  already clean (`LeasedOK`), and what a consolidation may still rely on. `Cached`
  holds while, besides, no invalidation fails: the cached tail is the tail of a
  prefix of the log. That the comparison of length and last message then singles
  out the current tail (`MatchIsExact`) rests on the log's being injective, which the
  idempotency keys of messages give. The log without what is erased is a recursive
  function (`Without`); `WithoutFacts` says what it keeps, and in what order.
- **ClientRuntime**. The counters are related to the sets of calls that hold a count,
  bytes (a sum over a set) or a permit, and the pool's `active` to the threads that
  connect or hold; `NoLostWakeup` counts the woken threads that have not looked
  yet. `Refinement` maps a call to its `Stage` and shows that every step is one of
  the contract or a stutter.
- **ReplayGate**. `GateInv` says that each report is what its replay measured, except
  for one score that the caller may have changed (`Genuine`), and that the verdict is
  the gate's on the reports. The rest is about operators: sorting puts every sample at
  a place of its own (`PositionsDiffer`, `SortedIs`), so the sample at the index the code
  computes is the nearest-rank percentile (`TailIsRank`), for any number of samples and
  any share of the tail; counters observed of a valid suite are consistent
  (`ObservationFacts`); and a suite answered as expected meets any threshold below one.
- **MemoryReads**. `ReadsInv` follows a call from its request to its answer. `GrantOK`:
  where the call is, its scope and budget are the ones asked for, cut to what the
  configuration allows. `PaidOK`: what was served so far costs what is gone from the
  budget, and the items of a retrieval cost no more than their share of it; hence,
  when the context charges them a second time, all of them fit and none is dropped.
  `ServedOK` and `FoundOK` speak of `seen`, which has every memory as it is now
  (`Watched`) and only grows: what is served or about to be was seen visible, and what
  was seen near or linked all along has been found by the path that is done.
  `WalkOK`: the cursor parts the memories into those already listed, if they matched all
  along, and those still to come, none of which is listed; creation times never change, so
  the parting holds whoever writes between two pages, and whatever an update moves into
  the filter or out of it. Where the traversal was cut off, `FoundOK` speaks only of
  memories that were all along among no more than `MaxLinked` linked ones. `EdgesOK` is the property of the
  edges with the types it needs. The rest is about operators: in every order there is a greedy
  choice (`TakenExists`), it keeps to the budget, passes over nothing that would still
  fit and takes all of a set that fits as a whole (`FitIs`); an ordering names each member once (`InOrderIs`);
  dropping one contribution and appending another keeps one entry for each contributor
  (`HoldWithout`, `HoldReplaced`).
- **ControlPlane**. `Fences` and `Fresh`: the call whose fence is the lease's has read
  the document that is there, so its write is an operation on the current value,
  also when owner ids collide. `Stacked`: the promotions not rolled back form a
  chain from what serves, each the target of the next. That following the targets
  ends is the content of PromotionsFormAStack, proved by induction over the length
  of the chain (`Unwound`).
- **VectorRoute**. Three parts. `Base` holds always: types, and what a call knows of
  its inputs without its lease (`CallOK`). `Calm`
  holds while no lease lapses: whoever holds the lease is alone among
  synchronisation, forget, re-embedding and rollback, so the copy of the checkpoint
  is the stored one (`LeasedOK`), and repair writes only what the row says
  (`RepairOK`); a checkpoint acknowledges only what is staged (`PlanOK`), and for each
  active memory its point agrees with the row or an event is still waiting
  (`IndexedOK`). `Uniform` relates the route, the models of the rows and the snapshots
  over the whole history of cutovers, and holds as long as no rollback has restored
  vectors of another model (`Restorable`; in the properties, `Intact`). A second plan
  overwrites the snapshot that a rollback of the first restores
  (`storage.rs:2248`, section 6), so the condition cannot go. `OnePlanIsRestored` shows that
  it always holds of a user with one plan, for whom no other plan can follow a cutover
  (`Settled`).
- **NetworkService**. Its four parts share no state that one of them writes under
  another's feet, so `NetworkInv` is a conjunction and a step disturbs one conjunct.
  `TelemetryInv` relates the mutex, the stop flag and the exporter thread to the leases
  held, and says of each ended span where it is, also while the exporter holds a batch
  that is no longer queued (`SpansInv`, `CutInv`). `DrainInv` says what a listener that
  has stopped accepting has still to answer, and permits are counted through the
  requests that hold one (`PermitsExact`). RateBounded is about any stretch of time and so
  not inductive: `RateInv` says that what is left in a bucket, and what has passed since
  any earlier moment, together stay below what `PassesIn` allows for the time since: the
  burst plus the rate times that time and, where an idle bucket is dropped before it is
  full, once more what was missing for every idle time that fits into it. If a burst is no
  more than the rate adds in the idle time, dropping forgets nothing and the surplus is 0. `McpInv` ties the state of the session to the lines read so far.
- **PackageTools**. A version of the policies is the chain of changes it stands for,
  so equal versions mean equal rows only among versions that have existed:
  `PolicyInv` keeps a rank in which all of them are ordered (`Chain`). `Outbox`
  relates an unposted invalidation to the call that will post it. `BatchInv` relates
  a batch, its lease, and the kept response.

Assumptions. The named assumptions on the constants (`JobsAssumption` and the like)
say that sets are disjoint, bounds are natural and inputs are typed. The theorems of
`ReminderDelivery` assume `Restrained` besides: forget does not outlast its lease
(else ForgetFinal is false, section 6), and a host does not itself move a reminder to
`dispatched`, `completed` or `retry_scheduled` through `transition_reminder` (the code
lets it, and then a reminder is completed that no one delivered). The run has the
same values. `ServiceAssumption` and its parts make the sets that are counted (holders,
spans, requests) finite, as those of a process are; they ask nothing of bursts and rates,
which `config/mod.rs` does not check against each other either. `GateAssumption` says that a threshold is
at most one, that the tail left out is not everything, and that ids belong to retrieval cases.
`ReadsAssumption` numbers the ids, of which no two kinds share one, and says that there are
finitely many, that a memory costs at least one token (`estimate_tokens` returns no less)
and that the configured hops are at most ten, the limit of `retrieve_impl`.
Properties that start with "no lease has lapsed" are proved in
that form.

Induction. The library's induction theorems take an operator, which the provers cannot
instantiate. `NatSetInduction` and its like are therefore proved from the library's
well-founded orders with the predicate given as a set. Sums over sets in
`ClientReplayAndReadsProofs`, the places of a sorted set, the greedy choice, the chain of promotions and the log without what is erased are
handled with it.

Only model-checked: liveness (JobsSettle, RemindersSettle, OutboxSettles,
EverythingEnds, LeaseFrees, BatchesEnd, ServiceRecovers), which with ENABLED is beyond
the prover. Every invariant and every action property of a passing run is stated by a theorem.

## 6. Deviations

`reads_preview` is violated: the preview of a listing looks for the field `status` of a
tombstone (`postgres.rs:632`), which forget never writes. Until its own row is redacted,
a memory of a redacted source is listed with its text (`tests/memory_query.rs:490`,
"Redacted source replaces preview with [redacted]", where the test writes the field
itself).

The following were met while modelling. The models have the behaviour, except where the
item says that they do not; the checked properties are stated so as not to claim the
contrary, and no run is spent on them.

- Lifecycle jobs do not run on PostgreSQL. The first statement fails, because the table
  lacks `created_at`, `completed_memory_ids` and `last_error`
  (`migrations/postgres/0003_lifecycle_execution.sql`), and the lease's interval is bound
  with a 64-bit integer; neither is modelled. With both put right, a retention job still could not succeed,
  because `renew_fenced` searches `nextral_runtime_state` and never the job table; that
  the model has.
- `max_attempts` does not bound how often a job is started when workers die
  (`prospective.rs:270`; `docs/pending.md:112` asks for bounded retry).
- forget does not reach jobs that are queued: `scrub_sources` visits
  `nextral_runtime_state` only (`postgres.rs:1295`;
  `docs/memory/workflow/forget-and-redaction.md:17`).
- A reminder left `dispatched` by a crash is never listed again
  (`domain/reminder.rs:260`; `docs/memory/workflow/proactive-followup.md:10`).
- A redacting forget can be answered from the stored response of an earlier one
  that left derived memories readable (`governance.rs:163`).
- A second re-embedding plan overwrites the snapshot that a rollback of the
  first restores (`storage.rs:2248`): the route then names the configured collection with
  another plan's model. `vector_route` has one plan; RouteConsistent excludes such a
  rollback.
- Two overlapping `start_worker` calls start two loops (`package/mod.rs:672`;
  `tests/worker_lifecycle.rs:340`, "Duplicate start returns Conflict").
- The check of a cached tail compares the number of messages and the last one
  (`storage.rs:1310`). When an erasure falls between the reading of
  Redis and that of the head, an old tail can pass; the filter still takes out what
  is forgotten (ContextClean). HotTailExact is stated for readings with no erasure
  between them.
- The weights of a promoted policy are not used by the production store
  (`storage.rs:1007`).
- Calibration evidence is refused only when both reports carry a stage
  (`evaluation.rs:549`).
- The MCP session opens its client without the file of `--config`
  (`apps/mcp/src/protocol.rs:159`).
- A context drops the status of its retrieval (`session.rs:265`): when both paths failed, or
  one, it is answered without a reason (`FailureReported`;
  `docs/memory/pipeline/retrieval-pipeline.md:10`, "do not invent session-only success as
  though retrieval succeeded").
- More than 64 memories linked to a query: the traversal returns any 64 of them
  (`neo4j.rs:263`), the hidden ones included, and the answer is not marked degraded
  although it may miss a linked memory that is visible and fits. CompleteWhenOk promises
  linked memories only up to that limit.
- `otlp_endpoint` with `enabled = false` turns tracing on without an exporter
  (`observability.rs:419` against `475`; `docs/package-production.md:127`): the spans stay
  queued until the queue drops them. A `burst_size` of zero is accepted, and so is a burst
  that an idle bucket regains by being dropped rather than by refilling
  (`config/mod.rs:397`).

Leases that lapse under a working owner are in every model with a lease, but an
external write cannot be fenced and several unfenced writes exist (a forget that
outlasts 300 seconds, of which the cascade also writes back the row as it read
it: a soft forget overtaken by a redacting one restores the readable content,
`upsert_reminder` of a closed reminder, a webhook call after the lease, a
consolidation renewed with `claim`, a batch response kept after its lease).
ForgetFinal, NoPostAfterForget, ForgottenGone, IndexConverges, GraphGateSound,
HotTailExact, ForgottenSources, RetentionCovered, CompletedNotRerun,
KeyBoundToRequest, RouteConsistent, IndexExact and RolledBackFinal, and of
NoResurrection the part about redacted content, therefore hold, and are stated, for behaviours in which none lapses
(a re-embedding that has lost its lease still stages and cuts over); the other
properties hold with lapses. That a forget outlasts its own lease is the
constant `ForgetMayLapse` (`reminders` has it FALSE). Two clocks, the caller's
in `claim` and the database's in `claim_outbox`, are one clock here.

## 7. Not modelled

- Configuration, planner and topology: parsing and validation of static data;
  what they yield are constants of the models.
- Bindings and CLI: they translate a call to the package client and its answer
  back.
- `testkit` and the in-memory backend, except the job store: a stand-in for the
  production store in tests.
- Within modelled components: floating-point scores and the quality score
  (ranks or free choices), the Prometheus listener and wire formats, the GraphQL
  schema and the gRPC health monitor, the defaults `prepare` fills in, the filters of a
  listing by date, session and the types of memory and source, none of which an update
  changes (scope, tag and statuses are modelled; a record's tags stand for its entities
  and its type of content too, which an update may change), the JSON schemas of the MCP tools, timezone arithmetic of
  quiet hours, audit rows, texts.
