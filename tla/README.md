# Turbohaul-Manager: a TLA+ verification development

Turbohaul-Manager serves OpenAI- and Ollama-shaped inference requests from one
llama-server child process at a time.  Requests wait in a two-tier queue; a
worker takes them one after another, loads the model, runs the request, keeps
the process through a *grace* window for follow-ups of the same conversation,
and then as a *warm holder* for later requests of the same model.  Around that
core stand the routes that hand the process to their clients, the supervision of
the process, a database of request rows, and the manifests and blobs the process
is started from.  These modules specify all of these, model-check them on small
instances and prove every safety property of the passing runs, and the
refinement, for every instance.  Paths below are relative to
`src/src/turbohaul/` unless they name a document.

## 1. Inventory

| Component | State it keeps | Operations | Talks to |
|---|---|---|---|
| Queue, `queue.py` `TurbohaulQueue` | `_staging`, `_accept_buf`, `_closed`; `slot.state`, `slot.is_evicted` | enqueue, enqueue_head, pop_next, pop_matched_thread, remove, close | manager (calls); routes set `disconnect_event` |
| Grace window, `queue.py` `GraceTimer` | thread_id, model_tag, start time, extension_count | start, restart_for_followup, matches, expired | manager; `PUT /api/config` changes its limits |
| Request FSM, `fsm.py`, `slot.py` | `slot.state` | transition, can_transition, is_terminal | queue and manager |
| Manager, `manager.py` | active and idle handle, idle tag and expiry, stop event, futures | submit*, worker_loop, _process_slot, teardowns, _force_cold, sweeper, boot_reconcile, shutdown | all of the others |
| Supervision, `subprocess_mgr.py` | the child process | spawn, health wait, drained SIGTERM, VRAM probe | manager, OS |
| Reapers and lock, `singleton.py` | `/proc`, flock | boot and lifetime orphan scans, acquire_state_lock | manager, OS |
| Database, `state.py` | `slots` rows, audit rows | upsert_slot, mark_slot_ended, reconcile_orphaned_slots | manager, sweeper |
| Manifests, `manifest.py`, `api/manifests.py` | YAML per model with a revision | read, write_manifest_atomic with If-Match, delete | manager, routes |
| Blobs and pulls, `blob_store.py`, `api/pull.py`, `api/import_.py` | content-addressed files | download, verify, commit, collect | routes |
| Chat routes, `api/chat_completion.py`, `api/embeddings.py` | per-request watcher, stream, retries | submit, wait, stream, repair | manager, sidecar |
| Tool-call recovery, `api/tool_call_recovery.py` | none | text to structured calls | chat routes |
| Configuration, `config.py`, `api/config_put.py` | the runtime object | validate, replace | manager, timers |
| Event bus, `manager.py` `EventBus`, `api/ws_state.py` | bounded subscriber queues | publish, subscribe | manager, UI |
| Safety gates, `safety.py` | none | RAM, VRAM, load, I/O-wait tests | manager |
| Log API, `api/logging.py` | a cursor | paginate audit rows | database, UI |
| Lifespan and CLI, `api/main.py`, `__main__.py` | none | boot, start tasks, shut down | manager |
| SSRF guard, `ssrf_guard.py` | none | accept or refuse a URL | pulls |
| Web UI, `src/frontend` | socket and polling state | reconnect, render | HTTP, WebSocket |

**What is hard.**  All of the manager runs on one asyncio event loop, so code
between two suspending awaits is atomic, but there are some twenty awaits in
`_process_slot` alone, each of which lets clients submit, leave or time out,
lets a detached teardown of an expired holder proceed, and may raise or be
cancelled by shutdown.  State is read before such an await and used after it
(the warm holder, the evicted flag, the grace deadline).  Sidecars share one
TCP port, and every teardown ends with two process scans that kill what they
do not recognise.  Awaits of the asyncio lock of the queue do *not* suspend:
no coroutine ever suspends while it holds the lock, so it is always free.

**What makes each part correct.**

* Queue: no request lost or duplicated; the order of waiting requests is kept;
  the caps hold; nothing waits after close; everything is taken in the end.
* FSM and manager: every move is in the table; requests are run one at a time
  through a handle of their model; each is answered once and in the end; a sidecar
  is never leaked, and never killed while it serves or is held warm.
* Database: every row of a finished request is closed, also after a crash; the
  sweeper closes only rows of requests that nobody will run.
* Manifests: an update that succeeds saw the version it replaces; what was
  acknowledged survives a crash.
* Blobs: a committed blob has the content of its name, also after a crash; a
  llama-server runs the content its manifest named.
* Streaming: one request at a time is under way on the sidecar, each is sent to
  it once, and worker and route both come free.
* Supervision: what may still be running, and answer on the port, when a sidecar
  is started is known; the verdict on an orphan is true; a teardown ends.  That
  *nothing* older runs then is not so: a detached teardown may still be under way
  (`TwoSidecars`), and a request that raised is not followed by a scan
  (`FailedRequest`).
* Event bus and UI: what a subscriber shows becomes current (not modelled).

The hazards behind these, each at its line, are under "hazards" in
`PROJECT.json` with the properties that cover them.

## 2. Modules

| Module | Models | State and actions |
|---|---|---|
| `SlotFsm` | `fsm.py`, the walk in `_force_cold` | operators only: `LegalTargets`, `ForceCold` |
| `GraceTimer` | `queue.py` `GraceTimer` | `graceKey`, `graceOpen`, `graceCount`; `GraceStart`, `GraceRestart`, `GraceElapses` |
| `TurbohaulQueue` | `queue.py` `TurbohaulQueue` | the two sequences, the tier label of each slot, the disconnect and evicted flags; one action per method |
| `QueueService` | the queue under any caller | adds history (`arrived`, `jumped`, `taken`, `skipped`) and the queue's properties |
| `Manager` | `manager.py` with queue, timer and FSM | about sixty-five actions; see below |
| `ManagerProperties` | - | fairness, invariants, action and liveness properties, the refinement |
| `SerialService` | - | the abstract specification of what clients are promised |
| `StreamHandshake` | worker and routes around the stream events and `completion_future`: `submit_for_streaming`, `submit_and_wait`, `chat_completion.py`, `embeddings.py` | each route's place and reply, events armed, set and done, what is under way on the sidecar |
| `SlotRows` | `state.py`'s slots table, its writers, crashes and boots | rows, Slot objects, audit jobs, the worker's place, running pids, lives of the program |
| `ManifestStore` | `manifest.py` `write_manifest_atomic`, `api/manifests.py` | the file, what a power failure may leave of it, the write under way, the clients' ETags |
| `BlobStore` | `blob_store.py`, `api/pull.py`, `api/import_.py` | streams and their temporary files, blobs, what of them is on disk |
| `ModelStorage` | both stores and the load of a llama-server | adds `loading` and `running` |
| `Supervision` | `subprocess_mgr.py`, `singleton.py`, the ends of a request, the expiry task, the boot scan | processes with parent and group, signals sent, each sidecar's teardown, the reaper's list |
| `DiskContents` | - | the constants `ManifestStore` and `BlobStore` share |
| `MC...` | - | the small instances |
| `QueueLemmas` | - | what each operation of `TurbohaulQueue` does to the line, the tiers and the labels, for any caller; `QueueServiceProofs` and `ManagerProofs` rest on it |
| `QueueServiceProofs`, `ManagerProofs`, `ManifestStoreProofs`, `StreamHandshakeProofs`, `ModelStorageProofs`, `SlotRowsProofs`, `SupervisionProofs` | - | theorems |

`Manager` EXTENDS the three component modules and shares their variables, so
`submit` is the conjunction of a queue operation, a timer operation and the
manager's own assignments.  `ManagerProperties` INSTANCEs `SerialService`.
`SlotRows` EXTENDS `SlotFsm`; `ModelStorage` composes `ManifestStore`,
`BlobStore` and a llama-server, which share one event loop and one crash.
`StreamHandshake`, `SlotRows` and `Supervision` each look at the worker from one
side and leave open what the others decide: which slot is taken, how a request
ends, when a teardown begins is a choice there.

**Granularity of `Manager`.**  `wpc` names the await at which the worker is
suspended; an action is everything the worker does from there to its next
suspending await.  `wpc = "idle"` is the top of `worker_loop`, which is reached
and left without a suspension, so nothing else moves there (`Yielded`).  An
await that only writes audit rows is kept as a suspension, since others run
during it and since it may raise or be cancelled.

| Code | Actions |
|---|---|
| `submit`, `submit_and_wait` | `SubmitAtHead`, `SubmitAtTail`, `SubmitRefused`, `ClientTimesOut`; the routes' disconnect watcher is `ClientLeaves` |
| `worker_loop` idle and eviction branches, stop event | `LoopExits`, `FindNothing`, `Wake`, `PopEvicted`, `EvictionAudited` with `ExpireIdleHolder` |
| `_process_slot`, manifest guard | `PopStart`, `ManifestRaises` (a manifest that does not parse or validate), `RefuseNoManifest`, `NoManifestFailed` |
| warm inheritance, swap, gates, spawn, health | `Inherit`, `Inherited`, `StartSwap`, `Swapped`, `GatesRefuse`, `GatesRefused`, `Spawn`, `SpawnFails`, `HealthOk`, `HealthTimesOut`, `HealthRaises`, `LoadFailAudited`, `LoadFailTornDown` |
| ACTIVE | `Activated`, `CompleteOk`, `CompleteFails` |
| grace loop | `GraceEntered`, `Promote`, `PromotionAudited`, `MatchCompletes`, `MatchExtends`, `MatchFailed`, `MatchEnded`, `GraceOver`, `IdleEntered`, `GraceTornDown` |
| the `finally` block and the `except` clause | `Unwind` (used by every path out), `FinallyDone`, `ErrorTornDown`, `ColdTornDown`, `ForcedCold` |
| `_teardown_idle_holder("idle_expired")` as a task | `ExpiryTaskStarts`, `ExpiryTaskEnds` |
| `shutdown` and the cancellation it causes | `ShutdownStarts`, `CancelProcess`, `CancelMatch`, `MatchCancelled`, `CancelFinally`, `CancelLoop`, `ShutdownCloses`, `ShutdownEnds` |
| clocks and processes | `GraceTimerElapses`, `DeadlineElapses`, `IdleElapses`, `SidecarExits`, `StuckExits` |
| faults | `SidecarCrashes`, `SidecarSticks`, `AwaitRaises`, `FinallyRaises`, `ErrorTeardownRaises`, `ColdTeardownRaises`, `ForceColdRaises` |

**Abstractions.**

* A request is a member of `Slots`, submitted once; `Key` stands for its
  `(thread_id, model_tag)` and `Model` for its model.  Prompts, results,
  manifests' contents and audit rows are left out.
* `Watched` are the requests whose route gave the slot a `disconnect_event`; only
  those can be flagged evicted.
* A clock is whether its window is open.  The grace timer and the deadline of the
  grace loop run apart: `submit` may restart the timer and `PUT /api/config` may
  change `grace_seconds` between the two.
* A sidecar is "up", "terminating" (SIGTERM sent), "stuck" (SIGKILL did not end
  it in time) or "dead".  `drained_sigterm` is the signal, then waiting until it is
  dead or stuck; in both cases the teardown goes on, as its callers drop or only
  record the verdict.  `GET /health` is answered by any live sidecar, since all of
  them are given the same port.
* A completion, streaming or not, is one await that answers or fails; the
  handshake between route and worker is `StreamHandshake`.
* `keep_alive` is either 0 (`UnloadSlots`) or keeps the sidecar warm.
* The reapers see the manager's own sidecars.  `boot_orphan_reaper` looks for
  processes whose parent is pid 1 and is called with no known pids, so it has
  an effect exactly when the manager itself is pid 1 (`ManagerIsInit`).

**`StreamHandshake`.**  A request is a record of what the code tells apart:
endpoint, stream flag, tools, and a free, schema-bound or unsound response
format.  `/v1/chat/completions` without stream and `/api/chat` let the worker
post upstream and wait for the future; the SSE route and `/v1/embeddings` post
themselves between `stream_ready_event` and `stream_done_event`.

| Code | Actions |
|---|---|
| checks of the payload, `submit` (whose row or audit write may raise once the slot is queued), `submit_for_streaming` after its await | `RouteRejects`, `RouteSubmits`, `SubmitRaises`, `SubmitReturns` |
| `stream_gen`, `post_embeddings` | `GeneratorStarts`, `GeneratorDropped`, `ReadyTimesOut`, `RouteOpensUpstream`, `UpstreamEnds`, `UpstreamFails`, `StreamCancelled`, all ways out by `Leave` (the `finally`) |
| `submit_and_wait` | `FutureAnswers`, `FutureTimesOut` |
| connection and `watch_disconnect` | `ClientLeaves`, `WatcherFlags` |
| `worker_loop`, `_process_slot` | `WorkerEvicts`, `WorkerRefuses`, `WorkerActivates`, `AnchorServed`, `WorkerPromotes`, `FollowUpServed` (with the assertion of manager.py:972), `StreamReleases`, `StreamOverruns`, `GraceEnds`, `WorkerCancelled` |
| `_complete` with its one schema retry | `Complete`, `UpstreamAnswers`, `UpstreamRaises` |

**`SlotRows`.**  A row is its state, its pid and whether `ended_at` is unset.  An
audit job (`_audit_async`) is a thread that writes the slot's state as it is when
the thread runs, which may be after the task that awaited it was cancelled.  A
llama-server goes by the slot it was spawned for; a pid that answers
`kill(pid, 0)` at boot, because the sidecar was spared or the pid reused, is any
subset.  `Submit` writes its row in the same step as it queues the slot, since
nothing else runs in between.

| Code | Actions |
|---|---|
| `submit`, `_audit`, the queue's relabelling | `Submit`, `AuditJobRuns`, `MoveUp`, `EvictsQueued` |
| the anchor's way through `_process_slot` | `Takes`, `Refuses`, `RefusalEnds`, `Inherits`, `Spawns`, `HealthTimesOut`, `Activates`, `EntersGrace`, `ProcessingRaises`, `StartsTeardown`, `TeardownEnds`, `HoldsIdle`, `HoldEnds`, `HolderExpires` |
| a promoted follow-up | `Promotes`, `ServesMatched`, `MatchedServed`, `MatchedPopped`, `MatchedEnds`; `MatchedRaises` where an audit of it raises, which closes the anchor's row and leaves the follow-up's |
| `_run_one_sweep` | `Sweeps` (and `AgeDay` for `min_age_s`) |
| `shutdown`, crash, `boot_reconcile` | `CancelledServing`, `CancelledEnds`, `CancelledRaises`, `Cancelled`, `Exits`, `Crashes`, `Boots` |

**`ManifestStore`, `BlobStore`, `ModelStorage`.**  A version of the manifest is
named by the write that made it; clients see its revision only.  For each file
the models keep what programs see and the set of what a power failure may leave
there: a rename adds the new content, and a torn file where the temporary one
was not synced; a sync of the directory leaves the newest only.  `write_manifest_atomic`
is `PutCreates`/`PutUpdates`, `SyncTemp`, `Replace`, `SyncDir`, or `PutFails`;
nothing of the same program runs between these, a crash may.  A pull gives way
between chunks and an import does not (`loop`); `LastByte`, `HashMismatch`,
`Rename`, `SyncShard`, `SyncShardFails` are the end of `write_stream_atomic` in
its two forms.  A hash and the content it is the hash of are one value.
The llama-server `Stages` (reads the manifest), and `Loads` its file some time
later, or `TakesOver` the warm one.

**`Supervision`.**  Processes are llama-servers and the helpers they start at any
time, in their process group or in a session of their own; each holds the port.
A process that ends is a zombie until its parent waits for it: the manager does
when it polls a handle, and who adopts orphans does (`reaper = "waits"`) or does
not (`"idles"`, or the manager `"self"` as pid 1); a fourth adopter (`"apart"`) is
none the scans know.  What SIGKILL does not end is stuck in the driver; the
kernel may give the pid of a listed orphan to another program at any time
(`recycled`), before its start time is noted too (`mistaken`).  Helpers are started
by the head of a process group only.

Several teardowns may be under way, one per sidecar (`draining`): that of the
worker, which waits for it, and detached ones of expired holders, beside which
the worker spawns, inherits and serves.  The two scans block the event loop:
`Free` says that none is running.

| Code | Actions |
|---|---|
| `spawn_sidecar`, `wait_until_healthy`, warm inheritance and holding | `Spawn`, `IsHealthy`, `Inherits`, `Holds` |
| `_teardown_idle_holder` as a task, and before a swap | `Expires`, `Swaps` |
| the end of a request: `_teardown`, or the `finally` of `_process_slot` alone, with a live and with a dead sidecar | `BeginsTeardown`, `Raises`, `RaisesDead` |
| `drained_sigterm` | `Sigterm` (in the actions that begin it), `SigtermClean`, `Escalates`, `Settles`, all ending in `Drained` |
| `boot_orphan_reaper`, after a teardown and at boot | `BeginsScan`, `BootScan`, then per orphan `ReapSigterm`, `ReapClean` or `ReapSigkill` and `ReapChecks`; `BootEnds` |
| `intra_lifetime_orphan_scan` with `_live_handle_pids` | `IntraScan` |
| processes, the manager | `Exits`, `Forks`, `PidIsRecycled`, `StrangerExits`, `ManagerDies`, `Boots` |

The verdict of `drained_sigterm` goes to an audit row and is no state of the model;
that of `reap_orphan` is what `ReapVerdict` says when it returns.  Exceptions inside
a teardown are `Manager`'s subject; a graceful shutdown is `Expires`, `Raises` or
`RaisesDead` followed by `ManagerDies`.

## 3. Properties and runs

Passing runs.  Each property has a mutant of the code, an operator commented as
such above the definition it would replace, under which TLC finds it violated.

| Run | Instance | Properties |
|---|---|---|
| `Queue` | 5 requests (2 of one conversation), staging 2, buffer 2; 1 079 524 states | `QueueTypeOK`, `OnePlace`, `TierHonest`, `Capacity`, `ClosedIsEmpty`, `FifoUnlessSkipped`, `OrderKept`, `EveryoneTaken` |
| `ServeSafety` | 2 turns of a conversation and a request for another model, which has no manifest; staging 1, buffer 1, no faults; 1 201 572 states | `ManagerTypeOK`, `HolderNotDoomed`, `ServingNotDoomed`, `HandleOfModel`, `NoAbandonedRequest`, `ImplementsSerialService`, `UnknownModelKeepsHolder`, `LegalMoves` |
| `ServeLiveness` | 2 turns, one asking to unload; 19 914 states | `Answered`, `HolderReleased` |
| `FaultsAndShutdown` | 2 turns, 3 faults, shutdown at any time; 1 228 810 states | `NoLeak`, `ParkedIsCold`, `NoneLeftInQueue`, `StoppedIsTerminating`, `ImplementsSerialService` |
| `Streaming` | 2 requests of one conversation, each through any of five kinds of route; 647 196 states | `SidecarExclusive`, `OneUpstream`, `HonestReply`, `StreamReleasesWorker`, `RouteEnds` |
| `RowsAcrossCrashes` | 2 requests, 3 lives of the program; 33 352 states | `ServedRowIsOpen`, `ClosedStaysClosed`, `BootClosesRows`, `RowsAreFinalized` |
| `Manifests` | 2 clients, 4 writes, 3 revisions; 177 849 states | `AckedManifestSurvives`, `NoLostUpdate` |
| `ModelStorage` | 1 client, 2 writes, 2 streams, 2 contents, by symmetry; 1 586 982 states | `StoredBlobSurvives`, `RunsWhatItNames` |
| `Supervision` | 2 processes, the manager dies once; 79 444 states | `HealthIsOwn`, `NoneOverlooked`, `VerdictsAreTrue`, `TeardownEnds` |

*Why the bounds are enough.*  The queue's case distinctions are on empty, full
and overfull tiers and on the position of a match; five requests on four places
meet all of them: overfilling by head insertions, a full buffer, and an empty
staging queue with two requests left to drain.  Only one of the five can lose its
client there (`Watched`): the evicted flag of a slot is touched by no other.  In the
manager the worker has one request in hand, at most one matched to it, and at
most one more waiting can change what it does next; two requests of one key and
one of another model give a match, an inheritance, a swap, a holder at risk and
a queue that is full.  `MaxExtensions = 1` is the smallest value at which an
extension is both granted and refused.  Three faults are one in each of the
three paths that handle a fault inside each other: the worker's `except` clause,
its teardown, and the signal in `_force_cold`.

The sidecar is handed from one request to the next: two requests give every
pair of an anchor and a follow-up, over all routes, each of which may still be
under way when the other is served.  A row is touched by its own request and by
the sweeper and the boot, which treat rows alike; a second request is needed for
a follow-up, for an heir of the warm holder and for the sweeper's batch of one,
and a third life for what the second leaves behind.  A lost update takes three
writes (one to read, two to race) and the fourth lets a deletion or a power
failure come between.  Two streams may write one name, a third does no more than
either; `MaxRevision = 1` suffices in `ModelStorage`, whose properties do not look at
revisions, since a manifest is written again after a DELETE.  Two processes
are a llama-server with a helper, or with the successor that is spawned after or
beside its teardown.  What needs three, an older helper beside a successor, is
within the theorems, which hold for any number of processes, and `FailedRequest`
shows it with three.

*How far three of them go.*  `HandleOfModel` is bookkeeping: the handle a request is
served with was recorded for its model.  All sidecars share one port, so which
process answers there is another question, which `TwoSidecars` and `HealthIsOwn`
are about.  `HolderReleased` and `Answered` are of finitely many requests, each
submitted once: they say that no path drops a request or a holder, not that a
stream of evictions or one busy conversation can keep nobody waiting.
`OneUpstream` allows a second upstream request to a schema-bound request of a
thinking model, for the retry, and never a third.

*What the properties except,* because the code does not keep it: a stream that
outlived the worker's hour (`overran`); the row of a request the sweeper closed
while it was queued for a day, which its service opens again
(`ClosedStaysClosed`); rows that nothing closes (`Leaked`: left at POPPED by a
crash or a cancelled task, a slot the worker let go (`dropped`) under another
label than STAGED, whether evicted from the buffer or a follow-up whose audit
raised, or with a pid that still answers); sidecars in a detached teardown and
those of requests that raised, until the next scan (`InTeardown`, `unscanned`);
processes the reapers cannot see or end (`Beyond`: a pinned binary, a process
stuck in SIGKILL and its helpers, those adopted by a parent the reaper does not
know, `unseen` by the boot scan); a zombie that nobody waits for, and a pid that
was another program's before the start time was noted (`VerdictsAreTrue`); a
shard directory whose own entry was never synced (`fresh`); a manifest deleted
and created again; a generator that was dropped before it began, whose slot
keeps the worker for the hour (`StreamReleasesWorker`). All but four are
findings of their own; the sweeper's is a documented choice, a process stuck in
SIGKILL is beyond any code, the dropped generator is what the hour is for, and a
follow-up whose audit raised is owed nothing by any document.

Violation runs.  Each checks one sentence of the documents or comments that the
code does not keep; what it shows and the quotation are under "findings".

| Run | The sentence | What happens |
|---|---|---|
| `TwoSidecars` | one llama-server child | the next is spawned while an expired holder is still going down |
| `WorkerDies` | the worker drives the FSM for ever | a second exception, in the error path, ends it |
| `FailedRequest` | orphans are reaped before the next slot, on every teardown | a request that raises is ended without `_teardown`, and a detached helper meets the next sidecar |

*Findings without a run.*  Twenty-one more sentences of documents or comments that
the code does not keep are listed with their quotations under "findings" in
`PROJECT.json`; each is read off a few lines of the code, or is the exception
that a property above names.  Among them: a match leaves a hole in staging that
a newcomer takes before the buffer; an evicted follow-up is run; at its cap a
conversation still jumps the queue; shutdown forgets a sidecar whose teardown is
under way; an orphan that has ended but is waited for by nobody is reported as
alive; the boot reaper takes the children of a manager that is pid 1 for
orphans; a streaming `/api/chat` follow-up always fails an assertion; the SSE
route does not notice that its slot has failed; the instance lock and the
re-verification of blobs are called by nobody.  Two bounds are documented
otherwise than they are kept: `queue.py:145` bounds staging by `staging_max`
although `enqueue_head` does not look at it (`Capacity` states the bound that is
kept), and `ARCHITECTURE.md:115` says that follow-ups queue in FIFO order
although `enqueue_head` stacks them.

*Deadlock* is checked in every run but these, where the system may really stop:
`FaultsAndShutdown` (shut down), `WorkerDies` (the worker ends), `Streaming` and
`RowsAcrossCrashes` (every request is over, or the program was started for the
last time), and `Supervision` and `FailedRequest` (no process is left to start).
In `Manifests` and `ModelStorage` a client may always read or crash.

*Fairness.*  `EveryoneTaken` assumes that somebody goes on calling `pop_next`:
`worker_loop` does, every 50 ms.  `FairServeSpec` assumes weak fairness of the
worker and of the expiry task (asyncio runs every ready task), of the exit of
each terminating sidecar (`drained_sigterm` escalates to SIGKILL) and of the
three clocks.  The worker's steps include the end of a completion: a request
is bounded by the HTTP client's or the one-hour timeout.  Nothing is assumed of
clients, and faults are not part of the liveness runs: an exception in
`_force_cold` stops the worker (`WorkerDies`).

`StreamFairness` is weak fairness of each route, of its timers and of the
worker: ready tasks run, timers expire, upstream requests end. Nobody has to
submit or leave, the worker may be cancelled at any time, and its hour is *not*
assumed to pass, so `StreamReleasesWorker` says that the route, not the hour,
releases it. `RowsFairness` is weak fairness of audit threads, ageing,
relabelling, sweeps, exits and boots, and strong fairness of the worker: a
cancellation or a crash disables its step, and the next life enables it again.
`SupervisionSpec` assumes weak fairness of the steps of each teardown and of the
scans, each of which has a deadline, and nothing of the processes. The storage
specifications have no fairness: nobody has to write.

*Refinement.*  `ImplementsSerialService` maps a request's future and phase to
"new", "waiting", "running" and "answered" and says that the manager is a
serial server: at most one unanswered request runs, only a running one is
answered with a result, and no answer is ever replaced.  It is checked with
failures, timeouts, evictions, shutdown and faults.

## 4. Proofs

### The queue

`QueueServiceProofs` proves for every set of requests, every `Key` and all
capacities, from `QueueAssumption` only (both capacities are positive integers,
and `Watched` is a set of requests):

* `TypeCorrect`: `ServiceSpec => []QueueTypeOK`.  One step per action; lemmas
  give the type of the sequences left by a removal and by a drain.
* `EverySlotInOnePlace`: `ServiceSpec => []OnePlace`.  The invariant is
  `QueueTypeOK /\ OnePlace`; injectivity of the whole line, `staging` followed
  by `acceptBuf`, is what makes the two deletions by position remove a slot
  altogether, and `Waiting \cup taken = Arrived` what makes a new arrival a
  stranger to both tiers.  The drain is the delicate step: it moves a prefix of
  the buffer whose length is a minimum.
* `ClosedStaysEmpty`: `ServiceSpec => []ClosedIsEmpty`, by the guard on
  `closed` in both insertions and from the fact that a pop needs a nonempty line.
* `OrderIsKept`: `ServiceSpec => OrderKept`.  Each operation is shown to leave
  the remaining line a subsequence of the old one, by an explicit order-preserving
  map of positions; injectivity of the line identifies a slot with its position.
* `TierIsHonest`: `ServiceSpec => []TierHonest`.  `OnePlace` gives that the two
  tiers are disjoint and the buffer has no repetition, so the relabelling of a
  promoted slot touches none that stays behind.
* `CapacityIsKept`: `ServiceSpec => []Capacity`.  Every step either leaves staging
  no longer than its bound or brings no slot into it but a head insertion; in
  particular `pop_next` refills an overfilled staging queue with nothing.
* `FirstComeFirstServed`: `ServiceSpec => []FifoUnlessSkipped`.  The inductive
  invariant adds `BufferBehindFull`: until a slot is taken from the middle, the
  buffer holds something only while staging is full.  Without it `enqueue` could
  put a newcomer in front of the buffer, which is what happens once a match has
  left a hole.

These are all the safety properties that `Queue` checks.  What does not
need the history of `QueueService` is proved in `QueueLemmas` of the queue's own
actions, so that the manager can use it: `TiersSound` (the types, no request twice
in the line, honest labels) is kept by every operation, and each operation's
lemma says which request it adds to, or takes from, those that wait.

### The manager

`ManagerProofs` proves for any requests, conversations and models, any capacities
and any bounds on extensions and faults, from `QueueAssumption`, `GraceAssumption`
and `ManagerAssumption`: the set of requests is finite, and two requests of one
conversation name one model, as `Slot.model_tag` is part of the key.  All of it
is about `Spec`, with faults and shutdown at any await; `ServiceIsManager` carries
it over to `ServeSpec`.

`InvHolds`: `[]Inv`.  Of the properties hardly one is inductive, because what is
true of a handle or a request depends on the await the worker is suspended at.
`Inv` says for each of them

* what the worker has in hand: `Hands` (anchor and follow-up, of one key),
  `Places` (which of the two handles there are, when the two may be the same
  one, and that an expiry task has started before the worker looks at the
  holder again) and `Stopping` (how far shutdown is);
* what is written of it: `PhaseAt` and `SettledAt` (the state and the answer of
  both requests), `Queued` (a request that waits and has not been taken is in the
  queue, and nothing else is), `OneRuns`, `NotAbandoned`;
* what is known of the processes: `Statuses` (the sidecar behind a handle has or
  has not been told to terminate, by the await, and one that has not is behind a
  handle), `Alone` (without faults nobody else kills it), `Models`, and `Counted`,
  that there are no more sidecars than requests taken, one fewer where the worker
  may still spawn.

Before it, one lemma per table of the state names all that a step can do to it
(`TableStep` for the sidecars, `FutureMoves`, `PhaseMoves`, `QueueFrame`,
`WorkerHandles`); the proof of each conjunct goes by those instead of by sixty
actions.  `ForceColdParks` unrolls the bounded walk of `_force_cold`.  From `Inv`:

* `ManagerTyped`, `NoSidecarLeaks`, `HandlesAreOfModel`, `FailedAreParked`,
  `ShutdownAnswersQueued`, `ShutdownLeavesNoneUp`: the invariants of the two
  safety runs, `[]ManagerTypeOK`, `[]NoLeak`, `[]HandleOfModel`, `[]ParkedIsCold`,
  `[]NoneLeftInQueue`, `[]StoppedIsTerminating`.
* `HolderSafe`, `ServingSafe`: `[]HolderNotDoomed` and `[]ServingNotDoomed`, if
  the manager is not pid 1.  As pid 1 it is the parent of every sidecar, and
  `boot_orphan_reaper` after a teardown kills the live ones: that hypothesis is
  needed.
* `NoneAbandoned` and `ServiceAbandonsNone`: `NoAbandonedRequest` as long as there
  was no fault and no shutdown, and for every fault-free run of `ServeSpec`.  Both
  hypotheses are needed: a write that raises during a promotion drops the
  follow-up, and a cancelled worker its anchor (manager.py:936 and 1676).
* `UnknownModelSparesHolder`: `UnknownModelKeepsHolder`.  The guard is evaluated
  at the pop, the swap is decided one await later; `Models` says that the guard's
  finding is still true then.
* `MovesAreLegal`: `LegalMoves`, from `PhaseAt` and the queue's honest labels.
* `ManagerImplementsService`: `Spec => ImplementsSerialService`.  By `FutureMoves` a
  step accepts one request, refuses one, or settles some with one outcome, an
  `ok` only at the await after a sidecar call; by `PhaseMoves` a request becomes or
  stops being `ACTIVE` unanswered in one way only, the hop that maps to `Start`,
  and `OneRuns` says that nobody runs then.  Everything else maps to a stutter.

### The manifest

`ManifestStoreProofs` proves for any clients, contents and bounds, from
`ManifestAssumption` (bounds are positive, `None` and `Torn` are nobody's value):

* `ManifestTypes` and `AcknowledgedSurvives`: `[]ManifestTypeOK`,
  `[]AckedManifestSurvives`.  `SafeInv` adds `PutShape`, that a write past
  `SyncTemp` is synced, which is why a rename never adds a torn file, and
  `AckedBound`, that no number beyond the newest write was acknowledged.
* `UpdatesAreNotLost`: `NoLostUpdate`.  If-Match compares revisions, the property
  compares versions; the invariant has to say why the one gives the other.  The
  file is the last revision of its descent (`born`) that the disk may hold
  (`FileIsLast`); a version a client has read, unless a power failure undid it, is
  still on the disk or older than everything there of its descent (`ReadIsPast`);
  so an equal revision is the same version.  `PutFollows` carries that from the
  comparison to the rename, across the steps of the write, and `Numbered` makes a
  new file's descent one that nobody has seen.

### The hand-over

`StreamHandshakeProofs` proves for any requests, conversations and kinds of
request, from `RequestAssumption` (requests are records the code tells apart,
the budget is a natural number, `None` is no slot, no reply and no state of a
future):

* `StreamTypes`: `[]StreamTypeOK`, where the worker has a slot in hand exactly at
  the places where its code has one.
* `ExclusiveSidecar`: `[]SidecarExclusive`.  `using` alone is not inductive: a
  route that was handed the sidecar may open its connection at any later time.
  The invariant is about `Handed`, the routes that were given the sidecar and
  are not over: there is at most one (`HandedIsOne`), while the worker runs it is
  the one the worker waits for (`HandedIsCur`), and each user is such a route or
  the worker's own request (`Users`).  `DoneIsOver` makes the worker's release
  safe: `stream_done_event` is set by the route's last step.
* `SentOnce`: `[]OneUpstream`.  `Fresh` says that a slot not yet taken has not
  been sent and one that is handed over is sent by its route only, and that a first
  answer of the worker's is awaited after one request at most; it is what the late
  arming of the events could have broken, and does not.
* `RepliesAreHonest`: `[]HonestReply`.  A reply outlives the step that gave it, so
  `ReplyInv` traces it to its source: what the future says (`Told`), which was set
  when the slot left everybody's hands (`Settled`, `Evictions`, `Results`), or the
  route's own connection, which a validated request never has (`Sending`,
  `Thinkers`).

### Storage

`ModelStorageProofs` proves for any contents, streams, clients and bounds, from
the assumptions of the two stores (`ManifestAssumption`, `StreamAssumption`), and
reuses the lemmas of `ManifestStoreProofs`:

* `BlobsSurvive`: `[]StoredBlobSurvives`.  A stream past its last byte has the
  event loop to itself, its file is synced, and once it is renamed the name holds
  it (`StreamShape`); so the sync before the answer is of that very content.
* `NameIsContent`: `[]RunsWhatItNames`.  A name holds its content or nothing, now
  and after a power failure (`Named`): that a blob may be deleted, stored again or
  lost between the staging of a slot and the load does not matter.

### The rows

`SlotRowsProofs` proves for any requests, any batch of the sweeper and any number
of lives, from `RowsAssumption` (the two bounds are positive, `None` is no slot
and no state):

* `AlwaysRows`: `[]RowsInv`.  An audit is a job of its own that may be late, so
  what the row says depends on whether the job is still to come: `JobRows` says
  what such a job will find, `HeldRows` that the row of a slot in the worker's
  hands either awaits a job or is open under a label the sweeper does not look
  for, and `QueuedRows` that only the sweeper has touched the rows before.
* `ServedRowsAreOpen`: `[]ServedRowIsOpen`, from `HeldRows`; the pid is the one
  `ACTIVE` was audited with.
* `ClosedRowsStayClosed`: `ClosedStaysClosed`.  A job that opens a closed row is
  one for `LOADING` or `ACTIVE_MATCH`, the only audits that can come first after
  the sweeper (`JobRows`).
* `BootClosesTheRest`: `BootClosesRows`.  `OpenLabels` lists the labels under which
  a life can leave a row open; reconciliation asks for all of them but `POPPED`.

### The supervision

`SupervisionProofs` proves for any number of processes and deaths of the manager,
from `SupervisionAssumption` (`None`, the manager, the reaper and other adopters
are no llama-server):

* `AlwaysSup`: `[]SupInv`.  `Older` says of every process that runs that its family
  is attended to (behind a handle or in a teardown), or is that of a request that
  raised with no scan since (`unscanned`), or that it is `Beyond` reach; at boot, and
  while a scan is under way, the list stands in for what is not attended to.
  `Kin` makes it inductive: the parent of a helper is the head of its family while
  that runs, and outside afterwards, so what a dying leader leaves goes where the
  scans look.  `Listed` is the same of the list, `Stuck` says who can be running
  after SIGKILL, `Noticed` who was signalled, and `Shape` which sidecar is where.
* `HealthIsAlwaysOwn`: `[]HealthIsOwn`.  During a health wait there is no holder and
  the leader is the process just spawned, so what is attended to is its family and
  those in detached teardowns; the exceptions are the two ways the code has to
  spawn beside a survivor, and nothing else.
* `NoneIsOverlooked`: `[]NoneOverlooked`.  A helper of the leader need not have been
  signalled before the last scan, which is what `intra_lifetime_orphan_scan` adds.
* `VerdictsAreAlwaysTrue`: `VerdictsAreTrue`, for each step that ends a
  `reap_orphan`.  By `Listed`, a zombie on the list is one whose adopter does not wait.

### What is only model-checked

Liveness, which is out of the prover's reach: `EveryoneTaken`, `Answered`,
`HolderReleased`, `StreamReleasesWorker`, `RouteEnds`, `RowsAreFinalized` and
`TeardownEnds`.  So is that `Inv` and its like are not vacuous: that the awaits they
speak of are reached is shown by the runs, which fire every action.  No module
declares a RECURSIVE operator: the bounded walk of `_force_cold` is a recursive
function.

## 5. Not modelled, and why

* Observers: the event bus and `/ws/state`, `/status` with `IdleHotTimer`, the log
  pages, the web UI.  They show what happened and nothing waits for them.
* Live configuration: `PUT /api/config` replaces limits in one step.  Deadlines
  pass at any time in the models, so another duration changes nothing; the
  queue does not see a new capacity.
* Conversions of data: request translation, tool-call recovery, the manifest's
  field validators and flag allowlist, path and redirect checks, the SSRF guard.
  Where they decide control (an abort, a rejection, a retry) that outcome is a
  choice of the model.
* Host metrics: the arithmetic of the safety gates, VRAM in megabytes, the tiers
  of `polite_vram`.  The gates' verdict is a choice in `Manager`.
* Two managers on one host: nothing in the code keeps them apart (a finding), so
  there is nothing to check.
* SQLite, its connection pool and the audit table: a row is written at once or
  raises (`AwaitRaises`).
* The installers, images and the model switcher script.

## 6. What remains

The three-state sidecar of `Manager` and the processes of `Supervision` are two
models of one thing whose refinement is not stated: `Supervision` has helpers and
a dying manager that `Manager` has not, `Manager` has exceptions inside a
teardown that `Supervision` has not.  The same holds of `StreamHandshake`,
which takes queued slots in any order where `Manager` asks the queue: that
each run of the manager is one of it is not stated.
