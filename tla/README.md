# CCR gateway: TLA+ models, model checking and proofs

CCR is a local model gateway for coding agents. This directory holds formal
models of those of its parts whose correctness depends on the order in which
things happen. Source paths are relative to `packages/core/src/` unless they
start with another package's name; `PROJECT.json` names, for every definition,
the lines it models.

    cd tla
    tlc -workers 2 -config RequestLogQueue.cfg MCRequestLogQueue    # any run of section 4
    tlapm RequestLogQueueProofs.tla                                 # any module of section 6

1. [The system](#1-the-system)
2. [The plan](#2-the-plan)
3. [The modules and the code](#3-the-modules-and-the-code)
4. [What the runs check](#4-what-the-runs-check)
5. [Where code and documents disagree](#5-where-code-and-documents-disagree)
6. [What is proved](#6-what-is-proved)
7. [What is not modelled](#7-what-is-not-modelled)

## 1. The system

    client --HTTP--> gateway/http, gateway/auth, gateway/limits
                       | gateway/request/pipeline
                       | routing/* (scripts run on worker threads)
                       v
                     gateway/upstream/executor --HTTP--> core gateway (child process)
                       |        \                              |
                       |         providers/credential-pool     v
                       v                                     providers
                     observability/* (request log, raw traces, worker thread, SQLite)

The gateway runs on one Node.js event loop. It spawns a *core gateway* child
process (an external program) that talks to the model providers, worker threads
that evaluate routing scripts, and a *writer worker* thread that owns the
request-log database. Everything else is a timer, a promise or a message on the
event loop, so an action of the models is what runs between two awaits.

### Inventory

Modelled components:

| Component | Source | State | Operations | What is hard | What makes it correct |
|---|---|---|---|---|---|
| Request-log queue and writer | `observability/request-log-runtime.ts`, `request-log-worker.ts`, `request-log-store.ts` (`writeBatch`) | queue, batches in flight, bytes charged, timers and microtasks, the worker with its inbox and mailbox, rows, parked traces | enqueueRecord, enqueueRawTrace, pump, ack, batch-error, worker failure and restart, close, pruning | a crash between COMMIT and ack, replays, two pumps at once, splitting a failed batch, parked updates that another attempt's overwrites | nothing accepted is lost or written twice; an ack means written; a trace that waited for its record is at its row; caps hold; a bad command harms only itself |
| Request-log admission | `observability/request-log-runtime.ts`, `request-log-admission-store.ts` | overlay, list of operations, heartbeat and retry timers; on disk: decisions, waiting traces, leases | remember, mark committed, heartbeat, drain, reconcile, resolve for a raw trace, close | several processes on the same files, leases that run out, late and retried writes, bounded lists | committed means stored; decisions stand; a stored record is not turned away; every trace gets an answer |
| Route-script runtime | `routing/route-script-runtime.ts`, `route-script-worker.ts` | circuits, pending count; per slot the turn, the generation, the worker, the pending call | execute, validate, rpc, hard timeout, worker error and exit, close | stale answers and events of replaced workers, close during calls, chain of turns | one script per worker; answers reach their own call; a circuit opens only on its own failures; calls return |
| Upstream fallback and credential pool | `gateway/upstream/*`, `providers/credential-pool.ts`, `gateway/limits/window-limiter.ts`, `routing/execution-plan.ts`, `routing/failure-classifier.ts`, parts of `gateway/request/pipeline.ts` and `gateway/auth/api-key-authorizer.ts` | the attempt of each request, its failures; shared: limit counters, cooldowns | reserve, attempt, answer, fail, delay, relay, disconnect | requests share counters and cooldowns across awaits; the client leaves at any await | attempts follow the plan, wait between, stop when the client leaves; keys are charged exactly; a failing credential rests |
| Raw-trace spool | `observability/raw-trace-sync.ts` | the directory of each bundle (open, source, staging, inbox, dead letters) and what of it is flushed; the index, cooldowns, observations, the replayer | handle, persist, publish, register, process, startup recovery, refresh, scan, expire, prune | handlers and the replayer rename the same directories between awaits; crashes and power loss at any rename or write | what was acknowledged is kept until it is written or given up; nobody cleans up too early; nothing stays in the inbox for good |
| Media jobs | `media/service.ts`, `storage.ts`, `executors.ts` | jobs in memory and in the file, queue, runs and their abort signals, completions | submit, run (post, poll, retry, download), cancel, time out, start, stop, switch, recover, expire | late results and errors, stop and start around living runs, writes that throw, crashes | the concurrency limits, a request posted by the attempts of one run and one job per idempotency key, a finished job stays so, a video survives a restart, whoever waits is answered |
| Gateway lifecycle | `gateway/application/gateway-service.ts`, `gateway/core-runtime/supervisor.ts`, `gateway-bootstrap.ts` | status, child, server; the persisted marker of the core gateway; the process | start, ensureStarted, stop, exit events, crash of the application | calls that interleave at awaits, failures half-way, also of a stop, late exit events, processes left by a crash | no process or server forgotten; the marker leads to the process; the status is true |

Components not modelled (yet), with what a model would be about:

| Component | Source | State and operations | Correctness |
|---|---|---|---|
| Context archive | `gateway/context-archive.ts`, `context-archive/store.ts`, `features/context-archive-continuation.ts` | snapshots (pending, final, failed) per profile, with retention; create, finalize, fail, ask, clear | a handoff names a snapshot that exists and is final; lineage survives pruning |
| Billing sync | `usage/billing-sync.ts` | events in flight, events seen; ingest | an event is booked once, also when deliveries overlap |
| Provider accounts and models | `providers/account-service.ts`, `model-auto-refresh.ts` | caches, refreshes in flight | one refresh per key; an invalidated entry does not come back |
| Plugins | `plugins/service.ts`, `backend-service.ts` | plugins, routes, backends, stores, stop hooks; start, stop | nothing of a stopped plugin stays registered |
| Proxy mode | `proxy/service.ts`, `system-proxy.ts` | snapshot of the system's settings; enable, restore | the settings are restored, also after a crash |
| Remote control | `gateway/remote-control-service.ts` | sessions, event streams | an event reaches each subscriber once |
| Routing rules and rewriting | `routing/policy-engine.ts`, `rewrite.ts`, `model-resolution.ts`, ... | none: functions of a request and the configuration | precedence of rules against a reference definition |
| Streaming bridges, web search, MCP servers, configuration compiler, profiles, management server, UI, desktop shell, CLI | see `PROJECT.json` | text in and text out, file and process I/O, presentation | unit tests reach them |

### How they interact

* The pipeline awaits the script runtime for routes with scripts, then the
  executor; when a response ends it makes one `enqueueRecord` call. The core
  gateway delivers raw traces to the spool, which calls `enqueueRawTrace` and
  keeps what is answered `record_pending`.
* `enqueueRecord` and the acks of the writer decide admissions; `enqueueRawTrace`
  asks for them. In `RequestLogQueue` the admission of a record is therefore the
  set of answers that `RequestLogAdmission` can give in that state of the record
  (`Admission`), and in `RequestLogAdmission` the queue is reduced to what may
  become of a record (`fate`): each module is the environment of the other.
* The spool offers a bundle to `enqueueRawTrace` again and again until the writer
  has committed it. In `RawTraceSpool` the admission is a decision that may come
  at any time (`Decide`) and the queue with its writer one action (`Write`) that
  may fail; in `RequestLogQueue` and `RequestLogAdmission` the spool is the caller
  that repeats its question.
* The lifecycle starts and ends what the executor sends its attempts to. A core
  gateway that is gone is a failed attempt (`Answer` with no response). The media
  service sends its requests there too; `GatewayService` starts it before the core
  gateway and stops it afterwards (`GatewayUp`, `GatewayDown` of `MediaJobs`).

The hazards of this code, each with its line and the properties that would catch
it going wrong, are listed in `PROJECT.json`.

## 2. The plan

Order: what loses data first, then what wastes money or hangs, then what leaves
processes behind.

1. **Request-log queue** (`RequestLogQueue`), with the abstract specification
   `DurableLog` and the refinement; proofs in `RequestLogQueueProofs`. Done.
2. **Request-log admission** (`RequestLogAdmission`), proofs in
   `RequestLogAdmissionProofs`. Done; pruning left out.
3. **Route-script runtime** (`RouteScriptRuntime`), proofs in `RouteScriptProofs`. Done.
4. **Upstream fallback** (`UpstreamFallback`), proofs in `UpstreamFallbackProofs`.
   Done, without the tool continuation of the context archive.
5. **Gateway lifecycle** (`GatewayLifecycle`), proofs in `GatewayLifecycleProofs`.
   Done for start, stop and the process; `updateConfig` and the proxy's and
   plugins' own starts left out.
6. **Raw-trace spool** (`RawTraceSpool`), proofs in `RawTraceSpoolProofs`. Done.
7. **Media jobs** (`MediaJobs`), proofs in `MediaJobsProofs`. Done, without the artifact
   store.
8. **Context archive** (`ContextArchive`) and its tool continuation, which adds
   upstream requests to an attempt of `UpstreamFallback`; **billing sync**
   (`BillingSync`). Not done.
9. Pure algorithms: rule precedence of the policy engine and model resolution
   against reference definitions, over bounded inputs. Not done.

Abstract specifications worth stating beside `DurableLog`: an exactly-once ledger
(billing), a handoff that names a final snapshot (context archive).

Theorems, in order: the safety properties of the queue and its refinement of
`DurableLog`, of the admission, the lifecycle and the fallback, of the script runtime, the
spool and the media jobs. Done, see section 6: every invariant and every action property
that a passing run checks is a theorem. Next: an abstract specification of the spool, and
the theorems of the components that are not modelled yet.

The modules are written for this: parameters are CONSTANTS with named
assumptions, an operation is one action, invariants are conjunctions of parts,
and no module that has proofs, or will have them, declares a RECURSIVE operator.

## 3. The modules and the code

Each module has operators beside its definitions that are marked as mutants, or
whose comment describes a plausible mistake. `PROJECT.json` says which definition
each would replace and which property then fails; the specifications do not use
them.

### RequestLogQueue, DurableLog

| State | Code |
|---|---|
| `queue`, `inFlight`, `batchId` | `this.queue`, `this.inFlight` (flattened to entries that name their batch), `nextBatchId` |
| `outstandingBytes` | `this.outstandingBytes` |
| `flushTimer`, `microtasks`, `awaiting`, `restartTimers` | `flushTimer`; pumps queued as microtasks; continuations suspended in `await this.ensureWriter()`; restart timers |
| `writer`, `thread`, `inbox`, `written`, `mailbox` | `writerWorker` with `writerWorkerReady`; the thread; `postMessage` in both directions; whether the thread has committed the batch at the head |
| `rows`, `applied`, `pendingTraces` | rows of `request_logs`; bundles taken to their row; `request_log_pending_updates` |
| `fate`, `bare` | history: what became of an event; whether its bodies were removed |
| `replaced`, `discarded` | history: parked updates that another attempt's overwrote; updates too large to park or pruned, and records of an earlier day |

`EnqueueRecord` and `EnqueueTrace` are the two entry points with the pressure
rules at 70 and 95 per cent. `PumpEnters` and `PumpSends` are the halves of
`pump` around its await; `HandleAck` and `HandleBatchError` the messages,
`HandleWriterFailure` and `RestartTimerFires` the crash path, `Close` and
`FinishClose` the halves of `close`. A macrotask runs only when no microtask is
left. `ThreadCommits` and `ThreadAcks` are separate because the thread may die in
between. Sizes are numbers chosen by the instance. Of the query RPCs only their pruning
is modelled (`PruneOldRequestLogs`, on the first command or query of a day): they change
nothing else. Two batches can be in flight, although `pump` starts only when none
is: it does not look again after its await.

A record may have several traces: each attempt at a provider has a bundle, and all
bundles of a turn carry its request id. A trace that finds no row is parked, but the
table of parked updates has one row per request id, so a later update overwrites an
earlier one that may be acknowledged; one that is too large is not parked at all; and
each attempt to park prunes by age, number and bytes. `StoreBatch` computes what a
transaction does to rows and parked updates from the order of its commands (`Late`,
`Parked`, `NotParked`, `Taken`), with any choice of what is pruned. `applied` says that a
bundle was taken to its row, also where it refines nothing there because it is not that
of the last attempt. The spool's updates are `Deferred`: they are turned away until their
record is decided, so they are not parked unless the record was pruned since. The
other traces stand for callers that do not ask for that.

`DurableLog` says what a caller may rely on: what is stored stays until its record is too
old, except *weak* events, which a transaction may displace. `RequestLogQueue`
implements it with `stored <- Stored` (rows, parked traces, and traces taken to a row that
is still there), `given <- GivenUp` and `Weak <- Traces \ Deferred`.

### RequestLogAdmission

| State | Code |
|---|---|
| `connected`, `ops`, `backoff` | `admissionStore`, `admissionOperations`, `admissionRetryTimer` of each runtime |
| `overlay` | `admissionOverlay`; a record has at most one decision of each state, so the state stands for the version |
| `admission`, `waiting`, `lease` | tables `request_log_admissions`, `request_log_raw_admission_pending`, `request_log_admission_runtimes` |
| `fate`, `rows` | what the queue did with a record; `request_logs` |
| `told`, `evicted`, `lapsed` | history: final answers to traces; records of which something was given up; runtimes that lost their lease while running |

`RunOperation` is one turn of the loop in `drainAdmissionOperations`, because its
time slice may end after any turn; a submitted operation may thus run at once or
later. `Beat` is `heartbeat` with its reconciliation, which may fail as a whole.
`StoreFails` is `handleAdmissionFailure`: after a lock the store stays open, after
any other error it is closed, which deletes the lease. A lease of a runtime that has
ended runs out at some time (`LeaseRunsOut`); one of a running runtime only by a
`Stall`, of which there are at most `MaxStalls`. An unreadable request-log file makes
the answer "pending", which is as good as not asking.

### RouteScriptRuntime

| State | Code |
|---|---|
| `circuit` | `circuitStates` |
| `status`, `slotOf`, `genOf` | where a call of execute or validate is; its slot and the generation it saw |
| `line` | the promise chain `this.turn` of a slot, as the calls inside `rpc` in order |
| `generation`, `current`, `threads` | `generation`, `this.worker`, and all threads ever started with their life and job |
| `replies` | answers posted and not delivered |
| `closing`, `awaited` | a close() that waits for calls and terminations |

A call without a turn waits for the one before it; at the head it waits for the
worker (no timer), sends, and waits for the answer or the hard timer. Results
`error` and `timeout` differ in name only. A script may run forever; a worker may
fail with an uncaught error, and its events are delivered even after it was
replaced.

### UpstreamFallback

| State | Code |
|---|---|
| `stage`, `index`, `chain`, `saturated`, `failed`, `wake` | the loop of `fetchUpstreamWithFallback`: attempt, credential chain, `failedAttempts`, the delay |
| `gone` | the request's abort signal |
| `counter` | `apiKeyLimitCounters`: of each owner and rule the last window, as older ones are never read again |
| `cooldown` | `providerCredentialCooldowns` |
| `now` | `Date.now()`; beyond `MaxTime` it runs only for a delay under way |
| `admitted`, `last`, `forced` | history: when a request was admitted, the last outcome of a credential, attempts sent with every credential exhausted |

`Plan` is `createRouteExecutionPlan`; `ShouldFallback` the classification of a
status; `Charge`, `Fits`, `Utilization` the counters and limits. An answer names the
credential it came from, another one, or none, as the core gateway likes
(`ChargedTo` does what the code does with each). Requests have a body; the cost of a
request is a number per rule. The continuation for archived context is left out.

### RawTraceSpool

| State | Code |
|---|---|
| `at`, `flushed` | in which directory a bundle is, and where a power loss may put it back to: a rename is certain only when both directories are flushed |
| `whole`, `safe`, `ready`, `saved` | are the parts as written, and flushed; `.ccr-ready.json`; `.ccr-delivery.json` |
| `dir` | who gave a directory its name in staging, which has a random part |
| `actor` | where each request handler, and the loop of the replay timer, is between two awaits, and on which bundle |
| `index`, `delivery`, `cooling` | `inboxIndex.bundles`, their `delivery`, and the entries of `retryStates` that lie in the future |
| `observed`, `overdue`, `todo`, `pass` | `sourceObservations`, those without activity for the grace period, what the scan and the pass have still to visit |
| `started`, `storageReady`, `loaded` | `start()` was called; the startup recovery is done; is there an `inboxIndex` |
| `queue`, `rows`, `cleaning`, `committed` | updates in the request-log queue; those committed to the log; acknowledged ones to be removed; history: those ever committed |
| `hollow`, `unread` | history: updates written without their bodies; bundles of which a part could not be read |
| `finished`, `posts`, `told`, `ended` | the producer; history of what it was told and what was done to a bundle |

`Post`, `Claim`, `Prepare`, `Publish`, `Flush` and `Register` are `handle` with
`persistRawTraceBundle` and `publishStagedRawTraceBundle` from await to await; the
scan (`Scan`) and the startup (`Recover`) run the same procedures. `Take` and `Offer`
are `processStoredBundle` before and after `enqueueRawTrace` answered. `handle` accepts a
post before `start()` and after `stop()` too, and then loads the index itself. Reading a
part (`readRawTracePart`) swallows every error, by `Take` and by the writer alike: the update
goes on without the body. Changes of
the index are under a lock (`withStorageMutation`) and one step each. Bytes are not
modelled: that a limit in bytes is exceeded is an error that may always occur, and
so are an age and a failing write (all of them count as trouble). The decision on a
record may come at any time, or never; the writer may skip, fail or be slow.

### MediaJobs

| State | Code |
|---|---|
| `jobs`, `file` | `MediaJobStore.jobs` (status and whether the remote request id is known) and `jobs.json` |
| `running`, `stopping`, `halting`, `enabled` | the fields of that name; a `stop()` that waits; `config.mediaTools.enabled` |
| `queue`, `active`, `completions` | `this.queue` and the keys of the two Maps |
| `run` | the await a run is at, its attempt, its abort signal |
| `waits` | which job an image call waits for |
| `gateway` | does the core gateway answer |
| `posted`, `spoiled` | history: how often the request of a job was posted, by every attempt of `executeWithAttempts`; jobs for which a write threw |

`update` changes memory, then writes the file, and the write may throw: then memory
is ahead until the next write. Every action that writes has that outcome, and the
exception goes where the code lets it go: into the run's catch clause (`Caught`), out
of `run` before its try (`bad` in `Schedule`), out of `recoverInterruptedJobs`, or out
of `stop()` with the queue kept (`StopEnds`). A run that was aborted by a
cancellation, its timeout or `stop()` sees it at its next await, a download possibly
much later. `GatewayService` calls `start` and `stop` one after the other. Limits do
not change while jobs run, and only inactive jobs expire (they are 30 days old).

### GatewayLifecycle

| State | Code |
|---|---|
| `state`, `child`, `server` | `status.state`, `this.child`, `this.server` |
| `open` | servers that listen on the gateway port |
| `marker` | the persisted runtime state that names a core gateway |
| `proc`, `orphans` | core gateways: life, pending signal, delivered exit event; those of a crashed application |
| `pc`, `phase`, `seen` | where each call is; what the stop inside it is for; the process the marker named |
| `asked`, `stale` | history: the call begun last is a stop(); the last stop() failed before it wrote the state |

A start spawns at most one process and opens at most one server, so both are named
after it. Health polls end either way at any time. Writes of the marker
run in microtasks of the step that causes them and are part of it. `listen` is one
step. The core host is loopback: the configuration loader forces it. `StopEnds` may fail:
after child and server are gone `stop()` awaits `mediaService.stop()`, which writes its jobs
and may throw, and then the state is not written. A start may be refused for its
configuration before it stops anything, and one that opens a server only may still fail
when the proxy cannot attach.

## 4. What the runs check

Every run but the three of section 5 passes. Deadlock checking is off except for the spool,
whose timers never end: elsewhere callers run out of calls in a finite instance and the
system may then stop.

| Run | Shows | Instance and why it is enough |
|---|---|---|
| `queue` | `NoneLost`, `CapsHold`, `AckedIsStored`, `WrittenOnce`, `TraceMeetsRecord`, `OnlyPoisonDropped`, `ImplementsDurableLog`, `EveryEventSettles` | Two records, one never writable, and the raw traces of two attempts of the other, one deferred; a queue of 3 items and 7 bytes, batches of 2; two attempts instead of three; one crash, one transient failure, one end of a day, `close()` at any point. A record and a trace put the queue beyond 70 per cent, so bodies are removed; three events fill it, so events are refused. Two batches in flight, a split batch, a replayed one, an overwritten and a pruned update all occur. No trace is too large in the run; the theorems cover those. 1.6 million states, about 3 minutes. |
| `admission` | `CommittedIsStored`, `DecisionStands`, `StoredNotRejected`, `EveryTraceAnswered` | One record, its runtime and another one; a list of two operations, so a heartbeat and two decisions overflow it; one SQLite error, one expired entry, one stalled runtime, crashes and `close()` at any point. Records interact only through that list, where the heartbeat takes the place of the others' operations. |
| `script_slot` | `AnswersItsOwn`, `EveryCallReturns` | Two executions and a validation on one slot, one uncaught error, one `close()`. Slots share nothing but circuits and the pending limit. |
| `script_pool` | `OpensOnFailures` | Two executions of a rule, a test run and a validation on two slots, limit and threshold of two, a clock of one window. The two executions are symmetric. |
| `upstream_attempts` | `NoAttemptAfterDisconnect`, `EveryRequestEnds` | A chain whose list repeats its first model and a request that retries; statuses of every class, a Retry-After of 0 and one beyond the cap; both may be abandoned by their clients. |
| `upstream_pool` | `KeyAllowanceExact`, `OvershootBounded`, `FailureSidelines` | Three requests, one of which retries, on two credentials, one with a limit of one, under a client key with a limit of two; a window and a cooldown of two ticks. Three requests pass one check together; the two alike are symmetric. There is one rule; keys with several are covered by the theorem only. |
| `lifecycle` | `NothingForgotten`, `StatusTruthful`, `EveryCallReturns` | Four starts (an ordinary one, one without a core gateway, one by `ensureStarted`, one of a disabled gateway) and a stop, one after the other in any order, refused configurations, stops that fail, one core gateway that dies or ignores its signal, and one crash of the application. 1.3 million states, about 2.5 minutes. |
| `spool` | `AckedIsKept`, `BodiesLostForAReason`, `FinishedIsSettled`, `InboxDrains` | One bundle, one handler and the replayer, one error, change of the settings, stop, crash or power loss at any point, one attempt. Bundles interact only through the limits of the inbox, and those may strike at any time as trouble. The safety properties also hold with two posts, which lets a retry meet its own first post. |
| `media` | `RunsWithinLimits`, `PostedByOneRun`, `NothingStranded`, `FinishedStays`, `VideoSurvivesStop`, `EveryJobSettles` | Two images, one with an idempotency key, and a video with one; slots of one, two attempts; cancellations, timeouts, stop and start at any point and any number of times, and one failed write, crash, expiry or switching off. The images compete for a slot; the video resumes beside them. The call with the key is repeated at any time; two jobs of a kind with one key are covered by the theorem only. |

What the properties mean, in words, stands above each of them in its module.
`TypeOK` is checked too. The bounds are the constants named `Max...` that comments
call bounds: crashes, faults, stalls, expired entries, trouble, posts, calls of
`close()`, days, time. All of them only limit how often something may happen, not when.

`lifecycle` is about calls that do not overlap (`Overlapping = FALSE`): with
overlapping calls `NothingForgotten` does not hold in the model, and no document
promises it. The application serialises most calls, not all; see the hazards.

### Fairness

* `RequestLogQueue`: microtasks, timers, message handlers and a living thread go on.
  Node.js runs them all, and the worker answers every batch it is given.
  Callers, crashes and `close()` are not fair; crashes and transient failures are finitely
  many, without which the code promises nothing (a command that kills the thread each
  time is retried forever, see the hazards).
* `RequestLogAdmission`: timers of running runtimes, the list of operations, the
  queue's verdict on accepted records (`EveryEventSettles` of `RequestLogQueue`
  gives it), leases that run out with time, and the spool, which replays a trace until it
  is answered. `Start` is fair: the property speaks of traces that somebody asks for.
* `RouteScriptRuntime`: the event loop, the hard timers, and threads that become ready
  or end. No fairness for scripts, for uncaught errors or for callers.
* `UpstreamFallback`: callbacks and the clock. A fetch and the drain of a body settle,
  because undici gives up on headers and on a silent body after five minutes.
* `GatewayLifecycle`: awaited promises settle; each has a timer or ends with a process.
* `RawTraceSpool`: the interval timer and with it the replayer's procedures, its
  cooldowns and quiet periods, and offers under way (`stop()` waits for them). A pass
  looks at the directories every five seconds, whatever the passes between do: strong
  fairness of `ReplayWithScan`, since each pass may be one without a scan. Nothing is
  assumed of the producer, the publishing handlers, the writer or the admission.
* `MediaJobs`: the timers of runs fire, an aborted run ends, and so does the wait of
  `stop()`. Nothing is assumed of callers, providers, the core gateway, or whoever
  starts and stops the service.

All of it but `ReplayWithScan` is weak fairness.

## 5. Where code and documents disagree

Each run below checks one property that states what a document or a test says, and TLC
finds a behaviour of the code against it.

| Run | Property | The document | The behaviour |
|---|---|---|---|
| `script_circuit` | `StaysOpen` | the routing docs (quoted in `PROJECT.json`): an open circuit stays open for its time | an execution that was admitted before the circuit opened succeeds and deletes the circuit's state |
| `lifecycle_stop` | `StopHolds` | the user interface offers Stop while the gateway starts and reports it stopped | a start under way is not cancelled and opens its server after the stop |
| `spool_torn` | `TornIsIsolated` | the test "raw trace isolates incomplete source bundles under the same bounded retention" | a finished bundle with a part shorter than its manifest is taken to staging and put back by every scan, which counts as activity, so its quiet period never passes |

Seen while modelling, without a run of their own:

* After an SQLite error that is no lock a runtime closes its admission store, which
  deletes its own lease; another runtime then takes its pending admissions for
  interrupted and rejects them, although a test says that those of a live runtime are
  left alone. `lapsed` in `RequestLogAdmission` marks the cases, and `DecisionStands` and
  `StoredNotRejected` except them.
* The use of a credential is compared when an attempt starts and charged when its
  answer arrives, so requests in flight together exceed a limit the provider docs
  describe as one that is never exceeded; `OvershootBounded` says by how much at most.
* A video that is resumed by `start()` polls before the core gateway is up; the error
  is not retryable, and the video is given up.
* A run of a media job whose first write throws never frees its slot and never answers
  its caller; a write that throws in `stop()` leaves canceled items in the queue.
* When two starts of the gateway overlap, nobody ends what the first one opened.
* A `stop()` of the gateway that fails half-way (the media jobs cannot be written) rejects and
  leaves the state at "running" with neither child nor server; `ensureStarted` then does
  nothing. `stale` marks it in `GatewayLifecycle`, and `StatusTruthful` says what still holds.
* An update that is acknowledged while it is parked may be overwritten by another attempt's,
  refused for its size, or pruned; for the spool, which deletes the bundle of an
  acknowledged update, this matters only after its record was pruned (`AckedIsStored`).
* A part of a bundle that cannot be read for a moment is left out of the update for good,
  and the bundle is removed after its ack.
* An uncaught error of a script worker that arrives while the slot serves the next call is
  charged to that call's rule.

## 6. What is proved

The theorems hold for every value of the constants: any number of events, runtimes,
calls, requests and credentials, every cap, cost and size, any number of crashes and
failures, and runs without end. TLC checks the same formulas on the instances of
section 4.

| Module | Theorem | Statement |
|---|---|---|
| `RequestLogQueueProofs` | `TypeCorrect` | `Spec => []TypeOK` |
| | `NothingLost` | `Spec => []NoneLost` |
| | `AcksAreDurable` | `Spec => []AckedIsStored` |
| | `ReplayIsIdempotent` | `Spec => []WrittenOnce` |
| | `RecordMeetsTrace` | `Spec => []TraceMeetsRecord` |
| | `QueueStaysWithinCaps` | `Spec => []CapsHold` |
| | `OnlyPoisonIsDropped` | `Spec => []OnlyPoisonDropped` |
| | `QueueImplementsLog` | `Spec => ImplementsDurableLog` |
| `RequestLogAdmissionProofs` | `AdmissionTyped` | `Spec => []TypeOK` |
| | `CommittedMeansStored` | `Spec => []CommittedIsStored` |
| | `DecisionsStand` | `Spec => []DecisionStands` |
| | `RejectedOnlyIfLost` | `Spec => []StoredNotRejected` |
| `GatewayLifecycleProofs` | `LifecycleIsTyped` | `Spec => []TypeOK`, if `~Overlapping` |
| | `NothingIsForgotten` | `Spec => []NothingForgotten`, if `~Overlapping` |
| | `StatusIsTruthful` | `Spec => []StatusTruthful`, if `~Overlapping` |
| `UpstreamFallbackProofs` | `FallbackIsTyped` | `Spec => []TypeOK` |
| | `NothingSentAfterDisconnect` | `Spec => NoAttemptAfterDisconnect` |
| | `FailedCredentialsRest` | `Spec => FailureSidelines` |
| | `KeyIsChargedExactly` | `Spec => []KeyAllowanceExact` |
| | `OvershootIsBounded` | `Spec => []OvershootBounded` |
| `RouteScriptProofs` | `TypesHold` | `Spec => []TypeOK` |
| | `CallsAreAnsweredTheirOwn` | `Spec => []AnswersItsOwn` |
| | `CircuitsOpenOnFailures` | `Spec => []OpensOnFailures` |
| `RawTraceSpoolProofs` | `TypesHold` | `Spec => []TypeOK` |
| | `AcknowledgedBundlesAreKept` | `Spec => []AckedIsKept` |
| | `BodiesAreMissingForAReason` | `Spec => []BodiesLostForAReason` |
| `MediaJobsProofs` | `TypesHold` | `Spec => []TypeOK` |
| | `LimitsAreKept` | `Spec => []RunsWithinLimits` |
| | `PostsAreOfOneRun` | `Spec => []PostedByOneRun` |
| | `NobodyIsStranded` | `Spec => []NothingStranded` |
| | `FinishedJobsStay` | `Spec => FinishedStays` |
| | `VideosSurviveStop` | `Spec => VideoSurvivesStop` |

`OrderLemmas` holds what several of them need about finite orders and numbers: a set of
numbers has a least and, if finite, a greatest element, in a finite linear order every
rank is taken, and (`OnlyKeeps`) what `Only` of `Sublists` leaves of a list: the
elements asked for, each as often as before and in their order. The spool and the media
jobs filter their lists with it, because `SelectSeq` is a recursive definition about
which the library has no facts. The library's induction theorems take an operator as a
parameter, which the installed provers cannot instantiate, so whatever needs induction
(sums, ranks) is shown through the least counterexample.

The theorems assume the named assumptions of the modules and nothing else:
`EventAssumption`, `SizeAssumption` and `LimitAssumption` (finitely many events, records
and traces apart, each trace of one record; positive sizes, caps and attempts;
removing bodies adds no bytes), `AdmissionAssumption`, `LifecycleAssumption`,
`FallbackAssumption` (finitely many requests, credentials and rules; the credentials of
one provider have different places in its list; limits, costs and windows are numbers,
windows positive), `CallAssumption` and `NumberAssumption` (finitely many calls, only
executions guarded by a rule; positive slots, limits and times), `SpoolAssumption`
(finitely many bundles, positive limits) and `MediaAssumption` (finitely many jobs, none
both image and video; positive limits and attempts). Those of the lifecycle have one
hypothesis more: that calls do not overlap.

### The queue

None of the properties but the types is inductive. That an acknowledged event was written
needs to be known when the ack is *heard*, which is long after the commit: the batch may
have been put back, renumbered and sent again by then, and the ack may be of a dead
worker. *Written* (`Written`) means: in the database, or displaced by its policies. The
inductive invariant `IInv` has that acknowledged events are written, and adds:

* `Numbered`: batch numbers in flight are at most `batchId`, so the number of a
  new batch is fresh and an old answer never meets a new batch;
* `Inboxed`: what is in flight under the number of a message in the inbox is among
  the events of that message, and no number is beyond `batchId`;
* `Committed`: a thread that has committed has written the events of the message
  at the head of its inbox;
* `Answered`: what is in flight under the number of an ack in the mailbox is written;
* `GoneWhenClosed`: a worker that is gone while its ready promise stays resolved
  is one that `close()` shut down; only then a late pump takes commands out of the
  queue and loses them, which `NoneLost` allows after `close()` alone.

`Inductive` proves `Spec => []IInv` with one lemma per action; the actions that move
entries between queue and flight rest on lemmas about sequences of entries
(`ConcatEvents`, `CutEvents`, `SplitEvents`, `RequeuedEvents`): which events the
parts hold, and that no event appears twice.

`StoreInv` is about the database alone: rows and refinements happen at most once, a parked
trace has not been applied and has no row to refine, and an overwritten one has a successor
that is parked, applied or discarded. For the last part `LastIsParked` looks for the last
command of a batch that parks an update of a given record: it is parked, unless pruned or
taken along. Every transaction keeps `StoreInv`, which gives `ReplayIsIdempotent` and
`RecordMeetsTrace`.

`DeferredInv` says what an acknowledgement is worth to the spool: a deferred trace was let
into the queue only after its record was stored, so its transaction finds the row and takes
it there, unless that row was pruned; hence it was never parked, overwritten or pruned
itself while its record is kept. With `IInv` this is `AcksAreDurable`.

`BatchInv` is for what the worker does: the *whole* of a batch in the inbox is in flight
(`Whole`; `Inboxed` says the converse), a batch is in the inbox once and never beside its
answer (`Apart`), a dead worker has no inbox, and while no healthy write fails, what is
still in flight under the number of an error contains an event that cannot be written
(`Blamed`). So a batch of one that fails for the last time is that event, which is
`OnlyPoisonIsDropped`; and a commit stores accepted events only, which is what the
refinement needs. A transaction maps to `Log!Store`, giving up events that are weak or whose
record was given up (`StoresAndLeaves`), the end of a day to `Log!Expire`; every other action
maps to one step of `DurableLog` or leaves `fate`, `Stored` and `GivenUp` alone.

`QueueStaysWithinCaps` is about sums of sizes over sequences. `PrefixSteps` gives the
recursion of the running sum, and from it follow the sums of appended, cut, filtered and
requeued sequences; the invariant is `CapsHold` with `IInv`.

### The admission

`IInv` has the types and: `ListInv` (a list holds operations of its own runtime, in order:
of two decisions on a record the first is "pending"), `OverlayInv` (an overlay entry is the
latest decision and stays until that decision is written), `WrittenInv` (the decision on a
record is in the list or has reached the file, unless the list gave it up), `LeaseInv` (a
running runtime that kept its lease has a valid one or has not used its store, so a
reconciliation decides for owners that are gone or lapsed only), `AdmissionInv` ("pending"
names its owner, "committed" and every answer "committed" have their row), and `RejectedInv`,
which lists the ways in which a record may be on file as rejected.

### The lifecycle

With one call at a time (`Sole`), `Stages` says what each call finds in `this.child` and
`this.server` at each await, `Unspawned` that a start has no process before its spawn,
`Attended` and `Listening` that every unsignalled process is `this.child` and every open
server `this.server`; a crash moves what runs to `orphans`.
`StatusTruthful` is part of the invariant: between calls it could break by the exit event
that is still to come, and by a `stop()` that failed before it wrote the state. While that
is `stale`, child and server are gone, whatever the state says, until a stop succeeds.

### The fallback

`Typed` has the types and the progress of each request in its plan. `OrderedType` shows
that a chain lists candidates and nothing else: the ranks are linearly ordered
(`LessIsLinear`), so by `EveryRankTaken` each place of the order is filled. `Sidelined` (a
credential that failed last cools down for the whole time) gives `FailedCredentialsRest`,
and `Departed` (nothing was relayed to a client that left) `NothingSentAfterDisconnect`.

The limits rest on sums over sets (`SumSteps`, `SumType`, `SumAdds`) and on two facts about
windows: a charge adds to the window it was checked in (`ChargeAdds`), and time leaves a
window as it is or opens one in which nothing is used (`TimePasses`). `OvershootBounded`
is not inductive: that the use stays within its bound after the next charge depends on
how many requests have passed the check and are not yet charged. `Within` says it: among
the requests in flight on a credential there is one (the last to pass the check) whose cost
still fits when each of the others has paid the highest cost. Charging any of them, letting
one fail, opening a window and admitting another one keep that (`WithinCharges`,
`WithinShrinks`, `WithinJoins`); a use that was forced raises the bound by as much as it
may cost (`WithinRises`).

### The script runtime

A call waits for its slot, its worker and an answer, and each of these may be replaced
meanwhile. `LinesOK` says that the line of a slot holds exactly its calls in flight, each
once, and that only its head has had its turn; so no call is sent twice. `AnswersOK` is
`AnswersItsOwn` made inductive: what a worker evaluates, or has answered, is the call of one
worker alone and was sent, and not yet answered well, so an answer that arrives can only
settle the call it was made for. `CircuitsOK` relates a circuit to history: its list is no
longer than the failures that its rule's executions really had, and it is open only with
`Threshold` of them. A success empties the list, and what leaves the window shortens it.

### The spool

`SpoolInv` has a part per bundle, per actor and for the lists.

* `BundleOK`: where a directory is and where a power loss may put it back to. A bundle
  outside the inbox is where the disk knows it to be; one in the inbox may fall back to
  staging, but then has its ready file, which exists only when its parts are flushed.
  That, and not the rename, is what an acknowledgement rests on.
* `ActorOK`: what a handler or the replayer relies on after each await, though others may
  have renamed, removed or offered the bundle since. `Present` is the key of it: who is
  about to offer a bundle finds it in the inbox, or it is accounted for, being written,
  dropped, moved to the dead letters, or removed with recording off.
* `ListsOK`: the same for every bundle in the index, in a pass and in the writer's queue;
  an update that is queued without its bodies is accounted for: by its row, by a dropped
  record, or because it was moved, removed or could not be read. One without a row whose
  record was not dropped is left with the last three, which gives `BodiesLostForAReason`.

That an actor's assumption survives a step of another actor would take a proof for each
pair of steps. `Calm(b)` cuts that down: it is what any step but a crash leaves true of
a bundle, each action is shown to be calm once, and from it alone every actor that did
not move keeps its `ActorOK`. A crash has no actors left; there, `BundleOK` has to carry
everything that the startup relies on.

### The media jobs

Most handlers change memory, queue and active jobs, write the file, and then call
`schedule()`, which starts as many runs as there are slots and may fail at its first
write. So the invariant is an operator of that state: `Sound(jobs, file, queue, active, run,
posted, spoiled)`. A handler is shown to *leave* something sound, and `ScheduleIsSound`,
proved once, says that `Schedule` makes a sound state of it. `HandlerThenSchedule` joins
the two.

* `JobOK` relates the four places of a job: its posts are those its run has
  counted, and a posted job is in memory and in the file. The parts that make the
  properties inductive are about the file: no restart forgets the posts, and a
  video that could still be resumed is not failed there.
* `ItemOK`: an entry of the queue is a job never posted, or a video to resume; so no second
  run posts.
* `KeysOK`: of the jobs with one key only one exists, in memory and in the file; the second
  matters because a restart loads it.
* `SlotsOK` and `ServiceOK`: the active jobs of a kind are within its limit. As a run ends
  only by freeing its slot, `RunsWithinLimits` follows from there being no run without a
  slot (`JobOK`). A new service has nothing active; after `stop()` what still runs, a
  download perhaps, is aborted, and so it stays until its run ends in a later start.
* `Served`, while no write has failed (`spoiled = {}`): what is unfinished or awaited is in
  the queue or has a run. This is `NothingStranded`; the part that makes it inductive is that
  no job is active without a run. `ScheduleServes` is the corresponding fact about `Schedule`.

The two action properties are steps of the same proof: `StepOK`, shown for each action, has
`MediaInv'` and beside it `StaysFinished` and `KeepsVideos`.

**Only model-checked** is liveness, which is beyond the proof system: `EveryEventSettles`,
`EveryTraceAnswered`, `EveryCallReturns`, `EveryRequestEnds`, `FinishedIsSettled`,
`InboxDrains` and `EveryJobSettles`; and the three properties of the runs of section 5, which
do not hold.

## 7. What is not modelled

* Formatting, parsing, SQL queries, streams and files: data that no property tells
  apart.
* The components of the second table of section 1. Those named in the plan come next;
  the others are sequential translations of data, or I/O of external programs, that
  tests reach well.
* Most of the repository's lines are of these kinds: pages of the user interface, the
  desktop shell, the translation of requests and configurations, profiles of other
  programs, bundled plugins. The models cover the code whose behaviour depends on the
  order of events, which is a small share of the lines.
* Of the modelled components: query RPCs of the log, the pruning of admissions after
  48 hours, the body policy they carry, `updateConfig` and its script compilation,
  the starts of proxy and plugins within a start of the gateway, the tool continuation
  of the context archive, streaming of a relayed response; of the queue the expiry of
  remembered bundle ids and a change of day within one transaction; of the spool the bytes of
  parts, the settings that keep bodies out of the log, and the limits of the inbox, which may
  strike at any time; of the media jobs the
  artifact store and the content of requests.
* The core gateway itself is not in this repository. It is what the code
  expects of it: a process that becomes ready, dies or ignores signals, and a
  server that answers with any status, or not at all.
