# Verification of ltx-server

TLA+ modules, TLC configurations and TLAPS proofs for the single-GPU video
generation server in `src/src/ltx_server/`. The server is one asyncio process:
HTTP handlers, one worker task, one cleanup task, and one thread that owns the
GPU. Clients upload media, submit generation jobs that wait in a bounded FIFO,
poll or cancel them, and download the result until it expires.

## 1. Inventory

| Component | Code | State | Operations |
|---|---|---|---|
| Job status machine | `jobs/state.py` | status, progress, time stamps of a job | `can_transition`, `transition` |
| Job manager and repository | `jobs/manager.py`, `jobs/repository.py` | job records, FIFO, worker slot, `_accepting`, `_wake`, per-job cancel event, readers, `delete_pending` | `submit`, `get`, `delete`, `begin_download`, `end_download`, `expire`, worker loop, `_process`, `_report_stage`, `start`, `stop` |
| Managed storage | `media/storage.py` | three directories, their locks | open, close, create, publish, remove, list by age |
| Asset manager | `media/assets.py`, `api/assets.py` | asset records, leases, ids being uploaded | `upload`, `get`, `acquire`, `release`, `delete` |
| Cleanup worker | `jobs/cleanup.py` | none of its own | `sweep`, at start and periodically |
| Lifespan | `main.py` | what is started | start, orderly stop |
| Generation endpoints | `api/generations.py`, `api/queue.py` | the response that pins an output | submit, poll, delete, download |
| Pipeline manager | `inference/manager.py` | cached runtime and its key, status, shutdown flags, executor | `initialize`, `generate`, `begin_shutdown`, `close` |
| Runtime, retained models | `inference/runtime.py`, `inference/lifecycle.py`, `inference/conditioning.py` | what is on the GPU, per-request conditioning | `generate`, `close` |
| Bounded media processes | `media/processes.py`, `media/ffmpeg.py`, `media/video_inputs.py` | child process, deadline, output size, pipe | run, poll, write, cancel, kill, reap |
| Request normalisation | `schemas/generation.py`, `image_inputs` | the request as completed so far | validate, complete, validate again, name the inputs |
| LoRA catalogue, model inventory | `inference/loras.py`, `inference/models.py` | catalogue | scan, select, key |
| HTTP plumbing, configuration, scripts | `api/*`, `errors.py`, `logging.py`, `config.py`, `src/scripts` | per request | |

### How they interact

* The generation endpoints call the job manager synchronously on the event
  loop. A download is a pair of calls: `begin_download` when the response object
  is built, `end_download` in the `finally` of its `__call__`.
* `submit` calls `AssetManager.acquire`, which either leases every input or
  none; the lease is released when the job ends.
* The worker takes the oldest job, creates its partial file, and awaits
  `backend.generate`, which calls `_report_stage` back on the loop. Cancellation
  of the running job only sets its event: slot, inputs and partial file stay
  until the backend has returned.
* The sweep reads the records of both managers, then reaps the directories:
  whatever no record, upload or reader protects and is old enough goes.
* The pipeline manager hands each call to its only thread and awaits it. Loop and
  thread share two events (the job's cancel event and `_stop`), the status, and
  the callbacks the thread posts with `call_soon_threadsafe`. LoRA files belong
  to the operator, who may replace them at any moment.
* The lifespan locks the directories, then sweeps before the worker is started; at
  the end it stops the manager, waits for the worker, gives the locks back and
  lets the process end. Records, leases and the queue are memory only, the
  directories outlive the process.
* In a generation the thread calls FFmpeg and ffprobe, one child process at a time:
  to probe and prepare a source, to decode sound, to encode or copy the result, to
  inspect it. Each call polls its child against a deadline and the cancel event.
* `submit` completes the request under the settings and validates it again; the
  result names the assets to lease, and later the images the pipeline asks for.

### What is hard

* **Interleaving.** Everything on the loop is atomic between two awaits, but an
  upload, a response, the worker, and the cleanup task each have awaits where
  all others run. Clearing and awaiting `_wake` are two statements.
* **Cancellation racing completion.** A DELETE lands while the backend returns,
  while a download holds the file, or after the job has already failed.
* **Retention.** A deadline held in memory and an mtime held on disk say the
  same thing twice, and both move: grace after a download, publication time,
  deletions put off to the last reader, leases that outlive an asset's deadline.
* **Failure.** An unlink that raises, alone, in the `finally` of an upload that failed,
  or in the middle of a sweep, a published file somebody removed, a kill that leaves
  partial files and outputs nobody has a record of.
* **Child processes.** A child may hang, write too much, stop reading, or exit
  between any two statements that look at it; a kill is not a reaped child.
* **Rounding.** Durations become frame counts of the form 8k+1, while windows and
  keyframes were given for the duration.
* **Several processes.** Two servers, or an old one and its successor, whose
  directories overlap.
* **Threads.** Cancelling an awaiting task does not stop a thread, an event may be set
  between the check of it and what the check allowed, a file can change between its
  `stat` and its load, and the GPU has room for one runtime.
* **Termination.** An admitted job must end, a shutdown must end, deferred
  deletions must happen, and everything on disk must eventually be reclaimed.

`PROJECT.json` lists each hazard at its line with the properties that cover it.

### What makes each component correct

* Status machine: work only moves forward; of the terminal statuses only
  `complete` can be left; no handler asks for a transition it refuses.
* Job manager: the FIFO is exactly the queued jobs; at most one job is active and it is
  the one in the slot; no wake-up is lost; a cancelled job publishes nothing; a job that
  is complete has its file and its deadline and no other job has an output (one that has
  expired keeps its deadline); seen by clients it is a FIFO service of one worker.
* Storage, assets and cleanup: a file in use stays; a file nobody owns goes; a
  servable output does not go before its deadline.
* Leases: held exactly by the jobs that are waiting or running.
* Pipeline manager: at most one runtime is alive, built from the files the
  request names; a call returns only after its thread has stopped and its
  callbacks are delivered; the status says whether a model is there; a failed
  start does not end the worker.
* Runtime: one of text encoder, transformer and video decoder on the GPU at a
  time, and the one in use there; nothing of a request left for the next one; a
  cancelled generation ends.
* Media processes: no call leaves a child behind; what a call accepts was judged
  after its child had ended; a cancellation is obeyed; no tool holds the thread.
* Requests: the nearest admissible clip, everything inside it, no request that
  passes its own rules and fails as a specification, every input leased.
* Locks: one server to a directory, and servers never all refuse each other.

## 2. Modules

| Module | Models | Composes |
|---|---|---|
| `JobState` | `jobs/state.py`: `JobStatus`, `STAGES`, `TERMINAL`, `CanTransition` | |
| `Storage` | `media/storage.py`: three directories as functions from ids to mtimes, and the clock | |
| `AssetManager` | `media/assets.py` | `Storage` |
| `JobManager` | `jobs/manager.py`, `jobs/repository.py` | `AssetManager`, `JobState` |
| `Server` | `jobs/cleanup.py`, `main.py`, endpoints; `Next`, fairness, all properties | `JobManager` |
| `JobService` | nothing in the code: what the service promises its clients | refined by `Server` |
| `MCServer` | instances for TLC | `Server` |
| `GenerationBackend` | nothing in the code: the contract that `inference/backend.py` states of a backend | refined by `PipelineManager` |
| `PipelineManager` | `inference/manager.py`, `LoraRegistry.key` and `resolve`, and how `jobs/manager.py` calls them | |
| `LTXRuntime` | `inference/runtime.py`, `inference/lifecycle.py`, `inference/conditioning.py` | |
| `MediaProcess` | `media/processes.py`, `media/ffmpeg.py`, and the order of the calls in `media/video_inputs.py` and `inference/runtime.py` | |
| `GenerationRequest` | `schemas/generation.py`, `image_inputs` | |
| `MCRequest` | instances for TLC | `GenerationRequest` |
| `Lifespan` | the locks of `media/storage.py` and `main.py` around them, for several processes | |
| `Application` | the two managers in one process: how `jobs/manager.py` awaits `inference/manager.py` and is called back by it | `Server`, `PipelineManager` |
| `Executor` | the manager's thread with the runtime it loads and calls: how `inference/manager.py` uses `inference/runtime.py` | `PipelineManager`, `LTXRuntime` |
| `MCExecutor` | instances for TLC | `Executor` |
| `Server_proofs` | type correctness, lemmas on FIFOs, the inductive invariant of `Server`, its action properties, and that it implements `JobService` | `Server` |
| `Pipeline_proofs` | theorems about `PipelineManager` | `PipelineManager` |
| `Application_proofs` | the composition implements `Server` and `PipelineManager` and is one invariant more | `Application`, `Server_proofs`, `Pipeline_proofs` |
| `Executor_proofs` | the composition implements `PipelineManager` and `LTXRuntime` and is one invariant more | `Executor`, `Pipeline_proofs`, `Runtime_proofs` |
| `Runtime_proofs` | theorems about `LTXRuntime` | `LTXRuntime` |
| `Media_proofs` | theorems about `MediaProcess` | `MediaProcess` |
| `Request_proofs` | theorems about `GenerationRequest` | `GenerationRequest` |
| `Lifespan_proofs` | theorems about `Lifespan` | `Lifespan` |

`Server` and `PipelineManager` meet in the backend protocol. `Server` takes from
it that there is one call at a time, that stages are heard only during a call,
and that a call returns only when it no longer writes its partial
(`BackendProgress`, `BackendReturns`). `PipelineManager` takes from `jobs/manager.py`
which call may come next. `GenerationBackend` states the contract as a specification of
its own, and `ImplementsFairBackend` shows that the pipeline manager keeps it.

`Application` puts the two together: the same variables, one `Next`, in which each
await of the worker and of `stop()` is the pipeline manager's call, callbacks run in the
order in which the thread posted them and are bound to the job of their call, and the
thread goes on and writes whether or not anybody awaits it. What each of the two modules
assumed of the other is then a property: `ImplementsServer` says that the composition is
`Server`, `CallsAsExpected` that within one process it is `PipelineManager`.

`LTXRuntime` is what `PipelineManager` takes as single steps while its thread `loads`
and `runs`. `PipelineManager` takes from the protocol `Runtime` that a call may raise,
and that a generation reports some stages, each after a look at both events and posted
whatever has been set since; `LTXRuntime` takes from its owner which call comes next,
that a runtime whose call raised is closed and never used again, and when its events may
change. `Executor` puts the two together, and again what each assumed is a property:
`ImplementsManager` and `ImplementsOwner`. Putting them together corrected `LTXRuntime`:
a runtime may be constructed when `_stop` is already set, since `_prepare()` looks at it
before the LoRA file and not again until `load()`.

`MediaProcess` is what `LTXRuntime` takes as single calls to FFmpeg: `ToolsEnd`
is why each of them returns or raises, which the runtime's fairness assumes.
`GenerationRequest` is what `Submit` takes as a set of inputs: `ReadsLeased` is why
`Server` may identify what a job leases with what its backend reads. `Lifespan` is
why `Server` may model one process on its directories.

### State against code

* A job's or asset's id is a model value; `new_id` never repeats one, so an id
  starts as `unused` (or in `fresh`) and is drawn once.
* `status` is `info.status` for a recorded job. `unused`, `forgotten` (record
  dropped by the sweep) and `lost` (the process that held it ended) say why
  there is no record.
* Boolean fields of a record are sets of ids: `cancel` (the event, which is set
  together with `cancellation_requested`), `output` (`info.output` is not
  `None`), `downloaded`, `deletePending`.
* `completedAt`, `expiresAt`, `records` (the `expires_at` of recorded assets)
  and the mtimes in `tmp`, `outputs`, `assetFiles` are clock readings, `Never`
  for `None` or no file.
* `pending`, `running`, `accepting`, `wake` are the fields of those names;
  `worker` is where the worker task is. `ready` means that it holds the loop:
  every other handler has `LoopFree` as a guard, and the worker's steps from
  one await to the next are taken alone.
* `phase` is the lifespan's. `starts` counts processes. `gone` remembers which
  published files were removed by somebody else, for the properties only.

### Actions against code

One action per stretch of code between two awaits, complete with its early
returns. Where a handler has several outcomes that change different state
(`delete` of a waiting, a running and a finished job; `begin_download` that
finds the file or not; `_process` that fails to create its partial) each is an
action with the condition of its branch as a guard; refusals (404, 409, 410,
429) change nothing and are stutters. `Stop` is `stop()` up to its await: the
loop over the queue, the cancellation of the running job, the wake-up.

### Sweeps that fail

`Swept` is `sweep()` as far as it came; `Sweep` is all of it. An unlink that raises
ends it: among the expiring outputs (nothing is dropped for that job, its record
still says `complete`), among the stale assets, or in one of the directories,
which are gone through in a fixed order but each in an order of its own. So
`SweepAborts` chooses any part of the stage that failed, all of those before, none
after. The order of records is not followed: any part may have been reached. At a
start the same sweep has no handler around it, and the lifespan ends
(`StartRaises`).

### The media processes

* `todo` and `call` are the calls of one generation and the one under way; `Plans`
  lists the sequences that the runtime makes. `at` is the statement the thread is
  at, and `finally` and `wait` are the two halves of every `finally`.
* `child` is the operating system's view (`running`, `exited` and not reaped,
  `killed` by a signal that has not ended it yet); `returncode` is what `Popen`
  knows, which only a poll or a wait brings up to date.
* `size` stands for what the call limits: the destination or captured output of
  `run_bounded`, the sound of `decode_source_audio`. It goes one past `Limit`; more
  makes no difference. `rest` and `room` are pieces of a chunk still to be written
  and free pieces of the pipe; a chunk is a frame.
* A poll, a look at the event, at the clock and at the size are steps of their own:
  the child, the clock and the client move between any two of them.
* What the caller does in between (judging a probe, `check()`, work on the GPU) is
  one step that may raise. The arguments of the tools, the capture limit of 1 MiB
  beside `max_bytes`, and temporary files are left out.

### The requests

* A body is a record of the fields some rule combines; `retake` is `video`, `start`,
  `end`, `normalize`. Times are whole numbers of `1/Unit` seconds, so that the
  arithmetic is exact: floats are equal to it on binary fractions of a second,
  which is what the instance uses.
* `stage` is where the body has come: `broken` is a specification that fails its
  second validation, which no handler turns into a response with 422.

### The locks

* An element of `Servers` is one process, a restart is another one. `held` has the
  directories whose lock file it holds. Directories are numbers in the order of
  their paths, which is the order `sorted` puts them in.
* `phase` goes through `open()`, the first sweep, serving, `stop()`, the cleanup
  task's end and `close()`. `worker` outlives `stop()` only as `left`: `stop()` raised
  before it had awaited the worker.

### The pipeline manager

* `op` and the variables declared after it are the call under way: its operation,
  LoRA selection, cancel event, whether its awaiting task was cancelled and
  whether the loop knows its future to be done. `thread` is the position in the
  call's function, and `using`, `key` are that function's locals.
* `cached`, `cachedKey` are `_runtime`, `_runtime_key`; `state` is
  `_status.state`; `stop`, `closed` are `_stop`, `_closed`; `callbacks` is the
  part of the loop's ready queue that the thread filled.
* `live` is what the GPU has to hold: runtimes constructed and not yet asked to
  close. An exception of `close()` that `_discard` swallows counts as closed. A
  call builds at most one runtime, so its number is the runtime's identity.
* A LoRA file is the number of its version. `key()` reads size and mtime, which
  are taken to differ whenever the contents do.
* What only one side touches is not a step of its own: the thread's step lasts
  from one access to the events, the status, the files or the callbacks to the
  next, and the loop's from one await to the next. A failure's step ends where
  the two events are read, so whatever they became meanwhile is seen.
* A report is two such steps: the look at the events (`ChecksReport`), which leaves the
  thread at `posts`, and the post (`PostsStage`). The runtime may wait for the device in
  between, so a stage may be posted after the event that would have prevented it.
* `accepting` and `worker` are as much of the job manager as decides which call
  can come next: `initialize` first and once, then generations, `close` after
  the worker. `warm_model_on_start` is a choice. `Interrupt` is the cancellation
  of an awaiting task, which `_execute` handles although no code in the
  repository asks for it.

### The composition

* The cancel event that `PipelineManager` has for its call is `job \in cancel`: `job`
  is `context.id` of the last call of `generate()`, to which `partial()` has bound its
  callbacks. `closing` says that `stop()` has come to `backend.close()`.
* `Generates` is the worker from taking a job to awaiting `generate()`: a selection that
  does not resolve is refused in `validate_request` before anything is handed over.
* `CallbackRuns` is one entry of the loop's ready queue. A stage is any stage; one that
  the status machine refuses raises in the callback and changes nothing.
* `Returns` is the end of the await together with what the worker does up to its next
  one; `RefusedEnds` is the same for a refused call.
* `BackendGone`: with the process its pipeline manager, its thread and its GPU memory
  are gone, and the next process has new ones.
* The composition leaves out `Interrupt`, the cancellation of the awaiting task: no
  code of the repository cancels the worker's task, and `Server` has no such step. The
  two modules by themselves have it covered (`PipelineManager`), and a process that ends
  by it is a `Crash` (`Server`).

### The executor

* `cancel` and `stop` are the manager's and the runtime's at once, as in the code.
* While the thread `loads`, `runs` or `posts`, the runtime takes the steps: `LoadGoes`
  is one of `load()`, `GenerateGoes` one of `generate()`. The last one of `load()` that
  does not raise is the manager's `Loads`, where the LoRA files have been read; the last
  one of `generate()` is its `RunSucceeds`. A runtime that has `failed` is what
  `LoadFails` and `RunFails` hear of.
* `Noticed` says which of the runtime's steps the manager sees: a report's look at the
  events takes the thread to `posts`, if the stage is another one than before, and its
  post takes it back.
* `Workflow` is the pipeline that a selection asks for; the key of a cached runtime
  contains the selection, so it determines the pipeline (`WorkflowShape`).
* At the end `close()` may raise, and the runtime is then kept as it is (`ClosedAtEnd`).

### The runtime

* `at` is the position of the only thread in `load()` or `generate()`; `phase`
  says which of the two, or that the thread is in neither. `failed` is an
  exception under way: the local of that name in the `finally`, and the fact that
  the call does not return.
* `gpu` is the set of models with weights on the GPU, `onGpu` the flags of the
  two `RetainedModel`s. They are separate so that a flag can be wrong. `retains`
  and `caches` say whether there are such models, which settings and workflow
  decide; a model that is not retained is loaded and disposed of by upstream.
* `source`, `latent`, `context`, `iterator`, `owned` hold the number of the request
  whose audio, context, decoder or scratch file they refer to. `stage` is the rank of
  `_stage_name` in the order of the statuses, `due` the one that `report()` is about to
  set. `stuck`, for the properties only, has the requests whose scratch file could not
  be unlinked.
* A step is one call to upstream, FFmpeg or the file system with the runtime's code
  around it. `Raises` is the exception any of them may end in; `LoadRaises` lets some of
  the weights have arrived.
* `Checked` is `check()`. It is a step of its own, apart from what it allows, wherever a
  call lies between them that the loop may set an event in: `report()` looks (`Looks`),
  may wait for the device, and then sets and posts its stage (`Posts`); a source that is
  to be normalised is reported before its scratch file is created (`Normalizes`).
* Upstream is external. From the hooks: prompt encoder, then stages, then video
  decoder, which works while its chunks are consumed and is disposed of when the
  iterator ends or is closed. An exception unwinds upstream's own contexts.
* Tracebacks that keep weights alive while `close()` runs are not modelled.

## 3. Runs

TLC, `CHECK_DEADLOCK FALSE` throughout: the server may stop for good once it is
down and its last start is used up.

| Run | Instance | States | Properties |
|---|---|---|---|
| `core` | 3 jobs, 2 assets, queue of 2, clock at rest, one process | 274,548 | `TypeOK`, `SchedulerExact`, `LeasesExact`, `TransitionsLegal`, `CancelledNeverPublished`, `ImplementsService` |
| `retention` | 2 jobs, 1 asset, queue of 1, clock to 3, one restart | 1,002,585 | `FilesInUseStay`, `ResultsKept` |
| `faults` | 1 job, 1 asset, 2 readers, clock to 4, two restarts, failing unlinks, vanishing files | 362,264 | `CompleteIsServable`, `NoOrphans` |
| `scheduling` | 3 jobs, no asset, fairness | 13,593 | `ShutdownEnds`, `DeferredDeleteHappens`, `ImplementsFairService` |
| `reaping` | 1 job, 1 asset, clock to 3, one restart, failing unlinks, fairness | 41,437 | `EveryFileReaped` |
| `application` | 1 job, 1 asset, 3 calls, a selection with and one without a LoRA, 1 stage, clock to 1, one restart, failing unlinks | 527,931 | `InStep`, `ImplementsServer`, `CallsAsExpected` |
| `executor` | 3 calls, a selection without a LoRA and one with a reference video and a LoRA that may be removed, every exception and order of events | 1,161,308 | `RuntimeSettled`, `ImplementsManager`, `ImplementsOwner` |
| `pipeline` | 4 calls, a selection with and one without a LoRA, 2 replacements, 2 stages, fairness | 1,040,380 | `RuntimeAccounted`, `LorasFresh`, `AnswersHonest`, `ImplementsFairBackend` |
| `runtime` | 3 requests, every workflow and kind of input, fairness | 73,472 | `ResidencyExact`, `RequestsIsolated`, `StagesAscend`, `RevokedWindsDown`, `CancelledEnds` |
| `media` | generations one after another, 2 frames of 2 pieces, pipe of 2, limit of 2, deadline of 3 ticks, fairness | 49,742 | `NoChildLeft`, `AcceptedWhole`, `CancelObeyed`, `TimeBounded`, `ToolsEnd` |
| `request` | 2 assets, 6 settings, durations from 1 to 20 s in quarters | 324,953 | `FramesNearest`, `SpecRevalidates`, `InsideClip`, `ReadsLeased` |
| `locks` | 3 processes, 4 directories, 3 of them each | 381,936 | `ExclusiveUse`, `SomebodyStarts` |

Some properties are conjunctions of named parts: `SchedulerExact` is `QueueExact`,
`OneActiveJob` and `NoLostWakeup`; `FilesInUseStay` is `InputsStay`, `PartialsStay` and
`PinnedFileStays`; `ResultsKept` is `DeadlineNeverExtended` and `OutputKeptUntilDue`;
`NoOrphans` is `DeferredDeleteHasOwner` and `NoStrayFiles`; `RuntimeAccounted` is
`OneRuntime` and `RuntimeAtRest`; `AnswersHonest` is `StatusHonest` and
`InitializeContained`; `InStep` is `WorkHasItsFiles` and `BackendSettled`;
`RuntimeSettled` is `CallsServed` and `LeftSettled`; `ResidencyExact` is `OneResident`
and `UsedOnDevice`;
`RequestsIsolated` is `OwnConditioning` and `NothingSurvives`. The types of the modules
other than `Server` are proved and in no run.

### What they show

* `core`: no interleaving of submissions, cancellations, uploads, stage
  callbacks, worker steps, shutdown and a kill makes queue, slot, wake-up event
  and leases disagree with the records, and a late result of a cancelled job is
  dropped.
* `retention`: whatever expires or is deleted while it is being read, written
  or leased, the files in use stay, and a servable output is not removed early
  although its deadline and its mtime are separate.
* `faults`: an unlink that raises in the worker's `finally`, in that of an upload that
  failed, in `delete`, at the end of a response or anywhere in a sweep leaves a job
  complete exactly if it has its file, unless somebody else removed that; files nobody
  owns go, and every deferred deletion has somebody to carry it out or an unlink that
  raised.
* `scheduling`: a shutdown ends, a deletion put off to a download happens, and
  seen through `jobView` the server is `JobService`, fairness included: so every
  admitted job ends.
* `reaping`: every file goes once its time is up, also those a killed process left
  behind, an aborted sweep did not reach, or a failed upload could not unlink.
* `application`: the pipeline manager is a backend as `Server` takes one to be, and
  the job manager is a caller as `PipelineManager` takes one to be; a mutant that frees
  the slot of a cancelled job, or a `stop()` that does not await its worker, is neither.
  While the thread works, its job is in the slot, its partial file there and its inputs
  leased and on disk; whoever calls the backend finds it open and idle.
* `pipeline`: cancellation, shutdown and file replacement between any two steps
  of the thread leave at most one runtime alive and none but the cached one
  between calls; a replaced file is loaded again; no call returns, not even a
  cancelled one, before its thread and its callbacks are done; a cancelled call and a
  shutdown end, whatever the task that awaits them is told; the status left behind is
  the truth, and a failed start does not end the worker.
* `executor`: the runtime begins no report once an event is set, and posts four stages
  at most and one at least before it returns, as the manager expects; a mutant whose
  `check()` looks at one event only does not. The manager never calls a runtime that
  failed, nor gives the next request its event while the last one is still in the
  runtime; a mutant whose await is not shielded does. A runtime that is replaced, or has
  failed, leaves the GPU empty before the next one is built.
* `runtime`: with an exception at any call and any order of cancellations, the flags
  agree with the GPU, a model is where it is used and alone there, and the `finally`
  leaves nothing of the request. Once an event is set, every step of the thread brings
  the generation nearer to its end, and there are nine at most. A stage or a scratch
  file whose check had been passed by then still comes, once, and no other.
* `media`: whatever a child does and whenever, it is reaped before its call is
  over; nothing is accepted that grew or failed after it was last looked at; a
  cancellation never ends in a result while a tool runs or is still to run; and
  each generation gets past its tools, since only data actually taken puts a
  deadline off, and the data is finite: `TimeAhead`, the sum of the deadlines that may
  still be set, never grows, and each tick takes one from it.
* `request`: the clip is the nearest one, the longer of two as near; windows and
  images that pass lie in it; a default never breaks a rule the body kept (a
  prepared retake is put at 24 FPS for that reason); what is read is leased.
* `locks`: taking the locks one by one, in one order, is enough: no two servers
  work in one directory, and a refusal always has another server for its reason
  that is not refused itself. If `stop()` raises before it has awaited the worker,
  the locks go while a thread may still run: the one case `ExclusiveUse` excepts.

### Bounds, and why they are enough

* `JobIds`, `AssetIds`: three jobs are one running and two waiting, so an order
  can be got wrong, and a queue of two is full with a job in the slot. Two
  assets let an acquisition fail on the second input and let two jobs share one.
  Retention properties are about one file at a time; a second job is there to
  be in the way.
* `MaxTime` stops the clock. With lifetimes of 1 and 2 it lets a file be
  published, its deadline pass, its record be kept and dropped. The instance's
  lifetimes are chosen so that deadline, grace and age rule differ
  (`OutputTTL` 2, `GraceTTL` 1, `TempTTL` 1).
* `MaxReaders` bounds concurrent downloads of one file: two in `faults` for the
  last and the last but one.
* `MaxStarts` bounds process starts: a restart meets an earlier process's files.
* `MaxCalls`, `MaxVersion`, `MaxReports` bound the pipeline: four calls are a
  warm start, two generations and a close, or a generation that fails, one that
  loads again and one that reuses; two replacements let a file change both
  before and after its `stat`; two stages are one heard and one still queued.
* In `executor` three calls are a warm start and two generations, or one that fails, one
  that loads again and a close. `MaxReports` must be four at least, the stages there are
  (`ExecutorAssumption`); replacements of the file are left to `pipeline`, its removal
  is not. The workflow that the instance lacks is in `runtime`, and in the proofs.
* In `application` one job and one asset are enough to have a generation, a DELETE of it
  at any moment, an asset somebody wants to delete meanwhile and a shutdown; three calls
  are a warm start, a generation and a close. More of each is what the proofs are for.
* `MaxRequests` bounds generations: three are one that fails, and a next one that
  finds what another has left.
* `UnlinkMayFail`, `FilesMayVanish` switch faults on. An unlink may raise only where
  there is a file to remove (`missing_ok=True`). `UnlinkMayFail` is a constant of
  `Storage` and covers every handler that unlinks, an upload's included. Failing unlinks
  are off in `core`, `retention` and `scheduling`, where they multiply the states; the
  invariants of these runs are proved with them.
* `Frames`, `Pieces`, `PipeRoom`, `Limit`, `Window`: two frames are one too few or
  too many; a frame of as many pieces as the pipe has room for fills it; a limit of
  two can be missed, met and passed; three ticks let a deadline come between any
  statements of a loop, and a write renew it. The number of generations has no
  bound.
* `Durations`, `Requests`: a quarter of a second at 24, 25 and 30 FPS gives every
  remainder, ties included. Combinations of inputs are taken at four durations,
  where rounding goes up, down and either way, with keyframes on the last frame
  of the shortest clip and on the first one behind it. `Blocks` reaches past the
  longest clip.
* `Servers`, `Dirs`: three servers any two of which share two directories are
  enough for a cycle of refusals, which a mutant that locks in order of roles
  finds.

### Fairness, and why the code justifies it

`FairSpec` adds weak fairness of: the worker's own steps and responses and uploads that
began (the event loop runs every ready task; a response or upload ends when its client
finishes or disconnects, and its `finally` runs); `BackendReturns` (the worker awaits
`generate` and nothing else; the runtime checks the cancel event between steps and its
child processes have deadlines); `Sweep` (the cleanup task loops for ever and survives
any exception of a sweep; that the whole of it is fair says in addition that an unlink
which raises does not do so for ever: one that does keeps every sweep from what comes
behind it); `ProcessEnds` (the rest of the lifespan has nothing left to wait for);
`Tick`. In `PipelineManager` it is weak fairness of the loop's callbacks and returns and
of the thread's steps, except that a generation nobody revoked may take for ever while
it `runs`: only `check()` between its steps makes it end. A report that has looked is
carried through. In `LTXRuntime` it is weak fairness of the thread: each external call
returns or raises. That alone does not end a generation, since the transformer may be
called for ever; the checks around each call do. In `MediaProcess` it is weak fairness
of the thread, of the clock towards a deadline and of SIGKILL; the child itself owes
nothing. That a response which was built is also called, and thereby unpins its output,
is the framework's part. No fairness is assumed of requests, crashes or starts, and none
of these is needed: a property whose obligation ends with the process says so with
`phase = "down"`.

## 4. Proofs

TLAPS checks the theorems below for every value of the constants: any number of jobs,
assets, calls, LoRA files' versions, processes and directories, every queue size and
lifetime, any clock. The assumptions are those the modules name (`StorageAssumption`,
`AssetAssumption`, `JobAssumption`, `ServerAssumption`, `PipelineAssumption`,
`ApplicationAssumption`, `ExecutorAssumption`, `RuntimeAssumption`, `MediaAssumption`,
`RequestAssumption`, `LifespanAssumption`): ids of jobs and assets are disjoint, `NoJob`
is not an id, lifetimes, the queue's size, limits and deadlines are positive and
durations are from 1 to 20 seconds (the bounds `config.py` and the request's fields put
on them), a request without a specification names no LoRA and asks for the distilled
pipeline, the bound on the stages a generation reports leaves room for the four there
are, directories are ordered.

### The server

* `TypeCorrect`: `Spec => []TypeOK`. It has one conjunct that is not a type:
  while the worker awaits the backend, `running` is a job. The worker's last step
  indexes every table with `running`. One lemma per part of the type
  (`StorageTypeStep`, `AssetTypeStep`, `JobTypeStep`, `LifeTypeStep`), each with
  one step per action.
* `QueueCorrect`, `InputsCorrect`, `FilesStay`, `NothingLeftBehind`: all safety
  invariants of the runs, from one inductive invariant `IInv`: their conjunction
  with `TypeOK` and two strengthenings.
  * `DownIsEmpty`: between two processes nothing is recorded, queued, pinned or
    uploaded. Without it a start could find a job of the previous process in the
    slot, since a start does not clear what the end has already cleared.
  * `DeadlinesOfResults`: only a job that is or was complete has a deadline, so
    publication, which sets one, never replaces one that stood (`ResultsStay`).
  The invariants need each other. `OneActiveJob` is what makes the job that
  leaves the backend the one whose leases are released; `QueueExact` is what
  makes `DELETE` of a waiting job find it in the FIFO; `CompleteIsServable` and
  `PartialsStay` rest on both, because a sweep protects what the records say.
* `Transitions`, `CancelledStaysUnpublished`, `ResultsStay`: the action properties,
  each from the part of `IInv` it needs, one step per action (`LegalMoves`,
  `NeverPublished`, `DeadlineMoves`, `KeptMoves`).
* `Refinement`: `Spec => ImplementsService`, the abstract FIFO service. The lemmas
  name the abstract step of each concrete one: `SubmitAdmits`, `TakeBegins`,
  `ReturnFinishes`, `DeleteWithdraws`, `SweepWithdraws`, `StopShutsDown`,
  `MemoryLostVanishes`; the rest is unseen. Beyond `IInv` it needs
  `RevokedNotWaiting`, that a job cancelled while it waits leaves the FIFO in the
  same step: otherwise the service would hand a revoked job to its worker.

A sweep is one handler to the proofs, aborted or not: `SweptAny` says that each
sweep and each aborted one is a `Swept` of some sets of due files, and the
lemmas about `SweptFiles` and `SweptJobs` are about any such sets. So every theorem
about the server holds with failing unlinks, in the sweep as elsewhere.

The first lemmas of `Server_proofs` state what `Append`, `Tail` and removal do
to a sequence without repetition, so that no leaf reasons about indices.

### The pipeline manager

`PipelineInvariance` proves an inductive invariant in five parts beyond the types;
the invariants of the runs follow from it.

* `CallShape`: where call, thread and callbacks are relative to each other. The
  future's callback is the last one and is posted when the thread is done, so a
  loop that runs callbacks first-in first-out has delivered everything by then
  (`CallsReturnLast`).
* `OpShape`: which steps of the thread belong to which call, and that there is room for
  a stage that is to be posted; why `initialize` cannot raise anything but
  `ServiceError` (`HonestAnswers`).
* `RuntimeShape`: which runtime is alive at each step (`SingleRuntime`).
* `KeyShape`: what was loaded is never older than its key says, nor than the call
  that uses it. A cached runtime may be newer than its key, when the file was
  replaced between `stat` and load; then the next call loads once more, which is
  the safe side of the race (`FreshLoras`).
* `StatusShape`: what the status may say while the thread has yet to write it
  (`HonestAnswers`).

`BackendRefinement`: `Spec => ImplementsBackend`, each step mapped to `Invoke`,
`Hear`, `WorkStops`, `Revoke`, `Return` or a stutter.

### The composition

`ApplicationInvariance` proves an invariant of five parts: `IInv` and `RevokedNotWaiting`
of the server, `PipelineInv` of the pipeline manager, and two that tie them together.

* `PhaseShape`: how far the lifespan has come decides which handlers may find a
  backend; with no process there is none.
* `Binding`: which call is under way, read off the worker. It generates exactly if the
  worker is generating for `job`, or the call was refused before it began; it
  initializes only while the worker does; it closes only after the worker has returned.
  A callback that is still queued belongs to the call under way, so to the job in the
  slot.

The argument goes round. A step of the composition is shown to be a step of `Server`
(`ServerMaps`, `PhaseStep`) using `Binding`: a stage that is heard is heard during the
await, since `PipelineInv` has the callbacks behind a call that has not returned. It is
shown to be a step of `PipelineManager` (`ManagerStep`) using `Binding` and `IInv`: a new
call finds the last one over, since there is one worker, and the cancel event of a call
is clear when it begins, since a job cancelled while it waits is never taken. By these
two the lemmas of both proof modules apply as they stand, the latter's through an
`INSTANCE` under the composition's substitution, and the invariants are kept; what is
left is that `Binding` is (`BindingStep`). `ApplicationImplementsServer`,
`ApplicationCalls` and `ManagersInStep` follow, and with them every
theorem about `Server` and the invariants of `PipelineManager` for the composition
(`ApplicationServes`, `ApplicationBackend`).

### The executor

`ExecutorInvariance` proves an invariant of five parts: `PipelineInv`, `RuntimeInv`, and
three that tie them together.

* `PhaseShape`: where the thread is in the manager's code decides in which phase the
  runtime is, and that there is one exactly if one is cached or being made.
* `WorkflowShape`: the runtime that works, and the cached one, was loaded for the
  pipeline of the selection under way, or of its key.
* `StagesShape`: the manager has posted no more stages than the runtime has reached, so
  four at most, and one at least once the prompt has been encoded, so that a generation
  that returns has reported. Both are in a report together: the manager's thread is at
  `posts` while the runtime has a stage `due`, or has raised on the way to it. A
  runtime's request is older than the manager's call until it is called.

Here the order is the other way round. A step is first shown to be one of `LTXRuntime`
(`OwnerMaps`), for which `PhaseShape` and `CallShape` suffice: the event is renewed only
by a call that finds the thread idle, and by one that returns after it. Then, with
`RuntimeInv`, it is shown to be one of `PipelineManager` (`ManagerMaps`): a report
begins with `check()`, which looks at both events because the runtime has its request
(`ProducingFacts`, `DueFacts`), and there is room for its stage (`StagesShape`).
`ExecutorBackend` and `ExecutorRuntime` then hand on the theorems about either.
`RuntimeLeftSettled` uses both invariants: the GPU is empty when the thread is idle
since `PhaseShape` says that the runtime is at rest or gone, and `DeviceShape` what that
means.

### The runtime

`RuntimeInvariance` proves an inductive invariant of four parts beyond the types.

* `PositionShape`: which code the thread is in, and that an exception leaves the
  body of `generate()` at once.
* `DeviceShape`: at each position, which model may be on the GPU, and that the
  flags say the same, as long as nothing has been raised. After an exception only
  "at most one" is left, which is why a failed runtime must not be used again
  (`SingleResident`).
* `RequestShape`: what of the request has been put into the runtime by then and
  what the `finally` has yet to clear (`RequestsApart`). A next request starts
  from an empty `audio_conditioning` only because of it.
* `StageShape`: how far the stages have come, and that one that is `due` comes after
  them, at a position that reports (`StagesInOrder`).

`RevokedComesToItsEnd` is the safety part of `CancelledEnds`. `StepsLeft` ranks the
positions, and whether a stage is due there, so that once an event is set each step of
the thread goes down (`RevokedMoves`): the steps that could go round, or up, begin with
a check, which raises (`NothingAllowed`). What a check had allowed before the event was
set is done once and counted: nine steps from there, the stage that was due and no
other, the scratch file only from the position that creates it. With fairness of the
thread, which the prover cannot use, the end follows.

### The media processes

`MediaTyped` (which keeps every counter in its range), `EveryChildReaped`,
`OnlyWholeAccepted` and `CancellationObeyed` follow from one inductive invariant.

* `CallShape`: which statement belongs to which call, and that an exception leaves
  its body at once.
* `ChildShape`: at which statements there is a child and in which state. Between
  the poll and the last look at the size there is none exactly if `finished`; so
  a size that passes cannot grow any more. This is why `run_bounded` polls first.
* `FeedShape`: frames are written whole before the next is asked for.
* `RevokedShape`: a revoked generation that has raised nothing is still to look at
  the event before it could return.

`ToolsTimeBounded` is the safety part of `ToolsEnd`. `DeadlinesAhead` counts the
deadlines that may still be set: those of each call to come, at most `Longest`, and
those of the encoding under way by the frames and pieces still to be written. A step
that sets none adds nothing (`NothingSet`); one that sets a deadline has counted it
before (`StartSetsOne`, `FeedingSetsOne`), and what is left of the old one covers the
rest (`OneSet`). Since the counts are products of constants, their signs and orders are
lemmas of their own (`Products`, `OneDeadline`).

### The requests

`frame_countIs` brackets the count from integer division, `BlocksApart` says that any
other count is a whole block away, and `NearestClip` compares the distances.
`CompletedBody` compares each rule before and after the defaults
(`SecondValidation`); `SpecShape` and `InputShape` follow specification and leases
from stage to stage (`NothingOutside`, `LeasesCoverReads`).

### The locks

`DirectoriesExclusive` rests on `LocksExact` (a lock has one holder, and whoever
touches files holds all of its directories) and on `WorkerAwaited`. `NotAllRefused` is an
argument about order: by `InOrder`, what a server holds while it locks comes before
what it does not hold yet, so whoever refuses it holds a lock behind all of its own, or
has started (`Ahead`). A refused server therefore leaves one that is sure, or
that still holds a lock and is not being refused (`SomebodyAhead`); when nobody
is at the locks any more, only the former is left.

## 5. What is only model-checked

Liveness under fairness and everything about `ENABLED` is out of the prover's
reach: `ShutdownEnds`, `ImplementsFairService`, `DeferredDeleteHappens`,
`EveryFileReaped`, `ImplementsFairBackend`, `CancelledEnds`, `ToolsEnd`. They hold on
the instances above. Of `CancelledEnds` and `ToolsEnd` the part that is safety, a measure
that every step decreases, is proved, and of the two refinements their safety part:
`ImplementsService` (`Refinement`) and `ImplementsBackend` (`BackendRefinement`). Every
other property of a passing run has a theorem. The compositions state no liveness: that
calls return is what `scheduling` assumes of a backend, `pipeline` shows of the pipeline
manager if its runtime does not go on for ever once revoked, and `runtime` of that.

## 6. What is not modelled, and why

* `run_media_tool` of `media/validation.py`, which probes an upload with
  `subprocess.run`: its timeout, kill and reaping are the library's. `AssetManager`
  takes its verdict as a choice.
* In `schemas/generation.py`: resolution and orientation, LoRA names, the prompt and
  strengths, on which no rule of the model depends; the rounding of floats that are no
  binary fractions. Keyframes are a set, so one image cannot be given twice at one
  position.
* In `inference/runtime.py`: verification of the upstream package, timings,
  decoding of images and sound, the arguments of the pipeline's call. They decide
  whether a call raises, which every call may.
* The same-filesystem check and the refusal of symlinks are only a reason why
  `open()` raises. A directory locked under two paths is not distinguished from one.
* `api/auth.py`, `api/middleware.py` (the upload limit counts bytes of one request),
  `errors.py`, `logging.py`, `config.py`: no state that outlives a request, or read
  once.
* Parsing of manifests, safetensors headers, probe output, FFmpeg's arguments:
  pure input and output. The models take its verdict as a choice.
* In `main.py`, a `stop()` that raises before it has awaited the worker is in `Lifespan`
  only; in `Server` and `Application` a shutdown is orderly or the process is killed.
* Error codes, messages, metrics, progress percentage: nothing a later step reads
  depends on them.
* `UnavailableBackend`: it holds no state and refuses every job, which `Server`
  covers as a backend that fails.
* `scripts/`, `benchmarking.py`: clients of the interface.

## 7. Plan for what is left

In this order; each module with its run, its mutants and, where named, its
theorems.

1. Composition: `LTXRuntime` with `MediaProcess` in place of its single calls, and
   `Application` with `Executor` in place of its pipeline manager.
2. An abstract specification of a bounded call (begins, ends with one of three
   verdicts, leaves nothing behind), and `MediaProcess` shown to implement it.
3. A sweep that fails at the same file for ever, as a fairness weaker than the one
   assumed, and what is still reaped then.
4. The upload path in detail: `UploadLimitMiddleware`, the writer's awaits and
   `run_media_tool`.
