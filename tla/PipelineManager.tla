--------------------------- MODULE PipelineManager ---------------------------
(***************************************************************************)
(* The one cached runtime and the thread that owns it:                     *)
(* inference/manager.py, and how jobs/manager.py calls it.                 *)
(*                                                                         *)
(* Three things run: the event loop, where calls are awaited, jobs are     *)
(* cancelled and call_soon_threadsafe callbacks arrive first-in first-out; *)
(* the executor's only thread, whose position in the function of the call  *)
(* is `thread'; and whoever replaces LoRA files. With the loop the thread  *)
(* shares _stop, the call's cancel event, the status and the callbacks, so *)
(* a step of it lasts from one of these to the next.                       *)
(*                                                                         *)
(* A call loads at most one runtime, which has the call's number as its    *)
(* identity. A LoRA file is its version: size and mtime differ whenever    *)
(* the contents do.                                                        *)
(***************************************************************************)
EXTENDS Integers, Sequences

CONSTANTS Selections,  \* workflow and LoRA choice of a request
          Styled,      \* the selections that name a LoRA file
          Plain,       \* the selection of no request, spec is None
          MaxCalls,    \* bound: calls made
          MaxVersion,  \* bound: replacements of the LoRA file
          MaxReports   \* bound: stages a generation reports

ASSUME PipelineAssumption ==
  /\ Styled \subseteq Selections
  /\ Plain \in Selections \ Styled
  /\ MaxCalls \in Nat
  /\ MaxVersion \in Nat
  /\ MaxReports \in Nat \ {0}

VARIABLES stop,         \* the event _stop
          state,        \* _status.state
          closed,       \* _closed
          op,           \* what the manager's caller awaits, or "none"
          calls,        \* calls made; the last is under way or over
          sel,          \* its selection
          cancel,       \* its cancel event
          interrupted,  \* its awaiting task was cancelled
          resolved,     \* its future is done, as the loop sees it
          heard,        \* stages of it delivered to context.report_stage
          asked,        \* version when it was made
          accepting,    \* JobManager.accepting
          worker,       \* the worker task: "new", "ready", "gone"
          callbacks,    \* callbacks the loop has not run yet
          thread,       \* where the thread is
          using,        \* local runtime of _prepare and _generate
          key,          \* local key of _prepare
          reports,      \* stages it reported in this call
          result,       \* how the call's function ends: "ok", "service", "other"
          cached,       \* the runtime in _runtime, or NoRuntime
          cachedKey,    \* _runtime_key
          live,         \* runtimes constructed and not asked to close
          loaded,       \* what each runtime was loaded from
          version,      \* of the LoRA file
          installed     \* there is a LoRA file

callVars == <<op, calls, sel, cancel, interrupted, resolved, heard, asked>>
loopVars == <<stop, closed, callVars, accepting, worker>>
cacheVars == <<cached, cachedKey, live, loaded>>
localVars == <<using, key, reports, result>>
fileVars == <<version, installed>>
vars == <<loopVars, state, callbacks, thread, localVars, cacheVars, fileVars>>

NoRuntime == 0
Runtimes == 1..MaxCalls
Versions == 0..MaxVersion
Keys == Selections \X Versions

\* LoraRegistry.key(spec): the selection and the stat of the file it names.
KeyOf(s) == <<s, IF s \in Styled THEN version ELSE 0>>

\* resolve() or stat() finds no file.
Unreadable(s) == s \in Styled /\ ~installed

Init ==
  /\ stop = FALSE /\ state = "unloaded" /\ closed = FALSE
  /\ op = "none" /\ calls = 0 /\ sel = Plain /\ asked = 0
  /\ cancel = FALSE /\ interrupted = FALSE /\ resolved = FALSE /\ heard = 0
  /\ accepting = TRUE /\ worker = "new"
  /\ callbacks = <<>>
  /\ thread = "idle" /\ using = NoRuntime /\ key = <<Plain, 0>>
  /\ reports = 0 /\ result = "ok"
  /\ cached = NoRuntime /\ cachedKey = <<Plain, 0>>
  /\ live = {} /\ loaded = [r \in Runtimes |-> <<Plain, 0>>]
  /\ version = 0 /\ installed = TRUE

-----------------------------------------------------------------------------
\* The event loop.

\* _execute() up to its await: the function is handed to the thread.
Execute(o, s) ==
  /\ op = "none" /\ ~closed /\ calls < MaxCalls
  /\ op' = o /\ calls' = calls + 1 /\ sel' = s /\ asked' = version
  /\ cancel' = FALSE /\ interrupted' = FALSE /\ resolved' = FALSE /\ heard' = 0
  /\ thread' = "begins" /\ reports' = 0 /\ result' = "ok"
  /\ UNCHANGED <<closed, callbacks, using, key>>

\* The worker task's first step, also if stop() came before it: initialize(), which
\* does nothing unless warm_model_on_start is set.
Initialize ==
  /\ worker = "new"
  /\ worker' = "ready"
  /\ \/ Execute("initialize", Plain)
     \/ UNCHANGED <<closed, callVars, callbacks, thread, localVars>>
  /\ UNCHANGED <<stop, state, accepting>>

\* The worker takes a job. A selection that does not resolve is refused here.
Generate(s) ==
  /\ worker = "ready"
  /\ accepting
  /\ ~Unreadable(s)
  /\ Execute("generate", s)
  /\ UNCHANGED <<stop, state, accepting, worker>>

\* begin_shutdown()
StopSignalled == stop' = TRUE /\ state' = "stopping"

\* close(), once the worker task is over.
Close ==
  /\ worker # "new"
  /\ accepting => worker = "gone"
  /\ StopSignalled
  /\ Execute("close", Plain)
  /\ UNCHANGED <<accepting, worker>>

\* DELETE of the running job.
CancelJob ==
  /\ op = "generate"
  /\ cancel' = TRUE
  /\ UNCHANGED <<stop, state, interrupted, accepting>>

\* JobManager.stop() up to its await: begin_shutdown(), the running job is deleted.
BeginShutdown ==
  /\ accepting
  /\ accepting' = FALSE
  /\ StopSignalled
  /\ cancel' = (cancel \/ op = "generate")
  /\ UNCHANGED interrupted

\* (cancel or self._stop).set()
Signal == IF op = "generate" THEN cancel' = TRUE /\ UNCHANGED stop
                             ELSE stop' = TRUE /\ UNCHANGED cancel

\* The task that awaits is cancelled: it sets the event and awaits again.
Interrupt ==
  /\ op # "none"
  /\ interrupted' = TRUE
  /\ Signal
  /\ UNCHANGED <<state, accepting>>

Signals ==
  /\ CancelJob \/ BeginShutdown \/ Interrupt
  /\ UNCHANGED <<closed, op, calls, sel, resolved, heard, asked, worker, callbacks, thread,
                 localVars>>

\* The loop runs the oldest callback.
RunCallback ==
  /\ callbacks # <<>>
  /\ callbacks' = Tail(callbacks)
  /\ heard' = IF Head(callbacks) = "stage" THEN heard + 1 ELSE heard
  /\ resolved' = (resolved \/ Head(callbacks) = "done")
  /\ UNCHANGED <<closed, op, cancel, worker>>

\* The future is shielded, and awaited until it is done.
MayResume_Unshielded == resolved \/ interrupted
MayResume_Spins == resolved /\ ~interrupted
MayResume == resolved

\* The call returns, raises, or passes its task's cancellation on, which ends the
\* worker; close() marks the manager closed.
Resume ==
  /\ op # "none"
  /\ MayResume
  /\ op' = "none" /\ cancel' = FALSE /\ heard' = 0
  /\ closed' = (op = "close" /\ result = "ok" /\ ~interrupted)
  /\ worker' = IF interrupted THEN "gone" ELSE worker
  /\ UNCHANGED <<resolved, callbacks>>

LoopStep ==
  /\ RunCallback \/ Resume
  /\ UNCHANGED <<stop, state, calls, sel, interrupted, asked, accepting, thread, localVars,
                 cacheVars, fileVars>>

-----------------------------------------------------------------------------
\* The thread.

\* The call's function returns, or raises e with nothing left to clean up.
Finish(e) == thread' = "ends" /\ result' = e

\* The first look at the cancel event, and the key for the cold_pipeline metric.
Begins ==
  /\ thread = "begins"
  /\ \/ /\ op # "close" /\ ~cancel /\ ~Unreadable(sel)
        /\ thread' = "prepares" /\ UNCHANGED result
     \/ cancel /\ Finish("service")
     \/ Unreadable(sel) /\ \E e \in {"service", "other"} : Finish(e)
     \/ op = "close" /\ thread' = "closes" /\ UNCHANGED result
  /\ UNCHANGED <<state, callbacks, using, key, reports, cacheVars>>

\* _prepare() looks at _stop, then at the file.
Refuses ==
  /\ thread = "prepares"
  /\ \/ stop /\ Finish("service")
     \/ ~stop /\ Unreadable(sel) /\ \E e \in {"service", "other"} : Finish(e)
  /\ UNCHANGED <<state, callbacks, using, key, reports, cacheVars>>

\* Where _prepare() returns to.
Prepared ==
  /\ thread' = IF op = "initialize" THEN "ends" ELSE "checks"
  /\ UNCHANGED result

\* The cached runtime fits.
Reuses ==
  /\ thread = "prepares"
  /\ ~stop /\ ~Unreadable(sel)
  /\ cached # NoRuntime /\ cachedKey = KeyOf(sel)
  /\ key' = KeyOf(sel)
  /\ using' = cached
  /\ Prepared
  /\ UNCHANGED <<state, callbacks, reports, cacheVars>>

\* A runtime that is forgotten is closed before the next one is built.
Forgetting_Undisposed == cached' = NoRuntime /\ thread' = "builds"
Forgetting ==
  /\ cached' = NoRuntime
  /\ thread' = IF cached = NoRuntime THEN "builds" ELSE "evicts"

\* None is cached, or the selection or the file has changed.
Replaces ==
  /\ thread = "prepares"
  /\ ~stop /\ ~Unreadable(sel)
  /\ cached = NoRuntime \/ cachedKey # KeyOf(sel)
  /\ key' = KeyOf(sel)
  /\ using' = cached
  /\ Forgetting
  /\ UNCHANGED <<state, callbacks, reports, result, cachedKey, live, loaded>>

\* runtime.close() is called, and an exception of it swallowed.
Discard(r) == live' = live \ {r}

Evicts ==
  /\ thread = "evicts"
  /\ Discard(using)
  /\ thread' = "builds"
  /\ UNCHANGED <<state, callbacks, localVars, cached, cachedKey, loaded>>

Builds ==
  /\ thread = "builds"
  /\ state' = "loading_model"
  /\ using' = calls
  /\ live' = live \cup {calls}
  /\ thread' = "loads"
  /\ UNCHANGED <<callbacks, key, reports, result, cached, cachedKey, loaded>>

\* runtime.load() reads the files as they are by then.
Loads ==
  /\ thread = "loads"
  /\ ~Unreadable(sel)
  /\ loaded' = [loaded EXCEPT ![using] = KeyOf(sel)]
  /\ thread' = "loaded"
  /\ UNCHANGED <<state, callbacks, localVars, cached, cachedKey, live>>

\* It raises, or stop was set meanwhile.
LoadFails ==
  /\ thread \in {"loads", "loaded"}
  /\ thread = "loaded" => stop
  /\ Discard(using)
  /\ thread' = "unloadable"
  /\ UNCHANGED <<state, callbacks, localVars, cached, cachedKey, loaded>>

\* The runtime is kept, under the key computed before it was loaded.
KeepRuntime_Restat == cached' = using /\ cachedKey' = KeyOf(sel)
KeepRuntime == cached' = using /\ cachedKey' = key

Keeps ==
  /\ thread = "loaded"
  /\ ~stop
  /\ KeepRuntime
  /\ thread' = "announces"
  /\ UNCHANGED <<state, callbacks, localVars, live, loaded>>

Announces ==
  /\ thread = "announces"
  /\ state' = "ready"
  /\ Prepared
  /\ UNCHANGED <<callbacks, using, key, reports, cacheVars>>

\* The last look at the cancel event before the runtime is used.
Runs ==
  /\ thread = "checks"
  /\ ~cancel
  /\ thread' = "runs"
  /\ UNCHANGED <<state, callbacks, localVars, cacheVars>>

Post(kind) == callbacks' = Append(callbacks, kind)

\* runtime.report(): a look at both events. What follows in it may take its time.
ChecksReport ==
  /\ thread = "runs"
  /\ ~stop /\ ~cancel
  /\ reports < MaxReports
  /\ thread' = "posts"
  /\ UNCHANGED <<state, callbacks, localVars, cacheVars>>

\* The stage is posted to the loop, whatever was set since.
PostsStage ==
  /\ thread = "posts"
  /\ reports' = reports + 1
  /\ Post("stage")
  /\ thread' = "runs"
  /\ UNCHANGED <<state, using, key, result, cacheVars>>

\* runtime.generate() returns, having reported a stage at least.
RunSucceeds ==
  /\ thread = "runs"
  /\ reports > 0
  /\ thread' = "measures"
  /\ UNCHANGED <<state, callbacks, localVars, cacheVars>>

\* A failure, cancellation included, costs the runtime.
Invalidated == cached' = NoRuntime

\* It raises, for an event that is set or by itself.
RunFails ==
  /\ thread \in {"checks", "runs", "posts"}
  /\ thread = "checks" => cancel
  /\ Invalidated
  /\ Discard(using)
  /\ thread' = IF cancel \/ stop THEN "aborted" ELSE "broken"
  /\ UNCHANGED <<state, callbacks, localVars, cachedKey, loaded>>

\* The status after a failure, and the error raised instead of the original.
FailureState_Silent == UNCHANGED state
FailureState == state' = IF thread = "aborted" THEN "unloaded" ELSE "error"
Raised == result' = "service"

Blames ==
  /\ thread \in {"unloadable", "aborted", "broken"}
  /\ FailureState
  /\ Raised
  /\ thread' = IF thread = "unloadable" THEN "ends" ELSE "measures"
  /\ UNCHANGED <<callbacks, using, key, reports, cacheVars>>

\* The finally of _generate().
Measures ==
  /\ thread = "measures"
  /\ Post("metrics")
  /\ thread' = "ends"
  /\ UNCHANGED <<state, localVars, cacheVars>>

\* close_runtime(): an exception here is not swallowed.
ClosesRuntime ==
  /\ thread = "closes"
  /\ \/ Finish("ok") /\ cached' = NoRuntime /\ Discard(cached)
     \/ Finish("other") /\ cached # NoRuntime /\ UNCHANGED <<cached, live>>
  /\ UNCHANGED <<state, callbacks, using, key, reports, cachedKey, loaded>>

\* The future is done, which the loop learns by a callback as well.
Ends ==
  /\ thread = "ends"
  /\ Post("done")
  /\ thread' = "idle"
  /\ UNCHANGED <<state, localVars, cacheVars>>

Preparing ==
  \/ Refuses \/ Reuses \/ Replaces
  \/ Evicts \/ Builds \/ Loads \/ LoadFails \/ Keeps \/ Announces
Running == Runs \/ ChecksReport \/ PostsStage \/ RunSucceeds \/ RunFails \/ Measures
ThreadStep ==
  /\ Begins \/ Preparing \/ Running \/ Blames \/ ClosesRuntime \/ Ends
  /\ UNCHANGED <<loopVars, fileVars>>

-----------------------------------------------------------------------------
\* The operator installs, replaces or removes the LoRA file.
ReplaceLora == version < MaxVersion /\ version' = version + 1 /\ installed' = TRUE
RemoveLora == installed /\ installed' = FALSE /\ UNCHANGED version

FileStep ==
  /\ ReplaceLora \/ RemoveLora
  /\ UNCHANGED <<loopVars, state, callbacks, thread, localVars, cacheVars>>

CallStep ==
  /\ Initialize \/ (\E s \in Selections : Generate(s)) \/ Close \/ Signals
  /\ UNCHANGED <<cacheVars, fileVars>>

Next == CallStep \/ LoopStep \/ ThreadStep \/ FileStep

Spec == Init /\ [][Next]_vars

\* The thread goes on, except that a generation nobody cancelled may take for
\* ever: between its steps the runtime looks at both events, and a report past its look
\* at them is carried through. The loop runs its callbacks and ready tasks.
ThreadGoesOn == ThreadStep /\ (thread = "runs" => cancel \/ stop)
Fairness == WF_vars(ThreadGoesOn) /\ WF_vars(LoopStep)
FairSpec == Spec /\ Fairness

-----------------------------------------------------------------------------
LoopTypeOK ==
  /\ stop \in BOOLEAN /\ closed \in BOOLEAN
  /\ op \in {"none", "initialize", "generate", "close"}
  /\ calls \in 0..MaxCalls
  /\ sel \in Selections
  /\ cancel \in BOOLEAN /\ interrupted \in BOOLEAN /\ resolved \in BOOLEAN
  /\ heard \in Nat
  /\ asked \in Versions
  /\ accepting \in BOOLEAN
  /\ worker \in {"new", "ready", "gone"}
  /\ callbacks \in Seq({"stage", "metrics", "done"})
  /\ version \in Versions /\ installed \in BOOLEAN

ThreadTypeOK ==
  /\ thread \in {"idle", "begins", "prepares", "evicts", "builds", "loads", "loaded",
                 "unloadable", "announces", "checks", "runs", "posts", "aborted",
                 "broken", "measures", "closes", "ends"}
  /\ reports \in 0..MaxReports
  /\ result \in {"ok", "service", "other"}
  /\ state \in {"unloaded", "loading_model", "ready", "error", "stopping"}

CacheTypeOK ==
  /\ using \in Runtimes \cup {NoRuntime}
  /\ cached \in Runtimes \cup {NoRuntime}
  /\ key \in Keys
  /\ cachedKey \in Keys
  /\ live \subseteq Runtimes
  /\ loaded \in [Runtimes -> Keys]

TypeOK == LoopTypeOK /\ ThreadTypeOK /\ CacheTypeOK

\* There is room for one runtime on the GPU: the previous one is asked to close
\* before another is built, whatever fails and whatever the selections are.
OneRuntime == \A r, s \in live : r = s

\* Between two pieces of work exactly the cached runtime is alive: one that
\* failed, was cancelled or was replaced is neither kept nor left behind.
RuntimeAtRest == thread \in {"idle", "ends"} => live = {cached} \ {NoRuntime}

\* The GPU is accounted for at every moment: no second runtime while one works, none
\* but the cached one at rest.
RuntimeAccounted == OneRuntime /\ RuntimeAtRest

\* A generation runs on what its selection names, from a file at least as new as
\* when the call was made, however files are replaced around stat, load and reuse.
LorasFresh ==
  thread \in {"runs", "posts"} =>
    /\ loaded[using][1] = sel
    /\ sel \in Styled => loaded[using][2] >= asked

\* A call returns only after the thread has stopped working for it and after all
\* its stages and metrics were delivered, also if its own task is cancelled.
ReturnsAfterWork ==
  /\ op = "none" \/ resolved => thread = "idle" /\ callbacks = <<>>
  /\ \A i \in DOMAIN callbacks : callbacks[i] = "done" => i = Len(callbacks)

\* What /health says of the model between two calls: ready if and only if a runtime
\* is there to be used, and after close() nothing but stopping.
StatusHonest ==
  op = "none" =>
    /\ state = "ready" => cached # NoRuntime
    /\ cached # NoRuntime => state \in {"ready", "stopping"}
    /\ closed => state = "stopping" /\ cached = NoRuntime

\* The worker survives a failed start: initialize() raises ServiceError or nothing.
InitializeContained == op = "initialize" => result # "other"

\* The loop is told what is the case: by the status, and by what a failed start raises.
AnswersHonest == StatusHonest /\ InitializeContained

-----------------------------------------------------------------------------
\* Every call that was revoked returns, and so does every one but generate().
RevokedCallReturns ==
  op # "none" /\ (op = "generate" => cancel \/ stop \/ interrupted) ~> op = "none"

\* The job manager's view of the pipeline manager.
Backend == INSTANCE GenerationBackend
  WITH NoCall <- "none", busy <- op, working <- thread # "idle",
       revoked <- stop \/ cancel, retired <- closed

ImplementsBackend == Backend!BackendSafety
ImplementsFairBackend == Backend!BackendSpec
=============================================================================
