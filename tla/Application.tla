----------------------------- MODULE Application -----------------------------
(***************************************************************************)
(* The job manager of Server with the pipeline manager of PipelineManager  *)
(* in the place of its backend, in one process after another.              *)
(*                                                                         *)
(* Server takes what a backend does from the contract: it may report and   *)
(* write while it is awaited, and return at any time. Here the two run on  *)
(* the state they share. The cancel event of a call is the event of its    *)
(* job; the callbacks that the thread posts are bound to the job of their  *)
(* call and run whenever the loop gets to them; the thread writes to the   *)
(* file it was given, whether or not somebody still awaits it. No task is  *)
(* cancelled from outside: the process then ends, as in Server.            *)
(***************************************************************************)
EXTENDS Server

CONSTANTS Selections, Styled, Plain,    \* of PipelineManager
          MaxCalls, MaxVersion, MaxReports

ASSUME ApplicationAssumption ==
  /\ Styled \subseteq Selections
  /\ Plain \in Selections \ Styled
  /\ {MaxCalls, MaxVersion} \subseteq Nat
  /\ MaxReports \in Nat \ {0}

VARIABLES stop, closed, op, calls, sel, resolved, heard, asked,  \* of PipelineManager
          state, callbacks, thread, using, key, reports, result,
          cached, cachedKey, live, loaded, version, installed,
          job,     \* context.id of the last generate(): its callbacks are bound to it
          closing  \* stop() has come to backend.close()

\* What the pipeline manager sees of the job manager: an event, whether jobs are still
\* admitted, and how far the worker task is.
Backend == INSTANCE PipelineManager
  WITH cancel <- op = "generate" /\ job \in cancel,
       interrupted <- ~TRUE,
       accepting <- accepting \/ phase = "down",
       worker <- IF worker \in {"absent", "initializing"} /\ op = "none" THEN "new" ELSE "ready"

callVars == <<op, calls, sel, resolved, heard, asked>>
threadVars == <<thread, using, key, reports, result>>
cacheVars == <<cached, cachedKey, live, loaded>>
fileVars == <<version, installed>>
backendVars == <<stop, closed, state, callVars, callbacks, threadVars, cacheVars, fileVars>>
bindingVars == <<job, closing>>
appVars == <<vars, backendVars, bindingVars>>

AppInit == Init /\ Backend!Init /\ job = NoJob /\ closing = FALSE

-----------------------------------------------------------------------------
\* Whatever concerns the backend in nothing but the event of the job it works for.
JobManagerStep ==
  /\ \/ \E a \in AssetIds : AssetStep(a) \/ UploadEnds(a)
     \/ \E j \in JobIds : RequestStep(j) \/ ResponseEnds(j)
     \/ /\ WorkerExits \/ WorkerSleeps \/ WorkerWakes \/ WorkerTakesAndFails
        /\ UNCHANGED lifeVars
     \/ Sweep
     \/ SweepAborts
     \/ StartServer
     \/ StartRaises
     \/ Tick
     \/ FileVanishes
  /\ UNCHANGED <<backendVars, bindingVars>>

\* _run() begins: await backend.initialize(), unless that does nothing.
Initializes ==
  /\ worker = "initializing" /\ op = "none"
  /\ \/ /\ UNCHANGED <<vars, bindingVars>>
        /\ Backend!Execute("initialize", Plain)
     \/ /\ Initialized
        /\ UNCHANGED <<lifeVars, bindingVars, closed, callVars, callbacks, threadVars>>
  /\ UNCHANGED <<stop, state, cacheVars, fileVars>>

\* The worker takes a job, up to await backend.generate(). A selection that does not
\* resolve is refused before anything is handed to the thread.
Generates ==
  /\ WorkerTakes
  /\ job' = running'
  /\ UNCHANGED <<lifeVars, closing>>
  /\ \E s \in Selections :
       \/ ~Backend!Unreadable(s) /\ Backend!Execute("generate", s)
       \/ Backend!Unreadable(s) /\ UNCHANGED <<closed, callVars, callbacks, threadVars>>
  /\ UNCHANGED <<stop, state, cacheVars, fileVars>>

\* _report_stage, of the job that partial() bound it to. A stage that is not ahead of the
\* job's status raises in the callback.
StageReported(stage) ==
  IF CanTransition(status[job], stage)
  THEN /\ Transition(job, stage)
       /\ UNCHANGED <<now, storageVars, assetVars, spec, cancel, readers, output, expiresAt,
                      downloaded, deletePending, queueVars, lifeVars>>
  ELSE UNCHANGED vars

\* The loop comes to a callback of the thread: a stage, the metrics, the future.
CallbackRuns ==
  /\ LoopFree
  /\ callbacks # <<>>
  /\ IF Head(callbacks) = "stage"
     THEN \E stage \in ActiveStages : StageReported(stage)
     ELSE UNCHANGED vars
  /\ UNCHANGED bindingVars
  /\ Backend!RunCallback
  /\ UNCHANGED <<stop, state, calls, sel, asked, threadVars, cacheVars, fileVars>>

\* The await ends, and the worker or stop() goes on. A refused call has nothing to await.
Returns ==
  /\ \/ /\ op = "initialize" /\ result # "other"
        /\ Initialized
     \/ /\ op = "generate" /\ result = "ok"
        /\ GenerationCompletes
     \/ /\ op = "generate"
        /\ \E ok \in PartialUnlink : GenerationEnds(ok)
     \/ /\ op = "close"
        /\ UNCHANGED <<now, storageVars, assetVars, jobVars>>
  /\ UNCHANGED <<lifeVars, bindingVars>>
  /\ Backend!Resume
  /\ UNCHANGED <<stop, state, calls, sel, asked, threadVars, cacheVars, fileVars>>

RefusedEnds ==
  /\ op = "none"
  /\ \E ok \in PartialUnlink : GenerationEnds(ok)
  /\ UNCHANGED <<lifeVars, backendVars, bindingVars>>

-----------------------------------------------------------------------------
\* The thread goes on, or what it calls writes to context.partial_path.
ThreadGoes == UNCHANGED <<vars, bindingVars>> /\ Backend!ThreadStep

ThreadWrites ==
  /\ thread \in {"runs", "posts"}
  /\ Touch(job)
  /\ UNCHANGED <<now, outputs, assetFiles, assetVars, jobVars, lifeVars>>
  /\ UNCHANGED <<backendVars, bindingVars>>

LorasChange == UNCHANGED <<vars, bindingVars>> /\ Backend!FileStep

-----------------------------------------------------------------------------
\* stop(), with begin_shutdown() in it, up to awaiting the worker.
Stops ==
  /\ StopServer
  /\ Backend!StopSignalled
  /\ UNCHANGED <<closed, callVars, callbacks, threadVars, cacheVars, fileVars, bindingVars>>

\* Mutant: stop() does not wait for the worker.
WorkerOver_Unasked == LoopFree
WorkerOver == worker = "exited"

\* The worker has returned: stop() goes on to backend.close().
Closes ==
  /\ phase = "stopping" /\ ~closing
  /\ WorkerOver
  /\ closing' = TRUE
  /\ UNCHANGED <<vars, job>>
  /\ Backend!StopSignalled
  /\ Backend!Execute("close", Plain)
  /\ UNCHANGED <<cacheVars, fileVars>>

\* With the process its manager, its thread and what it had on the GPU are gone.
BackendGone ==
  /\ stop' = FALSE /\ closed' = FALSE /\ state' = "unloaded"
  /\ op' = "none" /\ calls' = 0 /\ sel' = Plain /\ asked' = 0
  /\ resolved' = FALSE /\ heard' = 0
  /\ callbacks' = <<>>
  /\ thread' = "idle" /\ using' = Backend!NoRuntime /\ key' = <<Plain, 0>>
  /\ reports' = 0 /\ result' = "ok"
  /\ cached' = Backend!NoRuntime /\ cachedKey' = <<Plain, 0>>
  /\ live' = {} /\ loaded' = [r \in Backend!Runtimes |-> <<Plain, 0>>]
  /\ job' = NoJob /\ closing' = FALSE
  /\ UNCHANGED fileVars

\* close() has returned or raised; the lifespan comes to its end.
Ends == closing /\ op = "none" /\ ProcessEnds /\ BackendGone

Dies == Crash /\ BackendGone

AppNext ==
  \/ JobManagerStep
  \/ Initializes \/ Generates \/ CallbackRuns \/ Returns \/ RefusedEnds
  \/ ThreadGoes \/ ThreadWrites
  \/ LorasChange
  \/ Stops \/ Closes \/ Ends \/ Dies

AppSpec == AppInit /\ [][AppNext]_appVars

-----------------------------------------------------------------------------
\* Every step is a step of Server or none: the pipeline manager does nothing that the
\* job manager, its proofs and the service's clients do not expect of a backend.
ImplementsServer == Spec

\* Within a process every step is one of PipelineManager or none: the job manager calls
\* its backend only as that module expects of its caller.
CallsAsExpected ==
  [][phase' = "down" \/ Backend!Next \/ UNCHANGED Backend!vars]_appVars

\* While the thread works for a generation, its job is the one in the slot, under way
\* and with its partial file there, its inputs leased and, unless somebody else removed
\* them, on disk. From cancelled requests to a sweep nothing takes them from the thread.
WorkHasItsFiles ==
  op = "generate" =>
    /\ running = job
    /\ status[job] \in ActiveStages
    /\ tmp[job] # Never
    /\ \A a \in spec[job] :
         job \in leases[a] /\ (assetFiles[a] # Never \/ a \in gone)

\* Whoever turns to the backend finds it settled: the worker that goes for a job and the
\* stop() that goes for close() find it open and idle, no waiting job has its event set,
\* and what the directory locks are given back after has neither thread nor callback, nor
\* a runtime but one whose close() raised.
BackendSettled ==
  /\ worker = "ready" \/ (worker = "exited" /\ ~closing) => op = "none" /\ ~closed
  /\ \A i \in DOMAIN pending : pending[i] \notin cancel
  /\ closing /\ op = "none" =>
       /\ thread = "idle" /\ callbacks = <<>>
       /\ live # {} => result = "other"

\* The two managers are in step: what the thread works for is as the job manager has it,
\* and the job manager comes to the backend when the backend is ready for it.
InStep == WorkHasItsFiles /\ BackendSettled
=============================================================================
