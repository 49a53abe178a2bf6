-------------------------- MODULE Application_proofs --------------------------
(***************************************************************************)
(* Job manager and pipeline manager together: what each of them is proved  *)
(* to do alone it does with the other in the place of its environment, for *)
(* every value of the constants of both.                                   *)
(*                                                                         *)
(* The two inductive invariants are taken as they are. What is new is how  *)
(* the state of one goes with the state of the other: Binding.             *)
(***************************************************************************)
EXTENDS Application, Server_proofs

\* The theorems about the pipeline manager, as the job manager's backend.
Manager == INSTANCE Pipeline_proofs
  WITH cancel <- op = "generate" /\ job \in cancel,
       interrupted <- ~TRUE,
       accepting <- accepting \/ phase = "down",
       worker <- IF worker \in {"absent", "initializing"} /\ op = "none" THEN "new" ELSE "ready"

\* How far process and worker are, and whether jobs are admitted.
PhaseShape ==
  /\ phase = "up" => accepting
  /\ phase = "stopping" => ~accepting
  /\ accepting \/ pending = <<>>
  /\ worker = "absent" <=> phase = "down"

\* The call under way is the one that the worker, or stop(), awaits.
Binding ==
  /\ op = "initialize" => worker = "initializing"
  /\ op = "generate" => worker = "generating" /\ running = job
  /\ op = "close" => closing
  /\ closing => phase = "stopping" /\ worker = "exited"
  /\ closed => closing
  /\ closing /\ op = "none" /\ ~closed => result = "other"
  /\ phase = "down" => op = "none"

AppInv == IInv /\ RevokedNotWaiting /\ PhaseShape /\ Manager!PipelineInv /\ Binding

-----------------------------------------------------------------------------
\* Pipeline manager and thread have steps only for what was begun: what holds of a
\* callback or of a thread that works is in the invariant of the pipeline manager.
LEMMA CallFacts ==
  ASSUME AppInv
  PROVE  /\ callbacks # <<>> => op # "none"
         /\ callbacks # <<>> /\ Head(callbacks) = "stage" => op = "generate"
         /\ thread \in {"runs", "posts"} => op = "generate"
         /\ op = "none" => thread = "idle"
<1> USE DEF AppInv, Manager!PipelineInv, Manager!CallShape, Manager!OpShape, Manager!TypeOK,
        Manager!LoopTypeOK
<1>1. /\ callbacks # <<>> => op # "none"
      /\ thread \in {"runs", "posts"} => op = "generate"
      /\ op = "none" => thread = "idle"
      OBVIOUS
<1>2. ASSUME callbacks # <<>>, Head(callbacks) = "stage"
      PROVE  op = "generate"
  <2>1. 1 \in DOMAIN callbacks /\ callbacks[1] = "stage"
        BY <1>2
  <2> QED BY <2>1
<1> QED BY <1>1, <1>2

\* The job of the call under way is the one in the slot.
LEMMA JobFacts ==
  ASSUME AppInv, op = "generate"
  PROVE  /\ worker = "generating"
         /\ job = running
         /\ job \in JobIds
         /\ status[job] \in ActiveStages
         /\ tmp[job] # Never
<1>1. worker = "generating" /\ running = job
      BY DEF AppInv, Binding
<1>2. job \in JobIds /\ status[job] \in ActiveStages
      BY <1>1, RunningFacts DEF AppInv, IInv
<1>3. tmp[job] # Never
      BY <1>1, <1>2 DEF AppInv, IInv, PartialsStay
<1> QED BY <1>1, <1>2, <1>3

-----------------------------------------------------------------------------
\* To the job manager and its clients every step is one of Server.
LEMMA ServerMaps == AppInv /\ [AppNext]_appVars => [Next]_vars
<1> SUFFICES ASSUME AppInv, [AppNext]_appVars PROVE [Next]_vars
    OBVIOUS
<1>1. CASE JobManagerStep
      BY <1>1 DEF JobManagerStep, Next, WorkerStep
<1>2. CASE Initializes
      BY <1>2 DEF Initializes, Next, WorkerStep
<1>3. CASE Generates
      BY <1>3 DEF Generates, Next, WorkerStep
<1>4. CASE CallbackRuns
  <2>1. CASE Head(callbacks) = "stage"
    <3>1. PICK stage \in ActiveStages : StageReported(stage)
          BY <1>4, <2>1 DEF CallbackRuns
    <3>2. worker = "generating" /\ job = running
          BY <1>4, <2>1, CallFacts, JobFacts DEF CallbackRuns
    <3>3. CASE CanTransition(status[job], stage)
      <4>1. ReportStage(stage) /\ UNCHANGED lifeVars
            BY <3>1, <3>2, <3>3 DEF StageReported, ReportStage
      <4> QED BY <4>1 DEF Next, BackendProgress
    <3>4. CASE ~CanTransition(status[job], stage)
          BY <3>1, <3>4 DEF StageReported
    <3> QED BY <3>3, <3>4
  <2>2. CASE Head(callbacks) # "stage"
        BY <1>4, <2>2 DEF CallbackRuns
  <2> QED BY <2>1, <2>2
<1>5. CASE Returns
  <2>1. CASE Initialized
        BY <1>5, <2>1 DEF Returns, Next, WorkerStep
  <2>2. CASE GenerationCompletes \/ \E ok \in PartialUnlink : GenerationEnds(ok)
        BY <1>5, <2>2 DEF Returns, Next, BackendReturns
  <2>3. CASE UNCHANGED <<now, storageVars, assetVars, jobVars>>
        BY <1>5, <2>3 DEF Returns, vars
  <2> QED BY <1>5, <2>1, <2>2, <2>3 DEF Returns
<1>6. CASE RefusedEnds
      BY <1>6 DEF RefusedEnds, Next, BackendReturns
<1>7. CASE ThreadGoes \/ LorasChange \/ Closes
      BY <1>7 DEF ThreadGoes, LorasChange, Closes
<1>8. CASE ThreadWrites
  <2>1. worker = "generating" /\ job = running /\ tmp[running] # Never
        BY <1>8, CallFacts, JobFacts DEF ThreadWrites
  <2>2. BackendWrites /\ UNCHANGED lifeVars
        BY <1>8, <2>1 DEF ThreadWrites, BackendWrites
  <2> QED BY <2>2 DEF Next, BackendProgress
<1>9. CASE Stops
      BY <1>9 DEF Stops, Next
<1>10. CASE Ends
      BY <1>10 DEF Ends, Next
<1>11. CASE Dies
      BY <1>11 DEF Dies, Next
<1>12. CASE UNCHANGED appVars
      BY <1>12 DEF appVars
<1> QED BY <1>1, <1>2, <1>3, <1>4, <1>5, <1>6, <1>7, <1>8, <1>9, <1>10, <1>11, <1>12
        DEF AppNext

\* Start and stop of the worker, as the job manager alone has them.
LEMMA PhaseStep == IInv /\ PhaseShape /\ [Next]_vars => PhaseShape'
<1> SUFFICES ASSUME IInv, PhaseShape, [Next]_vars PROVE PhaseShape'
    OBVIOUS
<1> USE DEF IInv, TypeOK, JobTypeOK, PhaseShape
<1>1. ASSUME NEW a \in AssetIds, AssetStep(a) \/ UploadEnds(a) PROVE PhaseShape'
      BY <1>1 DEF AssetStep, UploadEnds, jobVars, queueVars, lifeVars
<1>2. ASSUME NEW j \in JobIds, ResponseEnds(j) PROVE PhaseShape'
      BY <1>2 DEF ResponseEnds, EndDownload, queueVars, lifeVars
<1>3. ASSUME NEW j \in JobIds, RequestStep(j) PROVE PhaseShape'
  <2>1. UNCHANGED <<phase, accepting>> /\ (worker' = worker)
        BY <1>3 DEF RequestStep, Submit, GetExpires, BeginDownload, BeginDownloadMissing,
           DeleteQueued, DeleteRunning, KeepSlot, DeleteFinished, queueVars, lifeVars
  <2>2. ASSUME ~accepting PROVE pending' = <<>>
    <3>1. pending = <<>> /\ DOMAIN pending = {}
          BY <2>2
    <3>2. ~DeleteQueued(j) /\ ~\E assets \in SUBSET AssetIds : Submit(j, assets)
          BY <2>2, <3>1 DEF DeleteQueued, Submit
    <3>3. pending' = pending
          BY <1>3, <3>2 DEF RequestStep, GetExpires, BeginDownload, BeginDownloadMissing,
             DeleteRunning, DeleteFinished, queueVars
    <3> QED BY <3>1, <3>3
  <2> QED BY <2>1, <2>2
<1>4. CASE WorkerStep
  <2>1. CASE Initialized \/ WorkerExits \/ WorkerSleeps \/ WorkerWakes
        BY <1>4, <2>1 DEF WorkerStep, Initialized, WorkerExits, WorkerSleeps, WorkerWakes,
           lifeVars
  <2>2. CASE WorkerTakes \/ WorkerTakesAndFails
    <3>1. UNCHANGED <<phase, accepting>> /\ worker = "ready" /\ worker' # "absent"
            /\ pending # <<>>
          BY <1>4, <2>2 DEF WorkerStep, WorkerTakes, WorkerTakesAndFails, PopLeft, lifeVars
    <3> QED BY <3>1
  <2> QED BY <1>4, <2>1, <2>2 DEF WorkerStep
<1>5. CASE BackendProgress \/ BackendReturns
  <2>1. /\ UNCHANGED <<phase, accepting, pending>>
        /\ worker = "generating" /\ worker' # "absent"
        BY <1>5 DEF BackendProgress, BackendReturns, BackendWrites, ReportStage,
           GenerationCompletes, GenerationEnds, WorkerReleases, jobVars, queueVars, lifeVars
  <2> QED BY <2>1
<1>6. CASE Sweep \/ SweepAborts
  <2>1. SweptAny
        BY <1>6, SweptPart
  <2> QED BY <2>1 DEF SweptAny, Swept, queueVars, lifeVars
<1>7. CASE StartServer \/ StartRaises
      BY <1>7 DEF StartServer, StartRaises, FirstSwept, StartWorker
<1>8. CASE StopServer
      BY <1>8 DEF StopServer, Stop
<1>9. CASE ProcessEnds \/ Crash
      BY <1>9 DEF ProcessEnds, Crash, MemoryLost
<1>10. CASE Tick \/ FileVanishes
      BY <1>10 DEF Tick, FileVanishes, jobVars, queueVars, lifeVars
<1>11. CASE UNCHANGED vars
      BY <1>11 DEF vars, jobVars, queueVars, lifeVars
<1> QED BY <1>1, <1>2, <1>3, <1>4, <1>5, <1>6, <1>7, <1>8, <1>9, <1>10, <1>11 DEF Next

-----------------------------------------------------------------------------
CallsStep == [Backend!Next]_(Backend!vars)

\* What the pipeline manager sees of a step that is none of its own: nothing, if the
\* event of its job, the admission and the worker's place are as before.
LEMMA Aside ==
  ASSUME UNCHANGED backendVars,
         UNCHANGED <<op = "generate" /\ job \in cancel,
                     accepting \/ phase = "down",
                     worker \in {"absent", "initializing"} /\ op = "none">>
  PROVE  CallsStep
BY DEF CallsStep, Backend!vars, Backend!loopVars, Backend!callVars, Backend!localVars,
   Backend!cacheVars, Backend!fileVars, backendVars, callVars, threadVars, cacheVars, fileVars

\* Such a step, where it leaves event, admission and worker alone.
LEMMA AsideKept ==
  ASSUME UNCHANGED <<backendVars, bindingVars, phase, accepting, worker>>,
         op = "generate" => (job \in cancel' <=> job \in cancel)
  PROVE  CallsStep
<1>1. UNCHANGED <<backendVars, op, job>>
      BY DEF backendVars, callVars, bindingVars
<1>2. UNCHANGED <<op = "generate" /\ job \in cancel,
                  accepting \/ phase = "down",
                  worker \in {"absent", "initializing"} /\ op = "none">>
      BY <1>1
<1> QED BY <1>1, <1>2, Aside

\* DELETE of the running job is the only request that the backend notices.
LEMMA RequestMaps ==
  ASSUME AppInv, NEW j \in JobIds, RequestStep(j), UNCHANGED <<backendVars, bindingVars>>
  PROVE  CallsStep
<1>1. UNCHANGED <<phase, accepting, worker>>
      BY DEF RequestStep, Submit, GetExpires, BeginDownload, BeginDownloadMissing,
         DeleteQueued, DeleteRunning, KeepSlot, DeleteFinished, queueVars, lifeVars
<1>2. CASE cancel' = cancel
      BY <1>1, <1>2, AsideKept
<1>3. CASE cancel' = cancel \cup {j} /\ running # j
      BY <1>1, <1>3, JobFacts, AsideKept
<1>4. CASE cancel' = cancel \cup {j} /\ running = j
  <2>1. CASE op = "generate"
    <3>1. op' = "generate" /\ job' = job /\ job = j
          BY <1>4, <2>1, JobFacts DEF backendVars, callVars, bindingVars
    <3>2. (op' = "generate" /\ job' \in cancel') = TRUE
          BY <3>1, <1>4
    <3>3. Backend!CancelJob
          BY <1>1, <2>1, <3>2 DEF Backend!CancelJob, backendVars
    <3>4. Backend!Signals /\ UNCHANGED <<Backend!cacheVars, Backend!fileVars>>
          BY <1>1, <3>1, <3>3, <2>1
             DEF Backend!Signals, Backend!localVars, Backend!cacheVars, Backend!fileVars,
             backendVars, callVars, threadVars, cacheVars, fileVars
    <3> QED BY <3>4 DEF CallsStep, Backend!Next, Backend!CallStep
  <2>2. CASE op # "generate"
        BY <1>1, <2>2, AsideKept
  <2> QED BY <2>1, <2>2
<1>5. \/ cancel' = cancel
      \/ cancel' = cancel \cup {j} /\ running # j
      \/ cancel' = cancel \cup {j} /\ running = j
      BY DEF RequestStep, Submit, GetExpires, BeginDownload, BeginDownloadMissing,
         DeleteQueued, DeleteRunning, DeleteFinished
<1> QED BY <1>2, <1>3, <1>4, <1>5

\* A step of the job manager alone leaves the pipeline manager where it is.
LEMMA JobManagerMaps ==
  ASSUME AppInv, JobManagerStep
  PROVE  CallsStep
<1> USE DEF AppInv, IInv, TypeOK, JobTypeOK
<1>1. UNCHANGED <<backendVars, bindingVars>>
      BY DEF JobManagerStep
<1>2. ASSUME NEW a \in AssetIds, AssetStep(a) \/ UploadEnds(a) PROVE CallsStep
      BY <1>1, <1>2, AsideKept DEF AssetStep, UploadEnds, jobVars, recordVars, queueVars,
         lifeVars
<1>3. ASSUME NEW j \in JobIds, RequestStep(j) PROVE CallsStep
      BY <1>1, <1>3, RequestMaps
<1>4. ASSUME NEW j \in JobIds, ResponseEnds(j) PROVE CallsStep
      BY <1>1, <1>4, AsideKept DEF ResponseEnds, EndDownload, queueVars, lifeVars
<1>5. CASE /\ WorkerExits \/ WorkerSleeps \/ WorkerWakes \/ WorkerTakesAndFails
           /\ UNCHANGED lifeVars
  <2>1. /\ UNCHANGED <<phase, accepting, cancel>>
        /\ worker \notin {"absent", "initializing"} /\ worker' \notin {"absent", "initializing"}
        BY <1>5 DEF WorkerExits, WorkerSleeps, WorkerWakes, WorkerTakesAndFails, recordVars,
           lifeVars
  <2> QED BY <1>1, <2>1, Aside DEF backendVars, callVars, bindingVars
<1>6. CASE Sweep \/ SweepAborts
  <2>1. SweptAny
        BY <1>6, SweptPart
  <2>2. UNCHANGED <<phase, accepting, worker>>
        BY <2>1 DEF SweptAny, Swept, queueVars, lifeVars
  <2>3. PICK dropped \in SUBSET JobIds :
          cancel' = cancel \ dropped /\ \A j \in dropped : status[j] \in TERMINAL
    <3>1. PICK jobs \in SUBSET JobIds, assets \in SUBSET StaleAssets,
               partials \in SUBSET OldTmp, published \in SUBSET OldOutputs,
               uploads \in SUBSET OldAssets : Swept(jobs, assets, partials, published, uploads)
          BY <2>1 DEF SweptAny
    <3> DEFINE forgotten == {j \in jobs : Forgettable(j)}
    <3>2. cancel' = cancel \ forgotten
          BY <3>1 DEF Swept
    <3>3. forgotten \in SUBSET JobIds /\ \A j \in forgotten : status[j] \in TERMINAL
          BY DEF Forgettable
    <3> HIDE DEF forgotten
    <3> QED BY <3>2, <3>3
  <2>4. ASSUME op = "generate" PROVE job \in cancel' <=> job \in cancel
    <3>1. status[job] \in ActiveStages
          BY <2>4, JobFacts
    <3>2. job \notin dropped
          BY <2>3, <3>1, LiveFacts
    <3> QED BY <2>3, <3>2
  <2> QED BY <1>1, <2>2, <2>4, AsideKept
<1>7. CASE StartServer \/ StartRaises
  <2>1. /\ phase = "down" /\ op = "none" /\ worker = "absent" /\ cancel' = cancel
        /\ worker' \in {"absent", "initializing"}
        /\ accepting' \/ phase' = "down"
        BY <1>7 DEF StartServer, StartRaises, FirstSwept, StartWorker, recordVars, Binding,
           DownIsEmpty
  <2> QED BY <1>1, <2>1, Aside DEF backendVars, callVars, bindingVars
<1>8. CASE Tick \/ FileVanishes
      BY <1>1, <1>8, AsideKept DEF Tick, FileVanishes, jobVars, recordVars, queueVars,
         lifeVars
<1> QED BY <1>2, <1>3, <1>4, <1>5, <1>6, <1>7, <1>8 DEF JobManagerStep

-----------------------------------------------------------------------------
\* What the pipeline manager knows of the job manager, between its calls and in them.
LEMMA ViewOfCalls ==
  ASSUME AppInv
  PROVE  /\ op # "none" => worker \notin {"absent", "ready"} /\ phase # "down"
         /\ worker \in {"ready", "waiting"} => op = "none"
         /\ worker = "ready" /\ pending # <<>> => accepting
BY DEF AppInv, Binding, PhaseShape, Manager!PipelineInv, Manager!TypeOK, Manager!LoopTypeOK

\* The worker's initialize() is a call the pipeline manager can take, or one that ends
\* before anything is handed to the thread.
LEMMA InitializesMaps ==
  ASSUME AppInv, Initializes
  PROVE  CallsStep
<1>1. worker = "initializing" /\ op = "none"
      BY DEF Initializes
<1>2. /\ UNCHANGED <<stop, state, phase, accepting, cancel, cacheVars, fileVars>>
      /\ ~(worker' \in {"absent", "initializing"} /\ op' = "none")
      /\ Backend!Execute("initialize", Plain)
           \/ UNCHANGED <<closed, callVars, callbacks, threadVars>>
      BY <1>1 DEF Initializes, Initialized, vars, jobVars, recordVars, queueVars, lifeVars,
         Backend!Execute
<1>3. CASE Backend!Execute("initialize", Plain)
  <2>1. Backend!Initialize
        BY <1>1, <1>2, <1>3 DEF Backend!Initialize
  <2> QED BY <1>2, <2>1 DEF CallsStep, Backend!Next, Backend!CallStep, Backend!cacheVars,
          Backend!fileVars, cacheVars, fileVars
<1>4. CASE UNCHANGED <<closed, callVars, callbacks, threadVars>>
  <2>1. UNCHANGED <<closed, Backend!callVars, callbacks, thread, Backend!localVars>>
        BY <1>1, <1>2, <1>4 DEF Backend!callVars, Backend!localVars, callVars, threadVars
  <2>2. Backend!Initialize
        BY <1>1, <1>2, <2>1 DEF Backend!Initialize
  <2> QED BY <1>2, <2>2 DEF CallsStep, Backend!Next, Backend!CallStep, Backend!cacheVars,
          Backend!fileVars, cacheVars, fileVars
<1> QED BY <1>2, <1>3, <1>4

\* _process calls generate() when no other call is under way.
LEMMA GeneratesMaps ==
  ASSUME AppInv, Generates
  PROVE  CallsStep
<1>1. /\ worker = "ready" /\ worker' = "generating" /\ pending # <<>>
      /\ UNCHANGED <<stop, state, phase, accepting, cancel, cacheVars, fileVars>>
      BY DEF Generates, WorkerTakes, PopLeft, lifeVars
<1>2. op = "none" /\ accepting
      BY <1>1, ViewOfCalls
<1>3. ASSUME NEW s \in Selections, ~Backend!Unreadable(s), Backend!Execute("generate", s)
      PROVE  CallsStep
  <2>1. Backend!Generate(s)
        BY <1>1, <1>2, <1>3 DEF Backend!Generate
  <2> QED BY <1>1, <2>1 DEF CallsStep, Backend!Next, Backend!CallStep, Backend!cacheVars,
          Backend!fileVars, cacheVars, fileVars
<1>4. CASE UNCHANGED <<closed, callVars, callbacks, threadVars>>
  <2>1. UNCHANGED backendVars
        BY <1>1, <1>4 DEF backendVars
  <2>2. op' = "none"
        BY <1>2, <1>4 DEF callVars
  <2> QED BY <1>1, <1>2, <2>1, <2>2, Aside
<1> QED BY <1>3, <1>4 DEF Generates

\* A progress report that reaches the loop is the callback of the call under way.
LEMMA CallbackMaps ==
  ASSUME AppInv, CallbackRuns
  PROVE  CallsStep
<1>1. /\ UNCHANGED <<phase, accepting, cancel, worker, job>>
      /\ UNCHANGED <<stop, state, calls, sel, asked, threadVars, cacheVars, fileVars>>
      /\ Backend!RunCallback
      BY DEF CallbackRuns, StageReported, vars, jobVars, recordVars, queueVars, lifeVars,
         bindingVars
<1>2. Backend!LoopStep
      BY <1>1 DEF Backend!LoopStep, Backend!localVars, Backend!cacheVars, Backend!fileVars,
         threadVars, cacheVars, fileVars
<1> QED BY <1>2 DEF CallsStep, Backend!Next

\* What worker() and _process receive is the end of the call they are awaiting.
LEMMA ReturnsMaps ==
  ASSUME AppInv, Returns
  PROVE  CallsStep
<1>1. /\ UNCHANGED <<phase, accepting>>
      /\ UNCHANGED <<stop, state, calls, sel, asked, threadVars, cacheVars, fileVars>>
      /\ Backend!Resume
      BY DEF Returns, Initialized, GenerationCompletes, GenerationEnds, WorkerReleases,
         jobVars, queueVars, lifeVars
<1>2. Backend!LoopStep
      BY <1>1 DEF Backend!LoopStep, Backend!localVars, Backend!cacheVars, Backend!fileVars,
         threadVars, cacheVars, fileVars
<1> QED BY <1>2 DEF CallsStep, Backend!Next

\* The orderly stop passes begin_shutdown() on while a call may still be under way.
LEMMA StopsMaps ==
  ASSUME AppInv, Stops
  PROVE  CallsStep
<1>1. /\ accepting /\ phase = "up" /\ phase' = "stopping" /\ ~accepting'
      /\ worker' = worker /\ job' = job /\ op' = op
      /\ cancel \cup ({running} \cap JobIds) \subseteq cancel'
      /\ Backend!StopSignalled
      BY DEF Stops, StopServer, Stop, AppInv, PhaseShape, bindingVars, callVars
<1>2. (op' = "generate" /\ job' \in cancel')
        = ((op = "generate" /\ job \in cancel) \/ op = "generate")
  <2>1. CASE op = "generate"
        BY <1>1, <2>1, JobFacts
  <2>2. CASE op # "generate"
        BY <1>1, <2>2
  <2> QED BY <2>1, <2>2
<1>3. Backend!BeginShutdown
      BY <1>1, <1>2 DEF Backend!BeginShutdown
<1>4. Backend!Signals /\ UNCHANGED <<Backend!cacheVars, Backend!fileVars>>
      BY <1>1, <1>3 DEF Stops, Backend!Signals, Backend!localVars, Backend!cacheVars,
         Backend!fileVars, callVars, threadVars, cacheVars, fileVars
<1> QED BY <1>4 DEF CallsStep, Backend!Next, Backend!CallStep

\* close() is called once, after worker() has returned and its call with it.
LEMMA ClosesMaps ==
  ASSUME AppInv, Closes
  PROVE  CallsStep
<1>1. /\ worker = "exited" /\ worker' = worker
      /\ phase = "stopping" /\ phase' = phase
      /\ ~accepting /\ accepting' = accepting
      /\ UNCHANGED <<cacheVars, fileVars>>
      BY DEF Closes, WorkerOver, AppInv, PhaseShape, vars, jobVars, queueVars, lifeVars
<1>2. Backend!Close
      BY <1>1 DEF Closes, Backend!Close, Backend!StopSignalled
<1> QED BY <1>1, <1>2 DEF CallsStep, Backend!Next, Backend!CallStep, Backend!cacheVars,
        Backend!fileVars, cacheVars, fileVars

\* To the pipeline manager every step within a process is one of its own or none.
LEMMA CallsMap == AppInv /\ [AppNext]_appVars => (Ends \/ Dies) \/ CallsStep
<1> SUFFICES ASSUME AppInv, [AppNext]_appVars, ~(Ends \/ Dies) PROVE CallsStep
    OBVIOUS
<1>1. CASE RefusedEnds
  <2>1. /\ UNCHANGED <<backendVars, phase, accepting, cancel>> /\ op = "none"
        /\ worker = "generating" /\ worker' = "ready"
        BY <1>1 DEF RefusedEnds, GenerationEnds, WorkerReleases, lifeVars
  <2>2. op' = "none"
        BY <2>1 DEF backendVars, callVars
  <2> QED BY <2>1, <2>2, Aside
<1>2. CASE ThreadGoes
      BY <1>2 DEF ThreadGoes, CallsStep, Backend!Next
<1>3. CASE ThreadWrites
  <2>1. UNCHANGED <<backendVars, bindingVars, phase, accepting, cancel, worker>>
        BY <1>3 DEF ThreadWrites, jobVars, recordVars, queueVars, lifeVars
  <2> QED BY <2>1, AsideKept
<1>4. CASE LorasChange
      BY <1>4 DEF LorasChange, CallsStep, Backend!Next
<1>5. CASE UNCHANGED appVars
  <2>1. UNCHANGED <<backendVars, bindingVars, phase, accepting, cancel, worker>>
        BY <1>5 DEF appVars, vars, jobVars, recordVars, queueVars, lifeVars
  <2> QED BY <2>1, AsideKept
<1> QED BY <1>1, <1>2, <1>3, <1>4, <1>5, JobManagerMaps, InitializesMaps, GeneratesMaps,
        CallbackMaps, ReturnsMaps, StopsMaps, ClosesMaps DEF AppNext

-----------------------------------------------------------------------------
\* The steps of the instance in Application and of the one proved about are the same.
LEMMA SameSteps == CallsStep => [Manager!Next]_(Manager!vars)
BY DEF CallsStep,
   Backend!Next, Backend!CallStep, Backend!LoopStep, Backend!ThreadStep, Backend!FileStep,
   Backend!Initialize, Backend!Generate, Backend!Close, Backend!Signals, Backend!CancelJob,
   Backend!BeginShutdown, Backend!Interrupt, Backend!Signal, Backend!StopSignalled,
   Backend!Execute, Backend!RunCallback, Backend!Resume, Backend!MayResume,
   Backend!Begins, Backend!Preparing, Backend!Running, Backend!Blames,
   Backend!ClosesRuntime, Backend!Ends, Backend!Refuses, Backend!Reuses, Backend!Replaces,
   Backend!Evicts, Backend!Builds, Backend!Loads, Backend!LoadFails, Backend!Keeps,
   Backend!Announces, Backend!Runs, Backend!ChecksReport, Backend!PostsStage,
   Backend!RunSucceeds, Backend!RunFails, Backend!Measures, Backend!Finish, Backend!Prepared,
   Backend!Forgetting, Backend!Discard, Backend!KeepRuntime, Backend!Post,
   Backend!Invalidated, Backend!FailureState, Backend!Raised, Backend!Unreadable,
   Backend!KeyOf, Backend!NoRuntime, Backend!ReplaceLora, Backend!RemoveLora,
   Backend!vars, Backend!loopVars, Backend!callVars, Backend!localVars, Backend!cacheVars,
   Backend!fileVars,
   Manager!Next, Manager!CallStep, Manager!LoopStep, Manager!ThreadStep, Manager!FileStep,
   Manager!Initialize, Manager!Generate, Manager!Close, Manager!Signals, Manager!CancelJob,
   Manager!BeginShutdown, Manager!Interrupt, Manager!Signal, Manager!StopSignalled,
   Manager!Execute, Manager!RunCallback, Manager!Resume, Manager!MayResume,
   Manager!Begins, Manager!Preparing, Manager!Running, Manager!Blames,
   Manager!ClosesRuntime, Manager!Ends, Manager!Refuses, Manager!Reuses, Manager!Replaces,
   Manager!Evicts, Manager!Builds, Manager!Loads, Manager!LoadFails, Manager!Keeps,
   Manager!Announces, Manager!Runs, Manager!ChecksReport, Manager!PostsStage,
   Manager!RunSucceeds, Manager!RunFails, Manager!Measures, Manager!Finish, Manager!Prepared,
   Manager!Forgetting, Manager!Discard, Manager!KeepRuntime, Manager!Post,
   Manager!Invalidated, Manager!FailureState, Manager!Raised, Manager!Unreadable,
   Manager!KeyOf, Manager!NoRuntime, Manager!ReplaceLora, Manager!RemoveLora,
   Manager!vars, Manager!loopVars, Manager!callVars, Manager!localVars, Manager!cacheVars,
   Manager!fileVars

\* A new process finds the backend as it is before its first call.
LEMMA FreshBackend ==
  ASSUME AppInv, BackendGone, phase' = "down", worker' = "absent"
  PROVE  Manager!PipelineInv'
<1> USE ApplicationAssumption
<1>1. /\ stop' = FALSE /\ closed' = FALSE /\ state' = "unloaded"
      /\ op' = "none" /\ calls' = 0 /\ sel' = Plain /\ asked' = 0
      /\ resolved' = FALSE /\ heard' = 0 /\ callbacks' = <<>>
      /\ thread' = "idle" /\ using' = 0 /\ key' = <<Plain, 0>>
      /\ reports' = 0 /\ result' = "ok"
      /\ cached' = 0 /\ cachedKey' = <<Plain, 0>> /\ live' = {}
      /\ loaded' = [r \in 1..MaxCalls |-> <<Plain, 0>>]
      /\ UNCHANGED <<version, installed>>
      BY DEF BackendGone, Backend!NoRuntime, Backend!Runtimes, fileVars
<1>2. Manager!TypeOK'
  <2>1. Plain \in Selections /\ MaxCalls \in Nat /\ MaxVersion \in Nat /\ MaxReports \in Nat
        OBVIOUS
  <2>2. version \in 0..MaxVersion /\ installed \in BOOLEAN
        BY DEF AppInv, Manager!PipelineInv, Manager!TypeOK, Manager!LoopTypeOK,
           Manager!Versions
  <2>3. Manager!LoopTypeOK'
    <3>1. /\ stop' \in BOOLEAN /\ closed' \in BOOLEAN /\ resolved' \in BOOLEAN
          /\ op' \in {"none", "initialize", "generate", "close"} /\ sel' \in Selections
          BY <1>1, <2>1
    <3>2. calls' \in 0..MaxCalls /\ heard' \in Nat /\ asked' \in 0..MaxVersion
          BY <1>1, <2>1
    <3>3. callbacks' \in Seq({"stage", "metrics", "done"})
          BY <1>1
    <3>4. version' \in 0..MaxVersion /\ installed' \in BOOLEAN
          BY <1>1, <2>2
    <3> QED BY <3>1, <3>2, <3>3, <3>4 DEF Manager!LoopTypeOK, Manager!Versions
  <2>4. Manager!ThreadTypeOK'
        BY <1>1, <2>1 DEF Manager!ThreadTypeOK
  <2>5. Manager!CacheTypeOK'
        BY <1>1, <2>1 DEF Manager!CacheTypeOK, Manager!Runtimes, Manager!NoRuntime,
           Manager!Keys, Manager!Versions
  <2> QED BY <2>3, <2>4, <2>5 DEF Manager!TypeOK
<1>3. Manager!CallShape' /\ Manager!OpShape'
      BY <1>1 DEF Manager!CallShape, Manager!OpShape
<1>4. Manager!RuntimeShape' /\ Manager!StatusShape'
      BY <1>1 DEF Manager!RuntimeShape, Manager!StatusShape, Manager!NoRuntime
<1>5. Manager!KeyShape'
  <2>1. asked' <= version'
        BY <1>1 DEF AppInv, Manager!PipelineInv, Manager!TypeOK, Manager!LoopTypeOK,
           Manager!Versions
  <2> QED BY <1>1, <2>1 DEF Manager!KeyShape, Manager!NoRuntime
<1> QED BY <1>2, <1>3, <1>4, <1>5 DEF Manager!PipelineInv

\* The pipeline manager's own invariant survives every step of the composition, a crash
\* and the next process included.
LEMMA ManagerStep == AppInv /\ [AppNext]_appVars => Manager!PipelineInv'
<1> SUFFICES ASSUME AppInv, [AppNext]_appVars PROVE Manager!PipelineInv'
    OBVIOUS
<1>1. CASE Ends \/ Dies
  <2>1. BackendGone /\ phase' = "down" /\ worker' = "absent"
        BY <1>1 DEF Ends, Dies, ProcessEnds, Crash, MemoryLost
  <2> QED BY <2>1, FreshBackend
<1>2. CASE CallsStep
  <2>1. Manager!PipelineInv /\ [Manager!Next]_(Manager!vars) => Manager!PipelineInv'
        BY Manager!PipelineStep, ApplicationAssumption DEF Manager!PipelineAssumption
  <2> QED BY <1>2, <2>1, SameSteps DEF AppInv
<1> QED BY <1>1, <1>2, CallsMap

-----------------------------------------------------------------------------
\* A call begins and ends where it is awaited: in between, neither the worker's job nor
\* the place the worker or stop() is at can change.
LEMMA BindingKept ==
  ASSUME AppInv, UNCHANGED <<backendVars, bindingVars>>,
         op \in {"initialize", "generate"} => UNCHANGED <<worker, running>>,
         worker = "exited" /\ phase = "stopping" => UNCHANGED <<worker, phase>>,
         phase' = "down" => phase = "down"
  PROVE  Binding'
BY DEF AppInv, Binding, backendVars, bindingVars, callVars, threadVars, Manager!PipelineInv,
   Manager!TypeOK, Manager!LoopTypeOK

\* Steps of the job manager alone keep the agreement between its state and the call.
LEMMA JobManagerBinds ==
  ASSUME AppInv, JobManagerStep
  PROVE  Binding'
<1> USE DEF AppInv, IInv, TypeOK, JobTypeOK
<1>1. UNCHANGED <<backendVars, bindingVars>>
      BY DEF JobManagerStep
<1>2. ASSUME NEW a \in AssetIds, AssetStep(a) \/ UploadEnds(a) PROVE Binding'
      BY <1>1, <1>2, BindingKept DEF AssetStep, UploadEnds, jobVars, queueVars, lifeVars
<1>3. ASSUME NEW j \in JobIds, RequestStep(j) PROVE Binding'
  <2>1. UNCHANGED <<phase, worker, running>>
        BY <1>3 DEF RequestStep, Submit, GetExpires, BeginDownload, BeginDownloadMissing,
           DeleteQueued, DeleteRunning, KeepSlot, DeleteFinished, queueVars, lifeVars
  <2> QED BY <1>1, <2>1, BindingKept
<1>4. ASSUME NEW j \in JobIds, ResponseEnds(j) PROVE Binding'
      BY <1>1, <1>4, BindingKept DEF ResponseEnds, EndDownload, queueVars, lifeVars
<1>5. CASE /\ WorkerExits \/ WorkerSleeps \/ WorkerWakes \/ WorkerTakesAndFails
           /\ UNCHANGED lifeVars
  <2>1. worker \in {"ready", "waiting"} /\ phase' = phase
        BY <1>5 DEF WorkerExits, WorkerSleeps, WorkerWakes, WorkerTakesAndFails, lifeVars
  <2> QED BY <1>1, <2>1, ViewOfCalls, BindingKept
<1>6. CASE Sweep \/ SweepAborts
  <2>1. UNCHANGED <<phase, worker, running>>
        BY <1>6, SweptPart DEF SweptAny, Swept, queueVars, lifeVars
  <2> QED BY <1>1, <2>1, BindingKept
<1>7. CASE StartServer \/ StartRaises
  <2>1. phase = "down"
        BY <1>7 DEF StartServer, StartRaises, FirstSwept
  <2> QED BY <1>1, <2>1, BindingKept, ViewOfCalls
<1>8. CASE Tick \/ FileVanishes
      BY <1>1, <1>8, BindingKept DEF Tick, FileVanishes, jobVars, queueVars, lifeVars
<1> QED BY <1>2, <1>3, <1>4, <1>5, <1>6, <1>7, <1>8 DEF JobManagerStep

\* Every step keeps the agreement: the worker's await, the call, its job and both cancel
\* flags move together or not at all.
LEMMA BindingStep == AppInv /\ [AppNext]_appVars => Binding'
<1> SUFFICES ASSUME AppInv, [AppNext]_appVars PROVE Binding'
    OBVIOUS
<1> USE DEF Binding
<1>1. CASE JobManagerStep
      BY <1>1, JobManagerBinds
<1>2. CASE Initializes
  <2>1. worker = "initializing" /\ op = "none" /\ UNCHANGED <<phase, job, closing>>
        BY <1>2 DEF Initializes, vars, lifeVars, bindingVars
  <2>2. phase # "down" /\ ~closing /\ ~closed
        BY <2>1 DEF AppInv, PhaseShape
  <2>3. CASE Backend!Execute("initialize", Plain) /\ UNCHANGED vars
        BY <2>1, <2>2, <2>3 DEF Backend!Execute, vars, jobVars, queueVars
  <2>4. CASE UNCHANGED <<closed, callVars>>
        BY <2>1, <2>2, <2>4 DEF callVars
  <2> QED BY <1>2, <2>3, <2>4 DEF Initializes
<1>3. CASE Generates
  <2>1. /\ worker = "ready" /\ worker' = "generating" /\ job' = running'
        /\ UNCHANGED <<phase, closing>>
        BY <1>3 DEF Generates, WorkerTakes, lifeVars
  <2>2. phase # "down" /\ ~closing /\ ~closed /\ op = "none"
        BY <2>1, ViewOfCalls DEF AppInv, PhaseShape
  <2>3. CASE \E s \in Selections : Backend!Execute("generate", s)
        BY <2>1, <2>2, <2>3 DEF Backend!Execute
  <2>4. CASE UNCHANGED <<closed, callVars>>
        BY <2>1, <2>2, <2>4 DEF callVars
  <2> QED BY <1>3, <2>3, <2>4 DEF Generates
<1>4. CASE CallbackRuns
  <2>1. /\ UNCHANGED <<phase, worker, running, bindingVars, closed, op, result>>
        BY <1>4 DEF CallbackRuns, StageReported, vars, jobVars, queueVars, lifeVars,
           threadVars, Backend!RunCallback
  <2> QED BY <2>1 DEF AppInv, bindingVars
<1>5. CASE Returns
  <2>1. /\ UNCHANGED <<phase, job, closing, result>>
        /\ op # "none" /\ op' = "none"
        /\ closed' = (op = "close" /\ result = "ok")
        /\ op = "close" => UNCHANGED worker
        /\ op # "close" => op \in {"initialize", "generate"}
        BY <1>5 DEF Returns, Backend!Resume, lifeVars, bindingVars, threadVars, jobVars,
           queueVars
  <2>2. op # "close" => ~closing
        BY <2>1 DEF AppInv
  <2>3. op = "close" => result \in {"ok", "other"} /\ closing
        BY DEF AppInv, Manager!PipelineInv, Manager!TypeOK, Manager!ThreadTypeOK,
           Manager!OpShape
  <2>4. phase # "down"
        BY <2>1 DEF AppInv
  <2> QED BY <2>1, <2>2, <2>3, <2>4 DEF AppInv
<1>6. CASE RefusedEnds
  <2>1. worker = "generating"
        BY <1>6 DEF RefusedEnds, GenerationEnds
  <2> QED BY <1>6, <2>1 DEF RefusedEnds, AppInv, lifeVars, backendVars, bindingVars,
          callVars
<1>7. CASE ThreadGoes
  <2>1. UNCHANGED <<phase, worker, running, job, closing, op, closed>>
        BY <1>7 DEF ThreadGoes, vars, jobVars, queueVars, lifeVars, bindingVars,
           Backend!ThreadStep, Backend!loopVars, Backend!callVars
  <2>2. op # "none"
        BY <1>7, CallFacts DEF ThreadGoes, Backend!ThreadStep, Backend!Begins,
           Backend!Preparing, Backend!Refuses, Backend!Reuses, Backend!Replaces,
           Backend!Evicts, Backend!Builds, Backend!Loads, Backend!LoadFails, Backend!Keeps,
           Backend!Announces, Backend!Running, Backend!Runs, Backend!ChecksReport,
           Backend!PostsStage, Backend!RunSucceeds, Backend!RunFails, Backend!Measures,
           Backend!Blames, Backend!ClosesRuntime, Backend!Ends
  <2> QED BY <2>1, <2>2 DEF AppInv
<1>8. CASE ThreadWrites
      BY <1>8 DEF ThreadWrites, AppInv, jobVars, queueVars, lifeVars, backendVars,
         bindingVars, callVars, threadVars
<1>9. CASE LorasChange
      BY <1>9 DEF LorasChange, AppInv, vars, jobVars, queueVars, lifeVars, bindingVars,
         Backend!FileStep, Backend!loopVars, Backend!callVars, Backend!localVars
<1>10. CASE Stops
  <2>1. /\ phase = "up" /\ phase' = "stopping"
        /\ UNCHANGED <<worker, running, job, closing, closed, op, result>>
        BY <1>10 DEF Stops, StopServer, Stop, bindingVars, callVars, threadVars
  <2> QED BY <2>1 DEF AppInv
<1>11. CASE Closes
  <2>1. /\ phase = "stopping" /\ worker = "exited" /\ closing'
        /\ UNCHANGED <<phase, worker>> /\ op' = "close"
        BY <1>11 DEF Closes, WorkerOver, Backend!Execute, vars, jobVars, queueVars, lifeVars
  <2> QED BY <2>1
<1>12. CASE Ends \/ Dies
      BY <1>12 DEF Ends, Dies, BackendGone
<1>13. CASE UNCHANGED appVars
      BY <1>13 DEF appVars, AppInv, vars, jobVars, queueVars, lifeVars, backendVars,
         bindingVars, callVars, threadVars
<1> QED BY <1>1, <1>2, <1>3, <1>4, <1>5, <1>6, <1>7, <1>8, <1>9, <1>10, <1>11, <1>12,
        <1>13 DEF AppNext

-----------------------------------------------------------------------------
\* The first process starts with the invariant.
LEMMA AppInvInit == AppInit => AppInv
<1> SUFFICES ASSUME AppInit PROVE AppInv
    OBVIOUS
<1>1. Init => IInv /\ RevokedNotWaiting
      BY InvInit, RevokedInit
<1>2. Manager!PipelineInv
  <2>1. Manager!Init => Manager!PipelineInv
        BY Manager!PipelineInit, ApplicationAssumption DEF Manager!PipelineAssumption
  <2>2. Manager!Init
        BY DEF AppInit, Init, JobInit, Backend!Init, Backend!NoRuntime, Backend!Runtimes,
           Manager!Init, Manager!NoRuntime, Manager!Runtimes
  <2> QED BY <2>1, <2>2
<1>3. PhaseShape /\ Binding
      BY DEF AppInit, Init, JobInit, Backend!Init, PhaseShape, Binding
<1> QED BY <1>1, <1>2, <1>3 DEF AppInit, AppInv

\* The invariant of the composition is inductive.
LEMMA AppInvStep == AppInv /\ [AppNext]_appVars => AppInv'
<1> SUFFICES ASSUME AppInv, [AppNext]_appVars PROVE AppInv'
    OBVIOUS
<1>1. [Next]_vars
      BY ServerMaps
<1>2. IInv' /\ RevokedNotWaiting'
      BY <1>1, InvStep, RevokedStep DEF AppInv, IInv
<1>3. PhaseShape'
      BY <1>1, PhaseStep DEF AppInv
<1> QED BY <1>2, <1>3, ManagerStep, BindingStep DEF AppInv

\* Job manager, pipeline manager and the binding of their states, together.
THEOREM ApplicationInvariance == AppSpec => []AppInv
BY AppInvInit, AppInvStep, PTL DEF AppSpec

-----------------------------------------------------------------------------
\* With the pipeline manager for its backend the job manager does what Server says:
\* callbacks, late writes and returns come only when Server admits them.
THEOREM ApplicationImplementsServer == AppSpec => ImplementsServer
<1>1. AppInit => Init
      BY DEF AppInit
<1> QED BY <1>1, ApplicationInvariance, ServerMaps, PTL
        DEF AppSpec, ImplementsServer, Spec

\* The job manager calls its backend only as PipelineManager expects of its caller.
THEOREM ApplicationCalls == AppSpec => CallsAsExpected
<1>1. AppInv /\ [AppNext]_appVars =>
        [phase' = "down" \/ Backend!Next \/ UNCHANGED Backend!vars]_appVars
  <2>1. Ends \/ Dies => phase' = "down"
        BY DEF Ends, Dies, ProcessEnds, Crash
  <2> QED BY <2>1, CallsMap DEF CallsStep
<1> QED BY <1>1, ApplicationInvariance, PTL DEF AppSpec, CallsAsExpected

\* The thread keeps slot, partial and leased inputs of its job until it has let go of it,
\* and the backend is at rest whenever the worker or stop() turns to it, with neither
\* thread nor callback left when the directories are given back.
THEOREM ManagersInStep == AppSpec => []InStep
<1>1. AppInv => WorkHasItsFiles
  <2> SUFFICES ASSUME AppInv, op = "generate" PROVE WorkHasItsFiles
      BY DEF WorkHasItsFiles
  <2>1. running = job /\ job \in JobIds /\ status[job] \in Live \cap ActiveStages
          /\ tmp[job] # Never
        BY JobFacts, LiveFacts
  <2>2. spec[job] \subseteq AssetIds
        BY <2>1 DEF AppInv, IInv, TypeOK, JobTypeOK
  <2> QED BY <2>1, <2>2 DEF AppInv, IInv, LeasesExact, InputsStay, WorkHasItsFiles
<1>2. AppInv => BackendSettled
  <2> SUFFICES ASSUME AppInv PROVE BackendSettled
      OBVIOUS
  <2>1. worker = "ready" \/ (worker = "exited" /\ ~closing) => op = "none" /\ ~closed
        BY DEF AppInv, Binding, Manager!PipelineInv, Manager!TypeOK, Manager!LoopTypeOK
  <2>2. ASSUME NEW i \in DOMAIN pending PROVE pending[i] \notin cancel
    <3>1. pending[i] \in JobIds
          BY DEF AppInv, IInv, TypeOK, JobTypeOK
    <3>2. status[pending[i]] = "queued"
          BY <3>1 DEF AppInv, IInv, QueueExact
    <3> QED BY <3>2, LiveFacts DEF AppInv, RevokedNotWaiting
  <2>3. ASSUME closing, op = "none"
        PROVE  thread = "idle" /\ callbacks = <<>> /\ (live # {} => result = "other")
    <3>1. thread = "idle" /\ callbacks = <<>>
          BY <2>3 DEF AppInv, Manager!PipelineInv, Manager!CallShape
    <3>2. closed => live = {}
          BY <3>1 DEF AppInv, Manager!PipelineInv, Manager!RuntimeShape, Manager!StatusShape
    <3> QED BY <2>3, <3>1, <3>2 DEF AppInv, Binding
  <2> QED BY <2>1, <2>2, <2>3 DEF BackendSettled
<1>3. AppInv => InStep
      BY <1>1, <1>2 DEF InStep
<1> QED BY <1>3, ApplicationInvariance, PTL

-----------------------------------------------------------------------------
\* What was proved of the server alone holds of the application: its clients see the
\* FIFO service of JobService.
THEOREM ApplicationServes == AppSpec => ImplementsService
BY ApplicationImplementsServer, Refinement DEF ImplementsServer

\* What was proved of the pipeline manager alone holds under the job manager, across
\* crashes and restarts: one runtime at a time and the right files for each job, calls
\* that return after their work, a status that is true.
THEOREM ApplicationBackend ==
  AppSpec => [](/\ Backend!RuntimeAccounted /\ Backend!LorasFresh
                /\ Backend!ReturnsAfterWork /\ Backend!StatusHonest)
<1>1. AppInv => /\ Manager!RuntimeAccounted /\ Manager!LorasFresh
                /\ Manager!ReturnsAfterWork /\ Manager!StatusHonest
      BY Manager!SafeRuntimes, Manager!SafeLoras, Manager!SafeCalls, Manager!SafeStatus,
         ApplicationAssumption DEF Manager!PipelineAssumption, AppInv
<1>2. /\ Manager!RuntimeAccounted /\ Manager!LorasFresh
      /\ Manager!ReturnsAfterWork /\ Manager!StatusHonest
      => /\ Backend!RuntimeAccounted /\ Backend!LorasFresh
         /\ Backend!ReturnsAfterWork /\ Backend!StatusHonest
      BY DEF Manager!RuntimeAccounted, Manager!OneRuntime, Manager!RuntimeAtRest,
         Manager!LorasFresh, Manager!ReturnsAfterWork, Manager!StatusHonest,
         Manager!NoRuntime, Backend!RuntimeAccounted, Backend!OneRuntime,
         Backend!RuntimeAtRest, Backend!LorasFresh, Backend!ReturnsAfterWork,
         Backend!StatusHonest, Backend!NoRuntime
<1> QED BY <1>1, <1>2, ApplicationInvariance, PTL
=============================================================================
