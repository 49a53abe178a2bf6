--------------------------- MODULE Executor_proofs ---------------------------
(***************************************************************************)
(* Pipeline manager and runtime together: each does with the other in the  *)
(* place of its environment what it is proved to do alone, for every value *)
(* of the constants of both.                                               *)
(*                                                                         *)
(* The two inductive invariants are taken as they are. What is new is how  *)
(* the position of the thread in the manager's code goes with the state of *)
(* the runtime, and the stages that were posted with those it has reached. *)
(***************************************************************************)
EXTENDS Executor, Pipeline_proofs

\* The theorems about the runtime, under its manager.
Runner == INSTANCE Runtime_proofs WITH MaxRequests <- MaxCalls

\* Where the thread is in the manager's code, and how the runtime is by then.
PhaseShape ==
  /\ thread \in {"builds", "unloadable", "aborted", "broken"} => phase = "absent"
  /\ thread \in {"evicts", "loaded", "announces", "checks"} => phase = "idle"
  /\ thread = "loads" => phase \in {"loading", "failed"}
  /\ thread \in {"runs", "posts"} => phase \in {"busy", "failed"}
  /\ thread \in {"idle", "begins", "prepares", "measures", "closes", "ends"} =>
       phase = IF cached = NoRuntime THEN "absent" ELSE "idle"

\* The runtime that works, and the one that is cached, was loaded for the pipeline of
\* its key.
WorkflowShape ==
  /\ cached # NoRuntime => workflow = Workflow[cachedKey[1]]
  /\ thread \in {"loads", "loaded", "announces", "checks", "runs", "posts"} =>
       workflow = Workflow[sel]

\* Wherever report() was passed, unless something was raised, a stage has been reached.
Encoded ==
  \/ at \in {"listens", "hears", "touches", "encoder", "encodes", "prompted", "transformer",
             "stage", "step", "staged", "room", "decodes", "video", "decoded", "chunks",
             "chunk", "flushes", "copies", "validates"}
  \/ at \in {"unwinds", "clears", "unlinks", "parks"} /\ ~failed

\* No more stages were posted than were reached, and one at least if any was; the requests
\* of the runtimes are calls of the manager. Manager and runtime are in report() together,
\* until it has posted or something is raised there.
StagesShape ==
  /\ request <= calls
  /\ thread \in {"begins", "prepares", "evicts", "builds", "loads", "loaded", "announces",
                 "checks"} => request < calls /\ reports = 0
  /\ thread \in {"runs", "posts"} =>
       /\ reports <= stage
       /\ stage > 0 => reports > 0
       /\ Encoded => stage > 0
  /\ due # 0 => thread = "posts"
  /\ thread = "posts" => due # 0 \/ failed

ExecInv ==
  PipelineInv /\ Runner!RuntimeInv /\ PhaseShape /\ WorkflowShape /\ StagesShape

-----------------------------------------------------------------------------
\* The types that the steps below rest on.
LEMMA ExecTypes ==
  ASSUME ExecInv
  PROVE  /\ calls \in 0..MaxCalls /\ request \in 0..MaxCalls /\ MaxCalls \in Nat
         /\ reports \in 0..MaxReports /\ MaxReports \in Nat /\ MaxReports >= 4
         /\ stage \in 0..4 /\ sel \in Selections /\ failed \in BOOLEAN
         /\ phase = "busy" <=>
              \/ at \in Runtime!Generating
              \/ at \in {"unwinds", "clears", "unlinks", "parks"}
         /\ at \in Runtime!Generating => context # Runtime!None
BY PipelineAssumption, ExecutorAssumption
   DEF ExecInv, PipelineInv, TypeOK, LoopTypeOK, ThreadTypeOK, Runner!RuntimeInv,
   Runner!TypeOK, Runner!ControlTypeOK, Runner!RequestTypeOK, Runner!PositionShape,
   Runner!RequestShape, Runner!Generating, Runner!Unwinding, Runner!Requests,
   Runner!Preparing, Runtime!Generating, Runtime!Preparing, Runtime!None

\* While the loop has a call to make, or to end, the thread is idle and the runtime at rest.
LEMMA RestFacts ==
  ASSUME ExecInv, op = "none" \/ resolved
  PROVE  thread = "idle" /\ phase # "busy"
BY DEF ExecInv, PipelineInv, CallShape, PhaseShape

\* Within report() the runtime is where it is called, at a stage before the one that is due.
LEMMA DueFacts ==
  ASSUME ExecInv
  PROVE  /\ due \in 0..4
         /\ due # 0 =>
              /\ stage < due /\ phase = "busy"
              /\ at \in {"inputs", "prompt", "prompted", "staged", "decodes", "flushes",
                         "copies"}
              /\ at = "inputs" => kind # "plain"
         /\ at \in Runtime!Generating => ~failed
<1>1. Runtime!Generating = Runner!Generating
      BY DEF Runtime!Generating, Runner!Generating, Runtime!Preparing, Runner!Preparing
<1> QED BY <1>1
        DEF ExecInv, Runner!RuntimeInv, Runner!TypeOK, Runner!ControlTypeOK,
        Runner!PositionShape, Runner!StageShape, Runner!Generating, Runner!Preparing

\* The part of generate() that may report: its look at the events and what it posts are
\* two steps, and between them nothing else is done.
LEMMA ProducingFacts ==
  ASSUME ExecInv, Runtime!GenerateStep
  PROVE  /\ at \in Runtime!Generating
         /\ phase' = phase /\ UNCHANGED <<workflow, request, failed>>
         /\ Encoded' => Encoded \/ stage' > 0
         /\ \/ Runtime!Checked /\ due = 0 /\ due' # 0 /\ stage' = stage
            \/ due # 0 /\ due' = 0 /\ stage' = due
            \/ due = 0 /\ due' = 0 /\ stage' = stage
<1> USE DEF Runtime!GenerateStep, Runtime!Generating, Runtime!Preparing, Runtime!loadVars,
        Runtime!requestVars, Runtime!stageVars
<1>1. phase' = phase /\ UNCHANGED <<workflow, request, failed>>
      OBVIOUS
<1>2. CASE Runtime!Begins \/ Runtime!SkipsInputs \/ Runtime!Listens \/ Runtime!Hears
           \/ Runtime!Normalizes
      BY <1>1, <1>2, DueFacts DEF Runtime!Begins, Runtime!SkipsInputs, Runtime!Listens,
         Runtime!Hears, Runtime!Normalizes, Encoded
<1>3. CASE Runtime!EncodesPrompt \/ Runtime!EncodedPrompt \/ Runtime!EntersStage
           \/ Runtime!Denoises \/ Runtime!LeavesStage
      BY <1>1, <1>3, DueFacts DEF Runtime!EncodesPrompt, Runtime!EncodedPrompt,
         Runtime!EntersStage, Runtime!Denoises, Runtime!LeavesStage, Encoded
<1>4. CASE Runtime!BeforeDecode \/ Runtime!TakesVideo \/ Runtime!DecodesChunk
           \/ Runtime!KeepsVideo
      BY <1>1, <1>4, DueFacts DEF Runtime!BeforeDecode, Runtime!TakesVideo,
         Runtime!DecodesChunk, Runtime!KeepsVideo, Encoded
<1>5. CASE Runtime!Reports
  <2>1. at \in Runtime!Generating
        BY <1>5 DEF Runtime!Reports
  <2>2. ASSUME NEW s \in 1..4, NEW next, Runtime!Report(s, next)
        PROVE  /\ stage' > 0 \/ at' = at
               /\ \/ Runtime!Checked /\ due = 0 /\ due' # 0 /\ stage' = stage
                  \/ due # 0 /\ due' = 0 /\ stage' = due
                  \/ due = 0 /\ due' = 0 /\ stage' = stage
        BY <2>2 DEF Runtime!Report, Runtime!Looks, Runtime!Posts
  <2>3. /\ stage' > 0 \/ at' = at
        /\ \/ Runtime!Checked /\ due = 0 /\ due' # 0 /\ stage' = stage
           \/ due # 0 /\ due' = 0 /\ stage' = due
           \/ due = 0 /\ due' = 0 /\ stage' = stage
        BY <1>5, <2>2 DEF Runtime!Reports
  <2>4. Encoded' => Encoded \/ stage' > 0
        BY <1>1, <2>3 DEF Encoded
  <2> QED BY <1>1, <2>1, <2>3, <2>4
<1> QED BY <1>2, <1>3, <1>4, <1>5 DEF Runtime!Producing

\* The end of generate() and its finally. A report that was under way ends by an exception.
LEMMA EndingFacts ==
  ASSUME ExecInv, Runtime!EndStep \/ Runtime!UnwindStep
  PROVE  /\ stage' = stage /\ due' = 0 /\ UNCHANGED <<workflow, request>>
         /\ phase' \in {phase, "idle", "failed"}
         /\ phase' = "idle" /\ phase # "idle" => Encoded /\ ~failed /\ due = 0
         /\ Encoded' => Encoded
         /\ due # 0 \/ failed => failed'
         /\ at \in Runtime!Generating \/ at \in {"unwinds", "clears", "unlinks", "parks"}
<1> USE ExecTypes DEF Runtime!loadVars, Runtime!requestVars, Runtime!stageVars, Encoded
<1>1. CASE Runtime!EndStep
  <2>1. /\ phase' = phase /\ due' = 0 /\ at' = "unwinds" /\ stage' = stage
        /\ UNCHANGED <<workflow, request>>
        BY <1>1 DEF Runtime!EndStep
  <2>2. CASE Runtime!Validates
        BY <2>1, <2>2, DueFacts DEF Runtime!Validates, Runtime!Generating
  <2>3. CASE Runtime!Raises
        BY <2>1, <2>3, DueFacts DEF Runtime!Raises
  <2> QED BY <1>1, <2>2, <2>3 DEF Runtime!EndStep
<1>2. CASE Runtime!UnwindStep
  <2>1. CASE Runtime!ClosesIterator
    <3>1. at = "unwinds" /\ at' = "clears" /\ phase' = phase /\ (failed => failed')
          BY <2>1 DEF Runtime!ClosesIterator
    <3> QED BY <1>2, <3>1, DueFacts DEF Runtime!UnwindStep
  <2>2. CASE Runtime!Clears \/ Runtime!Unlinks
        BY <1>2, <2>2, DueFacts DEF Runtime!UnwindStep, Runtime!Clears, Runtime!Unlinks
  <2>3. CASE Runtime!Returns \/ Runtime!Fails
        BY <1>2, <2>3, DueFacts DEF Runtime!UnwindStep, Runtime!Returns, Runtime!Fails
  <2> QED BY <1>2, <2>1, <2>2, <2>3 DEF Runtime!UnwindStep
<1> QED BY <1>1, <1>2

\* load(), from step to step.
LEMMA LoadingFacts ==
  ASSUME Runtime!LoadStep
  PROVE  /\ UNCHANGED <<workflow, request, stop, cancel, stage, due>>
         /\ phase' \in {phase, "idle", "failed"}
BY DEF Runtime!LoadStep, Runtime!loadVars, Runtime!requestVars, Runtime!stageVars,
   Runtime!WarmsEncoder,
   Runtime!ParksEncoder, Runtime!WarmsTransformer, Runtime!ParksTransformer,
   Runtime!LoadsLazily, Runtime!LoadFails, Runtime!Loaded

OwnerStep == [Runtime!Next]_(Runtime!vars)

\* What the runtime does not see: a step that leaves its own state alone, and of the two
\* events what it expects of its owner.
LEMMA EventsMap ==
  ASSUME UNCHANGED runtimeVars,
         stop' \in {stop, TRUE},
         cancel' \in IF phase = "busy" THEN {cancel, TRUE} ELSE BOOLEAN
  PROVE  OwnerStep
BY DEF OwnerStep, runtimeVars, Runtime!Next, Runtime!EventStep, Runtime!CancelJob,
   Runtime!BeginShutdown, Runtime!loadVars, Runtime!deviceVars, Runtime!conditioningVars,
   Runtime!requestVars, Runtime!localVars, Runtime!fileVars, Runtime!stageVars

\* The loop sets events, and takes one back only where no request is served.
LEMMA LoopEvents ==
  ASSUME ExecInv, CallStep \/ LoopStep \/ FileStep
  PROVE  /\ stop' \in {stop, TRUE}
         /\ cancel' \in IF phase = "busy" THEN {cancel, TRUE} ELSE BOOLEAN
<1> USE DEF ExecInv, PipelineInv, TypeOK, LoopTypeOK
<1>1. ASSUME NEW o, NEW s, Execute(o, s) PROVE phase # "busy" /\ cancel' = FALSE
      BY <1>1, RestFacts DEF Execute
<1>2. CASE CallStep
  <2>1. CASE Initialize
        BY <1>1, <2>1 DEF Initialize, callVars
  <2>2. CASE \E s \in Selections : Generate(s)
        BY <1>1, <2>2 DEF Generate
  <2>3. CASE Close
        BY <1>1, <2>3 DEF Close, StopSignalled
  <2>4. CASE Signals
    <3>1. stop' \in {stop, TRUE} /\ cancel' \in {cancel, TRUE}
          BY <2>4 DEF Signals, CancelJob, BeginShutdown, StopSignalled, Interrupt, Signal
    <3> QED BY <3>1
  <2> QED BY <1>2, <2>1, <2>2, <2>3, <2>4 DEF CallStep
<1>3. CASE LoopStep
  <2>1. CASE RunCallback
        BY <1>3, <2>1 DEF LoopStep, RunCallback
  <2>2. CASE Resume
        BY <1>3, <2>2, RestFacts DEF LoopStep, Resume, MayResume
  <2> QED BY <1>3, <2>1, <2>2 DEF LoopStep
<1>4. CASE FileStep
      BY <1>4 DEF FileStep, loopVars, callVars
<1> QED BY <1>2, <1>3, <1>4

\* To the runtime every step of the composition is one of its own or none.
LEMMA OwnerMaps == ExecInv /\ [ExecNext]_execVars => OwnerStep
<1> SUFFICES ASSUME ExecInv, [ExecNext]_execVars PROVE OwnerStep
    OBVIOUS
<1>1. ExecInv => stop \in BOOLEAN /\ cancel \in BOOLEAN
      BY DEF ExecInv, PipelineInv, TypeOK, LoopTypeOK
<1>2. CASE ThreadGoes
  <2>1. UNCHANGED <<stop, cancel>>
        BY <1>2 DEF ThreadGoes, loopVars, callVars
  <2>2. CASE UNCHANGED runtimeVars
        BY <1>1, <2>1, <2>2, EventsMap
  <2>3. CASE Constructed \/ LoadGoes \/ Generated \/ GenerateGoes \/ Discarded
        BY <2>3 DEF Constructed, LoadGoes, Generated, GenerateGoes, Discarded, OwnerStep,
           Runtime!Next, Runtime!ThreadStep
  <2>4. CASE ClosedAtEnd
        BY <2>2, <2>4 DEF ClosedAtEnd, OwnerStep, Runtime!Next
  <2> QED BY <1>2, <2>2, <2>3, <2>4 DEF ThreadGoes, ManagerGoes
<1>3. CASE LoopGoes
      BY <1>3, LoopEvents, EventsMap DEF LoopGoes
<1>4. CASE UNCHANGED execVars
      BY <1>1, <1>4, EventsMap DEF execVars, vars, loopVars, callVars
<1> QED BY <1>2, <1>3, <1>4 DEF ExecNext

\* The steps of the instance in Executor and of the one proved about are the same.
LEMMA SameOwner == OwnerStep => [Runner!Next]_(Runner!vars)
BY DEF OwnerStep,
   Runtime!Next, Runtime!vars, Runtime!Constructs, Runtime!Generate, Runtime!Close,
   Runtime!ThreadStep, Runtime!EventStep, Runtime!loadVars, Runtime!requestVars,
   Runtime!deviceVars, Runtime!localVars, Runtime!fileVars, Runtime!stageVars,
   Runtime!Workflows, Runtime!Kinds, Runtime!None, Runtime!StageReset,
   Runtime!conditioningVars, Runtime!LoadStep, Runtime!GenerateStep, Runtime!EndStep,
   Runtime!UnwindStep, Runtime!CancelJob, Runtime!BeginShutdown, Runtime!WarmsEncoder,
   Runtime!ParksEncoder, Runtime!WarmsTransformer, Runtime!ParksTransformer,
   Runtime!LoadsLazily, Runtime!LoadFails, Runtime!Producing, Runtime!Validates,
   Runtime!Raises, Runtime!ClosesIterator, Runtime!Clears, Runtime!Unlinks,
   Runtime!Returns, Runtime!Fails, Runtime!Checked, Runtime!LoadModel, Runtime!Park,
   Runtime!Loaded, Runtime!Loading, Runtime!LoadRaises, Runtime!Begins, Runtime!Reports,
   Runtime!SkipsInputs, Runtime!Listens, Runtime!Hears, Runtime!Normalizes,
   Runtime!EncodesPrompt, Runtime!EncodedPrompt, Runtime!EntersStage, Runtime!Denoises,
   Runtime!LeavesStage, Runtime!BeforeDecode, Runtime!TakesVideo, Runtime!DecodesChunk,
   Runtime!KeepsVideo, Runtime!Generating, Runtime!Preparing, Runtime!Retained,
   Runtime!Dispose, Runtime!ClearConditioning, Runtime!Report, Runtime!Looks,
   Runtime!Posts, Runtime!AfterInputs, Runtime!Own, Runtime!Enter, Runtime!StepAllowed,
   Runtime!MakeRoom, Runtime!Models, Runner!Next, Runner!vars, Runner!Constructs,
   Runner!Generate, Runner!Close, Runner!ThreadStep, Runner!EventStep, Runner!loadVars,
   Runner!requestVars, Runner!deviceVars, Runner!localVars, Runner!fileVars,
   Runner!stageVars, Runner!Workflows, Runner!Kinds, Runner!None, Runner!StageReset,
   Runner!conditioningVars, Runner!LoadStep, Runner!GenerateStep, Runner!EndStep,
   Runner!UnwindStep, Runner!CancelJob, Runner!BeginShutdown, Runner!WarmsEncoder,
   Runner!ParksEncoder, Runner!WarmsTransformer, Runner!ParksTransformer,
   Runner!LoadsLazily, Runner!LoadFails, Runner!Producing, Runner!Validates, Runner!Raises,
   Runner!ClosesIterator, Runner!Clears, Runner!Unlinks, Runner!Returns, Runner!Fails,
   Runner!Checked, Runner!LoadModel, Runner!Park, Runner!Loaded, Runner!Loading,
   Runner!LoadRaises, Runner!Begins, Runner!Reports, Runner!SkipsInputs, Runner!Listens,
   Runner!Hears, Runner!Normalizes, Runner!EncodesPrompt, Runner!EncodedPrompt,
   Runner!EntersStage, Runner!Denoises, Runner!LeavesStage, Runner!BeforeDecode,
   Runner!TakesVideo, Runner!DecodesChunk, Runner!KeepsVideo, Runner!Generating,
   Runner!Preparing, Runner!Retained, Runner!Dispose, Runner!ClearConditioning,
   Runner!Report, Runner!Looks, Runner!Posts, Runner!AfterInputs, Runner!Own, Runner!Enter,
   Runner!StepAllowed, Runner!MakeRoom, Runner!Models

\* The runtime's own invariant survives every step of the composition.
LEMMA RunnerStep ==
  ExecInv /\ [ExecNext]_execVars =>
    Runner!RuntimeInv' /\ (phase = "busy" => stage' >= stage)
<1>1. Runner!RuntimeAssumption
      BY PipelineAssumption DEF Runner!RuntimeAssumption
<1>2. Runner!RuntimeInv /\ [Runner!Next]_(Runner!vars) => Runner!RuntimeInv'
      BY <1>1, Runner!InvStep
<1>3. Runner!RuntimeInv /\ [Runner!Next]_(Runner!vars) => Runner!StageMove
      BY <1>1, Runner!StageMoves
<1> QED BY <1>2, <1>3, OwnerMaps, SameOwner DEF ExecInv, Runner!StageMove

-----------------------------------------------------------------------------
\* Where generate() goes on, the manager looks at the events for a report, posts it, has its
\* result, or sees nothing.
LEMMA GenerateMaps ==
  ASSUME ExecInv, GenerateGoes, UNCHANGED <<loopVars, fileVars>>
  PROVE  [Next]_vars
<1> USE ExecTypes, DueFacts
<1>1. StagesShape
      BY DEF ExecInv
<1>2. Runtime!EndStep \/ Runtime!UnwindStep => due' = 0 /\ stage' = stage
      BY EndingFacts
<1>3. CASE due' # 0
  <2>1. Runtime!GenerateStep
        BY <1>2, <1>3 DEF GenerateGoes
  <2>2. Runtime!Checked /\ due = 0 /\ stage' = stage /\ phase = "busy" /\ ~failed
        BY <1>3, <2>1, ProducingFacts
  <2>3. ~stop /\ ~cancel
        BY <2>1, <2>2, ProducingFacts DEF Runtime!Checked
  <2>4. stage < due' /\ due' \in 0..4
        BY <1>3, <2>2, RunnerStep DEF Runner!RuntimeInv, Runner!TypeOK, Runner!ControlTypeOK,
           Runner!StageShape, ExecNext, ThreadGoes
  <2>5. thread = "runs" /\ reports < MaxReports
        BY <1>1, <2>2, <2>4 DEF StagesShape, GenerateGoes
  <2>6. ChecksReport
        BY <1>3, <2>2, <2>3, <2>5 DEF GenerateGoes, Noticed, ChecksReport, localVars
  <2> QED BY <2>6 DEF Next, ThreadStep, Running
<1>4. CASE due' = 0 /\ stage' # stage
  <2>1. due # 0
        BY <1>2, <1>4, ProducingFacts DEF GenerateGoes
  <2>2. PostsStage
        BY <1>1, <1>4, <2>1 DEF StagesShape, GenerateGoes, Noticed, PostsStage
  <2> QED BY <2>2 DEF Next, ThreadStep, Running
<1>5. CASE due' = 0 /\ stage' = stage /\ phase' = "idle"
  <2>1. phase # "idle" /\ phase' # phase
        BY <1>5 DEF ExecInv, PhaseShape, GenerateGoes
  <2>2. Runtime!EndStep \/ Runtime!UnwindStep
        BY <2>1, ProducingFacts DEF GenerateGoes
  <2>3. Encoded /\ ~failed /\ due = 0
        BY <1>5, <2>1, <2>2, EndingFacts
  <2>4. thread = "runs" /\ reports > 0
        BY <1>1, <2>3 DEF StagesShape, GenerateGoes
  <2>5. RunSucceeds
        BY <1>5, <2>4 DEF GenerateGoes, Noticed, RunSucceeds, localVars
  <2> QED BY <2>5 DEF Next, ThreadStep, Running
<1>6. CASE due' = 0 /\ stage' = stage /\ phase' # "idle"
      BY <1>6 DEF GenerateGoes, Noticed, vars, localVars
<1> QED BY <1>3, <1>4, <1>5, <1>6

\* To the manager every step of the composition is one of its own or none.
LEMMA ManagerMaps == ExecInv /\ [ExecNext]_execVars => [Next]_vars
<1> SUFFICES ASSUME ExecInv, [ExecNext]_execVars PROVE [Next]_vars
    OBVIOUS
<1>1. CASE ThreadGoes
  <2>1. CASE ManagerGoes
        BY <1>1, <2>1 DEF ThreadGoes, ManagerGoes, Next, ThreadStep, Preparing, Running
  <2>2. CASE Constructed \/ Generated
        BY <1>1, <2>2 DEF ThreadGoes, Constructed, Generated, Next, ThreadStep, Preparing,
           Running
  <2>3. CASE LoadGoes
    <3>1. CASE phase' = "idle"
          BY <1>1, <2>3, <3>1 DEF ThreadGoes, LoadGoes, Next, ThreadStep, Preparing
    <3>2. CASE phase' # "idle"
          BY <1>1, <2>3, <3>2 DEF ThreadGoes, LoadGoes, managerVars, vars
    <3> QED BY <3>1, <3>2
  <2>4. CASE GenerateGoes
        BY <1>1, <2>4, GenerateMaps DEF ThreadGoes
  <2>5. CASE Discarded
        BY <1>1, <2>5 DEF ThreadGoes, Discarded, Next, ThreadStep, Preparing, Running
  <2>6. CASE ClosedAtEnd
        BY <1>1, <2>6 DEF ThreadGoes, ClosedAtEnd, Next, ThreadStep
  <2> QED BY <1>1, <2>1, <2>2, <2>3, <2>4, <2>5, <2>6 DEF ThreadGoes
<1>2. CASE LoopGoes
      BY <1>2 DEF LoopGoes, Next
<1>3. CASE UNCHANGED execVars
      BY <1>3 DEF execVars
<1> QED BY <1>1, <1>2, <1>3 DEF ExecNext
-----------------------------------------------------------------------------
\* What a call that is made does to the thread, and that nothing else on the loop does.
LEMMA LoopFacts ==
  ASSUME ExecInv, LoopGoes
  PROVE  /\ UNCHANGED <<phase, workflow, at, failed, request, stage, due, cached,
                      cachedKey>>
         /\ \/ thread' = thread /\ calls' = calls /\ sel' = sel /\ reports' = reports
            \/ thread' = "begins" /\ thread = "idle" /\ calls' = calls + 1 /\ reports' = 0
<1>1. UNCHANGED <<phase, workflow, at, failed, request, stage, due, cached,
                      cachedKey>>
      BY DEF LoopGoes, runtimeVars, CallStep, LoopStep, FileStep, cacheVars
<1>2. ASSUME NEW o, NEW s, Execute(o, s)
      PROVE  thread' = "begins" /\ thread = "idle" /\ calls' = calls + 1 /\ reports' = 0
      BY <1>2, RestFacts DEF Execute
<1>3. CASE CallStep
  <2>1. CASE Initialize \/ (\E s \in Selections : Generate(s)) \/ Close
        BY <1>1, <1>2, <2>1 DEF Initialize, Generate, Close, callVars, localVars
  <2>2. CASE Signals
        BY <1>1, <2>2 DEF Signals, localVars
  <2> QED BY <1>3, <2>1, <2>2 DEF CallStep
<1>4. CASE LoopStep
      BY <1>1, <1>4 DEF LoopStep, localVars
<1>5. CASE FileStep
      BY <1>1, <1>5 DEF FileStep, loopVars, callVars, localVars
<1> QED BY <1>3, <1>4, <1>5 DEF LoopGoes

\* The runtime is where the manager's code takes it to be.
LEMMA PhaseStep == ExecInv /\ [ExecNext]_execVars => PhaseShape'
<1> SUFFICES ASSUME ExecInv, [ExecNext]_execVars PROVE PhaseShape'
    OBVIOUS
<1> USE DEF ExecInv, PhaseShape, PipelineInv, RuntimeShape, cacheVars, NoRuntime
<1>1. CASE ManagerGoes
  <2>1. phase' = phase
        BY <1>1 DEF ManagerGoes, runtimeVars
  <2>2. CASE Begins \/ Refuses \/ Measures \/ Ends
        BY <1>1, <2>1, <2>2 DEF Begins, Refuses, Measures, Ends, Finish
  <2>3. CASE Reuses \/ Announces
        BY <2>1, <2>3 DEF Reuses, Announces, Prepared
  <2>4. CASE Replaces
        BY <2>1, <2>4 DEF Replaces, Forgetting
  <2>5. CASE Keeps \/ Blames
        BY <2>1, <2>5 DEF Keeps, Blames, KeepRuntime
  <2> QED BY <1>1, <2>2, <2>3, <2>4, <2>5 DEF ManagerGoes
<1>2. CASE Constructed
      BY <1>2 DEF Constructed, Builds, Runtime!Constructs
<1>3. CASE LoadGoes
      BY <1>3, LoadingFacts DEF LoadGoes, Loads, managerVars
<1>4. CASE Generated
      BY <1>4 DEF Generated, Runs, Runtime!Generate
<1>5. CASE GenerateGoes
  <2>1. phase' \in {"busy", "idle", "failed"}
        BY <1>5, ExecTypes, ProducingFacts, EndingFacts DEF GenerateGoes
  <2>2. due' # 0 \/ stage' # stage => phase' = phase
        BY <1>5, ProducingFacts, EndingFacts DEF GenerateGoes
  <2> QED BY <1>5, <2>1, <2>2 DEF GenerateGoes, Noticed
<1>6. CASE Discarded
      BY <1>6 DEF Discarded, Evicts, LoadFails, RunFails, Runtime!Close
<1>7. CASE ClosedAtEnd
  <2>1. thread = "closes" /\ thread' = "ends"
        BY <1>7 DEF ClosedAtEnd, ClosesRuntime, Finish
  <2>2. phase' = IF cached' = NoRuntime THEN "absent" ELSE "idle"
        BY <1>7, <2>1 DEF ClosedAtEnd, ClosesRuntime, Finish, Runtime!Close, runtimeVars
  <2> QED BY <2>1, <2>2
<1>8. CASE LoopGoes
      BY <1>8, LoopFacts
<1>9. CASE UNCHANGED execVars
      BY <1>9 DEF execVars, vars, runtimeVars
<1> QED BY <1>1, <1>2, <1>3, <1>4, <1>5, <1>6, <1>7, <1>8, <1>9 DEF ExecNext, ThreadGoes

\* Whatever is cached or loaded is of the pipeline it is taken for.
LEMMA WorkflowStep == ExecInv /\ [ExecNext]_execVars => WorkflowShape'
<1> SUFFICES ASSUME ExecInv, [ExecNext]_execVars PROVE WorkflowShape'
    OBVIOUS
<1> USE DEF ExecInv, WorkflowShape, PipelineInv, RuntimeShape, cacheVars, NoRuntime
<1>1. ThreadGoes => sel' = sel
      BY DEF ThreadGoes, loopVars, callVars
<1>2. CASE ThreadGoes /\ ManagerGoes
  <2>1. workflow' = workflow
        BY <1>2 DEF ManagerGoes, runtimeVars
  <2>2. CASE Begins \/ Refuses \/ Measures \/ Ends \/ Blames \/ Announces
        BY <1>1, <1>2, <2>1, <2>2 DEF Begins, Refuses, Measures, Ends, Blames, Announces,
           Finish, Prepared
  <2>3. CASE Reuses
        BY <1>1, <1>2, <2>1, <2>3 DEF Reuses, Prepared, KeyOf
  <2>4. CASE Replaces
        BY <1>1, <1>2, <2>1, <2>4 DEF Replaces, Forgetting
  <2>5. CASE Keeps
        BY <1>1, <1>2, <2>1, <2>5 DEF Keeps, KeepRuntime, KeyShape
  <2> QED BY <1>2, <2>2, <2>3, <2>4, <2>5 DEF ManagerGoes
<1>3. CASE ThreadGoes /\ Constructed
      BY <1>1, <1>3 DEF Constructed, Builds
<1>4. CASE ThreadGoes /\ (LoadGoes \/ Generated \/ GenerateGoes)
  <2>1. workflow' = workflow
        BY <1>4, LoadingFacts, ProducingFacts, EndingFacts, ExecTypes
           DEF LoadGoes, Generated, GenerateGoes, Runtime!Generate, Runtime!loadVars
  <2>2. CASE LoadGoes
        BY <1>1, <1>4, <2>1, <2>2 DEF LoadGoes, Loads, managerVars
  <2>3. CASE Generated
        BY <1>1, <1>4, <2>1, <2>3 DEF Generated, Runs
  <2>4. CASE GenerateGoes
        BY <1>1, <1>4, <2>1, <2>4 DEF GenerateGoes, Noticed
  <2> QED BY <1>4, <2>2, <2>3, <2>4
<1>5. CASE ThreadGoes /\ (Discarded \/ ClosedAtEnd)
  <2>1. workflow' = workflow
        BY <1>5 DEF Discarded, ClosedAtEnd, Runtime!Close, Runtime!loadVars, runtimeVars
  <2>2. CASE Discarded
        BY <1>1, <1>5, <2>1, <2>2 DEF Discarded, Evicts, LoadFails, RunFails, Invalidated
  <2>3. CASE ClosedAtEnd
        BY <1>1, <1>5, <2>1, <2>3 DEF ClosedAtEnd, ClosesRuntime, Finish
  <2> QED BY <1>5, <2>2, <2>3
<1>6. CASE LoopGoes
      BY <1>6, LoopFacts
<1>7. CASE UNCHANGED execVars
      BY <1>7 DEF execVars, vars, loopVars, callVars, runtimeVars
<1> QED BY <1>2, <1>3, <1>4, <1>5, <1>6, <1>7 DEF ExecNext, ThreadGoes

\* Stages are posted as they are reached.
LEMMA StagesStep == ExecInv /\ [ExecNext]_execVars => StagesShape'
<1> SUFFICES ASSUME ExecInv, [ExecNext]_execVars PROVE StagesShape'
    OBVIOUS
<1> USE ExecTypes, DueFacts DEF StagesShape
<1>1. StagesShape
      BY DEF ExecInv
<1>2. ThreadGoes => calls' = calls
      BY DEF ThreadGoes, loopVars, callVars
<1>3. CASE ThreadGoes /\ ManagerGoes
  <2>1. UNCHANGED <<at, failed, request, stage, due>> /\ thread \notin {"runs", "posts"}
        BY <1>3 DEF ManagerGoes, runtimeVars, Begins, Refuses, Reuses, Replaces, Keeps,
           Announces, Blames, Measures, Ends
  <2>2. /\ thread' \notin {"runs", "posts"}
        /\ thread' \in {"begins", "prepares", "evicts", "builds", "loads", "loaded",
                        "announces", "checks"} =>
             /\ thread \in {"begins", "prepares", "evicts", "builds", "loads", "loaded",
                            "announces", "checks"}
             /\ reports' = reports
    <3>1. CASE Begins \/ Refuses \/ Measures \/ Ends \/ Blames
          BY <3>1 DEF Begins, Refuses, Measures, Ends, Blames, Finish
    <3>2. CASE Reuses \/ Announces \/ Replaces \/ Keeps
          BY <3>2 DEF Reuses, Announces, Replaces, Keeps, Prepared, Forgetting, localVars
    <3> QED BY <1>3, <3>1, <3>2 DEF ManagerGoes
  <2> QED BY <1>1, <1>2, <1>3, <2>1, <2>2
<1>4. CASE ThreadGoes /\ (Constructed \/ Discarded \/ ClosedAtEnd)
  <2>1. request' = request /\ due' = due /\ due = 0
        BY <1>1, <1>4 DEF Constructed, Discarded, ClosedAtEnd, Runtime!Constructs,
           Runtime!Close, Runtime!requestVars, Runtime!stageVars, runtimeVars, Builds, Evicts,
           LoadFails, RunFails, ClosesRuntime
  <2>2. /\ thread' \in {"builds", "loads"} =>
             thread \in {"evicts", "builds"} /\ reports' = reports
        /\ thread' \in {"builds", "loads", "unloadable", "aborted", "broken", "ends"}
        BY <1>4 DEF Constructed, Discarded, ClosedAtEnd, Builds, Evicts, LoadFails, RunFails,
           ClosesRuntime, Finish, localVars
  <2> QED BY <1>1, <1>2, <1>4, <2>1, <2>2
<1>5. CASE ThreadGoes /\ LoadGoes
  <2>1. request' = request /\ due' = due
        BY <1>5, LoadingFacts DEF LoadGoes
  <2>2. thread = "loads" /\ thread' \in {"loads", "loaded"} /\ reports' = reports
        BY <1>5 DEF LoadGoes, Loads, managerVars, localVars
  <2> QED BY <1>1, <1>2, <1>5, <2>1, <2>2
<1>6. CASE ThreadGoes /\ Generated
  <2>1. thread = "checks" /\ thread' = "runs" /\ reports' = reports
        BY <1>6 DEF Generated, Runs, localVars
  <2>2. request' = request + 1 /\ at' = "checks" /\ stage' = 0 /\ due' = due
        BY <1>6 DEF Generated, Runtime!Generate, Runtime!StageReset
  <2> QED BY <1>1, <1>2, <1>6, <2>1, <2>2 DEF Encoded
<1>7. CASE ThreadGoes /\ GenerateGoes
  <2>1. thread \in {"runs", "posts"} /\ thread' \in {"runs", "posts", "measures"}
        BY <1>7 DEF GenerateGoes, Noticed
  <2>2. request' = request
        BY <1>7, ProducingFacts, EndingFacts DEF GenerateGoes
  <2>3. Encoded' => Encoded \/ stage' > 0
        BY <1>7, ProducingFacts, EndingFacts DEF GenerateGoes
  <2>4. CASE due' # 0
    <3>1. stage' = stage
          BY <1>7, <2>4, ProducingFacts, EndingFacts DEF GenerateGoes
    <3>2. thread' = "posts" /\ reports' = reports
          BY <1>7, <2>4, <3>1 DEF GenerateGoes, Noticed
    <3> QED BY <1>1, <1>2, <1>7, <2>1, <2>2, <2>3, <2>4, <3>1, <3>2
  <2>5. CASE due' = 0 /\ stage' # stage
    <3>1. due # 0 /\ stage' = due
          BY <1>7, <2>5, ProducingFacts, EndingFacts DEF GenerateGoes
    <3>2. thread' = "runs" /\ reports' = reports + 1
          BY <1>7, <2>5 DEF GenerateGoes, Noticed
    <3> QED BY <1>1, <1>2, <1>7, <2>1, <2>2, <2>5, <3>1, <3>2
  <2>6. CASE due' = 0 /\ stage' = stage
    <3>1. thread' \in {thread, "measures"} /\ reports' = reports
          BY <1>7, <2>6 DEF GenerateGoes, Noticed
    <3>2. thread = "posts" => failed'
      <4>1. Runtime!GenerateStep => thread # "posts"
            BY <1>1, <2>6, ProducingFacts
      <4> QED BY <1>1, <1>7, <4>1, EndingFacts DEF GenerateGoes
    <3> QED BY <1>1, <1>2, <1>7, <2>1, <2>2, <2>3, <2>6, <3>1, <3>2
  <2> QED BY <2>4, <2>5, <2>6
<1>8. CASE LoopGoes
  <2>1. Encoded' = Encoded
        BY <1>8, LoopFacts DEF Encoded
  <2> QED BY <1>1, <1>8, <2>1, LoopFacts
<1>9. CASE UNCHANGED execVars
      BY <1>1, <1>9 DEF execVars, vars, loopVars, callVars, localVars, runtimeVars, Encoded
<1> QED BY <1>3, <1>4, <1>5, <1>6, <1>7, <1>8, <1>9 DEF ExecNext, ThreadGoes

\* A manager without a runtime satisfies the invariant.
LEMMA ExecInvInit == ExecInit => ExecInv
<1> SUFFICES ASSUME ExecInit PROVE ExecInv
    OBVIOUS
<1>1. PipelineInv
      BY PipelineInit DEF ExecInit
<1>2. Runner!RuntimeInv
  <2>1. Runner!Init => Runner!RuntimeInv
        BY Runner!InitInv, PipelineAssumption DEF Runner!RuntimeAssumption
  <2>2. Runner!Init
        BY DEF ExecInit, Init, Runtime!Init, Runtime!None, Runner!Init, Runner!None
  <2> QED BY <2>1, <2>2
<1>3. PhaseShape /\ WorkflowShape /\ StagesShape
      BY PipelineAssumption
         DEF ExecInit, Init, Runtime!Init, PhaseShape, WorkflowShape, StagesShape
<1> QED BY <1>1, <1>2, <1>3 DEF ExecInv

\* The invariant of manager and runtime is inductive.
LEMMA ExecInvStep == ExecInv /\ [ExecNext]_execVars => ExecInv'
<1>1. ExecInv /\ [ExecNext]_execVars => PipelineInv'
      BY ManagerMaps, PipelineStep DEF ExecInv
<1> QED BY <1>1, RunnerStep, PhaseStep, WorkflowStep, StagesStep DEF ExecInv

\* Manager and runtime, and how the state of one goes with that of the other.
THEOREM ExecutorInvariance == ExecSpec => []ExecInv
BY ExecInvInit, ExecInvStep, PTL DEF ExecSpec

-----------------------------------------------------------------------------
\* With LTXRuntime for its runtime the manager does what PipelineManager says: what is
\* assumed there of load() and generate() is so.
THEOREM ExecutorImplementsManager == ExecSpec => ImplementsManager
<1>1. ExecInit => Init
      BY DEF ExecInit
<1> QED BY <1>1, ExecutorInvariance, ManagerMaps, PTL
        DEF ExecSpec, ImplementsManager, Spec

\* The manager calls its runtime, and the loop sets its events, as LTXRuntime assumes.
THEOREM ExecutorImplementsOwner == ExecSpec => ImplementsOwner
<1>1. ExecInit => Runtime!Init
      BY DEF ExecInit
<1> QED BY <1>1, ExecutorInvariance, OwnerMaps, PTL
        DEF ExecSpec, ImplementsOwner, OwnerStep, Runtime!Spec

\* The manager finds its runtime ready for each call and leaves it, or the GPU, settled.
THEOREM RuntimeLeftSettled == ExecSpec => []RuntimeSettled
<1>1. ExecInv => CallsServed
      BY DEF ExecInv, PhaseShape, WorkflowShape, CallsServed
<1>2. ExecInv => LeftSettled
  <2> SUFFICES ASSUME ExecInv, thread = "idle" PROVE LeftSettled
      BY DEF LeftSettled
  <2>1. phase = IF cached = NoRuntime THEN "absent" ELSE "idle"
        BY DEF ExecInv, PhaseShape
  <2> QED BY <2>1 DEF ExecInv, Runner!RuntimeInv, Runner!DeviceShape, Runner!RequestShape,
          Runner!None, Runtime!None, LeftSettled
<1> QED BY <1>1, <1>2, ExecutorInvariance, PTL DEF RuntimeSettled

-----------------------------------------------------------------------------
\* What was proved of the manager alone holds with this runtime: one runtime at a time,
\* the right files for each request, and the contract of a backend.
THEOREM ExecutorBackend ==
  ExecSpec => [](RuntimeAccounted /\ LorasFresh /\ AnswersHonest) /\ ImplementsBackend
<1>1. Spec => [](RuntimeAccounted /\ LorasFresh /\ AnswersHonest)
      BY SingleRuntime, FreshLoras, HonestAnswers, PTL
<1> QED BY <1>1, ExecutorImplementsManager, BackendRefinement DEF ImplementsManager

\* What was proved of the runtime alone holds under this manager: one large model on the
\* GPU at a time, nothing of one request in another, stages in their order, and once an
\* event is set no more than nine steps of generate(), in which the stage or the scratch
\* file whose check had passed may still come.
THEOREM ExecutorRuntime ==
  ExecSpec =>
    /\ [](Runtime!ResidencyExact /\ Runtime!RequestsIsolated)
    /\ Runtime!StagesAscend
    /\ Runtime!RevokedWindsDown
<1>1. ExecInv => Runtime!ResidencyExact
      BY DEF ExecInv, Runner!RuntimeInv, Runner!DeviceShape, Runtime!ResidencyExact,
         Runtime!OneResident, Runtime!UsedOnDevice
<1>2. ExecInv => Runtime!RequestsIsolated
      BY DEF ExecInv, Runner!RuntimeInv, Runner!DeviceShape, Runner!RequestShape,
         Runner!OwnConditioning, Runner!None, Runner!Generating, Runner!Preparing,
         Runtime!OwnConditioning, Runtime!NothingSurvives, Runtime!RequestsIsolated,
         Runtime!None, Runtime!Generating, Runtime!Preparing
<1>3. ExecInv /\ [ExecNext]_execVars => [phase = "busy" => stage' >= stage]_(Runtime!vars)
      BY RunnerStep
<1>4. ExecInv /\ [ExecNext]_execVars =>
        [phase = "busy" /\ (cancel \/ stop) =>
           \/ Runtime!EventStep
           \/ /\ Runtime!StepsLeft(at', due') < Runtime!StepsLeft(at, due)
              /\ due' = 0 /\ (stage' # stage => due # 0 /\ stage' = due)
              /\ scratch' \subseteq scratch \cup {request}
              /\ at = "touches" \/ scratch' \subseteq scratch
              /\ request' = request]_(Runtime!vars)
  <2>1. Runner!RuntimeAssumption
        BY PipelineAssumption DEF Runner!RuntimeAssumption
  <2>2. Runner!RuntimeInv /\ [Runner!Next]_(Runner!vars) =>
          [Runner!Revoked => Runner!EventStep \/ Runner!WindsDown]_(Runner!vars)
        BY <2>1, Runner!RevokedMoves
  <2>3. Runner!EventStep <=> Runtime!EventStep
        BY DEF Runner!EventStep, Runner!CancelJob, Runner!BeginShutdown, Runner!loadVars,
           Runner!requestVars, Runner!deviceVars, Runner!localVars, Runner!fileVars,
           Runner!stageVars, Runner!conditioningVars, Runtime!EventStep, Runtime!CancelJob,
           Runtime!BeginShutdown, Runtime!loadVars, Runtime!requestVars, Runtime!deviceVars,
           Runtime!localVars, Runtime!fileVars, Runtime!stageVars, Runtime!conditioningVars
  <2>4. Runner!WindsDown =>
          /\ Runtime!StepsLeft(at', due') < Runtime!StepsLeft(at, due)
          /\ due' = 0 /\ (stage' # stage => due # 0 /\ stage' = due)
          /\ scratch' \subseteq scratch \cup {request}
          /\ at = "touches" \/ scratch' \subseteq scratch
          /\ request' = request
        BY DEF Runner!WindsDown, Runner!StepsLeft, Runtime!StepsLeft
  <2>5. Runner!vars = Runtime!vars /\ (UNCHANGED Runner!vars <=> UNCHANGED Runtime!vars)
        BY DEF Runner!vars, Runtime!vars, Runner!loadVars, Runner!requestVars,
           Runner!deviceVars, Runner!localVars, Runner!fileVars, Runner!conditioningVars,
           Runner!stageVars, Runtime!loadVars, Runtime!requestVars, Runtime!deviceVars,
           Runtime!localVars, Runtime!fileVars, Runtime!conditioningVars, Runtime!stageVars
  <2> QED BY <2>2, <2>3, <2>4, <2>5, OwnerMaps, SameOwner DEF ExecInv, Runner!Revoked
<1> QED BY <1>1, <1>2, <1>3, <1>4, ExecutorInvariance, PTL
        DEF ExecSpec, Runtime!StagesAscend, Runtime!RevokedWindsDown
=============================================================================
