------------------------------ MODULE Executor ------------------------------
(***************************************************************************)
(* The thread of PipelineManager with LTXRuntime in the place of the       *)
(* runtime it loads and calls.                                             *)
(*                                                                         *)
(* PipelineManager takes what a runtime does from its protocol: load() and *)
(* generate() may raise, and a generation reports some stages; LTXRuntime  *)
(* takes from its owner which call comes next and when an event is set.    *)
(* Here the manager makes the calls and the runtime goes through them, on  *)
(* the two events that they share. A stage that the runtime has not        *)
(* reported yet is what the thread posts to the loop.                      *)
(***************************************************************************)
EXTENDS PipelineManager

CONSTANT Workflow  \* the pipeline that a selection asks for

VARIABLES phase, workflow, retains, caches, at, failed, request, kind, gpu, onGpu,
          source, latent, context, iterator, scratch, stuck, owned, stage, due

Runtime == INSTANCE LTXRuntime WITH MaxRequests <- MaxCalls

\* Every request starts with a stage, and there are four of them.
ASSUME ExecutorAssumption ==
  /\ Workflow \in [Selections -> Runtime!Workflows]
  /\ Workflow[Plain] = "distilled"
  /\ MaxReports >= 4

runtimeVars == <<phase, workflow, retains, caches, at, failed, request, kind, gpu, onGpu,
                 source, latent, context, iterator, scratch, stuck, owned, stage, due>>
managerVars == <<state, callbacks, thread, localVars, cacheVars>>
execVars == <<vars, runtimeVars>>

ExecInit == Init /\ Runtime!Init

-----------------------------------------------------------------------------
\* The thread between two calls of the runtime.
ManagerGoes ==
  /\ \/ Begins \/ Refuses \/ Reuses \/ Replaces \/ Keeps \/ Announces
     \/ Blames \/ Measures \/ Ends
  /\ UNCHANGED runtimeVars

\* _prepare() constructs a runtime and calls load(), for the pipeline of the request.
Constructed ==
  /\ Builds
  /\ Runtime!Constructs
  /\ workflow' = Workflow[sel]

\* load() goes on: it preloads for initialize(), and only then.
Preloads == at = "loads" /\ phase' # "failed" => (at' = "warms" <=> op = "initialize")
LoadGoes ==
  /\ thread = "loads"
  /\ Runtime!LoadStep
  /\ Preloads
  /\ IF phase' = "idle" THEN Loads ELSE UNCHANGED managerVars

\* _generate() calls generate(), for the request of its call.
Generated == Runs /\ Runtime!Generate

\* What generate() does to the manager: report() looks at the events, then posts a stage
\* that is a new one, and where nothing was raised there is a result.
Noticed ==
  /\ IF stage' # stage THEN Post("stage") /\ reports' = reports + 1
                       ELSE UNCHANGED <<callbacks, reports>>
  /\ thread' = IF due' # 0 THEN "posts"
               ELSE IF stage' # stage THEN "runs"
               ELSE IF phase' = "idle" THEN "measures" ELSE thread
  /\ UNCHANGED <<state, using, key, result, cacheVars>>

GenerateGoes ==
  /\ thread \in {"runs", "posts"}
  /\ Runtime!GenerateStep \/ Runtime!EndStep \/ Runtime!UnwindStep
  /\ Noticed

\* close(), of a runtime that is replaced or that has failed. RunFails is told by the
\* runtime that it has.
Discarded ==
  /\ Evicts \/ LoadFails \/ RunFails
  /\ Runtime!Close

\* close(), at the end: of the runtime that is cached, if there is one. If it raises the
\* runtime stays.
ClosedAtEnd ==
  /\ ClosesRuntime
  /\ IF cached # NoRuntime /\ result' = "ok" THEN Runtime!Close ELSE UNCHANGED runtimeVars

ThreadGoes ==
  /\ \/ ManagerGoes
     \/ Constructed \/ LoadGoes \/ Generated \/ GenerateGoes \/ Discarded \/ ClosedAtEnd
  /\ UNCHANGED <<loopVars, fileVars>>

\* The loop and the operator.
LoopGoes ==
  /\ CallStep \/ LoopStep \/ FileStep
  /\ UNCHANGED runtimeVars

ExecNext == ThreadGoes \/ LoopGoes

ExecSpec == ExecInit /\ [][ExecNext]_execVars

-----------------------------------------------------------------------------
\* Every step is a step of PipelineManager or none: the runtime does what the manager, its
\* theorems and the job manager behind it expect of one. It begins no report once an event
\* is set, posts each of four stages at most once, and one at least before it returns.
ImplementsManager == Spec

\* Every step is a step of LTXRuntime or none: the manager's calls, and the events as the
\* loop sets them around its calls, are those the runtime is written for.
ImplementsOwner == Runtime!Spec

\* Where the manager comes to a call, the runtime can take it.
CallsServed ==
  /\ thread = "builds" => phase = "absent"
  /\ thread \in {"evicts", "loaded", "checks"} => phase = "idle"
  /\ thread = "loads" => phase \in {"loading", "failed"}
  /\ thread \in {"runs", "posts"} => phase \in {"busy", "failed"} /\ workflow = Workflow[sel]

\* Where it comes back to the loop, a runtime that is kept is at rest, and without one
\* the GPU is free: no weights, nothing of a request, no file of one but those whose own
\* unlink raised.
LeftSettled ==
  thread = "idle" =>
    /\ phase = IF cached = NoRuntime THEN "absent" ELSE "idle"
    /\ gpu = {}
    /\ source = Runtime!None /\ context = Runtime!None /\ scratch \subseteq stuck

RuntimeSettled == CallsServed /\ LeftSettled
=============================================================================
