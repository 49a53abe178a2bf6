-------------------------- MODULE Pipeline_proofs --------------------------
(***************************************************************************)
(* Theorems about PipelineManager, for any selections, any number of calls, *)
(* file replacements and stages.                                           *)
(*                                                                         *)
(* The invariant goes by parts: how far call, thread and callbacks are,    *)
(* which part of the program belongs to which call, which runtime is alive *)
(* where, how old what is loaded may be, and what the status may say.      *)
(***************************************************************************)
EXTENDS PipelineManager, TLAPS

\* A call is under way exactly while the thread works for it or the loop has yet
\* to learn what it did; nothing of it outlasts the call.
CallShape ==
  /\ op # "none" => calls # 0
  /\ op = "none" => ~cancel /\ heard = 0
  /\ op = "none" \/ resolved => thread = "idle" /\ callbacks = <<>>
  /\ \A i \in DOMAIN callbacks :
       callbacks[i] = "done" => i = Len(callbacks) /\ thread = "idle"

\* Each call has its own part of the thread's program.
OpShape ==
  /\ op \in {"initialize", "close"} => sel = Plain
  /\ op \in {"initialize", "close"} => ~cancel
  /\ thread \in {"prepares", "evicts", "builds", "loads", "loaded", "unloadable",
                 "announces"} => op # "close"
  /\ thread \in {"checks", "runs", "posts", "aborted", "broken",
                 "measures"} => op = "generate"
  /\ thread = "closes" => op = "close"
  /\ op = "close" => stop /\ result # "service"
  /\ op = "initialize" => result # "other"
  /\ \A i \in DOMAIN callbacks : callbacks[i] # "done" => op = "generate"
  /\ thread = "posts" => reports < MaxReports

\* Which runtime is alive, wherever the thread is.
RuntimeShape ==
  /\ thread \in {"evicts", "builds", "loads", "loaded", "unloadable", "aborted", "broken"} =>
       cached = NoRuntime
  /\ live = IF thread \in {"evicts", "loads", "loaded"} THEN {using} ELSE {cached} \ {NoRuntime}
  /\ thread \in {"evicts", "loads", "loaded", "announces", "checks", "runs", "posts"}
       => using # NoRuntime
  /\ thread \in {"announces", "checks", "runs", "posts"} => cached = using

\* What was loaded is never older than its key says, nor than the call that uses it.
KeyShape ==
  /\ asked <= version
  /\ cached # NoRuntime =>
       /\ loaded[cached][1] = cachedKey[1]
       /\ cachedKey[1] \in Styled => cachedKey[2] <= loaded[cached][2]
  /\ thread \in {"evicts", "builds", "loads", "loaded"} =>
       key[1] = sel /\ (sel \in Styled => asked <= key[2] /\ key[2] <= version)
  /\ thread \in {"loaded", "announces", "checks", "runs", "posts"} =>
       loaded[using][1] = sel /\ (sel \in Styled => asked <= loaded[using][2])
  /\ thread = "loaded" /\ sel \in Styled => key[2] <= loaded[using][2]

\* What the status may still say while the thread has yet to write it.
StatusShape ==
  /\ state = "ready" =>
       cached # NoRuntime \/ thread \in {"evicts", "builds", "aborted", "broken"}
  /\ cached # NoRuntime => state \in {"ready", "stopping"} \/ thread = "announces"
  /\ op = "close" => state = "stopping"
  /\ op = "close" /\ thread \in {"idle", "ends"} /\ result = "ok" => cached = NoRuntime
  /\ closed => op = "none" /\ state = "stopping" /\ cached = NoRuntime

PipelineInv ==
  TypeOK /\ CallShape /\ OpShape /\ RuntimeShape /\ KeyShape /\ StatusShape

-----------------------------------------------------------------------------
\* A call is handed over with the types it is made of.
LEMMA ExecuteTypes ==
  ASSUME LoopTypeOK, NEW s \in Selections, NEW o \in {"initialize", "generate", "close"},
         Execute(o, s), accepting' \in BOOLEAN, worker' \in {"new", "ready", "gone"},
         stop' \in BOOLEAN, UNCHANGED fileVars
  PROVE  LoopTypeOK'
<1>1. calls' \in 0..MaxCalls
      BY PipelineAssumption DEF LoopTypeOK, Execute
<1>2. asked' \in Versions
      BY DEF LoopTypeOK, Execute
<1>3. version' \in Versions /\ installed' \in BOOLEAN
      BY DEF LoopTypeOK, fileVars
<1> QED BY <1>1, <1>2, <1>3 DEF LoopTypeOK, Execute

\* Types of what the loop owns.
LEMMA LoopTypeStep ==
  LoopTypeOK /\ [Next]_vars => LoopTypeOK'
<1> SUFFICES ASSUME LoopTypeOK, [Next]_vars
             PROVE  LoopTypeOK'
    OBVIOUS
<1> USE PipelineAssumption DEF LoopTypeOK
<1>1. CASE Initialize /\ UNCHANGED <<cacheVars, fileVars>>
      <2>1. UNCHANGED fileVars /\ stop' \in BOOLEAN /\ accepting' \in BOOLEAN
              /\ worker' \in {"new", "ready", "gone"}
            BY <1>1 DEF Initialize
      <2>2. CASE Execute("initialize", Plain)
            BY <2>1, <2>2, ExecuteTypes
      <2>3. CASE UNCHANGED <<closed, callVars, callbacks, thread, localVars>>
            BY <2>1, <2>3 DEF callVars, fileVars
      <2> QED BY <1>1, <2>2, <2>3 DEF Initialize
<1>2. CASE (\E s \in Selections : Generate(s)) /\ UNCHANGED <<cacheVars, fileVars>>
      <2> SUFFICES ASSUME NEW s \in Selections, Generate(s), UNCHANGED fileVars
                   PROVE  LoopTypeOK'
          BY <1>2
      <2>1. stop' \in BOOLEAN /\ accepting' \in BOOLEAN /\ worker' \in {"new", "ready", "gone"}
            BY DEF Generate
      <2> QED BY <2>1, ExecuteTypes DEF Generate
<1>3. CASE Close /\ UNCHANGED <<cacheVars, fileVars>>
      <2>1. stop' \in BOOLEAN /\ accepting' \in BOOLEAN /\ worker' \in {"new", "ready", "gone"}
            BY <1>3 DEF Close, StopSignalled
      <2> QED BY <1>3, <2>1, ExecuteTypes DEF Close
<1>4. CASE Signals /\ UNCHANGED <<cacheVars, fileVars>>
      BY <1>4 DEF Signals, CancelJob, BeginShutdown, StopSignalled, Interrupt, Signal,
         localVars, cacheVars, fileVars
<1>5. CASE LoopStep /\ RunCallback
      BY <1>5 DEF LoopStep, RunCallback, localVars, cacheVars, fileVars
<1>6. CASE LoopStep /\ Resume
      BY <1>6 DEF LoopStep, Resume, MayResume, localVars, cacheVars, fileVars
<1>7. CASE Begins /\ UNCHANGED <<loopVars, fileVars>>
      BY <1>7 DEF Begins, Finish, Unreadable, loopVars, callVars, localVars, cacheVars,
         fileVars
<1>8. CASE Refuses /\ UNCHANGED <<loopVars, fileVars>>
      BY <1>8 DEF Refuses, Finish, Unreadable, loopVars, callVars, localVars, cacheVars,
         fileVars
<1>9. CASE Reuses /\ UNCHANGED <<loopVars, fileVars>>
      BY <1>9 DEF Reuses, Prepared, Unreadable, KeyOf, loopVars, callVars, localVars,
         cacheVars, fileVars
<1>10. CASE Replaces /\ UNCHANGED <<loopVars, fileVars>>
      BY <1>10 DEF Replaces, Forgetting, Unreadable, KeyOf, loopVars, callVars, localVars,
         cacheVars, fileVars
<1>11. CASE Evicts /\ UNCHANGED <<loopVars, fileVars>>
      BY <1>11 DEF Evicts, Discard, loopVars, callVars, localVars, cacheVars, fileVars
<1>12. CASE Builds /\ UNCHANGED <<loopVars, fileVars>>
      BY <1>12 DEF Builds, loopVars, callVars, localVars, cacheVars, fileVars
<1>13. CASE Loads /\ UNCHANGED <<loopVars, fileVars>>
      BY <1>13 DEF Loads, Unreadable, KeyOf, loopVars, callVars, localVars, cacheVars,
         fileVars
<1>14. CASE LoadFails /\ UNCHANGED <<loopVars, fileVars>>
      BY <1>14 DEF LoadFails, Discard, loopVars, callVars, localVars, cacheVars, fileVars
<1>15. CASE Keeps /\ UNCHANGED <<loopVars, fileVars>>
      BY <1>15 DEF Keeps, KeepRuntime, loopVars, callVars, localVars, cacheVars, fileVars
<1>16. CASE Announces /\ UNCHANGED <<loopVars, fileVars>>
      BY <1>16 DEF Announces, Prepared, loopVars, callVars, localVars, cacheVars, fileVars
<1>17. CASE Runs /\ UNCHANGED <<loopVars, fileVars>>
      BY <1>17 DEF Runs, loopVars, callVars, localVars, cacheVars, fileVars
<1>18. CASE (ChecksReport \/ PostsStage) /\ UNCHANGED <<loopVars, fileVars>>
      BY <1>18 DEF ChecksReport, PostsStage, Post, loopVars, callVars, localVars, cacheVars,
         fileVars
<1>19. CASE RunSucceeds /\ UNCHANGED <<loopVars, fileVars>>
      BY <1>19 DEF RunSucceeds, loopVars, callVars, localVars, cacheVars, fileVars
<1>20. CASE RunFails /\ UNCHANGED <<loopVars, fileVars>>
      BY <1>20 DEF RunFails, Invalidated, Discard, loopVars, callVars, localVars,
         cacheVars, fileVars
<1>21. CASE Measures /\ UNCHANGED <<loopVars, fileVars>>
      BY <1>21 DEF Measures, Post, loopVars, callVars, localVars, cacheVars, fileVars
<1>22. CASE Blames /\ UNCHANGED <<loopVars, fileVars>>
      BY <1>22 DEF Blames, FailureState, Raised, loopVars, callVars, localVars, cacheVars,
         fileVars
<1>23. CASE ClosesRuntime /\ UNCHANGED <<loopVars, fileVars>>
      BY <1>23 DEF ClosesRuntime, Finish, Discard, loopVars, callVars, localVars,
         cacheVars, fileVars
<1>24. CASE Ends /\ UNCHANGED <<loopVars, fileVars>>
      BY <1>24 DEF Ends, Post, loopVars, callVars, localVars, cacheVars, fileVars
<1>25. CASE FileStep
      <2>1. version' \in Versions
            BY <1>25 DEF FileStep, ReplaceLora, RemoveLora, Versions
      <2>2. installed' \in BOOLEAN
            BY <1>25 DEF FileStep, ReplaceLora, RemoveLora
      <2>3. UNCHANGED <<loopVars, callbacks>>
            BY <1>25 DEF FileStep
      <2> QED BY <2>1, <2>2, <2>3 DEF loopVars, callVars
<1>26. CASE UNCHANGED vars
      BY <1>26 DEF vars, loopVars, callVars, localVars, cacheVars, fileVars
<1> QED BY <1>1, <1>2, <1>3, <1>4, <1>5, <1>6, <1>7, <1>8, <1>9, <1>10, <1>11, <1>12,
         <1>13, <1>14, <1>15, <1>16, <1>17, <1>18, <1>19, <1>20, <1>21, <1>22, <1>23,
         <1>24, <1>25, <1>26 DEF
         Next, CallStep, LoopStep, ThreadStep, Preparing, Running

\* Types of what the thread says.
LEMMA ThreadTypeStep ==
  ThreadTypeOK /\ OpShape /\ [Next]_vars => ThreadTypeOK'
<1> SUFFICES ASSUME ThreadTypeOK, OpShape, [Next]_vars
             PROVE  ThreadTypeOK'
    OBVIOUS
<1> USE PipelineAssumption DEF ThreadTypeOK
<1>1. CASE Initialize /\ UNCHANGED <<cacheVars, fileVars>>
      BY <1>1 DEF Initialize, Execute, callVars, localVars, cacheVars, fileVars
<1>2. CASE (\E s \in Selections : Generate(s)) /\ UNCHANGED <<cacheVars, fileVars>>
      BY <1>2 DEF Generate, Execute, Unreadable, cacheVars, fileVars
<1>3. CASE Close /\ UNCHANGED <<cacheVars, fileVars>>
      BY <1>3 DEF Close, StopSignalled, Execute, cacheVars, fileVars
<1>4. CASE Signals /\ UNCHANGED <<cacheVars, fileVars>>
      BY <1>4 DEF Signals, CancelJob, BeginShutdown, StopSignalled, Interrupt, Signal,
         localVars, cacheVars, fileVars
<1>5. CASE LoopStep /\ RunCallback
      BY <1>5 DEF LoopStep, RunCallback, localVars, cacheVars, fileVars
<1>6. CASE LoopStep /\ Resume
      BY <1>6 DEF LoopStep, Resume, MayResume, localVars, cacheVars, fileVars
<1>7. CASE Begins /\ UNCHANGED <<loopVars, fileVars>>
      BY <1>7 DEF Begins, Finish, Unreadable, loopVars, callVars, localVars, cacheVars,
         fileVars
<1>8. CASE Refuses /\ UNCHANGED <<loopVars, fileVars>>
      BY <1>8 DEF Refuses, Finish, Unreadable, loopVars, callVars, localVars, cacheVars,
         fileVars
<1>9. CASE Reuses /\ UNCHANGED <<loopVars, fileVars>>
      BY <1>9 DEF Reuses, Prepared, Unreadable, KeyOf, loopVars, callVars, localVars,
         cacheVars, fileVars
<1>10. CASE Replaces /\ UNCHANGED <<loopVars, fileVars>>
      BY <1>10 DEF Replaces, Forgetting, Unreadable, KeyOf, loopVars, callVars, localVars,
         cacheVars, fileVars
<1>11. CASE Evicts /\ UNCHANGED <<loopVars, fileVars>>
      BY <1>11 DEF Evicts, Discard, loopVars, callVars, localVars, cacheVars, fileVars
<1>12. CASE Builds /\ UNCHANGED <<loopVars, fileVars>>
      BY <1>12 DEF Builds, loopVars, callVars, localVars, cacheVars, fileVars
<1>13. CASE Loads /\ UNCHANGED <<loopVars, fileVars>>
      BY <1>13 DEF Loads, Unreadable, KeyOf, loopVars, callVars, localVars, cacheVars,
         fileVars
<1>14. CASE LoadFails /\ UNCHANGED <<loopVars, fileVars>>
      BY <1>14 DEF LoadFails, Discard, loopVars, callVars, localVars, cacheVars, fileVars
<1>15. CASE Keeps /\ UNCHANGED <<loopVars, fileVars>>
      BY <1>15 DEF Keeps, KeepRuntime, loopVars, callVars, localVars, cacheVars, fileVars
<1>16. CASE Announces /\ UNCHANGED <<loopVars, fileVars>>
      BY <1>16 DEF Announces, Prepared, loopVars, callVars, localVars, cacheVars, fileVars
<1>17. CASE Runs /\ UNCHANGED <<loopVars, fileVars>>
      BY <1>17 DEF Runs, loopVars, callVars, localVars, cacheVars, fileVars
<1>18. CASE (ChecksReport \/ PostsStage) /\ UNCHANGED <<loopVars, fileVars>>
      BY <1>18 DEF OpShape, ChecksReport, PostsStage, Post, loopVars, callVars, localVars,
         cacheVars, fileVars
<1>19. CASE RunSucceeds /\ UNCHANGED <<loopVars, fileVars>>
      BY <1>19 DEF RunSucceeds, loopVars, callVars, localVars, cacheVars, fileVars
<1>20. CASE RunFails /\ UNCHANGED <<loopVars, fileVars>>
      BY <1>20 DEF RunFails, Invalidated, Discard, loopVars, callVars, localVars,
         cacheVars, fileVars
<1>21. CASE Measures /\ UNCHANGED <<loopVars, fileVars>>
      BY <1>21 DEF Measures, Post, loopVars, callVars, localVars, cacheVars, fileVars
<1>22. CASE Blames /\ UNCHANGED <<loopVars, fileVars>>
      BY <1>22 DEF Blames, FailureState, Raised, loopVars, callVars, localVars, cacheVars,
         fileVars
<1>23. CASE ClosesRuntime /\ UNCHANGED <<loopVars, fileVars>>
      BY <1>23 DEF ClosesRuntime, Finish, Discard, loopVars, callVars, localVars,
         cacheVars, fileVars
<1>24. CASE Ends /\ UNCHANGED <<loopVars, fileVars>>
      BY <1>24 DEF Ends, Post, loopVars, callVars, localVars, cacheVars, fileVars
<1>25. CASE FileStep
      BY <1>25 DEF FileStep, ReplaceLora, RemoveLora, loopVars, callVars, localVars,
         cacheVars
<1>26. CASE UNCHANGED vars
      BY <1>26 DEF vars, loopVars, callVars, localVars, cacheVars, fileVars
<1> QED BY <1>1, <1>2, <1>3, <1>4, <1>5, <1>6, <1>7, <1>8, <1>9, <1>10, <1>11, <1>12,
         <1>13, <1>14, <1>15, <1>16, <1>17, <1>18, <1>19, <1>20, <1>21, <1>22, <1>23,
         <1>24, <1>25, <1>26 DEF
         Next, CallStep, LoopStep, ThreadStep, Preparing, Running

\* Types of what the thread owns: at work it has a call to name a runtime by.
LEMMA CacheTypeStep ==
  LoopTypeOK /\ ThreadTypeOK /\ CacheTypeOK /\ CallShape /\ [Next]_vars => CacheTypeOK'
<1> SUFFICES ASSUME LoopTypeOK, ThreadTypeOK, CacheTypeOK, CallShape, [Next]_vars
             PROVE  CacheTypeOK'
    OBVIOUS
<1> USE PipelineAssumption DEF LoopTypeOK, CacheTypeOK, CallShape, Runtimes, Versions,
         Keys, NoRuntime
<1>1. CASE Initialize /\ UNCHANGED <<cacheVars, fileVars>>
      BY <1>1 DEF Initialize, Execute, callVars, localVars, cacheVars, fileVars
<1>2. CASE (\E s \in Selections : Generate(s)) /\ UNCHANGED <<cacheVars, fileVars>>
      BY <1>2 DEF Generate, Execute, Unreadable, cacheVars, fileVars
<1>3. CASE Close /\ UNCHANGED <<cacheVars, fileVars>>
      BY <1>3 DEF Close, StopSignalled, Execute, cacheVars, fileVars
<1>4. CASE Signals /\ UNCHANGED <<cacheVars, fileVars>>
      BY <1>4 DEF Signals, CancelJob, BeginShutdown, StopSignalled, Interrupt, Signal,
         localVars, cacheVars, fileVars
<1>5. CASE LoopStep /\ RunCallback
      BY <1>5 DEF LoopStep, RunCallback, localVars, cacheVars, fileVars
<1>6. CASE LoopStep /\ Resume
      BY <1>6 DEF LoopStep, Resume, MayResume, localVars, cacheVars, fileVars
<1>7. CASE Begins /\ UNCHANGED <<loopVars, fileVars>>
      BY <1>7 DEF Begins, Finish, Unreadable, loopVars, callVars, localVars, cacheVars,
         fileVars
<1>8. CASE Refuses /\ UNCHANGED <<loopVars, fileVars>>
      BY <1>8 DEF Refuses, Finish, Unreadable, loopVars, callVars, localVars, cacheVars,
         fileVars
<1>9. CASE Reuses /\ UNCHANGED <<loopVars, fileVars>>
      BY <1>9 DEF Reuses, Prepared, Unreadable, KeyOf, loopVars, callVars, localVars,
         cacheVars, fileVars
<1>10. CASE Replaces /\ UNCHANGED <<loopVars, fileVars>>
      BY <1>10 DEF Replaces, Forgetting, Unreadable, KeyOf, loopVars, callVars, localVars,
         cacheVars, fileVars
<1>11. CASE Evicts /\ UNCHANGED <<loopVars, fileVars>>
      BY <1>11 DEF Evicts, Discard, loopVars, callVars, localVars, cacheVars, fileVars
<1>12. CASE Builds /\ UNCHANGED <<loopVars, fileVars>>
      BY <1>12 DEF Builds, loopVars, callVars, localVars, cacheVars, fileVars
<1>13. CASE Loads /\ UNCHANGED <<loopVars, fileVars>>
      <2>1. KeyOf(sel) \in Keys
            BY <1>13 DEF KeyOf
      <2> QED BY <1>13, <2>1 DEF Loads, loopVars, callVars, localVars, fileVars
<1>14. CASE LoadFails /\ UNCHANGED <<loopVars, fileVars>>
      BY <1>14 DEF LoadFails, Discard, loopVars, callVars, localVars, cacheVars, fileVars
<1>15. CASE Keeps /\ UNCHANGED <<loopVars, fileVars>>
      BY <1>15 DEF Keeps, KeepRuntime, loopVars, callVars, localVars, cacheVars, fileVars
<1>16. CASE Announces /\ UNCHANGED <<loopVars, fileVars>>
      BY <1>16 DEF Announces, Prepared, loopVars, callVars, localVars, cacheVars, fileVars
<1>17. CASE Runs /\ UNCHANGED <<loopVars, fileVars>>
      BY <1>17 DEF Runs, loopVars, callVars, localVars, cacheVars, fileVars
<1>18. CASE (ChecksReport \/ PostsStage) /\ UNCHANGED <<loopVars, fileVars>>
      BY <1>18 DEF ChecksReport, PostsStage, Post, loopVars, callVars, localVars, cacheVars,
         fileVars
<1>19. CASE RunSucceeds /\ UNCHANGED <<loopVars, fileVars>>
      BY <1>19 DEF RunSucceeds, loopVars, callVars, localVars, cacheVars, fileVars
<1>20. CASE RunFails /\ UNCHANGED <<loopVars, fileVars>>
      BY <1>20 DEF RunFails, Invalidated, Discard, loopVars, callVars, localVars,
         cacheVars, fileVars
<1>21. CASE Measures /\ UNCHANGED <<loopVars, fileVars>>
      BY <1>21 DEF Measures, Post, loopVars, callVars, localVars, cacheVars, fileVars
<1>22. CASE Blames /\ UNCHANGED <<loopVars, fileVars>>
      BY <1>22 DEF Blames, FailureState, Raised, loopVars, callVars, localVars, cacheVars,
         fileVars
<1>23. CASE ClosesRuntime /\ UNCHANGED <<loopVars, fileVars>>
      BY <1>23 DEF ClosesRuntime, Finish, Discard, loopVars, callVars, localVars,
         cacheVars, fileVars
<1>24. CASE Ends /\ UNCHANGED <<loopVars, fileVars>>
      BY <1>24 DEF Ends, Post, loopVars, callVars, localVars, cacheVars, fileVars
<1>25. CASE FileStep
      BY <1>25 DEF FileStep, ReplaceLora, RemoveLora, loopVars, callVars, localVars,
         cacheVars
<1>26. CASE UNCHANGED vars
      BY <1>26 DEF vars, loopVars, callVars, localVars, cacheVars, fileVars
<1> QED BY <1>1, <1>2, <1>3, <1>4, <1>5, <1>6, <1>7, <1>8, <1>9, <1>10, <1>11, <1>12,
         <1>13, <1>14, <1>15, <1>16, <1>17, <1>18, <1>19, <1>20, <1>21, <1>22, <1>23,
         <1>24, <1>25, <1>26 DEF
         Next, CallStep, LoopStep, ThreadStep, Preparing, Running

\* The call, the thread and the callbacks keep in step.
LEMMA CallShapeStep ==
  TypeOK /\ CallShape /\ [Next]_vars => CallShape'
<1> SUFFICES ASSUME TypeOK, CallShape, [Next]_vars
             PROVE  CallShape'
    OBVIOUS
<1> USE DEF CallShape, TypeOK, LoopTypeOK
<1>1. CASE Initialize /\ UNCHANGED <<cacheVars, fileVars>>
      BY <1>1 DEF Initialize, Execute, callVars, localVars, cacheVars, fileVars
<1>2. CASE (\E s \in Selections : Generate(s)) /\ UNCHANGED <<cacheVars, fileVars>>
      BY <1>2 DEF Generate, Execute, Unreadable, cacheVars, fileVars
<1>3. CASE Close /\ UNCHANGED <<cacheVars, fileVars>>
      BY <1>3 DEF Close, StopSignalled, Execute, cacheVars, fileVars
<1>4. CASE Signals /\ UNCHANGED <<cacheVars, fileVars>>
      BY <1>4 DEF Signals, CancelJob, BeginShutdown, StopSignalled, Interrupt, Signal,
         localVars, cacheVars, fileVars
<1>5. CASE LoopStep /\ RunCallback
      BY <1>5 DEF LoopStep, RunCallback, localVars, cacheVars, fileVars
<1>6. CASE LoopStep /\ Resume
      BY <1>6 DEF LoopStep, Resume, MayResume, localVars, cacheVars, fileVars
<1>7. CASE Begins /\ UNCHANGED <<loopVars, fileVars>>
      BY <1>7 DEF Begins, Finish, Unreadable, loopVars, callVars, localVars, cacheVars,
         fileVars
<1>8. CASE Refuses /\ UNCHANGED <<loopVars, fileVars>>
      BY <1>8 DEF Refuses, Finish, Unreadable, loopVars, callVars, localVars, cacheVars,
         fileVars
<1>9. CASE Reuses /\ UNCHANGED <<loopVars, fileVars>>
      BY <1>9 DEF Reuses, Prepared, Unreadable, KeyOf, loopVars, callVars, localVars,
         cacheVars, fileVars
<1>10. CASE Replaces /\ UNCHANGED <<loopVars, fileVars>>
      BY <1>10 DEF Replaces, Forgetting, Unreadable, KeyOf, loopVars, callVars, localVars,
         cacheVars, fileVars
<1>11. CASE Evicts /\ UNCHANGED <<loopVars, fileVars>>
      BY <1>11 DEF Evicts, Discard, loopVars, callVars, localVars, cacheVars, fileVars
<1>12. CASE Builds /\ UNCHANGED <<loopVars, fileVars>>
      BY <1>12 DEF Builds, loopVars, callVars, localVars, cacheVars, fileVars
<1>13. CASE Loads /\ UNCHANGED <<loopVars, fileVars>>
      BY <1>13 DEF Loads, Unreadable, KeyOf, loopVars, callVars, localVars, cacheVars,
         fileVars
<1>14. CASE LoadFails /\ UNCHANGED <<loopVars, fileVars>>
      BY <1>14 DEF LoadFails, Discard, loopVars, callVars, localVars, cacheVars, fileVars
<1>15. CASE Keeps /\ UNCHANGED <<loopVars, fileVars>>
      BY <1>15 DEF Keeps, KeepRuntime, loopVars, callVars, localVars, cacheVars, fileVars
<1>16. CASE Announces /\ UNCHANGED <<loopVars, fileVars>>
      BY <1>16 DEF Announces, Prepared, loopVars, callVars, localVars, cacheVars, fileVars
<1>17. CASE Runs /\ UNCHANGED <<loopVars, fileVars>>
      BY <1>17 DEF Runs, loopVars, callVars, localVars, cacheVars, fileVars
<1>18. CASE (ChecksReport \/ PostsStage) /\ UNCHANGED <<loopVars, fileVars>>
      BY <1>18 DEF ChecksReport, PostsStage, Post, loopVars, callVars, localVars, cacheVars,
         fileVars
<1>19. CASE RunSucceeds /\ UNCHANGED <<loopVars, fileVars>>
      BY <1>19 DEF RunSucceeds, loopVars, callVars, localVars, cacheVars, fileVars
<1>20. CASE RunFails /\ UNCHANGED <<loopVars, fileVars>>
      BY <1>20 DEF RunFails, Invalidated, Discard, loopVars, callVars, localVars,
         cacheVars, fileVars
<1>21. CASE Measures /\ UNCHANGED <<loopVars, fileVars>>
      BY <1>21 DEF Measures, Post, loopVars, callVars, localVars, cacheVars, fileVars
<1>22. CASE Blames /\ UNCHANGED <<loopVars, fileVars>>
      BY <1>22 DEF Blames, FailureState, Raised, loopVars, callVars, localVars, cacheVars,
         fileVars
<1>23. CASE ClosesRuntime /\ UNCHANGED <<loopVars, fileVars>>
      BY <1>23 DEF ClosesRuntime, Finish, Discard, loopVars, callVars, localVars,
         cacheVars, fileVars
<1>24. CASE Ends /\ UNCHANGED <<loopVars, fileVars>>
      BY <1>24 DEF Ends, Post, loopVars, callVars, localVars, cacheVars, fileVars
<1>25. CASE FileStep
      BY <1>25 DEF FileStep, ReplaceLora, RemoveLora, loopVars, callVars, localVars,
         cacheVars
<1>26. CASE UNCHANGED vars
      BY <1>26 DEF vars, loopVars, callVars, localVars, cacheVars, fileVars
<1> QED BY <1>1, <1>2, <1>3, <1>4, <1>5, <1>6, <1>7, <1>8, <1>9, <1>10, <1>11, <1>12,
         <1>13, <1>14, <1>15, <1>16, <1>17, <1>18, <1>19, <1>20, <1>21, <1>22, <1>23,
         <1>24, <1>25, <1>26 DEF
         Next, CallStep, LoopStep, ThreadStep, Preparing, Running

\* The thread keeps to the call's part of the program.
LEMMA OpShapeStep ==
  LoopTypeOK /\ CallShape /\ OpShape /\ [Next]_vars => OpShape'
<1> SUFFICES ASSUME LoopTypeOK, CallShape, OpShape, [Next]_vars
             PROVE  OpShape'
    OBVIOUS
<1> USE PipelineAssumption DEF LoopTypeOK, CallShape, OpShape
<1>1. CASE Initialize /\ UNCHANGED <<cacheVars, fileVars>>
      BY <1>1 DEF Initialize, Execute, callVars, localVars, cacheVars, fileVars
<1>2. CASE (\E s \in Selections : Generate(s)) /\ UNCHANGED <<cacheVars, fileVars>>
      BY <1>2 DEF Generate, Execute, Unreadable, cacheVars, fileVars
<1>3. CASE Close /\ UNCHANGED <<cacheVars, fileVars>>
      BY <1>3 DEF Close, StopSignalled, Execute, cacheVars, fileVars
<1>4. CASE Signals /\ UNCHANGED <<cacheVars, fileVars>>
      BY <1>4 DEF Signals, CancelJob, BeginShutdown, StopSignalled, Interrupt, Signal,
         localVars, cacheVars, fileVars
<1>5. CASE LoopStep /\ RunCallback
      BY <1>5 DEF LoopStep, RunCallback, localVars, cacheVars, fileVars
<1>6. CASE LoopStep /\ Resume
      BY <1>6 DEF LoopStep, Resume, MayResume, localVars, cacheVars, fileVars
<1>7. CASE Begins /\ UNCHANGED <<loopVars, fileVars>>
      BY <1>7 DEF Begins, Finish, Unreadable, loopVars, callVars, localVars, cacheVars,
         fileVars
<1>8. CASE Refuses /\ UNCHANGED <<loopVars, fileVars>>
      BY <1>8 DEF Refuses, Finish, Unreadable, loopVars, callVars, localVars, cacheVars,
         fileVars
<1>9. CASE Reuses /\ UNCHANGED <<loopVars, fileVars>>
      BY <1>9 DEF Reuses, Prepared, Unreadable, KeyOf, loopVars, callVars, localVars,
         cacheVars, fileVars
<1>10. CASE Replaces /\ UNCHANGED <<loopVars, fileVars>>
      BY <1>10 DEF Replaces, Forgetting, Unreadable, KeyOf, loopVars, callVars, localVars,
         cacheVars, fileVars
<1>11. CASE Evicts /\ UNCHANGED <<loopVars, fileVars>>
      BY <1>11 DEF Evicts, Discard, loopVars, callVars, localVars, cacheVars, fileVars
<1>12. CASE Builds /\ UNCHANGED <<loopVars, fileVars>>
      BY <1>12 DEF Builds, loopVars, callVars, localVars, cacheVars, fileVars
<1>13. CASE Loads /\ UNCHANGED <<loopVars, fileVars>>
      BY <1>13 DEF Loads, Unreadable, KeyOf, loopVars, callVars, localVars, cacheVars,
         fileVars
<1>14. CASE LoadFails /\ UNCHANGED <<loopVars, fileVars>>
      BY <1>14 DEF LoadFails, Discard, loopVars, callVars, localVars, cacheVars, fileVars
<1>15. CASE Keeps /\ UNCHANGED <<loopVars, fileVars>>
      BY <1>15 DEF Keeps, KeepRuntime, loopVars, callVars, localVars, cacheVars, fileVars
<1>16. CASE Announces /\ UNCHANGED <<loopVars, fileVars>>
      BY <1>16 DEF Announces, Prepared, loopVars, callVars, localVars, cacheVars, fileVars
<1>17. CASE Runs /\ UNCHANGED <<loopVars, fileVars>>
      BY <1>17 DEF Runs, loopVars, callVars, localVars, cacheVars, fileVars
<1>18. CASE (ChecksReport \/ PostsStage) /\ UNCHANGED <<loopVars, fileVars>>
      BY <1>18 DEF ChecksReport, PostsStage, Post, loopVars, callVars, localVars, cacheVars,
         fileVars
<1>19. CASE RunSucceeds /\ UNCHANGED <<loopVars, fileVars>>
      BY <1>19 DEF RunSucceeds, loopVars, callVars, localVars, cacheVars, fileVars
<1>20. CASE RunFails /\ UNCHANGED <<loopVars, fileVars>>
      BY <1>20 DEF RunFails, Invalidated, Discard, loopVars, callVars, localVars,
         cacheVars, fileVars
<1>21. CASE Measures /\ UNCHANGED <<loopVars, fileVars>>
      BY <1>21 DEF Measures, Post, loopVars, callVars, localVars, cacheVars, fileVars
<1>22. CASE Blames /\ UNCHANGED <<loopVars, fileVars>>
      BY <1>22 DEF Blames, FailureState, Raised, loopVars, callVars, localVars, cacheVars,
         fileVars
<1>23. CASE ClosesRuntime /\ UNCHANGED <<loopVars, fileVars>>
      BY <1>23 DEF ClosesRuntime, Finish, Discard, loopVars, callVars, localVars,
         cacheVars, fileVars
<1>24. CASE Ends /\ UNCHANGED <<loopVars, fileVars>>
      BY <1>24 DEF Ends, Post, loopVars, callVars, localVars, cacheVars, fileVars
<1>25. CASE FileStep
      BY <1>25 DEF FileStep, ReplaceLora, RemoveLora, loopVars, callVars, localVars,
         cacheVars
<1>26. CASE UNCHANGED vars
      BY <1>26 DEF vars, loopVars, callVars, localVars, cacheVars, fileVars
<1> QED BY <1>1, <1>2, <1>3, <1>4, <1>5, <1>6, <1>7, <1>8, <1>9, <1>10, <1>11, <1>12,
         <1>13, <1>14, <1>15, <1>16, <1>17, <1>18, <1>19, <1>20, <1>21, <1>22, <1>23,
         <1>24, <1>25, <1>26 DEF
         Next, CallStep, LoopStep, ThreadStep, Preparing, Running

\* What is alive follows the thread.
LEMMA RuntimeShapeStep ==
  TypeOK /\ CallShape /\ RuntimeShape /\ [Next]_vars => RuntimeShape'
<1> SUFFICES ASSUME TypeOK, CallShape, RuntimeShape, [Next]_vars
             PROVE  RuntimeShape'
    OBVIOUS
<1> USE PipelineAssumption DEF TypeOK, LoopTypeOK, CacheTypeOK, CallShape, RuntimeShape,
         NoRuntime, Runtimes
<1>1. CASE Initialize /\ UNCHANGED <<cacheVars, fileVars>>
      BY <1>1 DEF Initialize, Execute, callVars, localVars, cacheVars, fileVars
<1>2. CASE (\E s \in Selections : Generate(s)) /\ UNCHANGED <<cacheVars, fileVars>>
      BY <1>2 DEF Generate, Execute, Unreadable, cacheVars, fileVars
<1>3. CASE Close /\ UNCHANGED <<cacheVars, fileVars>>
      BY <1>3 DEF Close, StopSignalled, Execute, cacheVars, fileVars
<1>4. CASE Signals /\ UNCHANGED <<cacheVars, fileVars>>
      BY <1>4 DEF Signals, CancelJob, BeginShutdown, StopSignalled, Interrupt, Signal,
         localVars, cacheVars, fileVars
<1>5. CASE LoopStep /\ RunCallback
      BY <1>5 DEF LoopStep, RunCallback, localVars, cacheVars, fileVars
<1>6. CASE LoopStep /\ Resume
      BY <1>6 DEF LoopStep, Resume, MayResume, localVars, cacheVars, fileVars
<1>7. CASE Begins /\ UNCHANGED <<loopVars, fileVars>>
      BY <1>7 DEF Begins, Finish, Unreadable, loopVars, callVars, localVars, cacheVars,
         fileVars
<1>8. CASE Refuses /\ UNCHANGED <<loopVars, fileVars>>
      BY <1>8 DEF Refuses, Finish, Unreadable, loopVars, callVars, localVars, cacheVars,
         fileVars
<1>9. CASE Reuses /\ UNCHANGED <<loopVars, fileVars>>
      BY <1>9 DEF Reuses, Prepared, Unreadable, KeyOf, loopVars, callVars, localVars,
         cacheVars, fileVars
<1>10. CASE Replaces /\ UNCHANGED <<loopVars, fileVars>>
      BY <1>10 DEF Replaces, Forgetting, Unreadable, KeyOf, loopVars, callVars, localVars,
         cacheVars, fileVars
<1>11. CASE Evicts /\ UNCHANGED <<loopVars, fileVars>>
      BY <1>11 DEF Evicts, Discard, loopVars, callVars, localVars, cacheVars, fileVars
<1>12. CASE Builds /\ UNCHANGED <<loopVars, fileVars>>
      BY <1>12 DEF Builds, loopVars, callVars, localVars, cacheVars, fileVars
<1>13. CASE Loads /\ UNCHANGED <<loopVars, fileVars>>
      BY <1>13 DEF Loads, Unreadable, KeyOf, loopVars, callVars, localVars, cacheVars,
         fileVars
<1>14. CASE LoadFails /\ UNCHANGED <<loopVars, fileVars>>
      BY <1>14 DEF LoadFails, Discard, loopVars, callVars, localVars, cacheVars, fileVars
<1>15. CASE Keeps /\ UNCHANGED <<loopVars, fileVars>>
      BY <1>15 DEF Keeps, KeepRuntime, loopVars, callVars, localVars, cacheVars, fileVars
<1>16. CASE Announces /\ UNCHANGED <<loopVars, fileVars>>
      BY <1>16 DEF Announces, Prepared, loopVars, callVars, localVars, cacheVars, fileVars
<1>17. CASE Runs /\ UNCHANGED <<loopVars, fileVars>>
      BY <1>17 DEF Runs, loopVars, callVars, localVars, cacheVars, fileVars
<1>18. CASE (ChecksReport \/ PostsStage) /\ UNCHANGED <<loopVars, fileVars>>
      BY <1>18 DEF ChecksReport, PostsStage, Post, loopVars, callVars, localVars, cacheVars,
         fileVars
<1>19. CASE RunSucceeds /\ UNCHANGED <<loopVars, fileVars>>
      BY <1>19 DEF RunSucceeds, loopVars, callVars, localVars, cacheVars, fileVars
<1>20. CASE RunFails /\ UNCHANGED <<loopVars, fileVars>>
      BY <1>20 DEF RunFails, Invalidated, Discard, loopVars, callVars, localVars,
         cacheVars, fileVars
<1>21. CASE Measures /\ UNCHANGED <<loopVars, fileVars>>
      BY <1>21 DEF Measures, Post, loopVars, callVars, localVars, cacheVars, fileVars
<1>22. CASE Blames /\ UNCHANGED <<loopVars, fileVars>>
      BY <1>22 DEF Blames, FailureState, Raised, loopVars, callVars, localVars, cacheVars,
         fileVars
<1>23. CASE ClosesRuntime /\ UNCHANGED <<loopVars, fileVars>>
      BY <1>23 DEF ClosesRuntime, Finish, Discard, loopVars, callVars, localVars,
         cacheVars, fileVars
<1>24. CASE Ends /\ UNCHANGED <<loopVars, fileVars>>
      BY <1>24 DEF Ends, Post, loopVars, callVars, localVars, cacheVars, fileVars
<1>25. CASE FileStep
      BY <1>25 DEF FileStep, ReplaceLora, RemoveLora, loopVars, callVars, localVars,
         cacheVars
<1>26. CASE UNCHANGED vars
      BY <1>26 DEF vars, loopVars, callVars, localVars, cacheVars, fileVars
<1> QED BY <1>1, <1>2, <1>3, <1>4, <1>5, <1>6, <1>7, <1>8, <1>9, <1>10, <1>11, <1>12,
         <1>13, <1>14, <1>15, <1>16, <1>17, <1>18, <1>19, <1>20, <1>21, <1>22, <1>23,
         <1>24, <1>25, <1>26 DEF
         Next, CallStep, LoopStep, ThreadStep, Preparing, Running

\* Keys are read before what they stand for, and stay older.
LEMMA KeyShapeStep ==
  TypeOK /\ CallShape /\ RuntimeShape /\ KeyShape /\ [Next]_vars => KeyShape'
<1> SUFFICES ASSUME TypeOK, CallShape, RuntimeShape, KeyShape, [Next]_vars
             PROVE  KeyShape'
    OBVIOUS
<1> USE PipelineAssumption DEF TypeOK, LoopTypeOK, CacheTypeOK, CallShape, RuntimeShape,
         KeyShape, NoRuntime, Runtimes, Versions, Keys
<1>1. CASE Initialize /\ UNCHANGED <<cacheVars, fileVars>>
      <2>1. CASE Execute("initialize", Plain)
            BY <1>1, <2>1 DEF Execute, cacheVars, fileVars
      <2>2. CASE UNCHANGED <<closed, callVars, callbacks, thread, localVars>>
            BY <1>1, <2>2 DEF callVars, localVars, cacheVars, fileVars
      <2> QED BY <1>1, <2>1, <2>2 DEF Initialize
<1>2. CASE (\E s \in Selections : Generate(s)) /\ UNCHANGED <<cacheVars, fileVars>>
      BY <1>2 DEF Generate, Execute, Unreadable, cacheVars, fileVars
<1>3. CASE Close /\ UNCHANGED <<cacheVars, fileVars>>
      BY <1>3 DEF Close, StopSignalled, Execute, cacheVars, fileVars
<1>4. CASE Signals /\ UNCHANGED <<cacheVars, fileVars>>
      BY <1>4 DEF Signals, CancelJob, BeginShutdown, StopSignalled, Interrupt, Signal,
         localVars, cacheVars, fileVars
<1>5. CASE LoopStep /\ RunCallback
      BY <1>5 DEF LoopStep, RunCallback, localVars, cacheVars, fileVars
<1>6. CASE LoopStep /\ Resume
      BY <1>6 DEF LoopStep, Resume, MayResume, localVars, cacheVars, fileVars
<1>7. CASE Begins /\ UNCHANGED <<loopVars, fileVars>>
      BY <1>7 DEF Begins, Finish, Unreadable, loopVars, callVars, localVars, cacheVars,
         fileVars
<1>8. CASE Refuses /\ UNCHANGED <<loopVars, fileVars>>
      BY <1>8 DEF Refuses, Finish, Unreadable, loopVars, callVars, localVars, cacheVars,
         fileVars
<1>9. CASE Reuses /\ UNCHANGED <<loopVars, fileVars>>
      BY <1>9 DEF Reuses, Prepared, Unreadable, KeyOf, loopVars, callVars, localVars,
         cacheVars, fileVars
<1>10. CASE Replaces /\ UNCHANGED <<loopVars, fileVars>>
      BY <1>10 DEF Replaces, Forgetting, Unreadable, KeyOf, loopVars, callVars, localVars,
         cacheVars, fileVars
<1>11. CASE Evicts /\ UNCHANGED <<loopVars, fileVars>>
      BY <1>11 DEF Evicts, Discard, loopVars, callVars, localVars, cacheVars, fileVars
<1>12. CASE Builds /\ UNCHANGED <<loopVars, fileVars>>
      BY <1>12 DEF Builds, loopVars, callVars, localVars, cacheVars, fileVars
<1>13. CASE Loads /\ UNCHANGED <<loopVars, fileVars>>
      BY <1>13 DEF Loads, Unreadable, KeyOf, loopVars, callVars, localVars, cacheVars,
         fileVars
<1>14. CASE LoadFails /\ UNCHANGED <<loopVars, fileVars>>
      BY <1>14 DEF LoadFails, Discard, loopVars, callVars, localVars, cacheVars, fileVars
<1>15. CASE Keeps /\ UNCHANGED <<loopVars, fileVars>>
      BY <1>15 DEF Keeps, KeepRuntime, loopVars, callVars, localVars, cacheVars, fileVars
<1>16. CASE Announces /\ UNCHANGED <<loopVars, fileVars>>
      BY <1>16 DEF Announces, Prepared, loopVars, callVars, localVars, cacheVars, fileVars
<1>17. CASE Runs /\ UNCHANGED <<loopVars, fileVars>>
      BY <1>17 DEF Runs, loopVars, callVars, localVars, cacheVars, fileVars
<1>18. CASE (ChecksReport \/ PostsStage) /\ UNCHANGED <<loopVars, fileVars>>
      BY <1>18 DEF ChecksReport, PostsStage, Post, loopVars, callVars, localVars, cacheVars,
         fileVars
<1>19. CASE RunSucceeds /\ UNCHANGED <<loopVars, fileVars>>
      BY <1>19 DEF RunSucceeds, loopVars, callVars, localVars, cacheVars, fileVars
<1>20. CASE RunFails /\ UNCHANGED <<loopVars, fileVars>>
      BY <1>20 DEF RunFails, Invalidated, Discard, loopVars, callVars, localVars,
         cacheVars, fileVars
<1>21. CASE Measures /\ UNCHANGED <<loopVars, fileVars>>
      BY <1>21 DEF Measures, Post, loopVars, callVars, localVars, cacheVars, fileVars
<1>22. CASE Blames /\ UNCHANGED <<loopVars, fileVars>>
      BY <1>22 DEF Blames, FailureState, Raised, loopVars, callVars, localVars, cacheVars,
         fileVars
<1>23. CASE ClosesRuntime /\ UNCHANGED <<loopVars, fileVars>>
      BY <1>23 DEF ClosesRuntime, Finish, Discard, loopVars, callVars, localVars,
         cacheVars, fileVars
<1>24. CASE Ends /\ UNCHANGED <<loopVars, fileVars>>
      BY <1>24 DEF Ends, Post, loopVars, callVars, localVars, cacheVars, fileVars
<1>25. CASE FileStep
      BY <1>25 DEF FileStep, ReplaceLora, RemoveLora, loopVars, callVars, localVars,
         cacheVars
<1>26. CASE UNCHANGED vars
      BY <1>26 DEF vars, loopVars, callVars, localVars, cacheVars, fileVars
<1> QED BY <1>1, <1>2, <1>3, <1>4, <1>5, <1>6, <1>7, <1>8, <1>9, <1>10, <1>11, <1>12,
         <1>13, <1>14, <1>15, <1>16, <1>17, <1>18, <1>19, <1>20, <1>21, <1>22, <1>23,
         <1>24, <1>25, <1>26 DEF
         Next, CallStep, LoopStep, ThreadStep, Preparing, Running

\* The thread writes the status it owes before its call ends.
LEMMA StatusShapeStep ==
  CallShape /\ OpShape /\ RuntimeShape /\ StatusShape /\ [Next]_vars => StatusShape'
<1> SUFFICES ASSUME CallShape, OpShape, RuntimeShape, StatusShape, [Next]_vars
             PROVE  StatusShape'
    OBVIOUS
<1> USE DEF CallShape, OpShape, RuntimeShape, StatusShape, NoRuntime
<1>1. CASE Initialize /\ UNCHANGED <<cacheVars, fileVars>>
      BY <1>1 DEF Initialize, Execute, callVars, localVars, cacheVars, fileVars
<1>2. CASE (\E s \in Selections : Generate(s)) /\ UNCHANGED <<cacheVars, fileVars>>
      BY <1>2 DEF Generate, Execute, Unreadable, cacheVars, fileVars
<1>3. CASE Close /\ UNCHANGED <<cacheVars, fileVars>>
      BY <1>3 DEF Close, StopSignalled, Execute, cacheVars, fileVars
<1>4. CASE Signals /\ UNCHANGED <<cacheVars, fileVars>>
      BY <1>4 DEF Signals, CancelJob, BeginShutdown, StopSignalled, Interrupt, Signal,
         localVars, cacheVars, fileVars
<1>5. CASE LoopStep /\ RunCallback
      BY <1>5 DEF LoopStep, RunCallback, localVars, cacheVars, fileVars
<1>6. CASE LoopStep /\ Resume
      BY <1>6 DEF LoopStep, Resume, MayResume, localVars, cacheVars, fileVars
<1>7. CASE Begins /\ UNCHANGED <<loopVars, fileVars>>
      BY <1>7 DEF Begins, Finish, Unreadable, loopVars, callVars, localVars, cacheVars,
         fileVars
<1>8. CASE Refuses /\ UNCHANGED <<loopVars, fileVars>>
      BY <1>8 DEF Refuses, Finish, Unreadable, loopVars, callVars, localVars, cacheVars,
         fileVars
<1>9. CASE Reuses /\ UNCHANGED <<loopVars, fileVars>>
      BY <1>9 DEF Reuses, Prepared, Unreadable, KeyOf, loopVars, callVars, localVars,
         cacheVars, fileVars
<1>10. CASE Replaces /\ UNCHANGED <<loopVars, fileVars>>
      BY <1>10 DEF Replaces, Forgetting, Unreadable, KeyOf, loopVars, callVars, localVars,
         cacheVars, fileVars
<1>11. CASE Evicts /\ UNCHANGED <<loopVars, fileVars>>
      BY <1>11 DEF Evicts, Discard, loopVars, callVars, localVars, cacheVars, fileVars
<1>12. CASE Builds /\ UNCHANGED <<loopVars, fileVars>>
      BY <1>12 DEF Builds, loopVars, callVars, localVars, cacheVars, fileVars
<1>13. CASE Loads /\ UNCHANGED <<loopVars, fileVars>>
      BY <1>13 DEF Loads, Unreadable, KeyOf, loopVars, callVars, localVars, cacheVars,
         fileVars
<1>14. CASE LoadFails /\ UNCHANGED <<loopVars, fileVars>>
      BY <1>14 DEF LoadFails, Discard, loopVars, callVars, localVars, cacheVars, fileVars
<1>15. CASE Keeps /\ UNCHANGED <<loopVars, fileVars>>
      BY <1>15 DEF Keeps, KeepRuntime, loopVars, callVars, localVars, cacheVars, fileVars
<1>16. CASE Announces /\ UNCHANGED <<loopVars, fileVars>>
      BY <1>16 DEF Announces, Prepared, loopVars, callVars, localVars, cacheVars, fileVars
<1>17. CASE Runs /\ UNCHANGED <<loopVars, fileVars>>
      BY <1>17 DEF Runs, loopVars, callVars, localVars, cacheVars, fileVars
<1>18. CASE (ChecksReport \/ PostsStage) /\ UNCHANGED <<loopVars, fileVars>>
      BY <1>18 DEF ChecksReport, PostsStage, Post, loopVars, callVars, localVars, cacheVars,
         fileVars
<1>19. CASE RunSucceeds /\ UNCHANGED <<loopVars, fileVars>>
      BY <1>19 DEF RunSucceeds, loopVars, callVars, localVars, cacheVars, fileVars
<1>20. CASE RunFails /\ UNCHANGED <<loopVars, fileVars>>
      BY <1>20 DEF RunFails, Invalidated, Discard, loopVars, callVars, localVars,
         cacheVars, fileVars
<1>21. CASE Measures /\ UNCHANGED <<loopVars, fileVars>>
      BY <1>21 DEF Measures, Post, loopVars, callVars, localVars, cacheVars, fileVars
<1>22. CASE Blames /\ UNCHANGED <<loopVars, fileVars>>
      BY <1>22 DEF Blames, FailureState, Raised, loopVars, callVars, localVars, cacheVars,
         fileVars
<1>23. CASE ClosesRuntime /\ UNCHANGED <<loopVars, fileVars>>
      BY <1>23 DEF ClosesRuntime, Finish, Discard, loopVars, callVars, localVars,
         cacheVars, fileVars
<1>24. CASE Ends /\ UNCHANGED <<loopVars, fileVars>>
      BY <1>24 DEF Ends, Post, loopVars, callVars, localVars, cacheVars, fileVars
<1>25. CASE FileStep
      BY <1>25 DEF FileStep, ReplaceLora, RemoveLora, loopVars, callVars, localVars,
         cacheVars
<1>26. CASE UNCHANGED vars
      BY <1>26 DEF vars, loopVars, callVars, localVars, cacheVars, fileVars
<1> QED BY <1>1, <1>2, <1>3, <1>4, <1>5, <1>6, <1>7, <1>8, <1>9, <1>10, <1>11, <1>12,
         <1>13, <1>14, <1>15, <1>16, <1>17, <1>18, <1>19, <1>20, <1>21, <1>22, <1>23,
         <1>24, <1>25, <1>26 DEF
         Next, CallStep, LoopStep, ThreadStep, Preparing, Running

\* A manager just constructed, before its first call, satisfies the invariant.
LEMMA PipelineInit == Init => PipelineInv
<1> SUFFICES ASSUME Init PROVE PipelineInv
    OBVIOUS
<1> USE PipelineAssumption DEF Init
<1>1. LoopTypeOK
  <2>1. asked \in Versions /\ version \in Versions
        BY DEF Versions
  <2>2. calls \in 0..MaxCalls /\ heard \in Nat
        OBVIOUS
  <2>3. callbacks \in Seq({"stage", "metrics", "done"})
        OBVIOUS
  <2> QED BY <2>1, <2>2, <2>3 DEF LoopTypeOK
<1>2. ThreadTypeOK
      BY DEF ThreadTypeOK
<1>3. CacheTypeOK
      BY DEF CacheTypeOK, Runtimes, Keys, Versions, NoRuntime
<1>4. CallShape
      BY DEF CallShape
<1>5. OpShape
      BY DEF OpShape
<1>6. RuntimeShape /\ KeyShape /\ StatusShape
      BY DEF RuntimeShape, KeyShape, StatusShape, NoRuntime
<1> QED BY <1>1, <1>2, <1>3, <1>4, <1>5, <1>6 DEF PipelineInv, TypeOK

\* Every step of the loop, the thread or the operator keeps the invariant.
LEMMA PipelineStep == PipelineInv /\ [Next]_vars => PipelineInv'
BY LoopTypeStep, ThreadTypeStep, CacheTypeStep, CallShapeStep, OpShapeStep, RuntimeShapeStep,
   KeyShapeStep, StatusShapeStep DEF PipelineInv, TypeOK

\* The invariant the theorems below are read off.
THEOREM PipelineInvariance == Spec => []PipelineInv
BY PipelineInit, PipelineStep, PTL DEF Spec

-----------------------------------------------------------------------------
\* What the invariant says of the runtimes, of the files they were loaded from, of the
\* calls and of the status.
LEMMA SafeRuntimes == PipelineInv => RuntimeAccounted
BY DEF PipelineInv, RuntimeShape, OneRuntime, RuntimeAtRest, RuntimeAccounted

\* The runtime a generation runs on was loaded from the files as they were announced.
LEMMA SafeLoras == PipelineInv => LorasFresh
<1> SUFFICES ASSUME PipelineInv, thread \in {"runs", "posts"} PROVE LorasFresh
    BY DEF LorasFresh
<1>1. asked \in Nat /\ loaded[using][2] \in Nat
      BY PipelineAssumption
         DEF PipelineInv, TypeOK, LoopTypeOK, CacheTypeOK, RuntimeShape, Keys, Versions,
         Runtimes, NoRuntime
<1> QED BY <1>1 DEF PipelineInv, KeyShape, LorasFresh

\* A call is answered only after its work on the thread is over.
LEMMA SafeCalls == PipelineInv => ReturnsAfterWork
BY DEF PipelineInv, CallShape, ReturnsAfterWork

\* What status() answers agrees with what is cached.
LEMMA SafeStatus == PipelineInv => StatusHonest
BY DEF PipelineInv, CallShape, StatusShape, StatusHonest

\* Every variable keeps its type: the thread never touches a runtime it does not have.
THEOREM PipelineTypes == Spec => []TypeOK
<1>1. PipelineInv => TypeOK
      BY DEF PipelineInv
<1> QED BY <1>1, PipelineInvariance, PTL

\* At no time are two runtimes alive, and between two calls none but the cached one.
THEOREM SingleRuntime == Spec => []RuntimeAccounted
BY SafeRuntimes, PipelineInvariance, PTL

\* No generation runs on LoRA files older than its call, or on another selection.
THEOREM FreshLoras == Spec => []LorasFresh
BY SafeLoras, PipelineInvariance, PTL

\* Calls return only after their work, stages and metrics, whoever cancels whom.
THEOREM CallsReturnLast == Spec => []ReturnsAfterWork
BY SafeCalls, PipelineInvariance, PTL

\* Between two calls the status agrees with the cache, and a closed manager says so;
\* nothing but ServiceError comes out of initialize().
THEOREM HonestAnswers == Spec => []AnswersHonest
<1>1. PipelineInv => AnswersHonest
      BY SafeStatus DEF PipelineInv, OpShape, InitializeContained, AnswersHonest
<1> QED BY <1>1, PipelineInvariance, PTL

-----------------------------------------------------------------------------
BackendStep == [Backend!BackendNext]_(Backend!bvars)

\* What the thread does between taking a call and its end is invisible.
LEMMA Unseen ==
  ASSUME UNCHANGED loopVars, (thread' # "idle") <=> (thread # "idle")
  PROVE  BackendStep
BY DEF BackendStep, Backend!bvars, loopVars, callVars

\* The thread has a step for every call, and none without.
LEMMA WorkMaps ==
  ASSUME PipelineInv, ThreadStep
  PROVE  BackendStep
<1>1. UNCHANGED loopVars
      BY DEF ThreadStep
<1>2. CASE Ends
  <2>1. Backend!WorkStops
        BY <1>1, <1>2 DEF Backend!WorkStops, Ends, loopVars, callVars
  <2> QED BY <2>1 DEF BackendStep, Backend!BackendNext
<1>3. CASE Preparing
  <2>1. thread # "idle" /\ thread' # "idle"
        BY <1>3 DEF Preparing, Refuses, Reuses, Replaces, Evicts, Builds, Loads, LoadFails,
           Keeps, Announces, Finish, Prepared, Forgetting
  <2> QED BY <1>1, <2>1, Unseen
<1>4. CASE Running
  <2>1. thread # "idle" /\ thread' # "idle"
        BY <1>4 DEF Running, Runs, ChecksReport, PostsStage, RunSucceeds, RunFails, Measures
  <2> QED BY <1>1, <2>1, Unseen
<1>5. CASE Begins \/ Blames \/ ClosesRuntime
  <2>1. thread # "idle" /\ thread' # "idle"
        BY <1>5 DEF Begins, Blames, ClosesRuntime, Finish
  <2> QED BY <1>1, <2>1, Unseen
<1> QED BY <1>2, <1>3, <1>4, <1>5 DEF ThreadStep

\* A call begins with work to do, unless the manager is closed.
LEMMA InvokeMaps ==
  ASSUME PipelineInv, NEW o \in {"initialize", "generate", "close"}, NEW s, Execute(o, s),
         stop' \in {stop, TRUE}
  PROVE  BackendStep
<1>1. ~cancel /\ stop \in BOOLEAN
      BY DEF PipelineInv, CallShape, TypeOK, LoopTypeOK, Execute
<1>2. Backend!Invoke
      BY <1>1 DEF Backend!Invoke, Execute, PipelineInv, CallShape
<1> QED BY <1>2 DEF BackendStep, Backend!BackendNext

\* Calling the manager is a step of the abstract backend, or one it does not see.
LEMMA CallMaps ==
  ASSUME PipelineInv, CallStep
  PROVE  BackendStep
<1>1. CASE Initialize
  <2>1. CASE Execute("initialize", Plain)
        BY <1>1, <2>1, InvokeMaps DEF Initialize
  <2>2. CASE UNCHANGED <<closed, callVars, callbacks, thread, localVars>>
        BY <1>1, <2>2 DEF Initialize, callVars, BackendStep, Backend!bvars
  <2> QED BY <1>1, <2>1, <2>2 DEF Initialize
<1>2. CASE \E s \in Selections : Generate(s)
      BY <1>2, InvokeMaps DEF Generate
<1>3. CASE Close
      BY <1>3, InvokeMaps DEF Close, StopSignalled
<1>4. CASE Signals
  <2>1. UNCHANGED <<closed, op, heard, thread>>
        BY <1>4 DEF Signals
  <2>2. (stop' \/ cancel') = TRUE \/ UNCHANGED <<stop, cancel>>
        BY <1>4 DEF Signals, CancelJob, BeginShutdown, StopSignalled, Interrupt, Signal
  <2>3. CASE (stop' \/ cancel') = TRUE
    <3>1. Backend!Revoke
          BY <2>1, <2>3 DEF Backend!Revoke
    <3> QED BY <3>1 DEF BackendStep, Backend!BackendNext
  <2>4. CASE UNCHANGED <<stop, cancel>>
        BY <2>1, <2>4 DEF BackendStep, Backend!bvars
  <2> QED BY <2>2, <2>3, <2>4
<1> QED BY <1>1, <1>2, <1>3, <1>4 DEF CallStep

\* Stages are heard while the call is under way, and a call returns when nothing
\* works for it any more.
LEMMA LoopMaps ==
  ASSUME PipelineInv, LoopStep
  PROVE  BackendStep
<1>1. CASE RunCallback
  <2>1. UNCHANGED <<op, thread, stop, cancel, closed>>
        BY <1>1 DEF LoopStep, RunCallback
  <2>2. op # "none"
        BY <1>1 DEF RunCallback, PipelineInv, CallShape
  <2>3. CASE heard' = heard + 1
    <3>1. Backend!Hear
          BY <2>1, <2>2, <2>3 DEF Backend!Hear
    <3> QED BY <3>1 DEF BackendStep, Backend!BackendNext
  <2>4. CASE heard' = heard
        BY <2>1, <2>4 DEF BackendStep, Backend!bvars
  <2> QED BY <1>1, <2>3, <2>4 DEF RunCallback
<1>2. CASE Resume
  <2>1. UNCHANGED <<stop, thread>> /\ ~cancel' /\ stop \in BOOLEAN /\ cancel \in BOOLEAN
        BY <1>2 DEF LoopStep, Resume, PipelineInv, TypeOK, LoopTypeOK
  <2>2. thread = "idle" /\ op # "none" /\ op' = "none" /\ heard' = 0
        BY <1>2 DEF Resume, MayResume, PipelineInv, CallShape
  <2>3. closed' \in BOOLEAN /\ (closed' => stop)
        BY <1>2 DEF Resume, PipelineInv, OpShape
  <2>4. Backend!Return
        BY <2>1, <2>2, <2>3 DEF Backend!Return
  <2> QED BY <2>4 DEF BackendStep, Backend!BackendNext
<1> QED BY <1>1, <1>2 DEF LoopStep

\* The pipeline manager keeps the backend's contract: one call at a time, stages
\* within it, no return before the work has stopped, no work once closed.
THEOREM BackendRefinement == Spec => ImplementsBackend
<1>1. Init => Backend!BackendInit
      BY DEF Init, Backend!BackendInit
<1>2. PipelineInv /\ [Next]_vars => BackendStep
  <2> SUFFICES ASSUME PipelineInv, [Next]_vars PROVE BackendStep
      OBVIOUS
  <2>1. CASE FileStep \/ UNCHANGED vars
        BY <2>1 DEF FileStep, vars, loopVars, callVars, BackendStep, Backend!bvars
  <2> QED BY <2>1, CallMaps, LoopMaps, WorkMaps DEF Next
<1> QED BY <1>1, <1>2, PipelineInvariance, PTL
        DEF Spec, ImplementsBackend, Backend!BackendSafety, BackendStep
=============================================================================
