--------------------------- MODULE Runtime_proofs ---------------------------
(***************************************************************************)
(* Theorems about LTXRuntime, for any number of requests.                  *)
(*                                                                         *)
(* The invariant says what is on the GPU at every point of load() and      *)
(* generate() that no exception has left, and what of a request is there.  *)
(***************************************************************************)
EXTENDS LTXRuntime, TLAPS

\* The phase tells whose code the thread is in; an exception leaves it at once.
PositionShape ==
  /\ phase = "loading" <=> at \in Loading
  /\ phase = "busy" <=> at \in Generating \cup Unwinding
  /\ at \in Generating => ~failed
  /\ phase = "busy" => request \in Requests
  /\ at \in {"warms", "warmed", "heats"} => workflow = "distilled"

\* One model at a time, and up to the first exception the one that belongs there,
\* with flags that agree.
DeviceShape ==
  /\ \A m, n \in gpu : m = n
  /\ phase \in {"absent", "idle"} => gpu = {} /\ onGpu = {}
  /\ at \in {"loads", "warmed", "checks", "prompt", "encoder", "prompted", "decodes", "video",
            "decoded", "flushes"} \cup Preparing => gpu = {} /\ onGpu = {}
  /\ at = "warms" => gpu \subseteq {"encoder"} /\ onGpu = gpu
  /\ at = "heats" => gpu \subseteq {"transformer"} /\ onGpu = gpu
  /\ at = "encodes" => gpu = {"encoder"} /\ onGpu = gpu \cap Retained
  /\ at \in {"stage", "step"} => gpu = {"transformer"} /\ onGpu = gpu \cap Retained
  /\ at \in {"transformer", "staged", "room", "copies", "validates"} =>
       gpu \subseteq {"transformer"} /\ onGpu = gpu
  /\ at \in {"chunks", "chunk"} => gpu \subseteq {"decoder"} /\ onGpu = {}
  /\ at \in Unwinding /\ ~failed => gpu \subseteq {"transformer"} /\ onGpu = gpu

\* What a request has put into the runtime so far, and what is still to be cleared.
RequestShape ==
  /\ phase # "busy" =>
       /\ source = None /\ latent = None /\ context = None /\ iterator = None
       /\ scratch \subseteq stuck
  /\ at \in {"checks", "inputs", "listens", "touches"} => source = None /\ latent = None
  /\ at \in {"listens", "hears"} => kind = "audio"
  /\ at = "hears" => source = request
  /\ at = "touches" => kind = "normalized"
  /\ OwnConditioning
  /\ at \in {"unlinks", "parks"} =>
       source = None /\ latent = None /\ context = None /\ iterator = None
  /\ scratch \subseteq stuck \cup {owned}
  /\ at = "parks" => scratch \subseteq stuck
  /\ at \in {"checks", "inputs", "touches"} => owned = None
  /\ at \in Generating => context = request

\* How far the stages have come: one that is due is further, and due where report() is
\* called.
StageShape ==
  /\ at \in {"checks", "prompt", "encoder", "encodes", "prompted"} \cup Preparing => stage <= 1
  /\ at \in {"transformer", "stage", "step", "staged", "room", "decodes"} => stage <= 2
  /\ at \in {"video", "decoded", "chunks", "chunk", "flushes", "copies"} => stage <= 3
  /\ due # 0 =>
       /\ stage < due
       /\ at \in {"inputs", "prompt", "prompted", "staged", "decodes", "flushes", "copies"}
       /\ at = "inputs" => kind # "plain"

RuntimeInv == TypeOK /\ PositionShape /\ DeviceShape /\ RequestShape /\ StageShape

-----------------------------------------------------------------------------
\* The types, one part of the state at a time.
LEMMA ControlTypeStep ==
  ControlTypeOK /\ PositionShape /\ [Next]_vars => ControlTypeOK'
<1> SUFFICES ASSUME ControlTypeOK, PositionShape, [Next]_vars
             PROVE  ControlTypeOK'
    OBVIOUS
<1> USE RuntimeAssumption DEF ControlTypeOK, PositionShape, Loading, Generating, Preparing,
     Unwinding, loadVars, deviceVars, conditioningVars, requestVars, localVars, fileVars,
     stageVars
<1>1. ASSUME Constructs PROVE ControlTypeOK'
      BY <1>1 DEF Constructs
<1>2. ASSUME Generate PROVE ControlTypeOK'
  <2>1. phase' = "busy" /\ at' = "checks"
        BY <1>2 DEF Generate
  <2>2. failed' \in BOOLEAN /\ stop' \in BOOLEAN /\ cancel' \in BOOLEAN
        BY <1>2 DEF Generate
  <2>3. stage' \in 0..4 /\ due' \in 0..4
        BY <1>2 DEF Generate, StageReset
  <2> QED BY <2>1, <2>2, <2>3
<1>3. ASSUME Close PROVE ControlTypeOK'
      BY <1>3 DEF Close
<1>4. ASSUME LoadStep PROVE ControlTypeOK'
  <2>1. ASSUME WarmsEncoder,
               UNCHANGED <<loadVars, failed, stop, cancel, requestVars, localVars,
                 fileVars, stageVars>>
        PROVE  ControlTypeOK'
        BY <2>1 DEF WarmsEncoder, LoadModel
  <2>2. ASSUME ParksEncoder,
               UNCHANGED <<loadVars, failed, stop, cancel, requestVars, localVars,
                 fileVars, stageVars>>
        PROVE  ControlTypeOK'
        BY <2>2 DEF ParksEncoder, Park, Checked
  <2>3. ASSUME WarmsTransformer,
               UNCHANGED <<loadVars, failed, stop, cancel, requestVars, localVars,
                 fileVars, stageVars>>
        PROVE  ControlTypeOK'
        BY <2>3 DEF WarmsTransformer, LoadModel
  <2>4. ASSUME ParksTransformer,
               UNCHANGED <<loadVars, failed, stop, cancel, requestVars, localVars,
                 fileVars, stageVars>>
        PROVE  ControlTypeOK'
        BY <2>4 DEF ParksTransformer, Park, Loaded
  <2>5. ASSUME LoadsLazily,
               UNCHANGED <<loadVars, failed, stop, cancel, requestVars, localVars,
                 fileVars, stageVars>>
        PROVE  ControlTypeOK'
        BY <2>5 DEF LoadsLazily, Loaded
  <2>6. ASSUME LoadFails,
               UNCHANGED <<loadVars, failed, stop, cancel, requestVars, localVars,
                 fileVars, stageVars>>
        PROVE  ControlTypeOK'
        BY <2>6 DEF LoadFails, LoadRaises
  <2> QED BY <1>4, <2>1, <2>2, <2>3, <2>4, <2>5, <2>6 DEF LoadStep
<1>5. ASSUME GenerateStep PROVE ControlTypeOK'
  <2>1. ASSUME Begins,
               UNCHANGED <<phase, loadVars, failed, stop, cancel, requestVars>>
        PROVE  ControlTypeOK'
        BY <2>1 DEF Begins
  <2>2. ASSUME Reports,
               UNCHANGED <<phase, loadVars, failed, stop, cancel, requestVars>>
        PROVE  ControlTypeOK'
        BY <2>2 DEF Reports, Report, Looks, Posts, AfterInputs
  <2>3. ASSUME SkipsInputs,
               UNCHANGED <<phase, loadVars, failed, stop, cancel, requestVars>>
        PROVE  ControlTypeOK'
        BY <2>3 DEF SkipsInputs
  <2>4. ASSUME Listens,
               UNCHANGED <<phase, loadVars, failed, stop, cancel, requestVars>>
        PROVE  ControlTypeOK'
        BY <2>4 DEF Listens
  <2>5. ASSUME Hears,
               UNCHANGED <<phase, loadVars, failed, stop, cancel, requestVars>>
        PROVE  ControlTypeOK'
        BY <2>5 DEF Hears
  <2>6. ASSUME Normalizes,
               UNCHANGED <<phase, loadVars, failed, stop, cancel, requestVars>>
        PROVE  ControlTypeOK'
        BY <2>6 DEF Normalizes, Own
  <2>7. ASSUME EncodesPrompt,
               UNCHANGED <<phase, loadVars, failed, stop, cancel, requestVars>>
        PROVE  ControlTypeOK'
        BY <2>7 DEF EncodesPrompt, Enter, LoadModel
  <2>8. ASSUME EncodedPrompt,
               UNCHANGED <<phase, loadVars, failed, stop, cancel, requestVars>>
        PROVE  ControlTypeOK'
        BY <2>8 DEF EncodedPrompt, Park, Dispose
  <2>9. ASSUME EntersStage,
               UNCHANGED <<phase, loadVars, failed, stop, cancel, requestVars>>
        PROVE  ControlTypeOK'
        BY <2>9 DEF EntersStage, Enter, LoadModel
  <2>10. ASSUME Denoises,
               UNCHANGED <<phase, loadVars, failed, stop, cancel, requestVars>>
        PROVE  ControlTypeOK'
        BY <2>10 DEF Denoises
  <2>11. ASSUME LeavesStage,
               UNCHANGED <<phase, loadVars, failed, stop, cancel, requestVars>>
        PROVE  ControlTypeOK'
        BY <2>11 DEF LeavesStage, Dispose
  <2>12. ASSUME BeforeDecode,
               UNCHANGED <<phase, loadVars, failed, stop, cancel, requestVars>>
        PROVE  ControlTypeOK'
        BY <2>12 DEF BeforeDecode, MakeRoom, Park
  <2>13. ASSUME TakesVideo,
               UNCHANGED <<phase, loadVars, failed, stop, cancel, requestVars>>
        PROVE  ControlTypeOK'
        BY <2>13 DEF TakesVideo
  <2>14. ASSUME DecodesChunk,
               UNCHANGED <<phase, loadVars, failed, stop, cancel, requestVars>>
        PROVE  ControlTypeOK'
        BY <2>14 DEF DecodesChunk, Dispose
  <2>15. ASSUME KeepsVideo,
               UNCHANGED <<phase, loadVars, failed, stop, cancel, requestVars>>
        PROVE  ControlTypeOK'
        BY <2>15 DEF KeepsVideo
  <2> QED BY <1>5, <2>1, <2>2, <2>3, <2>4, <2>5, <2>6, <2>7, <2>8, <2>9, <2>10, <2>11,
     <2>12, <2>13, <2>14, <2>15 DEF GenerateStep, Producing
<1>6. ASSUME EndStep PROVE ControlTypeOK'
  <2>1. ASSUME Validates,
               at' = "unwinds", due' = 0,
               UNCHANGED <<phase, loadVars, stop, cancel, requestVars, localVars,
                 fileVars, stage>>
        PROVE  ControlTypeOK'
        BY <2>1 DEF Validates
  <2>2. ASSUME Raises,
               at' = "unwinds", due' = 0,
               UNCHANGED <<phase, loadVars, stop, cancel, requestVars, localVars,
                 fileVars, stage>>
        PROVE  ControlTypeOK'
        BY <2>2 DEF Raises, LoadRaises
  <2> QED BY <1>6, <2>1, <2>2 DEF EndStep
<1>7. ASSUME UnwindStep PROVE ControlTypeOK'
  <2>1. ASSUME ClosesIterator,
               UNCHANGED <<loadVars, stop, cancel, requestVars, stageVars>>
        PROVE  ControlTypeOK'
        BY <2>1 DEF ClosesIterator, Dispose
  <2>2. ASSUME Clears,
               UNCHANGED <<loadVars, stop, cancel, requestVars, stageVars>>
        PROVE  ControlTypeOK'
        BY <2>2 DEF Clears, ClearConditioning
  <2>3. ASSUME Unlinks,
               UNCHANGED <<loadVars, stop, cancel, requestVars, stageVars>>
        PROVE  ControlTypeOK'
        BY <2>3 DEF Unlinks
  <2>4. ASSUME Returns,
               UNCHANGED <<loadVars, stop, cancel, requestVars, stageVars>>
        PROVE  ControlTypeOK'
        BY <2>4 DEF Returns, Park
  <2>5. ASSUME Fails,
               UNCHANGED <<loadVars, stop, cancel, requestVars, stageVars>>
        PROVE  ControlTypeOK'
        BY <2>5 DEF Fails
  <2> QED BY <1>7, <2>1, <2>2, <2>3, <2>4, <2>5 DEF UnwindStep
<1>8. ASSUME EventStep PROVE ControlTypeOK'
      BY <1>8 DEF EventStep, CancelJob, BeginShutdown
<1>9. ASSUME UNCHANGED vars PROVE ControlTypeOK'
      BY <1>9 DEF vars
<1> QED BY <1>1, <1>2, <1>3, <1>4, <1>5, <1>6, <1>7, <1>8, <1>9 DEF Next, ThreadStep

\* What is loaded where.
LEMMA DeviceTypeStep ==
  DeviceTypeOK /\ DeviceShape /\ [Next]_vars => DeviceTypeOK'
<1> SUFFICES ASSUME DeviceTypeOK, DeviceShape, [Next]_vars
             PROVE  DeviceTypeOK'
    OBVIOUS
<1> USE RuntimeAssumption DEF DeviceTypeOK, Models, Workflows, Retained, loadVars,
     deviceVars, conditioningVars, requestVars, localVars, fileVars, stageVars
<1>1. ASSUME Constructs PROVE DeviceTypeOK'
      BY <1>1 DEF Constructs, DeviceShape
<1>2. ASSUME Generate PROVE DeviceTypeOK'
      BY <1>2 DEF Generate, StageReset
<1>3. ASSUME Close PROVE DeviceTypeOK'
      BY <1>3 DEF Close
<1>4. ASSUME LoadStep PROVE DeviceTypeOK'
  <2>1. ASSUME WarmsEncoder,
               UNCHANGED <<loadVars, failed, stop, cancel, requestVars, localVars,
                 fileVars, stageVars>>
        PROVE  DeviceTypeOK'
        BY <2>1 DEF WarmsEncoder, LoadModel
  <2>2. ASSUME ParksEncoder,
               UNCHANGED <<loadVars, failed, stop, cancel, requestVars, localVars,
                 fileVars, stageVars>>
        PROVE  DeviceTypeOK'
        BY <2>2 DEF ParksEncoder, Park, Checked
  <2>3. ASSUME WarmsTransformer,
               UNCHANGED <<loadVars, failed, stop, cancel, requestVars, localVars,
                 fileVars, stageVars>>
        PROVE  DeviceTypeOK'
        BY <2>3 DEF WarmsTransformer, LoadModel
  <2>4. ASSUME ParksTransformer,
               UNCHANGED <<loadVars, failed, stop, cancel, requestVars, localVars,
                 fileVars, stageVars>>
        PROVE  DeviceTypeOK'
        BY <2>4 DEF ParksTransformer, Park, Loaded
  <2>5. ASSUME LoadsLazily,
               UNCHANGED <<loadVars, failed, stop, cancel, requestVars, localVars,
                 fileVars, stageVars>>
        PROVE  DeviceTypeOK'
        BY <2>5 DEF LoadsLazily, Loaded
  <2>6. ASSUME LoadFails,
               UNCHANGED <<loadVars, failed, stop, cancel, requestVars, localVars,
                 fileVars, stageVars>>
        PROVE  DeviceTypeOK'
        BY <2>6 DEF LoadFails, LoadRaises
  <2> QED BY <1>4, <2>1, <2>2, <2>3, <2>4, <2>5, <2>6 DEF LoadStep
<1>5. ASSUME GenerateStep PROVE DeviceTypeOK'
  <2>1. ASSUME Begins,
               UNCHANGED <<phase, loadVars, failed, stop, cancel, requestVars>>
        PROVE  DeviceTypeOK'
        BY <2>1 DEF Begins
  <2>2. ASSUME Reports,
               UNCHANGED <<phase, loadVars, failed, stop, cancel, requestVars>>
        PROVE  DeviceTypeOK'
        BY <2>2 DEF Reports, Report, Looks, Posts, AfterInputs
  <2>3. ASSUME SkipsInputs,
               UNCHANGED <<phase, loadVars, failed, stop, cancel, requestVars>>
        PROVE  DeviceTypeOK'
        BY <2>3 DEF SkipsInputs
  <2>4. ASSUME Listens,
               UNCHANGED <<phase, loadVars, failed, stop, cancel, requestVars>>
        PROVE  DeviceTypeOK'
        BY <2>4 DEF Listens
  <2>5. ASSUME Hears,
               UNCHANGED <<phase, loadVars, failed, stop, cancel, requestVars>>
        PROVE  DeviceTypeOK'
        BY <2>5 DEF Hears
  <2>6. ASSUME Normalizes,
               UNCHANGED <<phase, loadVars, failed, stop, cancel, requestVars>>
        PROVE  DeviceTypeOK'
        BY <2>6 DEF Normalizes, Own
  <2>7. ASSUME EncodesPrompt,
               UNCHANGED <<phase, loadVars, failed, stop, cancel, requestVars>>
        PROVE  DeviceTypeOK'
        BY <2>7 DEF EncodesPrompt, Enter, LoadModel
  <2>8. ASSUME EncodedPrompt,
               UNCHANGED <<phase, loadVars, failed, stop, cancel, requestVars>>
        PROVE  DeviceTypeOK'
        BY <2>8 DEF EncodedPrompt, Park, Dispose
  <2>9. ASSUME EntersStage,
               UNCHANGED <<phase, loadVars, failed, stop, cancel, requestVars>>
        PROVE  DeviceTypeOK'
        BY <2>9 DEF EntersStage, Enter, LoadModel
  <2>10. ASSUME Denoises,
               UNCHANGED <<phase, loadVars, failed, stop, cancel, requestVars>>
        PROVE  DeviceTypeOK'
        BY <2>10 DEF Denoises
  <2>11. ASSUME LeavesStage,
               UNCHANGED <<phase, loadVars, failed, stop, cancel, requestVars>>
        PROVE  DeviceTypeOK'
        BY <2>11 DEF LeavesStage, Dispose
  <2>12. ASSUME BeforeDecode,
               UNCHANGED <<phase, loadVars, failed, stop, cancel, requestVars>>
        PROVE  DeviceTypeOK'
        BY <2>12 DEF BeforeDecode, MakeRoom, Park
  <2>13. ASSUME TakesVideo,
               UNCHANGED <<phase, loadVars, failed, stop, cancel, requestVars>>
        PROVE  DeviceTypeOK'
        BY <2>13 DEF TakesVideo
  <2>14. ASSUME DecodesChunk,
               UNCHANGED <<phase, loadVars, failed, stop, cancel, requestVars>>
        PROVE  DeviceTypeOK'
        BY <2>14 DEF DecodesChunk, Dispose
  <2>15. ASSUME KeepsVideo,
               UNCHANGED <<phase, loadVars, failed, stop, cancel, requestVars>>
        PROVE  DeviceTypeOK'
        BY <2>15 DEF KeepsVideo
  <2> QED BY <1>5, <2>1, <2>2, <2>3, <2>4, <2>5, <2>6, <2>7, <2>8, <2>9, <2>10, <2>11,
     <2>12, <2>13, <2>14, <2>15 DEF GenerateStep, Producing
<1>6. ASSUME EndStep PROVE DeviceTypeOK'
  <2>1. ASSUME Validates,
               at' = "unwinds", due' = 0,
               UNCHANGED <<phase, loadVars, stop, cancel, requestVars, localVars,
                 fileVars, stage>>
        PROVE  DeviceTypeOK'
        BY <2>1 DEF Validates
  <2>2. ASSUME Raises,
               at' = "unwinds", due' = 0,
               UNCHANGED <<phase, loadVars, stop, cancel, requestVars, localVars,
                 fileVars, stage>>
        PROVE  DeviceTypeOK'
        BY <2>2 DEF Raises, LoadRaises
  <2> QED BY <1>6, <2>1, <2>2 DEF EndStep
<1>7. ASSUME UnwindStep PROVE DeviceTypeOK'
  <2>1. ASSUME ClosesIterator,
               UNCHANGED <<loadVars, stop, cancel, requestVars, stageVars>>
        PROVE  DeviceTypeOK'
        BY <2>1 DEF ClosesIterator, Dispose
  <2>2. ASSUME Clears,
               UNCHANGED <<loadVars, stop, cancel, requestVars, stageVars>>
        PROVE  DeviceTypeOK'
        BY <2>2 DEF Clears, ClearConditioning
  <2>3. ASSUME Unlinks,
               UNCHANGED <<loadVars, stop, cancel, requestVars, stageVars>>
        PROVE  DeviceTypeOK'
        BY <2>3 DEF Unlinks
  <2>4. ASSUME Returns,
               UNCHANGED <<loadVars, stop, cancel, requestVars, stageVars>>
        PROVE  DeviceTypeOK'
        BY <2>4 DEF Returns, Park
  <2>5. ASSUME Fails,
               UNCHANGED <<loadVars, stop, cancel, requestVars, stageVars>>
        PROVE  DeviceTypeOK'
        BY <2>5 DEF Fails
  <2> QED BY <1>7, <2>1, <2>2, <2>3, <2>4, <2>5 DEF UnwindStep
<1>8. ASSUME EventStep PROVE DeviceTypeOK'
      BY <1>8 DEF EventStep, CancelJob, BeginShutdown
<1>9. ASSUME UNCHANGED vars PROVE DeviceTypeOK'
      BY <1>9 DEF vars
<1> QED BY <1>1, <1>2, <1>3, <1>4, <1>5, <1>6, <1>7, <1>8, <1>9 DEF Next, ThreadStep

\* What belongs to which request.
LEMMA RequestTypeStep ==
  RequestTypeOK /\ DeviceTypeOK /\ PositionShape /\ [Next]_vars => RequestTypeOK'
<1> SUFFICES ASSUME RequestTypeOK, DeviceTypeOK, PositionShape, [Next]_vars
             PROVE  RequestTypeOK'
    OBVIOUS
<1> USE RuntimeAssumption DEF RequestTypeOK, PositionShape, None, Requests, Workflows,
     Kinds, Loading, Generating, Preparing, Unwinding, loadVars, deviceVars, conditioningVars,
     requestVars, localVars, fileVars, stageVars
<1>1. ASSUME Constructs PROVE RequestTypeOK'
      BY <1>1 DEF Constructs
<1>2. ASSUME Generate PROVE RequestTypeOK'
  <2>1. /\ request' \in 0..MaxRequests
        /\ context' \in 0..MaxRequests
        /\ owned' \in 0..MaxRequests
        BY <1>2 DEF Generate
  <2>2. kind' \in {"plain", "audio", "reference", "retake", "normalized"}
        BY <1>2 DEF Generate, DeviceTypeOK
  <2>3. UNCHANGED <<source, latent, iterator, scratch, stuck>>
        BY <1>2 DEF Generate
  <2> QED BY <2>1, <2>2, <2>3
<1>3. ASSUME Close PROVE RequestTypeOK'
      BY <1>3 DEF Close
<1>4. ASSUME LoadStep PROVE RequestTypeOK'
  <2>1. ASSUME WarmsEncoder,
               UNCHANGED <<loadVars, failed, stop, cancel, requestVars, localVars,
                 fileVars, stageVars>>
        PROVE  RequestTypeOK'
        BY <2>1 DEF WarmsEncoder, LoadModel
  <2>2. ASSUME ParksEncoder,
               UNCHANGED <<loadVars, failed, stop, cancel, requestVars, localVars,
                 fileVars, stageVars>>
        PROVE  RequestTypeOK'
        BY <2>2 DEF ParksEncoder, Park, Checked
  <2>3. ASSUME WarmsTransformer,
               UNCHANGED <<loadVars, failed, stop, cancel, requestVars, localVars,
                 fileVars, stageVars>>
        PROVE  RequestTypeOK'
        BY <2>3 DEF WarmsTransformer, LoadModel
  <2>4. ASSUME ParksTransformer,
               UNCHANGED <<loadVars, failed, stop, cancel, requestVars, localVars,
                 fileVars, stageVars>>
        PROVE  RequestTypeOK'
        BY <2>4 DEF ParksTransformer, Park, Loaded
  <2>5. ASSUME LoadsLazily,
               UNCHANGED <<loadVars, failed, stop, cancel, requestVars, localVars,
                 fileVars, stageVars>>
        PROVE  RequestTypeOK'
        BY <2>5 DEF LoadsLazily, Loaded
  <2>6. ASSUME LoadFails,
               UNCHANGED <<loadVars, failed, stop, cancel, requestVars, localVars,
                 fileVars, stageVars>>
        PROVE  RequestTypeOK'
        BY <2>6 DEF LoadFails, LoadRaises
  <2> QED BY <1>4, <2>1, <2>2, <2>3, <2>4, <2>5, <2>6 DEF LoadStep
<1>5. ASSUME GenerateStep PROVE RequestTypeOK'
  <2>1. ASSUME Begins,
               UNCHANGED <<phase, loadVars, failed, stop, cancel, requestVars>>
        PROVE  RequestTypeOK'
        BY <2>1 DEF Begins
  <2>2. ASSUME Reports,
               UNCHANGED <<phase, loadVars, failed, stop, cancel, requestVars>>
        PROVE  RequestTypeOK'
        BY <2>2 DEF Reports, Report, Looks, Posts, AfterInputs
  <2>3. ASSUME SkipsInputs,
               UNCHANGED <<phase, loadVars, failed, stop, cancel, requestVars>>
        PROVE  RequestTypeOK'
        BY <2>3 DEF SkipsInputs
  <2>4. ASSUME Listens,
               UNCHANGED <<phase, loadVars, failed, stop, cancel, requestVars>>
        PROVE  RequestTypeOK'
        BY <2>4 DEF Listens
  <2>5. ASSUME Hears,
               UNCHANGED <<phase, loadVars, failed, stop, cancel, requestVars>>
        PROVE  RequestTypeOK'
        BY <2>5 DEF Hears
  <2>6. ASSUME Normalizes,
               UNCHANGED <<phase, loadVars, failed, stop, cancel, requestVars>>
        PROVE  RequestTypeOK'
        BY <2>6 DEF Normalizes, Own
  <2>7. ASSUME EncodesPrompt,
               UNCHANGED <<phase, loadVars, failed, stop, cancel, requestVars>>
        PROVE  RequestTypeOK'
        BY <2>7 DEF EncodesPrompt, Enter, LoadModel
  <2>8. ASSUME EncodedPrompt,
               UNCHANGED <<phase, loadVars, failed, stop, cancel, requestVars>>
        PROVE  RequestTypeOK'
        BY <2>8 DEF EncodedPrompt, Park, Dispose
  <2>9. ASSUME EntersStage,
               UNCHANGED <<phase, loadVars, failed, stop, cancel, requestVars>>
        PROVE  RequestTypeOK'
        BY <2>9 DEF EntersStage, Enter, LoadModel
  <2>10. ASSUME Denoises,
               UNCHANGED <<phase, loadVars, failed, stop, cancel, requestVars>>
        PROVE  RequestTypeOK'
        BY <2>10 DEF Denoises
  <2>11. ASSUME LeavesStage,
               UNCHANGED <<phase, loadVars, failed, stop, cancel, requestVars>>
        PROVE  RequestTypeOK'
        BY <2>11 DEF LeavesStage, Dispose
  <2>12. ASSUME BeforeDecode,
               UNCHANGED <<phase, loadVars, failed, stop, cancel, requestVars>>
        PROVE  RequestTypeOK'
        BY <2>12 DEF BeforeDecode, MakeRoom, Park
  <2>13. ASSUME TakesVideo,
               UNCHANGED <<phase, loadVars, failed, stop, cancel, requestVars>>
        PROVE  RequestTypeOK'
        BY <2>13 DEF TakesVideo
  <2>14. ASSUME DecodesChunk,
               UNCHANGED <<phase, loadVars, failed, stop, cancel, requestVars>>
        PROVE  RequestTypeOK'
        BY <2>14 DEF DecodesChunk, Dispose
  <2>15. ASSUME KeepsVideo,
               UNCHANGED <<phase, loadVars, failed, stop, cancel, requestVars>>
        PROVE  RequestTypeOK'
        BY <2>15 DEF KeepsVideo
  <2> QED BY <1>5, <2>1, <2>2, <2>3, <2>4, <2>5, <2>6, <2>7, <2>8, <2>9, <2>10, <2>11,
     <2>12, <2>13, <2>14, <2>15 DEF GenerateStep, Producing
<1>6. ASSUME EndStep PROVE RequestTypeOK'
  <2>1. ASSUME Validates,
               at' = "unwinds", due' = 0,
               UNCHANGED <<phase, loadVars, stop, cancel, requestVars, localVars,
                 fileVars, stage>>
        PROVE  RequestTypeOK'
        BY <2>1 DEF Validates
  <2>2. ASSUME Raises,
               at' = "unwinds", due' = 0,
               UNCHANGED <<phase, loadVars, stop, cancel, requestVars, localVars,
                 fileVars, stage>>
        PROVE  RequestTypeOK'
        BY <2>2 DEF Raises, LoadRaises
  <2> QED BY <1>6, <2>1, <2>2 DEF EndStep
<1>7. ASSUME UnwindStep PROVE RequestTypeOK'
  <2>1. ASSUME ClosesIterator,
               UNCHANGED <<loadVars, stop, cancel, requestVars, stageVars>>
        PROVE  RequestTypeOK'
        BY <2>1 DEF ClosesIterator, Dispose
  <2>2. ASSUME Clears,
               UNCHANGED <<loadVars, stop, cancel, requestVars, stageVars>>
        PROVE  RequestTypeOK'
        BY <2>2 DEF Clears, ClearConditioning
  <2>3. ASSUME Unlinks,
               UNCHANGED <<loadVars, stop, cancel, requestVars, stageVars>>
        PROVE  RequestTypeOK'
    <3>1. scratch' \subseteq Requests
          BY <2>3 DEF Unlinks
    <3>2. owned # None => owned \in Requests
          OBVIOUS
    <3>3. stuck' \in {stuck, stuck \cup {owned}} /\ (stuck' # stuck => owned # None)
          BY <2>3 DEF Unlinks
    <3>4. stuck' \subseteq Requests
          BY <3>2, <3>3
    <3>5. UNCHANGED <<request, kind, source, latent, context, iterator, owned>>
          BY <2>3 DEF Unlinks
    <3> QED BY <3>1, <3>4, <3>5
  <2>4. ASSUME Returns,
               UNCHANGED <<loadVars, stop, cancel, requestVars, stageVars>>
        PROVE  RequestTypeOK'
        BY <2>4 DEF Returns, Park
  <2>5. ASSUME Fails,
               UNCHANGED <<loadVars, stop, cancel, requestVars, stageVars>>
        PROVE  RequestTypeOK'
        BY <2>5 DEF Fails
  <2> QED BY <1>7, <2>1, <2>2, <2>3, <2>4, <2>5 DEF UnwindStep
<1>8. ASSUME EventStep PROVE RequestTypeOK'
      BY <1>8 DEF EventStep, CancelJob, BeginShutdown
<1>9. ASSUME UNCHANGED vars PROVE RequestTypeOK'
      BY <1>9 DEF vars
<1> QED BY <1>1, <1>2, <1>3, <1>4, <1>5, <1>6, <1>7, <1>8, <1>9 DEF Next, ThreadStep

\* The thread moves within the code of one phase.
LEMMA PositionStep ==
  TypeOK /\ PositionShape /\ [Next]_vars => PositionShape'
<1> SUFFICES ASSUME TypeOK, PositionShape, [Next]_vars
             PROVE  PositionShape'
    OBVIOUS
<1> USE RuntimeAssumption DEF PositionShape, TypeOK, ControlTypeOK, DeviceTypeOK,
     RequestTypeOK, Requests, Loading, Generating, Preparing, Unwinding, loadVars, deviceVars,
     conditioningVars, requestVars, localVars, fileVars, stageVars
<1>1. ASSUME Constructs PROVE PositionShape'
      BY <1>1 DEF Constructs
<1>2. ASSUME Generate PROVE PositionShape'
      BY <1>2 DEF Generate, StageReset
<1>3. ASSUME Close PROVE PositionShape'
      BY <1>3 DEF Close
<1>4. ASSUME LoadStep PROVE PositionShape'
  <2>1. ASSUME WarmsEncoder,
               UNCHANGED <<loadVars, failed, stop, cancel, requestVars, localVars,
                 fileVars, stageVars>>
        PROVE  PositionShape'
        BY <2>1 DEF WarmsEncoder, LoadModel
  <2>2. ASSUME ParksEncoder,
               UNCHANGED <<loadVars, failed, stop, cancel, requestVars, localVars,
                 fileVars, stageVars>>
        PROVE  PositionShape'
        BY <2>2 DEF ParksEncoder, Park, Checked
  <2>3. ASSUME WarmsTransformer,
               UNCHANGED <<loadVars, failed, stop, cancel, requestVars, localVars,
                 fileVars, stageVars>>
        PROVE  PositionShape'
        BY <2>3 DEF WarmsTransformer, LoadModel
  <2>4. ASSUME ParksTransformer,
               UNCHANGED <<loadVars, failed, stop, cancel, requestVars, localVars,
                 fileVars, stageVars>>
        PROVE  PositionShape'
        BY <2>4 DEF ParksTransformer, Park, Loaded
  <2>5. ASSUME LoadsLazily,
               UNCHANGED <<loadVars, failed, stop, cancel, requestVars, localVars,
                 fileVars, stageVars>>
        PROVE  PositionShape'
        BY <2>5 DEF LoadsLazily, Loaded
  <2>6. ASSUME LoadFails,
               UNCHANGED <<loadVars, failed, stop, cancel, requestVars, localVars,
                 fileVars, stageVars>>
        PROVE  PositionShape'
        BY <2>6 DEF LoadFails, LoadRaises
  <2> QED BY <1>4, <2>1, <2>2, <2>3, <2>4, <2>5, <2>6 DEF LoadStep
<1>5. ASSUME GenerateStep PROVE PositionShape'
  <2>1. ASSUME Begins,
               UNCHANGED <<phase, loadVars, failed, stop, cancel, requestVars>>
        PROVE  PositionShape'
        BY <2>1 DEF Begins
  <2>2. ASSUME Reports,
               UNCHANGED <<phase, loadVars, failed, stop, cancel, requestVars>>
        PROVE  PositionShape'
        BY <2>2 DEF Reports, Report, Looks, Posts, AfterInputs
  <2>3. ASSUME SkipsInputs,
               UNCHANGED <<phase, loadVars, failed, stop, cancel, requestVars>>
        PROVE  PositionShape'
        BY <2>3 DEF SkipsInputs
  <2>4. ASSUME Listens,
               UNCHANGED <<phase, loadVars, failed, stop, cancel, requestVars>>
        PROVE  PositionShape'
        BY <2>4 DEF Listens
  <2>5. ASSUME Hears,
               UNCHANGED <<phase, loadVars, failed, stop, cancel, requestVars>>
        PROVE  PositionShape'
        BY <2>5 DEF Hears
  <2>6. ASSUME Normalizes,
               UNCHANGED <<phase, loadVars, failed, stop, cancel, requestVars>>
        PROVE  PositionShape'
        BY <2>6 DEF Normalizes, Own
  <2>7. ASSUME EncodesPrompt,
               UNCHANGED <<phase, loadVars, failed, stop, cancel, requestVars>>
        PROVE  PositionShape'
        BY <2>7 DEF EncodesPrompt, Enter, LoadModel
  <2>8. ASSUME EncodedPrompt,
               UNCHANGED <<phase, loadVars, failed, stop, cancel, requestVars>>
        PROVE  PositionShape'
        BY <2>8 DEF EncodedPrompt, Park, Dispose
  <2>9. ASSUME EntersStage,
               UNCHANGED <<phase, loadVars, failed, stop, cancel, requestVars>>
        PROVE  PositionShape'
        BY <2>9 DEF EntersStage, Enter, LoadModel
  <2>10. ASSUME Denoises,
               UNCHANGED <<phase, loadVars, failed, stop, cancel, requestVars>>
        PROVE  PositionShape'
        BY <2>10 DEF Denoises
  <2>11. ASSUME LeavesStage,
               UNCHANGED <<phase, loadVars, failed, stop, cancel, requestVars>>
        PROVE  PositionShape'
        BY <2>11 DEF LeavesStage, Dispose
  <2>12. ASSUME BeforeDecode,
               UNCHANGED <<phase, loadVars, failed, stop, cancel, requestVars>>
        PROVE  PositionShape'
        BY <2>12 DEF BeforeDecode, MakeRoom, Park
  <2>13. ASSUME TakesVideo,
               UNCHANGED <<phase, loadVars, failed, stop, cancel, requestVars>>
        PROVE  PositionShape'
        BY <2>13 DEF TakesVideo
  <2>14. ASSUME DecodesChunk,
               UNCHANGED <<phase, loadVars, failed, stop, cancel, requestVars>>
        PROVE  PositionShape'
        BY <2>14 DEF DecodesChunk, Dispose
  <2>15. ASSUME KeepsVideo,
               UNCHANGED <<phase, loadVars, failed, stop, cancel, requestVars>>
        PROVE  PositionShape'
        BY <2>15 DEF KeepsVideo
  <2> QED BY <1>5, <2>1, <2>2, <2>3, <2>4, <2>5, <2>6, <2>7, <2>8, <2>9, <2>10, <2>11,
     <2>12, <2>13, <2>14, <2>15 DEF GenerateStep, Producing
<1>6. ASSUME EndStep PROVE PositionShape'
  <2>1. ASSUME Validates,
               at' = "unwinds", due' = 0,
               UNCHANGED <<phase, loadVars, stop, cancel, requestVars, localVars,
                 fileVars, stage>>
        PROVE  PositionShape'
        BY <2>1 DEF Validates
  <2>2. ASSUME Raises,
               at' = "unwinds", due' = 0,
               UNCHANGED <<phase, loadVars, stop, cancel, requestVars, localVars,
                 fileVars, stage>>
        PROVE  PositionShape'
        BY <2>2 DEF Raises, LoadRaises
  <2> QED BY <1>6, <2>1, <2>2 DEF EndStep
<1>7. ASSUME UnwindStep PROVE PositionShape'
  <2>1. ASSUME ClosesIterator,
               UNCHANGED <<loadVars, stop, cancel, requestVars, stageVars>>
        PROVE  PositionShape'
        BY <2>1 DEF ClosesIterator, Dispose
  <2>2. ASSUME Clears,
               UNCHANGED <<loadVars, stop, cancel, requestVars, stageVars>>
        PROVE  PositionShape'
        BY <2>2 DEF Clears, ClearConditioning
  <2>3. ASSUME Unlinks,
               UNCHANGED <<loadVars, stop, cancel, requestVars, stageVars>>
        PROVE  PositionShape'
        BY <2>3 DEF Unlinks
  <2>4. ASSUME Returns,
               UNCHANGED <<loadVars, stop, cancel, requestVars, stageVars>>
        PROVE  PositionShape'
        BY <2>4 DEF Returns, Park
  <2>5. ASSUME Fails,
               UNCHANGED <<loadVars, stop, cancel, requestVars, stageVars>>
        PROVE  PositionShape'
        BY <2>5 DEF Fails
  <2> QED BY <1>7, <2>1, <2>2, <2>3, <2>4, <2>5 DEF UnwindStep
<1>8. ASSUME EventStep PROVE PositionShape'
      BY <1>8 DEF EventStep, CancelJob, BeginShutdown
<1>9. ASSUME UNCHANGED vars PROVE PositionShape'
      BY <1>9 DEF vars
<1> QED BY <1>1, <1>2, <1>3, <1>4, <1>5, <1>6, <1>7, <1>8, <1>9 DEF Next, ThreadStep

\* Each call finds the GPU as it needs it and leaves it as the next one needs it.
LEMMA DeviceStep ==
  TypeOK /\ PositionShape /\ DeviceShape /\ [Next]_vars => DeviceShape'
<1> SUFFICES ASSUME TypeOK, PositionShape, DeviceShape, [Next]_vars
             PROVE  DeviceShape'
    OBVIOUS
<1> USE RuntimeAssumption DEF PositionShape, DeviceShape, TypeOK, ControlTypeOK,
     DeviceTypeOK, RequestTypeOK, Retained, Models, Loading, Generating, Preparing, Unwinding,
     loadVars, deviceVars, conditioningVars, requestVars, localVars, fileVars, stageVars
<1>1. ASSUME Constructs PROVE DeviceShape'
      BY <1>1 DEF Constructs
<1>2. ASSUME Generate PROVE DeviceShape'
      BY <1>2 DEF Generate, StageReset
<1>3. ASSUME Close PROVE DeviceShape'
      BY <1>3 DEF Close
<1>4. ASSUME LoadStep PROVE DeviceShape'
  <2>1. ASSUME WarmsEncoder,
               UNCHANGED <<loadVars, failed, stop, cancel, requestVars, localVars,
                 fileVars, stageVars>>
        PROVE  DeviceShape'
        BY <2>1 DEF WarmsEncoder, LoadModel
  <2>2. ASSUME ParksEncoder,
               UNCHANGED <<loadVars, failed, stop, cancel, requestVars, localVars,
                 fileVars, stageVars>>
        PROVE  DeviceShape'
        BY <2>2 DEF ParksEncoder, Park, Checked
  <2>3. ASSUME WarmsTransformer,
               UNCHANGED <<loadVars, failed, stop, cancel, requestVars, localVars,
                 fileVars, stageVars>>
        PROVE  DeviceShape'
        BY <2>3 DEF WarmsTransformer, LoadModel
  <2>4. ASSUME ParksTransformer,
               UNCHANGED <<loadVars, failed, stop, cancel, requestVars, localVars,
                 fileVars, stageVars>>
        PROVE  DeviceShape'
        BY <2>4 DEF ParksTransformer, Park, Loaded
  <2>5. ASSUME LoadsLazily,
               UNCHANGED <<loadVars, failed, stop, cancel, requestVars, localVars,
                 fileVars, stageVars>>
        PROVE  DeviceShape'
        BY <2>5 DEF LoadsLazily, Loaded
  <2>6. ASSUME LoadFails,
               UNCHANGED <<loadVars, failed, stop, cancel, requestVars, localVars,
                 fileVars, stageVars>>
        PROVE  DeviceShape'
        BY <2>6 DEF LoadFails, LoadRaises
  <2> QED BY <1>4, <2>1, <2>2, <2>3, <2>4, <2>5, <2>6 DEF LoadStep
<1>5. ASSUME GenerateStep PROVE DeviceShape'
  <2>1. ASSUME Begins,
               UNCHANGED <<phase, loadVars, failed, stop, cancel, requestVars>>
        PROVE  DeviceShape'
        BY <2>1 DEF Begins
  <2>2. ASSUME Reports,
               UNCHANGED <<phase, loadVars, failed, stop, cancel, requestVars>>
        PROVE  DeviceShape'
        BY <2>2 DEF Reports, Report, Looks, Posts, AfterInputs
  <2>3. ASSUME SkipsInputs,
               UNCHANGED <<phase, loadVars, failed, stop, cancel, requestVars>>
        PROVE  DeviceShape'
        BY <2>3 DEF SkipsInputs
  <2>4. ASSUME Listens,
               UNCHANGED <<phase, loadVars, failed, stop, cancel, requestVars>>
        PROVE  DeviceShape'
        BY <2>4 DEF Listens
  <2>5. ASSUME Hears,
               UNCHANGED <<phase, loadVars, failed, stop, cancel, requestVars>>
        PROVE  DeviceShape'
        BY <2>5 DEF Hears
  <2>6. ASSUME Normalizes,
               UNCHANGED <<phase, loadVars, failed, stop, cancel, requestVars>>
        PROVE  DeviceShape'
        BY <2>6 DEF Normalizes, Own
  <2>7. ASSUME EncodesPrompt,
               UNCHANGED <<phase, loadVars, failed, stop, cancel, requestVars>>
        PROVE  DeviceShape'
        BY <2>7 DEF EncodesPrompt, Enter, LoadModel
  <2>8. ASSUME EncodedPrompt,
               UNCHANGED <<phase, loadVars, failed, stop, cancel, requestVars>>
        PROVE  DeviceShape'
        BY <2>8 DEF EncodedPrompt, Park, Dispose
  <2>9. ASSUME EntersStage,
               UNCHANGED <<phase, loadVars, failed, stop, cancel, requestVars>>
        PROVE  DeviceShape'
    <3>1. at = "transformer" /\ at' = "stage" /\ phase = "busy"
          BY <2>9 DEF EntersStage
    <3>2. gpu' = {"transformer"}
          BY <2>9, <3>1 DEF EntersStage, Enter, LoadModel
    <3>3. onGpu' = {"transformer"} \cap Retained
          BY <2>9, <3>1 DEF EntersStage, Enter, LoadModel
    <3> QED BY <2>9, <3>1, <3>2, <3>3
  <2>10. ASSUME Denoises,
               UNCHANGED <<phase, loadVars, failed, stop, cancel, requestVars>>
        PROVE  DeviceShape'
        BY <2>10 DEF Denoises
  <2>11. ASSUME LeavesStage,
               UNCHANGED <<phase, loadVars, failed, stop, cancel, requestVars>>
        PROVE  DeviceShape'
        BY <2>11 DEF LeavesStage, Dispose
  <2>12. ASSUME BeforeDecode,
               UNCHANGED <<phase, loadVars, failed, stop, cancel, requestVars>>
        PROVE  DeviceShape'
    <3>1. CASE at = "staged"
      <4>1. phase = "busy" /\ phase' = "busy" /\ at' = "room"
            BY <2>12, <3>1 DEF BeforeDecode
      <4>2. gpu \subseteq {"transformer"} /\ onGpu = gpu
            BY <3>1
      <4>3. gpu' = gpu /\ onGpu' = onGpu
            BY <2>12, <3>1 DEF BeforeDecode
      <4> QED BY <4>1, <4>2, <4>3
    <3>2. CASE at = "room"
      <4>1. phase = "busy" /\ phase' = "busy" /\ at' = "decodes"
            BY <2>12, <3>2 DEF BeforeDecode
      <4>2. gpu \subseteq {"transformer"} /\ onGpu = gpu
            BY <3>2
      <4>3. gpu' = {} /\ onGpu' = {}
            BY <2>12, <3>2, <4>2 DEF BeforeDecode, MakeRoom, Park
      <4> QED BY <4>1, <4>3
    <3> QED BY <2>12, <3>1, <3>2 DEF BeforeDecode
  <2>13. ASSUME TakesVideo,
               UNCHANGED <<phase, loadVars, failed, stop, cancel, requestVars>>
        PROVE  DeviceShape'
        BY <2>13 DEF TakesVideo
  <2>14. ASSUME DecodesChunk,
               UNCHANGED <<phase, loadVars, failed, stop, cancel, requestVars>>
        PROVE  DeviceShape'
        BY <2>14 DEF DecodesChunk, Dispose
  <2>15. ASSUME KeepsVideo,
               UNCHANGED <<phase, loadVars, failed, stop, cancel, requestVars>>
        PROVE  DeviceShape'
        BY <2>15 DEF KeepsVideo
  <2> QED BY <1>5, <2>1, <2>2, <2>3, <2>4, <2>5, <2>6, <2>7, <2>8, <2>9, <2>10, <2>11,
     <2>12, <2>13, <2>14, <2>15 DEF GenerateStep, Producing
<1>6. ASSUME EndStep PROVE DeviceShape'
  <2>1. ASSUME Validates,
               at' = "unwinds", due' = 0,
               UNCHANGED <<phase, loadVars, stop, cancel, requestVars, localVars,
                 fileVars, stage>>
        PROVE  DeviceShape'
        BY <2>1 DEF Validates
  <2>2. ASSUME Raises,
               at' = "unwinds", due' = 0,
               UNCHANGED <<phase, loadVars, stop, cancel, requestVars, localVars,
                 fileVars, stage>>
        PROVE  DeviceShape'
        BY <2>2 DEF Raises, LoadRaises
  <2> QED BY <1>6, <2>1, <2>2 DEF EndStep
<1>7. ASSUME UnwindStep PROVE DeviceShape'
  <2>1. ASSUME ClosesIterator,
               UNCHANGED <<loadVars, stop, cancel, requestVars, stageVars>>
        PROVE  DeviceShape'
        BY <2>1 DEF ClosesIterator, Dispose
  <2>2. ASSUME Clears,
               UNCHANGED <<loadVars, stop, cancel, requestVars, stageVars>>
        PROVE  DeviceShape'
        BY <2>2 DEF Clears, ClearConditioning
  <2>3. ASSUME Unlinks,
               UNCHANGED <<loadVars, stop, cancel, requestVars, stageVars>>
        PROVE  DeviceShape'
        BY <2>3 DEF Unlinks
  <2>4. ASSUME Returns,
               UNCHANGED <<loadVars, stop, cancel, requestVars, stageVars>>
        PROVE  DeviceShape'
        BY <2>4 DEF Returns, Park
  <2>5. ASSUME Fails,
               UNCHANGED <<loadVars, stop, cancel, requestVars, stageVars>>
        PROVE  DeviceShape'
        BY <2>5 DEF Fails
  <2> QED BY <1>7, <2>1, <2>2, <2>3, <2>4, <2>5 DEF UnwindStep
<1>8. ASSUME EventStep PROVE DeviceShape'
      BY <1>8 DEF EventStep, CancelJob, BeginShutdown
<1>9. ASSUME UNCHANGED vars PROVE DeviceShape'
      BY <1>9 DEF vars
<1> QED BY <1>1, <1>2, <1>3, <1>4, <1>5, <1>6, <1>7, <1>8, <1>9 DEF Next, ThreadStep

\* What a request puts into the runtime is its own, and is cleared on every way out.
LEMMA RequestStep ==
  TypeOK /\ PositionShape /\ RequestShape /\ [Next]_vars => RequestShape'
<1> SUFFICES ASSUME TypeOK, PositionShape, RequestShape, [Next]_vars
             PROVE  RequestShape'
    OBVIOUS
<1> USE RuntimeAssumption DEF PositionShape, RequestShape, OwnConditioning, TypeOK,
     ControlTypeOK, DeviceTypeOK, RequestTypeOK, None, Requests, Loading, Generating, Preparing,
     Unwinding, loadVars, deviceVars, conditioningVars, requestVars, localVars, fileVars,
     stageVars
<1>1. ASSUME Constructs PROVE RequestShape'
      BY <1>1 DEF Constructs
<1>2. ASSUME Generate PROVE RequestShape'
      BY <1>2 DEF Generate, StageReset
<1>3. ASSUME Close PROVE RequestShape'
      BY <1>3 DEF Close
<1>4. ASSUME LoadStep PROVE RequestShape'
  <2>1. ASSUME WarmsEncoder,
               UNCHANGED <<loadVars, failed, stop, cancel, requestVars, localVars,
                 fileVars, stageVars>>
        PROVE  RequestShape'
        BY <2>1 DEF WarmsEncoder, LoadModel
  <2>2. ASSUME ParksEncoder,
               UNCHANGED <<loadVars, failed, stop, cancel, requestVars, localVars,
                 fileVars, stageVars>>
        PROVE  RequestShape'
        BY <2>2 DEF ParksEncoder, Park, Checked
  <2>3. ASSUME WarmsTransformer,
               UNCHANGED <<loadVars, failed, stop, cancel, requestVars, localVars,
                 fileVars, stageVars>>
        PROVE  RequestShape'
        BY <2>3 DEF WarmsTransformer, LoadModel
  <2>4. ASSUME ParksTransformer,
               UNCHANGED <<loadVars, failed, stop, cancel, requestVars, localVars,
                 fileVars, stageVars>>
        PROVE  RequestShape'
        BY <2>4 DEF ParksTransformer, Park, Loaded
  <2>5. ASSUME LoadsLazily,
               UNCHANGED <<loadVars, failed, stop, cancel, requestVars, localVars,
                 fileVars, stageVars>>
        PROVE  RequestShape'
        BY <2>5 DEF LoadsLazily, Loaded
  <2>6. ASSUME LoadFails,
               UNCHANGED <<loadVars, failed, stop, cancel, requestVars, localVars,
                 fileVars, stageVars>>
        PROVE  RequestShape'
        BY <2>6 DEF LoadFails, LoadRaises
  <2> QED BY <1>4, <2>1, <2>2, <2>3, <2>4, <2>5, <2>6 DEF LoadStep
<1>5. ASSUME GenerateStep PROVE RequestShape'
  <2>1. ASSUME Begins,
               UNCHANGED <<phase, loadVars, failed, stop, cancel, requestVars>>
        PROVE  RequestShape'
        BY <2>1 DEF Begins
  <2>2. ASSUME Reports,
               UNCHANGED <<phase, loadVars, failed, stop, cancel, requestVars>>
        PROVE  RequestShape'
        BY <2>2 DEF Reports, Report, Looks, Posts, AfterInputs
  <2>3. ASSUME SkipsInputs,
               UNCHANGED <<phase, loadVars, failed, stop, cancel, requestVars>>
        PROVE  RequestShape'
        BY <2>3 DEF SkipsInputs
  <2>4. ASSUME Listens,
               UNCHANGED <<phase, loadVars, failed, stop, cancel, requestVars>>
        PROVE  RequestShape'
        BY <2>4 DEF Listens
  <2>5. ASSUME Hears,
               UNCHANGED <<phase, loadVars, failed, stop, cancel, requestVars>>
        PROVE  RequestShape'
        BY <2>5 DEF Hears
  <2>6. ASSUME Normalizes,
               UNCHANGED <<phase, loadVars, failed, stop, cancel, requestVars>>
        PROVE  RequestShape'
        BY <2>6 DEF Normalizes, Own
  <2>7. ASSUME EncodesPrompt,
               UNCHANGED <<phase, loadVars, failed, stop, cancel, requestVars>>
        PROVE  RequestShape'
        BY <2>7 DEF EncodesPrompt, Enter, LoadModel
  <2>8. ASSUME EncodedPrompt,
               UNCHANGED <<phase, loadVars, failed, stop, cancel, requestVars>>
        PROVE  RequestShape'
        BY <2>8 DEF EncodedPrompt, Park, Dispose
  <2>9. ASSUME EntersStage,
               UNCHANGED <<phase, loadVars, failed, stop, cancel, requestVars>>
        PROVE  RequestShape'
        BY <2>9 DEF EntersStage, Enter, LoadModel
  <2>10. ASSUME Denoises,
               UNCHANGED <<phase, loadVars, failed, stop, cancel, requestVars>>
        PROVE  RequestShape'
        BY <2>10 DEF Denoises
  <2>11. ASSUME LeavesStage,
               UNCHANGED <<phase, loadVars, failed, stop, cancel, requestVars>>
        PROVE  RequestShape'
        BY <2>11 DEF LeavesStage, Dispose
  <2>12. ASSUME BeforeDecode,
               UNCHANGED <<phase, loadVars, failed, stop, cancel, requestVars>>
        PROVE  RequestShape'
        BY <2>12 DEF BeforeDecode, MakeRoom, Park
  <2>13. ASSUME TakesVideo,
               UNCHANGED <<phase, loadVars, failed, stop, cancel, requestVars>>
        PROVE  RequestShape'
        BY <2>13 DEF TakesVideo
  <2>14. ASSUME DecodesChunk,
               UNCHANGED <<phase, loadVars, failed, stop, cancel, requestVars>>
        PROVE  RequestShape'
        BY <2>14 DEF DecodesChunk, Dispose
  <2>15. ASSUME KeepsVideo,
               UNCHANGED <<phase, loadVars, failed, stop, cancel, requestVars>>
        PROVE  RequestShape'
        BY <2>15 DEF KeepsVideo
  <2> QED BY <1>5, <2>1, <2>2, <2>3, <2>4, <2>5, <2>6, <2>7, <2>8, <2>9, <2>10, <2>11,
     <2>12, <2>13, <2>14, <2>15 DEF GenerateStep, Producing
<1>6. ASSUME EndStep PROVE RequestShape'
  <2>1. ASSUME Validates,
               at' = "unwinds", due' = 0,
               UNCHANGED <<phase, loadVars, stop, cancel, requestVars, localVars,
                 fileVars, stage>>
        PROVE  RequestShape'
        BY <2>1 DEF Validates
  <2>2. ASSUME Raises,
               at' = "unwinds", due' = 0,
               UNCHANGED <<phase, loadVars, stop, cancel, requestVars, localVars,
                 fileVars, stage>>
        PROVE  RequestShape'
        BY <2>2 DEF Raises, LoadRaises
  <2> QED BY <1>6, <2>1, <2>2 DEF EndStep
<1>7. ASSUME UnwindStep PROVE RequestShape'
  <2>1. ASSUME ClosesIterator,
               UNCHANGED <<loadVars, stop, cancel, requestVars, stageVars>>
        PROVE  RequestShape'
        BY <2>1 DEF ClosesIterator, Dispose
  <2>2. ASSUME Clears,
               UNCHANGED <<loadVars, stop, cancel, requestVars, stageVars>>
        PROVE  RequestShape'
        BY <2>2 DEF Clears, ClearConditioning
  <2>3. ASSUME Unlinks,
               UNCHANGED <<loadVars, stop, cancel, requestVars, stageVars>>
        PROVE  RequestShape'
        BY <2>3 DEF Unlinks
  <2>4. ASSUME Returns,
               UNCHANGED <<loadVars, stop, cancel, requestVars, stageVars>>
        PROVE  RequestShape'
        BY <2>4 DEF Returns, Park
  <2>5. ASSUME Fails,
               UNCHANGED <<loadVars, stop, cancel, requestVars, stageVars>>
        PROVE  RequestShape'
        BY <2>5 DEF Fails
  <2> QED BY <1>7, <2>1, <2>2, <2>3, <2>4, <2>5 DEF UnwindStep
<1>8. ASSUME EventStep PROVE RequestShape'
      BY <1>8 DEF EventStep, CancelJob, BeginShutdown
<1>9. ASSUME UNCHANGED vars PROVE RequestShape'
      BY <1>9 DEF vars
<1> QED BY <1>1, <1>2, <1>3, <1>4, <1>5, <1>6, <1>7, <1>8, <1>9 DEF Next, ThreadStep

\* Stages follow the program.
LEMMA StageStep ==
  TypeOK /\ PositionShape /\ StageShape /\ [Next]_vars => StageShape'
<1> SUFFICES ASSUME TypeOK, PositionShape, StageShape, [Next]_vars
             PROVE  StageShape'
    OBVIOUS
<1> USE RuntimeAssumption DEF PositionShape, StageShape, TypeOK, ControlTypeOK, DeviceTypeOK,
     RequestTypeOK, Loading, Generating, Preparing, Unwinding, loadVars, deviceVars,
     conditioningVars, requestVars, localVars, fileVars, stageVars
<1>1. ASSUME Constructs PROVE StageShape'
      BY <1>1 DEF Constructs
<1>2. ASSUME Generate PROVE StageShape'
      BY <1>2 DEF Generate, StageReset
<1>3. ASSUME Close PROVE StageShape'
      BY <1>3 DEF Close
<1>4. ASSUME LoadStep PROVE StageShape'
  <2>1. ASSUME WarmsEncoder,
               UNCHANGED <<loadVars, failed, stop, cancel, requestVars, localVars,
                 fileVars, stageVars>>
        PROVE  StageShape'
        BY <2>1 DEF WarmsEncoder, LoadModel
  <2>2. ASSUME ParksEncoder,
               UNCHANGED <<loadVars, failed, stop, cancel, requestVars, localVars,
                 fileVars, stageVars>>
        PROVE  StageShape'
        BY <2>2 DEF ParksEncoder, Park, Checked
  <2>3. ASSUME WarmsTransformer,
               UNCHANGED <<loadVars, failed, stop, cancel, requestVars, localVars,
                 fileVars, stageVars>>
        PROVE  StageShape'
        BY <2>3 DEF WarmsTransformer, LoadModel
  <2>4. ASSUME ParksTransformer,
               UNCHANGED <<loadVars, failed, stop, cancel, requestVars, localVars,
                 fileVars, stageVars>>
        PROVE  StageShape'
        BY <2>4 DEF ParksTransformer, Park, Loaded
  <2>5. ASSUME LoadsLazily,
               UNCHANGED <<loadVars, failed, stop, cancel, requestVars, localVars,
                 fileVars, stageVars>>
        PROVE  StageShape'
        BY <2>5 DEF LoadsLazily, Loaded
  <2>6. ASSUME LoadFails,
               UNCHANGED <<loadVars, failed, stop, cancel, requestVars, localVars,
                 fileVars, stageVars>>
        PROVE  StageShape'
        BY <2>6 DEF LoadFails, LoadRaises
  <2> QED BY <1>4, <2>1, <2>2, <2>3, <2>4, <2>5, <2>6 DEF LoadStep
<1>5. ASSUME GenerateStep PROVE StageShape'
  <2>1. ASSUME Begins,
               UNCHANGED <<phase, loadVars, failed, stop, cancel, requestVars>>
        PROVE  StageShape'
        BY <2>1 DEF Begins
  <2>2. ASSUME Reports,
               UNCHANGED <<phase, loadVars, failed, stop, cancel, requestVars>>
        PROVE  StageShape'
        BY <2>2 DEF Reports, Report, Looks, Posts, AfterInputs
  <2>3. ASSUME SkipsInputs,
               UNCHANGED <<phase, loadVars, failed, stop, cancel, requestVars>>
        PROVE  StageShape'
        BY <2>3 DEF SkipsInputs
  <2>4. ASSUME Listens,
               UNCHANGED <<phase, loadVars, failed, stop, cancel, requestVars>>
        PROVE  StageShape'
        BY <2>4 DEF Listens
  <2>5. ASSUME Hears,
               UNCHANGED <<phase, loadVars, failed, stop, cancel, requestVars>>
        PROVE  StageShape'
        BY <2>5 DEF Hears
  <2>6. ASSUME Normalizes,
               UNCHANGED <<phase, loadVars, failed, stop, cancel, requestVars>>
        PROVE  StageShape'
        BY <2>6 DEF Normalizes, Own
  <2>7. ASSUME EncodesPrompt,
               UNCHANGED <<phase, loadVars, failed, stop, cancel, requestVars>>
        PROVE  StageShape'
        BY <2>7 DEF EncodesPrompt, Enter, LoadModel
  <2>8. ASSUME EncodedPrompt,
               UNCHANGED <<phase, loadVars, failed, stop, cancel, requestVars>>
        PROVE  StageShape'
        BY <2>8 DEF EncodedPrompt, Park, Dispose
  <2>9. ASSUME EntersStage,
               UNCHANGED <<phase, loadVars, failed, stop, cancel, requestVars>>
        PROVE  StageShape'
        BY <2>9 DEF EntersStage, Enter, LoadModel
  <2>10. ASSUME Denoises,
               UNCHANGED <<phase, loadVars, failed, stop, cancel, requestVars>>
        PROVE  StageShape'
        BY <2>10 DEF Denoises
  <2>11. ASSUME LeavesStage,
               UNCHANGED <<phase, loadVars, failed, stop, cancel, requestVars>>
        PROVE  StageShape'
        BY <2>11 DEF LeavesStage, Dispose
  <2>12. ASSUME BeforeDecode,
               UNCHANGED <<phase, loadVars, failed, stop, cancel, requestVars>>
        PROVE  StageShape'
        BY <2>12 DEF BeforeDecode, MakeRoom, Park
  <2>13. ASSUME TakesVideo,
               UNCHANGED <<phase, loadVars, failed, stop, cancel, requestVars>>
        PROVE  StageShape'
        BY <2>13 DEF TakesVideo
  <2>14. ASSUME DecodesChunk,
               UNCHANGED <<phase, loadVars, failed, stop, cancel, requestVars>>
        PROVE  StageShape'
        BY <2>14 DEF DecodesChunk, Dispose
  <2>15. ASSUME KeepsVideo,
               UNCHANGED <<phase, loadVars, failed, stop, cancel, requestVars>>
        PROVE  StageShape'
        BY <2>15 DEF KeepsVideo
  <2> QED BY <1>5, <2>1, <2>2, <2>3, <2>4, <2>5, <2>6, <2>7, <2>8, <2>9, <2>10, <2>11,
     <2>12, <2>13, <2>14, <2>15 DEF GenerateStep, Producing
<1>6. ASSUME EndStep PROVE StageShape'
  <2>1. ASSUME Validates,
               at' = "unwinds", due' = 0,
               UNCHANGED <<phase, loadVars, stop, cancel, requestVars, localVars,
                 fileVars, stage>>
        PROVE  StageShape'
        BY <2>1 DEF Validates
  <2>2. ASSUME Raises,
               at' = "unwinds", due' = 0,
               UNCHANGED <<phase, loadVars, stop, cancel, requestVars, localVars,
                 fileVars, stage>>
        PROVE  StageShape'
        BY <2>2 DEF Raises, LoadRaises
  <2> QED BY <1>6, <2>1, <2>2 DEF EndStep
<1>7. ASSUME UnwindStep PROVE StageShape'
  <2>1. ASSUME ClosesIterator,
               UNCHANGED <<loadVars, stop, cancel, requestVars, stageVars>>
        PROVE  StageShape'
        BY <2>1 DEF ClosesIterator, Dispose
  <2>2. ASSUME Clears,
               UNCHANGED <<loadVars, stop, cancel, requestVars, stageVars>>
        PROVE  StageShape'
        BY <2>2 DEF Clears, ClearConditioning
  <2>3. ASSUME Unlinks,
               UNCHANGED <<loadVars, stop, cancel, requestVars, stageVars>>
        PROVE  StageShape'
        BY <2>3 DEF Unlinks
  <2>4. ASSUME Returns,
               UNCHANGED <<loadVars, stop, cancel, requestVars, stageVars>>
        PROVE  StageShape'
        BY <2>4 DEF Returns, Park
  <2>5. ASSUME Fails,
               UNCHANGED <<loadVars, stop, cancel, requestVars, stageVars>>
        PROVE  StageShape'
        BY <2>5 DEF Fails
  <2> QED BY <1>7, <2>1, <2>2, <2>3, <2>4, <2>5 DEF UnwindStep
<1>8. ASSUME EventStep PROVE StageShape'
      BY <1>8 DEF EventStep, CancelJob, BeginShutdown
<1>9. ASSUME UNCHANGED vars PROVE StageShape'
      BY <1>9 DEF vars
<1> QED BY <1>1, <1>2, <1>3, <1>4, <1>5, <1>6, <1>7, <1>8, <1>9 DEF Next, ThreadStep

-----------------------------------------------------------------------------
\* A process starts without a runtime.
LEMMA InitInv == Init => RuntimeInv
<1> SUFFICES ASSUME Init PROVE RuntimeInv
    OBVIOUS
<1> USE RuntimeAssumption
    DEF Init, None, Requests, Models, Workflows, Kinds, Retained, Loading, Generating,
        Preparing, Unwinding
<1>1. TypeOK
  <2>1. failed \in BOOLEAN /\ stop \in BOOLEAN /\ cancel \in BOOLEAN
        BY Zenon DEF Init
  <2>2. ControlTypeOK
        BY <2>1 DEF ControlTypeOK
  <2>3. DeviceTypeOK
        BY DEF DeviceTypeOK
  <2>4. RequestTypeOK
        BY DEF RequestTypeOK
  <2> QED BY <2>2, <2>3, <2>4 DEF TypeOK
<1>2. PositionShape /\ DeviceShape /\ StageShape
      BY DEF PositionShape, DeviceShape, StageShape
<1>3. RequestShape
      BY DEF RequestShape, OwnConditioning
<1> QED BY <1>1, <1>2, <1>3 DEF RuntimeInv

\* Every step of thread and loop keeps the invariant.
LEMMA InvStep == RuntimeInv /\ [Next]_vars => RuntimeInv'
BY ControlTypeStep, DeviceTypeStep, RequestTypeStep, PositionStep, DeviceStep,
   RequestStep, StageStep
   DEF RuntimeInv, TypeOK

\* The inductive invariant of load(), generate() and close().
THEOREM RuntimeInvariance == Spec => []RuntimeInv
<1>1. Init => RuntimeInv BY InitInv
<1>2. RuntimeInv /\ [Next]_vars => RuntimeInv' BY InvStep
<1> QED BY <1>1, <1>2, PTL DEF Spec

\* Every variable keeps its type, whatever raises.
THEOREM RuntimeTypes == Spec => []TypeOK
<1>1. RuntimeInv => TypeOK BY DEF RuntimeInv
<1> QED BY <1>1, RuntimeInvariance, PTL

\* Encoder, transformer and decoder are never on the GPU together, and the one in use
\* is there: load(), park() and the hooks of inference/runtime.py.
THEOREM SingleResident == Spec => []ResidencyExact
<1>1. RuntimeInv => ResidencyExact
      BY DEF RuntimeInv, DeviceShape, OneResident, UsedOnDevice, ResidencyExact
<1> QED BY <1>1, RuntimeInvariance, PTL

\* A request hears its own audio or none, and leaves nothing behind in the runtime:
\* inference/conditioning.py and the finally of generate().
THEOREM RequestsApart == Spec => []RequestsIsolated
<1>1. RuntimeInv => RequestsIsolated
      BY DEF RuntimeInv, DeviceShape, RequestShape, NothingSurvives, RequestsIsolated
<1> QED BY <1>1, RuntimeInvariance, PTL

StageMove == phase = "busy" => stage' >= stage

\* The stages of a request only go forward.
LEMMA StageMoves == RuntimeInv /\ [Next]_vars => StageMove
<1> SUFFICES ASSUME RuntimeInv, [Next]_vars, phase = "busy" PROVE stage' >= stage
    BY DEF StageMove
<1> USE DEF RuntimeInv, TypeOK, ControlTypeOK, PositionShape, StageShape
<1>1. ASSUME Reports PROVE stage' >= stage
      BY <1>1 DEF Reports, Report, Looks, Posts
<1>2. ASSUME UNCHANGED stage PROVE stage' >= stage
      BY <1>2
<1>3. CASE GenerateStep
      BY <1>1, <1>2, <1>3 DEF GenerateStep, Producing, Begins, SkipsInputs, Listens, Hears,
         Normalizes, EncodesPrompt, EncodedPrompt, EntersStage, Denoises, LeavesStage,
         BeforeDecode, TakesVideo, DecodesChunk, KeepsVideo, stageVars
<1>4. CASE LoadStep \/ EndStep \/ UnwindStep \/ EventStep \/ Constructs \/ Close
      BY <1>2, <1>4 DEF LoadStep, EndStep, UnwindStep, EventStep, Constructs, Close, stageVars
<1>5. CASE UNCHANGED vars
      BY <1>2, <1>5 DEF vars, stageVars
<1>6. ~Generate
      BY DEF Generate
<1> QED BY <1>3, <1>4, <1>5, <1>6 DEF Next, ThreadStep

\* A request's stages are reported in the order in which the job passes them.
THEOREM StagesInOrder == Spec => StagesAscend
<1>1. RuntimeInv /\ [Next]_vars => [phase = "busy" => stage' >= stage]_vars
      BY StageMoves DEF StageMove
<1> QED BY <1>1, RuntimeInvariance, PTL DEF Spec, StagesAscend

-----------------------------------------------------------------------------
Revoked == phase = "busy" /\ (cancel \/ stop)
WindsDown ==
  /\ StepsLeft(at', due') < StepsLeft(at, due)
  /\ due' = 0 /\ (stage' # stage => due # 0 /\ stage' = due)
  /\ scratch' \subseteq scratch \cup {request}
  /\ at = "touches" \/ scratch' \subseteq scratch
  /\ request' = request

\* Whoever looks at the events of a request that works finds one set.
LEMMA NothingAllowed ==
  ASSUME RuntimeInv, Revoked, at \in Generating
  PROVE  ~Checked
BY DEF RuntimeInv, PositionShape, RequestShape, Revoked, Checked, None, Requests

\* What generate() still does between two checks: a report that is past its own is carried
\* through, and so is what follows it.
LEMMA ProducingWindsDown ==
  ASSUME RuntimeInv, Revoked, GenerateStep
  PROVE  WindsDown
<1> USE DEF GenerateStep, WindsDown, StepsLeft, deviceVars, localVars, fileVars, requestVars,
        stageVars
<1>1. at \in Generating => ~Checked
      BY NothingAllowed
<1>2. due # 0 =>
        /\ at \in {"inputs", "prompt", "prompted", "staged", "decodes", "flushes", "copies"}
        /\ at = "inputs" => kind # "plain"
      BY DEF RuntimeInv, StageShape
<1>3. ~Begins /\ ~Denoises
      BY <1>1 DEF Begins, Denoises, StepAllowed, Generating
<1>4. CASE Reports
  <2>1. at \in Generating
        BY <1>4 DEF Reports, Generating, Preparing
  <2>2. due # 0 /\ stage' = due /\ due' = 0
        BY <1>1, <1>4, <2>1 DEF Reports, Report, Looks, Posts
  <2>3. at' \in {"listens", "touches", "prompt", "encoder", "transformer", "video",
                "validates"}
        BY <1>1, <1>4, <2>1 DEF Reports, Report, Looks, Posts, AfterInputs
  <2>4. StepsLeft(at', due') < 9
        BY <2>2, <2>3
  <2> QED BY <1>4, <2>2, <2>4 DEF Reports
<1>5. CASE SkipsInputs
      BY <1>2, <1>5 DEF SkipsInputs, RuntimeInv, PositionShape
<1>6. CASE Listens \/ Hears \/ Normalizes
      BY <1>2, <1>6 DEF Listens, Hears, Normalizes
<1>7. CASE EncodesPrompt \/ EncodedPrompt \/ EntersStage \/ LeavesStage
      BY <1>2, <1>7 DEF EncodesPrompt, EncodedPrompt, EntersStage, LeavesStage
<1>8. CASE BeforeDecode \/ TakesVideo
      BY <1>1, <1>2, <1>8 DEF BeforeDecode, TakesVideo, Generating
<1>9. CASE DecodesChunk
      BY <1>1, <1>2, <1>9 DEF DecodesChunk, Generating
<1>10. CASE KeepsVideo
      BY <1>10 DEF KeepsVideo
<1> QED BY <1>3, <1>4, <1>5, <1>6, <1>7, <1>8, <1>9, <1>10 DEF Producing

\* Whatever runs or raises once an event is set brings the generation nearer to its end.
LEMMA RevokedMoves ==
  RuntimeInv /\ [Next]_vars => [Revoked => EventStep \/ WindsDown]_vars
<1> SUFFICES ASSUME RuntimeInv, Next, Revoked PROVE EventStep \/ WindsDown
    OBVIOUS
<1> USE DEF WindsDown, StepsLeft
<1>1. phase = "busy" /\ at \in Generating \cup Unwinding
      BY DEF Revoked, RuntimeInv, PositionShape
<1>2. CASE GenerateStep
      BY <1>2, ProducingWindsDown
<1>3. CASE EndStep
      <2>1. ~Validates
            BY NothingAllowed DEF Validates, Generating
      <2> QED BY <1>3, <2>1 DEF EndStep, Raises, Generating, Preparing, localVars, fileVars,
              requestVars
<1>4. CASE UnwindStep
      <2>1. at \in Unwinding /\ due = 0
            BY <1>4 DEF UnwindStep, ClosesIterator, Clears, Unlinks, Returns, Fails, Unwinding,
               RuntimeInv, StageShape
      <2> QED BY <1>4, <2>1 DEF UnwindStep, ClosesIterator, Clears, Unlinks, Returns, Fails,
              fileVars, requestVars, stageVars
<1>5. ~Constructs /\ ~Generate /\ ~Close /\ ~LoadStep
      BY <1>1 DEF Constructs, Generate, Close, LoadStep, WarmsEncoder, ParksEncoder,
         WarmsTransformer, ParksTransformer, LoadsLazily, LoadFails, Loading, Generating,
         Preparing, Unwinding
<1> QED BY <1>2, <1>3, <1>4, <1>5 DEF Next, ThreadStep

\* After a cancellation or the begin of a shutdown no loop of upstream's goes round once
\* more: a generation is at most nine steps from the end of generate(), by the checks
\* around every call and chunk. A stage, or a scratch file, that it had passed the check
\* for may still come, once, and no other does.
THEOREM RevokedComesToItsEnd == Spec => RevokedWindsDown
<1>1. RuntimeInv /\ [Next]_vars => [Revoked => EventStep \/ WindsDown]_vars
      BY RevokedMoves
<1> QED BY <1>1, RuntimeInvariance, PTL DEF Spec, RevokedWindsDown, Revoked, WindsDown
=============================================================================
