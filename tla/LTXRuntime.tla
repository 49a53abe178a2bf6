----------------------------- MODULE LTXRuntime -----------------------------
(***************************************************************************)
(* What is on the GPU and what belongs to which request:                   *)
(* inference/runtime.py, inference/lifecycle.py, inference/conditioning.py. *)
(*                                                                         *)
(* One thread runs all of it; the event loop only sets the two events. Any *)
(* call may raise: PyTorch, FFmpeg, a file operation, an event that is     *)
(* set. The upstream pipeline is external. From the hooks that the runtime *)
(* puts into it: it encodes the prompt, goes through its stages, and may   *)
(* ask for the video decoder, which works while its chunks are consumed.   *)
(* The owner is inference/manager.py: it closes a runtime that has failed  *)
(* and builds another only then.                                           *)
(***************************************************************************)
EXTENDS Integers

CONSTANT MaxRequests  \* bound: generations

ASSUME RuntimeAssumption == MaxRequests \in Nat

VARIABLES phase,     \* of the runtime: "absent", "loading", "idle", "busy", "failed"
          workflow,  \* the pipeline it was loaded for
          retains,   \* transformer is not None
          caches,    \* text_encoder is not None
          at,        \* where load() or generate() is
          failed,    \* an exception is on its way up
          stop,      \* the manager's event
          cancel,    \* the request's event, between requests that of the next
          request,   \* number of the last request
          kind,      \* its conditioning
          gpu,       \* models with weights on the GPU
          onGpu,     \* on_gpu of the two RetainedModels
          source,    \* request whose audio is in audio_conditioning.source
          latent,    \* and in audio_conditioning.latent
          context,   \* request in self.context
          iterator,  \* request whose decoder is video_iterator
          scratch,   \* requests with a .source.partial on disk
          stuck,     \* those of them whose unlink has raised, for the properties
          owned,     \* local scratch of generate()
          stage,     \* _stage_name, as a rank
          due        \* in report(), past its check: the stage it is about to set

fileVars == <<scratch, stuck>>
loadVars == <<workflow, retains, caches>>
deviceVars == <<gpu, onGpu>>
conditioningVars == <<source, latent>>
requestVars == <<request, kind>>
localVars == <<conditioningVars, context, iterator, owned>>
stageVars == <<stage, due>>
vars == <<phase, loadVars, at, failed, stop, cancel, requestVars, deviceVars,
          localVars, fileVars, stageVars>>

None == 0
Requests == 1..MaxRequests
Models == {"encoder", "transformer", "decoder"}
Workflows == {"distilled", "reference", "retake"}
Kinds(w) == CASE w = "distilled" -> {"plain", "audio"}
              [] w = "reference" -> {"reference"}
              [] w = "retake"    -> {"retake", "normalized"}

Loading == {"loads", "warms", "warmed", "heats"}
Preparing == {"inputs", "listens", "hears", "touches"}
Generating == {"checks", "prompt", "encoder", "encodes", "prompted", "transformer", "stage",
               "step", "staged", "room", "decodes", "video", "decoded", "chunks", "chunk",
               "flushes", "copies", "validates"} \cup Preparing
Unwinding == {"unwinds", "clears", "unlinks", "parks"}

Init ==
  /\ phase = "absent" /\ at = "idle" /\ failed = FALSE
  /\ workflow = "distilled" /\ retains = FALSE /\ caches = FALSE
  /\ stop = FALSE /\ cancel = FALSE
  /\ request = 0 /\ kind = "plain"
  /\ gpu = {} /\ onGpu = {}
  /\ source = None /\ latent = None /\ context = None /\ iterator = None
  /\ scratch = {} /\ stuck = {} /\ owned = None
  /\ stage = 0 /\ due = 0

-----------------------------------------------------------------------------
\* RetainedModel.load(): the flag decides whether there is anything to move.
LoadModel(m) ==
  /\ onGpu' = onGpu \cup {m}
  /\ gpu' = IF m \in onGpu THEN gpu ELSE gpu \cup {m}

\* build() or to() raises, when some of the weights may have arrived.
LoadRaises(m) ==
  /\ m \notin onGpu
  /\ gpu' \in {gpu, gpu \cup {m}}
  /\ UNCHANGED onGpu

\* park(). If its to() raises, both stay as they are.
Park(m) ==
  /\ gpu' = IF m \in onGpu THEN gpu \ {m} ELSE gpu
  /\ onGpu' = onGpu \ {m}

\* Where a model is not retained, upstream's own context loads and disposes of it.
Retained == {m \in Models : (m = "encoder" /\ caches) \/ (m = "transformer" /\ retains)}
Enter(m) ==
  IF m \in Retained THEN LoadModel(m) ELSE gpu' = gpu \cup {m} /\ UNCHANGED onGpu
Dispose(m) == gpu' = gpu \ {m} /\ UNCHANGED onGpu

\* check(): no context, no event of a request.
Checked_StopOnly == ~stop
Checked == ~stop /\ (context # None => ~cancel)

\* report(s) begins with a look at both events. It is over if s is the stage already.
Looks(s, next) ==
  /\ due = 0 /\ Checked
  /\ IF stage = s THEN at' = next /\ UNCHANGED due ELSE due' = s /\ UNCHANGED at
  /\ UNCHANGED stage

\* It may wait for the device first; then the stage is set and posted, whatever the loop
\* has set meanwhile.
Posts(s, next) ==
  /\ due = s
  /\ stage' = s /\ due' = 0
  /\ at' = next

\* report(), whose caller goes on at next.
Report(s, next) == Looks(s, next) \/ Posts(s, next)

-----------------------------------------------------------------------------
\* The manager constructs a runtime and calls load().
Constructs ==
  /\ phase = "absent"
  /\ phase' = "loading" /\ at' = "loads" /\ failed' = FALSE
  /\ workflow' \in Workflows
  /\ \E resident, cacheEncoder \in BOOLEAN :
       /\ retains' = (resident /\ workflow' # "reference")
       /\ caches' = (resident /\ cacheEncoder)
  /\ UNCHANGED <<stop, cancel, requestVars, deviceVars, localVars, fileVars, stageVars>>

Loaded == phase' = "idle" /\ at' = "idle"

\* Preloading, for no request and so for the distilled workflow: the encoder first.
WarmsEncoder ==
  /\ at = "loads" /\ Checked
  /\ workflow = "distilled"
  /\ IF caches THEN LoadModel("encoder") ELSE UNCHANGED deviceVars
  /\ at' = "warms"
  /\ UNCHANGED phase

ParksEncoder ==
  /\ at = "warms"
  /\ caches => Checked
  /\ Park("encoder")
  /\ at' = "warmed"
  /\ UNCHANGED phase

WarmsTransformer ==
  /\ at = "warmed"
  /\ IF retains THEN LoadModel("transformer") ELSE UNCHANGED deviceVars
  /\ at' = "heats"
  /\ UNCHANGED phase

ParksTransformer ==
  /\ at = "heats"
  /\ retains => Checked
  /\ Park("transformer")
  /\ Loaded

LoadsLazily ==
  /\ at = "loads" /\ Checked
  /\ Loaded
  /\ UNCHANGED deviceVars

LoadFails ==
  /\ at \in Loading
  /\ \/ UNCHANGED deviceVars
     \/ at = "loads" /\ caches /\ LoadRaises("encoder")
     \/ at = "warmed" /\ retains /\ LoadRaises("transformer")
  /\ phase' = "failed" /\ at' = "idle"

LoadStep ==
  /\ \/ WarmsEncoder \/ ParksEncoder \/ WarmsTransformer \/ ParksTransformer
     \/ LoadsLazily \/ LoadFails
  /\ UNCHANGED <<loadVars, failed, stop, cancel, requestVars, localVars, fileVars, stageVars>>

-----------------------------------------------------------------------------
\* generate(), up to its first check.
StageReset_Kept == UNCHANGED stage
StageReset == stage' = 0
Generate ==
  /\ phase = "idle"
  /\ request < MaxRequests
  /\ phase' = "busy" /\ at' = "checks" /\ failed' = FALSE
  /\ request' = request + 1 /\ kind' \in Kinds(workflow)
  /\ context' = request + 1 /\ owned' = None /\ cancel' = FALSE
  /\ StageReset
  /\ UNCHANGED <<loadVars, stop, deviceVars, conditioningVars, iterator, fileVars, due>>

Begins ==
  /\ at = "checks" /\ Checked
  /\ at' = "inputs"
  /\ UNCHANGED <<deviceVars, localVars, fileVars, stageVars>>

\* report() by everybody who calls it: generate() for the inputs, the hooks around prompt
\* encoder and stages, before_decode(), FFmpeg's flush or the copy of the source's video.
AfterInputs ==
  CASE kind = "audio"      -> "listens"
    [] kind = "normalized" -> "touches"
    [] OTHER               -> "prompt"

Reports ==
  /\ \/ at = "inputs" /\ kind # "plain" /\ Report(1, AfterInputs)
     \/ at = "prompt" /\ Report(1, "encoder")
     \/ at \in {"prompted", "staged"} /\ Report(2, "transformer")
     \/ at = "decodes" /\ Report(3, "video")
     \/ at \in {"flushes", "copies"} /\ Report(4, "validates")
  /\ UNCHANGED <<deviceVars, localVars, fileVars>>

\* No inputs: nothing to report, and no check.
SkipsInputs ==
  /\ at = "inputs" /\ kind = "plain"
  /\ at' = "prompt"
  /\ UNCHANGED <<deviceVars, localVars, fileVars, stageVars>>

\* AudioConditioning.prepare(): the samples, then their encoding.
Listens ==
  /\ at = "listens"
  /\ source' = request
  /\ at' = "hears"
  /\ UNCHANGED <<deviceVars, latent, context, iterator, owned, fileVars, stageVars>>

Hears ==
  /\ at = "hears"
  /\ latent' = request
  /\ at' = "prompt"
  /\ UNCHANGED <<deviceVars, source, context, iterator, owned, fileVars, stageVars>>

\* The scratch file is generate()'s from the moment it exists; preparing and
\* validating the source follow.
Own_Forgotten == UNCHANGED owned
Own == owned' = request

Normalizes ==
  /\ at = "touches"
  /\ scratch' = scratch \cup {request}
  /\ Own
  /\ at' = "prompt"
  /\ UNCHANGED <<deviceVars, conditioningVars, context, iterator, stuck, stageVars>>

\* The pipeline's prompt encoder is called, and its context left.
EncodesPrompt ==
  /\ at = "encoder"
  /\ Enter("encoder")
  /\ at' = "encodes"
  /\ UNCHANGED <<localVars, fileVars, stageVars>>

EncodedPrompt ==
  /\ at = "encodes"
  /\ IF caches THEN Park("encoder") ELSE Dispose("encoder")
  /\ at' = "prompted"
  /\ UNCHANGED <<localVars, fileVars, stageVars>>

\* A stage is called. The transformer is looked after before and after each of its
\* calls, and stays when its context is left.
EntersStage ==
  /\ at = "transformer"
  /\ Enter("transformer")
  /\ at' = "stage"
  /\ UNCHANGED <<localVars, fileVars, stageVars>>

StepAllowed_Unchecked == TRUE
StepAllowed == Checked

Denoises ==
  /\ \/ at = "stage" /\ StepAllowed /\ at' = "step"
     \/ at = "step" /\ StepAllowed /\ at' = "stage"
  /\ UNCHANGED <<deviceVars, localVars, fileVars, stageVars>>

LeavesStage ==
  /\ at = "stage"
  /\ IF retains THEN UNCHANGED deviceVars ELSE Dispose("transformer")
  /\ at' = "staged"
  /\ UNCHANGED <<localVars, fileVars, stageVars>>

\* before_decode(): a check, room for the decoder, and its report.
MakeRoom_Not == UNCHANGED deviceVars
MakeRoom == Park("transformer")

BeforeDecode ==
  /\ \/ at = "staged" /\ due = 0 /\ Checked /\ at' = "room" /\ UNCHANGED deviceVars
     \/ at = "room" /\ MakeRoom /\ at' = "decodes"
  /\ UNCHANGED <<localVars, fileVars, stageVars>>

\* The pipeline returns a result whose video is decoded as it is consumed.
TakesVideo ==
  /\ at = "video"
  /\ iterator' = request
  /\ at' = "decoded"
  /\ UNCHANGED <<deviceVars, conditioningVars, context, owned, fileVars, stageVars>>

\* chunks(): a check first and one behind each chunk, before FFmpeg gets it. The decoder
\* comes with the first chunk and goes when there is no other.
DecodesChunk ==
  /\ \/ at \in {"decoded", "chunk"} /\ Checked /\ at' = "chunks" /\ UNCHANGED deviceVars
     \/ at = "chunks" /\ at' = "chunk" /\ gpu' = gpu \cup {"decoder"} /\ UNCHANGED onGpu
     \/ at = "chunks" /\ at' = "flushes" /\ Dispose("decoder")
  /\ UNCHANGED <<localVars, fileVars, stageVars>>

\* A retake that keeps the source's video, whether or not upstream asks the decoder.
KeepsVideo ==
  /\ kind \in {"retake", "normalized"}
  /\ at \in {"staged", "decoded"} /\ due = 0
  /\ at' = "copies"
  /\ UNCHANGED <<deviceVars, localVars, fileVars, stageVars>>

Producing ==
  \/ Begins \/ Reports \/ SkipsInputs \/ Listens \/ Hears \/ Normalizes
  \/ EncodesPrompt \/ EncodedPrompt \/ EntersStage \/ Denoises \/ LeavesStage
  \/ BeforeDecode \/ TakesVideo \/ DecodesChunk \/ KeepsVideo

GenerateStep ==
  /\ Producing
  /\ UNCHANGED <<phase, loadVars, failed, stop, cancel, requestVars>>

\* The output was inspected.
Validates ==
  /\ at = "validates" /\ Checked
  /\ UNCHANGED <<failed, deviceVars>>

\* Something raises. Upstream's contexts dispose of their models; a retained model
\* stays, in part if it was being moved.
Raises ==
  /\ at \in Generating
  /\ failed' = TRUE
  /\ \/ gpu' = gpu \cap (Retained \cup {"decoder"}) /\ UNCHANGED onGpu
     \/ at = "encoder" /\ caches /\ LoadRaises("encoder")
     \/ at = "transformer" /\ retains /\ LoadRaises("transformer")

EndStep ==
  /\ Validates \/ Raises
  /\ at' = "unwinds" /\ due' = 0
  /\ UNCHANGED <<phase, loadVars, stop, cancel, requestVars, localVars, fileVars, stage>>

-----------------------------------------------------------------------------
\* The finally of generate(). Closing the iterator ends the decoder, and may raise.
ClosesIterator ==
  /\ at = "unwinds"
  /\ Dispose("decoder")
  /\ failed' \in {failed, iterator # None \/ failed}
  /\ at' = "clears"
  /\ UNCHANGED <<phase, localVars, fileVars>>

ClearConditioning == source' = None /\ latent' = None

Clears ==
  /\ at = "clears"
  /\ iterator' = None /\ context' = None
  /\ ClearConditioning
  /\ at' = "unlinks"
  /\ UNCHANGED <<phase, failed, deviceVars, owned, fileVars>>

\* The scratch file's unlink may raise.
Unlinks ==
  /\ at = "unlinks"
  /\ \/ scratch' = scratch \ {owned} /\ UNCHANGED <<failed, stuck>>
     \/ /\ owned # None
        /\ failed' = TRUE
        /\ stuck' = stuck \cup {owned}
        /\ UNCHANGED scratch
  /\ at' = "parks"
  /\ UNCHANGED <<phase, deviceVars, localVars>>

\* Nothing has been raised: the transformer is parked, which may raise itself.
Returns ==
  /\ at = "parks" /\ ~failed
  /\ \/ Park("transformer") /\ phase' = "idle"
     \/ "transformer" \in onGpu /\ UNCHANGED deviceVars /\ phase' = "failed"
  /\ at' = "idle"
  /\ UNCHANGED <<failed, localVars, fileVars>>

Fails ==
  /\ at = "parks" /\ failed
  /\ phase' = "failed" /\ at' = "idle"
  /\ UNCHANGED <<failed, deviceVars, localVars, fileVars>>

UnwindStep ==
  /\ ClosesIterator \/ Clears \/ Unlinks \/ Returns \/ Fails
  /\ UNCHANGED <<loadVars, stop, cancel, requestVars, stageVars>>

\* close(), by the owner: of a runtime that failed, of one that is to be replaced, at
\* the end.
Close ==
  /\ phase \in {"idle", "failed"}
  /\ phase' = "absent"
  /\ source' = None /\ latent' = None /\ context' = None /\ iterator' = None
  /\ gpu' = {} /\ onGpu' = {}
  /\ UNCHANGED <<loadVars, at, failed, stop, cancel, requestVars, owned, fileVars, stageVars>>

-----------------------------------------------------------------------------
\* The loop's side: DELETE, stop(), a task that is cancelled while it awaits. What is set
\* stays set, but the next request comes with an event of its own.
CancelJob == cancel' \in IF phase = "busy" THEN {cancel, TRUE} ELSE BOOLEAN
BeginShutdown == stop' \in {stop, TRUE}

EventStep ==
  /\ CancelJob /\ BeginShutdown
  /\ UNCHANGED <<phase, loadVars, at, failed, requestVars, deviceVars, localVars, fileVars,
                 stageVars>>

ThreadStep == LoadStep \/ GenerateStep \/ EndStep \/ UnwindStep
Next == Constructs \/ Generate \/ Close \/ ThreadStep \/ EventStep

Spec == Init /\ [][Next]_vars
FairSpec == Spec /\ WF_vars(ThreadStep)

-----------------------------------------------------------------------------
ControlTypeOK ==
  /\ phase \in {"absent", "loading", "idle", "busy", "failed"}
  /\ at \in {"idle"} \cup Loading \cup Generating \cup Unwinding
  /\ failed \in BOOLEAN /\ stop \in BOOLEAN /\ cancel \in BOOLEAN
  /\ stage \in 0..4 /\ due \in 0..4

DeviceTypeOK ==
  /\ workflow \in Workflows
  /\ retains \in BOOLEAN /\ caches \in BOOLEAN
  /\ gpu \subseteq Models
  /\ onGpu \subseteq Retained

RequestTypeOK ==
  /\ request \in 0..MaxRequests
  /\ kind \in {"plain", "audio", "reference", "retake", "normalized"}
  /\ source \in 0..MaxRequests /\ latent \in 0..MaxRequests
  /\ context \in 0..MaxRequests /\ iterator \in 0..MaxRequests
  /\ owned \in 0..MaxRequests
  /\ scratch \subseteq Requests /\ stuck \subseteq Requests

TypeOK == ControlTypeOK /\ DeviceTypeOK /\ RequestTypeOK

\* There is no room for two of text encoder, transformer and video decoder, on any
\* path through load() and generate() and after any exception.
OneResident == \A m, n \in gpu : m = n

\* A model that is used is where it is used: the flags of parked and retained models
\* say the truth.
UsedOnDevice ==
  /\ at = "encodes" => "encoder" \in gpu
  /\ at \in {"stage", "step"} => "transformer" \in gpu

\* What is on the GPU is what is being used, and nothing large beside it.
ResidencyExact == OneResident /\ UsedOnDevice

\* A request is conditioned on its own audio or on none.
OwnConditioning ==
  at \in Generating \ (Preparing \cup {"checks"}) =>
    /\ latent = IF kind = "audio" THEN request ELSE None
    /\ source = latent

\* Between requests nothing of a request is left in the runtime, whatever raised, and
\* no scratch file but those whose own unlink raised.
NothingSurvives ==
  phase # "busy" =>
    /\ source = None /\ latent = None /\ context = None /\ iterator = None
    /\ scratch \subseteq stuck
    /\ phase = "idle" => gpu = {}

\* A runtime serves many requests, and none meets anything of another.
RequestsIsolated == OwnConditioning /\ NothingSurvives

\* The stages of a request are reported in order, however often upstream comes by.
StagesAscend == [][phase = "busy" => stage' >= stage]_vars

\* Steps that the thread takes at most once an event is set, from position p and with d
\* due: until something looks at it, or raises, and through the finally.
StepsLeft(p, d) ==
  IF d # 0 THEN 9 ELSE
  CASE p = "transformer" -> 8
    [] p \in {"listens", "encoder", "stage", "video"} -> 7
    [] p \in {"inputs", "hears", "touches", "encodes", "step", "staged", "room", "decoded",
               "chunks"} -> 6
    [] p \in {"checks", "prompt", "prompted", "decodes", "chunk", "flushes", "copies",
               "validates"} -> 5
    [] p = "unwinds" -> 4
    [] p = "clears" -> 3
    [] p = "unlinks" -> 2
    [] p = "parks" -> 1
    [] OTHER -> 0

\* A generation whose job is cancelled, or whose server is to stop, winds down from
\* wherever it is: it gets closer to its end with each step, round no loop of upstream's
\* again, and begins no other generation. What it had looked at the events for by then it
\* still does, once: it sets and posts the stage that was due, and creates the scratch
\* file it was about to create. It comes to no other.
RevokedWindsDown ==
  [][phase = "busy" /\ (cancel \/ stop) =>
       \/ EventStep
       \/ /\ StepsLeft(at', due') < StepsLeft(at, due)
          /\ due' = 0 /\ (stage' # stage => due # 0 /\ stage' = due)
          /\ scratch' \subseteq scratch \cup {request}
          /\ at = "touches" \/ scratch' \subseteq scratch
          /\ request' = request]_vars

\* A cancelled generation ends.
CancelledEnds == phase = "busy" /\ cancel ~> phase # "busy"
=============================================================================
