------------------------- MODULE GenerationRequest --------------------------
(***************************************************************************)
(* How a request becomes what is generated: the validators of              *)
(* schemas/generation.py, normalize_request under the server's settings,   *)
(* what the specification leases, and the images and media that            *)
(* inference/conditioning.py and inference/runtime.py then ask for.        *)
(*                                                                         *)
(* Durations and times are whole numbers of 1/Unit seconds. What no later  *)
(* step depends on (prompt, seed, strengths, resolution) is left out.      *)
(***************************************************************************)
EXTENDS Integers

CONSTANTS Unit,      \* parts a second is divided into
          Durations, \* durations a client may ask for or the settings may have
          Assets,    \* ids of uploaded assets
          NoAsset,   \* None where an asset may stand
          Requests,  \* the bodies clients send
          Configured \* the settings a server may run with

Rates == {24, 25, 30}

\* None where a duration or a rate may stand.
Default == 0

\* A body whose fields have passed one by one. A keyframe is a pair of asset and
\* frame; there is a retake if there is a video to retake.
Body ==
  [duration : Durations \cup {Default}, fps : Rates \cup {Default},
   first : Assets \cup {NoAsset}, last : Assets \cup {NoAsset},
   keyframes : SUBSET (Assets \X Nat),
   audio : Assets \cup {NoAsset}, reference : Assets \cup {NoAsset},
   video : Assets \cup {NoAsset}, start : 0 .. 20 * Unit - 1, end : 1 .. 21 * Unit,
   normalize : BOOLEAN]

\* default_duration_seconds, default_fps and max_duration_seconds, as validate_limits
\* of config.py accepts them.
Settings ==
  {s \in [duration : Durations, fps : Rates, longest : Durations] : s.duration <= s.longest}

ASSUME RequestAssumption ==
  /\ Unit \in Nat \ {0}
  /\ Durations \subseteq Unit .. 20 * Unit
  /\ NoAsset \notin Assets
  /\ Requests \subseteq Body
  /\ Configured \subseteq Settings

VARIABLES settings, \* of this server
          request,  \* the GenerationRequest
          frames,   \* spec.frames; the rest of the GenerationSpec is request, completed
          stage,    \* how far it has come, or how it ended
          leased,   \* spec.assets(): pairs of asset and the kind it is leased as
          images    \* image_inputs(): pairs of asset and frame

vars == <<settings, request, frames, stage, leased, images>>

Kinds == {"image", "audio", "video"}
Refused == {"invalid", "too long", "outside", "conflicting"}
Specified == {"specified", "admitted", "generating", "conflicting"}

TypeOK ==
  /\ settings \in Settings
  /\ request \in Body
  /\ frames \in Nat
  /\ stage \in {"received", "valid", "broken"} \cup Refused \cup Specified
  /\ leased \subseteq Assets \X Kinds
  /\ images \subseteq Assets \X Nat

Init ==
  /\ settings \in Configured
  /\ request \in Requests
  /\ frames = 0
  /\ stage = "received"
  /\ leased = {}
  /\ images = {}

-----------------------------------------------------------------------------
\* Mutant: half a block is rounded down.
frame_count_TiesDown(duration, fps) ==
  LET blocks == (duration * fps + 3 * Unit - 1) \div (8 * Unit)
  IN (IF blocks < 1 THEN 1 ELSE blocks) * 8 + 1

\* floor((duration * fps - 1) / 8 + 0.5) blocks of eight frames, at least one, and one
\* frame.
frame_count(duration, fps) ==
  LET blocks == (duration * fps + 3 * Unit) \div (8 * Unit)
  IN (IF blocks < 1 THEN 1 ELSE blocks) * 8 + 1

Retakes(r) == r.video # NoAsset

\* Retake.validate_window.
validate_window(r) == Retakes(r) => r.start < r.end

\* Mutant: only a keyframe given twice over is refused.
DistinctPositions_PerAsset(r) == \A k, l \in r.keyframes : k = l => k[2] = l[2]

DistinctPositions(r) == \A k, l \in r.keyframes : k[2] = l[2] => k = l

\* GenerationRequest.validate_conditioning: what excludes what.
validate_conditioning(r) ==
  /\ r.reference = NoAsset \/ r.audio = NoAsset
  /\ Retakes(r) => /\ r.reference = NoAsset /\ r.audio = NoAsset
                   /\ r.first = NoAsset /\ r.last = NoAsset /\ r.keyframes = {}
                   /\ r.normalize => r.fps \in {Default, 24}
  /\ r.last # NoAsset => r.first # NoAsset
  /\ r.keyframes # {} => r.first = NoAsset /\ r.last = NoAsset
  /\ DistinctPositions(r)

ValidBody(r) == validate_window(r) /\ validate_conditioning(r)

-----------------------------------------------------------------------------
\* Mutant: the rate of a prepared source is left to the settings.
Completed_AnyRate(r) ==
  [r EXCEPT !.duration = IF r.duration = Default THEN settings.duration ELSE r.duration,
            !.fps = IF r.fps = Default THEN settings.fps ELSE r.fps]

\* The values normalize_request fills in. A source that is prepared is at 24 FPS.
Completed(r) ==
  [r EXCEPT !.duration = IF r.duration = Default THEN settings.duration ELSE r.duration,
            !.fps = IF Retakes(r) /\ r.normalize THEN 24
                    ELSE IF r.fps = Default THEN settings.fps ELSE r.fps]

\* The body is parsed; 422 if it breaks a rule.
Parse ==
  /\ stage = "received"
  /\ stage' = IF ValidBody(request) THEN "valid" ELSE "invalid"
  /\ UNCHANGED <<settings, request, frames, leased, images>>

\* normalize_request: refused with 422, or completed and validated again as a
\* GenerationSpec; what fails there is no ServiceError but an internal error.
Normalize ==
  LET whole == Completed(request)
      count == frame_count(whole.duration, whole.fps)
  IN
  /\ stage = "valid"
  /\ \/ /\ whole.duration > settings.longest
        /\ stage' = "too long"
        /\ UNCHANGED <<request, frames>>
     \/ /\ whole.duration <= settings.longest
        /\ \/ Retakes(whole) /\ whole.end * whole.fps > count * Unit
           \/ \E k \in whole.keyframes : k[2] >= count
        /\ stage' = "outside"
        /\ UNCHANGED <<request, frames>>
     \/ /\ whole.duration <= settings.longest
        /\ Retakes(whole) => whole.end * whole.fps <= count * Unit
        /\ \A k \in whole.keyframes : k[2] < count
        /\ request' = whole
        /\ frames' = count
        /\ stage' = IF ValidBody(whole) THEN "specified" ELSE "broken"
  /\ UNCHANGED <<settings, leased, images>>

-----------------------------------------------------------------------------
\* Mutant: the image of the last frame is forgotten.
Uses_First(r) ==
  {<<a, "image">> : a \in {r.first} \ {NoAsset}}
    \cup {<<k[1], "image">> : k \in r.keyframes}
    \cup {<<a, "audio">> : a \in {r.audio} \ {NoAsset}}
    \cup {<<a, "video">> : a \in {r.reference, r.video} \ {NoAsset}}

\* The entries of spec.assets(), before two of one asset are found to conflict.
Uses(r) ==
  {<<a, "image">> : a \in {r.first, r.last} \ {NoAsset}}
    \cup {<<k[1], "image">> : k \in r.keyframes}
    \cup {<<a, "audio">> : a \in {r.audio} \ {NoAsset}}
    \cup {<<a, "video">> : a \in {r.reference, r.video} \ {NoAsset}}

Conflicting(uses) == \E u, v \in uses : u[1] = v[1] /\ u[2] # v[2]

\* submit(): the inputs are leased, each as one kind, or the request is refused.
Admit ==
  /\ stage = "specified"
  /\ IF Conflicting(Uses(request)) THEN stage' = "conflicting" /\ UNCHANGED leased
                                   ELSE stage' = "admitted" /\ leased' = Uses(request)
  /\ UNCHANGED <<settings, request, frames, images>>

\* image_inputs(), before they are sorted by frame.
Targets(r, count) ==
  r.keyframes
    \cup {<<a, 0>> : a \in {r.first} \ {NoAsset}}
    \cup {<<a, count - 1>> : a \in {r.last} \ {NoAsset}}

\* The generation begins and asks for its images.
Generate ==
  /\ stage = "admitted"
  /\ stage' = "generating"
  /\ images' = Targets(request, frames)
  /\ UNCHANGED <<settings, request, frames, leased>>

Next == Parse \/ Normalize \/ Admit \/ Generate

Spec == Init /\ [][Next]_vars

-----------------------------------------------------------------------------
Distance(a, b) == IF a < b THEN b - a ELSE a - b

\* Bound: clips that a count is compared with.
Blocks == 1 .. 80

\* The clip is as long as asked for, to the nearest count of 8k + 1 frames a latent
\* block allows; of two that are as near it is the longer one.
FramesNearest ==
  stage \in Specified =>
    LET asked == request.duration * request.fps
        off == Distance(frames * Unit, asked)
        Other(k) == Distance((8 * k + 1) * Unit, asked)
    IN
    /\ \E k \in Blocks : frames = 8 * k + 1
    /\ \A k \in Blocks : off < Other(k) \/ (off = Other(k) /\ 8 * k + 1 <= frames)

\* What the settings complete is a specification: a request that passed the rules
\* and the limits never fails its second validation, an internal error to the client.
SpecRevalidates == stage # "broken"

\* Rounding to whole blocks puts nothing outside the clip: a retake's window ends in
\* it, and images have frames of their own in it, so that sorting orders them fully.
InsideClip ==
  /\ stage \in Specified /\ Retakes(request) =>
       request.start < request.end /\ request.end * request.fps <= frames * Unit
  /\ \A i, k \in images : i[2] < frames /\ (i[2] = k[2] => i = k)

\* Whatever a generation reads was leased for it, as what it is read as, and as
\* nothing else.
ReadsLeased ==
  stage = "generating" =>
    /\ {<<i[1], "image">> : i \in images} \subseteq leased
    /\ request.audio # NoAsset => <<request.audio, "audio">> \in leased
    /\ request.reference # NoAsset => <<request.reference, "video">> \in leased
    /\ Retakes(request) => <<request.video, "video">> \in leased
    /\ \A u, v \in leased : u[1] = v[1] => u = v
=============================================================================
