--------------------------- MODULE Request_proofs ---------------------------
(***************************************************************************)
(* Theorems about GenerationRequest: for any requests and settings the     *)
(* code accepts one field at a time, and any fraction of a second.         *)
(***************************************************************************)
EXTENDS GenerationRequest, TLAPS

\* What a specification is: the rules hold again, the count is that of its duration
\* and rate, and nothing it names lies behind the clip.
SpecShape ==
  stage \in Specified =>
    /\ ValidBody(request)
    /\ request.duration \in Durations
    /\ request.fps \in Rates
    /\ frames = frame_count(request.duration, request.fps)
    /\ Retakes(request) => request.end * request.fps <= frames * Unit
    /\ \A k \in request.keyframes : k[2] < frames

\* What is leased and asked for is of this specification, and nothing else is yet.
InputShape ==
  /\ stage = "valid" => ValidBody(request)
  /\ stage \in {"admitted", "generating"} =>
       leased = Uses(request) /\ ~Conflicting(Uses(request))
  /\ images = IF stage = "generating" THEN Targets(request, frames) ELSE {}

RequestInv == TypeOK /\ SpecShape /\ InputShape /\ SpecRevalidates

-----------------------------------------------------------------------------
\* Division rounds down.
LEMMA DivBounds ==
  ASSUME NEW a \in Nat, NEW b \in Nat, b > 0
  PROVE  /\ a \div b \in Nat
         /\ b * (a \div b) <= a
         /\ a < b * (a \div b) + b
OBVIOUS

\* The frames of k blocks in units of time, so that the rest is linear.
LEMMA FramesInUnits ==
  ASSUME NEW u \in Nat, NEW k \in Nat
  PROVE  (8 * k + 1) * u = (8 * u) * k + u
OBVIOUS

\* At least 24 frames are at least one block.
LEMMA OneBlockAtLeast ==
  ASSUME NEW u \in Nat, u > 0, NEW k \in Nat, NEW x \in Nat,
         x >= 24 * u, x + 3 * u < (8 * u) * k + 8 * u
  PROVE  k >= 1
OBVIOUS

\* At most 600 frames are at most 80 blocks.
LEMMA BlocksAtMost ==
  ASSUME NEW u \in Nat, u > 0, NEW k \in Nat, NEW x \in Nat,
         x <= 600 * u, (8 * u) * k <= x + 3 * u
  PROVE  k <= 80
OBVIOUS

\* Another count is a whole block or more away.
LEMMA BlocksApart ==
  ASSUME NEW u \in Nat, u > 0, NEW k \in Nat, NEW m \in Nat
  PROVE  /\ k < m => (8 * u) * k + 8 * u <= (8 * u) * m
         /\ m < k => (8 * u) * m + 8 * u <= (8 * u) * k
<1>1. k < m => 8 * u <= (8 * u) * (m - k)
      OBVIOUS
<1>2. m < k => 8 * u <= (8 * u) * (k - m)
      OBVIOUS
<1>3. (8 * u) * (m - k) = (8 * u) * m - (8 * u) * k
      OBVIOUS
<1>4. (8 * u) * (k - m) = (8 * u) * k - (8 * u) * m
      OBVIOUS
<1> QED BY <1>1, <1>2, <1>3, <1>4

\* A clip of 1 to 20 seconds at 24 to 30 frames a second.
LEMMA AskedBounds ==
  ASSUME NEW d \in Durations, NEW f \in Rates
  PROVE  /\ d * f \in Nat
         /\ 24 * Unit <= d * f /\ d * f <= 600 * Unit
<1>1. d \in Nat /\ Unit \in Nat /\ Unit <= d /\ d <= 20 * Unit
      BY RequestAssumption
<1>2. f \in {24, 25, 30}
      BY DEF Rates
<1> QED BY <1>1, <1>2

\* frame_count returns a whole number of blocks and one frame, within half a block of
\* what was asked for, on the longer side only when exactly half.
LEMMA frame_countIs ==
  ASSUME NEW d \in Durations, NEW f \in Rates
  PROVE  \E k \in Blocks :
           /\ frame_count(d, f) = 8 * k + 1
           /\ (8 * Unit) * k <= d * f + 3 * Unit
           /\ d * f + 3 * Unit < (8 * Unit) * k + 8 * Unit
<1> DEFINE x == d * f
           k == (x + 3 * Unit) \div (8 * Unit)
<1>1. x \in Nat /\ 24 * Unit <= x /\ x <= 600 * Unit
      BY AskedBounds
<1>2. Unit \in Nat /\ Unit > 0 /\ 8 * Unit \in Nat /\ 8 * Unit > 0 /\ x + 3 * Unit \in Nat
      BY <1>1, RequestAssumption
<1>3. /\ k \in Nat
      /\ (8 * Unit) * k <= x + 3 * Unit
      /\ x + 3 * Unit < (8 * Unit) * k + 8 * Unit
      BY <1>2, DivBounds
<1> HIDE DEF k
<1>4. k >= 1
      BY <1>1, <1>2, <1>3, OneBlockAtLeast
<1>5. k <= 80
      BY <1>1, <1>2, <1>3, BlocksAtMost
<1>6. frame_count(d, f) = 8 * k + 1
  <2>1. frame_count(d, f) = (IF k < 1 THEN 1 ELSE k) * 8 + 1
        BY DEF frame_count, k
  <2> QED BY <2>1, <1>3, <1>4
<1> QED BY <1>3, <1>4, <1>5, <1>6 DEF Blocks

-----------------------------------------------------------------------------
\* What normalize_request completes has a duration and a rate, and otherwise the
\* fields of the body; the rules still hold of it, the one about the rate included.
LEMMA CompletedBody ==
  ASSUME NEW r \in Body, settings \in Settings, ValidBody(r)
  PROVE  /\ Completed(r) \in Body
         /\ Completed(r).duration \in Durations
         /\ Completed(r).fps \in Rates
         /\ ValidBody(Completed(r))
<1> DEFINE w == Completed(r)
<1>1. /\ settings.duration \in Durations /\ settings.fps \in Rates
      /\ r.duration \in Durations \cup {Default} /\ r.fps \in Rates \cup {Default}
      BY DEF Settings, Body
<1>2. w.duration \in Durations
      BY <1>1 DEF Completed, Body
<1>3. w.fps \in Rates
      BY <1>1 DEF Completed, Body, Rates
<1>4. /\ w.first = r.first /\ w.last = r.last /\ w.keyframes = r.keyframes
      /\ w.audio = r.audio /\ w.reference = r.reference
      /\ w.video = r.video /\ w.start = r.start /\ w.end = r.end
      /\ w.normalize = r.normalize
      BY DEF Completed, Body
<1>5. w \in Body
  <2> DEFINE d == IF r.duration = Default THEN settings.duration ELSE r.duration
             f == IF Retakes(r) /\ r.normalize THEN 24
                  ELSE IF r.fps = Default THEN settings.fps ELSE r.fps
  <2>1. w = [r EXCEPT !.duration = d, !.fps = f]
        BY DEF Completed
  <2>2. d \in Durations /\ f \in Rates
    <3>1. d \in Durations
          BY <1>1
    <3>2. f \in Rates
          BY <1>1 DEF Rates
    <3> QED BY <3>1, <3>2
  <2> HIDE DEF d, f, w
  <2> QED BY <2>1, <2>2 DEF Body
<1>6. Retakes(w) /\ w.normalize => w.fps = 24
      BY <1>4 DEF Completed, Body, Retakes
<1> HIDE DEF w
<1>7. ValidBody(w)
      BY <1>4, <1>6 DEF ValidBody, validate_window, validate_conditioning,
         DistinctPositions, Retakes
<1> QED BY <1>2, <1>3, <1>5, <1>7 DEF w

\* frame_count is a number of frames.
LEMMA frame_countNat ==
  ASSUME NEW d \in Durations, NEW f \in Rates
  PROVE  frame_count(d, f) \in Nat /\ frame_count(d, f) >= 9
<1>1. PICK k \in Blocks : frame_count(d, f) = 8 * k + 1
      BY frame_countIs
<1> QED BY <1>1 DEF Blocks

-----------------------------------------------------------------------------
\* Parsing changes the stage only.
LEMMA ParseStep ==
  ASSUME RequestInv, Parse
  PROVE  RequestInv'
<1>1. UNCHANGED <<settings, request, frames, leased, images>> /\ stage = "received"
      BY DEF Parse
<1>2. stage' = "invalid" \/ (stage' = "valid" /\ ValidBody(request))
      BY DEF Parse
<1>3. TypeOK'
      BY <1>1, <1>2 DEF RequestInv, TypeOK, Refused
<1>4. SpecShape' /\ SpecRevalidates'
      BY <1>2 DEF SpecShape, SpecRevalidates, Specified
<1>5. InputShape'
      BY <1>1, <1>2 DEF RequestInv, InputShape, ValidBody, validate_window,
         validate_conditioning, DistinctPositions, Retakes
<1> QED BY <1>3, <1>4, <1>5 DEF RequestInv

\* Normalisation refuses, or ends in a specification: never in a broken one.
LEMMA NormalizeStep ==
  ASSUME RequestInv, Normalize
  PROVE  RequestInv'
<1> DEFINE w == Completed(request)
           n == frame_count(w.duration, w.fps)
<1>1. request \in Body /\ settings \in Settings /\ ValidBody(request) /\ stage = "valid"
      BY DEF RequestInv, TypeOK, InputShape, Normalize
<1>2. /\ w \in Body /\ w.duration \in Durations /\ w.fps \in Rates /\ ValidBody(w)
      BY <1>1, CompletedBody
<1>3. n \in Nat
      BY <1>2, frame_countNat
<1>4. UNCHANGED <<settings, leased, images>> /\ images = {}
      BY <1>1 DEF RequestInv, InputShape, Normalize
<1>5. CASE stage' \in {"too long", "outside"} /\ UNCHANGED <<request, frames>>
  <2>1. TypeOK'
        BY <1>4, <1>5 DEF RequestInv, TypeOK, Refused
  <2>2. SpecShape' /\ SpecRevalidates'
        BY <1>5 DEF SpecShape, SpecRevalidates, Specified
  <2>3. InputShape'
        BY <1>4, <1>5 DEF InputShape
  <2> QED BY <2>1, <2>2, <2>3 DEF RequestInv
<1>6. CASE /\ Retakes(w) => w.end * w.fps <= n * Unit
           /\ \A k \in w.keyframes : k[2] < n
           /\ request' = w /\ frames' = n
           /\ stage' = IF ValidBody(w) THEN "specified" ELSE "broken"
  <2>1. stage' = "specified"
        BY <1>2, <1>6
  <2> HIDE DEF w, n
  <2>2. TypeOK'
        BY <1>2, <1>3, <1>4, <1>6, <2>1 DEF RequestInv, TypeOK, Specified
  <2>3. frames' = frame_count(request'.duration, request'.fps)
        BY <1>6 DEF n
  <2>4. SpecShape'
        BY <1>2, <1>6, <2>1, <2>3 DEF SpecShape, ValidBody, validate_window,
           validate_conditioning, DistinctPositions, Retakes
  <2>5. InputShape' /\ SpecRevalidates'
        BY <1>4, <2>1 DEF InputShape, SpecRevalidates
  <2> QED BY <2>2, <2>4, <2>5 DEF RequestInv
<1> QED BY <1>5, <1>6 DEF Normalize

\* Admission leases the uses of the specification unless two of them conflict.
LEMMA AdmitStep ==
  ASSUME RequestInv, Admit
  PROVE  RequestInv'
<1>1. UNCHANGED <<settings, request, frames, images>> /\ stage = "specified"
      BY DEF Admit
<1>2. Uses(request) \subseteq Assets \X Kinds
      BY DEF RequestInv, TypeOK, Body, Uses, Kinds
<1>3. \/ stage' = "conflicting" /\ leased' = leased
      \/ stage' = "admitted" /\ leased' = Uses(request) /\ ~Conflicting(Uses(request))
      BY DEF Admit
<1>4. TypeOK'
      BY <1>1, <1>2, <1>3 DEF RequestInv, TypeOK, Refused, Specified
<1>5. SpecShape'
      BY <1>1, <1>3 DEF RequestInv, SpecShape, Specified, ValidBody, validate_window,
         validate_conditioning, DistinctPositions, Retakes, frame_count
<1>6. Uses(request)' = Uses(request)
      BY <1>1 DEF Uses
<1>7. InputShape'
      BY <1>1, <1>3, <1>6 DEF RequestInv, InputShape
<1>8. SpecRevalidates'
      BY <1>3 DEF SpecRevalidates
<1> QED BY <1>4, <1>5, <1>7, <1>8 DEF RequestInv

\* The generation asks for the images of its specification.
LEMMA GenerateStep ==
  ASSUME RequestInv, Generate
  PROVE  RequestInv'
<1>1. /\ UNCHANGED <<settings, request, frames, leased>> /\ stage = "admitted"
      /\ stage' = "generating" /\ images' = Targets(request, frames)
      BY DEF Generate
<1>2. frames \in Nat /\ frames >= 9
      BY <1>1, frame_countNat DEF RequestInv, SpecShape, Specified
<1>3. Targets(request, frames) \subseteq Assets \X Nat
  <2>1. request.keyframes \subseteq Assets \X Nat
        BY DEF RequestInv, TypeOK, Body
  <2>2. \A a \in {request.first, request.last} \ {NoAsset} : a \in Assets
        BY DEF RequestInv, TypeOK, Body
  <2>3. 0 \in Nat /\ frames - 1 \in Nat
        BY <1>2
  <2> QED BY <2>1, <2>2, <2>3 DEF Targets
<1>4. TypeOK'
      BY <1>1, <1>3 DEF RequestInv, TypeOK, Specified
<1>5. SpecShape'
      BY <1>1 DEF RequestInv, SpecShape, Specified, ValidBody, validate_window,
         validate_conditioning, DistinctPositions, Retakes, frame_count
<1>6. Uses(request)' = Uses(request) /\ Targets(request, frames)' = Targets(request, frames)
      BY <1>1 DEF Uses, Targets
<1>7. InputShape'
      BY <1>1, <1>6 DEF RequestInv, InputShape
<1>8. SpecRevalidates'
      BY <1>1 DEF SpecRevalidates
<1> QED BY <1>4, <1>5, <1>7, <1>8 DEF RequestInv

\* The strengthening is an invariant.
LEMMA RequestInvHolds == Spec => []RequestInv
<1>1. Init => RequestInv
  <2> SUFFICES ASSUME Init PROVE RequestInv
      OBVIOUS
  <2>1. TypeOK
        BY RequestAssumption DEF Init, TypeOK
  <2> QED BY <2>1 DEF Init, RequestInv, SpecShape, InputShape, SpecRevalidates, Specified
<1>2. RequestInv /\ [Next]_vars => RequestInv'
  <2> SUFFICES ASSUME RequestInv, [Next]_vars PROVE RequestInv'
      OBVIOUS
  <2>1. CASE Next
        BY <2>1, ParseStep, NormalizeStep, AdmitStep, GenerateStep DEF Next
  <2>2. CASE UNCHANGED vars
    <3>1. UNCHANGED <<settings, request, frames, stage, leased, images>>
          BY <2>2 DEF vars
    <3> QED BY <3>1 DEF RequestInv, TypeOK, SpecShape, InputShape, SpecRevalidates,
               ValidBody, validate_window, validate_conditioning, DistinctPositions,
               Retakes, frame_count, Uses, Targets, Conflicting
  <2> QED BY <2>1, <2>2
<1> QED BY <1>1, <1>2, PTL DEF Spec

-----------------------------------------------------------------------------
\* Type correctness of the request's way.
THEOREM RequestTyped == Spec => []TypeOK
<1>1. RequestInv => TypeOK
      BY DEF RequestInv
<1> QED BY <1>1, RequestInvHolds, PTL

\* frame_count rounds to the nearest clip of whole latent blocks, ties to the longer.
THEOREM NearestClip == Spec => []FramesNearest
<1>1. RequestInv => FramesNearest
  <2> SUFFICES ASSUME RequestInv, stage \in Specified,
                      NEW asked, asked = request.duration * request.fps
               PROVE  /\ \E k \in Blocks : frames = 8 * k + 1
                      /\ \A m \in Blocks :
                           \/ Distance(frames * Unit, asked)
                                < Distance((8 * m + 1) * Unit, asked)
                           \/ /\ Distance(frames * Unit, asked)
                                   = Distance((8 * m + 1) * Unit, asked)
                              /\ 8 * m + 1 <= frames
      BY DEF FramesNearest
  <2>1. request.duration \in Durations /\ request.fps \in Rates
        BY DEF RequestInv, SpecShape
  <2>2. asked \in Nat /\ Unit \in Nat /\ Unit > 0
    <3>1. request.duration * request.fps \in Nat
          BY <2>1, AskedBounds
    <3>2. Unit \in Nat /\ Unit > 0
          BY RequestAssumption
    <3> QED BY <3>1, <3>2
  <2>3. PICK k \in Blocks : /\ frames = 8 * k + 1
                            /\ (8 * Unit) * k <= asked + 3 * Unit
                            /\ asked + 3 * Unit < (8 * Unit) * k + 8 * Unit
        BY <2>1, frame_countIs DEF RequestInv, SpecShape
  <2>4. k \in Nat /\ frames * Unit = (8 * Unit) * k + Unit
        BY <2>2, <2>3, FramesInUnits DEF Blocks
  <2>5. ASSUME NEW m \in Blocks
        PROVE  \/ Distance(frames * Unit, asked) < Distance((8 * m + 1) * Unit, asked)
               \/ /\ Distance(frames * Unit, asked) = Distance((8 * m + 1) * Unit, asked)
                  /\ 8 * m + 1 <= frames
    <3> DEFINE mine == (8 * Unit) * k
               other == (8 * Unit) * m
    <3>1. m \in Nat /\ (8 * m + 1) * Unit = other + Unit
          BY <2>2, FramesInUnits DEF Blocks
    <3>2. (k < m => mine + 8 * Unit <= other) /\ (m < k => other + 8 * Unit <= mine)
          BY <2>2, <2>4, <3>1, BlocksApart
    <3>3. mine \in Nat /\ other \in Nat
          BY <2>2, <2>4, <3>1
    <3>4. m = k => mine = other
          OBVIOUS
    <3>5. mine <= asked + 3 * Unit /\ asked + 3 * Unit < mine + 8 * Unit
          BY <2>3
    <3>6. frames * Unit = mine + Unit
          BY <2>4
    <3> HIDE DEF mine, other
    <3>7. CASE m = k
          BY <2>2, <2>3, <2>4, <3>1, <3>3, <3>4, <3>6, <3>7 DEF Distance
    <3>8. CASE k < m
          BY <2>2, <3>1, <3>2, <3>3, <3>5, <3>6, <3>8 DEF Distance
    <3>9. CASE m < k
      <4>1. 8 * m + 1 <= frames
            BY <2>3, <2>4, <3>1, <3>9
      <4> QED BY <2>2, <3>1, <3>2, <3>3, <3>5, <3>6, <3>9, <4>1 DEF Distance
    <3> QED BY <2>4, <3>1, <3>7, <3>8, <3>9
  <2> QED BY <2>3, <2>5
<1> QED BY <1>1, RequestInvHolds, PTL

\* A request that passed the rules and the limits is a specification.
THEOREM SecondValidation == Spec => []SpecRevalidates
<1>1. RequestInv => SpecRevalidates
      BY DEF RequestInv
<1> QED BY <1>1, RequestInvHolds, PTL

\* The window of a retake and the images lie in the clip, each image on its own frame.
THEOREM NothingOutside == Spec => []InsideClip
<1>1. RequestInv => InsideClip
  <2> SUFFICES ASSUME RequestInv PROVE InsideClip
      OBVIOUS
  <2>1. stage \in Specified /\ Retakes(request) =>
          request.start < request.end /\ request.end * request.fps <= frames * Unit
        BY DEF RequestInv, SpecShape, ValidBody, validate_window
  <2>2. ASSUME NEW i \in images, NEW k \in images
        PROVE  i[2] < frames /\ (i[2] = k[2] => i = k)
    <3>1. stage = "generating" /\ images = Targets(request, frames)
          BY <2>2 DEF RequestInv, InputShape
    <3>2. /\ frames >= 9 /\ frames \in Nat
          BY <3>1, frame_countNat DEF RequestInv, SpecShape, Specified
    <3>3. /\ \A t \in request.keyframes : t[2] < frames
          /\ validate_conditioning(request)
          BY <3>1 DEF RequestInv, SpecShape, Specified, ValidBody
    <3>4. CASE request.keyframes # {}
      <4>1. images = request.keyframes
            BY <3>1, <3>3, <3>4 DEF Targets, validate_conditioning
      <4> QED BY <4>1, <3>3 DEF validate_conditioning, DistinctPositions
    <3>5. CASE request.keyframes = {}
      <4>1. images \subseteq {<<request.first, 0>>, <<request.last, frames - 1>>}
            BY <3>1, <3>5 DEF Targets
      <4> QED BY <4>1, <3>2
    <3> QED BY <3>4, <3>5
  <2> QED BY <2>1, <2>2 DEF InsideClip
<1> QED BY <1>1, RequestInvHolds, PTL

\* The leases of a job cover what its generation reads.
THEOREM LeasesCoverReads == Spec => []ReadsLeased
<1>1. RequestInv => ReadsLeased
  <2> SUFFICES ASSUME RequestInv, stage = "generating"
               PROVE  /\ {<<i[1], "image">> : i \in images} \subseteq leased
                      /\ request.audio # NoAsset => <<request.audio, "audio">> \in leased
                      /\ request.reference # NoAsset =>
                           <<request.reference, "video">> \in leased
                      /\ Retakes(request) => <<request.video, "video">> \in leased
                      /\ \A u, v \in leased : u[1] = v[1] => u = v
      BY DEF ReadsLeased
  <2>1. leased = Uses(request) /\ ~Conflicting(Uses(request))
        BY DEF RequestInv, InputShape
  <2>2. images = Targets(request, frames)
        BY DEF RequestInv, InputShape
  <2>3. {<<i[1], "image">> : i \in images} \subseteq leased
        BY <2>1, <2>2 DEF Targets, Uses
  <2>4. /\ request.audio # NoAsset => <<request.audio, "audio">> \in leased
        /\ request.reference # NoAsset => <<request.reference, "video">> \in leased
        /\ Retakes(request) => <<request.video, "video">> \in leased
        BY <2>1 DEF Uses, Retakes
  <2>5. \A u, v \in leased : u[1] = v[1] => u = v
    <3>1. leased \subseteq Assets \X Kinds
          BY DEF RequestInv, TypeOK
    <3> QED BY <2>1, <3>1 DEF Conflicting
  <2> QED BY <2>3, <2>4, <2>5
<1> QED BY <1>1, RequestInvHolds, PTL
=============================================================================
