----------------------------- MODULE MCRequest ------------------------------
(***************************************************************************)
(* Requests for TLC: every duration at every rate, and every combination   *)
(* of inputs at the durations where rounding goes up, down and either way. *)
(***************************************************************************)
EXTENDS GenerationRequest

CONSTANTS a1, a2

Plain(duration, fps) ==
  [duration |-> duration, fps |-> fps, first |-> NoAsset, last |-> NoAsset,
   keyframes |-> {}, audio |-> NoAsset, reference |-> NoAsset,
   video |-> NoAsset, start |-> 0, end |-> 1, normalize |-> FALSE]

Timings == {Plain(d, f) : d \in Durations \cup {Default}, f \in Rates \cup {Default}}

Few == {Plain(d, f) : d \in {Default, 4, 5, 80}, f \in {Default, 24, 30}}

Optional == Assets \cup {NoAsset}

\* The first frame, the last two of the shortest clip, the first behind it.
Positions == {0, 23, 24, 25}
KeyframesOfTwo == {{}} \cup {{k, l} : k, l \in Assets \X Positions}

Conditioned ==
  {[p EXCEPT !.first = f, !.last = l, !.keyframes = ks, !.audio = a, !.reference = r] :
     p \in Few, f \in Optional, l \in Optional, ks \in KeyframesOfTwo,
     a \in {NoAsset, a1}, r \in Optional}

Retaken ==
  {[p EXCEPT !.video = v, !.start = s, !.end = e, !.normalize = n, !.first = f] :
     p \in Few, v \in Assets, s \in {0, 4, 5}, e \in {4, 5, 80, 81}, n \in BOOLEAN,
     f \in {NoAsset, a1}}

\* A quarter of a second is the unit.
MCDurations == 4 .. 80

MCSettings == {[duration |-> 5, fps |-> f, longest |-> l] : f \in Rates, l \in {5, 80}}

MCRequests == Timings \cup Conditioned \cup Retaken
=============================================================================
