---------------------------- MODULE Media_proofs ----------------------------
(***************************************************************************)
(* Theorems about MediaProcess, for any number of frames, any limits and   *)
(* any deadlines.                                                          *)
(*                                                                         *)
(* The invariant says, for every position of the thread, what has become   *)
(* of the child and what the call already knows of it.                     *)
(***************************************************************************)
EXTENDS MediaProcess, TLAPS

\* The position tells which call is under way; an error leaves its body at once.
CallShape ==
  /\ at = "idle" => todo = <<>>
  /\ at \in WorkAt \cup {"between"} => raised = "none"
  /\ at \in BoundedAt => call \in Bounded
  /\ at \in DecodeAt => call = "decode"
  /\ at \in FeedAt \cup FlushAt => call = "encode"

\* There is a child until a poll has reaped it, and only a wait outlives a kill.
ChildShape ==
  /\ at \in {"idle", "between", "decoded", "encoded"} => child = "none"
  /\ at \in WorkAt \ {"decoded", "encoded", "cancelled?", "late?", "large?"} =>
       child \in {"running", "exited"}
  /\ at \in {"cancelled?", "late?", "large?"} =>
       child \in IF finished THEN {"none"} ELSE {"running", "exited"}
  /\ child = "killed" => at = "wait"
  /\ at = "wait" => child # "running"
  /\ at \in {"finally", "wait"} /\ raised = "none" => child = "none"

\* Frames are written whole before the next is asked for.
FeedShape ==
  /\ at \in FeedAt => fed <= Frames
  /\ at = "chunk" => rest = 0
  /\ at \in FeedAt \ {"chunk"} => rest > 0
  /\ at \in FlushAt => fed = Frames /\ rest = 0

\* A revoked generation has been, or will be, looked at once more.
RevokedShape ==
  /\ revoked => cancel
  /\ revoked /\ raised = "none" /\ todo = <<>> =>
       /\ at \notin {"idle", "between", "finally", "wait"}
       /\ at \in {"late?", "large?"} => ~finished

MediaInv ==
  TypeOK /\ CallShape /\ ChildShape /\ FeedShape /\ AcceptedWhole /\ RevokedShape

-----------------------------------------------------------------------------
\* The bounds, one by one.
LEMMA BoundsPositive ==
  /\ Frames \in Nat /\ Pieces \in Nat /\ PipeRoom \in Nat /\ Limit \in Nat /\ Window \in Nat
  /\ 0 <= Frames
  /\ Frames > 0 /\ Pieces > 0 /\ PipeRoom > 0 /\ Limit > 0 /\ Window > 0
BY MediaAssumption

\* One less than a positive number is none or some.
LEMMA OneLess == \A n \in Nat : n > 0 => n - 1 = 0 \/ n - 1 > 0
OBVIOUS

\* Where a call goes from Popen is a position of its own body.
LEMMA FirstPositions ==
  ASSUME NEW c \in Calls
  PROVE  /\ c \in Bounded => FirstPosition(c) = "poll"
         /\ c = "decode" => FirstPosition(c) = "decode poll"
         /\ c = "encode" => FirstPosition(c) = "chunk"
BY DEF FirstPosition, Calls, Bounded

\* Every plan is a sequence of calls.
LEMMA PlansTyped == Plans \subseteq Seq(Calls)
<1>1. \A s, t \in Seq(Calls) : s \o t \in Seq(Calls)
      OBVIOUS
<1>2. /\ <<>> \in Seq(Calls) /\ <<"decode">> \in Seq(Calls) /\ <<"probe">> \in Seq(Calls)
      /\ <<"prepare", "inspect">> \in Seq(Calls)
      /\ <<"encode", "inspect">> \in Seq(Calls) /\ <<"copy", "inspect">> \in Seq(Calls)
      BY DEF Calls, Bounded
<1>3. <<"probe">> \o <<"prepare", "inspect">> \in Seq(Calls)
      BY <1>1, <1>2, Zenon
<1>4. (<<"probe">> \o <<"prepare", "inspect">>) \o <<"probe">> \in Seq(Calls)
      BY <1>1, <1>2, <1>3, Zenon
<1>5. \A r \in {<<>>, <<"decode">>, <<"prepare", "inspect">>} :
        r \o <<"encode", "inspect">> \in Seq(Calls)
  <2> SUFFICES ASSUME NEW r \in Seq(Calls)
               PROVE  r \o <<"encode", "inspect">> \in Seq(Calls)
      BY <1>2, Zenon
  <2> QED BY <1>1, <1>2, Zenon
<1>6. \A q \in {<<"probe">>, (<<"probe">> \o <<"prepare", "inspect">>) \o <<"probe">>},
         a \in {<<>>, <<"decode">>},
         o \in {<<"encode", "inspect">>, <<"copy", "inspect">>} :
        (q \o a) \o o \in Seq(Calls)
  <2> SUFFICES ASSUME NEW q \in Seq(Calls), NEW a \in Seq(Calls), NEW o \in Seq(Calls)
               PROVE  (q \o a) \o o \in Seq(Calls)
      BY <1>2, <1>4, Zenon
  <2>1. q \o a \in Seq(Calls)
        BY <1>1, Zenon
  <2> QED BY <2>1, <1>1, Zenon
<1>7. ASSUME NEW p \in Plans PROVE p \in Seq(Calls)
  <2>1. \/ \E r \in {<<>>, <<"decode">>, <<"prepare", "inspect">>} :
              p = r \o <<"encode", "inspect">>
        \/ \E q \in {<<"probe">>, (<<"probe">> \o <<"prepare", "inspect">>) \o <<"probe">>},
               a \in {<<>>, <<"decode">>},
               o \in {<<"encode", "inspect">>, <<"copy", "inspect">>} :
              p = (q \o a) \o o
        BY <1>7, SMT DEF Plans
  <2> QED BY <2>1, <1>5, <1>6, Zenon
<1> QED BY <1>7

\* The types, one part of the state at a time.
LEMMA RequestTypeStep ==
  RequestTypeOK /\ [Next]_vars => RequestTypeOK'
<1> SUFFICES ASSUME RequestTypeOK, [Next]_vars
             PROVE  RequestTypeOK'
    OBVIOUS
<1> USE DEF RequestTypeOK, Bounded, Calls, BoundedAt, DecodeAt, FeedAt, FlushAt,
     WorkAt, requestVars, processVars, feedVars, None
<1>1. ASSUME Begin PROVE RequestTypeOK'
      BY <1>1, PlansTyped DEF Begin
<1>2. ASSUME CallerRaises PROVE RequestTypeOK'
      BY <1>2 DEF CallerRaises
<1>3. ASSUME Succeeds PROVE RequestTypeOK'
      BY <1>3 DEF Succeeds
<1>4. ASSUME Start PROVE RequestTypeOK'
  <2>1. call' \in Calls /\ todo' \in Seq(Calls)
        BY <1>4 DEF Start
  <2>2. CASE /\ at' = "finally" /\ raised' \in {"cancelled", "missing", "failed"}
             /\ child' = child
        BY <1>4, <2>1, <2>2 DEF Start
  <2>3. CASE child' = "running" /\ at' = FirstPosition(call') /\ raised' = raised
        BY <1>4, <2>1, <2>3, FirstPositions DEF Start
  <2> QED BY <1>4, <2>2, <2>3 DEF Start
<1>5. ASSUME BoundedPoll PROVE RequestTypeOK'
      BY <1>5 DEF BoundedPoll, Poll, HasExited, GoTo
<1>6. ASSUME BoundedCheck PROVE RequestTypeOK'
      BY <1>6 DEF BoundedCheck, Checked, Raise, GoTo
<1>7. ASSUME InTime("late?", "large?") PROVE RequestTypeOK'
      BY <1>7 DEF InTime, Raise, GoTo
<1>8. ASSUME BoundedSize PROVE RequestTypeOK'
      BY <1>8 DEF BoundedSize, Raise, GoTo
<1>9. ASSUME DecodePoll PROVE RequestTypeOK'
      BY <1>9 DEF DecodePoll, Poll, HasExited, GoTo
<1>10. ASSUME Checked("decode cancelled?", "decode late?") PROVE RequestTypeOK'
      BY <1>10 DEF Checked, Raise, GoTo
<1>11. ASSUME InTime("decode late?", "decode large?") PROVE RequestTypeOK'
      BY <1>11 DEF InTime, Raise, GoTo
<1>12. ASSUME DecodeSize PROVE RequestTypeOK'
      BY <1>12 DEF DecodeSize, Raise, GoTo
<1>13. ASSUME Decoded PROVE RequestTypeOK'
      BY <1>13 DEF Decoded, Raise, GoTo
<1>14. ASSUME ChunkRaises PROVE RequestTypeOK'
      BY <1>14 DEF ChunkRaises, Raise
<1>15. ASSUME NextChunk PROVE RequestTypeOK'
      BY <1>15 DEF NextChunk, Raise, GoTo
<1>16. ASSUME LastChunk PROVE RequestTypeOK'
      BY <1>16 DEF LastChunk, Raise, GoTo
<1>17. ASSUME Checked("write cancelled?", "write poll") PROVE RequestTypeOK'
      BY <1>17 DEF Checked, Raise, GoTo
<1>18. ASSUME WritePoll PROVE RequestTypeOK'
      BY <1>18 DEF WritePoll, Poll, HasExited, Raise, GoTo
<1>19. ASSUME InTime("write late?", "select") PROVE RequestTypeOK'
      BY <1>19 DEF InTime, Raise, GoTo
<1>20. ASSUME Write PROVE RequestTypeOK'
      BY <1>20 DEF Write, HasExited, Raise, GoTo
<1>21. ASSUME FlushPoll PROVE RequestTypeOK'
      BY <1>21 DEF FlushPoll, Poll, HasExited, GoTo
<1>22. ASSUME Checked("flush cancelled?", "flush late?") PROVE RequestTypeOK'
      BY <1>22 DEF Checked, Raise, GoTo
<1>23. ASSUME InTime("flush late?", "flush poll") PROVE RequestTypeOK'
      BY <1>23 DEF InTime, Raise, GoTo
<1>24. ASSUME Encoded PROVE RequestTypeOK'
      BY <1>24 DEF Encoded, Raise, GoTo
<1>25. ASSUME Finally PROVE RequestTypeOK'
      BY <1>25 DEF Finally, GoTo
<1>26. ASSUME Waited PROVE RequestTypeOK'
      BY <1>26 DEF Waited, Poll, HasExited
<1>27. ASSUME ChildWrites PROVE RequestTypeOK'
      BY <1>27 DEF ChildWrites
<1>28. ASSUME ChildReads PROVE RequestTypeOK'
      BY <1>28 DEF ChildReads
<1>29. ASSUME ChildExits PROVE RequestTypeOK'
      BY <1>29 DEF ChildExits
<1>30. ASSUME ChildDies PROVE RequestTypeOK'
      BY <1>30 DEF ChildDies
<1>31. ASSUME Tick PROVE RequestTypeOK'
      BY <1>31 DEF Tick
<1>32. ASSUME Cancel PROVE RequestTypeOK'
      BY <1>32 DEF Cancel
<1>33. CASE UNCHANGED vars
      BY <1>33 DEF vars
<1> QED
  BY <1>1, <1>2, <1>3, <1>4, <1>5, <1>6, <1>7, <1>8, <1>9, <1>10, <1>11, <1>12,
     <1>13, <1>14, <1>15, <1>16, <1>17, <1>18, <1>19, <1>20, <1>21, <1>22, <1>23,
     <1>24, <1>25, <1>26, <1>27, <1>28, <1>29, <1>30, <1>31, <1>32, <1>33 DEF Next,
     ThreadStep, RunBounded, DecodeSourceAudio, EncodeMp4

\* What the child leaves is a status, and a poll finds no other.
LEMMA ChildTypeStep ==
  ChildTypeOK /\ [Next]_vars => ChildTypeOK'
<1> SUFFICES ASSUME ChildTypeOK, [Next]_vars
             PROVE  ChildTypeOK'
    OBVIOUS
<1> USE DEF ChildTypeOK, Bounded, Calls, BoundedAt, DecodeAt, FeedAt, FlushAt, WorkAt,
     requestVars, processVars, feedVars, None
<1>1. ASSUME Begin PROVE ChildTypeOK'
      BY <1>1 DEF Begin
<1>2. ASSUME CallerRaises PROVE ChildTypeOK'
      BY <1>2 DEF CallerRaises
<1>3. ASSUME Succeeds PROVE ChildTypeOK'
      BY <1>3 DEF Succeeds
<1>4. ASSUME Start PROVE ChildTypeOK'
      BY <1>4 DEF Start, FirstPosition
<1>5. ASSUME BoundedPoll PROVE ChildTypeOK'
      BY <1>5 DEF BoundedPoll, Poll, HasExited, GoTo
<1>6. ASSUME BoundedCheck PROVE ChildTypeOK'
      BY <1>6 DEF BoundedCheck, Checked, Raise, GoTo
<1>7. ASSUME InTime("late?", "large?") PROVE ChildTypeOK'
      BY <1>7 DEF InTime, Raise, GoTo
<1>8. ASSUME BoundedSize PROVE ChildTypeOK'
      BY <1>8 DEF BoundedSize, Raise, GoTo
<1>9. ASSUME DecodePoll PROVE ChildTypeOK'
      BY <1>9 DEF DecodePoll, Poll, HasExited, GoTo
<1>10. ASSUME Checked("decode cancelled?", "decode late?") PROVE ChildTypeOK'
      BY <1>10 DEF Checked, Raise, GoTo
<1>11. ASSUME InTime("decode late?", "decode large?") PROVE ChildTypeOK'
      BY <1>11 DEF InTime, Raise, GoTo
<1>12. ASSUME DecodeSize PROVE ChildTypeOK'
      BY <1>12 DEF DecodeSize, Raise, GoTo
<1>13. ASSUME Decoded PROVE ChildTypeOK'
      BY <1>13 DEF Decoded, Raise, GoTo
<1>14. ASSUME ChunkRaises PROVE ChildTypeOK'
      BY <1>14 DEF ChunkRaises, Raise
<1>15. ASSUME NextChunk PROVE ChildTypeOK'
      BY <1>15 DEF NextChunk, Raise, GoTo
<1>16. ASSUME LastChunk PROVE ChildTypeOK'
      BY <1>16 DEF LastChunk, Raise, GoTo
<1>17. ASSUME Checked("write cancelled?", "write poll") PROVE ChildTypeOK'
      BY <1>17 DEF Checked, Raise, GoTo
<1>18. ASSUME WritePoll PROVE ChildTypeOK'
      BY <1>18 DEF WritePoll, Poll, HasExited, Raise, GoTo
<1>19. ASSUME InTime("write late?", "select") PROVE ChildTypeOK'
      BY <1>19 DEF InTime, Raise, GoTo
<1>20. ASSUME Write PROVE ChildTypeOK'
      BY <1>20 DEF Write, HasExited, Raise, GoTo
<1>21. ASSUME FlushPoll PROVE ChildTypeOK'
      BY <1>21 DEF FlushPoll, Poll, HasExited, GoTo
<1>22. ASSUME Checked("flush cancelled?", "flush late?") PROVE ChildTypeOK'
      BY <1>22 DEF Checked, Raise, GoTo
<1>23. ASSUME InTime("flush late?", "flush poll") PROVE ChildTypeOK'
      BY <1>23 DEF InTime, Raise, GoTo
<1>24. ASSUME Encoded PROVE ChildTypeOK'
      BY <1>24 DEF Encoded, Raise, GoTo
<1>25. ASSUME Finally PROVE ChildTypeOK'
      BY <1>25 DEF Finally, GoTo
<1>26. ASSUME Waited PROVE ChildTypeOK'
      BY <1>26 DEF Waited, Poll, HasExited
<1>27. ASSUME ChildWrites PROVE ChildTypeOK'
      BY <1>27 DEF ChildWrites
<1>28. ASSUME ChildReads PROVE ChildTypeOK'
      BY <1>28 DEF ChildReads
<1>29. ASSUME ChildExits PROVE ChildTypeOK'
      BY <1>29 DEF ChildExits
<1>30. ASSUME ChildDies PROVE ChildTypeOK'
      BY <1>30 DEF ChildDies
<1>31. ASSUME Tick PROVE ChildTypeOK'
      BY <1>31 DEF Tick
<1>32. ASSUME Cancel PROVE ChildTypeOK'
      BY <1>32 DEF Cancel
<1>33. CASE UNCHANGED vars
      BY <1>33 DEF vars
<1> QED
  BY <1>1, <1>2, <1>3, <1>4, <1>5, <1>6, <1>7, <1>8, <1>9, <1>10, <1>11, <1>12,
     <1>13, <1>14, <1>15, <1>16, <1>17, <1>18, <1>19, <1>20, <1>21, <1>22, <1>23,
     <1>24, <1>25, <1>26, <1>27, <1>28, <1>29, <1>30, <1>31, <1>32, <1>33 DEF Next,
     ThreadStep, RunBounded, DecodeSourceAudio, EncodeMp4

\* A child writes one byte too many at most before it is judged, a chunk too many ends
\* the call.
LEMMA AmountTypeStep ==
  AmountTypeOK /\ FeedShape /\ [Next]_vars => AmountTypeOK'
<1> SUFFICES ASSUME AmountTypeOK, FeedShape, [Next]_vars
             PROVE  AmountTypeOK'
    OBVIOUS
<1> USE DEF requestVars, processVars, feedVars
<1>1. ASSUME Begin PROVE AmountTypeOK'
      BY <1>1, BoundsPositive DEF Begin, AmountTypeOK
<1>2. ASSUME CallerRaises PROVE AmountTypeOK'
      BY <1>2, BoundsPositive DEF CallerRaises, AmountTypeOK
<1>3. ASSUME Succeeds PROVE AmountTypeOK'
      BY <1>3, BoundsPositive DEF Succeeds, AmountTypeOK
<1>4. ASSUME Start PROVE AmountTypeOK'
  <2>1. size' = 0 /\ left' = Window /\ fed' = 0 /\ rest' = 0 /\ room' = PipeRoom
        BY <1>4 DEF Start
  <2> QED BY <2>1, BoundsPositive DEF AmountTypeOK
<1>5. ASSUME BoundedPoll PROVE AmountTypeOK'
      BY <1>5, BoundsPositive DEF BoundedPoll, AmountTypeOK, Poll, HasExited, GoTo
<1>6. ASSUME BoundedCheck PROVE AmountTypeOK'
      BY <1>6, BoundsPositive DEF BoundedCheck, AmountTypeOK, Checked, Raise, GoTo
<1>7. ASSUME InTime("late?", "large?") PROVE AmountTypeOK'
      BY <1>7, BoundsPositive DEF InTime, AmountTypeOK, Raise, GoTo
<1>8. ASSUME BoundedSize PROVE AmountTypeOK'
      BY <1>8, BoundsPositive DEF BoundedSize, AmountTypeOK, Raise, GoTo
<1>9. ASSUME DecodePoll PROVE AmountTypeOK'
      BY <1>9, BoundsPositive DEF DecodePoll, AmountTypeOK, Poll, HasExited, GoTo
<1>10. ASSUME Checked("decode cancelled?", "decode late?") PROVE AmountTypeOK'
      BY <1>10, BoundsPositive DEF Checked, AmountTypeOK, Raise, GoTo
<1>11. ASSUME InTime("decode late?", "decode large?") PROVE AmountTypeOK'
      BY <1>11, BoundsPositive DEF InTime, AmountTypeOK, Raise, GoTo
<1>12. ASSUME DecodeSize PROVE AmountTypeOK'
      BY <1>12, BoundsPositive DEF DecodeSize, AmountTypeOK, Raise, GoTo
<1>13. ASSUME Decoded PROVE AmountTypeOK'
      BY <1>13, BoundsPositive DEF Decoded, AmountTypeOK, Raise, GoTo
<1>14. ASSUME ChunkRaises PROVE AmountTypeOK'
      BY <1>14, BoundsPositive DEF ChunkRaises, AmountTypeOK, Raise
<1>15. ASSUME NextChunk PROVE AmountTypeOK'
  <2>1. fed \in Nat /\ fed <= Frames
    <3>1. fed \in Nat
          BY BoundsPositive DEF AmountTypeOK
    <3>2. fed <= Frames
          BY <1>15 DEF NextChunk, FeedShape, FeedAt
    <3> QED BY <3>1, <3>2
  <2>2. size' = size /\ room' = room /\ fed' = fed + 1
        BY <1>15 DEF NextChunk
  <2>3. (rest' = rest /\ left' = left) \/ (rest' = Pieces /\ left' = Window)
        BY <1>15 DEF NextChunk
  <2>4. fed' \in 0 .. Frames + 1
        BY <2>1, <2>2, BoundsPositive
  <2>5. rest' \in 0 .. Pieces /\ left' \in 0 .. Window
        BY <2>3, BoundsPositive DEF AmountTypeOK
  <2> QED BY <2>2, <2>4, <2>5 DEF AmountTypeOK
<1>16. ASSUME LastChunk PROVE AmountTypeOK'
  <2>1. size' = size /\ fed' = fed /\ rest' = rest /\ room' = room
        BY <1>16 DEF LastChunk
  <2>2. left' = left \/ left' = Window
        BY <1>16 DEF LastChunk
  <2> QED BY <2>1, <2>2, BoundsPositive DEF AmountTypeOK
<1>17. ASSUME Checked("write cancelled?", "write poll") PROVE AmountTypeOK'
      BY <1>17, BoundsPositive DEF Checked, AmountTypeOK, Raise, GoTo
<1>18. ASSUME WritePoll PROVE AmountTypeOK'
      BY <1>18, BoundsPositive DEF WritePoll, AmountTypeOK, Poll, HasExited, Raise, GoTo
<1>19. ASSUME InTime("write late?", "select") PROVE AmountTypeOK'
      BY <1>19, BoundsPositive DEF InTime, AmountTypeOK, Raise, GoTo
<1>20. ASSUME Write PROVE AmountTypeOK'
  <2>1. rest \in Nat /\ room \in Nat /\ rest <= Pieces /\ room <= PipeRoom
        BY BoundsPositive DEF AmountTypeOK
  <2>2. rest > 0
        BY <1>20 DEF Write, FeedShape, FeedAt
  <2>3. size' = size /\ fed' = fed
        BY <1>20 DEF Write
  <2>4. \/ rest' = rest /\ room' = room /\ left' = left
        \/ rest' = rest - 1 /\ room > 0 /\ room' = room - 1 /\ left' = Window
        BY <1>20 DEF Write
  <2>5. rest' \in 0 .. Pieces /\ room' \in 0 .. PipeRoom /\ left' \in 0 .. Window
        BY <2>1, <2>2, <2>4, BoundsPositive DEF AmountTypeOK
  <2> QED BY <2>3, <2>5 DEF AmountTypeOK
<1>21. ASSUME FlushPoll PROVE AmountTypeOK'
      BY <1>21, BoundsPositive DEF FlushPoll, AmountTypeOK, Poll, HasExited, GoTo
<1>22. ASSUME Checked("flush cancelled?", "flush late?") PROVE AmountTypeOK'
      BY <1>22, BoundsPositive DEF Checked, AmountTypeOK, Raise, GoTo
<1>23. ASSUME InTime("flush late?", "flush poll") PROVE AmountTypeOK'
      BY <1>23, BoundsPositive DEF InTime, AmountTypeOK, Raise, GoTo
<1>24. ASSUME Encoded PROVE AmountTypeOK'
      BY <1>24, BoundsPositive DEF Encoded, AmountTypeOK, Raise, GoTo
<1>25. ASSUME Finally PROVE AmountTypeOK'
      BY <1>25, BoundsPositive DEF Finally, AmountTypeOK, GoTo
<1>26. ASSUME Waited PROVE AmountTypeOK'
      BY <1>26, BoundsPositive DEF Waited, AmountTypeOK, Poll, HasExited
<1>27. ASSUME ChildWrites PROVE AmountTypeOK'
      BY <1>27, BoundsPositive DEF ChildWrites, AmountTypeOK
<1>28. ASSUME ChildReads PROVE AmountTypeOK'
      BY <1>28, BoundsPositive DEF ChildReads, AmountTypeOK
<1>29. ASSUME ChildExits PROVE AmountTypeOK'
      BY <1>29, BoundsPositive DEF ChildExits, AmountTypeOK
<1>30. ASSUME ChildDies PROVE AmountTypeOK'
      BY <1>30, BoundsPositive DEF ChildDies, AmountTypeOK
<1>31. ASSUME Tick PROVE AmountTypeOK'
      BY <1>31, BoundsPositive DEF Tick, AmountTypeOK
<1>32. ASSUME Cancel PROVE AmountTypeOK'
      BY <1>32, BoundsPositive DEF Cancel, AmountTypeOK
<1>33. CASE UNCHANGED vars
      BY <1>33 DEF vars, AmountTypeOK
<1> QED
  BY <1>1, <1>2, <1>3, <1>4, <1>5, <1>6, <1>7, <1>8, <1>9, <1>10, <1>11, <1>12,
     <1>13, <1>14, <1>15, <1>16, <1>17, <1>18, <1>19, <1>20, <1>21, <1>22, <1>23,
     <1>24, <1>25, <1>26, <1>27, <1>28, <1>29, <1>30, <1>31, <1>32, <1>33 DEF Next,
     ThreadStep, RunBounded, DecodeSourceAudio, EncodeMp4

\* Every step goes to a position of its own call.
LEMMA CallShapeStep ==
  TypeOK /\ CallShape /\ [Next]_vars => CallShape'
<1> SUFFICES ASSUME TypeOK, CallShape, [Next]_vars
             PROVE  CallShape'
    OBVIOUS
<1> USE DEF TypeOK, RequestTypeOK, CallShape, Bounded, Calls, BoundedAt, DecodeAt,
     FeedAt, FlushAt, WorkAt, requestVars, processVars, feedVars, None
<1>1. ASSUME Begin PROVE CallShape'
      BY <1>1 DEF Begin
<1>2. ASSUME CallerRaises PROVE CallShape'
      BY <1>2 DEF CallerRaises
<1>3. ASSUME Succeeds PROVE CallShape'
      BY <1>3 DEF Succeeds
<1>4. ASSUME Start PROVE CallShape'
  <2>1. call' \in Calls /\ todo' \in Seq(Calls)
        BY <1>4 DEF Start
  <2>2. CASE /\ at' = "finally" /\ raised' \in {"cancelled", "missing", "failed"}
             /\ child' = child
        BY <1>4, <2>1, <2>2 DEF Start
  <2>3. CASE child' = "running" /\ at' = FirstPosition(call') /\ raised' = raised
        BY <1>4, <2>1, <2>3, FirstPositions DEF Start
  <2> QED BY <1>4, <2>2, <2>3 DEF Start
<1>5. ASSUME BoundedPoll PROVE CallShape'
      BY <1>5 DEF BoundedPoll, Poll, HasExited, GoTo
<1>6. ASSUME BoundedCheck PROVE CallShape'
      BY <1>6 DEF BoundedCheck, Checked, Raise, GoTo
<1>7. ASSUME InTime("late?", "large?") PROVE CallShape'
      BY <1>7 DEF InTime, Raise, GoTo
<1>8. ASSUME BoundedSize PROVE CallShape'
      BY <1>8 DEF BoundedSize, Raise, GoTo
<1>9. ASSUME DecodePoll PROVE CallShape'
      BY <1>9 DEF DecodePoll, Poll, HasExited, GoTo
<1>10. ASSUME Checked("decode cancelled?", "decode late?") PROVE CallShape'
      BY <1>10 DEF Checked, Raise, GoTo
<1>11. ASSUME InTime("decode late?", "decode large?") PROVE CallShape'
      BY <1>11 DEF InTime, Raise, GoTo
<1>12. ASSUME DecodeSize PROVE CallShape'
      BY <1>12 DEF DecodeSize, Raise, GoTo
<1>13. ASSUME Decoded PROVE CallShape'
      BY <1>13 DEF Decoded, Raise, GoTo
<1>14. ASSUME ChunkRaises PROVE CallShape'
      BY <1>14 DEF ChunkRaises, Raise
<1>15. ASSUME NextChunk PROVE CallShape'
      BY <1>15 DEF NextChunk, Raise, GoTo
<1>16. ASSUME LastChunk PROVE CallShape'
      BY <1>16 DEF LastChunk, Raise, GoTo
<1>17. ASSUME Checked("write cancelled?", "write poll") PROVE CallShape'
      BY <1>17 DEF Checked, Raise, GoTo
<1>18. ASSUME WritePoll PROVE CallShape'
      BY <1>18 DEF WritePoll, Poll, HasExited, Raise, GoTo
<1>19. ASSUME InTime("write late?", "select") PROVE CallShape'
      BY <1>19 DEF InTime, Raise, GoTo
<1>20. ASSUME Write PROVE CallShape'
      BY <1>20 DEF Write, HasExited, Raise, GoTo
<1>21. ASSUME FlushPoll PROVE CallShape'
      BY <1>21 DEF FlushPoll, Poll, HasExited, GoTo
<1>22. ASSUME Checked("flush cancelled?", "flush late?") PROVE CallShape'
      BY <1>22 DEF Checked, Raise, GoTo
<1>23. ASSUME InTime("flush late?", "flush poll") PROVE CallShape'
      BY <1>23 DEF InTime, Raise, GoTo
<1>24. ASSUME Encoded PROVE CallShape'
      BY <1>24 DEF Encoded, Raise, GoTo
<1>25. ASSUME Finally PROVE CallShape'
      BY <1>25 DEF Finally, GoTo
<1>26. ASSUME Waited PROVE CallShape'
      BY <1>26 DEF Waited, Poll, HasExited
<1>27. ASSUME ChildWrites PROVE CallShape'
      BY <1>27 DEF ChildWrites
<1>28. ASSUME ChildReads PROVE CallShape'
      BY <1>28 DEF ChildReads
<1>29. ASSUME ChildExits PROVE CallShape'
      BY <1>29 DEF ChildExits
<1>30. ASSUME ChildDies PROVE CallShape'
      BY <1>30 DEF ChildDies
<1>31. ASSUME Tick PROVE CallShape'
      BY <1>31 DEF Tick
<1>32. ASSUME Cancel PROVE CallShape'
      BY <1>32 DEF Cancel
<1>33. CASE UNCHANGED vars
      BY <1>33 DEF vars
<1> QED
  BY <1>1, <1>2, <1>3, <1>4, <1>5, <1>6, <1>7, <1>8, <1>9, <1>10, <1>11, <1>12,
     <1>13, <1>14, <1>15, <1>16, <1>17, <1>18, <1>19, <1>20, <1>21, <1>22, <1>23,
     <1>24, <1>25, <1>26, <1>27, <1>28, <1>29, <1>30, <1>31, <1>32, <1>33 DEF Next,
     ThreadStep, RunBounded, DecodeSourceAudio, EncodeMp4

\* A child is reaped by the poll that finds it gone, or by the wait.
LEMMA ChildShapeStep ==
  TypeOK /\ CallShape /\ ChildShape /\ [Next]_vars => ChildShape'
<1> SUFFICES ASSUME TypeOK, CallShape, ChildShape, [Next]_vars
             PROVE  ChildShape'
    OBVIOUS
<1> USE DEF TypeOK, RequestTypeOK, ChildTypeOK, CallShape, ChildShape, Bounded, Calls,
     BoundedAt, DecodeAt, FeedAt, FlushAt, WorkAt, requestVars, processVars, feedVars,
     None
<1>1. ASSUME Begin PROVE ChildShape'
      BY <1>1 DEF Begin
<1>2. ASSUME CallerRaises PROVE ChildShape'
      BY <1>2 DEF CallerRaises
<1>3. ASSUME Succeeds PROVE ChildShape'
      BY <1>3 DEF Succeeds
<1>4. ASSUME Start PROVE ChildShape'
  <2>1. call' \in Calls /\ todo' \in Seq(Calls)
        BY <1>4 DEF Start
  <2>2. CASE /\ at' = "finally" /\ raised' \in {"cancelled", "missing", "failed"}
             /\ child' = child
        BY <1>4, <2>1, <2>2 DEF Start
  <2>3. CASE child' = "running" /\ at' = FirstPosition(call') /\ raised' = raised
        BY <1>4, <2>1, <2>3, FirstPositions DEF Start
  <2> QED BY <1>4, <2>2, <2>3 DEF Start
<1>5. ASSUME BoundedPoll PROVE ChildShape'
      BY <1>5 DEF BoundedPoll, Poll, HasExited, GoTo
<1>6. ASSUME BoundedCheck PROVE ChildShape'
      BY <1>6 DEF BoundedCheck, Checked, Raise, GoTo
<1>7. ASSUME InTime("late?", "large?") PROVE ChildShape'
      BY <1>7 DEF InTime, Raise, GoTo
<1>8. ASSUME BoundedSize PROVE ChildShape'
      BY <1>8 DEF BoundedSize, Raise, GoTo
<1>9. ASSUME DecodePoll PROVE ChildShape'
      BY <1>9 DEF DecodePoll, Poll, HasExited, GoTo
<1>10. ASSUME Checked("decode cancelled?", "decode late?") PROVE ChildShape'
      BY <1>10 DEF Checked, Raise, GoTo
<1>11. ASSUME InTime("decode late?", "decode large?") PROVE ChildShape'
      BY <1>11 DEF InTime, Raise, GoTo
<1>12. ASSUME DecodeSize PROVE ChildShape'
      BY <1>12 DEF DecodeSize, Raise, GoTo
<1>13. ASSUME Decoded PROVE ChildShape'
      BY <1>13 DEF Decoded, Raise, GoTo
<1>14. ASSUME ChunkRaises PROVE ChildShape'
      BY <1>14 DEF ChunkRaises, Raise
<1>15. ASSUME NextChunk PROVE ChildShape'
      BY <1>15 DEF NextChunk, Raise, GoTo
<1>16. ASSUME LastChunk PROVE ChildShape'
      BY <1>16 DEF LastChunk, Raise, GoTo
<1>17. ASSUME Checked("write cancelled?", "write poll") PROVE ChildShape'
      BY <1>17 DEF Checked, Raise, GoTo
<1>18. ASSUME WritePoll PROVE ChildShape'
      BY <1>18 DEF WritePoll, Poll, HasExited, Raise, GoTo
<1>19. ASSUME InTime("write late?", "select") PROVE ChildShape'
      BY <1>19 DEF InTime, Raise, GoTo
<1>20. ASSUME Write PROVE ChildShape'
      BY <1>20 DEF Write, HasExited, Raise, GoTo
<1>21. ASSUME FlushPoll PROVE ChildShape'
      BY <1>21 DEF FlushPoll, Poll, HasExited, GoTo
<1>22. ASSUME Checked("flush cancelled?", "flush late?") PROVE ChildShape'
      BY <1>22 DEF Checked, Raise, GoTo
<1>23. ASSUME InTime("flush late?", "flush poll") PROVE ChildShape'
      BY <1>23 DEF InTime, Raise, GoTo
<1>24. ASSUME Encoded PROVE ChildShape'
      BY <1>24 DEF Encoded, Raise, GoTo
<1>25. ASSUME Finally PROVE ChildShape'
      BY <1>25 DEF Finally, GoTo
<1>26. ASSUME Waited PROVE ChildShape'
      BY <1>26 DEF Waited, Poll, HasExited
<1>27. ASSUME ChildWrites PROVE ChildShape'
      BY <1>27 DEF ChildWrites
<1>28. ASSUME ChildReads PROVE ChildShape'
      BY <1>28 DEF ChildReads
<1>29. ASSUME ChildExits PROVE ChildShape'
      BY <1>29 DEF ChildExits
<1>30. ASSUME ChildDies PROVE ChildShape'
      BY <1>30 DEF ChildDies
<1>31. ASSUME Tick PROVE ChildShape'
      BY <1>31 DEF Tick
<1>32. ASSUME Cancel PROVE ChildShape'
      BY <1>32 DEF Cancel
<1>33. CASE UNCHANGED vars
      BY <1>33 DEF vars
<1> QED
  BY <1>1, <1>2, <1>3, <1>4, <1>5, <1>6, <1>7, <1>8, <1>9, <1>10, <1>11, <1>12,
     <1>13, <1>14, <1>15, <1>16, <1>17, <1>18, <1>19, <1>20, <1>21, <1>22, <1>23,
     <1>24, <1>25, <1>26, <1>27, <1>28, <1>29, <1>30, <1>31, <1>32, <1>33 DEF Next,
     ThreadStep, RunBounded, DecodeSourceAudio, EncodeMp4

\* Writes use up the chunk.
LEMMA FeedShapeStep ==
  TypeOK /\ FeedShape /\ [Next]_vars => FeedShape'
<1> SUFFICES ASSUME TypeOK, FeedShape, [Next]_vars
             PROVE  FeedShape'
    OBVIOUS
<1>a. fed \in Nat /\ rest \in Nat
      BY BoundsPositive DEF TypeOK, AmountTypeOK
<1> USE DEF TypeOK, RequestTypeOK, FeedShape, Bounded, Calls, BoundedAt, DecodeAt,
     FeedAt, FlushAt, WorkAt, requestVars, processVars, feedVars, None
<1>1. ASSUME Begin PROVE FeedShape'
      BY <1>1, BoundsPositive DEF Begin
<1>2. ASSUME CallerRaises PROVE FeedShape'
      BY <1>2, BoundsPositive DEF CallerRaises
<1>3. ASSUME Succeeds PROVE FeedShape'
      BY <1>3, BoundsPositive DEF Succeeds
<1>4. ASSUME Start PROVE FeedShape'
  <2>1. call' \in Calls /\ fed' = 0 /\ rest' = 0
        BY <1>4 DEF Start
  <2>2. at' = "finally" \/ at' = FirstPosition(call')
        BY <1>4 DEF Start
  <2>3. at' \in {"finally", "poll", "decode poll", "chunk"}
        BY <2>1, <2>2, FirstPositions
  <2>4. fed' <= Frames
        BY <2>1, BoundsPositive, Zenon
  <2> QED BY <2>1, <2>3, <2>4
<1>5. ASSUME BoundedPoll PROVE FeedShape'
      BY <1>5, BoundsPositive DEF BoundedPoll, Poll, HasExited, GoTo
<1>6. ASSUME BoundedCheck PROVE FeedShape'
      BY <1>6, BoundsPositive DEF BoundedCheck, Checked, Raise, GoTo
<1>7. ASSUME InTime("late?", "large?") PROVE FeedShape'
      BY <1>7, BoundsPositive DEF InTime, Raise, GoTo
<1>8. ASSUME BoundedSize PROVE FeedShape'
      BY <1>8, BoundsPositive DEF BoundedSize, Raise, GoTo
<1>9. ASSUME DecodePoll PROVE FeedShape'
      BY <1>9, BoundsPositive DEF DecodePoll, Poll, HasExited, GoTo
<1>10. ASSUME Checked("decode cancelled?", "decode late?") PROVE FeedShape'
      BY <1>10, BoundsPositive DEF Checked, Raise, GoTo
<1>11. ASSUME InTime("decode late?", "decode large?") PROVE FeedShape'
      BY <1>11, BoundsPositive DEF InTime, Raise, GoTo
<1>12. ASSUME DecodeSize PROVE FeedShape'
      BY <1>12, BoundsPositive DEF DecodeSize, Raise, GoTo
<1>13. ASSUME Decoded PROVE FeedShape'
      BY <1>13, BoundsPositive DEF Decoded, Raise, GoTo
<1>14. ASSUME ChunkRaises PROVE FeedShape'
      BY <1>14, BoundsPositive DEF ChunkRaises, Raise
<1>15. ASSUME NextChunk PROVE FeedShape'
  <2>1. at = "chunk" /\ fed' = fed + 1
        BY <1>15 DEF NextChunk
  <2>2. fed <= Frames
        BY <2>1
  <2>3. CASE fed = Frames
    <3>1. at' = "finally"
          BY <1>15, <2>3 DEF NextChunk, Raise
    <3> QED BY <3>1
  <2>4. CASE fed # Frames
    <3>1. at' = "write cancelled?" /\ rest' = Pieces
          BY <1>15, <2>4 DEF NextChunk, GoTo
    <3>2. fed' <= Frames
          BY <1>a, <2>1, <2>2, <2>4, BoundsPositive
    <3>3. rest' > 0
          BY <3>1, BoundsPositive
    <3> QED BY <3>1, <3>2, <3>3
  <2> QED BY <2>3, <2>4
<1>16. ASSUME LastChunk PROVE FeedShape'
      BY <1>16, BoundsPositive DEF LastChunk, Raise, GoTo
<1>17. ASSUME Checked("write cancelled?", "write poll") PROVE FeedShape'
      BY <1>17, BoundsPositive DEF Checked, Raise, GoTo
<1>18. ASSUME WritePoll PROVE FeedShape'
      BY <1>18, BoundsPositive DEF WritePoll, Poll, HasExited, Raise, GoTo
<1>19. ASSUME InTime("write late?", "select") PROVE FeedShape'
      BY <1>19, BoundsPositive DEF InTime, Raise, GoTo
<1>20. ASSUME Write PROVE FeedShape'
  <2>1. at = "select" /\ fed' = fed
        BY <1>20 DEF Write
  <2>2. fed <= Frames /\ rest > 0
        BY <2>1
  <2>3. CASE at' = "finally"
        BY <2>3
  <2>4. CASE at' = "write cancelled?" /\ rest' = rest
        BY <2>1, <2>2, <2>4
  <2>5. CASE rest' = rest - 1 /\ at' = (IF rest' = 0 THEN "chunk" ELSE "write cancelled?")
    <3>1. rest' = 0 \/ rest' > 0
          BY <1>a, <2>2, <2>5, OneLess, Zenon
    <3>2. CASE rest' = 0
          BY <2>1, <2>2, <2>5, <3>2
    <3>3. CASE rest' > 0
          BY <2>1, <2>2, <2>5, <3>3
    <3> QED BY <3>1, <3>2, <3>3
  <2> QED BY <1>20, <2>3, <2>4, <2>5 DEF Write, Raise, GoTo
<1>21. ASSUME FlushPoll PROVE FeedShape'
      BY <1>21, BoundsPositive DEF FlushPoll, Poll, HasExited, GoTo
<1>22. ASSUME Checked("flush cancelled?", "flush late?") PROVE FeedShape'
      BY <1>22, BoundsPositive DEF Checked, Raise, GoTo
<1>23. ASSUME InTime("flush late?", "flush poll") PROVE FeedShape'
      BY <1>23, BoundsPositive DEF InTime, Raise, GoTo
<1>24. ASSUME Encoded PROVE FeedShape'
      BY <1>24, BoundsPositive DEF Encoded, Raise, GoTo
<1>25. ASSUME Finally PROVE FeedShape'
      BY <1>25, BoundsPositive DEF Finally, GoTo
<1>26. ASSUME Waited PROVE FeedShape'
      BY <1>26, BoundsPositive DEF Waited, Poll, HasExited
<1>27. ASSUME ChildWrites PROVE FeedShape'
      BY <1>27, BoundsPositive DEF ChildWrites
<1>28. ASSUME ChildReads PROVE FeedShape'
      BY <1>28, BoundsPositive DEF ChildReads
<1>29. ASSUME ChildExits PROVE FeedShape'
      BY <1>29, BoundsPositive DEF ChildExits
<1>30. ASSUME ChildDies PROVE FeedShape'
      BY <1>30, BoundsPositive DEF ChildDies
<1>31. ASSUME Tick PROVE FeedShape'
      BY <1>31, BoundsPositive DEF Tick
<1>32. ASSUME Cancel PROVE FeedShape'
      BY <1>32, BoundsPositive DEF Cancel
<1>33. CASE UNCHANGED vars
      BY <1>33 DEF vars
<1> QED
  BY <1>1, <1>2, <1>3, <1>4, <1>5, <1>6, <1>7, <1>8, <1>9, <1>10, <1>11, <1>12,
     <1>13, <1>14, <1>15, <1>16, <1>17, <1>18, <1>19, <1>20, <1>21, <1>22, <1>23,
     <1>24, <1>25, <1>26, <1>27, <1>28, <1>29, <1>30, <1>31, <1>32, <1>33 DEF Next,
     ThreadStep, RunBounded, DecodeSourceAudio, EncodeMp4

\* A call is accepted after its child is gone, so nothing it was judged by can change.
LEMMA AcceptedStep ==
  TypeOK /\ CallShape /\ ChildShape /\ FeedShape /\ AcceptedWhole /\ [Next]_vars
    => AcceptedWhole'
<1> SUFFICES ASSUME TypeOK, CallShape, ChildShape, FeedShape, AcceptedWhole, [Next]_vars
             PROVE  AcceptedWhole'
    OBVIOUS
<1> USE DEF TypeOK, RequestTypeOK, ChildTypeOK, AmountTypeOK, CallShape, ChildShape,
     FeedShape, AcceptedWhole, Bounded, Calls, BoundedAt, DecodeAt, FeedAt, FlushAt,
     WorkAt, requestVars, processVars, feedVars, None
<1>1. ASSUME Begin PROVE AcceptedWhole'
      BY <1>1 DEF Begin
<1>2. ASSUME CallerRaises PROVE AcceptedWhole'
      BY <1>2 DEF CallerRaises
<1>3. ASSUME Succeeds PROVE AcceptedWhole'
      BY <1>3 DEF Succeeds
<1>4. ASSUME Start PROVE AcceptedWhole'
      BY <1>4 DEF Start, FirstPosition
<1>5. ASSUME BoundedPoll PROVE AcceptedWhole'
      BY <1>5 DEF BoundedPoll, Poll, HasExited, GoTo
<1>6. ASSUME BoundedCheck PROVE AcceptedWhole'
      BY <1>6 DEF BoundedCheck, Checked, Raise, GoTo
<1>7. ASSUME InTime("late?", "large?") PROVE AcceptedWhole'
      BY <1>7 DEF InTime, Raise, GoTo
<1>8. ASSUME BoundedSize PROVE AcceptedWhole'
      BY <1>8 DEF BoundedSize, Raise, GoTo
<1>9. ASSUME DecodePoll PROVE AcceptedWhole'
      BY <1>9 DEF DecodePoll, Poll, HasExited, GoTo
<1>10. ASSUME Checked("decode cancelled?", "decode late?") PROVE AcceptedWhole'
      BY <1>10 DEF Checked, Raise, GoTo
<1>11. ASSUME InTime("decode late?", "decode large?") PROVE AcceptedWhole'
      BY <1>11 DEF InTime, Raise, GoTo
<1>12. ASSUME DecodeSize PROVE AcceptedWhole'
      BY <1>12 DEF DecodeSize, Raise, GoTo
<1>13. ASSUME Decoded PROVE AcceptedWhole'
      BY <1>13 DEF Decoded, Raise, GoTo
<1>14. ASSUME ChunkRaises PROVE AcceptedWhole'
      BY <1>14 DEF ChunkRaises, Raise
<1>15. ASSUME NextChunk PROVE AcceptedWhole'
      BY <1>15 DEF NextChunk, Raise, GoTo
<1>16. ASSUME LastChunk PROVE AcceptedWhole'
      BY <1>16 DEF LastChunk, Raise, GoTo
<1>17. ASSUME Checked("write cancelled?", "write poll") PROVE AcceptedWhole'
      BY <1>17 DEF Checked, Raise, GoTo
<1>18. ASSUME WritePoll PROVE AcceptedWhole'
      BY <1>18 DEF WritePoll, Poll, HasExited, Raise, GoTo
<1>19. ASSUME InTime("write late?", "select") PROVE AcceptedWhole'
      BY <1>19 DEF InTime, Raise, GoTo
<1>20. ASSUME Write PROVE AcceptedWhole'
      BY <1>20 DEF Write, HasExited, Raise, GoTo
<1>21. ASSUME FlushPoll PROVE AcceptedWhole'
      BY <1>21 DEF FlushPoll, Poll, HasExited, GoTo
<1>22. ASSUME Checked("flush cancelled?", "flush late?") PROVE AcceptedWhole'
      BY <1>22 DEF Checked, Raise, GoTo
<1>23. ASSUME InTime("flush late?", "flush poll") PROVE AcceptedWhole'
      BY <1>23 DEF InTime, Raise, GoTo
<1>24. ASSUME Encoded PROVE AcceptedWhole'
      BY <1>24 DEF Encoded, Raise, GoTo
<1>25. ASSUME Finally PROVE AcceptedWhole'
      BY <1>25 DEF Finally, GoTo
<1>26. ASSUME Waited PROVE AcceptedWhole'
      BY <1>26 DEF Waited, Poll, HasExited
<1>27. ASSUME ChildWrites PROVE AcceptedWhole'
      BY <1>27 DEF ChildWrites
<1>28. ASSUME ChildReads PROVE AcceptedWhole'
      BY <1>28 DEF ChildReads
<1>29. ASSUME ChildExits PROVE AcceptedWhole'
      BY <1>29 DEF ChildExits
<1>30. ASSUME ChildDies PROVE AcceptedWhole'
      BY <1>30 DEF ChildDies
<1>31. ASSUME Tick PROVE AcceptedWhole'
      BY <1>31 DEF Tick
<1>32. ASSUME Cancel PROVE AcceptedWhole'
      BY <1>32 DEF Cancel
<1>33. CASE UNCHANGED vars
      BY <1>33 DEF vars
<1> QED
  BY <1>1, <1>2, <1>3, <1>4, <1>5, <1>6, <1>7, <1>8, <1>9, <1>10, <1>11, <1>12,
     <1>13, <1>14, <1>15, <1>16, <1>17, <1>18, <1>19, <1>20, <1>21, <1>22, <1>23,
     <1>24, <1>25, <1>26, <1>27, <1>28, <1>29, <1>30, <1>31, <1>32, <1>33 DEF Next,
     ThreadStep, RunBounded, DecodeSourceAudio, EncodeMp4

\* Each call looks at the event after its child is gone, or before it starts one.
LEMMA RevokedStep ==
  TypeOK /\ CallShape /\ ChildShape /\ RevokedShape /\ [Next]_vars => RevokedShape'
<1> SUFFICES ASSUME TypeOK, CallShape, ChildShape, RevokedShape, [Next]_vars
             PROVE  RevokedShape'
    OBVIOUS
<1> USE DEF TypeOK, RequestTypeOK, ChildTypeOK, CallShape, ChildShape, RevokedShape,
     Bounded, Calls, BoundedAt, DecodeAt, FeedAt, FlushAt, WorkAt, requestVars,
     processVars, feedVars, None
<1>1. ASSUME Begin PROVE RevokedShape'
      BY <1>1 DEF Begin
<1>2. ASSUME CallerRaises PROVE RevokedShape'
      BY <1>2 DEF CallerRaises
<1>3. ASSUME Succeeds PROVE RevokedShape'
      BY <1>3 DEF Succeeds
<1>4. ASSUME Start PROVE RevokedShape'
      BY <1>4 DEF Start, FirstPosition
<1>5. ASSUME BoundedPoll PROVE RevokedShape'
      BY <1>5 DEF BoundedPoll, Poll, HasExited, GoTo
<1>6. ASSUME BoundedCheck PROVE RevokedShape'
      BY <1>6 DEF BoundedCheck, Checked, Raise, GoTo
<1>7. ASSUME InTime("late?", "large?") PROVE RevokedShape'
      BY <1>7 DEF InTime, Raise, GoTo
<1>8. ASSUME BoundedSize PROVE RevokedShape'
      BY <1>8 DEF BoundedSize, Raise, GoTo
<1>9. ASSUME DecodePoll PROVE RevokedShape'
      BY <1>9 DEF DecodePoll, Poll, HasExited, GoTo
<1>10. ASSUME Checked("decode cancelled?", "decode late?") PROVE RevokedShape'
      BY <1>10 DEF Checked, Raise, GoTo
<1>11. ASSUME InTime("decode late?", "decode large?") PROVE RevokedShape'
      BY <1>11 DEF InTime, Raise, GoTo
<1>12. ASSUME DecodeSize PROVE RevokedShape'
  <2>1. CASE Raise("failed")
        BY <1>12, <2>1 DEF DecodeSize, Raise
  <2>2. CASE GoTo("decode poll")
        BY <1>12, <2>2 DEF DecodeSize, GoTo
  <2> QED BY <1>12, <2>1, <2>2 DEF DecodeSize
<1>13. ASSUME Decoded PROVE RevokedShape'
      BY <1>13 DEF Decoded, Raise, GoTo
<1>14. ASSUME ChunkRaises PROVE RevokedShape'
      BY <1>14 DEF ChunkRaises, Raise
<1>15. ASSUME NextChunk PROVE RevokedShape'
      BY <1>15 DEF NextChunk, Raise, GoTo
<1>16. ASSUME LastChunk PROVE RevokedShape'
      BY <1>16 DEF LastChunk, Raise, GoTo
<1>17. ASSUME Checked("write cancelled?", "write poll") PROVE RevokedShape'
      BY <1>17 DEF Checked, Raise, GoTo
<1>18. ASSUME WritePoll PROVE RevokedShape'
      BY <1>18 DEF WritePoll, Poll, HasExited, Raise, GoTo
<1>19. ASSUME InTime("write late?", "select") PROVE RevokedShape'
      BY <1>19 DEF InTime, Raise, GoTo
<1>20. ASSUME Write PROVE RevokedShape'
  <2>1. at' \in {"finally", "chunk", "write cancelled?"}
        BY <1>20 DEF Write, Raise, GoTo
  <2>2. UNCHANGED <<todo, cancel, revoked>>
        BY <1>20 DEF Write, Raise, GoTo
  <2>3. at' = "finally" => raised' = "failed"
        BY <1>20 DEF Write, Raise, GoTo
  <2> QED BY <2>1, <2>2, <2>3
<1>21. ASSUME FlushPoll PROVE RevokedShape'
      BY <1>21 DEF FlushPoll, Poll, HasExited, GoTo
<1>22. ASSUME Checked("flush cancelled?", "flush late?") PROVE RevokedShape'
      BY <1>22 DEF Checked, Raise, GoTo
<1>23. ASSUME InTime("flush late?", "flush poll") PROVE RevokedShape'
      BY <1>23 DEF InTime, Raise, GoTo
<1>24. ASSUME Encoded PROVE RevokedShape'
      BY <1>24 DEF Encoded, Raise, GoTo
<1>25. ASSUME Finally PROVE RevokedShape'
      BY <1>25 DEF Finally, GoTo
<1>26. ASSUME Waited PROVE RevokedShape'
      BY <1>26 DEF Waited, Poll, HasExited
<1>27. ASSUME ChildWrites PROVE RevokedShape'
      BY <1>27 DEF ChildWrites
<1>28. ASSUME ChildReads PROVE RevokedShape'
      BY <1>28 DEF ChildReads
<1>29. ASSUME ChildExits PROVE RevokedShape'
      BY <1>29 DEF ChildExits
<1>30. ASSUME ChildDies PROVE RevokedShape'
      BY <1>30 DEF ChildDies
<1>31. ASSUME Tick PROVE RevokedShape'
      BY <1>31 DEF Tick
<1>32. ASSUME Cancel PROVE RevokedShape'
      BY <1>32 DEF Cancel
<1>33. CASE UNCHANGED vars
      BY <1>33 DEF vars
<1> QED
  BY <1>1, <1>2, <1>3, <1>4, <1>5, <1>6, <1>7, <1>8, <1>9, <1>10, <1>11, <1>12,
     <1>13, <1>14, <1>15, <1>16, <1>17, <1>18, <1>19, <1>20, <1>21, <1>22, <1>23,
     <1>24, <1>25, <1>26, <1>27, <1>28, <1>29, <1>30, <1>31, <1>32, <1>33 DEF Next,
     ThreadStep, RunBounded, DecodeSourceAudio, EncodeMp4

-----------------------------------------------------------------------------
\* The strengthening is inductive.
LEMMA MediaInvStep == MediaInv /\ [Next]_vars => MediaInv'
<1> SUFFICES ASSUME MediaInv, [Next]_vars PROVE MediaInv'
    OBVIOUS
<1>1. TypeOK'
      BY RequestTypeStep, ChildTypeStep, AmountTypeStep DEF MediaInv, TypeOK
<1>2. CallShape' /\ ChildShape' /\ FeedShape'
      BY CallShapeStep, ChildShapeStep, FeedShapeStep DEF MediaInv
<1>3. AcceptedWhole' /\ RevokedShape'
      BY AcceptedStep, RevokedStep DEF MediaInv
<1> QED BY <1>1, <1>2, <1>3 DEF MediaInv

\* ... and so an invariant.
LEMMA MediaInvHolds == Spec => []MediaInv
<1>1. Init => MediaInv
  <2> SUFFICES ASSUME Init PROVE MediaInv
      OBVIOUS
  <2> USE DEF Init, Bounded, Calls, BoundedAt, DecodeAt, FeedAt, FlushAt,
       WorkAt, None
  <2>1. TypeOK
    <3>1. todo \in Seq(Calls)
          OBVIOUS
    <3>2. RequestTypeOK /\ ChildTypeOK
          BY <3>1 DEF RequestTypeOK, ChildTypeOK
    <3>3. AmountTypeOK
          BY BoundsPositive DEF AmountTypeOK
    <3> QED BY <3>2, <3>3 DEF TypeOK
  <2>2. CallShape /\ ChildShape /\ FeedShape
        BY DEF CallShape, ChildShape, FeedShape
  <2>3. AcceptedWhole /\ RevokedShape
        BY DEF AcceptedWhole, RevokedShape
  <2> QED BY <2>1, <2>2, <2>3 DEF MediaInv
<1>2. MediaInv /\ [Next]_vars => MediaInv'
      BY MediaInvStep
<1> QED BY <1>1, <1>2, PTL DEF Spec

\* Type correctness of the media processes.
THEOREM MediaTyped == Spec => []TypeOK
<1>1. MediaInv => TypeOK
      BY DEF MediaInv
<1> QED BY <1>1, MediaInvHolds, PTL

\* run_bounded reaps every process before it returns, and so do decoding and encoding:
\* between calls and after them no child is left, however the call ended.
THEOREM EveryChildReaped == Spec => []NoChildLeft
<1>1. MediaInv => NoChildLeft
      BY DEF MediaInv, ChildShape, NoChildLeft
<1> QED BY <1>1, MediaInvHolds, PTL

\* What a call accepts was written by a process that exited with 0, is within the limit
\* and complete, whatever the child wrote between a poll and its end.
THEOREM OnlyWholeAccepted == Spec => []AcceptedWhole
<1>1. MediaInv => AcceptedWhole
      BY DEF MediaInv
<1> QED BY <1>1, MediaInvHolds, PTL

\* A cancellation that finds a tool running, or one still to run, is not overlooked.
THEOREM CancellationObeyed == Spec => []CancelObeyed
<1>1. MediaInv => CancelObeyed
      BY DEF MediaInv, CallShape, RevokedShape, CancelObeyed
<1> QED BY <1>1, MediaInvHolds, PTL

-----------------------------------------------------------------------------
\* The time that the tools of a generation may take: products of the bounds, whose
\* signs and orders the provers are told.
LEMMA Products ==
  \A k, a, b \in Nat : a * k \in Nat /\ (a <= b => a * k <= b * k)
<1> SUFFICES ASSUME NEW k \in Nat, NEW a \in Nat, NEW b \in Nat
             PROVE  a * k \in Nat /\ (a <= b => a * k <= b * k)
    OBVIOUS
<1>1. \A x, y \in Nat : x * y \in Nat
      OBVIOUS
<1>2. ASSUME a <= b PROVE a * k <= b * k
  <2>1. b - a \in Nat
        BY <1>2
  <2>2. (b - a) * k \in Nat
        BY <1>1, <2>1
  <2>3. (b - a) * k = b * k - a * k
        OBVIOUS
  <2> QED BY <1>1, <2>2, <2>3
<1> QED BY <1>1, <1>2

\* A deadline is worth its window.
LEMMA OneDeadline ==
  ASSUME NEW a \in Nat, NEW b \in Nat, b < a
  PROVE  Window * b + Window <= Window * a
<1>1. Window \in Nat /\ b + 1 \in Nat /\ b + 1 <= a
      BY BoundsPositive
<1>2. (b + 1) * Window <= a * Window
      BY <1>1, Products
<1>3. (b + 1) * Window = Window * b + Window /\ a * Window = Window * a
      BY <1>1
<1> QED BY <1>2, <1>3

\* Two sums.
LEMMA Sums ==
  \A a, b, x, y, w \in Nat :
    /\ a <= b /\ x <= y => a + x <= b + y
    /\ a + w <= b /\ x <= w => a + x <= b + y
OBVIOUS

CallAhead == IF at \in FeedAt THEN (Frames - fed) * (Pieces + 1) + rest + 1 ELSE 0
TimeLeft == IF at \in WorkAt THEN left ELSE 0

\* What the budget is made of, and that it is one.
AheadShape ==
  /\ Len(todo) \in Nat /\ Longest \in Nat /\ Len(todo) * Longest \in Nat
  /\ CallAhead \in Nat
  /\ DeadlinesAhead = Len(todo) * Longest + CallAhead /\ DeadlinesAhead \in Nat
  /\ TimeLeft \in 0 .. Window
  /\ Window * DeadlinesAhead \in Nat
  /\ TimeAhead = Window * DeadlinesAhead + TimeLeft /\ TimeAhead \in Nat

\* What lies ahead of a call, as the measure counts it, are natural numbers.
LEMMA AheadTyped == TypeOK /\ FeedShape => AheadShape
<1> SUFFICES ASSUME TypeOK, FeedShape PROVE AheadShape
    OBVIOUS
<1> USE BoundsPositive
<1>1. Len(todo) \in Nat
      BY DEF TypeOK, RequestTypeOK
<1>2. Pieces + 1 \in Nat /\ Frames * (Pieces + 1) \in Nat
      BY Products
<1>3. Longest \in Nat
      BY <1>2 DEF Longest
<1>4. ASSUME at \in FeedAt PROVE (Frames - fed) * (Pieces + 1) \in Nat
  <2>1. Frames - fed \in Nat
        BY <1>4 DEF FeedShape, TypeOK, AmountTypeOK
  <2> QED BY <1>2, <2>1, Products
<1>5. CallAhead \in Nat
      BY <1>4 DEF CallAhead, TypeOK, AmountTypeOK
<1>6. Len(todo) * Longest \in Nat
      BY <1>1, <1>3, Products
<1>7. DeadlinesAhead = Len(todo) * Longest + CallAhead
      BY DEF DeadlinesAhead, CallAhead
<1>8. TimeLeft \in 0 .. Window
      BY DEF TimeLeft, TypeOK, AmountTypeOK
<1>9. TimeAhead = Window * DeadlinesAhead + TimeLeft
      BY DEF TimeAhead, TimeLeft
<1>10. Window * DeadlinesAhead \in Nat
      BY <1>5, <1>6, <1>7, Products
<1>11. TimeAhead \in Nat
      BY <1>8, <1>9, <1>10
<1> QED BY <1>1, <1>3, <1>5, <1>6, <1>7, <1>8, <1>9, <1>10, <1>11 DEF AheadShape

\* ... also after a step.
LEMMA AheadTypedNext == TypeOK' /\ FeedShape' => AheadShape'
BY AheadTyped, PTL

\* A step that sets no deadline adds nothing.
LEMMA NothingSet ==
  ASSUME TypeOK, FeedShape, TypeOK', FeedShape',
         Len(todo') <= Len(todo),
         at' \in FeedAt => at \in FeedAt /\ fed' = fed /\ rest' = rest,
         at' \in WorkAt => at \in WorkAt /\ left' = left
  PROVE  TimeAhead' <= TimeAhead
<1>1. AheadShape /\ AheadShape'
      BY AheadTyped, AheadTypedNext
<1>2. Longest' = Longest
      BY DEF Longest
<1>3. Len(todo') * Longest <= Len(todo) * Longest
      BY <1>1, <1>2, Products DEF AheadShape
<1>4. CallAhead' <= CallAhead
  <2>1. at' \in FeedAt => CallAhead' = CallAhead
        BY DEF CallAhead
  <2>2. at' \notin FeedAt => CallAhead' = 0
        BY DEF CallAhead
  <2>3. \A x, y \in Nat : x = y \/ x = 0 => x <= y
        OBVIOUS
  <2> QED BY <1>1, <2>1, <2>2, <2>3, Zenon DEF AheadShape
<1>5. TimeLeft' <= TimeLeft
      BY <1>1 DEF AheadShape, TimeLeft
<1>6. DeadlinesAhead' <= DeadlinesAhead
  <2>1. /\ Len(todo') * Longest \in Nat /\ Len(todo) * Longest \in Nat
        /\ CallAhead' \in Nat /\ CallAhead \in Nat
        /\ DeadlinesAhead' = Len(todo') * Longest + CallAhead'
        /\ DeadlinesAhead = Len(todo) * Longest + CallAhead
        BY <1>1, <1>2, Zenon DEF AheadShape
  <2> QED BY <1>3, <1>4, <2>1, Sums, BoundsPositive, Zenon
<1>7. Window * DeadlinesAhead' <= Window * DeadlinesAhead
  <2>1. DeadlinesAhead' \in Nat /\ DeadlinesAhead \in Nat /\ Window \in Nat
        BY <1>1, BoundsPositive, Zenon DEF AheadShape
  <2>2. DeadlinesAhead' * Window <= DeadlinesAhead * Window
        BY <1>6, <2>1, Products
  <2>3. \A x, y \in Nat : x * y = y * x
        OBVIOUS
  <2> QED BY <2>1, <2>2, <2>3, Zenon
<1>8. TimeLeft' \in Nat /\ TimeLeft \in Nat
      BY <1>1 DEF AheadShape
<1> QED BY <1>1, <1>5, <1>7, <1>8, Sums, BoundsPositive, Zenon DEF AheadShape

\* A step that sets one has one less to set.
LEMMA OneSet ==
  ASSUME TypeOK, FeedShape, TypeOK', FeedShape', DeadlinesAhead' < DeadlinesAhead
  PROVE  TimeAhead' <= TimeAhead
<1>1. AheadShape /\ AheadShape'
      BY AheadTyped, AheadTypedNext
<1>2. Window * DeadlinesAhead' + Window <= Window * DeadlinesAhead
      BY <1>1, OneDeadline DEF AheadShape
<1>3. /\ TimeLeft' \in Nat /\ TimeLeft \in Nat /\ TimeLeft' <= Window
      /\ Window \in Nat
      BY <1>1, BoundsPositive DEF AheadShape
<1> QED BY <1>1, <1>2, <1>3, Sums, Zenon DEF AheadShape

\* What keeps within the deadlines that are set.
SetsNone ==
  /\ Len(todo') <= Len(todo)
  /\ at' \in FeedAt => at \in FeedAt /\ fed' = fed /\ rest' = rest
  /\ at' \in WorkAt => at \in WorkAt /\ left' = left

TimeKept == TimeAhead' <= TimeAhead

\* The caller and the loops of the three kinds of call.
LEMMA CallsSetNone ==
  ASSUME MediaInv, \/ CallerRaises \/ Succeeds \/ RunBounded \/ DecodeSourceAudio
                   \/ Finally \/ Waited
  PROVE  SetsNone
<1>1. Len(todo) \in Nat /\ Len(todo) <= Len(todo) /\ Len(<<>>) <= Len(todo)
      BY DEF MediaInv, TypeOK, RequestTypeOK
<1> USE DEF SetsNone, FeedAt, WorkAt, BoundedAt, DecodeAt, FlushAt, GoTo, Raise, requestVars,
       feedVars
<1>2. CASE CallerRaises \/ Succeeds
      BY <1>1, <1>2 DEF CallerRaises, Succeeds
<1>3. CASE RunBounded
      BY <1>1, <1>3 DEF RunBounded, BoundedPoll, BoundedCheck, Checked, InTime, BoundedSize
<1>4. CASE DecodeSourceAudio
      BY <1>1, <1>4 DEF DecodeSourceAudio, DecodePoll, Checked, InTime, DecodeSize, Decoded
<1>5. CASE Finally \/ Waited
      BY <1>1, <1>5 DEF Finally, Waited
<1> QED BY <1>2, <1>3, <1>4, <1>5

\* The child, the client.
LEMMA OthersSetNone ==
  ASSUME MediaInv,
         ChildWrites \/ ChildReads \/ ChildExits \/ ChildDies \/ Cancel \/ UNCHANGED vars
  PROVE  SetsNone
<1>1. Len(todo) \in Nat /\ Len(todo) <= Len(todo)
      BY DEF MediaInv, TypeOK, RequestTypeOK
<1>2. UNCHANGED <<todo, at, left, fed, rest>>
      BY DEF ChildWrites, ChildReads, ChildExits, ChildDies, Cancel, vars, requestVars,
         feedVars
<1> QED BY <1>1, <1>2 DEF SetsNone

\* encode_mp4 at work, but for what sets a deadline.
LEMMA EncodingSetsNone ==
  ASSUME MediaInv, EncodeMp4
  PROVE  SetsNone \/ NextChunk \/ LastChunk \/ Write
<1>1. Len(todo) \in Nat /\ Len(todo) <= Len(todo)
      BY DEF MediaInv, TypeOK, RequestTypeOK
<1> USE DEF SetsNone, FeedAt, WorkAt, BoundedAt, DecodeAt, FlushAt, GoTo, Raise, requestVars,
       feedVars
<1>2. CASE ChunkRaises \/ WritePoll
      BY <1>1, <1>2 DEF ChunkRaises, WritePoll
<1>3. CASE Checked("write cancelled?", "write poll") \/ InTime("write late?", "select")
      BY <1>1, <1>3 DEF Checked, InTime
<1>4. CASE FlushPoll \/ Encoded
      BY <1>1, <1>4 DEF FlushPoll, Encoded
<1>5. CASE Checked("flush cancelled?", "flush late?") \/ InTime("flush late?", "flush poll")
      BY <1>1, <1>5 DEF Checked, InTime
<1> QED BY <1>2, <1>3, <1>4, <1>5 DEF EncodeMp4

\* A call that begins has the longest one's deadlines for its own.
LEMMA StartSetsOne ==
  ASSUME MediaInv, MediaInv', Start
  PROVE  SetsNone \/ DeadlinesAhead' < DeadlinesAhead
<1>1. /\ AheadShape /\ AheadShape' /\ Longest' = Longest
      BY AheadTyped, AheadTypedNext DEF MediaInv, Longest
<1>2. Len(todo') = Len(todo) - 1 /\ Len(todo) \in Nat /\ Len(todo) > 0
      BY DEF Start, MediaInv, TypeOK, RequestTypeOK
<1>3. Len(todo') * Longest + Longest = Len(todo) * Longest
  <2>1. \A n, k \in Nat : (n - 1) * k + k = n * k
        OBVIOUS
  <2> QED BY <1>1, <1>2, <2>1, Zenon DEF AheadShape
<1>4. CallAhead = 0
      BY DEF Start, CallAhead, FeedAt
<1>5. CallAhead' <= Longest - 1
  <2>1. CASE at' \in FeedAt
    <3>1. fed' = 0 /\ rest' = 0
          BY DEF Start
    <3>2. CallAhead' = (Frames - 0) * (Pieces + 1) + 0 + 1
          BY <2>1, <3>1 DEF CallAhead
    <3>3. Frames * (Pieces + 1) \in Nat /\ Frames - 0 = Frames
          BY BoundsPositive, Products
    <3> QED BY <3>2, <3>3 DEF Longest
  <2>2. CASE at' \notin FeedAt
    <3>1. Frames * (Pieces + 1) \in Nat
          BY BoundsPositive, Products
    <3> QED BY <2>2, <3>1 DEF CallAhead, Longest
  <2> QED BY <2>1, <2>2
<1>6. \A p, q, c, l \in Nat : p + l = q /\ c <= l - 1 => p + c < q
      OBVIOUS
<1>7. /\ DeadlinesAhead' = Len(todo') * Longest + CallAhead'
      /\ DeadlinesAhead = Len(todo) * Longest + 0
      /\ Len(todo') * Longest \in Nat /\ Len(todo) * Longest \in Nat
      /\ CallAhead' \in Nat /\ Longest \in Nat
      BY <1>1, <1>4, Zenon DEF AheadShape
<1>8. \A q \in Nat : q + 0 = q
      OBVIOUS
<1> QED BY <1>3, <1>5, <1>6, <1>7, <1>8, Zenon

\* So have a chunk, a write and the end of a file, which are counted before they come.
LEMMA FeedingSetsOne ==
  ASSUME MediaInv, MediaInv', NextChunk \/ LastChunk \/ Write
  PROVE  SetsNone \/ DeadlinesAhead' < DeadlinesAhead
<1> USE DEF GoTo, Raise, requestVars
<1>1. /\ AheadShape /\ AheadShape' /\ Longest' = Longest
      BY AheadTyped, AheadTypedNext DEF MediaInv, Longest
<1>2. /\ todo' = todo /\ at \in FeedAt
      /\ fed \in Nat /\ fed <= Frames /\ rest \in Nat /\ rest' \in Nat
  <2>1. todo' = todo /\ at \in {"chunk", "select"}
        BY DEF NextChunk, LastChunk, Write
  <2>2. at \in FeedAt
        BY <2>1 DEF FeedAt
  <2>3. fed \in Nat /\ fed <= Frames /\ rest \in Nat /\ rest' \in Nat
        BY <2>2, BoundsPositive DEF MediaInv, TypeOK, AmountTypeOK, FeedShape
  <2> QED BY <2>1, <2>2, <2>3
<1>3. CallAhead = (Frames - fed) * (Pieces + 1) + rest + 1
      BY <1>2 DEF CallAhead
<1>4. ASSUME CallAhead' < CallAhead PROVE DeadlinesAhead' < DeadlinesAhead
  <2>1. \A p, c, d \in Nat : c < d => p + c < p + d
        OBVIOUS
  <2> QED BY <1>1, <1>2, <1>4, <2>1, Zenon DEF AheadShape
<1>5. (Frames - fed) * (Pieces + 1) \in Nat
  <2>1. Frames - fed \in Nat /\ Pieces + 1 \in Nat
        BY <1>2, BoundsPositive
  <2> QED BY <2>1, Products
<1>6. CASE at' \notin WorkAt
      BY <1>1, <1>2, <1>6 DEF SetsNone, WorkAt, AheadShape
<1>7. CASE NextChunk /\ at' \in WorkAt
  <2>1. /\ at' \in FeedAt /\ fed' = fed + 1 /\ rest' = Pieces /\ rest = 0
        BY <1>7 DEF NextChunk, FeedAt, WorkAt, BoundedAt, DecodeAt, FlushAt, MediaInv,
           FeedShape
  <2>2. CallAhead' = (Frames - (fed + 1)) * (Pieces + 1) + Pieces + 1
        BY <2>1 DEF CallAhead
  <2>3. (Frames - (fed + 1)) * (Pieces + 1) = (Frames - fed) * (Pieces + 1) - (Pieces + 1)
    <3>1. \A n, k \in Int : (n - 1) * k = n * k - k
          OBVIOUS
    <3>2. Frames - (fed + 1) = (Frames - fed) - 1 /\ Frames - fed \in Int
            /\ Pieces + 1 \in Int
          BY <1>2, BoundsPositive
    <3> QED BY <3>1, <3>2, Zenon
  <2>4. \A x, y, p \in Int : y = x - (p + 1) => y + p + 1 < x + 0 + 1
        OBVIOUS
  <2>5. (Frames - (fed + 1)) * (Pieces + 1) \in Int /\ Pieces \in Int
        BY <1>5, <2>3, BoundsPositive
  <2>6. CallAhead' < CallAhead
        BY <1>3, <1>5, <2>1, <2>2, <2>3, <2>4, <2>5
  <2> QED BY <1>4, <2>6
<1>8. CASE LastChunk /\ at' \in WorkAt
  <2>1. at' \notin FeedAt
        BY <1>8 DEF LastChunk, FeedAt, WorkAt, BoundedAt, DecodeAt, FlushAt
  <2>2. CallAhead' = 0
        BY <2>1 DEF CallAhead
  <2>3. CallAhead' < CallAhead
        BY <1>2, <1>3, <1>5, <2>2
  <2> QED BY <1>4, <2>3
<1>9. CASE Write /\ at' \in WorkAt
  <2>1. at = "select" /\ at' \in FeedAt /\ fed' = fed
        BY <1>9 DEF Write, FeedAt, WorkAt, BoundedAt, DecodeAt, FlushAt
  <2>2. CASE rest' = rest /\ left' = left
        BY <1>1, <1>2, <2>1, <2>2 DEF SetsNone, WorkAt, AheadShape
  <2>3. CASE rest' = rest - 1
    <3>1. CallAhead' = (Frames - fed) * (Pieces + 1) + (rest - 1) + 1
          BY <2>1, <2>3 DEF CallAhead
    <3>2. \A x, r \in Int : x + (r - 1) + 1 < x + r + 1
          OBVIOUS
    <3>3. CallAhead' < CallAhead
          BY <1>2, <1>3, <1>5, <3>1, <3>2
    <3> QED BY <1>4, <3>3
  <2> QED BY <1>9, <2>2, <2>3 DEF Write, WorkAt, BoundedAt, DecodeAt, FeedAt, FlushAt
<1> QED BY <1>6, <1>7, <1>8, <1>9

\* Time that passes is time spent.
LEMMA TicksSpend ==
  ASSUME MediaInv, MediaInv', Tick
  PROVE  TimeAhead' < TimeAhead
<1>1. AheadShape /\ AheadShape'
      BY AheadTyped, AheadTypedNext DEF MediaInv
<1>2. DeadlinesAhead' = DeadlinesAhead
      BY DEF Tick, DeadlinesAhead, Longest, requestVars, feedVars
<1>3. TimeLeft' < TimeLeft
  <2>1. TimeLeft = left /\ TimeLeft' = left - 1
        BY DEF Tick, TimeLeft
  <2> QED BY <2>1 DEF MediaInv, TypeOK, AmountTypeOK
<1>4. \A a, x, y \in Nat : x < y => a + x < a + y
      OBVIOUS
<1>5. TimeLeft' \in Nat /\ TimeLeft \in Nat
      BY <1>1 DEF AheadShape
<1> QED BY <1>1, <1>2, <1>3, <1>4, <1>5, Zenon DEF AheadShape

TimeSpent ==
  at # "idle" => TimeAhead' <= TimeAhead /\ (Tick => TimeAhead' < TimeAhead)

\* Nothing that a tool does, or stops doing, gives its generation more time.
LEMMA TimeMoves == MediaInv /\ [Next]_vars => TimeSpent
<1> SUFFICES ASSUME MediaInv, [Next]_vars, at # "idle"
             PROVE  TimeAhead' <= TimeAhead /\ (Tick => TimeAhead' < TimeAhead)
    BY DEF TimeSpent
<1>1. MediaInv'
      BY MediaInvStep
<1>2. TypeOK /\ FeedShape /\ TypeOK' /\ FeedShape'
      BY <1>1 DEF MediaInv
<1>3. ASSUME SetsNone PROVE TimeAhead' <= TimeAhead
      BY <1>2, <1>3, NothingSet DEF SetsNone
<1>4. ASSUME DeadlinesAhead' < DeadlinesAhead PROVE TimeAhead' <= TimeAhead
      BY <1>2, <1>4, OneSet
<1>5. Tick => TimeAhead' < TimeAhead
      BY <1>1, TicksSpend
<1>6. CASE Tick
  <2>1. AheadShape /\ AheadShape'
        BY <1>2, AheadTyped, AheadTypedNext
  <2>2. TimeAhead' \in Nat /\ TimeAhead \in Nat
        BY <2>1, Zenon DEF AheadShape
  <2>3. \A x, y \in Nat : x < y => x <= y
        OBVIOUS
  <2> QED BY <1>5, <1>6, <2>2, <2>3
<1>7. CASE CallerRaises \/ Succeeds \/ RunBounded \/ DecodeSourceAudio \/ Finally \/ Waited
      BY <1>3, <1>5, <1>7, CallsSetNone
<1>8. CASE ChildWrites \/ ChildReads \/ ChildExits \/ ChildDies \/ Cancel \/ UNCHANGED vars
      BY <1>3, <1>5, <1>8, OthersSetNone
<1>9. CASE EncodeMp4
      BY <1>1, <1>3, <1>4, <1>5, <1>9, EncodingSetsNone, FeedingSetsOne
<1>10. CASE Start
      BY <1>1, <1>3, <1>4, <1>5, <1>10, StartSetsOne
<1>11. ~Begin
      BY DEF Begin
<1> QED BY <1>6, <1>7, <1>8, <1>9, <1>10, <1>11 DEF Next, ThreadStep

\* The deadlines of media/processes.py and media/ffmpeg.py bound a generation's tools
\* together: each that is set anew, by a chunk, a write or the next call, was counted when
\* the generation began, so that an FFmpeg that goes on in small steps comes to an end.
THEOREM ToolsTimeBounded == Spec => TimeBounded
<1>1. MediaInv /\ [Next]_vars => TimeSpent
      BY TimeMoves
<1> QED BY <1>1, MediaInvHolds, PTL DEF Spec, TimeBounded, TimeSpent
=============================================================================
