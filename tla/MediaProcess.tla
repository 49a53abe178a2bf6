---------------------------- MODULE MediaProcess ----------------------------
(***************************************************************************)
(* The FFmpeg and ffprobe processes of one generation: run_bounded of      *)
(* media/processes.py, decode_source_audio and encode_mp4 of               *)
(* media/ffmpeg.py, and the order in which media/video_inputs.py and       *)
(* inference/runtime.py call them. One worker thread, one child process at *)
(* a time, a clock that runs to the deadline of the call, a client that    *)
(* may cancel at any moment.                                               *)
(***************************************************************************)
EXTENDS Integers, Sequences

CONSTANTS Frames,   \* frames of the request; a chunk of the decoder is one
          Pieces,   \* os.write calls that a chunk takes when nothing is in the way
          PipeRoom, \* pieces the pipe to FFmpeg holds
          Limit,    \* max_bytes, the cap on probe output, or the bytes of decoded sound
          Window    \* ticks from the start of a deadline to its end

ASSUME MediaAssumption ==
  /\ {Frames, Pieces, PipeRoom, Limit, Window} \subseteq Nat \ {0}

VARIABLES todo,       \* calls the generation has yet to make
          call,       \* the call under way, or the last one
          at,         \* position of the thread
          raised,     \* the ServiceError under way or last raised, "none" otherwise
          cancel,     \* context.cancel
          child,      \* the operating system's view of the process
          exit,       \* exit status the child leaves, 0 or 1
          returncode, \* process.returncode: None until the child was polled or waited for
          finished,   \* run_bounded's local
          size,       \* bytes of what the call limits: destination, captured output, sound
          left,       \* ticks left to the deadline
          fed,        \* frames taken from the decoder
          rest,       \* pieces of the chunk not yet written
          room,       \* free pieces of the pipe
          revoked     \* cancelled while a child lived or a call was still to come

requestVars == <<todo, call, raised, cancel, revoked>>
processVars == <<child, exit, returncode>>
feedVars == <<fed, rest, room>>
vars == <<requestVars, at, processVars, finished, size, left, feedVars>>

None == -1

Bounded == {"probe", "prepare", "inspect", "copy"}
Calls == Bounded \cup {"decode", "encode"}

\* What a generation calls, by its inputs: a reference or a retake's source may
\* have to be prepared, sound decoded, and the video is encoded or copied.
Plans ==
  LET prepared == <<"prepare", "inspect">>
      retakes == {<<"probe">>, <<"probe">> \o prepared \o <<"probe">>}
      sounds == {<<>>, <<"decode">>}
      outputs == {<<"encode", "inspect">>, <<"copy", "inspect">>}
  IN
  {r \o <<"encode", "inspect">> : r \in sounds \cup {prepared}}
    \cup {p \o a \o o : p \in retakes, a \in sounds, o \in outputs}

BoundedAt == {"poll", "cancelled?", "late?", "large?"}
DecodeAt == {"decode poll", "decode cancelled?", "decode late?", "decode large?", "decoded"}
FeedAt == {"chunk", "write cancelled?", "write poll", "write late?", "select"}
FlushAt == {"flush poll", "flush cancelled?", "flush late?", "encoded"}
WorkAt == BoundedAt \cup DecodeAt \cup FeedAt \cup FlushAt

RequestTypeOK ==
  /\ todo \in Seq(Calls)
  /\ call \in Calls
  /\ at \in WorkAt \cup {"idle", "between", "finally", "wait"}
  /\ raised \in {"none", "cancelled", "missing", "failed"}
  /\ cancel \in BOOLEAN
  /\ revoked \in BOOLEAN

ChildTypeOK ==
  /\ child \in {"none", "running", "exited", "killed"}
  /\ exit \in {0, 1}
  /\ returncode \in {None, 0, 1}
  /\ finished \in BOOLEAN

AmountTypeOK ==
  /\ size \in 0 .. Limit + 1
  /\ left \in 0 .. Window
  /\ fed \in 0 .. Frames + 1
  /\ rest \in 0 .. Pieces
  /\ room \in 0 .. PipeRoom

TypeOK == RequestTypeOK /\ ChildTypeOK /\ AmountTypeOK

Init ==
  /\ todo = <<>>
  /\ call = "inspect"
  /\ at = "idle"
  /\ raised = "none"
  /\ cancel = FALSE
  /\ child = "none"
  /\ exit = 0
  /\ returncode = None
  /\ finished = FALSE
  /\ size = 0
  /\ left = 0
  /\ fed = 0
  /\ rest = 0
  /\ room = PipeRoom
  /\ revoked = FALSE

-----------------------------------------------------------------------------
\* raise inside the try of a call, whose finally comes next.
Raise(error) ==
  /\ raised' = error
  /\ at' = "finally"
  /\ UNCHANGED <<todo, call, cancel, revoked>>

GoTo(next) == at' = next /\ UNCHANGED requestVars

\* check_cancelled(cancel) at one position, on to the next.
Checked(here, next) ==
  /\ at = here
  /\ IF cancel THEN Raise("cancelled") ELSE GoTo(next)
  /\ UNCHANGED <<processVars, finished, size, left, feedVars>>

\* The deadline judged at one position, on to the next.
InTime(here, next) ==
  /\ at = here
  /\ IF left = 0 THEN Raise("failed") ELSE GoTo(next)
  /\ UNCHANGED <<processVars, finished, size, left, feedVars>>

\* process.poll(): a child that has exited is reaped and its status kept.
HasExited == child = "exited"
Poll ==
  IF HasExited THEN child' = "none" /\ returncode' = exit
               ELSE UNCHANGED <<child, returncode>>

-----------------------------------------------------------------------------
\* A generation begins, with an event of its own.
Begin ==
  /\ at = "idle"
  /\ at' = "between"
  /\ todo' \in Plans
  /\ raised' = "none"
  /\ cancel' = FALSE
  /\ revoked' = FALSE
  /\ UNCHANGED <<call, processVars, finished, size, left, feedVars>>

\* Between two calls the generation works on the GPU, judges what a probe reported
\* and checks for cancellation: each may end it. The last report is only judged.
CallerRaises ==
  /\ at = "between"
  /\ raised' \in {"failed"} \cup {e \in {"cancelled"} : cancel /\ todo # <<>>}
  /\ at' = "idle"
  /\ todo' = <<>>
  /\ UNCHANGED <<call, cancel, revoked, processVars, finished, size, left, feedVars>>

\* The last call has returned, and the generation with it.
Succeeds ==
  /\ at = "between"
  /\ todo = <<>>
  /\ at' = "idle"
  /\ UNCHANGED <<requestVars, processVars, finished, size, left, feedVars>>

FirstPosition(c) ==
  CASE c \in Bounded -> "poll"
    [] c = "decode" -> "decode poll"
    [] c = "encode" -> "chunk"

\* The next call: its check, Popen, the deadline. There is no process if it was
\* cancelled, the tool is not installed, or the operating system refuses.
Start ==
  /\ at = "between"
  /\ todo # <<>>
  /\ call' = Head(todo)
  /\ todo' = Tail(todo)
  /\ \/ /\ raised' \in IF cancel THEN {"cancelled"} ELSE {"missing", "failed"}
        /\ at' = "finally"
        /\ UNCHANGED child
     \/ /\ ~cancel
        /\ child' = "running"
        /\ at' = FirstPosition(call')
        /\ UNCHANGED raised
  /\ returncode' = None
  /\ finished' = FALSE
  /\ size' = 0
  /\ left' = Window
  /\ fed' = 0
  /\ rest' = 0
  /\ room' = PipeRoom
  /\ UNCHANGED <<cancel, revoked, exit>>

-----------------------------------------------------------------------------
\* run_bounded polls first, and remembers whether the process had ended by then.
BoundedPoll ==
  /\ at = "poll"
  /\ Poll
  /\ finished' = HasExited
  /\ GoTo("cancelled?")
  /\ UNCHANGED <<exit, size, left, feedVars>>

\* Mutant: a process that has ended is not worth a look at the event.
BoundedCheck_Running ==
  IF finished THEN /\ at = "cancelled?"
                   /\ GoTo("late?")
                   /\ UNCHANGED <<processVars, finished, size, left, feedVars>>
              ELSE Checked("cancelled?", "late?")

BoundedCheck == Checked("cancelled?", "late?")

\* Mutant: the loop ends by a poll of its own, after the size was judged.
BoundedSize_PollLast ==
  /\ at = "large?"
  /\ Poll
  /\ \/ \E e \in {"missing", "failed"} : Raise(e)
     \/ size <= Limit /\ ~HasExited /\ GoTo("poll")
     \/ size <= Limit /\ HasExited /\ GoTo("finally")
  /\ UNCHANGED <<exit, finished, size, left, feedVars>>

\* Then, in this order, cancelled, late, too large; a process that had ended
\* before all that is accepted if it exited with 0. A stat raises whatever the size is.
BoundedSize ==
  /\ at = "large?"
  /\ \/ \E e \in {"missing", "failed"} : Raise(e)
     \/ size <= Limit /\ ~finished /\ GoTo("poll")
     \/ size <= Limit /\ finished /\ returncode # 0 /\ Raise("failed")
     \/ size <= Limit /\ finished /\ returncode = 0 /\ GoTo("finally")
  /\ UNCHANGED <<processVars, finished, size, left, feedVars>>

RunBounded ==
  \/ BoundedPoll
  \/ BoundedCheck
  \/ InTime("late?", "large?")
  \/ BoundedSize

-----------------------------------------------------------------------------
\* decode_source_audio polls until the process has ended.
DecodePoll ==
  /\ at = "decode poll"
  /\ Poll
  /\ GoTo(IF HasExited THEN "decoded" ELSE "decode cancelled?")
  /\ UNCHANGED <<exit, finished, size, left, feedVars>>

DecodeSize ==
  /\ at = "decode large?"
  /\ Raise("failed") \/ (size <= Limit /\ GoTo("decode poll"))
  /\ UNCHANGED <<processVars, finished, size, left, feedVars>>

\* Exactly the requested span, or nothing, also where it cannot be read.
Decoded ==
  /\ at = "decoded"
  /\ \/ cancel /\ Raise("cancelled")
     \/ ~cancel /\ Raise("failed")
     \/ ~cancel /\ returncode = 0 /\ size = Limit /\ GoTo("finally")
  /\ UNCHANGED <<processVars, finished, size, left, feedVars>>

DecodeSourceAudio ==
  \/ DecodePoll
  \/ Checked("decode cancelled?", "decode late?")
  \/ InTime("decode late?", "decode large?")
  \/ DecodeSize
  \/ Decoded

-----------------------------------------------------------------------------
\* The decoder's iterator, and the stage report when it is exhausted, may raise.
ChunkRaises ==
  /\ at = "chunk"
  /\ Raise("failed") \/ (cancel /\ Raise("cancelled"))
  /\ UNCHANGED <<processVars, finished, size, left, feedVars>>

\* The next chunk, written from a new deadline on; one too many raises.
NextChunk ==
  /\ at = "chunk"
  /\ fed' = fed + 1
  /\ IF fed = Frames THEN Raise("failed") /\ UNCHANGED <<rest, left>>
                     ELSE GoTo("write cancelled?") /\ rest' = Pieces /\ left' = Window
  /\ UNCHANGED <<processVars, finished, size, room>>

\* No more chunks: stdin is closed and FFmpeg has a last deadline to finish by.
LastChunk ==
  /\ at = "chunk"
  /\ IF fed # Frames THEN Raise("failed") /\ UNCHANGED left
                     ELSE GoTo("flush poll") /\ left' = Window
  /\ UNCHANGED <<processVars, finished, size, feedVars>>

\* _write: an FFmpeg that has exited reads no more.
WritePoll ==
  /\ at = "write poll"
  /\ Poll
  /\ IF HasExited THEN Raise("failed") ELSE GoTo("write late?")
  /\ UNCHANGED <<exit, finished, size, left, feedVars>>

\* Mutant: time is counted from the last look at the pipe, not the last write.
Write_Renewed ==
  /\ at = "select"
  /\ \/ Raise("failed") /\ UNCHANGED <<left, rest, room>>
     \/ /\ ~HasExited
        /\ rest' = IF room = 0 THEN rest ELSE rest - 1
        /\ room' = IF room = 0 THEN room ELSE room - 1
        /\ left' = Window
        /\ GoTo(IF rest' = 0 THEN "chunk" ELSE "write cancelled?")
  /\ UNCHANGED <<processVars, finished, size, fed>>

\* select and os.write: a broken pipe raises, or any other error, a full one makes the
\* loop go round, and a write starts the deadline anew.
Write ==
  /\ at = "select"
  /\ \/ Raise("failed") /\ UNCHANGED <<left, rest, room>>
     \/ ~HasExited /\ room = 0 /\ GoTo("write cancelled?") /\ UNCHANGED <<left, rest, room>>
     \/ /\ ~HasExited /\ room > 0
        /\ rest' = rest - 1
        /\ room' = room - 1
        /\ left' = Window
        /\ GoTo(IF rest' = 0 THEN "chunk" ELSE "write cancelled?")
  /\ UNCHANGED <<processVars, finished, size, fed>>

FlushPoll ==
  /\ at = "flush poll"
  /\ Poll
  /\ GoTo(IF HasExited THEN "encoded" ELSE "flush cancelled?")
  /\ UNCHANGED <<exit, finished, size, left, feedVars>>

\* FFmpeg has ended by itself; a cancellation that came meanwhile still counts.
Encoded ==
  /\ at = "encoded"
  /\ \/ returncode # 0 /\ Raise("failed")
     \/ returncode = 0 /\ cancel /\ Raise("cancelled")
     \/ returncode = 0 /\ ~cancel /\ GoTo("finally")
  /\ UNCHANGED <<processVars, finished, size, left, feedVars>>

EncodeMp4 ==
  \/ ChunkRaises
  \/ NextChunk
  \/ LastChunk
  \/ Checked("write cancelled?", "write poll")
  \/ WritePoll
  \/ InTime("write late?", "select")
  \/ Write
  \/ FlushPoll
  \/ Checked("flush cancelled?", "flush late?")
  \/ InTime("flush late?", "flush poll")
  \/ Encoded

-----------------------------------------------------------------------------
\* Mutant: the child is killed and left to the operating system.
Finally_NoWait ==
  /\ at = "finally"
  /\ child' = IF child = "running" THEN "killed" ELSE child
  /\ at' = IF raised = "none" THEN "between" ELSE "idle"
  /\ todo' = IF raised = "none" THEN todo ELSE <<>>
  /\ UNCHANGED <<call, raised, cancel, revoked, exit, returncode, finished, size, left>>
  /\ UNCHANGED feedVars

\* The finally of every call: kill what still runs, and wait for it.
Finally ==
  /\ at = "finally"
  /\ child' = IF child = "running" THEN "killed" ELSE child
  /\ GoTo("wait")
  /\ UNCHANGED <<exit, returncode, finished, size, left, feedVars>>

\* process.wait() has reaped it. The call returns, or its error ends the generation.
Waited ==
  /\ at = "wait"
  /\ child # "killed"
  /\ Poll
  /\ at' = IF raised = "none" THEN "between" ELSE "idle"
  /\ todo' = IF raised = "none" THEN todo ELSE <<>>
  /\ UNCHANGED <<call, raised, cancel, revoked, exit, finished, size, left, feedVars>>

-----------------------------------------------------------------------------
\* The child: it writes more and more, reads its input, exits with either status.
ChildWrites ==
  /\ child = "running"
  /\ call # "encode"
  /\ size <= Limit
  /\ size' = size + 1
  /\ UNCHANGED <<requestVars, at, processVars, finished, left, feedVars>>

ChildReads ==
  /\ child = "running"
  /\ room < PipeRoom
  /\ room' = room + 1
  /\ UNCHANGED <<requestVars, at, processVars, finished, size, left, fed, rest>>

ChildExits ==
  /\ child = "running"
  /\ child' = "exited"
  /\ exit' \in {0, 1}
  /\ UNCHANGED <<requestVars, at, returncode, finished, size, left, feedVars>>

\* SIGKILL ends it.
ChildDies ==
  /\ child = "killed"
  /\ child' = "exited"
  /\ exit' = 1
  /\ UNCHANGED <<requestVars, at, returncode, finished, size, left, feedVars>>

\* Time passes towards the deadline.
Tick ==
  /\ at \in WorkAt
  /\ left > 0
  /\ left' = left - 1
  /\ UNCHANGED <<requestVars, at, processVars, finished, size, feedVars>>

\* DELETE, or the shutdown.
Cancel ==
  /\ at # "idle"
  /\ ~cancel
  /\ cancel' = TRUE
  /\ revoked' = (child # "none" \/ todo # <<>>)
  /\ UNCHANGED <<todo, call, raised, at, processVars, finished, size, left, feedVars>>

-----------------------------------------------------------------------------
ThreadStep ==
  \/ CallerRaises
  \/ Succeeds
  \/ Start
  \/ RunBounded
  \/ DecodeSourceAudio
  \/ EncodeMp4
  \/ Finally
  \/ Waited

Next ==
  \/ Begin
  \/ ThreadStep
  \/ ChildWrites
  \/ ChildReads
  \/ ChildExits
  \/ ChildDies
  \/ Tick
  \/ Cancel

Spec == Init /\ [][Next]_vars

\* The thread runs, SIGKILL is final, time passes. The child owes nothing.
Fairness == WF_vars(ThreadStep) /\ WF_vars(ChildDies) /\ WF_vars(Tick)

FairSpec == Spec /\ Fairness

-----------------------------------------------------------------------------
\* "Reap every process before returning": whoever publishes or removes the file
\* a tool was writing does so with no tool left that writes.
NoChildLeft == at \in {"idle", "between"} => child = "none"

\* What a call accepts is whole: its process exited with 0, and what it wrote last,
\* even between a poll and its own end, is within the limit; the sound is as long
\* as asked, and every frame was written.
AcceptedWhole ==
  at = "finally" /\ raised = "none" =>
    /\ child = "none" /\ returncode = 0
    /\ call \in Bounded => size <= Limit
    /\ call = "decode" => size = Limit
    /\ call = "encode" => fed = Frames /\ rest = 0

\* A cancellation that comes while a tool runs, or before the last one, never
\* ends in a result.
CancelObeyed == at = "idle" /\ revoked => raised # "none"

\* Deadlines that a call sets at most, which encode_mp4 may do: at its start, for each
\* chunk and each of its pieces, and for the end.
Longest == 2 + Frames * (Pieces + 1)

\* Deadlines that a generation may still set.
DeadlinesAhead ==
  Len(todo) * Longest
    + IF at \in FeedAt THEN (Frames - fed) * (Pieces + 1) + rest + 1 ELSE 0

\* Ticks that its tools may still take.
TimeAhead == Window * DeadlinesAhead + IF at \in WorkAt THEN left ELSE 0

\* The time that FFmpeg and ffprobe may take of a generation is fixed when it begins:
\* every tick is taken from it and nothing that the tools do, or stop doing, adds to it,
\* for all the deadlines that are set anew.
TimeBounded ==
  [][at # "idle" => TimeAhead' <= TimeAhead /\ (Tick => TimeAhead' < TimeAhead)]_vars

\* Every generation gets past its tools: whatever they do, or stop doing, a
\* deadline comes, and only a write of data still to be written puts it off.
ToolsEnd == at # "idle" ~> at = "idle"
=============================================================================
