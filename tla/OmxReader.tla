------------------------------- MODULE OmxReader -------------------------------
(***************************************************************************)
(* cOmxReader and its cFile (cOmxReader.cpp): opening a file and choosing  *)
(* its streams, reading packets, seeking and closing.  The play thread     *)
(* makes all calls: open, any number of readPacket and seek, close; then   *)
(* the next file with the same object.  The demuxer is FFmpeg's: it has    *)
(* the frames of the file in order and a place in them.                    *)
(*                                                                         *)
(* Times are ticks.  A stream is numbered from 0, as in the code.          *)
(***************************************************************************)
EXTENDS Integers, Sequences, SequencesExt, FiniteSets, FiniteSetsExt

CONSTANTS
    Files,      \* files, records as FileType says
    Slack,      \* the 0.1 s that a timestamp may be early
    MaxTime,    \* a seek is to a time in -MaxTime .. MaxTime
    MaxStreams, \* entries of mStreams, MAX_STREAMS, and of the packets' streams, MAX_OMX_STREAMS
    Slow        \* reading may take longer than the timeout or return an invalid packet

NoPts == -1000 \* less than any timestamp, as AV_NOPTS_VALUE is
None == -1
Null == "null"
Streams(f) == 0..(Len(f.streams) - 1)

\* source: a file, a fifo opened by its path, or a "pipe:", which is stdin; programs: the
\* streams of each; start and duration: of the file, 0 for a start that is not known; streams: type ("picture" is cover art),
\* start and duration of each, as their headers say; frames: stream, decoding timestamp and
\* whether a seek may land there.
StreamType == [type : {"audio", "video", "picture", "other"}, start : Int, duration : Int]
FrameType == [stream : Nat, dts : Int, key : BOOLEAN]
FileType ==
    [source : {"file", "fifo", "pipe"}, programs : Seq(Seq(Nat)), start : Int, duration : Int,
     streams : Seq(StreamType), frames : Seq(FrameType)]

\* The time of a frame from the start of its stream.
FromStart(f, frame) ==
    LET start == f.streams[frame.stream + 1].start IN frame.dts - (IF start = NoPts THEN 0 ELSE start)

\* A frame is of a stream, NoPts is less than any time, and a program has a stream once.
ASSUME FilesAssumption ==
    \A f \in Files :
        /\ f \in FileType /\ f # <<>>
        /\ \A i \in 1..Len(f.frames) :
               /\ f.frames[i].stream \in Streams(f) /\ f.frames[i].dts >= NoPts
               /\ f.frames[i].dts # NoPts => FromStart(f, f.frames[i]) > NoPts
        /\ \A i \in 1..Len(f.programs) :
               Range(f.programs[i]) \subseteq Streams(f) /\ IsInjective(f.programs[i])
ASSUME BoundsAssumption ==
    Slack \in Nat \ {0} /\ MaxTime \in Nat /\ MaxStreams \in Nat \ {0} /\ Slow \in BOOLEAN

VARIABLES
    file,       \* the file that is open, or <<>>
    pointers,   \* mAvFormatContext, mIoContext, the context's pb, mFile and cFile's FILE
    allocated,  \* the objects that are allocated
    mStreams, mAudioIndex, mVideoIndex, mAudioCount, mVideoCount,
    mEof, mCurPts,
    duration,   \* of the file: a live stream's grows as it is read
    durations,  \* of its streams
    next,       \* the demuxer: the frame it returns next
    landed, delivered, \* history: where it was put, and packets since
    asked,      \* history: the last call that put it there
    overrun     \* an entry was written past the end of mStreams: what follows is undefined

tableVars == <<mStreams, mAudioIndex, mVideoIndex, mAudioCount, mVideoCount>>
placeVars == <<landed, delivered, asked>>
heapVars == <<pointers, allocated>>
lengthVars == <<duration, durations>>
vars == <<file, heapVars, tableVars, mEof, mCurPts, lengthVars, next, placeVars, overrun>>

NoCall == [call |-> "none", time |-> 0]

-------------------------------------------------------------------------------
(* Timestamps *)

\* convertTimestamp: from the start of the file, 0 for what is just before it; what is
\* earlier than that stays as it is.
ConvertUnclamped(ts, start) == IF ts = NoPts \/ ts <= start THEN ts ELSE ts - start
ConvertTimestamp(ts, start) ==
    IF ts = NoPts THEN NoPts
    ELSE IF ts > start THEN ts - start
    ELSE IF ts + Slack > start THEN 0 ELSE ts

\* updateCurrentPTS: the earliest of the streams' positions, here that of the next frame.
CurrentPts(f, i) ==
    IF i > Len(f.frames) THEN NoPts ELSE ConvertTimestamp(f.frames[i].dts, f.start)

-------------------------------------------------------------------------------
(* The stream table *)

\* getStreams: the streams of the first program that has any, or else all.
FirstProgram(f) == SelectInSeq(f.programs, LAMBDA p : p # <<>>)
Added(f) ==
    IF FirstProgram(f) # 0 THEN f.programs[FirstProgram(f)]
    ELSE [i \in 1..Len(f.streams) |-> i - 1]

\* addStream turns away what is beyond the table, but for the first number beyond it,
\* whose entry it writes past the end.
TurnsAway(id) == id > MaxStreams
PlayableType == {"audio", "video"}
Overruns(f) ==
    \E i \in 1..Len(Added(f)) :
        Added(f)[i] = MaxStreams /\ f.streams[MaxStreams + 1].type \in PlayableType

\* Audio and video streams are numbered by type in the order they are added: the number of
\* a stream is how many of its type were added before it.
PlacesOf(f, type) ==
    {i \in 1..Len(Added(f)) : ~TurnsAway(Added(f)[i]) /\ f.streams[Added(f)[i] + 1].type = type}
CountOf(f, type) == Cardinality(PlacesOf(f, type))
PlaceOf(f, id) == CHOOSE i \in 1..Len(Added(f)) : Added(f)[i] = id
Entries == 0..(MaxStreams - 1)
EmptyEntry == [type |-> "none", index |-> 0]
NumberedByPlace(f, type, id) == PlaceOf(f, id) - 1
Numbering(f, type, id) == Cardinality({i \in PlacesOf(f, type) : i < PlaceOf(f, id)})
Table(f) ==
    [id \in Entries |->
        IF Contains(Added(f), id) /\ f.streams[id + 1].type \in PlayableType
        THEN [type |-> f.streams[id + 1].type, index |-> Numbering(f, f.streams[id + 1].type, id)]
        ELSE EmptyEntry]

\* setActiveStreamInternal: the stream of the type and number, the last one if there are fewer.
Lesser(a, b) == IF a < b THEN a ELSE b
Active(table, type, count, number) ==
    LET ids == {id \in DOMAIN table : table[id] = [type |-> type, index |-> Lesser(number, count - 1)]}
    IN IF count = 0 \/ ids = {} THEN None ELSE Max(ids)

GetStreams(f) ==
    /\ mStreams' = Table(f)
    /\ mAudioCount' = CountOf(f, "audio") /\ mVideoCount' = CountOf(f, "video")
    /\ mAudioIndex' = Active(Table(f), "audio", CountOf(f, "audio"), 0)
    /\ mVideoIndex' = Active(Table(f), "video", CountOf(f, "video"), 0)

\* The stream table after clearStreams.
EmptyTable == [id \in Entries |-> EmptyEntry]
ClearStreams ==
    /\ mStreams' = EmptyTable /\ mAudioCount' = 0 /\ mVideoCount' = 0
    /\ mAudioIndex' = None /\ mVideoIndex' = None

-------------------------------------------------------------------------------
(* open and close *)

NoPointers == [context |-> Null, io |-> Null, pb |-> Null, file |-> Null, stdio |-> Null]
Objects == {"context", "io", "cFile", "stdio", "otherIo", "oldIo"}

Init ==
    /\ file = <<>> /\ pointers = NoPointers /\ allocated = {}
    /\ mStreams = EmptyTable /\ mAudioIndex = None /\ mVideoIndex = None
    /\ mAudioCount = 0 /\ mVideoCount = 0
    /\ mEof = FALSE /\ mCurPts = NoPts /\ duration = NoPts /\ durations = <<>> /\ next = 1
    /\ landed = 1 /\ delivered = 0 /\ asked = NoCall /\ overrun = FALSE

\* The pointers when open fails at each of its steps, or has done them all:
\* avformat_open_input frees the context itself when it fails, and cFile has a FILE of its
\* own once it is open, unless that is stdin.
Steps == {"options", "dictionary", "file", "probe", "input", "streams"}
PointersAt(f, step) ==
    LET opened == step \in {"probe", "input", "streams"}
    IN [context |-> IF step = "input" THEN Null ELSE "context",
        file |-> IF step \in {"options", "dictionary"} THEN Null ELSE "cFile",
        stdio |-> IF opened /\ f.source # "pipe" THEN "stdio" ELSE Null,
        io |-> IF opened THEN "io" ELSE Null,
        pb |-> IF step = "streams" THEN "io" ELSE Null]
Targets(p) == {p.context, p.io, p.pb, p.file, p.stdio} \ {Null}

\* close releases what each of its pointers has, if it is set, and cFile closes its FILE. If
\* the demuxer has put another byte context into the context, that one is released.
IoToRelease(p) == IF p.context # Null /\ p.io # Null /\ p.pb # Null THEN p.pb ELSE p.io
ReleasedWithContext(p) == IF p.context = Null THEN {p.file, p.stdio} ELSE {p.context, IoToRelease(p), p.file, p.stdio}
Released(p) == {p.context, IoToRelease(p), p.file, p.stdio}
EofAfterClose == FALSE
ReleaseAll(p, objects) ==
    /\ pointers' = NoPointers /\ allocated' = objects \ Released(p)
    /\ mEof' = EofAfterClose /\ mCurPts' = NoPts
    /\ ClearStreams
NoPlace == next' = 1 /\ duration' = NoPts /\ durations' = <<>> /\ landed' = 1 /\ delivered' = 0 /\ asked' = NoCall

\* A reader may be closed again, or without having been opened.
Close ==
    /\ file' = <<>> /\ ReleaseAll(pointers, allocated) /\ NoPlace
    /\ UNCHANGED overrun

\* open, which fails where a library call does and closes what it has opened.
OpenFails(f, step) ==
    /\ file = <<>>
    /\ ReleaseAll(PointersAt(f, step), allocated \cup Targets(PointersAt(f, step)))
    /\ UNCHANGED <<file, lengthVars, next, placeVars, overrun>>

Open(f) ==
    /\ file = <<>>
    /\ file' = f
    /\ pointers' = PointersAt(f, "streams") /\ allocated' = allocated \cup Targets(PointersAt(f, "streams"))
    /\ duration' = f.duration /\ durations' = [id \in Streams(f) |-> f.streams[id + 1].duration]
    /\ overrun' = Overruns(f)
    /\ GetStreams(f)
    /\ mCurPts' = CurrentPts(f, 1)
    /\ asked' = [NoCall EXCEPT !.call = "open"]
    /\ UNCHANGED <<mEof, next, landed, delivered>>

\* The demuxer replaces the byte context, and forgets the one it was given.
ByteContextChanged ==
    /\ pointers.pb = "io"
    /\ pointers' = [pointers EXCEPT !.pb = "otherIo", !.io = "oldIo"]
    /\ allocated' = (allocated \ {"io"}) \cup {"oldIo", "otherIo"}
    /\ UNCHANGED <<file, tableVars, mEof, mCurPts, lengthVars, next, placeVars, overrun>>

-------------------------------------------------------------------------------
(* readPacket *)

LaterOf(a, b) == IF b > a THEN b ELSE a

\* A stream that outgrows its duration takes that of the file along, if that is shorter.
Outgrown(known, passed) == known = NoPts \/ passed > known
Grow(frame) ==
    LET s == frame.stream
        passed == FromStart(file, frame)
    IN IF frame.dts # NoPts /\ Outgrown(durations[s], passed)
       THEN /\ durations' = [durations EXCEPT ![s] = passed]
            /\ duration' = IF Outgrown(duration, passed) THEN passed ELSE duration
       ELSE UNCHANGED lengthVars

ReadPacket ==
    /\ file # <<>> /\ ~mEof /\ next <= Len(file.frames) /\ file.frames[next].stream < MaxStreams
    /\ mCurPts' = LaterOf(mCurPts, ConvertTimestamp(file.frames[next].dts, file.start))
    /\ Grow(file.frames[next])
    /\ next' = next + 1 /\ delivered' = delivered + 1
    /\ UNCHANGED <<file, heapVars, tableVars, mEof, landed, asked, overrun>>

ReadEnd ==
    /\ file # <<>> /\ ~mEof /\ next > Len(file.frames)
    /\ mEof' = TRUE
    /\ UNCHANGED <<file, heapVars, tableVars, mCurPts, lengthVars, next, placeVars, overrun>>

\* A packet that is invalid, or of a stream beyond the table, or for which the read took
\* longer than the timeout, is deleted, and no more is read.
ReadsOn == FALSE
StopsReading == TRUE
ReadInvalid ==
    /\ file # <<>> /\ ~mEof /\ next <= Len(file.frames)
    /\ Slow \/ file.frames[next].stream >= MaxStreams
    /\ next' = next + 1 /\ mEof' = StopsReading
    /\ UNCHANGED <<file, heapVars, tableVars, mCurPts, lengthVars, placeVars, overrun>>

-------------------------------------------------------------------------------
(* seek *)

Seekable == file.source = "file"
Magnitude(time) == IF time < 0 THEN -time ELSE time
SeekPts(f, time) == Magnitude(time) + f.start

\* av_seek_frame: a frame a seek may land on, not after the target if it is to be
\* looked for backwards, not before it otherwise.
Landings(f, time) ==
    {i \in 1..Len(f.frames) :
        /\ f.frames[i].key /\ f.frames[i].dts # NoPts
        /\ IF time < 0 THEN f.frames[i].dts <= SeekPts(f, time) ELSE f.frames[i].dts >= SeekPts(f, time)}

\* The caller's start time is 0, which seek leaves alone.
SeekCall(call, time) == [call |-> call, time |-> time]

Seek(time) ==
    /\ file # <<>> /\ Seekable
    /\ \E landing \in Landings(file, time) :
           /\ next' = landing
           /\ \A i \in Landings(file, time) : IF time < 0 THEN i <= landing ELSE landing <= i
    /\ mCurPts' = CurrentPts(file, next')
    /\ mEof' = FALSE
    /\ landed' = next' /\ delivered' = 0 /\ asked' = SeekCall("seek", time)
    /\ UNCHANGED <<file, heapVars, tableVars, lengthVars, overrun>>

\* A seek that the demuxer fails leaves the reader at the end of the file, and returns true.
SeekFails(time) ==
    /\ file # <<>> /\ Seekable /\ Landings(file, time) = {}
    /\ mEof' = TRUE
    /\ asked' = SeekCall("failed", time)
    /\ UNCHANGED <<file, heapVars, tableVars, mCurPts, lengthVars, next, landed, delivered, overrun>>

SeekRefused ==
    /\ file # <<>> /\ ~Seekable
    /\ UNCHANGED vars

\* After an entry was written past the table anything may happen: nothing is claimed of it.
Undefined == overrun /\ UNCHANGED vars

Next ==
    \/ /\ ~overrun
       /\ \/ \E f \in Files : Open(f) \/ \E step \in Steps : OpenFails(f, step)
          \/ Close \/ ByteContextChanged
          \/ ReadPacket \/ ReadEnd \/ ReadInvalid
          \/ \E time \in (-MaxTime)..MaxTime : Seek(time) \/ SeekFails(time)
          \/ SeekRefused
    \/ Undefined

Spec == Init /\ [][Next]_vars

-------------------------------------------------------------------------------
(* Properties: of a reader whose table was not overrun *)

IsOpen == file # <<>>

TypeOK ==
    /\ file \in Files \cup {<<>>}
    /\ DOMAIN pointers = DOMAIN NoPointers /\ allocated \subseteq Objects
    /\ DOMAIN mStreams = Entries
    /\ \A id \in Entries : mStreams[id] \in [type : PlayableType \cup {"none"}, index : Nat]
    /\ mAudioCount \in Nat /\ mVideoCount \in Nat
    /\ {mAudioIndex, mVideoIndex} \subseteq Entries \cup {None}
    /\ mEof \in BOOLEAN
    /\ {mCurPts, duration} \subseteq Int
    /\ next \in Nat /\ landed \in Nat /\ delivered \in Nat

\* At whatever step open fails and however often a reader is closed, no pointer is left to
\* what was freed, which the next close would free again, and nothing is left without a
\* pointer, but for a byte context that the demuxer replaced.
NothingHeld ==
    overrun \/ /\ Targets(pointers) \subseteq allocated
               /\ allocated \subseteq Targets(pointers) \cup {"oldIo"}
               /\ ~IsOpen => pointers = NoPointers

\* The table numbers the streams of a type without a gap, the count is how many there
\* are, and the active stream is the first of them: a file whose streams of a type
\* are counted has one that is played, whatever streams were turned away.
TypeTableAgrees(type, count, active) ==
    LET ids == {id \in DOMAIN mStreams : mStreams[id].type = type}
    IN /\ {mStreams[id].index : id \in ids} = 0..(count - 1)
       /\ Cardinality(ids) = count
       /\ active = None <=> count = 0
       /\ active # None => mStreams[active] = [type |-> type, index |-> 0]
TableAgrees ==
    /\ TypeTableAgrees("audio", mAudioCount, mAudioIndex)
    /\ TypeTableAgrees("video", mVideoCount, mVideoIndex)

\* Sound and picture are of one program, the first that has a stream.
OneProgram ==
    IsOpen /\ FirstProgram(file) # 0 =>
        {mAudioIndex, mVideoIndex} \ {None} \subseteq Range(file.programs[FirstProgram(file)])

\* A file that was just opened is read, whatever became of the file before it: open
\* does not reset mEof, close must have.
OpenedIsRead == asked.call = "open" /\ delivered = 0 /\ next = 1 => (mEof => file.frames = <<>>)

\* Until the reader says that the file ended, the packets are the frames from where it
\* was put, without a gap: a packet that was given up ends the reading.
NoGaps == ~overrun /\ IsOpen /\ ~mEof => next = landed + delivered

\* Of two packets of a stream the one that is decoded later has the later timestamp, or
\* the same, unless the start of the file is between them and further from the earlier one
\* than the slack: only such a frame, which the conversion leaves as it is, is moved past
\* others.
Early(ts) == ts + Slack <= file.start
OrderKept ==
    \A i, j \in landed..(landed + delivered - 1) :
        ~overrun /\ IsOpen =>
            LET a == file.frames[i]
                b == file.frames[j]
            IN a.stream = b.stream /\ NoPts \notin {a.dts, b.dts} /\ a.dts <= b.dts =>
                   \/ ConvertTimestamp(a.dts, file.start) <= ConvertTimestamp(b.dts, file.start)
                   \/ Early(a.dts) /\ ~Early(b.dts) /\ file.start > 0

\* The length that is shown covers every stream that has outgrown its header.
LengthCovers ==
    \A id \in DOMAIN durations :
        durations[id] # file.streams[id + 1].duration => durations[id] <= duration

\* After a seek to a time of the file the next packet is at that time or later; after
\* one to before the file, it is at that distance from the start or earlier, unless its
\* frame is too early for its timestamp to be converted.
SeekLands ==
    asked.call = "seek" =>
        LET pts == ConvertTimestamp(file.frames[landed].dts, file.start)
        IN IF asked.time >= 0 THEN pts >= asked.time
           ELSE pts <= -asked.time \/ (Early(file.frames[landed].dts) /\ file.start > 0)

\* What the rest of the program asks a reader for is so: its streams, their numbers and the
\* active ones, the length, and the place in the file after open and seek.
StreamsConsistent ==
    overrun \/ (TypeOK /\ TableAgrees /\ OneProgram /\ OpenedIsRead /\ LengthCovers /\ SeekLands)
===============================================================================
