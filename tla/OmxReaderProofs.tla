--------------------------- MODULE OmxReaderProofs ---------------------------
(***************************************************************************)
(* What holds of the reader for every set of files, any slack, any size of *)
(* its table and any seeks: its pointers are those of what is allocated,   *)
(* it reads without gaps, it keeps the order of timestamps but for frames  *)
(* long before the start, and its table of streams agrees with its counts  *)
(* as long as no entry was written past its end.  A stream's number is how *)
(* many of its type come before it: that these numbers leave no gap is     *)
(* what the lemmas on ranks say.                                           *)
(***************************************************************************)
EXTENDS OmxReader, SequenceTheorems, FiniteSetTheorems, WellFoundedInduction, TLAPS

\* A timestamp that is not earlier stays so, unless the start is between the two and further
\* from the earlier one than the slack.
LEMMA ConvertMonotone ==
    ASSUME NEW a \in Int, NEW b \in Int, NEW start \in Int, a # NoPts, b # NoPts, a <= b
    PROVE  \/ ConvertTimestamp(a, start) <= ConvertTimestamp(b, start)
           \/ a + Slack <= start /\ ~(b + Slack <= start) /\ start > 0
<1>1. CASE a > start
  <2>1. b > start /\ a - start <= b - start
    BY <1>1
  <2> QED BY <1>1, <2>1 DEF ConvertTimestamp
<1>2. CASE ~(a > start) /\ a + Slack > start
  <2>1. ConvertTimestamp(a, start) = 0 /\ b + Slack > start
    BY <1>2, BoundsAssumption DEF ConvertTimestamp
  <2>2. ConvertTimestamp(b, start) >= 0
    BY <2>1 DEF ConvertTimestamp
  <2>3. ConvertTimestamp(b, start) \in Int
    BY DEF ConvertTimestamp
  <2> QED BY <2>1, <2>2, <2>3
<1>3. CASE a + Slack <= start /\ b + Slack <= start
  <2>1. ~(a > start) /\ ~(b > start)
    BY <1>3, BoundsAssumption
  <2>2. ~(a + Slack > start) /\ ~(b + Slack > start)
    BY <1>3, BoundsAssumption
  <2> QED BY <2>1, <2>2 DEF ConvertTimestamp
<1>4. CASE a + Slack <= start /\ ~(b + Slack <= start) /\ ~(start > 0)
  <2>1. ~(a > start) /\ ~(a + Slack > start) /\ a <= 0
    BY <1>4, BoundsAssumption
  <2>2. ConvertTimestamp(a, start) = a
    BY <2>1 DEF ConvertTimestamp
  <2>3. b + Slack > start
    BY <1>4, BoundsAssumption
  <2>4. ConvertTimestamp(b, start) >= 0 /\ ConvertTimestamp(b, start) \in Int
    BY <2>3 DEF ConvertTimestamp
  <2> QED BY <2>1, <2>2, <2>4
<1>5. a + Slack \in Int /\ b + Slack \in Int
  BY BoundsAssumption
<1> QED BY <1>1, <1>2, <1>3, <1>4, <1>5

-----------------------------------------------------------------------------
(* What is allocated, and the place in the file *)

PlaceTypes == next \in Nat /\ landed \in Nat \ {0} /\ delivered \in Nat
FileKnown == file = <<>> \/ file \in Files
ReadWithin == file # <<>> => landed + delivered <= next /\ next <= Len(file.frames) + 1
WhenClosed ==
    file = <<>> => /\ next = 1 /\ landed = 1 /\ delivered = 0
                   /\ pointers = NoPointers /\ allocated \subseteq {"oldIo"}
HeldWhenOpen ==
    file # <<>> =>
        /\ DOMAIN pointers = DOMAIN NoPointers
        /\ pointers.context = "context" /\ pointers.file = "cFile" /\ pointers.stdio \in {Null, "stdio"}
        /\ \/ pointers.io = "io" /\ pointers.pb = "io"
           \/ pointers.io = "oldIo" /\ pointers.pb = "otherIo"
        /\ Targets(pointers) \subseteq allocated /\ allocated \subseteq Targets(pointers) \cup {"oldIo"}
Consecutive == ~mEof => next = landed + delivered
OverrunKnown == overrun \in BOOLEAN /\ (overrun <=> file # <<>> /\ Overruns(file))
LengthTypes ==
    /\ duration \in Int
    /\ DOMAIN durations = IF file = <<>> THEN {} ELSE Streams(file)
    /\ \A id \in DOMAIN durations : durations[id] \in Int

ReaderInv ==
    /\ PlaceTypes /\ FileKnown /\ ReadWithin /\ WhenClosed /\ HeldWhenOpen
    /\ Consecutive /\ OverrunKnown /\ LengthTypes /\ LengthCovers

LEMMA FileParts ==
    ASSUME NEW f \in Files
    PROVE  /\ f # <<>> /\ Len(f.frames) \in Nat /\ f.start \in Int /\ f.duration \in Int
           /\ \A id \in Streams(f) : f.streams[id + 1].start \in Int /\ f.streams[id + 1].duration \in Int
           /\ \A i \in 1..Len(f.frames) : f.frames[i].dts \in Int /\ f.frames[i].stream \in Streams(f)
<1>1. f \in FileType /\ f # <<>>
  BY FilesAssumption
<1>2. f.start \in Int /\ f.duration \in Int /\ f.frames \in Seq(FrameType) /\ f.streams \in Seq(StreamType)
  BY <1>1 DEF FileType
<1>3. ASSUME NEW i \in 1..Len(f.frames)
      PROVE  f.frames[i].dts \in Int /\ f.frames[i].stream \in Streams(f)
  <2>1. f.frames[i] \in FrameType
    BY <1>2, ElementOfSeq
  <2>2. f.frames[i].stream \in Streams(f)
    BY <1>3, FilesAssumption
  <2> QED BY <2>1, <2>2 DEF FrameType
<1>4. ASSUME NEW id \in Streams(f)
      PROVE  f.streams[id + 1].start \in Int /\ f.streams[id + 1].duration \in Int
  <2>1. id + 1 \in 1..Len(f.streams)
    BY <1>2 DEF Streams
  <2>2. f.streams[id + 1] \in StreamType
    BY <1>2, <2>1, ElementOfSeq
  <2> QED BY <2>2 DEF StreamType
<1>5. Len(f.frames) \in Nat
  BY <1>2, LenProperties
<1> QED BY <1>1, <1>2, <1>3, <1>4, <1>5

LEMMA InitReader == Init => ReaderInv
<1> SUFFICES ASSUME Init PROVE ReaderInv
  OBVIOUS
<1>1. DOMAIN durations = {} /\ duration \in Int
  BY DEF Init, NoPts
<1>2. LengthTypes /\ LengthCovers
  BY <1>1 DEF Init, LengthTypes, LengthCovers
<1>3. PlaceTypes /\ FileKnown /\ ReadWithin /\ WhenClosed /\ HeldWhenOpen /\ Consecutive
  BY DEF Init, PlaceTypes, FileKnown, ReadWithin, WhenClosed, HeldWhenOpen, Consecutive
<1>4. OverrunKnown
  BY DEF Init, OverrunKnown
<1> QED BY <1>2, <1>3, <1>4 DEF ReaderInv

\* Closing releases what any step of open has allocated.
LEMMA FailureReleased ==
    ASSUME NEW f, NEW step \in Steps
    PROVE  Targets(PointersAt(f, step)) \ Released(PointersAt(f, step)) = {}
<1> DEFINE p == PointersAt(f, step)
<1>1. p.io = Null => p.pb = Null
  BY DEF PointersAt, Steps
<1>2. p.pb = Null \/ p.pb = p.io
  BY DEF PointersAt, Steps, Null
<1>3. IoToRelease(p) = p.io
  BY <1>1, <1>2 DEF IoToRelease
<1> QED BY <1>2, <1>3 DEF Targets, Released

LEMMA OpenReleased ==
    ASSUME HeldWhenOpen, file # <<>>
    PROVE  allocated \ Released(pointers) \subseteq {"oldIo"}
<1>1. pointers.context = "context" /\ pointers.context # Null
  BY DEF HeldWhenOpen, Null
<1>2. IoToRelease(pointers) = pointers.pb
  BY <1>1 DEF HeldWhenOpen, IoToRelease, Null
<1>3. pointers.io = pointers.pb \/ pointers.io = "oldIo"
  BY DEF HeldWhenOpen
<1>4. allocated \subseteq Targets(pointers) \cup {"oldIo"}
  BY DEF HeldWhenOpen
<1> QED BY <1>2, <1>3, <1>4 DEF Targets, Released

LEMMA ClosedReleased ==
    ASSUME NEW S, allocated \subseteq {"oldIo"}
    PROVE  allocated \ S \subseteq {"oldIo"}
OBVIOUS

LEMMA CloseReader ==
    ASSUME ReaderInv, Close, ~overrun
    PROVE  ReaderInv'
<1>1. allocated' \subseteq {"oldIo"}
  <2>1. allocated' = allocated \ Released(pointers)
    BY DEF Close, ReleaseAll
  <2>2. CASE file # <<>>
    BY <2>1, <2>2, OpenReleased DEF ReaderInv
  <2>3. CASE file = <<>>
    BY <2>1, <2>3 DEF ReaderInv, WhenClosed
  <2> QED BY <2>2, <2>3
<1>2. file' = <<>> /\ pointers' = NoPointers /\ next' = 1 /\ landed' = 1 /\ delivered' = 0
      /\ duration' = NoPts /\ durations' = <<>> /\ overrun' = overrun
  BY DEF Close, ReleaseAll, NoPlace
<1>3. DOMAIN durations' = {} /\ duration' \in Int
  BY <1>2 DEF NoPts
<1>4. LengthTypes' /\ LengthCovers'
  BY <1>2, <1>3 DEF LengthTypes, LengthCovers
<1>5. OverrunKnown'
  BY <1>2 DEF ReaderInv, OverrunKnown
<1>6. PlaceTypes' /\ FileKnown' /\ ReadWithin' /\ Consecutive'
  BY <1>2 DEF PlaceTypes, FileKnown, ReadWithin, Consecutive
<1>7. WhenClosed' /\ HeldWhenOpen'
  BY <1>1, <1>2 DEF WhenClosed, HeldWhenOpen
<1> QED BY <1>4, <1>5, <1>6, <1>7 DEF ReaderInv

LEMMA OpenFailsReader ==
    ASSUME ReaderInv, NEW f \in Files, NEW step \in Steps, OpenFails(f, step)
    PROVE  ReaderInv'
<1>1. allocated' \subseteq {"oldIo"}
  <2>1. allocated \subseteq {"oldIo"}
    BY DEF OpenFails, ReaderInv, WhenClosed
  <2>2. allocated' = (allocated \cup Targets(PointersAt(f, step))) \ Released(PointersAt(f, step))
    BY DEF OpenFails, ReleaseAll
  <2> QED BY <2>1, <2>2, FailureReleased
<1>2. file' = <<>> /\ file = <<>> /\ next' = 1 /\ landed' = 1 /\ delivered' = 0 /\ pointers' = NoPointers
      /\ duration' = duration /\ durations' = durations /\ overrun' = overrun
  BY DEF OpenFails, ReleaseAll, lengthVars, placeVars, ReaderInv, WhenClosed
<1>3. LengthTypes' /\ LengthCovers'
  BY <1>2 DEF ReaderInv, LengthTypes, LengthCovers
<1>4. FileKnown' /\ ReadWithin' /\ WhenClosed' /\ HeldWhenOpen' /\ PlaceTypes'
  BY <1>1, <1>2 DEF FileKnown, ReadWithin, WhenClosed, HeldWhenOpen, PlaceTypes
<1>5. Consecutive' /\ OverrunKnown'
  BY <1>2 DEF Consecutive, OverrunKnown, ReaderInv
<1> QED BY <1>3, <1>4, <1>5 DEF ReaderInv

LEMMA OpenReader ==
    ASSUME ReaderInv, NEW f \in Files, Open(f)
    PROVE  ReaderInv'
<1> DEFINE p == PointersAt(f, "streams")
<1>1. file' = f /\ pointers' = p /\ allocated' = allocated \cup Targets(p) /\ allocated \subseteq {"oldIo"}
  BY DEF Open, ReaderInv, WhenClosed
<1>2. next' = 1 /\ landed' = 1 /\ delivered' = 0 /\ Len(f.frames) \in Nat /\ f # <<>>
  BY FileParts DEF Open, ReaderInv, WhenClosed
<1>3. p.context = "context" /\ p.file = "cFile" /\ p.stdio \in {Null, "stdio"} /\ p.io = "io" /\ p.pb = "io"
      /\ DOMAIN p = DOMAIN NoPointers
  BY DEF PointersAt, NoPointers
<1>4. HeldWhenOpen'
  <2> HIDE DEF p
  <2> QED BY <1>1, <1>3 DEF HeldWhenOpen
<1>5. ReadWithin' /\ WhenClosed' /\ FileKnown' /\ PlaceTypes' /\ Consecutive'
  BY <1>1, <1>2 DEF ReadWithin, WhenClosed, FileKnown, PlaceTypes, Consecutive
<1>6. OverrunKnown'
  <2>1. overrun' = Overruns(f) /\ Overruns(f) \in BOOLEAN
    BY DEF Open, Overruns
  <2> QED BY <1>1, <1>2, <2>1 DEF OverrunKnown
<1>7. LengthTypes' /\ LengthCovers'
  <2>1. duration' = f.duration /\ durations' = [id \in Streams(f) |-> f.streams[id + 1].duration]
    BY DEF Open
  <2>2. LengthTypes'
    BY <1>1, <1>2, <2>1, FileParts DEF LengthTypes
  <2>3. LengthCovers'
    BY <1>1, <2>1 DEF LengthCovers
  <2> QED BY <2>2, <2>3
<1> QED BY <1>4, <1>5, <1>6, <1>7 DEF ReaderInv

LEMMA ChangeReader ==
    ASSUME ReaderInv, ByteContextChanged
    PROVE  ReaderInv'
<1>1. file # <<>>
  <2>1. NoPointers.pb # "io"
    BY DEF NoPointers, Null
  <2> QED BY <2>1 DEF ByteContextChanged, ReaderInv, WhenClosed
<1>2. pointers' = [pointers EXCEPT !.pb = "otherIo", !.io = "oldIo"] /\ DOMAIN pointers = DOMAIN NoPointers
      /\ allocated' = (allocated \ {"io"}) \cup {"oldIo", "otherIo"}
  BY <1>1 DEF ByteContextChanged, ReaderInv, HeldWhenOpen
<1>3. DOMAIN NoPointers = {"context", "io", "pb", "file", "stdio"}
  BY DEF NoPointers
<1>4. pointers'.context = pointers.context /\ pointers'.file = pointers.file /\ pointers'.stdio = pointers.stdio
      /\ pointers'.pb = "otherIo" /\ pointers'.io = "oldIo" /\ DOMAIN pointers' = DOMAIN NoPointers
  BY <1>2, <1>3
<1>5. pointers.io = "io" /\ pointers.pb = "io"
  BY <1>1 DEF ByteContextChanged, ReaderInv, HeldWhenOpen
<1>6. pointers.context = "context" /\ pointers.file = "cFile" /\ pointers.stdio \in {Null, "stdio"}
      /\ Targets(pointers) \subseteq allocated /\ allocated \subseteq Targets(pointers) \cup {"oldIo"}
  BY <1>1 DEF ReaderInv, HeldWhenOpen
<1>7. Targets(pointers)' = {"context", "cFile", pointers.stdio, "oldIo", "otherIo"} \ {Null}
  BY <1>4, <1>6 DEF Targets
<1>8. Targets(pointers) = {"context", "cFile", pointers.stdio, "io"} \ {Null}
  BY <1>5, <1>6 DEF Targets
<1>9. Targets(pointers)' \subseteq allocated' /\ allocated' \subseteq Targets(pointers)' \cup {"oldIo"}
  <2>1. Null \notin {"context", "cFile", "io", "oldIo", "otherIo"}
    BY DEF Null
  <2> QED BY <1>2, <1>6, <1>7, <1>8, <2>1
<1>10. HeldWhenOpen'
  BY <1>4, <1>6, <1>9 DEF HeldWhenOpen
<1>11. UNCHANGED <<file, mEof, duration, durations, next, landed, delivered, overrun>>
  BY DEF ByteContextChanged, lengthVars, placeVars
<1> QED BY <1>1, <1>10, <1>11 DEF ReaderInv, PlaceTypes, FileKnown, ReadWithin, WhenClosed, Consecutive,
               OverrunKnown, LengthTypes, LengthCovers

\* What grows, grows past what was known of it.
LEMMA GrowsOnly ==
    ASSUME NEW known \in Int, NEW passed \in Int, passed > NoPts, NEW grown,
           grown = IF Outgrown(known, passed) THEN passed ELSE known
    PROVE  grown \in Int /\ known <= grown /\ passed <= grown
<1>1. CASE known = NoPts
  BY <1>1 DEF Outgrown, NoPts
<1>2. CASE known # NoPts
  BY <1>2 DEF Outgrown
<1> QED BY <1>1, <1>2

LEMMA GrowReader ==
    ASSUME ReaderInv, file \in Files, NEW i \in 1..Len(file.frames), Grow(file.frames[i]), file' = file
    PROVE  LengthTypes' /\ LengthCovers'
<1> DEFINE frame == file.frames[i]
           s == frame.stream
           passed == FromStart(file, frame)
<1>1. s \in Streams(file) /\ frame.dts \in Int /\ file # <<>>
  BY FileParts
<1>2. passed \in Int
  <2>1. file.streams[s + 1].start \in Int
    BY <1>1, FileParts
  <2> QED BY <1>1, <2>1 DEF FromStart, NoPts
<1>3. DOMAIN durations = Streams(file) /\ duration \in Int /\ (\A id \in Streams(file) : durations[id] \in Int)
      /\ \A id \in Streams(file) : durations[id] # file.streams[id + 1].duration => durations[id] <= duration
  BY <1>1 DEF ReaderInv, LengthTypes, LengthCovers
<1>4. CASE ~(frame.dts # NoPts /\ Outgrown(durations[s], passed))
  <2>1. UNCHANGED <<duration, durations>>
    BY <1>4 DEF Grow, lengthVars
  <2> QED BY <2>1 DEF ReaderInv, LengthTypes, LengthCovers
<1>5. CASE frame.dts # NoPts /\ Outgrown(durations[s], passed)
  <2>1. durations' = [durations EXCEPT ![s] = passed]
        /\ duration' = IF Outgrown(duration, passed) THEN passed ELSE duration
    BY <1>5 DEF Grow
  <2>2. passed > NoPts
    BY <1>5, FilesAssumption
  <2>3. duration' \in Int /\ duration <= duration' /\ passed <= duration'
    <3> HIDE DEF passed
    <3> QED BY <1>2, <1>3, <2>1, <2>2, GrowsOnly
  <2>4. DOMAIN durations' = Streams(file) /\ durations'[s] = passed
        /\ \A id \in Streams(file) : id # s => durations'[id] = durations[id]
    <3> HIDE DEF passed, s
    <3> QED BY <1>1, <1>3, <2>1
  <2>5. ASSUME NEW id \in Streams(file)
        PROVE  durations'[id] \in Int
               /\ (durations'[id] # file.streams[id + 1].duration => durations'[id] <= duration')
    <3> HIDE DEF passed, s
    <3>1. CASE id = s
      BY <1>2, <2>3, <2>4, <3>1
    <3>2. CASE id # s
      BY <1>3, <2>3, <2>4, <3>2
    <3> QED BY <3>1, <3>2
  <2> HIDE DEF passed, s, frame
  <2>6. LengthTypes'
    BY <1>1, <2>3, <2>4, <2>5 DEF LengthTypes
  <2>7. LengthCovers'
    BY <2>4, <2>5 DEF LengthCovers
  <2> QED BY <2>6, <2>7
<1> QED BY <1>4, <1>5

LEMMA ReadPacketReader ==
    ASSUME ReaderInv, ReadPacket
    PROVE  ReaderInv'
<1>1. file \in Files /\ file # <<>> /\ next \in 1..Len(file.frames)
  <2>1. file \in Files /\ file # <<>> /\ next <= Len(file.frames) /\ landed + delivered <= next
    BY DEF ReadPacket, ReaderInv, FileKnown, ReadWithin
  <2>2. next >= 1 /\ Len(file.frames) \in Nat
    BY <2>1, FileParts DEF ReaderInv, PlaceTypes
  <2> QED BY <2>1, <2>2 DEF ReaderInv, PlaceTypes
<1>2. Grow(file.frames[next]) /\ UNCHANGED <<file, pointers, allocated, mEof, landed, overrun>>
      /\ next' = next + 1 /\ delivered' = delivered + 1
  BY DEF ReadPacket, heapVars
<1>3. LengthTypes' /\ LengthCovers'
  BY <1>1, <1>2, GrowReader
<1>4. PlaceTypes'
  BY <1>1, <1>2 DEF PlaceTypes, ReaderInv
<1>5. ReadWithin' /\ Consecutive'
  <2>1. next = landed + delivered
    BY DEF ReadPacket, ReaderInv, Consecutive
  <2>2. next' = landed' + delivered' /\ next' <= Len(file'.frames) + 1
    <3>1. Len(file.frames) \in Nat /\ landed \in Nat /\ delivered \in Nat /\ file' = file
      BY <1>1, <1>2, FileParts DEF ReaderInv, PlaceTypes
    <3>2. next' = landed' + delivered'
      BY <1>2, <2>1, <3>1
    <3>3. next' <= Len(file.frames) + 1
      BY <1>1, <1>2, <3>1
    <3> QED BY <3>1, <3>2, <3>3
  <2>3. landed' + delivered' <= next'
    <3>1. next' \in Int /\ next' <= next'
      BY <1>4 DEF PlaceTypes
    <3>2. next' = landed' + delivered'
      BY <2>2
    <3> QED BY <3>1, <3>2
  <2>4. ReadWithin'
    BY <2>2, <2>3 DEF ReadWithin
  <2>5. Consecutive'
    BY <2>2 DEF Consecutive
  <2> QED BY <2>4, <2>5
<1> QED BY <1>1, <1>2, <1>3, <1>4, <1>5
       DEF ReaderInv, FileKnown, WhenClosed, HeldWhenOpen, OverrunKnown

LEMMA ReadEndReader ==
    ASSUME ReaderInv, ReadEnd \/ ReadInvalid
    PROVE  ReaderInv'
<1>1. mEof' /\ file' = file /\ file # <<>>
      /\ UNCHANGED <<pointers, allocated, duration, durations, landed, delivered, overrun>>
  BY DEF ReadEnd, ReadInvalid, StopsReading, placeVars, heapVars, lengthVars
<1>2. file \in Files /\ Len(file.frames) \in Nat
  BY <1>1, FileParts DEF ReaderInv, FileKnown
<1>3. next' = next \/ (next <= Len(file.frames) /\ next' = next + 1)
  BY DEF ReadEnd, ReadInvalid
<1>4. PlaceTypes' /\ ReadWithin'
  BY <1>1, <1>2, <1>3 DEF ReaderInv, PlaceTypes, ReadWithin
<1> QED BY <1>1, <1>4 DEF ReaderInv, FileKnown, WhenClosed, HeldWhenOpen, Consecutive, OverrunKnown,
               LengthTypes, LengthCovers

LEMMA NoneDelivered ==
    ASSUME NEW n \in Nat, NEW l, NEW d, l = n, d = 0
    PROVE  n = l + d /\ l + d <= n
OBVIOUS

LEMMA SeekReader ==
    ASSUME ReaderInv, NEW time, Seek(time)
    PROVE  ReaderInv'
<1>1. file' = file /\ file # <<>> /\ next' \in Landings(file, time) /\ landed' = next' /\ delivered' = 0
      /\ UNCHANGED <<pointers, allocated, duration, durations, overrun>>
  BY DEF Seek, heapVars, lengthVars
<1>2. file \in Files /\ Len(file.frames) \in Nat
  BY <1>1, FileParts DEF ReaderInv, FileKnown
<1>4. next' \in 1..Len(file.frames)
  BY <1>1 DEF Landings
<1>5. PlaceTypes' /\ ReadWithin' /\ Consecutive'
  <2>1. PlaceTypes'
    BY <1>1, <1>2, <1>4 DEF ReaderInv, PlaceTypes
  <2>2. next' = landed' + delivered' /\ landed' + delivered' <= next'
    BY <1>1, <2>1, NoneDelivered DEF PlaceTypes
  <2>3. ReadWithin'
    <3>1. file' = file
      BY <1>1
    <3>2. next' <= Len(file.frames) + 1
      BY <1>2, <1>4
    <3> QED BY <2>2, <3>1, <3>2 DEF ReadWithin
  <2>4. Consecutive'
    BY <2>2 DEF Consecutive
  <2> QED BY <2>1, <2>3, <2>4
<1> QED BY <1>1, <1>5 DEF ReaderInv, FileKnown, WhenClosed, HeldWhenOpen, OverrunKnown, LengthTypes, LengthCovers

LEMMA StepReader ==
    ASSUME ReaderInv, [Next]_vars
    PROVE  ReaderInv'
<1> USE DEF Next
<1>1. CASE \E f \in Files : Open(f) \/ \E step \in Steps : OpenFails(f, step)
  BY <1>1, OpenReader, OpenFailsReader
<1>2. CASE Close /\ ~overrun
  BY <1>2, CloseReader
<1>3. CASE ReadPacket
  BY <1>3, ReadPacketReader
<1>4. CASE ReadEnd \/ ReadInvalid
  BY <1>4, ReadEndReader
<1>5. ASSUME NEW time, Seek(time) PROVE ReaderInv'
  BY <1>5, SeekReader
<1>6. ASSUME NEW time, SeekFails(time) PROVE ReaderInv'
  BY <1>6 DEF SeekFails, ReaderInv, PlaceTypes, FileKnown, ReadWithin, WhenClosed, HeldWhenOpen,
              Consecutive, OverrunKnown, LengthTypes, LengthCovers, heapVars, lengthVars
<1>7. CASE SeekRefused \/ Undefined \/ UNCHANGED vars
  BY <1>7 DEF SeekRefused, Undefined, vars, placeVars, heapVars, lengthVars, ReaderInv, PlaceTypes, FileKnown,
              ReadWithin, WhenClosed, HeldWhenOpen, Consecutive, OverrunKnown, LengthTypes, LengthCovers
<1>8. CASE ByteContextChanged
  BY <1>8, ChangeReader
<1> QED BY <1>1, <1>2, <1>3, <1>4, <1>5, <1>6, <1>7, <1>8

\* The invariant of the reader, for every set of files.
THEOREM ReaderInvariant == Spec => []ReaderInv
BY InitReader, StepReader, PTL DEF Spec

\* However many files are opened, fail to open at whatever step and are closed, or closed
\* twice, the pointers of the reader are to what is allocated, and all that is allocated has
\* one, but for a byte context that the demuxer replaced.
THEOREM HoldsNothing == Spec => []NothingHeld
<1>1. ReaderInv => NothingHeld
  <2> SUFFICES ASSUME ReaderInv PROVE NothingHeld
    OBVIOUS
  <2>1. CASE file = <<>>
    <3>1. Targets(NoPointers) = {}
      BY DEF Targets, NoPointers
    <3> QED BY <2>1, <3>1 DEF ReaderInv, WhenClosed, NothingHeld
  <2>2. CASE file # <<>>
    BY <2>2 DEF ReaderInv, HeldWhenOpen, NothingHeld, IsOpen
  <2> QED BY <2>1, <2>2
<1> QED BY <1>1, ReaderInvariant, PTL

\* The packets since the last open or seek are consecutive frames of the file.
THEOREM ReadsWithoutGaps == Spec => []NoGaps
<1>1. ReaderInv => NoGaps
  BY DEF ReaderInv, Consecutive, NoGaps
<1> QED BY <1>1, ReaderInvariant, PTL

\* The conversion of timestamps keeps their order among the packets that were read, whatever
\* the timestamps are, but for a frame that is earlier than the start of the file by the
\* slack or more.
THEOREM KeepsOrder == Spec => []OrderKept
<1>1. ReaderInv => OrderKept
  <2> SUFFICES ASSUME ReaderInv, NEW i \in landed..(landed + delivered - 1),
                      NEW j \in landed..(landed + delivered - 1), IsOpen,
                      NoPts # file.frames[i].dts, NoPts # file.frames[j].dts,
                      file.frames[i].dts <= file.frames[j].dts
               PROVE  \/ ConvertTimestamp(file.frames[i].dts, file.start)
                             <= ConvertTimestamp(file.frames[j].dts, file.start)
                      \/ Early(file.frames[i].dts) /\ ~Early(file.frames[j].dts) /\ file.start > 0
    BY DEF OrderKept
  <2>1. file \in Files /\ Len(file.frames) \in Nat
    BY FileParts DEF ReaderInv, FileKnown, IsOpen
  <2>2. i \in 1..Len(file.frames) /\ j \in 1..Len(file.frames)
    BY <2>1 DEF ReaderInv, PlaceTypes, ReadWithin, IsOpen
  <2>3. file.frames[i].dts \in Int /\ file.frames[j].dts \in Int /\ file.start \in Int
    BY <2>1, <2>2, FileParts
  <2> QED BY <2>3, ConvertMonotone DEF Early
<1> QED BY <1>1, ReaderInvariant, PTL

-----------------------------------------------------------------------------
(* Numbering: the members of a finite set of places, each numbered by how many come *)
(* before it, have the numbers from 0 on, without a gap and each once.               *)

Before(P, p) == {q \in P : q < p}
Rank(P) == [p \in P |-> Cardinality(Before(P, p))]

LEMMA BeforeIsFinite ==
    ASSUME NEW P, IsFiniteSet(P), NEW p
    PROVE  /\ IsFiniteSet(Before(P, p)) /\ Cardinality(Before(P, p)) \in Nat
           /\ Cardinality(Before(P, p)) <= Cardinality(P)
<1>1. Before(P, p) \in SUBSET P
  BY DEF Before
<1> QED BY <1>1, FS_Subset, FS_CardinalityType

\* A set without one of its members is smaller.
LEMMA Fewer ==
    ASSUME NEW T, IsFiniteSet(T), NEW S \in SUBSET T, NEW x \in T, x \notin S
    PROVE  Cardinality(S) < Cardinality(T)
<1>1. Cardinality(S) <= Cardinality(T) /\ IsFiniteSet(S) /\ Cardinality(S) # Cardinality(T)
  BY FS_Subset
<1>2. Cardinality(S) \in Nat /\ Cardinality(T) \in Nat
  BY <1>1, FS_CardinalityType
<1> QED BY <1>1, <1>2

LEMMA RankGrows ==
    ASSUME NEW P, IsFiniteSet(P), P \subseteq Nat, NEW p \in P, NEW q \in P, p < q
    PROVE  Cardinality(Before(P, p)) < Cardinality(Before(P, q))
<1>1. Before(P, p) \in SUBSET Before(P, q) /\ p \in Before(P, q) /\ p \notin Before(P, p)
  <2>1. p \in Nat /\ q \in Nat
    OBVIOUS
  <2>2. ASSUME NEW r \in Before(P, p) PROVE r \in Before(P, q)
    <3>1. r \in P /\ r \in Nat /\ r < p
      BY DEF Before
    <3>2. r < q
      BY <2>1, <3>1
    <3> QED BY <3>1, <3>2 DEF Before
  <2>3. p \in Before(P, q) /\ p \notin Before(P, p)
    BY <2>1 DEF Before
  <2> QED BY <2>2, <2>3
<1> QED BY <1>1, BeforeIsFinite, Fewer

LEMMA RanksFill ==
    ASSUME NEW P, IsFiniteSet(P), P \subseteq Nat
    PROVE  Rank(P) \in Bijection(P, 0..(Cardinality(P) - 1))
<1> DEFINE T == 0..(Cardinality(P) - 1)
<1>1. Cardinality(P) \in Nat
  BY FS_CardinalityType
<1>2. ASSUME NEW p \in P PROVE Rank(P)[p] = Cardinality(Before(P, p)) /\ Rank(P)[p] \in T
  <2>1. Before(P, p) \in SUBSET P /\ p \notin Before(P, p)
    BY DEF Before
  <2>2. Cardinality(Before(P, p)) < Cardinality(P) /\ Cardinality(Before(P, p)) \in Nat
    BY <2>1, Fewer, BeforeIsFinite
  <2> QED BY <1>1, <2>2 DEF Rank
<1>3. Rank(P) \in [P -> T]
  BY <1>2 DEF Rank
<1>4. ASSUME NEW p \in P, NEW q \in P, Rank(P)[p] = Rank(P)[q] PROVE p = q
  <2>1. p \in Nat /\ q \in Nat
    OBVIOUS
  <2>2. Cardinality(Before(P, p)) \in Nat /\ Cardinality(Before(P, q)) \in Nat
        /\ Cardinality(Before(P, p)) = Cardinality(Before(P, q))
    BY <1>2, <1>4, BeforeIsFinite
  <2>3. CASE p < q
    <3>1. Cardinality(Before(P, p)) < Cardinality(Before(P, q))
      BY <2>3, RankGrows
    <3> QED BY <2>2, <3>1
  <2>4. CASE q < p
    <3>1. Cardinality(Before(P, q)) < Cardinality(Before(P, p))
      BY <2>4, RankGrows
    <3> QED BY <2>2, <3>1
  <2> QED BY <2>1, <2>3, <2>4
<1>5. Rank(P) \in Injection(P, T)
  BY <1>3, <1>4 DEF Injection, IsInjective
<1>6. IsFiniteSet(T) /\ Cardinality(T) = Cardinality(P)
  <2>1. 0 \in Int /\ Cardinality(P) - 1 \in Int
    BY <1>1
  <2>2. IsFiniteSet(T) /\ Cardinality(T) = IF 0 > Cardinality(P) - 1 THEN 0 ELSE Cardinality(P) - 1 - 0 + 1
    BY <2>1, FS_Interval
  <2> QED BY <1>1, <2>2
<1>7. Rank(P) \in Surjection(P, T)
  <2> HIDE DEF T
  <2> QED BY <1>5, <1>6, FS_Injection
<1> QED BY <1>5, <1>7 DEF Bijection

\* A set of places that is not empty has a first.
LEMMA FirstExists ==
    ASSUME NEW P, IsFiniteSet(P), P \subseteq Nat, P # {}
    PROVE  \E m \in P : \A p \in P : m <= p
<1>1. Rank(P) \in Surjection(P, 0..(Cardinality(P) - 1))
  BY RanksFill DEF Bijection
<1>2. Cardinality(P) \in Nat /\ Cardinality(P) # 0
  BY FS_EmptySet, FS_CardinalityType
<1>3. PICK m \in P : Rank(P)[m] = 0
  BY <1>1, <1>2 DEF Surjection
<1>4. Before(P, m) = {}
  BY <1>3, BeforeIsFinite, FS_EmptySet DEF Rank
<1>5. ASSUME NEW p \in P PROVE m <= p
  <2>1. m \in Nat /\ p \in Nat /\ ~(p < m)
    BY <1>4 DEF Before
  <2> QED BY <2>1
<1> QED BY <1>5

-----------------------------------------------------------------------------
(* The stream table of a file *)

LEMMA FirstProgramIs ==
    ASSUME NEW f \in Files
    PROVE  FirstProgram(f) # 0 => FirstProgram(f) \in 1..Len(f.programs)
<1> DEFINE I == {i \in 1..Len(f.programs) : f.programs[i] # <<>>}
<1>1. FirstProgram(f) = IF I # {} THEN Min(I) ELSE 0
  BY DEF FirstProgram, SelectInSeq
<1>2. f.programs \in Seq(Seq(Nat))
  BY FilesAssumption DEF FileType
<1>3. Len(f.programs) \in Nat
  BY <1>2, LenProperties
<1>4. I \subseteq 1..Len(f.programs) /\ IsFiniteSet(1..Len(f.programs))
  BY <1>3, FS_Interval
<1>5. I \subseteq Nat /\ IsFiniteSet(I)
  <2>1. IsFiniteSet(I)
    BY <1>4, FS_Subset
  <2> QED BY <1>3, <1>4, <2>1
<1>6. ASSUME I # {} PROVE Min(I) \in I
  <2> HIDE DEF I
  <2>1. \E m \in I : \A i \in I : m <= i
    BY <1>5, <1>6, FirstExists
  <2> QED BY <2>1 DEF Min
<1> QED BY <1>1, <1>4, <1>6

\* The streams that are added are streams of the file, each added once.
LEMMA AddedIs ==
    ASSUME NEW f \in Files
    PROVE  /\ Len(Added(f)) \in Nat
           /\ \A i \in 1..Len(Added(f)) : Added(f)[i] \in Streams(f)
           /\ \A i, j \in 1..Len(Added(f)) : Added(f)[i] = Added(f)[j] => i = j
<1>1. CASE FirstProgram(f) # 0
  <2> DEFINE p == f.programs[FirstProgram(f)]
  <2>1. FirstProgram(f) \in 1..Len(f.programs) /\ Added(f) = p
    BY <1>1, FirstProgramIs DEF Added
  <2>2. f.programs \in Seq(Seq(Nat))
    BY FilesAssumption DEF FileType
  <2>3. p \in Seq(Nat)
    BY <2>1, <2>2, ElementOfSeq
  <2>4. Range(p) \subseteq Streams(f) /\ IsInjective(p)
    BY <2>1, FilesAssumption
  <2>5. DOMAIN p = 1..Len(p) /\ Len(p) \in Nat
    BY <2>3, LenProperties
  <2>6. \A i \in 1..Len(p) : p[i] \in Streams(f)
    BY <2>4, <2>5 DEF Range
  <2>7. \A i, j \in 1..Len(p) : p[i] = p[j] => i = j
    BY <2>4, <2>5 DEF IsInjective
  <2> QED BY <2>1, <2>5, <2>6, <2>7
<1>2. CASE FirstProgram(f) = 0
  <2>1. f.streams \in Seq(StreamType)
    BY FilesAssumption DEF FileType
  <2>2. Len(f.streams) \in Nat
    BY <2>1, LenProperties
  <2>3. Added(f) = [i \in 1..Len(f.streams) |-> i - 1]
    BY <1>2 DEF Added
  <2>4. Len(Added(f)) = Len(f.streams)
    BY <2>2, <2>3
  <2>5. \A i \in 1..Len(f.streams) : Added(f)[i] = i - 1 /\ i - 1 \in Streams(f)
    BY <2>2, <2>3 DEF Streams
  <2> QED BY <2>2, <2>4, <2>5
<1> QED BY <1>1, <1>2

LEMMA PlacesAreFinite ==
    ASSUME NEW f \in Files, NEW type
    PROVE  /\ IsFiniteSet(PlacesOf(f, type)) /\ PlacesOf(f, type) \subseteq Nat
           /\ PlacesOf(f, type) \subseteq 1..Len(Added(f))
           /\ CountOf(f, type) \in Nat
<1>1. PlacesOf(f, type) \in SUBSET (1..Len(Added(f)))
  BY DEF PlacesOf
<1>2. IsFiniteSet(1..Len(Added(f))) /\ 1..Len(Added(f)) \subseteq Nat
  BY AddedIs, FS_Interval
<1>3. IsFiniteSet(PlacesOf(f, type))
  BY <1>1, <1>2, FS_Subset
<1> QED BY <1>1, <1>2, <1>3, FS_CardinalityType DEF CountOf

LEMMA PlaceIs ==
    ASSUME NEW f \in Files, NEW i \in 1..Len(Added(f))
    PROVE  PlaceOf(f, Added(f)[i]) = i
BY AddedIs DEF PlaceOf

\* The entry of a stream that is added.
LEMMA EntryIs ==
    ASSUME NEW f \in Files, ~Overruns(f), NEW type \in PlayableType, NEW i \in PlacesOf(f, type)
    PROVE  /\ Added(f)[i] \in DOMAIN Table(f)
           /\ Table(f)[Added(f)[i]] = [type |-> type, index |-> Rank(PlacesOf(f, type))[i]]
<1> DEFINE id == Added(f)[i]
<1>1. i \in 1..Len(Added(f)) /\ f.streams[id + 1].type = type
  BY DEF PlacesOf
<1>2. id \in Entries /\ Contains(Added(f), id)
  <2>1. id \in Streams(f) /\ ~(id > MaxStreams)
    BY <1>1, AddedIs DEF PlacesOf, TurnsAway
  <2>2. id # MaxStreams
    BY <1>1 DEF Overruns
  <2>3. id \in Nat
    BY <2>1 DEF Streams
  <2> QED BY <1>1, <2>1, <2>2, <2>3, BoundsAssumption DEF Contains, Entries
<1>3. Numbering(f, type, id) = Rank(PlacesOf(f, type))[i]
  BY <1>1, PlaceIs DEF Numbering, Rank, Before
<1>4. id \in DOMAIN Table(f)
  BY <1>2 DEF Table
<1>5. Table(f)[id] = [type |-> type, index |-> Numbering(f, type, id)]
  BY <1>1, <1>2 DEF Table
<1> QED BY <1>3, <1>4, <1>5

LEMMA EntryFields ==
    ASSUME NEW f \in Files, ~Overruns(f), NEW type \in PlayableType, NEW i \in PlacesOf(f, type)
    PROVE  /\ Added(f)[i] \in DOMAIN Table(f)
           /\ Table(f)[Added(f)[i]].type = type
           /\ Table(f)[Added(f)[i]].index = Rank(PlacesOf(f, type))[i]
<1> DEFINE e == Table(f)[Added(f)[i]]
           r == Rank(PlacesOf(f, type))[i]
<1>1. Added(f)[i] \in DOMAIN Table(f) /\ e = [type |-> type, index |-> r]
  BY EntryIs
<1>2. e.type = type /\ e.index = r
  <2> HIDE DEF e, r
  <2> QED BY <1>1
<1> QED BY <1>1, <1>2

\* The streams with an entry of a type are those that are added at one of its places.
LEMMA EntriesAre ==
    ASSUME NEW f \in Files, NEW type \in PlayableType, NEW id \in DOMAIN Table(f),
           Table(f)[id].type = type
    PROVE  \E i \in PlacesOf(f, type) : Added(f)[i] = id
<1>1. id \in Entries
  BY DEF Table
<1>2. EmptyEntry.type # type
  BY DEF EmptyEntry, PlayableType
<1> DEFINE t == f.streams[id + 1].type
<1>3. Table(f)[id] = IF Contains(Added(f), id) /\ t \in PlayableType
                     THEN [type |-> t, index |-> Numbering(f, t, id)] ELSE EmptyEntry
  BY <1>1 DEF Table
<1>4. Contains(Added(f), id) /\ t = type
  BY <1>2, <1>3
<1>5. PICK i \in 1..Len(Added(f)) : Added(f)[i] = id
  BY <1>4 DEF Contains
<1>6. ~TurnsAway(id)
  BY <1>1, BoundsAssumption DEF TurnsAway, Entries
<1> QED BY <1>4, <1>5, <1>6 DEF PlacesOf

EntriesOf(table, type) == {id \in DOMAIN table : table[id].type = type}
NumbersOf(table, type) == {table[id].index : id \in EntriesOf(table, type)}

\* There are as many entries of a type as streams of it are added.
LEMMA CountIsRight ==
    ASSUME NEW f \in Files, ~Overruns(f), NEW type \in PlayableType
    PROVE  Cardinality(EntriesOf(Table(f), type)) = CountOf(f, type)
<1> DEFINE P == PlacesOf(f, type)
           E == EntriesOf(Table(f), type)
           g == [i \in P |-> Added(f)[i]]
<1>1. \A i \in P : g[i] = Added(f)[i] /\ g[i] \in E
  BY EntryFields DEF EntriesOf
<1>2. g \in [P -> E]
  BY <1>1
<1>3. \A i, j \in P : g[i] = g[j] => i = j
  BY <1>1, AddedIs, PlacesAreFinite
<1>4. \A id \in E : \E i \in P : g[i] = id
  BY EntriesAre DEF EntriesOf
<1>5. g \in Bijection(P, E)
  <2> HIDE DEF P, E, g
  <2>1. g \in Injection(P, E)
    BY <1>2, <1>3 DEF Injection, IsInjective
  <2>2. g \in Surjection(P, E)
    BY <1>2, <1>4 DEF Surjection
  <2> QED BY <2>1, <2>2 DEF Bijection
<1>6. IsFiniteSet(P)
  BY PlacesAreFinite
<1>7. Cardinality(E) = Cardinality(P)
  <2> HIDE DEF P, E, g
  <2> QED BY <1>5, <1>6, FS_Bijection DEF ExistsBijection
<1> QED BY <1>7 DEF CountOf

\* They have the numbers below the count.
LEMMA NumbersAreRight ==
    ASSUME NEW f \in Files, ~Overruns(f), NEW type \in PlayableType
    PROVE  NumbersOf(Table(f), type) = 0..(CountOf(f, type) - 1)
<1> DEFINE P == PlacesOf(f, type)
<1>1. Rank(P) \in [P -> 0..(CountOf(f, type) - 1)]
      /\ \A n \in 0..(CountOf(f, type) - 1) : \E i \in P : Rank(P)[i] = n
  BY PlacesAreFinite, RanksFill DEF Bijection, Surjection, CountOf
<1>2. ASSUME NEW n \in NumbersOf(Table(f), type) PROVE n \in 0..(CountOf(f, type) - 1)
  <2>1. PICK id \in EntriesOf(Table(f), type) : n = Table(f)[id].index
    BY <1>2 DEF NumbersOf
  <2>2. PICK i \in P : Added(f)[i] = id
    BY EntriesAre DEF EntriesOf
  <2>3. n = Rank(P)[i]
    BY <2>1, <2>2, EntryFields
  <2> QED BY <1>1, <2>3
<1>3. ASSUME NEW n \in 0..(CountOf(f, type) - 1) PROVE n \in NumbersOf(Table(f), type)
  <2>1. PICK i \in P : Rank(P)[i] = n
    BY <1>1
  <2>2. Added(f)[i] \in EntriesOf(Table(f), type) /\ Table(f)[Added(f)[i]].index = n
    BY <2>1, EntryFields DEF EntriesOf
  <2> QED BY <2>2 DEF NumbersOf
<1> QED BY <1>2, <1>3

ActiveIds(table, type, count) ==
    {id \in DOMAIN table : table[id] = [type |-> type, index |-> Lesser(0, count - 1)]}

\* The active stream is the one whose number is 0, if there is any.
LEMMA ActiveIsFirst ==
    ASSUME NEW f \in Files, ~Overruns(f), NEW type \in PlayableType, NEW active,
           active = Active(Table(f), type, CountOf(f, type), 0)
    PROVE  /\ CountOf(f, type) = 0 => active = None
           /\ CountOf(f, type) # 0 => /\ active \in Entries
                                      /\ Table(f)[active] = [type |-> type, index |-> 0]
<1> DEFINE P == PlacesOf(f, type)
           ids == ActiveIds(Table(f), type, CountOf(f, type))
<1>1. active = IF CountOf(f, type) = 0 \/ ids = {} THEN None ELSE Max(ids)
  BY DEF Active, ActiveIds
<1>2. CASE CountOf(f, type) = 0
  BY <1>1, <1>2
<1>3. CASE CountOf(f, type) # 0
  <2>1. CountOf(f, type) \in Nat /\ Lesser(0, CountOf(f, type) - 1) = 0
    BY <1>3, PlacesAreFinite DEF Lesser
  <2>2. Rank(P) \in Bijection(P, 0..(CountOf(f, type) - 1))
    BY PlacesAreFinite, RanksFill DEF CountOf
  <2>3. PICK m \in P : Rank(P)[m] = 0
    BY <1>3, <2>1, <2>2 DEF Bijection, Surjection
  <2>4. \A i \in P : Rank(P)[i] = 0 => i = m
    BY <2>2, <2>3 DEF Bijection, Injection, IsInjective
  <2> DEFINE id == Added(f)[m]
  <2>5. id \in DOMAIN Table(f) /\ Table(f)[id] = [type |-> type, index |-> 0]
    BY <2>3, EntryIs
  <2>6. DOMAIN Table(f) = Entries /\ Entries \subseteq Int
    BY DEF Table, Entries
  <2>7. ASSUME NEW other \in ids PROVE other = id
    <3>1. other \in DOMAIN Table(f) /\ Table(f)[other] = [type |-> type, index |-> 0]
      BY <2>1 DEF ActiveIds
    <3>2. Table(f)[other].type = type
      BY <3>1
    <3>3. PICK i \in P : Added(f)[i] = other
      BY <3>1, <3>2, EntriesAre
    <3>4. Rank(P)[i] = 0
      BY <3>1, <3>3, EntryFields
    <3> QED BY <2>4, <3>3, <3>4
  <2>8. ids = {id}
    <3>1. id \in ids
      BY <2>1, <2>5 DEF ActiveIds
    <3> QED BY <2>7, <3>1
  <2>9. Max({id}) = id
    BY <2>5, <2>6 DEF Max
  <2>10. active = id
    <3> HIDE DEF ids, id
    <3> QED BY <1>1, <1>3, <2>8, <2>9
  <2> QED BY <1>3, <2>5, <2>6, <2>10
<1> QED BY <1>2, <1>3

-----------------------------------------------------------------------------
(* The table and the place of the file that is open *)

Cleared ==
    /\ mStreams = EmptyTable /\ mAudioCount = 0 /\ mVideoCount = 0
    /\ mAudioIndex = None /\ mVideoIndex = None
Filled(f) ==
    /\ mStreams = Table(f)
    /\ mAudioCount = CountOf(f, "audio") /\ mVideoCount = CountOf(f, "video")
    /\ mAudioIndex = Active(Table(f), "audio", CountOf(f, "audio"), 0)
    /\ mVideoIndex = Active(Table(f), "video", CountOf(f, "video"), 0)
TableKept == IF file = <<>> THEN Cleared ELSE Filled(file)

\* A closed reader is ready to read; one just opened is, unless there is nothing to read.
Ready ==
    /\ mEof \in BOOLEAN /\ mCurPts \in Int
    /\ file = <<>> => mEof = FALSE /\ asked = NoCall
    /\ asked.call = "open" /\ delivered = 0 /\ next = 1 /\ mEof => Len(file.frames) = 0
\* After a seek the reader was put where the demuxer landed.
PutThere ==
    asked.call = "seek" => asked.time \in Int /\ landed \in Landings(file, asked.time)

StreamsInv == TableKept /\ Ready /\ PutThere

LEMMA ConvertedIsInt ==
    ASSUME NEW f \in Files, NEW i \in 1..Len(f.frames)
    PROVE  ConvertTimestamp(f.frames[i].dts, f.start) \in Int
<1>1. f.frames[i].dts \in Int /\ f.start \in Int
  BY FileParts
<1> QED BY <1>1 DEF ConvertTimestamp, NoPts

LEMMA CurrentIsInt ==
    ASSUME NEW f \in Files, NEW i \in Nat \ {0}
    PROVE  CurrentPts(f, i) \in Int
<1>1. Len(f.frames) \in Nat
  BY FileParts
<1>2. CASE i > Len(f.frames)
  BY <1>2 DEF CurrentPts, NoPts
<1>3. CASE ~(i > Len(f.frames))
  <2>1. i \in 1..Len(f.frames)
    BY <1>1, <1>3
  <2> QED BY <1>3, <2>1, ConvertedIsInt DEF CurrentPts
<1> QED BY <1>2, <1>3

LEMMA NoCallIsNone == NoCall.call = "none"
BY DEF NoCall

LEMMA InitStreams == Init => StreamsInv
<1> SUFFICES ASSUME Init PROVE StreamsInv
  OBVIOUS
<1>1. asked.call = "none"
  BY NoCallIsNone DEF Init
<1>2. TableKept
  BY DEF Init, TableKept, Cleared
<1>3. Ready
  <2>1. mEof = FALSE /\ mCurPts \in Int /\ asked = NoCall
    BY DEF Init, NoPts
  <2> QED BY <2>1 DEF Ready
<1>4. PutThere
  BY <1>1 DEF PutThere
<1> QED BY <1>2, <1>3, <1>4 DEF StreamsInv

LEMMA OpenStreams ==
    ASSUME ReaderInv, StreamsInv, NEW f \in Files, Open(f)
    PROVE  StreamsInv'
<1>1. file' = f /\ f # <<>> /\ file = <<>> /\ mEof = FALSE /\ mEof' = mEof
  BY FileParts DEF Open, StreamsInv, Ready
<1>2. TableKept'
  BY <1>1 DEF Open, GetStreams, TableKept, Filled
<1>3. mCurPts' \in Int
  BY CurrentIsInt DEF Open
<1>4. asked'.call = "open"
  BY DEF Open, NoCall
<1> QED BY <1>1, <1>2, <1>3, <1>4 DEF StreamsInv, Ready, PutThere

LEMMA ClosedStreams ==
    ASSUME ReaderInv, StreamsInv, Close \/ \E f \in Files, step \in Steps : OpenFails(f, step)
    PROVE  StreamsInv'
<1>1. file' = <<>> /\ asked' = NoCall
  BY DEF Close, NoPlace, OpenFails, placeVars, StreamsInv, Ready
<1>2. mEof' = FALSE /\ mCurPts' = NoPts /\ ClearStreams
  BY DEF Close, OpenFails, ReleaseAll, EofAfterClose
<1>3. TableKept'
  BY <1>1, <1>2 DEF ClearStreams, TableKept, Cleared
<1>4. asked'.call = "none"
  BY <1>1, NoCallIsNone
<1>5. PutThere'
  BY <1>4 DEF PutThere
<1>6. Ready'
  <2>1. mCurPts' \in Int
    BY <1>2 DEF NoPts
  <2> QED BY <1>1, <1>2, <2>1 DEF Ready
<1> QED BY <1>3, <1>5, <1>6 DEF StreamsInv

LEMMA ReadStreams ==
    ASSUME ReaderInv, StreamsInv, ReadPacket
    PROVE  StreamsInv'
<1>1. file' = file /\ file # <<>> /\ file \in Files /\ UNCHANGED tableVars
  BY DEF ReadPacket, ReaderInv, FileKnown
<1>2. next \in 1..Len(file.frames)
  BY <1>1, FileParts DEF ReadPacket, ReaderInv, PlaceTypes, ReadWithin
<1>3. mCurPts' \in Int
  <2>1. mCurPts' = LaterOf(mCurPts, ConvertTimestamp(file.frames[next].dts, file.start))
    BY DEF ReadPacket
  <2> QED BY <1>1, <1>2, <2>1, ConvertedIsInt DEF LaterOf, StreamsInv, Ready
<1>4. delivered' # 0 /\ mEof' = mEof /\ asked' = asked /\ landed' = landed
  BY DEF ReadPacket, ReaderInv, PlaceTypes
<1> QED BY <1>1, <1>3, <1>4 DEF StreamsInv, TableKept, Filled, tableVars, Ready, PutThere

LEMMA EndStreams ==
    ASSUME ReaderInv, StreamsInv, ReadEnd \/ ReadInvalid
    PROVE  StreamsInv'
<1>1. file' = file /\ file # <<>> /\ file \in Files /\ UNCHANGED <<tableVars, mCurPts, landed, delivered, asked>>
  BY DEF ReadEnd, ReadInvalid, placeVars, ReaderInv, FileKnown
<1>2. mEof' \in BOOLEAN
  BY DEF ReadEnd, ReadInvalid, StopsReading
<1>3. next \in Nat /\ next >= 1 /\ Len(file.frames) \in Nat
  BY <1>1, FileParts DEF ReaderInv, PlaceTypes, ReadWithin
<1>4. next' = 1 => Len(file.frames) = 0
  <2>1. CASE ReadEnd
    BY <1>3, <2>1 DEF ReadEnd
  <2>2. CASE ReadInvalid
    BY <1>3, <2>2 DEF ReadInvalid
  <2> QED BY <2>1, <2>2
<1> QED BY <1>1, <1>2, <1>4 DEF StreamsInv, TableKept, Filled, tableVars, Ready, PutThere

LEMMA SeekStreams ==
    ASSUME ReaderInv, StreamsInv, NEW time \in (-MaxTime)..MaxTime, Seek(time)
    PROVE  StreamsInv'
<1>1. file' = file /\ file # <<>> /\ file \in Files /\ UNCHANGED tableVars
  BY DEF Seek, ReaderInv, FileKnown
<1>2. next' \in Landings(file, time) /\ landed' = next' /\ mEof' = FALSE
  BY DEF Seek
<1>3. asked'.call = "seek" /\ asked'.time = time /\ time \in Int
  BY BoundsAssumption DEF Seek, SeekCall
<1>4. next' \in 1..Len(file.frames) /\ Len(file.frames) \in Nat
  BY <1>1, <1>2, FileParts DEF Landings
<1>5. mCurPts' \in Int
  <2>1. mCurPts' = CurrentPts(file, next') /\ next' \in Nat \ {0}
    BY <1>4 DEF Seek
  <2> QED BY <1>1, <2>1, CurrentIsInt
<1> QED BY <1>1, <1>2, <1>3, <1>5 DEF StreamsInv, TableKept, Filled, tableVars, Ready, PutThere

LEMMA StepStreams ==
    ASSUME ReaderInv, StreamsInv, [Next]_vars
    PROVE  StreamsInv'
<1>1. CASE \E f \in Files : Open(f)
  BY <1>1, OpenStreams
<1>2. CASE Close \/ \E f \in Files, step \in Steps : OpenFails(f, step)
  BY <1>2, ClosedStreams
<1>3. CASE ReadPacket
  BY <1>3, ReadStreams
<1>4. CASE ReadEnd \/ ReadInvalid
  BY <1>4, EndStreams
<1>5. ASSUME NEW time \in (-MaxTime)..MaxTime, Seek(time) PROVE StreamsInv'
  BY <1>5, SeekStreams
<1>6. ASSUME NEW time \in (-MaxTime)..MaxTime, SeekFails(time) PROVE StreamsInv'
  <2>1. asked'.call = "failed"
    BY <1>6 DEF SeekFails, SeekCall
  <2> QED BY <1>6, <2>1 DEF SeekFails, StreamsInv, TableKept, Cleared, Filled, tableVars, Ready, PutThere
<1>7. CASE SeekRefused \/ Undefined \/ UNCHANGED vars
  BY <1>7 DEF SeekRefused, Undefined, vars, placeVars, tableVars, StreamsInv, TableKept, Cleared, Filled,
              Ready, PutThere
<1>8. CASE ByteContextChanged
  BY <1>8 DEF ByteContextChanged, placeVars, tableVars, StreamsInv, TableKept, Cleared, Filled, Ready, PutThere
<1> QED BY <1>1, <1>2, <1>3, <1>4, <1>5, <1>6, <1>7, <1>8 DEF Next

\* The table and the place are so in every state, for every set of files.
THEOREM StreamsInvariant == Spec => []StreamsInv
BY ReaderInvariant, InitStreams, StepStreams, PTL DEF Spec

LEMMA ActiveWithin ==
    ASSUME NEW f \in Files, ~Overruns(f), NEW type \in PlayableType
    PROVE  Active(Table(f), type, CountOf(f, type), 0) \in Entries \cup {None}
<1> DEFINE active == Active(Table(f), type, CountOf(f, type), 0)
<1>1. CountOf(f, type) = 0 => active = None
  BY ActiveIsFirst
<1>2. CountOf(f, type) # 0 => active \in Entries
  BY ActiveIsFirst
<1>3. CountOf(f, type) = 0 \/ CountOf(f, type) # 0
  OBVIOUS
<1>4. active \in Entries \cup {None}
  <2> HIDE DEF active
  <2> QED BY <1>1, <1>2, <1>3
<1> QED BY <1>4

LEMMA TableTypes ==
    ASSUME NEW f \in Files, NEW id \in Entries
    PROVE  Table(f)[id] \in [type : PlayableType \cup {"none"}, index : Nat]
<1> DEFINE t == f.streams[id + 1].type
<1>1. Table(f)[id] = IF Contains(Added(f), id) /\ t \in PlayableType
                     THEN [type |-> t, index |-> Numbering(f, t, id)] ELSE EmptyEntry
  BY DEF Table
<1>2. Numbering(f, t, id) \in Nat
  <2>1. Numbering(f, t, id) = Cardinality(Before(PlacesOf(f, t), PlaceOf(f, id)))
    BY DEF Numbering, Before
  <2>2. IsFiniteSet(PlacesOf(f, t))
    BY PlacesAreFinite
  <2> QED BY <2>1, <2>2, BeforeIsFinite
<1>3. EmptyEntry \in [type : PlayableType \cup {"none"}, index : Nat]
  BY DEF EmptyEntry
<1> HIDE DEF t
<1> QED BY <1>1, <1>2, <1>3

LEMMA TypesHold == ReaderInv /\ StreamsInv /\ ~overrun => TypeOK
<1> SUFFICES ASSUME ReaderInv, StreamsInv, ~overrun PROVE TypeOK
  OBVIOUS
<1>1. mEof \in BOOLEAN /\ {mCurPts, duration} \subseteq Int
      /\ next \in Nat /\ landed \in Nat /\ delivered \in Nat /\ file \in Files \cup {<<>>}
  BY DEF StreamsInv, Ready, ReaderInv, PlaceTypes, FileKnown, LengthTypes
<1>2. DOMAIN pointers = DOMAIN NoPointers /\ allocated \subseteq Objects
  <2>1. CASE file = <<>>
    BY <2>1 DEF ReaderInv, WhenClosed, Objects
  <2>2. CASE file # <<>>
    <3>1. DOMAIN pointers = DOMAIN NoPointers /\ allocated \subseteq Targets(pointers) \cup {"oldIo"}
      BY <2>2 DEF ReaderInv, HeldWhenOpen
    <3>2. pointers.context = "context" /\ pointers.file = "cFile" /\ pointers.stdio \in {Null, "stdio"}
          /\ pointers.io \in {"io", "oldIo"} /\ pointers.pb \in {"io", "otherIo"}
      BY <2>2 DEF ReaderInv, HeldWhenOpen
    <3>3. Targets(pointers) \subseteq Objects /\ "oldIo" \in Objects
      BY <3>2 DEF Targets, Objects
    <3> QED BY <3>1, <3>3
  <2> QED BY <2>1, <2>2
<1>3. CASE file = <<>>
  <2>1. Cleared
    BY <1>3 DEF StreamsInv, TableKept
  <2>2. DOMAIN mStreams = Entries /\ \A id \in Entries : mStreams[id] = EmptyEntry
    BY <2>1 DEF Cleared, EmptyTable
  <2>3. EmptyEntry \in [type : PlayableType \cup {"none"}, index : Nat]
    BY DEF EmptyEntry
  <2> QED BY <1>1, <1>2, <1>3, <2>1, <2>2, <2>3 DEF TypeOK, Cleared
<1>4. CASE file # <<>>
  <2>1. Filled(file) /\ file \in Files /\ ~Overruns(file)
    BY <1>4 DEF StreamsInv, TableKept, ReaderInv, FileKnown, OverrunKnown
  <2>2. DOMAIN mStreams = Entries
    BY <2>1 DEF Filled, Table
  <2>3. \A id \in Entries : mStreams[id] \in [type : PlayableType \cup {"none"}, index : Nat]
    BY <2>1, TableTypes DEF Filled
  <2>4. {mAudioIndex, mVideoIndex} \subseteq Entries \cup {None}
    BY <2>1, ActiveWithin DEF Filled, PlayableType
  <2>5. mAudioCount \in Nat /\ mVideoCount \in Nat
    BY <2>1, PlacesAreFinite DEF Filled
  <2> QED BY <1>1, <1>2, <1>4, <2>2, <2>3, <2>4, <2>5 DEF TypeOK
<1> QED BY <1>3, <1>4

LEMMA EmptyAgrees ==
    ASSUME mStreams = EmptyTable, NEW type \in PlayableType
    PROVE  TypeTableAgrees(type, 0, None)
<1>1. \A id \in DOMAIN mStreams : mStreams[id].type # type
  <2>1. EmptyEntry.type # type
    BY DEF EmptyEntry, PlayableType
  <2> QED BY <2>1 DEF EmptyTable
<1>2. EntriesOf(mStreams, type) = {} /\ NumbersOf(mStreams, type) = {} /\ 0..(0 - 1) = {}
  BY <1>1 DEF EntriesOf, NumbersOf
<1>3. Cardinality(EntriesOf(mStreams, type)) = 0
  BY <1>2, FS_EmptySet
<1> QED BY <1>2, <1>3 DEF TypeTableAgrees, EntriesOf, NumbersOf, None

LEMMA FilledAgrees ==
    ASSUME NEW f \in Files, ~Overruns(f), NEW type \in PlayableType, mStreams = Table(f)
    PROVE  TypeTableAgrees(type, CountOf(f, type), Active(Table(f), type, CountOf(f, type), 0))
<1> DEFINE active == Active(Table(f), type, CountOf(f, type), 0)
<1>1. NumbersOf(mStreams, type) = 0..(CountOf(f, type) - 1)
      /\ Cardinality(EntriesOf(mStreams, type)) = CountOf(f, type)
  BY NumbersAreRight, CountIsRight
<1>2. (CountOf(f, type) = 0 => active = None)
      /\ (CountOf(f, type) # 0 => active \in Entries /\ mStreams[active] = [type |-> type, index |-> 0])
  BY ActiveIsFirst
<1>3. None \notin Entries
  BY DEF Entries, None
<1> HIDE DEF active
<1>4. TypeTableAgrees(type, CountOf(f, type), active)
  BY <1>1, <1>2, <1>3 DEF TypeTableAgrees, EntriesOf, NumbersOf
<1> QED BY <1>4 DEF active

LEMMA TablesAgree == ReaderInv /\ StreamsInv /\ ~overrun => TableAgrees
<1> SUFFICES ASSUME ReaderInv, StreamsInv, ~overrun PROVE TableAgrees
  OBVIOUS
<1>1. CASE file = <<>>
  <2>1. Cleared
    BY <1>1 DEF StreamsInv, TableKept
  <2> QED BY <2>1, EmptyAgrees DEF Cleared, TableAgrees, PlayableType
<1>2. CASE file # <<>>
  <2>1. Filled(file) /\ file \in Files /\ ~Overruns(file)
    BY <1>2 DEF StreamsInv, TableKept, ReaderInv, FileKnown, OverrunKnown
  <2> QED BY <2>1, FilledAgrees DEF Filled, TableAgrees, PlayableType
<1> QED BY <1>1, <1>2

\* An active stream was added.
LEMMA ActiveIsAdded ==
    ASSUME NEW f \in Files, ~Overruns(f), NEW type \in PlayableType, NEW active,
           active = Active(Table(f), type, CountOf(f, type), 0), active # None
    PROVE  \E i \in 1..Len(Added(f)) : Added(f)[i] = active
<1>1. active \in DOMAIN Table(f) /\ Table(f)[active] = [type |-> type, index |-> 0]
  BY ActiveIsFirst DEF Table
<1>2. Table(f)[active].type = type
  BY <1>1
<1> QED BY <1>1, <1>2, EntriesAre, PlacesAreFinite

LEMMA OneProgramHolds == ReaderInv /\ StreamsInv /\ ~overrun => OneProgram
<1> SUFFICES ASSUME ReaderInv, StreamsInv, ~overrun, IsOpen, FirstProgram(file) # 0,
                    NEW active \in {mAudioIndex, mVideoIndex} \ {None}
             PROVE  active \in Range(file.programs[FirstProgram(file)])
  BY DEF OneProgram
<1> DEFINE p == file.programs[FirstProgram(file)]
<1>1. Filled(file) /\ file \in Files /\ ~Overruns(file)
  BY DEF StreamsInv, TableKept, ReaderInv, FileKnown, OverrunKnown, IsOpen
<1>2. PICK i \in 1..Len(Added(file)) : Added(file)[i] = active
  BY <1>1, ActiveIsAdded DEF Filled, PlayableType
<1>3. Added(file) = p
  BY DEF Added
<1>4. p \in Seq(Nat)
  <2>1. file.programs \in Seq(Seq(Nat)) /\ FirstProgram(file) \in 1..Len(file.programs)
    BY <1>1, FilesAssumption, FirstProgramIs DEF FileType
  <2> QED BY <2>1, ElementOfSeq
<1>5. DOMAIN p = 1..Len(p)
  BY <1>4, LenProperties
<1> QED BY <1>2, <1>3, <1>5 DEF Range

\* Where a seek lands, from the timestamp of the frame there.
LEMMA LandsRight ==
    ASSUME NEW f \in Files, NEW time \in Int, NEW i \in Landings(f, time)
    PROVE  LET pts == ConvertTimestamp(f.frames[i].dts, f.start)
           IN IF time >= 0 THEN pts >= time
              ELSE pts <= -time \/ (f.frames[i].dts + Slack <= f.start /\ f.start > 0)
<1>1. i \in 1..Len(f.frames) /\ f.frames[i].dts # NoPts
      /\ IF time < 0 THEN f.frames[i].dts <= SeekPts(f, time) ELSE f.frames[i].dts >= SeekPts(f, time)
  BY DEF Landings
<1>2. f.frames[i].dts \in Int /\ f.start \in Int
  BY <1>1, FileParts
<1>3. CASE time < 0
  <2>1. f.frames[i].dts <= -time + f.start
    BY <1>1, <1>3 DEF SeekPts, Magnitude
  <2>2. CASE f.frames[i].dts + Slack <= f.start
    <3>1. ConvertTimestamp(f.frames[i].dts, f.start) = f.frames[i].dts
      BY <1>1, <1>2, <2>2, BoundsAssumption DEF ConvertTimestamp
    <3>2. f.start > 0 \/ f.frames[i].dts <= 0
      BY <1>2, <2>2, BoundsAssumption
    <3> QED BY <1>2, <1>3, <2>2, <3>1, <3>2
  <2>3. CASE ~(f.frames[i].dts + Slack <= f.start)
    <3>1. ConvertTimestamp(f.frames[i].dts, f.start) <= -time
      BY <1>1, <1>2, <1>3, <2>1, <2>3, BoundsAssumption DEF ConvertTimestamp
    <3> QED BY <1>3, <3>1
  <2> QED BY <2>2, <2>3
<1>4. CASE ~(time < 0)
  <2>1. f.frames[i].dts >= time + f.start
    BY <1>1, <1>4 DEF SeekPts, Magnitude
  <2>2. ConvertTimestamp(f.frames[i].dts, f.start) >= time
    BY <1>1, <1>2, <1>4, <2>1, BoundsAssumption DEF ConvertTimestamp
  <2> QED BY <1>4, <2>2
<1> QED BY <1>3, <1>4

\* What the program asks a reader for is so, whatever the files have for streams, programs
\* and timestamps, unless one of them made open write past the end of the table: the
\* numbering of the streams of a type has no gap, the counted type has an active stream, both
\* are of one program, and a seek lands where it was asked to.
THEOREM StreamsAreConsistent == Spec => []StreamsConsistent
<1>1. ReaderInv /\ StreamsInv => OpenedIsRead
  <2> SUFFICES ASSUME ReaderInv, StreamsInv, asked.call = "open", delivered = 0, next = 1, mEof
               PROVE  file.frames = <<>>
    BY DEF OpenedIsRead
  <2>1. Len(file.frames) = 0
    BY DEF StreamsInv, Ready
  <2>2. file # <<>>
    BY NoCallIsNone DEF StreamsInv, Ready
  <2>3. file \in FileType
    BY <2>2, FilesAssumption DEF ReaderInv, FileKnown
  <2>4. file.frames \in Seq(FrameType)
    BY <2>3 DEF FileType
  <2> QED BY <2>1, <2>4, EmptySeq
<1>2. ReaderInv /\ StreamsInv => SeekLands
  <2> SUFFICES ASSUME ReaderInv, StreamsInv, asked.call = "seek"
               PROVE  LET pts == ConvertTimestamp(file.frames[landed].dts, file.start)
                      IN IF asked.time >= 0 THEN pts >= asked.time
                         ELSE pts <= -asked.time \/ (Early(file.frames[landed].dts) /\ file.start > 0)
    BY DEF SeekLands
  <2>1. asked.time \in Int /\ landed \in Landings(file, asked.time)
    BY DEF StreamsInv, PutThere
  <2>2. file \in Files
    BY NoCallIsNone DEF StreamsInv, Ready, ReaderInv, FileKnown
  <2> QED BY <2>1, <2>2, LandsRight DEF Early
<1>3. ReaderInv => LengthCovers
  BY DEF ReaderInv
<1>4. ReaderInv /\ StreamsInv => StreamsConsistent
  BY <1>1, <1>2, <1>3, TypesHold, TablesAgree, OneProgramHolds DEF StreamsConsistent
<1> QED BY <1>4, ReaderInvariant, StreamsInvariant, PTL
=============================================================================
