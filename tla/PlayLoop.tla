------------------------------- MODULE PlayLoop -------------------------------
(***************************************************************************)
(* One file played by cAppWindow: beginPlay, playLoop and endPlay of       *)
(* omx.cpp in the "play" thread, with the keyboard thread that writes      *)
(* mPause, mSeekIncSec and mEntered, the run threads of the two players,   *)
(* the decoders behind them and the state of the clock component.          *)
(*                                                                         *)
(* The players are at the level of PacketPipe: a queue, the packet in      *)
(* run's hand and mFlush (OmxPlayer has their mutexes).  A decoder is what *)
(* it was fed and has not yet played; it plays only while the clock runs.  *)
(* The clock is its state and mPause (OmxClock has its media time).        *)
(***************************************************************************)
EXTENDS Naturals, Sequences

CONSTANTS
    File,     \* the stream of each frame of the file, "vid", "aud" or "none"
    Player,   \* the players beginPlay could open, a subset of {"vid", "aud"}
    Cache,    \* packets a player's queue holds
    Room,     \* packets and end-of-stream buffers a decoder holds
    CanSeek,  \* what reader.seek may return (FALSE for a pipe), a subset of BOOLEAN
    PastEnd,  \* the demuxer may fail a seek (to beyond the end of the file)
    Refuse,   \* a component may refuse the end of its stream, or have lost its resources
    Keys,     \* the keys that are pressed: subset of {"pause", "seek", "enter"}
    MaxKeys   \* bound on key presses

ASSUME PlayerAssumption == Player \subseteq {"vid", "aud"}
ASSUME FileAssumption == File \in Seq({"vid", "aud", "none"})
ASSUME BoundsAssumption ==
    /\ Cache \in Nat \ {0} /\ Room \in Nat \ {0} /\ MaxKeys \in Nat
    /\ CanSeek \subseteq BOOLEAN /\ PastEnd \in BOOLEAN /\ Refuse \in BOOLEAN

NoPacket == <<>>
Eos == <<0, 0>>

VARIABLES
    pc,          \* the play thread: where it is in the loop
    packet,      \* the packet in the loop's hand: <<frame, seeks before it was read>>
    sentStarted, submitEos,
    next, mEof,  \* the reader: the next frame of the file, end of file seen
    mPause, mSeekInc, mEntered, \* what the keyboard thread writes
    clock, clockPaused,         \* "stopped", "waiting", "running"; cOmxClock::mPause
    started,     \* players whose decoder has given the clock a start time since it stopped
    queue, hand, mFlush,        \* per player
    decoder, mSetStartTime, eos, mFailedEos, \* per decoder
    untold,      \* history: the players whose component refused the end of the stream
    seeks, keys, \* seeks made, keys pressed
    oldEos       \* history: the eos flag was set before the last flush

loopVars == <<packet, sentStarted, submitEos>>
readerVars == <<next, mEof>>
keyVars == <<mPause, mSeekInc, mEntered, keys>>
clockVars == <<clock, clockPaused, started>>
pipeVars == <<queue, hand, mFlush>>
decoderVars == <<decoder, mSetStartTime, eos, mFailedEos, untold, oldEos>>
vars == <<pc, loopVars, readerVars, keyVars, clockVars, pipeVars, decoderVars, seeks>>

\* beginPlay: the clock stopped and paused, the players opened and their threads
\* started, then the clock reset to wait for the start times of the open players.
Init ==
    /\ pc = "top" /\ packet = NoPacket /\ sentStarted = TRUE /\ submitEos = FALSE
    /\ next = 1 /\ mEof = FALSE
    /\ mPause = FALSE /\ mSeekInc = FALSE /\ mEntered = FALSE
    /\ clock = IF Player = {} THEN "stopped" ELSE "waiting"
    /\ clockPaused = TRUE /\ started = {}
    /\ queue = [p \in Player |-> <<>>] /\ hand = [p \in Player |-> NoPacket]
    /\ mFlush = [p \in Player |-> FALSE]
    /\ decoder = [p \in Player |-> <<>>]
    /\ mSetStartTime = [p \in Player |-> TRUE]
    /\ eos = [p \in Player |-> FALSE] /\ mFailedEos = [p \in Player |-> FALSE]
    /\ untold = {} /\ seeks = 0 /\ keys = 0 /\ oldEos = [p \in Player |-> FALSE]

-------------------------------------------------------------------------------
(* The keyboard thread *)

Key ==
    /\ keys < MaxKeys /\ pc # "done"
    /\ keys' = keys + 1
    /\ \/ "pause" \in Keys /\ mPause' = ~mPause /\ UNCHANGED <<mSeekInc, mEntered>>
       \/ "seek" \in Keys /\ mSeekInc' = TRUE /\ UNCHANGED <<mPause, mEntered>>
       \/ "enter" \in Keys /\ mEntered' = TRUE /\ UNCHANGED <<mPause, mSeekInc>>
    /\ UNCHANGED <<pc, loopVars, readerVars, clockVars, pipeVars, decoderVars, seeks>>

-------------------------------------------------------------------------------
(* The play thread *)

Top ==
    /\ pc = "top"
    /\ pc' = IF mEntered THEN "ended" ELSE IF mSeekInc THEN "seek" ELSE "control"
    /\ UNCHANGED <<loopVars, readerVars, keyVars, clockVars, pipeVars, decoderVars, seeks>>

\* A failed av_seek_frame is reported as success, at the end of the file.
ReaderSeek ==
    \/ /\ next' \in 1..Len(File)
       /\ mEof' = FALSE
    \/ PastEnd /\ mEof' = TRUE /\ UNCHANGED next

Seek ==
    /\ pc = "seek" /\ TRUE \in CanSeek
    /\ pc' = "flushVideo"
    /\ ReaderSeek
    /\ seeks' = seeks + 1
    /\ clock' = "stopped" /\ clockPaused' = TRUE /\ started' = {}
    /\ UNCHANGED <<loopVars, keyVars, pipeVars, decoderVars>>

\* A pipe cannot seek; the players are reset nevertheless.
SeekRefused ==
    /\ pc = "seek" /\ FALSE \in CanSeek
    /\ pc' = "reset"
    /\ UNCHANGED <<loopVars, readerVars, keyVars, clockVars, pipeVars, decoderVars, seeks>>

\* cOmxPlayer::flush as its caller sees it.  The packet in hand survives, or its
\* decode saw mFlushRequested and gave it up.
FlushForgotten == FALSE
MarkFlushed == TRUE
FlushPlayer(p) ==
    /\ queue' = [queue EXCEPT ![p] = <<>>]
    /\ \E h \in {hand[p], NoPacket} : hand' = [hand EXCEPT ![p] = h]
    /\ mFlush' = [mFlush EXCEPT ![p] = MarkFlushed]
    /\ decoder' = [decoder EXCEPT ![p] = <<>>]
    /\ mSetStartTime' = [mSetStartTime EXCEPT ![p] = TRUE]

\* cOmxVideo::reset resets the flag of the render, which its isEOS asks; cOmxAudio
\* resets that of its renders too, but its isEOS asks the decoder.
AskedAfterFlush(p) == IF p = "vid" THEN FALSE ELSE eos[p]
ClearEos(p) ==
    /\ eos' = [eos EXCEPT ![p] = AskedAfterFlush(p)]
    /\ oldEos' = [oldEos EXCEPT ![p] = eos'[p]]

FlushVideo ==
    /\ pc = "flushVideo"
    /\ pc' = "flushAudio"
    /\ IF "vid" \in Player
       THEN FlushPlayer("vid") /\ ClearEos("vid")
       ELSE UNCHANGED <<pipeVars, decoder, mSetStartTime, eos, oldEos>>
    /\ UNCHANGED <<loopVars, readerVars, keyVars, clockVars, mFailedEos, untold, seeks>>

KeepInHand == packet
Freed == NoPacket
FlushAudio ==
    /\ pc = "flushAudio"
    /\ pc' = "reset"
    /\ IF "aud" \in Player
       THEN FlushPlayer("aud") /\ ClearEos("aud")
       ELSE UNCHANGED <<pipeVars, decoder, mSetStartTime, eos, oldEos>>
    /\ packet' = Freed
    /\ UNCHANGED <<sentStarted, submitEos, readerVars, keyVars, clockVars, mFailedEos, untold, seeks>>

\* cOmxVideoPlayer::reset flushes once more and clears mFlush.  The request is
\* cleared last, so a seek key pressed since Top is forgotten.
RestartForgotten == TRUE
MustRestart == FALSE
SeekDone ==
    /\ pc = "reset"
    /\ pc' = "control"
    /\ sentStarted' = MustRestart
    /\ IF "vid" \in Player
       THEN /\ queue' = [queue EXCEPT !["vid"] = <<>>]
            /\ \E h \in {hand["vid"], NoPacket} : hand' = [hand EXCEPT !["vid"] = h]
            /\ mFlush' = [mFlush EXCEPT !["vid"] = FALSE]
            /\ decoder' = [decoder EXCEPT !["vid"] = <<>>]
            /\ mSetStartTime' = [mSetStartTime EXCEPT !["vid"] = TRUE]
            /\ ClearEos("vid")
       ELSE UNCHANGED <<pipeVars, decoder, mSetStartTime, eos, oldEos>>
    /\ clockPaused' = TRUE
    /\ mSeekInc' = FALSE
    /\ UNCHANGED <<packet, submitEos, readerVars, mPause, mEntered, keys, clock, started, mFailedEos, untold, seeks>>

\* Pause or resume as the keyboard thread asks, then restart a clock that a seek
\* stopped.  cOmxClock::reset does nothing unless the clock is stopped.
Restarted == IF clock = "stopped" /\ Player # {} THEN "waiting" ELSE clock
Control ==
    /\ pc = "control"
    /\ pc' = "read"
    /\ clockPaused' = mPause
    /\ clock' = IF sentStarted THEN clock ELSE Restarted
    /\ sentStarted' = TRUE
    /\ UNCHANGED <<packet, submitEos, readerVars, keyVars, started, pipeVars, decoderVars, seeks>>

\* packet = mOmxReader.readPacket(), if there is none in hand.
ReadPacket ==
    /\ pc = "read"
    /\ IF packet = NoPacket /\ ~mEof
       THEN IF next <= Len(File)
            THEN packet' = <<next, seeks>> /\ next' = next + 1 /\ UNCHANGED mEof
            ELSE mEof' = TRUE /\ UNCHANGED <<packet, next>>
       ELSE UNCHANGED <<packet, readerVars>>
    /\ pc' = IF packet' # NoPacket THEN "add" ELSE IF mEof' THEN "eof" ELSE "top"
    /\ UNCHANGED <<sentStarted, submitEos, keyVars, clockVars, pipeVars, decoderVars, seeks>>

EosToSubmit == FALSE

\* The packet goes to the player of its stream, stays in hand if that refuses it,
\* and is deleted if its stream has no player.
AddPacket ==
    /\ pc = "add"
    /\ pc' = "top"
    /\ submitEos' = EosToSubmit
    /\ LET p == File[packet[1]] IN
       IF p \in Player
       THEN IF Len(queue[p]) < Cache
            THEN queue' = [queue EXCEPT ![p] = Append(@, packet)] /\ packet' = Freed
            ELSE UNCHANGED <<queue, packet>>
       ELSE packet' = NoPacket /\ UNCHANGED queue
    /\ UNCHANGED <<sentStarted, readerVars, keyVars, clockVars, hand, mFlush, decoderVars, seeks>>

\* submitEOS waits a second for a buffer: a decoder that stays full, or has lost its
\* resources, fails it.  A component that refuses the buffer is not told either, and
\* mFailedEos does not say so.
HasRoom(p) == Len(decoder[p]) < Room
WithRoom == {p \in Player : HasRoom(p)}
SubmitEos ==
    \E told \in SUBSET WithRoom : \E refused \in SUBSET (WithRoom \ told) :
        /\ Refuse \/ told = WithRoom
        /\ decoder' = [p \in Player |-> IF p \in told THEN Append(decoder[p], Eos) ELSE decoder[p]]
        /\ mFailedEos' = [p \in Player |-> p \notin told \cup refused]
        /\ untold' = refused

AnyQueueEmpty == Player = {} \/ \E p \in Player : queue[p] = <<>>
QueuesEmpty == \A p \in Player : queue[p] = <<>>
AtEof ==
    /\ pc = "eof"
    /\ IF QueuesEmpty
       THEN /\ pc' = "playout"
            /\ submitEos' = TRUE
            /\ IF submitEos THEN UNCHANGED decoderVars
               ELSE SubmitEos /\ UNCHANGED <<mSetStartTime, eos, oldEos>>
       ELSE pc' = "top" /\ UNCHANGED <<submitEos, decoderVars>>
    /\ UNCHANGED <<packet, sentStarted, readerVars, keyVars, clockVars, pipeVars, seeks>>

IsEos(p) == queue[p] = <<>> /\ (mFailedEos[p] \/ eos[p])
PlayOut ==
    /\ pc = "playout"
    /\ pc' = IF \A p \in Player : IsEos(p) THEN "ended" ELSE "top"
    /\ UNCHANGED <<loopVars, readerVars, keyVars, clockVars, pipeVars, decoderVars, seeks>>

\* The packet in hand is deleted; endPlay stops the clock and closes the players.
EndPlay ==
    /\ pc = "ended"
    /\ pc' = "done"
    /\ packet' = NoPacket
    /\ clock' = "stopped"
    /\ queue' = [p \in Player |-> <<>>] /\ hand' = [p \in Player |-> NoPacket]
    /\ UNCHANGED <<sentStarted, submitEos, readerVars, keyVars, clockPaused, started, mFlush, decoderVars, seeks>>

-------------------------------------------------------------------------------
(* The run thread of a player *)

RunTake(p) ==
    /\ pc # "done" /\ hand[p] = NoPacket /\ queue[p] # <<>>
    /\ hand' = [hand EXCEPT ![p] = Head(queue[p])]
    /\ queue' = [queue EXCEPT ![p] = Tail(@)]
    /\ UNCHANGED <<pc, loopVars, readerVars, keyVars, clockVars, mFlush, decoderVars, seeks>>

RunDrop(p) ==
    /\ hand[p] # NoPacket /\ mFlush[p]
    /\ hand' = [hand EXCEPT ![p] = NoPacket]
    /\ mFlush' = [mFlush EXCEPT ![p] = FALSE]
    /\ UNCHANGED <<pc, loopVars, readerVars, keyVars, clockVars, queue, decoderVars, seeks>>

\* The first packet after a flush carries the start time the clock waits for.
MayDecodeAnyway(p) == TRUE
MayDecode(p) == ~mFlush[p]
RunDecode(p) ==
    /\ hand[p] # NoPacket /\ MayDecode(p) /\ HasRoom(p)
    /\ hand' = [hand EXCEPT ![p] = NoPacket]
    /\ decoder' = [decoder EXCEPT ![p] = Append(@, hand[p])]
    /\ mSetStartTime' = [mSetStartTime EXCEPT ![p] = FALSE]
    /\ started' = IF mSetStartTime[p] THEN started \union {p} ELSE started
    /\ UNCHANGED <<pc, loopVars, readerVars, keyVars, clock, clockPaused, queue, mFlush,
                   eos, mFailedEos, untold, oldEos, seeks>>

-------------------------------------------------------------------------------
(* The components *)

\* A client that is given the end of its stream first tells the clock that it
\* will send no start time (OMX_IndexConfigTimeInvalidStartTime).
ClockStarts ==
    /\ clock = "waiting"
    /\ \A p \in Player : p \in started \/ (decoder[p] # <<>> /\ Head(decoder[p]) = Eos)
    /\ clock' = "running"
    /\ UNCHANGED <<pc, loopVars, readerVars, keyVars, clockPaused, started, pipeVars, decoderVars, seeks>>

Play(p) ==
    /\ clock = "running" /\ ~clockPaused /\ decoder[p] # <<>>
    /\ decoder' = [decoder EXCEPT ![p] = Tail(@)]
    /\ eos' = [eos EXCEPT ![p] = @ \/ Head(decoder[p]) = Eos]
    /\ UNCHANGED <<pc, loopVars, readerVars, keyVars, clockVars, pipeVars, mSetStartTime,
                   mFailedEos, untold, oldEos, seeks>>

-------------------------------------------------------------------------------
PlayThread ==
    \/ Top \/ Seek \/ SeekRefused \/ FlushVideo \/ FlushAudio \/ SeekDone \/ Control
    \/ ReadPacket \/ AddPacket \/ AtEof \/ PlayOut \/ EndPlay
RunThread(p) == RunTake(p) \/ RunDrop(p) \/ RunDecode(p)

Done == pc = "done" /\ UNCHANGED vars

Next ==
    \/ Key \/ PlayThread \/ ClockStarts \/ Done
    \/ \E p \in Player : RunThread(p) \/ Play(p)

Spec == Init /\ [][Next]_vars

\* Threads are scheduled, and a clock that may run does.
FairSpec ==
    /\ Spec
    /\ WF_vars(PlayThread) /\ WF_vars(ClockStarts)
    /\ \A p \in Player : WF_vars(RunThread(p)) /\ WF_vars(Play(p))

-------------------------------------------------------------------------------
(* Properties *)

Packets == (1..Len(File)) \X (0..MaxKeys)
TypeOK ==
    /\ pc \in {"top", "seek", "flushVideo", "flushAudio", "reset", "control", "read",
               "add", "eof", "playout", "ended", "done"}
    /\ packet \in Packets \union {NoPacket}
    /\ sentStarted \in BOOLEAN /\ submitEos \in BOOLEAN
    /\ next \in 1..(Len(File) + 1) /\ mEof \in BOOLEAN
    /\ mPause \in BOOLEAN /\ mSeekInc \in BOOLEAN /\ mEntered \in BOOLEAN
    /\ clock \in {"stopped", "waiting", "running"} /\ clockPaused \in BOOLEAN
    /\ started \subseteq Player
    /\ queue \in [Player -> Seq(Packets)]
    /\ hand \in [Player -> Packets \union {NoPacket}] /\ mFlush \in [Player -> BOOLEAN]
    /\ decoder \in [Player -> Seq(Packets \union {Eos})]
    /\ mSetStartTime \in [Player -> BOOLEAN] /\ eos \in [Player -> BOOLEAN]
    /\ mFailedEos \in [Player -> BOOLEAN] /\ oldEos \in [Player -> BOOLEAN]
    /\ untold \subseteq Player /\ seeks \in 0..MaxKeys /\ keys \in 0..MaxKeys

\* A packet has one owner: once a player has accepted it the loop forgets it, and
\* no packet is queued, held or decoded twice (each owner deletes its packets).
Queued(p) == {queue[p][i] : i \in DOMAIN queue[p]}
Held(x) == {x} \ {NoPacket}
Told(p) == {i \in DOMAIN decoder[p] : decoder[p][i] = Eos}
Fed(p) == DOMAIN decoder[p] \ Told(p)
Playing(p) == {decoder[p][i] : i \in Fed(p)}
OneOwner ==
    /\ TypeOK
    /\ \A p \in Player :
         /\ \A i, j \in DOMAIN queue[p] : queue[p][i] = queue[p][j] => i = j
         /\ \A i, j \in Fed(p) : decoder[p][i] = decoder[p][j] => i = j
         /\ Queued(p) \cap Playing(p) = {}
         /\ Held(hand[p]) \cap (Queued(p) \cup Playing(p)) = {}
         /\ Held(packet) \cap (Queued(p) \cup Held(hand[p]) \cup Playing(p)) = {}

\* What the audio decoder holds was read after the last seek that flushed it, and
\* the loop never hands either player a packet from before a seek.
Fresh(x) == x = Eos \/ x[2] = seeks
InSeek == pc \in {"flushVideo", "flushAudio", "reset"}
FreshAfterSeek ==
    ~InSeek =>
        /\ packet # NoPacket => Fresh(packet)
        /\ \A p \in Player : \A i \in DOMAIN queue[p] : Fresh(queue[p][i])
        /\ "aud" \in Player => \A i \in DOMAIN decoder["aud"] : Fresh(decoder["aud"][i])

\* While packets are read the clock is not left stopped by a seek.
ClockRestarted == pc \in {"read", "add", "eof", "playout"} /\ Player # {} => clock # "stopped"

\* A loop that ends by itself leaves packets unplayed only where the end of stream
\* could not be submitted, was taken from before the seek, or overtook the one
\* packet in run's hand.
Unplayed(p) == Queued(p) \cup Held(hand[p]) \cup Playing(p)
LossExplained ==
    pc = "ended" /\ ~mEntered =>
        \A p \in Player : mFailedEos[p] \/ oldEos[p] \/ \A x, y \in Unplayed(p) : x = y

\* The packets a player has accepted and not yet decoded or thrown away, in order.
OnTheWay(p) == IF hand[p] = NoPacket THEN queue[p] ELSE <<hand[p]>> \o queue[p]

\* The loop flushes the video player, then the audio player, then resets the video
\* player, which flushes it again.
Flushing(p) == IF p = "vid" THEN pc \in {"flushVideo", "reset"} ELSE pc = "flushAudio"
Phase == CASE pc = "done" -> "closed" [] pc = "ended" -> "closing" [] OTHER -> "open"

Pipe(p) == INSTANCE PacketPipe WITH
               Packet <- Packets, Mark <- {Eos}, pipe <- OnTheWay(p), given <- decoder[p],
               flushing <- Flushing(p), grant <- mFlush[p], phase <- Phase

\* Whatever the loop does with its players, through seeks, refused and failed ones, and at
\* the end, each of them is a packet pipe: its decoder gets the packets that addPacket
\* accepted in their order and at most once, and one is thrown away only on account of a
\* flush or a close.  (beginPlay to endPlay, with cOmxPlayer::run)
PlayersArePipes ==
    /\ \A p \in Player : Pipe(p)!Init
    /\ [][\A p \in Player : [Pipe(p)!Next]_(Pipe(p)!vars)]_vars

\* The clock waits for the start time of a player that has nothing left to send and is not
\* told so: submitEOS failed, or never comes because another player, that can take no more
\* until the clock runs, has packets queued.
Clogged(p) == queue[p] # <<>> /\ hand[p] # NoPacket /\ ~HasRoom(p)
Starved ==
    /\ clock = "waiting"
    /\ \E p \in Player \ started :
         /\ OnTheWay(p) = <<>> /\ decoder[p] = <<>>
         /\ (submitEos /\ mFailedEos[p]) \/ \E q \in Player : Clogged(q)

\* The loop ends: at the end of the file, when what "may still be playing out" has been
\* played.  It does not only if it is paused for good, a seek leaves the reader at the end of
\* the file, a component has refused the end of the stream and was not told it again, or the
\* clock is starved: as when one stream ends long before the other.
SeekLeavesEof == pc = "reset" /\ mEof
===============================================================================
