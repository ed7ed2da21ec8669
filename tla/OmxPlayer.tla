------------------------------- MODULE OmxPlayer ------------------------------
(***************************************************************************)
(* cOmxPlayer (cOmxAv.h), the packet queue between the playback loop of    *)
(* cAppWindow (the "main" thread here) and the detached thread that runs   *)
(* cOmxPlayer::run and feeds the decoder (the "run" thread), in its two    *)
(* forms cOmxVideoPlayer and cOmxAudioPlayer.                              *)
(*                                                                         *)
(* The two mutexes are owner variables and the condition variable is the   *)
(* state "waiting" of the run thread.  Every shared variable is read and   *)
(* written by the steps that read and write it in the code, so the reads   *)
(* and writes that take no mutex (addPacket's check, mAbort in close,      *)
(* mFlush in reset) interleave with the other thread's critical sections.  *)
(* A critical section that calls nothing that blocks is a single step.     *)
(* The player is destroyed while the detached thread may still need it:    *)
(* what that thread then does is undefined (RunAstray).                    *)
(*                                                                         *)
(* Packets are numbered in the order the playback loop hands them over:    *)
(* packet n is the packet it has in hand while next = n.  A seek throws    *)
(* the packet in hand away and reads another, which takes its number, so   *)
(* seekMark is the first packet that is handed over after the last seek.   *)
(***************************************************************************)
EXTENDS Integers, Sequences, FiniteSets, Functions

CONSTANTS Kind,        \* "video" (cOmxVideoPlayer) or "audio" (cOmxAudioPlayer)
          MaxPackets,  \* bound: packets the playback loop hands over
          Size,        \* Size[n] is the mSize of packet n
          MaxCache,    \* mPacketMaxCacheSize
          MaxSeeks,    \* bound: seeks of the playback loop
          MaxFailures  \* bound: decodes that fail and leave the packet in hand

Packet == 1 .. MaxPackets
NoPacket == 0

ASSUME KindAssumption == Kind \in {"video", "audio"}
ASSUME BoundsAssumption ==
    MaxPackets \in Nat /\ MaxCache \in Nat /\ MaxSeeks \in Nat /\ MaxFailures \in Nat
ASSUME SizeAssumption == Size \in [Packet -> Nat]

VARIABLES
    mLock,           \* owner of the queue mutex: "free", "main" or "run"
    mLockDecoder,    \* owner of the decoder mutex
    mPackets,        \* the queue
    mPacketCacheSize,
    mAbort,
    mFlush,
    mFlushRequested,
    mainPc,          \* where the playback thread is in the player's methods
    flushFor,        \* who called flush: "seek", "reset" or "close"
    runPc,           \* where cOmxPlayer::run is
    packet,          \* run's local variable, NoPacket for nullptr
    decoder,         \* "open", or "deleted" after deleteDecoder
    next,            \* the packet in the playback loop's hands
    seekMark,        \* the first packet handed over after the last seek
    fed,             \* packets given to the decoder, in order
    dropped,         \* packets run has deleted without decoding them
    cleared,         \* packets that mPackets.clear() forgot
    seeks,           \* seeks so far, for the bound MaxSeeks
    failures         \* failed decodes so far, for the bound MaxFailures

locks    == <<mLock, mLockDecoder>>
queue    == <<mPackets, mPacketCacheSize>>
flags    == <<mAbort, mFlush, mFlushRequested>>
caller   == <<decoder, next, seekMark, cleared, seeks>>
mainVars == <<mainPc, flushFor, caller>>
tally    == <<fed, dropped, failures>>
runVars  == <<runPc, packet, tally>>
vars == <<locks, queue, flags, mainVars, runVars>>

-------------------------------------------------------------------------------
\* cOmxPlayer(), open() and the start of the run thread in beginPlay.
Init ==
    /\ mLock = "free" /\ mLockDecoder = "free"
    /\ mPackets = << >> /\ mPacketCacheSize = 0
    /\ mAbort = FALSE /\ mFlush = FALSE /\ mFlushRequested = FALSE
    /\ mainPc = "playLoop" /\ flushFor = "seek"
    /\ runPc = "lock" /\ packet = NoPacket
    /\ decoder = "open"
    /\ next = 1 /\ seekMark = 1
    /\ fed = << >> /\ dropped = {} /\ cleared = {}
    /\ seeks = 0 /\ failures = 0

-------------------------------------------------------------------------------
(* The playback thread.                                                    *)

HasRoom == mPacketCacheSize + Size[next] <= MaxCache

\* addPacket finds room: the check reads mPacketCacheSize without the mutex.
\* When there is none it returns false and the caller keeps its packet.
AddCheck ==
    /\ mainPc = "playLoop"
    /\ next \in Packet
    /\ ~mAbort /\ HasRoom
    /\ mainPc' = "addPush"
    /\ UNCHANGED <<runVars, caller, flags, locks, queue, flushFor>>

Push ==
    /\ mPackets' = Append(mPackets, next)
    /\ mPacketCacheSize' = mPacketCacheSize + Size[next]

AddPush ==
    /\ mainPc = "addPush"
    /\ mLock = "free"
    /\ Push
    /\ next' = next + 1
    /\ mainPc' = "addSignal"
    /\ UNCHANGED <<runVars, flags, locks, flushFor, decoder, seekMark, cleared, seeks>>

WakeNobody == runPc' = runPc
\* pthread_cond_broadcast: the only thread that can be waiting is run.
WakeRun == runPc' = IF runPc = "waiting" THEN "woken" ELSE runPc

AddSignal ==
    /\ mainPc = "addSignal"
    /\ WakeRun
    /\ mainPc' = "playLoop"
    /\ UNCHANGED <<caller, flags, locks, queue, tally, flushFor, packet>>

\* A seek in playLoop calls flush, then reset; on a source that cannot seek (a pipe)
\* only reset, for the video player.  close calls flush after setting mAbort.
Seek ==
    /\ mainPc = "playLoop"
    /\ seeks < MaxSeeks
    /\ seeks' = seeks + 1
    /\ seekMark' = next
    /\ \/ mainPc' = "flushRequest"
       \/ Kind = "video" /\ mainPc' = "resetBegin"
    /\ flushFor' = "seek"
    /\ UNCHANGED <<runVars, flags, locks, queue, decoder, next, cleared>>

CloseBegin ==
    /\ mainPc = "playLoop"
    /\ mAbort' = TRUE
    /\ mainPc' = "flushRequest" /\ flushFor' = "close"
    /\ UNCHANGED <<runVars, caller, locks, queue, mFlush, mFlushRequested>>

RequestForgotten == mFlushRequested' = mFlushRequested
Request == mFlushRequested' = TRUE

FlushRequest ==
    /\ mainPc = "flushRequest"
    /\ Request
    /\ mainPc' = "flushLock"
    /\ UNCHANGED <<runVars, caller, locks, queue, mAbort, mFlush, flushFor>>

FlushLock ==
    /\ mainPc = "flushLock"
    /\ mLock = "free"
    /\ mLock' = "main"
    /\ mainPc' = "flushLockDecoder"
    /\ UNCHANGED <<runVars, caller, flags, queue, mLockDecoder, flushFor>>

FlushLockDecoder ==
    /\ mainPc = "flushLockDecoder"
    /\ mLockDecoder = "free"
    /\ mLockDecoder' = "main"
    /\ mainPc' = "flushBody"
    /\ UNCHANGED <<runVars, caller, flags, queue, mLock, flushFor>>

\* Where the playback thread goes on when flush returns.
AfterFlush ==
    CASE flushFor = "seek" /\ Kind = "video" -> "resetBegin"
      [] flushFor = "seek" /\ Kind = "audio" -> "playLoop"
      [] flushFor = "reset" -> "resetBody"
      [] flushFor = "close" -> "closeBroadcast"

MarkForgotten == mFlush' = mFlush
MarkFlushed == mFlush' = TRUE

ClearQueue == mPackets' = << >> /\ mPacketCacheSize' = 0

FlushBody ==
    /\ mainPc = "flushBody"
    /\ mFlushRequested' = FALSE
    /\ MarkFlushed
    /\ cleared' = cleared \cup {mPackets[i] : i \in 1 .. Len(mPackets)}
    /\ ClearQueue
    /\ mLockDecoder' = "free" /\ mLock' = "free"
    /\ mainPc' = AfterFlush
    /\ UNCHANGED <<runVars, mAbort, flushFor, decoder, next, seekMark, seeks>>

\* cOmxVideoPlayer::reset flushes again and then clears the flags with no mutex.
ResetBegin ==
    /\ mainPc = "resetBegin"
    /\ mainPc' = "flushRequest" /\ flushFor' = "reset"
    /\ UNCHANGED <<runVars, caller, flags, locks, queue>>

ResetKeepsFlush ==
    mAbort' = FALSE /\ mFlushRequested' = FALSE /\ UNCHANGED mFlush
ResetFlags == mAbort' = FALSE /\ mFlush' = FALSE /\ mFlushRequested' = FALSE

ResetBody ==
    /\ mainPc = "resetBody"
    /\ ResetFlags
    /\ mPacketCacheSize' = 0
    /\ mainPc' = "playLoop"
    /\ UNCHANGED <<runVars, caller, locks, mPackets, flushFor>>

CloseBroadcast ==
    /\ mainPc = "closeBroadcast"
    /\ mLock = "free"
    /\ WakeRun
    /\ mainPc' = "closeDelete"
    /\ UNCHANGED <<caller, flags, locks, queue, tally, flushFor, packet>>

CloseDelete ==
    /\ mainPc = "closeDelete"
    /\ decoder' = "deleted"
    /\ mainPc' = "closed"
    /\ UNCHANGED <<runVars, flags, locks, queue, flushFor, next, seekMark, cleared, seeks>>

\* close is the body of the destructor of a player that runs: ~cOmxPlayer then
\* destroys both mutexes and the condition, and delete frees the object.
Destroy ==
    /\ mainPc = "closed"
    /\ mainPc' = "destroyed"
    /\ UNCHANGED <<runVars, caller, flags, locks, queue, flushFor>>

-------------------------------------------------------------------------------
(* The run thread.                                                         *)

RunLock ==
    /\ runPc = "lock"
    /\ mLock = "free"
    /\ mLock' = "run"
    /\ runPc' = "check"
    /\ UNCHANGED <<mainVars, flags, queue, tally, mLockDecoder, packet>>

MustWaitClosing == mPackets = << >>
MustWait == ~mAbort /\ mPackets = << >>

\* The test before pthread_cond_wait: an if in the code, made once.
RunCheck ==
    /\ runPc = "check"
    /\ runPc' = IF MustWait THEN "wait" ELSE "testAbort"
    /\ UNCHANGED <<mainVars, flags, locks, queue, tally, packet>>

RunWait ==
    /\ runPc = "wait"
    /\ mLock' = "free"
    /\ runPc' = "waiting"
    /\ UNCHANGED <<mainVars, flags, queue, tally, mLockDecoder, packet>>

\* pthread_cond_wait may return without a broadcast.
RunSpuriousWakeup ==
    /\ runPc = "waiting"
    /\ runPc' = "woken"
    /\ UNCHANGED <<mainVars, flags, locks, queue, tally, packet>>

RunRelock ==
    /\ runPc = "woken"
    /\ mLock = "free"
    /\ mLock' = "run"
    /\ runPc' = "testAbort"
    /\ UNCHANGED <<mainVars, flags, queue, tally, mLockDecoder, packet>>

RunTestAbort ==
    /\ runPc = "testAbort"
    /\ IF mAbort
         THEN mLock' = "free" /\ runPc' = "exit"
         ELSE mLock' = mLock /\ runPc' = "take"
    /\ UNCHANGED <<mainVars, flags, queue, tally, mLockDecoder, packet>>

DropStillInHand == dropped' = dropped \cup {packet} /\ packet' = packet
DropInHand == dropped' = dropped \cup {packet} /\ packet' = NoPacket

\* The flushed packet in hand is deleted; or the next one is taken; or neither.
RunTake ==
    /\ runPc = "take"
    /\ \/ /\ mFlush /\ packet # NoPacket
          /\ DropInHand
          /\ mFlush' = FALSE
          /\ UNCHANGED queue
       \/ /\ packet = NoPacket /\ mPackets # << >>
          /\ packet' = Head(mPackets)
          /\ mPackets' = Tail(mPackets)
          /\ mPacketCacheSize' = mPacketCacheSize - Size[Head(mPackets)]
          /\ UNCHANGED <<mFlush, dropped>>
       \/ /\ IF packet = NoPacket THEN mPackets = << >> ELSE ~mFlush
          /\ UNCHANGED <<queue, mFlush, packet, dropped>>
    /\ mLock' = "free"
    /\ runPc' = "lockDecoder"
    /\ UNCHANGED <<mainVars, mLockDecoder, fed, failures, mAbort, mFlushRequested>>

RunLockDecoder ==
    /\ runPc = "lockDecoder"
    /\ mLockDecoder = "free"
    /\ mLockDecoder' = "run"
    /\ runPc' = "decide"
    /\ UNCHANGED <<mainVars, flags, queue, tally, mLock, packet>>

Decodes == packet # NoPacket /\ ~mFlush

\* packet && (mFlush || ...): decode is called only with a packet and no flush.
RunDecide ==
    /\ runPc = "decide"
    /\ \/ /\ Decodes
          /\ runPc' = "decoding"
          /\ UNCHANGED <<mLockDecoder, mFlush, packet, dropped>>
       \/ /\ packet # NoPacket /\ mFlush
          /\ DropInHand
          /\ mFlush' = FALSE
          /\ mLockDecoder' = "free" /\ runPc' = "lock"
       \/ /\ packet = NoPacket
          /\ mLockDecoder' = "free" /\ runPc' = "lock"
          /\ UNCHANGED <<mFlush, packet, dropped>>
    /\ UNCHANGED <<mainVars, queue, mLock, fed, failures, mAbort, mFlushRequested>>

\* decodeDecoder found room in the decoder's buffers and filled them.
DecodeFed ==
    /\ runPc = "decoding"
    /\ fed' = Append(fed, packet)
    /\ packet' = NoPacket
    /\ mFlush' = FALSE
    /\ mLockDecoder' = "free" /\ runPc' = "lock"
    /\ UNCHANGED <<mainVars, queue, mLock, dropped, failures, mAbort, mFlushRequested>>

GivesUpAtOnce == TRUE
SeesFlushRequested == mFlushRequested

\* It was waiting for room, saw flushRequested and returned true.
DecodeGivesUp ==
    /\ runPc = "decoding"
    /\ SeesFlushRequested
    /\ DropInHand
    /\ mFlush' = FALSE
    /\ mLockDecoder' = "free" /\ runPc' = "lock"
    /\ UNCHANGED <<mainVars, queue, mLock, fed, failures, mAbort, mFlushRequested>>

\* cOmxVideo::decode failed and returned false: the packet stays in hand.
\* cOmxAudio::decode always returns true.
DecodeFails ==
    /\ runPc = "decoding"
    /\ Kind = "video"
    /\ failures < MaxFailures
    /\ failures' = failures + 1
    /\ mLockDecoder' = "free" /\ runPc' = "lock"
    /\ UNCHANGED <<mainVars, flags, queue, mLock, packet, fed, dropped>>

\* The loop is left and the packet in hand, if any, deleted.
RunExit ==
    /\ runPc = "exit"
    /\ runPc' = "done"
    /\ packet' = NoPacket
    /\ dropped' = IF packet = NoPacket THEN dropped ELSE dropped \cup {packet}
    /\ UNCHANGED <<mainVars, flags, locks, queue, fed, failures>>

\* Until it has read mAbort in its loop the thread needs the object, its mutexes and
\* its condition.  Once they are destroyed every such step is undefined: it may do
\* what it does above, the memory being as it was, or the thread is lost, stuck in a
\* mutex, running on with what the memory holds by then, or taking the program down.
RunAstray ==
    /\ mainPc = "destroyed"
    /\ runPc \notin {"exit", "done", "astray"}
    /\ runPc' = "astray"
    /\ UNCHANGED <<mainVars, flags, locks, queue, tally, packet>>

-------------------------------------------------------------------------------
\* Both threads have left the player: nothing more happens that the model follows.
Terminated ==
    /\ mainPc = "destroyed" /\ runPc \in {"done", "astray"}
    /\ UNCHANGED vars

MainContinues ==
    \/ AddPush \/ AddSignal
    \/ FlushRequest \/ FlushLock \/ FlushLockDecoder \/ FlushBody
    \/ ResetBegin \/ ResetBody
    \/ CloseBroadcast \/ CloseDelete \/ Destroy

Main == AddCheck \/ Seek \/ CloseBegin \/ MainContinues

\* The steps of run that wait for nothing but a mutex.
RunContinues ==
    \/ RunLock \/ RunCheck \/ RunWait \/ RunRelock \/ RunTestAbort \/ RunTake
    \/ RunLockDecoder \/ RunDecide \/ DecodeGivesUp \/ RunExit

Run == RunContinues \/ RunSpuriousWakeup \/ DecodeFed \/ DecodeFails \/ RunAstray

Next == Main \/ Run \/ Terminated

Spec == Init /\ [][Next]_vars

\* The scheduler runs both threads, and a mutex the run thread keeps releasing is
\* in the end granted to the playback thread blocked on it (strong fairness: any
\* number of spurious wakeups may take the mutex in between).  Nothing is assumed
\* of the decoder: it need never find room for a packet.
FairSpec == Spec /\ SF_vars(MainContinues) /\ WF_vars(RunContinues)

-------------------------------------------------------------------------------
(* Properties.                                                             *)

MainPcs == {"playLoop", "addPush", "addSignal", "flushRequest", "flushLock",
            "flushLockDecoder", "flushBody", "resetBegin", "resetBody",
            "closeBroadcast", "closeDelete", "closed", "destroyed"}
RunPcs == {"lock", "check", "wait", "waiting", "woken", "testAbort", "take",
           "lockDecoder", "decide", "decoding", "exit", "done", "astray"}

FlagTypes == mAbort \in BOOLEAN /\ mFlush \in BOOLEAN /\ mFlushRequested \in BOOLEAN
ControlTypes ==
    /\ mLock \in {"free", "main", "run"} /\ mLockDecoder \in {"free", "main", "run"}
    /\ mainPc \in MainPcs /\ flushFor \in {"seek", "reset", "close"}
    /\ runPc \in RunPcs
    /\ decoder \in {"open", "deleted"}
DataTypes ==
    /\ mPackets \in Seq(Packet) /\ mPacketCacheSize \in Int
    /\ packet \in Packet \cup {NoPacket}
    /\ next \in Nat /\ seekMark \in Nat
    /\ fed \in Seq(Packet) /\ dropped \subseteq Packet /\ cleared \subseteq Packet
    /\ seeks \in 0 .. MaxSeeks /\ failures \in 0 .. MaxFailures

\* Every variable has its type: in particular decode is never called on nullptr
\* (fed would hold it).
TypeOK == FlagTypes /\ ControlTypes /\ DataTypes

SizeOf(q) == FoldFunction(LAMBDA n, total : Size[n] + total, 0, q)

\* mPacketCacheSize, which both threads change and addPacket and the end-of-file
\* test of playLoop read without the mutex, is the size of the queue.
CacheAccounting == mPacketCacheSize = SizeOf(mPackets)

\* addPacket checks for room before it takes the mutex; the queue still never
\* holds more than mPacketMaxCacheSize.
CacheBounded == mPacketCacheSize <= MaxCache

InQueue == {mPackets[i] : i \in 1 .. Len(mPackets)}
InHand  == {packet} \ {NoPacket}
WasFed  == {fed[i] : i \in 1 .. Len(fed)}

\* Every packet addPacket accepted is in exactly one place: queued, in the run
\* thread's hand, decoded, deleted by it, or forgotten by a flush.  So none is
\* deleted twice, decoded after it was deleted, or lost by the hand-over.
PacketsConserved ==
    /\ InQueue \cup InHand \cup WasFed \cup dropped \cup cleared = 1 .. next - 1
    /\ Len(mPackets) + Cardinality(InHand) + Len(fed) + Cardinality(dropped)
         + Cardinality(cleared) = next - 1

\* The decoder gets the packets in the order they were read, each once, whatever
\* failed decodes, retries and flushes lie in between.
FedInOrder == \A i, j \in 1 .. Len(fed) : i < j => fed[i] < fed[j]

\* The queue, its size, its limit and the packet in hand agree over the whole life of the player.
PacketsAccounted == TypeOK /\ CacheAccounting /\ CacheBounded /\ PacketsConserved /\ FedInOrder

\* The decoder that close deletes is not being used by the run thread, which is
\* detached and which close does not join.  (For a thread that finds the whole
\* player destroyed nothing is said any more: it is astray.)
NoDecodeAfterDelete == runPc = "decoding" => decoder = "open"

\* The run thread tests its wait condition once, with an if, and addPacket
\* broadcasts after it has released the mutex: still, while the thread is waiting
\* with packets queued, or with the player closing, a broadcast is on its way.
NoLostWakeup ==
    /\ runPc \in {"wait", "waiting"} /\ mPackets # << >> => mainPc = "addSignal"
    /\ runPc \in {"wait", "waiting"} /\ mAbort =>
           mainPc \in {"flushRequest", "flushLock", "flushLockDecoder", "flushBody",
                       "closeBroadcast"}

\* The flush of a seek has not been carried out yet.
SeekPending ==
    /\ flushFor = "seek"
    /\ mainPc \in {"flushRequest", "flushLock", "flushLockDecoder", "flushBody"}

\* After the flush of an audio seek nothing read before the seek reaches the
\* decoder, although the run thread may have had such a packet in hand throughout.
AudioNeverStale ==
    [][Kind = "audio" /\ fed' # fed /\ ~SeekPending =>
           fed'[Len(fed')] >= seekMark]_vars

\* A video seek costs no packet that was read after it: the run thread discards
\* only packets from before the last seek, unless the player is being closed.
VideoNeverDropsFresh ==
    [][Kind = "video" /\ dropped' # dropped /\ ~mAbort =>
           \A p \in dropped' \ dropped : p < seekMark]_vars

\* The packets accepted and not yet decoded or thrown away, in order.
OnTheWay == (IF packet = NoPacket THEN << >> ELSE <<packet>>) \o mPackets
Phase == IF decoder = "deleted" THEN "closed" ELSE IF mAbort THEN "closing" ELSE "open"

\* The player, for all its threads and flags, is a packet pipe: in order, at most
\* once, and no packet thrown away except on account of a flush or a close.
Pipe == INSTANCE PacketPipe WITH
            pipe <- OnTheWay, given <- fed, Mark <- {}, flushing <- mFlushRequested,
            grant <- mFlush, phase <- Phase
ImplementsPipe == Pipe!Spec

\* A flush (hence a seek, or a close) gets both mutexes and returns even if the
\* decoder never again finds room for the packet being decoded: decode polls
\* mFlushRequested while it waits.
FlushReturns == mainPc = "flushRequest" ~> mainPc \in {"playLoop", "closed"}

\* A player that is closing does not leave its detached thread asleep: the thread
\* wakes and ends, unless the player is destroyed before it has read mAbort.  (That
\* it ends cannot be said: nothing makes the destructor wait for it.)
ThreadEnds == mAbort ~> runPc \in {"done", "astray"}
===============================================================================
