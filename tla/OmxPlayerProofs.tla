---------------------------- MODULE OmxPlayerProofs ---------------------------
(***************************************************************************)
(* Theorems about OmxPlayer for every queue size, packet size, number of   *)
(* packets, seeks and failed decodes, and for both kinds of player.        *)
(***************************************************************************)
EXTENDS OmxPlayer, FiniteSetTheorems, SequenceTheorems, TLAPS

USE DEF locks, queue, flags, caller, mainVars, tally, runVars

\* What the two threads hold at the places they are at.
HandsFull ==
    /\ mainPc = "addPush" => next \in Packet
    /\ runPc = "decoding" => packet \in Packet
Typed == TypeOK /\ HandsFull

\* The three flags stay Boolean.
LEMMA FlagsStep == FlagTypes /\ [Next]_vars => FlagTypes'
<1> SUFFICES ASSUME FlagTypes, [Next]_vars PROVE FlagTypes'
  OBVIOUS
<1> USE DEF FlagTypes
<1>1. CASE Main
  BY <1>1 DEF Main, AddCheck, Seek, CloseBegin, MainContinues, AddPush, AddSignal,
     FlushRequest, Request, FlushLock, FlushLockDecoder, FlushBody, MarkFlushed,
     ResetBegin, ResetBody, ResetFlags, CloseBroadcast, CloseDelete, Destroy
<1>2. CASE Run
  BY <1>2 DEF Run, RunContinues, RunLock, RunCheck, RunWait, RunSpuriousWakeup, RunAstray,
     RunRelock, RunTestAbort, RunTake, RunLockDecoder, RunDecide, DecodeFed,
     DecodeGivesUp, DecodeFails, RunExit
<1>3. CASE UNCHANGED vars
  BY <1>3 DEF vars
<1>4. QED
  BY <1>1, <1>2, <1>3 DEF Next, Terminated

\* The mutexes, the two program counters and the decoder keep their types.
LEMMA ControlStep == ControlTypes /\ [Next]_vars => ControlTypes'
<1> SUFFICES ASSUME ControlTypes, [Next]_vars PROVE ControlTypes'
  OBVIOUS
<1> USE DEF ControlTypes, MainPcs, RunPcs
<1>1. CASE Main
  BY <1>1, KindAssumption DEF Main, AddCheck, Seek, CloseBegin, MainContinues,
     AddPush, AddSignal, WakeRun, FlushRequest, FlushLock, FlushLockDecoder,
     FlushBody, AfterFlush, ResetBegin, ResetBody, CloseBroadcast, CloseDelete, Destroy
<1>2. CASE Run
  BY <1>2 DEF Run, RunContinues, RunLock, RunCheck, RunWait, RunSpuriousWakeup, RunAstray,
     RunRelock, RunTestAbort, RunTake, RunLockDecoder, RunDecide, DecodeFed,
     DecodeGivesUp, DecodeFails, RunExit
<1>3. CASE UNCHANGED vars
  BY <1>3 DEF vars
<1>4. QED
  BY <1>1, <1>2, <1>3 DEF Next, Terminated

\* The threads have what they need in hand where they use it.
LEMMA HandsStep == TypeOK /\ HandsFull /\ [Next]_vars => HandsFull'
<1> SUFFICES ASSUME TypeOK, HandsFull, [Next]_vars PROVE HandsFull'
  OBVIOUS
<1> USE KindAssumption DEF HandsFull, TypeOK, ControlTypes, DataTypes
<1>1. CASE Main
  BY <1>1 DEF Main, AddCheck, Seek, CloseBegin, MainContinues, AddPush, AddSignal,
     WakeRun, FlushRequest, FlushLock, FlushLockDecoder, FlushBody, AfterFlush,
     ResetBegin, ResetBody, CloseBroadcast, CloseDelete, Destroy
<1>2. CASE Run
  BY <1>2 DEF Run, RunContinues, RunLock, RunCheck, RunWait, RunSpuriousWakeup, RunAstray,
     RunRelock, RunTestAbort, RunTake, RunLockDecoder, RunDecide, Decodes, DecodeFed,
     DecodeGivesUp, DecodeFails, RunExit
<1>3. CASE UNCHANGED vars
  BY <1>3 DEF vars
<1>4. QED
  BY <1>1, <1>2, <1>3 DEF Next, Terminated

\* The queue, its size, the packets and the counters keep their types.
LEMMA DataStep == DataTypes /\ HandsFull /\ [Next]_vars => DataTypes'
<1> SUFFICES ASSUME DataTypes, HandsFull, [Next]_vars PROVE DataTypes'
  OBVIOUS
<1> USE BoundsAssumption, SizeAssumption DEF DataTypes, HandsFull
<1>1. CASE Seek
  BY <1>1 DEF Seek
<1>2. CASE AddPush
  BY <1>2 DEF AddPush, Push
<1>3. CASE FlushBody
  BY <1>3 DEF FlushBody, ClearQueue
<1>4. CASE ResetBody
  BY <1>4 DEF ResetBody
<1>5. CASE CloseDelete
  BY <1>5 DEF CloseDelete
<1>6. CASE RunTake
  <2>1. CASE packet = NoPacket /\ mPackets # << >>
    <3>1. /\ packet' = Head(mPackets) /\ mPackets' = Tail(mPackets)
          /\ mPacketCacheSize' = mPacketCacheSize - Size[Head(mPackets)]
          /\ UNCHANGED dropped
      BY <1>6, <2>1 DEF RunTake
    <3>2. Head(mPackets) \in Packet /\ Tail(mPackets) \in Seq(Packet)
      BY <2>1
    <3>3. Size[Head(mPackets)] \in Nat
      BY <3>2
    <3>4. QED
      BY <1>6, <3>1, <3>2, <3>3 DEF RunTake
  <2>2. CASE ~(packet = NoPacket /\ mPackets # << >>)
    BY <1>6, <2>2 DEF RunTake, DropInHand
  <2>3. QED
    BY <2>1, <2>2
<1>7. CASE RunDecide
  BY <1>7 DEF RunDecide, DropInHand
<1>8. CASE DecodeFed
  BY <1>8 DEF DecodeFed
<1>9. CASE DecodeGivesUp
  BY <1>9 DEF DecodeGivesUp, DropInHand
<1>10. CASE DecodeFails
  BY <1>10 DEF DecodeFails
<1>11. CASE RunExit
  BY <1>11 DEF RunExit
<1>12. CASE AddCheck \/ CloseBegin \/ AddSignal \/ FlushRequest \/ FlushLock
            \/ FlushLockDecoder \/ ResetBegin \/ CloseBroadcast \/ Destroy
  BY <1>12 DEF AddCheck, CloseBegin, AddSignal, FlushRequest, FlushLock,
     FlushLockDecoder, ResetBegin, CloseBroadcast, Destroy
<1>13. CASE RunLock \/ RunCheck \/ RunWait \/ RunSpuriousWakeup \/ RunAstray \/ RunRelock
            \/ RunTestAbort \/ RunLockDecoder
  BY <1>13 DEF RunLock, RunCheck, RunWait, RunSpuriousWakeup, RunAstray, RunRelock,
     RunTestAbort, RunLockDecoder
<1>14. CASE UNCHANGED vars
  BY <1>14 DEF vars
<1>15. QED
  BY <1>1, <1>2, <1>3, <1>4, <1>5, <1>6, <1>7, <1>8, <1>9, <1>10, <1>11, <1>12, <1>13,
     <1>14 DEF Next, Main, MainContinues, Run, RunContinues, Terminated

-------------------------------------------------------------------------------
\* Types hold initially.
LEMMA TypedInit == Init => Typed
<1> SUFFICES ASSUME Init PROVE Typed
  OBVIOUS
<1>1. FlagTypes
  BY DEF Init, FlagTypes
<1>2. ControlTypes
  BY DEF Init, ControlTypes, MainPcs, RunPcs
<1>3. DataTypes
  BY BoundsAssumption DEF Init, DataTypes
<1>4. HandsFull
  BY DEF Init, HandsFull
<1>5. QED
  BY <1>1, <1>2, <1>3, <1>4 DEF Typed, TypeOK

-------------------------------------------------------------------------------
\* Which places of the two threads hold which mutex: mutual exclusion, until the
\* thread is lost with the mutexes it works with.
Locks ==
    \/ runPc = "astray" /\ mainPc = "destroyed"
    \/ /\ mLock = "run" <=> runPc \in {"check", "wait", "testAbort", "take"}
       /\ mLock = "main" <=> mainPc \in {"flushLockDecoder", "flushBody"}
       /\ mLockDecoder = "run" <=> runPc \in {"decide", "decoding"}
       /\ mLockDecoder = "main" <=> mainPc = "flushBody"

\* Each mutex is held exactly where its owner's program counter says.
LEMMA LocksStep == TypeOK /\ Locks /\ [Next]_vars => Locks'
<1> SUFFICES ASSUME TypeOK, Locks, [Next]_vars PROVE Locks'
  OBVIOUS
<1> USE KindAssumption DEF Locks, TypeOK, ControlTypes, MainPcs, RunPcs
<1>1. CASE Main
  BY <1>1 DEF Main, AddCheck, Seek, CloseBegin, MainContinues, AddPush, AddSignal,
     WakeRun, FlushRequest, FlushLock, FlushLockDecoder, FlushBody, AfterFlush,
     ResetBegin, ResetBody, CloseBroadcast, CloseDelete, Destroy
<1>2. CASE Run
  <2>1. CASE RunLock \/ RunCheck \/ RunWait \/ RunSpuriousWakeup \/ RunRelock
    BY <2>1 DEF RunLock, RunCheck, RunWait, RunSpuriousWakeup, RunRelock
  <2>2. CASE RunTestAbort \/ RunLockDecoder
    BY <2>2 DEF RunTestAbort, RunLockDecoder
  <2>7. CASE RunExit \/ RunAstray
    BY <2>7 DEF RunExit, RunAstray
  <2>3. CASE RunTake
    BY <2>3 DEF RunTake
  <2>4. CASE RunDecide
    BY <2>4 DEF RunDecide
  <2>5. CASE DecodeFed \/ DecodeGivesUp \/ DecodeFails
    BY <2>5 DEF DecodeFed, DecodeGivesUp, DecodeFails
  <2>6. QED
    BY <1>2, <2>1, <2>2, <2>3, <2>4, <2>5, <2>7 DEF Run, RunContinues
<1>3. CASE UNCHANGED vars
  BY <1>3 DEF vars
<1>4. QED
  BY <1>1, <1>2, <1>3 DEF Next, Terminated

\* The places of the playback thread between the flush of a close and its end.
Closers == {"closeBroadcast", "closeDelete", "closed", "destroyed"}

\* What flush is called for, and what the closing playback thread has established
\* by the time it deletes the decoder: whatever the run thread still has in hand is
\* marked to be thrown away.
Closing ==
    /\ mAbort <=> flushFor = "close"
    /\ mainPc \in Closers => flushFor = "close"
    /\ mainPc = "resetBegin" => flushFor = "seek"
    /\ mainPc = "resetBody" => flushFor = "reset"
    /\ mainPc \in {"playLoop", "addPush", "addSignal"} => flushFor # "close"
    /\ decoder = "deleted" <=> mainPc \in {"closed", "destroyed"}
    /\ mainPc \in Closers =>
          /\ runPc \notin {"take", "decoding"}
          /\ runPc \in {"lockDecoder", "decide"} /\ packet # NoPacket => mFlush

\* close has aborted, flushed and let the decode in progress end before it deletes.
LEMMA ClosingStep == TypeOK /\ Locks /\ Closing /\ [Next]_vars => Closing'
<1> SUFFICES ASSUME TypeOK, Locks, Closing, [Next]_vars PROVE Closing'
  OBVIOUS
<1> USE KindAssumption
    DEF Locks, TypeOK, FlagTypes, ControlTypes, MainPcs, RunPcs, Closing, Closers
<1>1. CASE Main
  BY <1>1 DEF Main, AddCheck, Seek, CloseBegin, MainContinues, AddPush, AddSignal,
     WakeRun, FlushRequest, Request, FlushLock, FlushLockDecoder, FlushBody, AfterFlush,
     MarkFlushed, ResetBegin, ResetBody, ResetFlags, CloseBroadcast, CloseDelete, Destroy
<1>2. CASE Run
  <2>1. CASE RunTake
    BY <1>2, <2>1 DEF RunTake, DropInHand
  <2>2. CASE RunDecide
    BY <1>2, <2>2 DEF RunDecide, Decodes, DropInHand
  <2>3. CASE DecodeFed \/ DecodeGivesUp \/ DecodeFails
    BY <1>2, <2>3 DEF DecodeFed, DecodeGivesUp, DecodeFails, DropInHand
  <2>4. CASE RunLock \/ RunCheck \/ RunWait \/ RunSpuriousWakeup \/ RunAstray \/ RunRelock
              \/ RunTestAbort \/ RunLockDecoder \/ RunExit
    BY <1>2, <2>4 DEF RunLock, RunCheck, RunWait, RunSpuriousWakeup, RunAstray, RunRelock,
       RunTestAbort, RunLockDecoder, RunExit
  <2>5. QED
    BY <1>2, <2>1, <2>2, <2>3, <2>4 DEF Run, RunContinues
<1>3. CASE UNCHANGED vars
  BY <1>3 DEF vars
<1>4. QED
  BY <1>1, <1>2, <1>3 DEF Next, Terminated

-------------------------------------------------------------------------------
\* Why no wakeup is lost: the thread is about to wait only with the mutex held and
\* the queue found empty, and a packet or an abort that comes later is followed by
\* a broadcast.
Waking ==
    /\ NoLostWakeup
    /\ runPc = "wait" => mPackets = << >>

\* A sleeping run thread with something to do has a broadcast coming.
LEMMA WakingStep == TypeOK /\ Locks /\ Closing /\ Waking /\ [Next]_vars => Waking'
<1> SUFFICES ASSUME TypeOK, Locks, Closing, Waking, [Next]_vars PROVE Waking'
  OBVIOUS
<1> USE KindAssumption
    DEF Locks, TypeOK, FlagTypes, ControlTypes, MainPcs, RunPcs, Closing, Closers,
        Waking, NoLostWakeup
<1>1. CASE Main
  BY <1>1 DEF Main, AddCheck, Seek, CloseBegin, MainContinues, AddPush, AddSignal,
     WakeRun, FlushRequest, FlushLock, FlushLockDecoder, FlushBody, AfterFlush,
     ClearQueue, ResetBegin, ResetBody, ResetFlags, CloseBroadcast, CloseDelete, Destroy
<1>2. CASE Run
  BY <1>2 DEF Run, RunContinues, RunLock, RunCheck, MustWait, RunWait,
     RunSpuriousWakeup, RunAstray, RunRelock, RunTestAbort, RunTake, RunLockDecoder, RunDecide,
     DecodeFed, DecodeGivesUp, DecodeFails, RunExit
<1>3. CASE UNCHANGED vars
  BY <1>3 DEF vars
<1>4. QED
  BY <1>1, <1>2, <1>3 DEF Next, Terminated

\* Why the check for room made before the mutex is taken still holds when the packet
\* is pushed: meanwhile the run thread only takes packets out.
Room ==
    /\ CacheBounded
    /\ mainPc = "addPush" => HasRoom

\* Between its check and its push addPacket only ever gains room.
LEMMA RoomStep == TypeOK /\ HandsFull /\ Room /\ [Next]_vars => Room'
<1> SUFFICES ASSUME TypeOK, HandsFull, Room, [Next]_vars PROVE Room'
  OBVIOUS
<1> USE KindAssumption, BoundsAssumption, SizeAssumption
    DEF TypeOK, ControlTypes, DataTypes, HandsFull, Room, CacheBounded, HasRoom
<1>1. CASE RunTake
  <2>1. CASE packet = NoPacket /\ mPackets # << >>
    <3>1. mPacketCacheSize' = mPacketCacheSize - Size[Head(mPackets)]
          /\ mainPc' = mainPc /\ next' = next
      BY <1>1, <2>1 DEF RunTake
    <3>2. Head(mPackets) \in Packet
      BY <2>1
    <3>3. Size[Head(mPackets)] \in Nat
      BY <3>2
    <3>4. mainPc = "addPush" => Size[next] \in Nat
      OBVIOUS
    <3>5. mPacketCacheSize' <= mPacketCacheSize
      BY <3>1, <3>3
    <3>6. QED
      BY <3>1, <3>3, <3>4
  <2>2. CASE ~(packet = NoPacket /\ mPackets # << >>)
    BY <1>1, <2>2 DEF RunTake
  <2>3. QED
    BY <2>1, <2>2
<1>2. CASE Run /\ ~RunTake
  BY <1>2 DEF Run, RunContinues, RunLock, RunCheck, RunWait, RunSpuriousWakeup, RunAstray,
     RunRelock, RunTestAbort, RunLockDecoder, RunDecide, DecodeFed,
     DecodeGivesUp, DecodeFails, RunExit
<1>3. CASE Main
  BY <1>3 DEF Main, AddCheck, Seek, CloseBegin, MainContinues, AddPush, Push, AddSignal,
     FlushRequest, FlushLock, FlushLockDecoder, FlushBody, AfterFlush, ClearQueue,
     ResetBegin, ResetBody, CloseBroadcast, CloseDelete, Destroy
<1>4. CASE UNCHANGED vars
  BY <1>4 DEF vars
<1>5. QED
  BY <1>1, <1>2, <1>3, <1>4 DEF Next, Terminated

-------------------------------------------------------------------------------
\* The inductive invariant of the player's control.
PlayerInv == Typed /\ Locks /\ Closing /\ Waking /\ Room

\* The player starts in its inductive invariant.
LEMMA PlayerInvInit == Init => PlayerInv
<1> SUFFICES ASSUME Init PROVE PlayerInv
  OBVIOUS
<1>1. Typed
  BY TypedInit
<1>2. Locks /\ Closing /\ Waking /\ Room
  BY BoundsAssumption
     DEF Init, Locks, Closing, Closers, Waking, NoLostWakeup, Room, CacheBounded
<1>3. QED
  BY <1>1, <1>2 DEF PlayerInv

\* Every step of either thread keeps the inductive invariant.
LEMMA PlayerInvStep == PlayerInv /\ [Next]_vars => PlayerInv'
BY FlagsStep, ControlStep, HandsStep, DataStep, LocksStep, ClosingStep, WakingStep,
   RoomStep DEF PlayerInv, Typed, TypeOK

\* So the inductive invariant always holds.
LEMMA PlayerInvariant == Spec => []PlayerInv
BY PlayerInvInit, PlayerInvStep, PTL DEF Spec

\* Every variable has its type, and decode is never called on nullptr.
THEOREM TypeCorrect == Spec => []TypeOK
<1>1. PlayerInv => TypeOK
  BY DEF PlayerInv, Typed
<1>2. QED
  BY PlayerInvariant, <1>1, PTL

\* The decoder that cOmxPlayer::close deletes without joining the run thread is not
\* in use by it, whatever the interleaving: the flush of the close has marked the
\* packet in the thread's hand, and the abort flag stops it from taking another.
THEOREM DecoderOutlivesDecode == Spec => []NoDecodeAfterDelete
<1>1. PlayerInv => NoDecodeAfterDelete
  BY DEF PlayerInv, Typed, TypeOK, ControlTypes, Closing, Closers, NoDecodeAfterDelete
<1>2. QED
  BY PlayerInvariant, <1>1, PTL

\* No packet is queued and no close begun while the run thread sleeps for good.
THEOREM WakeupsArrive == Spec => []NoLostWakeup
<1>1. PlayerInv => NoLostWakeup
  BY DEF PlayerInv, Waking
<1>2. QED
  BY PlayerInvariant, <1>1, PTL

\* The queue never outgrows mPacketMaxCacheSize.
THEOREM QueueFits == Spec => []CacheBounded
<1>1. PlayerInv => CacheBounded
  BY DEF PlayerInv, Room
<1>2. QED
  BY PlayerInvariant, <1>1, PTL

-------------------------------------------------------------------------------
(* What happens to the packets: the order they are decoded in, what a seek *)
(* does to those on their way, and that the player implements the pipe.    *)

\* The queue holds the last packets handed over, without a gap; the packet in the
\* run thread's hand comes before them and what was decoded before both.
Order ==
    /\ \A i \in 1 .. Len(mPackets) : mPackets[i] = next - Len(mPackets) + i - 1
    /\ packet # NoPacket => packet < next - Len(mPackets)
    /\ \A i \in 1 .. Len(fed) :
          /\ fed[i] < next - Len(mPackets)
          /\ packet # NoPacket => fed[i] < packet
    /\ FedInOrder

\* The packets decoded, in hand and queued stay in the order they were read.
LEMMA OrderStep == Typed /\ Order /\ [Next]_vars => Order'
<1> SUFFICES ASSUME Typed, Order, [Next]_vars PROVE Order'
  OBVIOUS
<1>0. UNCHANGED <<mPackets, packet, fed, next>> => Order'
  BY DEF Order, FedInOrder
<1>1. CASE AddPush
  BY <1>1 DEF AddPush, Push, Order, FedInOrder, Typed, TypeOK, DataTypes
<1>2. CASE FlushBody
  <2>1. mPackets' = << >> /\ UNCHANGED <<packet, fed, next>>
    BY <1>2 DEF FlushBody, ClearQueue
  <2>2. Len(mPackets) \in Nat /\ Len(mPackets') = 0
    BY <2>1 DEF Typed, TypeOK, DataTypes
  <2>3. packet # NoPacket => packet < next
    BY <2>2 DEF Order, Typed, TypeOK, DataTypes, Packet, NoPacket
  <2>4. \A i \in 1 .. Len(fed) : fed[i] < next
    <3> SUFFICES ASSUME NEW i \in 1 .. Len(fed) PROVE fed[i] < next
      OBVIOUS
    <3>1. fed[i] \in Packet
      BY DEF Typed, TypeOK, DataTypes
    <3>2. QED
      BY <2>2, <3>1, BoundsAssumption DEF Order, Typed, TypeOK, DataTypes, Packet
  <2>5. QED
    BY <2>1, <2>2, <2>3, <2>4 DEF Order, FedInOrder, Typed, TypeOK, DataTypes
<1>3. CASE RunTake
  <2>1. CASE packet = NoPacket /\ mPackets # << >>
    <3>1. /\ packet' = Head(mPackets) /\ mPackets' = Tail(mPackets)
          /\ UNCHANGED <<fed, next>>
      BY <1>3, <2>1 DEF RunTake
    <3>2. mPackets \in Seq(Packet) /\ next \in Nat /\ fed \in Seq(Packet)
      BY DEF Typed, TypeOK, DataTypes
    <3>3. /\ Len(mPackets) \in Nat /\ Len(mPackets) >= 1
          /\ Len(mPackets') = Len(mPackets) - 1
          /\ \A i \in 1 .. Len(mPackets') : mPackets'[i] = mPackets[i + 1]
          /\ packet' = mPackets[1]
      BY <2>1, <3>1, <3>2
    <3>4. packet' = next - Len(mPackets)
      BY <3>2, <3>3 DEF Order
    <3>5. next - Len(mPackets') = packet' + 1
      BY <3>2, <3>3, <3>4
    <3>6. \A i \in 1 .. Len(mPackets') : mPackets'[i] = next - Len(mPackets') + i - 1
      BY <3>2, <3>3 DEF Order
    <3>7. \A i \in 1 .. Len(fed) : fed[i] \in Packet /\ fed[i] < packet'
      BY <3>2, <3>4 DEF Order
    <3>8. packet' < next' - Len(mPackets')
      BY <3>1, <3>2, <3>3, <3>4, <3>5
    <3>9. \A i \in 1 .. Len(fed) : fed[i] < next' - Len(mPackets')
      BY <3>1, <3>2, <3>3, <3>4, <3>5, <3>7, BoundsAssumption DEF Packet
    <3>10. FedInOrder'
      BY <3>1 DEF Order, FedInOrder
    <3>11. QED
      BY <3>1, <3>6, <3>7, <3>8, <3>9, <3>10 DEF Order
  <2>2. CASE ~(packet = NoPacket /\ mPackets # << >>)
    BY <1>3, <2>2 DEF RunTake, DropInHand, Order, FedInOrder
  <2>3. QED
    BY <2>1, <2>2
<1>4. CASE RunDecide
  BY <1>4 DEF RunDecide, DropInHand, Order, FedInOrder
<1>5. CASE DecodeFed
  BY <1>5 DEF DecodeFed, Order, FedInOrder, Typed, HandsFull, TypeOK, DataTypes, Packet, NoPacket
<1>6. CASE DecodeGivesUp
  BY <1>6 DEF DecodeGivesUp, DropInHand, Order, FedInOrder
<1>7. CASE RunExit
  BY <1>7 DEF RunExit, Order, FedInOrder
<1>12. CASE AddCheck \/ CloseBegin \/ AddSignal \/ FlushRequest \/ FlushLock \/ Seek
            \/ FlushLockDecoder \/ ResetBegin \/ ResetBody \/ CloseBroadcast \/ CloseDelete
            \/ Destroy
  BY <1>0, <1>12 DEF AddCheck, CloseBegin, AddSignal, FlushRequest, FlushLock, Seek,
     FlushLockDecoder, ResetBegin, ResetBody, CloseBroadcast, CloseDelete, Destroy
<1>13. CASE RunLock \/ RunCheck \/ RunWait \/ RunSpuriousWakeup \/ RunAstray \/ RunRelock
            \/ RunTestAbort \/ RunLockDecoder \/ DecodeFails
  BY <1>0, <1>13 DEF RunLock, RunCheck, RunWait, RunSpuriousWakeup, RunAstray, RunRelock,
     RunTestAbort, RunLockDecoder, DecodeFails
<1>14. CASE UNCHANGED vars
  BY <1>0, <1>14 DEF vars
<1>15. QED
  BY <1>1, <1>2, <1>3, <1>4, <1>5, <1>6, <1>7, <1>12, <1>13, <1>14
     DEF Next, Main, MainContinues, Run, RunContinues, Terminated

-------------------------------------------------------------------------------
\* The places of the playback thread in a seek, from its first flush to its end.
InSeek == {"flushRequest", "flushLock", "flushLockDecoder", "flushBody",
           "resetBegin", "resetBody"}

\* What the run thread may still have from before a seek.  Audio: after the flush
\* such a packet can only be in hand, marked to be thrown away.  Video: the marks
\* that make the thread throw a packet away are gone before a new one is added.
Seeking ==
    /\ seekMark <= next
    /\ mainPc \in {"resetBegin", "resetBody"} \/ flushFor = "reset" => Kind = "video"
    /\ Kind = "audio" /\ ~SeekPending =>
          /\ \A i \in 1 .. Len(mPackets) : mPackets[i] >= seekMark
          /\ packet # NoPacket /\ packet < seekMark => mFlush /\ runPc # "decoding"
    /\ Kind = "video" /\ ~mAbort =>
          /\ mFlush \/ mFlushRequested => mainPc \in InSeek
          /\ mainPc \in InSeek => seekMark = next
    /\ runPc \in {"exit", "done"} => mAbort

\* After its flush a seek leaves at most one packet from before it, in hand.
LEMMA SeekingStep == PlayerInv /\ Seeking /\ [Next]_vars => Seeking'
<1> SUFFICES ASSUME PlayerInv, Seeking, [Next]_vars PROVE Seeking'
  OBVIOUS
<1>0. TypeOK /\ Locks /\ Closing
  BY DEF PlayerInv, Typed
<1> USE <1>0, KindAssumption, BoundsAssumption
    DEF TypeOK, FlagTypes, ControlTypes, DataTypes, MainPcs, RunPcs, Closing, Closers,
        InSeek, Seeking, SeekPending
<1>1. CASE AddPush
  BY <1>1 DEF AddPush, Push
<1>2. CASE FlushBody
  BY <1>2 DEF FlushBody, MarkFlushed, ClearQueue, AfterFlush, Locks
<1>3. CASE RunTake
  <2>1. CASE packet = NoPacket /\ mPackets # << >>
    <3>1. /\ packet' = Head(mPackets) /\ mPackets' = Tail(mPackets)
          /\ runPc' = "lockDecoder"
          /\ UNCHANGED <<flags, mainVars>>
      BY <1>3, <2>1 DEF RunTake
    <3>2. /\ packet' = mPackets[1] /\ 1 \in 1 .. Len(mPackets)
          /\ \A i \in 1 .. Len(mPackets') :
                i + 1 \in 1 .. Len(mPackets) /\ mPackets'[i] = mPackets[i + 1]
      BY <2>1, <3>1
    <3>3. packet' \in Packet
      BY <2>1, <3>1
    <3>4. QED
      BY <3>1, <3>2, <3>3 DEF Packet
  <2>2. CASE ~(packet = NoPacket /\ mPackets # << >>)
    BY <1>3, <2>2 DEF RunTake, DropInHand
  <2>3. QED
    BY <2>1, <2>2
<1>4. CASE RunDecide
  BY <1>4 DEF RunDecide, Decodes, DropInHand
<1>5. CASE DecodeFed
  BY <1>5 DEF DecodeFed
<1>6. CASE DecodeGivesUp
  BY <1>6 DEF DecodeGivesUp, DropInHand
<1>7. CASE RunExit
  BY <1>7 DEF RunExit
<1>8. CASE Seek
  BY <1>8 DEF Seek
<1>9. CASE CloseBegin
  BY <1>9 DEF CloseBegin
<1>10. CASE ResetBody
  BY <1>10 DEF ResetBody, ResetFlags
<1>11. CASE AddCheck \/ AddSignal \/ FlushRequest \/ FlushLock \/ FlushLockDecoder
            \/ ResetBegin \/ CloseBroadcast \/ CloseDelete \/ Destroy
  BY <1>11 DEF AddCheck, AddSignal, FlushRequest, Request, FlushLock, WakeRun,
     FlushLockDecoder, ResetBegin, CloseBroadcast, CloseDelete, Destroy
<1>12. CASE RunLock \/ RunCheck \/ RunWait \/ RunSpuriousWakeup \/ RunAstray \/ RunRelock
            \/ RunTestAbort \/ RunLockDecoder \/ DecodeFails
  BY <1>12 DEF RunLock, RunCheck, RunWait, RunSpuriousWakeup, RunAstray, RunRelock,
     RunTestAbort, RunLockDecoder, DecodeFails
<1>13. CASE UNCHANGED vars
  BY <1>13 DEF vars
<1>14. QED
  BY <1>1, <1>2, <1>3, <1>4, <1>5, <1>6, <1>7, <1>8, <1>9, <1>10, <1>11, <1>12, <1>13
     DEF Next, Main, MainContinues, Run, RunContinues, Terminated

-------------------------------------------------------------------------------
\* What the flags say about the places of the two threads.
FlagsMean ==
    /\ mFlushRequested <=> mainPc \in {"flushLock", "flushLockDecoder", "flushBody"}
    /\ runPc = "decoding" => ~mFlush
    /\ mainPc \in Closers => mPackets = << >>

\* The flush flags stand where the playback thread's program counter says.
LEMMA FlagsMeanStep == PlayerInv /\ FlagsMean /\ [Next]_vars => FlagsMean'
<1> SUFFICES ASSUME PlayerInv, FlagsMean, [Next]_vars PROVE FlagsMean'
  OBVIOUS
<1>0. TypeOK /\ Locks /\ Closing
  BY DEF PlayerInv, Typed
<1> USE <1>0, KindAssumption
    DEF TypeOK, FlagTypes, ControlTypes, MainPcs, RunPcs, Closing, Closers, Locks,
        FlagsMean
<1>1. CASE Main
  BY <1>1 DEF Main, AddCheck, Seek, CloseBegin, MainContinues, AddPush, AddSignal,
     WakeRun, FlushRequest, Request, FlushLock, FlushLockDecoder, FlushBody, AfterFlush,
     MarkFlushed, ClearQueue, ResetBegin, ResetBody, ResetFlags, CloseBroadcast,
     CloseDelete, Destroy
<1>2. CASE Run
  BY <1>2 DEF Run, RunContinues, RunLock, RunCheck, RunWait, RunSpuriousWakeup, RunAstray,
     RunRelock, RunTestAbort, RunTake, RunLockDecoder, RunDecide, Decodes, DropInHand,
     DecodeFed, DecodeGivesUp, DecodeFails, RunExit
<1>3. CASE UNCHANGED vars
  BY <1>3 DEF vars
<1>4. QED
  BY <1>1, <1>2, <1>3 DEF Next, Terminated

\* The inductive invariant of the packets' way through the player.
PacketInv == PlayerInv /\ Order /\ Seeking /\ FlagsMean

\* So the invariant about packets always holds.
LEMMA PacketInvariant == Spec => []PacketInv
<1>1. Init => PacketInv
  <2> SUFFICES ASSUME Init PROVE PacketInv
    OBVIOUS
  <2>1. PlayerInv
    BY PlayerInvInit
  <2>2. Order /\ FlagsMean
    BY DEF Init, Order, FedInOrder, FlagsMean, Closers
  <2>3. Seeking
    BY KindAssumption DEF Init, Seeking, InSeek
  <2>4. QED
    BY <2>1, <2>2, <2>3 DEF PacketInv
<1>2. PacketInv /\ [Next]_vars => PacketInv'
  BY PlayerInvStep, OrderStep, SeekingStep, FlagsMeanStep DEF PacketInv, PlayerInv
<1>3. QED
  BY <1>1, <1>2, PTL DEF Spec

-------------------------------------------------------------------------------
\* The decoder gets the packets in the order they were read and each once, through
\* any number of failed decodes, retries, flushes and seeks.
THEOREM DecodeOrder == Spec => []FedInOrder
<1>1. PacketInv => FedInOrder
  BY DEF PacketInv, Order
<1>2. QED
  BY PacketInvariant, <1>1, PTL

\* Only these steps decode a packet or throw one away.
LEMMA OnlyDecodeFeeds == [Next]_vars /\ fed' # fed => DecodeFed
BY DEF Next, Main, AddCheck, Seek, CloseBegin, MainContinues, AddPush, AddSignal,
   FlushRequest, FlushLock, FlushLockDecoder, FlushBody, ResetBegin, ResetBody,
   CloseBroadcast, CloseDelete, Destroy, Run, RunContinues, RunLock, RunCheck, RunWait,
   RunSpuriousWakeup, RunAstray, RunRelock, RunTestAbort, RunTake, RunLockDecoder, RunDecide,
   DecodeGivesUp, DecodeFails, RunExit, Terminated, vars

\* After the flush of an audio seek the decoder gets nothing read before the seek.
THEOREM AudioSeekIsClean == Spec => AudioNeverStale
<1>1. PacketInv /\ [Next]_vars =>
        (Kind = "audio" /\ fed' # fed /\ ~SeekPending => fed'[Len(fed')] >= seekMark)
  <2> SUFFICES ASSUME PacketInv, [Next]_vars, Kind = "audio", fed' # fed, ~SeekPending
               PROVE  fed'[Len(fed')] >= seekMark
    OBVIOUS
  <2>1. fed' = Append(fed, packet) /\ runPc = "decoding"
    BY OnlyDecodeFeeds DEF DecodeFed
  <2>2. /\ fed \in Seq(Packet) /\ packet \in Packet /\ seekMark \in Nat
        /\ packet # NoPacket
    BY <2>1 DEF PacketInv, PlayerInv, Typed, TypeOK, DataTypes, HandsFull, Packet, NoPacket
  <2>3. packet >= seekMark
    BY <2>1, <2>2, BoundsAssumption DEF PacketInv, Seeking, Packet
  <2>4. QED
    BY <2>1, <2>2, <2>3
<1>2. QED
  BY PacketInvariant, <1>1, PTL DEF Spec, AudioNeverStale

\* What is thrown away is the packet in the run thread's hand.
LEMMA OnlyInHandDropped ==
    [Next]_vars /\ dropped' # dropped =>
        /\ dropped' = dropped \cup {packet}
        /\ packet # NoPacket \/ DecodeGivesUp
        /\ mFlush \/ mFlushRequested \/ runPc = "exit"
BY DEF Next, Main, AddCheck, Seek, CloseBegin, MainContinues, AddPush, AddSignal,
   FlushRequest, FlushLock, FlushLockDecoder, FlushBody, ResetBegin, ResetBody,
   CloseBroadcast, CloseDelete, Destroy, Run, RunContinues, RunLock, RunCheck, RunWait,
   RunSpuriousWakeup, RunAstray, RunRelock, RunTestAbort, RunTake, RunLockDecoder, RunDecide,
   DecodeFed, DecodeGivesUp, SeesFlushRequested, DecodeFails, RunExit, DropInHand,
   Terminated, vars

\* While it is not being closed, a video player throws away only packets that were
\* read before the last seek.
THEOREM VideoSeekKeepsFresh == Spec => VideoNeverDropsFresh
<1>1. PacketInv /\ [Next]_vars =>
        (Kind = "video" /\ dropped' # dropped /\ ~mAbort =>
            \A p \in dropped' \ dropped : p < seekMark)
  <2> SUFFICES ASSUME PacketInv, [Next]_vars, Kind = "video", dropped' # dropped, ~mAbort
               PROVE  \A p \in dropped' \ dropped : p < seekMark
    OBVIOUS
  <2>1. dropped' \ dropped \subseteq {packet} /\ (mFlush \/ mFlushRequested)
    BY OnlyInHandDropped DEF PacketInv, Seeking
  <2>2. seekMark = next
    BY <2>1 DEF PacketInv, Seeking
  <2>3. packet # NoPacket
    BY OnlyInHandDropped
       DEF DecodeGivesUp, PacketInv, PlayerInv, Typed, HandsFull, Packet, NoPacket
  <2>4. packet < next - Len(mPackets) /\ Len(mPackets) \in Nat /\ next \in Nat
    BY <2>3 DEF PacketInv, Order, PlayerInv, Typed, TypeOK, DataTypes
  <2>5. packet < next
    BY <2>4 DEF PacketInv, PlayerInv, Typed, TypeOK, DataTypes, Packet, NoPacket
  <2>6. QED
    BY <2>1, <2>2, <2>5
<1>2. QED
  BY PacketInvariant, <1>1, PTL DEF Spec, VideoNeverDropsFresh

-------------------------------------------------------------------------------
\* A packet in hand is the head of what is on the way.
LEMMA HeadOnTheWay ==
    ASSUME NEW S, NEW p \in S, NEW q \in Seq(S)
    PROVE  LET w == <<p>> \o q
           IN  w # << >> /\ Head(w) = p /\ Tail(w) = q /\ Len(w) = Len(q) + 1
OBVIOUS

\* An accepted packet goes to the end of what is on the way.
LEMMA AppendOnTheWay ==
    ASSUME NEW S, NEW h \in Seq(S), NEW q \in Seq(S), NEW p \in S
    PROVE  h \o Append(q, p) = Append(h \o q, p)
OBVIOUS

\* Taking the head of the queue in hand leaves what is on the way as it is.
LEMMA TakeOnTheWay ==
    ASSUME NEW S, NEW q \in Seq(S), q # << >>
    PROVE  <<Head(q)>> \o Tail(q) = << >> \o q
OBVIOUS

\* What is on the way, packet in hand or not.
LEMMA OnTheWayCases ==
    ASSUME DataTypes
    PROVE  /\ packet = NoPacket => OnTheWay = mPackets
           /\ packet # NoPacket => /\ OnTheWay # << >> /\ Head(OnTheWay) = packet
                                   /\ Tail(OnTheWay) = mPackets
                                   /\ Len(OnTheWay) = Len(mPackets) + 1
<1>1. mPackets \in Seq(Packet) /\ packet \in Packet \cup {NoPacket}
  BY DEF DataTypes
<1>2. ASSUME packet = NoPacket PROVE OnTheWay = mPackets
  BY <1>1, <1>2 DEF OnTheWay
<1>3. ASSUME packet # NoPacket
      PROVE  /\ OnTheWay # << >> /\ Head(OnTheWay) = packet
             /\ Tail(OnTheWay) = mPackets /\ Len(OnTheWay) = Len(mPackets) + 1
  BY <1>1, <1>3, HeadOnTheWay DEF OnTheWay
<1>4. QED
  BY <1>2, <1>3

\* Every step of the two threads is a step of the pipe or leaves it alone.
LEMMA PipeStep == PacketInv /\ PacketInv' /\ [Next]_vars => [Pipe!Next]_(Pipe!vars)
<1> SUFFICES ASSUME PacketInv, PacketInv', [Next]_vars
             PROVE  Pipe!Next \/ UNCHANGED Pipe!vars
  OBVIOUS
<1> USE DEF Pipe!vars
<1>0. /\ TypeOK /\ Locks /\ Closing /\ HandsFull /\ Seeking /\ FlagsMean
      /\ DataTypes /\ DataTypes'
  BY DEF PacketInv, PlayerInv, Typed, TypeOK
<1>1. UNCHANGED <<packet, mPackets>> => UNCHANGED OnTheWay
  BY DEF OnTheWay
<1>2. UNCHANGED <<decoder, mAbort>> => UNCHANGED Phase
  BY DEF Phase
<1>3. CASE AddPush
  <2>1. /\ mPackets' = Append(mPackets, next) /\ next \in Packet
        /\ UNCHANGED <<packet, fed, mFlushRequested, mFlush, decoder, mAbort>>
    BY <1>0, <1>3 DEF AddPush, Push, HandsFull
  <2>2. OnTheWay' = Append(OnTheWay, next)
    <3>1. CASE packet = NoPacket
      BY <1>0, <2>1, <3>1, OnTheWayCases DEF OnTheWay, DataTypes
    <3>2. CASE packet # NoPacket
      <4>1. <<packet>> \in Seq(Packet) /\ mPackets \in Seq(Packet)
        BY <1>0, <3>2 DEF DataTypes
      <4>2. QED
        BY <2>1, <3>2, <4>1, AppendOnTheWay DEF OnTheWay
    <3>3. QED
      BY <3>1, <3>2
  <2>3. Phase = "open"
    BY <1>0, <1>3 DEF AddPush, Phase, Closing, TypeOK, ControlTypes
  <2>4. Pipe!Accept
    BY <1>2, <2>1, <2>2, <2>3 DEF Pipe!Accept
  <2>5. QED
    BY <2>4 DEF Pipe!Next
<1>4. CASE FlushRequest
  BY <1>0, <1>1, <1>2, <1>4
     DEF FlushRequest, Request, FlagsMean, Pipe!RequestFlush, Pipe!Next
<1>5. CASE FlushBody
  <2>1. /\ mFlushRequested /\ mFlushRequested' = FALSE /\ mFlush' = TRUE
        /\ mPackets' = << >>
        /\ UNCHANGED <<packet, fed, decoder, mAbort>>
    BY <1>0, <1>5 DEF FlushBody, ClearQueue, MarkFlushed, FlagsMean
  <2>2. Phase # "closed"
    BY <1>0, <1>5 DEF FlushBody, Phase, Closing, TypeOK, ControlTypes
  <2>3. OnTheWay' = << >> \/ (OnTheWay # << >> /\ OnTheWay' = <<Head(OnTheWay)>>)
    <3>1. CASE packet = NoPacket
      BY <2>1, <3>1 DEF OnTheWay
    <3>2. CASE packet # NoPacket
      <4>1. packet \in Packet
        BY <1>0, <3>2 DEF DataTypes
      <4>2. OnTheWay' = <<packet>> \o << >>
        BY <2>1, <3>2 DEF OnTheWay
      <4>3. <<packet>> \o << >> = <<packet>>
        BY <4>1
      <4>4. QED
        BY <1>0, <3>2, <4>2, <4>3, OnTheWayCases
    <3>3. QED
      BY <3>1, <3>2
  <2>4. Pipe!Flush
    BY <1>2, <2>1, <2>2, <2>3 DEF Pipe!Flush, Pipe!Emptied
  <2>5. QED
    BY <2>4 DEF Pipe!Next
<1>6. CASE ResetBody
  <2>1. /\ UNCHANGED <<packet, mPackets, fed, decoder, mFlushRequested, mAbort>>
        /\ mFlush' = FALSE /\ ~mAbort /\ decoder = "open"
    BY <1>0, <1>6
       DEF ResetBody, ResetFlags, FlagsMean, Closing, TypeOK, ControlTypes, FlagTypes
  <2>2. Phase = "open"
    BY <2>1 DEF Phase
  <2>3. CASE mFlush
    BY <1>1, <1>2, <2>1, <2>2, <2>3 DEF Pipe!RevokeGrant, Pipe!Next
  <2>4. CASE ~mFlush
    BY <1>0, <1>1, <1>2, <2>1, <2>4 DEF TypeOK, FlagTypes
  <2>5. QED
    BY <2>3, <2>4
<1>7. CASE CloseBegin
  <2>1. Phase = "open" /\ ~mFlushRequested /\ Phase' = "closing"
    BY <1>0, <1>7 DEF CloseBegin, Phase, Closing, FlagsMean, TypeOK, ControlTypes
  <2>2. QED
    BY <1>1, <1>7, <2>1 DEF CloseBegin, Pipe!RequestClose, Pipe!Next
<1>8. CASE CloseDelete
  <2>1. Phase = "closing" /\ ~mFlushRequested /\ Phase' = "closed"
    BY <1>0, <1>8
       DEF CloseDelete, Phase, Closing, Closers, FlagsMean, TypeOK, ControlTypes
  <2>2. UNCHANGED OnTheWay /\ (OnTheWay = << >> \/ OnTheWay = <<Head(OnTheWay)>>)
    <3>1. mPackets = << >>
      BY <1>0, <1>8 DEF CloseDelete, FlagsMean, Closers
    <3>2. packet # NoPacket => <<packet>> \o << >> = <<packet>> /\ Head(<<packet>>) = packet
      BY <1>0 DEF DataTypes
    <3>3. QED
      BY <1>1, <1>8, <3>1, <3>2 DEF CloseDelete, OnTheWay
  <2>3. Pipe!Emptied
    BY <2>2 DEF Pipe!Emptied
  <2>4. QED
    BY <1>8, <2>1, <2>2, <2>3 DEF CloseDelete, Pipe!Close, Pipe!Next
<1>9. ASSUME packet # NoPacket, DropInHand, mFlush' = FALSE, mFlush \/ mFlushRequested,
             UNCHANGED <<mPackets, fed, decoder, mFlushRequested, mAbort>>
      PROVE  Pipe!Next
  <2>1. OnTheWay # << >> /\ OnTheWay' = Tail(OnTheWay)
    BY <1>0, <1>9, OnTheWayCases DEF DropInHand, OnTheWay, DataTypes
  <2>2. QED
    BY <1>2, <1>9, <2>1 DEF Pipe!Discard, Pipe!Next
<1>10. CASE RunTake
  <2>1. CASE mFlush /\ packet # NoPacket
    BY <1>9, <1>10, <2>1 DEF RunTake
  <2>2. CASE packet = NoPacket /\ mPackets # << >>
    <3>1. /\ packet' = Head(mPackets) /\ mPackets' = Tail(mPackets)
          /\ UNCHANGED <<fed, decoder, flags>>
      BY <1>10, <2>2 DEF RunTake
    <3>2. packet' \in Packet
      BY <1>0, <2>2, <3>1 DEF DataTypes
    <3>3. UNCHANGED OnTheWay
      BY <1>0, <2>2, <3>1, <3>2, TakeOnTheWay DEF OnTheWay, DataTypes, Packet, NoPacket
    <3>4. QED
      BY <1>2, <3>1, <3>3
  <2>3. CASE IF packet = NoPacket THEN mPackets = << >> ELSE ~mFlush
    BY <1>1, <1>2, <1>10, <2>3 DEF RunTake
  <2>4. QED
    BY <1>10, <2>1, <2>2, <2>3 DEF RunTake
<1>11. CASE RunDecide
  <2>1. CASE packet # NoPacket /\ mFlush
    BY <1>9, <1>11, <2>1 DEF RunDecide, Decodes
  <2>2. CASE ~(packet # NoPacket /\ mFlush)
    BY <1>1, <1>2, <1>11, <2>2 DEF RunDecide, Decodes
  <2>3. QED
    BY <2>1, <2>2
<1>12. CASE DecodeFed
  <2>1. /\ packet # NoPacket /\ ~mFlush /\ mFlush' = FALSE
        /\ fed' = Append(fed, packet) /\ packet' = NoPacket
        /\ UNCHANGED <<mPackets, decoder, mFlushRequested, mAbort>>
    BY <1>0, <1>12 DEF DecodeFed, HandsFull, FlagsMean, Packet, NoPacket
  <2>2. OnTheWay # << >> /\ Head(OnTheWay) = packet /\ OnTheWay' = Tail(OnTheWay)
    BY <1>0, <2>1, OnTheWayCases DEF OnTheWay, DataTypes
  <2>3. Phase # "closed"
    BY <1>0, <1>12 DEF DecodeFed, Phase, Closing, Closers, TypeOK, ControlTypes
  <2>4. UNCHANGED mFlush
    BY <1>0, <2>1 DEF TypeOK, FlagTypes
  <2>5. Pipe!Deliver
    BY <1>2, <2>1, <2>2, <2>3, <2>4 DEF Pipe!Deliver
  <2>6. QED
    BY <2>5 DEF Pipe!Next
<1>13. CASE DecodeGivesUp
  <2>1. packet # NoPacket
    BY <1>0, <1>13 DEF DecodeGivesUp, HandsFull, Packet, NoPacket
  <2>2. /\ mFlushRequested /\ DropInHand /\ mFlush' = FALSE
        /\ UNCHANGED <<mPackets, fed, decoder, mFlushRequested, mAbort>>
    BY <1>13 DEF DecodeGivesUp, SeesFlushRequested
  <2>3. QED
    BY <1>9, <2>1, <2>2
<1>14. CASE RunExit
  <2>1. CASE packet = NoPacket
    BY <1>1, <1>2, <1>14, <2>1 DEF RunExit
  <2>2. CASE packet # NoPacket
    <3>1. OnTheWay # << >> /\ OnTheWay' = Tail(OnTheWay)
      BY <1>0, <1>14, <2>2, OnTheWayCases DEF RunExit, OnTheWay, DataTypes
    <3>2. Phase # "open"
      BY <1>0, <1>14 DEF RunExit, Phase, Seeking
    <3>3. QED
      BY <1>2, <1>14, <3>1, <3>2 DEF RunExit, Pipe!Abandon, Pipe!Next
  <2>3. QED
    BY <2>1, <2>2
<1>15. CASE AddCheck \/ Seek \/ AddSignal \/ FlushLock \/ FlushLockDecoder
            \/ ResetBegin \/ CloseBroadcast \/ Destroy
  BY <1>1, <1>2, <1>15 DEF AddCheck, Seek, AddSignal, FlushLock, FlushLockDecoder,
     ResetBegin, CloseBroadcast, Destroy
<1>16. CASE RunLock \/ RunCheck \/ RunWait \/ RunSpuriousWakeup \/ RunAstray \/ RunRelock
            \/ RunTestAbort \/ RunLockDecoder \/ DecodeFails
  BY <1>1, <1>2, <1>16 DEF RunLock, RunCheck, RunWait, RunSpuriousWakeup, RunAstray, RunRelock,
     RunTestAbort, RunLockDecoder, DecodeFails
<1>17. CASE UNCHANGED vars
  BY <1>1, <1>2, <1>17 DEF vars
<1>18. QED
  BY <1>3, <1>4, <1>5, <1>6, <1>7, <1>8, <1>10, <1>11, <1>12, <1>13, <1>14, <1>15,
     <1>16, <1>17 DEF Next, Main, MainContinues, Run, RunContinues, Terminated

\* The player implements the packet pipe: every packet accepted is decoded in its
\* turn and at most once, and none is thrown away but for a flush or a close.
THEOREM PlayerIsPipe == Spec => ImplementsPipe
<1>1. Init => Pipe!Init
  BY DEF Init, Pipe!Init, OnTheWay, Phase
<1>2. QED
  BY PacketInvariant, PipeStep, <1>1, PTL DEF Spec, ImplementsPipe, Pipe!Spec

-------------------------------------------------------------------------------
(* The size of a queue is a fold.  What it is for a longer and a shorter   *)
(* queue is proved by induction over finite sets, in the form that a set   *)
(* of counterexamples would have a smallest member.                        *)
\* The element a fold takes next.
Any(s) == CHOOSE x \in s : TRUE

LEMMA AnyIsIn == ASSUME NEW S, S # {} PROVE Any(S) \in S
BY DEF Any

\* Among sets of subsets of a finite set there is a smallest.
LEMMA SmallestSet ==
  ASSUME NEW S, IsFiniteSet(S), NEW Bad, Bad \subseteq SUBSET S, Bad # {}
  PROVE  \E T \in Bad : \A U \in SUBSET T : U # T => U \notin Bad
<1> DEFINE R == StrictSubsetOrdering(S)
<1>1. IsWellFoundedOn(R, SUBSET S)
  BY FS_StrictSubsetOrderingWellFounded, FS_FiniteSubsetsOfFinite
<1>2. \E T \in Bad : \A U \in Bad : ~ (<<U, T>> \in R)
  <2> HIDE DEF R
  <2> QED
    BY <1>1, WFMin
<1>3. PICK T \in Bad : \A U \in Bad : ~ (<<U, T>> \in R)
  BY <1>2
<1>4. \A U \in SUBSET T : U # T => U \notin Bad
  BY <1>3 DEF StrictSubsetOrdering
<1>5. QED
  BY <1>4

\* g adds up the values of f over every subset of S.
Summing(g, f, S) ==
  g = [s \in SUBSET S |-> IF s = {} THEN 0 ELSE f[Any(s)] + g[s \ {Any(s)}]]

\* Nothing adds up to 0, and a set to one of its members and the rest.
LEMMA SummingNothing ==
  ASSUME NEW S, NEW f, NEW g, Summing(g, f, S)
  PROVE  g[{}] = 0
BY DEF Summing

LEMMA SummingStep ==
  ASSUME NEW S, NEW f, NEW g, Summing(g, f, S), NEW s \in SUBSET S, s # {}
  PROVE  g[s] = f[Any(s)] + g[s \ {Any(s)}]
<1>1. \A u \in SUBSET S : g[u] = IF u = {} THEN 0 ELSE f[Any(u)] + g[u \ {Any(u)}]
  BY DEF Summing
<1>2. QED
  BY <1>1

\* There is one way to add up.
LEMMA SummingAgrees ==
  ASSUME NEW S, IsFiniteSet(S), NEW f, NEW T \in SUBSET S, NEW g, NEW h,
         Summing(g, f, S), Summing(h, f, T)
  PROVE  \A s \in SUBSET T : g[s] = h[s]
<1> DEFINE Bad == {s \in SUBSET T : g[s] # h[s]}
<1>1. SUFFICES ASSUME Bad # {} PROVE FALSE
  OBVIOUS
<1>2. IsFiniteSet(T)
  BY FS_Subset
<1>3. PICK s \in Bad : \A U \in SUBSET s : U # s => U \notin Bad
  <2>1. Bad \subseteq SUBSET T
    OBVIOUS
  <2> HIDE DEF Bad
  <2> QED
    BY <1>1, <1>2, <2>1, SmallestSet
<1>4. s # {}
  <2>1. g[{}] = 0 /\ h[{}] = 0
    BY SummingNothing
  <2>2. QED
    BY <1>3, <2>1
<1>5. /\ Any(s) \in s /\ s \ {Any(s)} \in SUBSET T /\ s \ {Any(s)} # s
  BY <1>4, AnyIsIn
<1>6. g[s \ {Any(s)}] = h[s \ {Any(s)}]
  BY <1>3, <1>5
<1>7. g[s] = f[Any(s)] + g[s \ {Any(s)}]
  <2>1. s \in SUBSET S
    OBVIOUS
  <2> HIDE DEF Bad
  <2>2. QED
    BY <1>4, <2>1, SummingStep
<1>8. h[s] = f[Any(s)] + h[s \ {Any(s)}]
  <2>1. s \in SUBSET T
    OBVIOUS
  <2> HIDE DEF Bad
  <2>2. QED
    BY <1>4, <2>1, SummingStep
<1>9. QED
  BY <1>3, <1>6, <1>7, <1>8

\* A finite set can be added up.
LEMMA SummingExists ==
  ASSUME NEW S, IsFiniteSet(S), NEW f
  PROVE  \E g : Summing(g, f, S)
<1> DEFINE Bad == {T \in SUBSET S : ~ \E g : Summing(g, f, T)}
<1>1. SUFFICES ASSUME Bad # {} PROVE FALSE
  <2>1. S \in SUBSET S
    OBVIOUS
  <2>2. QED
    BY <2>1
<1>2. PICK T \in Bad : \A U \in SUBSET T : U # T => U \notin Bad
  <2>1. Bad \subseteq SUBSET S
    OBVIOUS
  <2> HIDE DEF Bad
  <2> QED
    BY <1>1, <2>1, SmallestSet
<1>3. T \in SUBSET S /\ IsFiniteSet(T)
  BY <1>2, FS_Subset
<1> DEFINE W(u) == CHOOSE g : Summing(g, f, u)
           V(u) == W(u)[u]
           G == [u \in SUBSET T |-> IF u = {} THEN 0 ELSE f[Any(u)] + V(u \ {Any(u)})]
<1>4. \A u \in SUBSET T : u # T => Summing(W(u), f, u)
  <2> SUFFICES ASSUME NEW u \in SUBSET T, u # T PROVE Summing(W(u), f, u)
    OBVIOUS
  <2>1. u \in SUBSET S /\ u \notin Bad
    BY <1>2, <1>3
  <2>2. \E g : Summing(g, f, u)
    BY <2>1
  <2> QED
    BY <2>2
<1> HIDE DEF W
<1>5. \A u \in SUBSET T : u # T => G[u] = V(u)
  <2> SUFFICES ASSUME NEW u \in SUBSET T, u # T PROVE G[u] = V(u)
    OBVIOUS
  <2>1. Summing(W(u), f, u)
    BY <1>4
  <2>2. CASE u = {}
    <3>1. W(u)[{}] = 0
      BY <2>1, SummingNothing
    <3>2. QED
      BY <2>2, <3>1
  <2>3. CASE u # {}
    <3> DEFINE v == u \ {Any(u)}
    <3>1. Any(u) \in u /\ v \in SUBSET u /\ v \in SUBSET T /\ v # T
      BY <2>3, AnyIsIn
    <3>2. Summing(W(v), f, v)
      BY <1>4, <3>1
    <3>3. IsFiniteSet(u)
      BY <1>3, FS_Subset
    <3>4. \A s \in SUBSET v : W(u)[s] = W(v)[s]
      <4> HIDE DEF v
      <4> QED
        BY <2>1, <3>1, <3>2, <3>3, SummingAgrees
    <3>5. W(u)[v] = V(v)
      BY <3>4
    <3>6. W(u)[u] = f[Any(u)] + W(u)[v]
      <4>1. u \in SUBSET u
        OBVIOUS
      <4> HIDE DEF v
      <4>2. W(u)[u] = f[Any(u)] + W(u)[u \ {Any(u)}]
        BY <2>1, <2>3, <4>1, SummingStep
      <4>3. QED
        BY <4>2 DEF v
    <3>7. G[u] = f[Any(u)] + V(v)
      BY <2>3
    <3>8. QED
      BY <3>5, <3>6, <3>7
  <2>4. QED
    BY <2>2, <2>3
<1>6. \A u \in SUBSET T : u # {} => G[u \ {Any(u)}] = V(u \ {Any(u)})
  <2> SUFFICES ASSUME NEW u \in SUBSET T, u # {} PROVE G[u \ {Any(u)}] = V(u \ {Any(u)})
    OBVIOUS
  <2>1. Any(u) \in u /\ u \ {Any(u)} \in SUBSET T /\ u \ {Any(u)} # T
    BY AnyIsIn
  <2> HIDE DEF G, V
  <2>2. QED
    BY <1>5, <2>1
<1>7. G = [u \in SUBSET T |-> IF u = {} THEN 0 ELSE f[Any(u)] + G[u \ {Any(u)}]]
  <2>1. \A u \in SUBSET T : G[u] = IF u = {} THEN 0 ELSE f[Any(u)] + G[u \ {Any(u)}]
    <3> TAKE u \in SUBSET T
    <3>1. G[u] = IF u = {} THEN 0 ELSE f[Any(u)] + V(u \ {Any(u)})
      OBVIOUS
    <3> HIDE DEF G, V
    <3>2. QED
      BY <1>6, <3>1
  <2>2. G = [u \in SUBSET T |-> G[u]]
    OBVIOUS
  <2> HIDE DEF G
  <2>3. QED
    BY <2>1, <2>2
<1>8. Summing(G, f, T)
  <2> HIDE DEF G
  <2> QED
    BY <1>7 DEF Summing
<1>9. QED
  BY <1>2, <1>8

\* The sum of f over a finite set.
Total(f, S) == (CHOOSE g : Summing(g, f, S))[S]

\* It is that of one member and of the rest.
LEMMA TotalIs ==
  ASSUME NEW S, IsFiniteSet(S), NEW f
  PROVE  Total(f, S) = IF S = {} THEN 0 ELSE f[Any(S)] + Total(f, S \ {Any(S)})
<1> DEFINE g == CHOOSE g : Summing(g, f, S)
<1>1. Summing(g, f, S)
  BY SummingExists
<1>2. CASE S = {}
  <2>1. g[{}] = 0
    <3> HIDE DEF g
    <3> QED
      BY <1>1, SummingNothing
  <2>2. QED
    BY <1>2, <2>1 DEF Total
<1>3. CASE S # {}
  <2> DEFINE T == S \ {Any(S)}
             h == CHOOSE h : Summing(h, f, T)
  <2>1. T \in SUBSET S /\ IsFiniteSet(T)
    BY FS_Subset
  <2>2. Summing(h, f, T)
    BY <2>1, SummingExists
  <2>3. g[T] = h[T]
    <3> HIDE DEF g, h
    <3>1. \A s \in SUBSET T : g[s] = h[s]
      <4> HIDE DEF T
      <4> QED
        BY <1>1, <2>1, <2>2, SummingAgrees
    <3>2. QED
      BY <3>1
  <2>4. g[S] = f[Any(S)] + g[T]
    <3> HIDE DEF g
    <3>1. S \in SUBSET S
      OBVIOUS
    <3> HIDE DEF T
    <3>2. g[S] = f[Any(S)] + g[S \ {Any(S)}]
      BY <1>1, <1>3, <3>1, SummingStep
    <3>3. QED
      BY <3>2 DEF T
  <2>5. QED
    BY <1>3, <2>3, <2>4 DEF Total
<1>4. QED
  BY <1>2, <1>3

\* A sum of integers is an integer.
LEMMA TotalType ==
  ASSUME NEW S, IsFiniteSet(S), NEW f, \A x \in S : f[x] \in Int
  PROVE  \A T \in SUBSET S : Total(f, T) \in Int
<1> DEFINE Bad == {T \in SUBSET S : Total(f, T) \notin Int}
<1>1. SUFFICES ASSUME Bad # {} PROVE FALSE
  OBVIOUS
<1>2. PICK T \in Bad : \A U \in SUBSET T : U # T => U \notin Bad
  <2>1. Bad \subseteq SUBSET S
    OBVIOUS
  <2> HIDE DEF Bad
  <2> QED
    BY <1>1, <2>1, SmallestSet
<1>3. T \in SUBSET S /\ IsFiniteSet(T)
  BY <1>2, FS_Subset
<1>4. Total(f, T) = IF T = {} THEN 0 ELSE f[Any(T)] + Total(f, T \ {Any(T)})
  BY <1>3, TotalIs
<1>5. CASE T = {}
  BY <1>2, <1>4, <1>5
<1>6. CASE T # {}
  <2>1. Any(T) \in T /\ T \ {Any(T)} # T
    BY <1>6, AnyIsIn
  <2>2. Total(f, T \ {Any(T)}) \in Int
    BY <1>2, <2>1
  <2>3. QED
    BY <1>2, <1>4, <1>6, <2>1, <2>2
<1>7. QED
  BY <1>5, <1>6

\* Any member of a set can be counted first.
LEMMA TotalRemove ==
  ASSUME NEW S, IsFiniteSet(S), NEW f, \A x \in S : f[x] \in Int
  PROVE  \A T \in SUBSET S : \A x \in T : Total(f, T) = f[x] + Total(f, T \ {x})
<1> DEFINE Bad == {T \in SUBSET S : \E x \in T : Total(f, T) # f[x] + Total(f, T \ {x})}
<1>1. SUFFICES ASSUME Bad # {} PROVE FALSE
  OBVIOUS
<1>2. PICK T \in Bad : \A U \in SUBSET T : U # T => U \notin Bad
  <2>1. Bad \subseteq SUBSET S
    OBVIOUS
  <2> HIDE DEF Bad
  <2> QED
    BY <1>1, <2>1, SmallestSet
<1>3. T \in SUBSET S /\ IsFiniteSet(T)
  BY <1>2, FS_Subset
<1>4. PICK x \in T : Total(f, T) # f[x] + Total(f, T \ {x})
  BY <1>2
<1> DEFINE a == Any(T)
           A == T \ {a}
           X == T \ {x}
           B == T \ {a, x}
<1>5. a \in T /\ T # {}
  BY <1>4, AnyIsIn
<1> HIDE DEF a
<1>6. Total(f, T) = f[a] + Total(f, A)
  <2>1. Total(f, T) = IF T = {} THEN 0 ELSE f[Any(T)] + Total(f, T \ {Any(T)})
    BY <1>3, TotalIs
  <2>2. QED
    BY <1>5, <2>1 DEF a
<1>7. a # x
  BY <1>4, <1>6
<1>8. /\ A \in SUBSET T /\ A # T /\ x \in A /\ A \ {x} = B
      /\ X \in SUBSET T /\ X # T /\ a \in X /\ X \ {a} = B
  BY <1>4, <1>5, <1>7
<1>9. Total(f, A) = f[x] + Total(f, B)
  <2>1. A \notin Bad /\ A \in SUBSET S
    BY <1>2, <1>3, <1>8
  <2>2. QED
    BY <1>8, <2>1
<1>10. Total(f, X) = f[a] + Total(f, B)
  <2>1. X \notin Bad /\ X \in SUBSET S
    BY <1>2, <1>3, <1>8
  <2>2. QED
    BY <1>8, <2>1
<1>11. f[a] \in Int /\ f[x] \in Int
  BY <1>3, <1>4, <1>5
<1>12. Total(f, B) \in Int
  <2>1. B \in SUBSET S
    BY <1>3
  <2> HIDE DEF B
  <2>2. QED
    BY <2>1, TotalType
<1> HIDE DEF Bad, A, B
<1>13. Total(f, T) = f[x] + Total(f, X)
  BY <1>6, <1>9, <1>10, <1>11, <1>12
<1>14. QED
  BY <1>4, <1>13

\* The numbers of T, moved by k.
Moved(T, k) == {x + k : x \in T}
\* What h has at the numbers of S, f has k further on.
Follows(f, h, S, k) ==
    S \subseteq Int /\ k \in Int /\ \A x \in S : h[x] \in Int /\ f[x + k] = h[x]

\* Sums of the same numbers, in the same places or in others, are the same.
LEMMA TotalMoves ==
  ASSUME NEW S, IsFiniteSet(S), NEW k, NEW f, NEW h, Follows(f, h, S, k)
  PROVE  Total(f, Moved(S, k)) = Total(h, S)
<1> DEFINE Up(T) == Moved(T, k)
           Bad == {T \in SUBSET S : Total(f, Up(T)) # Total(h, T)}
<1> USE DEF Follows
<1>1. SUFFICES ASSUME Bad # {} PROVE FALSE
  <2>1. S \in SUBSET S
    OBVIOUS
  <2>2. QED
    BY <2>1
<1>2. PICK T \in Bad : \A U \in SUBSET T : U # T => U \notin Bad
  <2>1. Bad \subseteq SUBSET S
    OBVIOUS
  <2> HIDE DEF Bad
  <2> QED
    BY <1>1, <2>1, SmallestSet
<1>3. T \in SUBSET S /\ IsFiniteSet(T)
  BY <1>2, FS_Subset
<1>4. IsFiniteSet(Up(T))
  <2> DEFINE up == [x \in T |-> x + k]
  <2>1. up \in [T -> Up(T)]
    BY DEF Moved
  <2>2. \A x, y \in T : up[x] = up[y] => x = y
    BY <1>3
  <2>3. \A z \in Up(T) : \E x \in T : up[x] = z
    BY DEF Moved
  <2>4. up \in Bijection(T, Up(T))
    BY <2>1, <2>2, <2>3 DEF Bijection, Injection, IsInjective, Surjection
  <2>5. ExistsBijection(T, Up(T))
    BY <2>4 DEF ExistsBijection
  <2> HIDE DEF Up
  <2>6. QED
    BY <1>3, <2>5, FS_Bijection
<1>5. Total(h, T) = IF T = {} THEN 0 ELSE h[Any(T)] + Total(h, T \ {Any(T)})
  BY <1>3, TotalIs
<1>6. CASE T = {}
  <2>1. Up(T) = {}
    BY <1>6 DEF Moved
  <2>2. Total(f, {}) = 0
    BY FS_EmptySet, TotalIs
  <2>3. QED
    BY <1>2, <1>5, <1>6, <2>1, <2>2
<1>7. CASE T # {}
  <2> DEFINE a == Any(T)
  <2>1. a \in T /\ a \in S /\ a \in Int
    BY <1>3, <1>7, AnyIsIn
  <2> HIDE DEF a
  <2>2. T \ {a} \in SUBSET T /\ T \ {a} # T /\ T \ {a} \in SUBSET S
    BY <1>3, <2>1
  <2>3. Total(f, Up(T \ {a})) = Total(h, T \ {a})
    BY <1>2, <2>2
  <2>4. Up(T) \ {a + k} = Up(T \ {a}) /\ a + k \in Up(T)
    BY <1>3, <2>1 DEF Moved
  <2>5. Total(f, Up(T)) = f[a + k] + Total(f, Up(T) \ {a + k})
    <3>1. \A x \in Up(T) : f[x] \in Int
      BY <1>3 DEF Moved
    <3>2. Up(T) \in SUBSET Up(T)
      OBVIOUS
    <3> HIDE DEF Up
    <3>3. QED
      BY <1>4, <2>4, <3>1, <3>2, TotalRemove
  <2>6. f[a + k] = h[a]
    BY <2>1
  <2>7. Total(h, T) = h[a] + Total(h, T \ {a})
    BY <1>5, <1>7 DEF a
  <2>8. QED
    BY <1>2, <2>3, <2>4, <2>5, <2>6, <2>7
<1>8. QED
  BY <1>6, <1>7

-------------------------------------------------------------------------------
\* The size of a queue, as the sum of the sizes of its packets.
Sizes(q) == [i \in 1 .. Len(q) |-> Size[q[i]]]

LEMMA SizeIsTotal ==
  ASSUME NEW q \in Seq(Packet)
  PROVE  SizeOf(q) = Total(Sizes(q), 1 .. Len(q))
<1> DEFINE Sums(g) == g = [s \in SUBSET DOMAIN q |->
                            IF s = {} THEN 0 ELSE Size[q[Any(s)]] + g[s \ {Any(s)}]]
<1>1. SizeOf(q) = (CHOOSE g : Sums(g))[DOMAIN q]
  BY DEF SizeOf, FoldFunction, FoldFunctionOnSet, MapThenFoldSet, Any
<1>2. DOMAIN q = 1 .. Len(q)
  OBVIOUS
<1>3. ASSUME NEW g PROVE Sums(g) <=> Summing(g, Sizes(q), 1 .. Len(q))
  <2>1. \A s \in SUBSET (1 .. Len(q)) : s # {} => Sizes(q)[Any(s)] = Size[q[Any(s)]]
    <3> TAKE s \in SUBSET (1 .. Len(q))
    <3>1. s # {} => Any(s) \in s
      BY AnyIsIn
    <3>2. QED
      BY <3>1 DEF Sizes
  <2> DEFINE F == [s \in SUBSET (1 .. Len(q)) |->
                     IF s = {} THEN 0 ELSE Size[q[Any(s)]] + g[s \ {Any(s)}]]
             H == [s \in SUBSET (1 .. Len(q)) |->
                     IF s = {} THEN 0 ELSE Sizes(q)[Any(s)] + g[s \ {Any(s)}]]
  <2>2. F = H
    BY <2>1
  <2>3. Sums(g) <=> g = F
    BY <1>2
  <2>4. Summing(g, Sizes(q), 1 .. Len(q)) <=> g = H
    BY DEF Summing
  <2> HIDE DEF F, H, Sums
  <2>5. QED
    BY <2>2, <2>3, <2>4
<1>4. (CHOOSE g : Sums(g)) = (CHOOSE g : Summing(g, Sizes(q), 1 .. Len(q)))
  <2> HIDE DEF Sums
  <2>1. \A g : Sums(g) <=> Summing(g, Sizes(q), 1 .. Len(q))
    BY <1>3
  <2>2. QED
    BY <2>1
<1>5. QED
  BY <1>1, <1>2, <1>4 DEF Total

\* Its terms are integers.
LEMMA SizesAre ==
  ASSUME NEW q \in Seq(Packet)
  PROVE  /\ \A i \in 1 .. Len(q) : Sizes(q)[i] = Size[q[i]] /\ Sizes(q)[i] \in Int
         /\ IsFiniteSet(1 .. Len(q))
<1>1. \A i \in 1 .. Len(q) : q[i] \in Packet
  OBVIOUS
<1>2. QED
  BY <1>1, SizeAssumption, FS_Interval DEF Sizes

\* An empty queue has size 0; a packet put at its end adds its size; the packet taken
\* from its front takes its size with it.
LEMMA SizeOfNothing == SizeOf(<< >>) = 0
<1>1. << >> \in Seq(Packet) /\ 1 .. Len(<< >>) = {}
  OBVIOUS
<1>2. Total(Sizes(<< >>), {}) = 0
  BY FS_EmptySet, TotalIs
<1>3. SizeOf(<< >>) = Total(Sizes(<< >>), 1 .. Len(<< >>))
  BY <1>1, SizeIsTotal
<1>4. QED
  BY <1>1, <1>2, <1>3

LEMMA SizeOfAppend ==
  ASSUME NEW q \in Seq(Packet), NEW n \in Packet
  PROVE  SizeOf(Append(q, n)) = SizeOf(q) + Size[n]
<1> DEFINE r == Append(q, n)
           m == Len(q)
<1>1. r \in Seq(Packet) /\ m \in Nat /\ Len(r) = m + 1 /\ r[m + 1] = n
      /\ \A i \in 1 .. m : r[i] = q[i]
  OBVIOUS
<1> HIDE DEF r
<1>2. 1 .. m + 1 \in SUBSET (1 .. m + 1) /\ m + 1 \in 1 .. m + 1 /\ (1 .. m + 1) \ {m + 1} = 1 .. m
  BY <1>1
<1>3. Total(Sizes(r), 1 .. m + 1) = Sizes(r)[m + 1] + Total(Sizes(r), 1 .. m)
  <2>1. IsFiniteSet(1 .. m + 1) /\ \A i \in 1 .. m + 1 : Sizes(r)[i] \in Int
    BY <1>1, SizesAre
  <2>2. Total(Sizes(r), 1 .. m + 1) = Sizes(r)[m + 1] + Total(Sizes(r), (1 .. m + 1) \ {m + 1})
    BY <1>2, <2>1, TotalRemove
  <2>3. QED
    BY <1>2, <2>2
<1>4. Total(Sizes(r), 1 .. m) = Total(Sizes(q), 1 .. m)
  <2> DEFINE k == 0
  <2>1. \A i \in 1 .. m : Sizes(q)[i] \in Int /\ Sizes(r)[i + k] = Sizes(q)[i]
    <3> TAKE i \in 1 .. m
    <3>1. Sizes(q)[i] = Size[q[i]] /\ Sizes(q)[i] \in Int
      BY SizesAre
    <3>2. i \in 1 .. Len(r) /\ i + 0 = i
      BY <1>1
    <3>3. Sizes(r)[i] = Size[r[i]]
      BY <1>1, <3>2, SizesAre
    <3>4. QED
      BY <1>1, <3>1, <3>2, <3>3
  <2> DEFINE I == 1 .. m
  <2>2. IsFiniteSet(I) /\ I \subseteq Int /\ k \in Int
    BY <1>1, FS_Interval
  <2>3. Moved(I, k) = I
    BY <1>1 DEF Moved
  <2>4. \A i \in I : Sizes(q)[i] \in Int /\ Sizes(r)[i + k] = Sizes(q)[i]
    BY <2>1
  <2> HIDE DEF I, k
  <2>5. Total(Sizes(r), Moved(I, k)) = Total(Sizes(q), I)
    <3>1. Follows(Sizes(r), Sizes(q), I, k)
      BY <2>2, <2>4 DEF Follows
    <3>2. IsFiniteSet(I)
      BY <2>2
    <3>3. QED
      BY <3>1, <3>2, TotalMoves
  <2>6. QED
    BY <2>3, <2>5 DEF I
<1>5. Sizes(r)[m + 1] = Size[n]
  BY <1>1, SizesAre DEF Sizes
<1>6. SizeOf(r) = Total(Sizes(r), 1 .. m + 1) /\ SizeOf(q) = Total(Sizes(q), 1 .. m)
  BY <1>1, SizeIsTotal
<1>7. Total(Sizes(q), 1 .. m) \in Int
  <2>1. IsFiniteSet(1 .. m) /\ (\A i \in 1 .. m : Sizes(q)[i] \in Int) /\ 1 .. m \in SUBSET (1 .. m)
    BY SizesAre
  <2> HIDE DEF m
  <2>2. QED
    BY <2>1, TotalType
<1>8. Size[n] \in Int
  BY SizeAssumption
<1>9. QED
  BY <1>3, <1>4, <1>5, <1>6, <1>7, <1>8 DEF r

LEMMA SizeOfTail ==
  ASSUME NEW q \in Seq(Packet), q # << >>
  PROVE  SizeOf(Tail(q)) = SizeOf(q) - Size[Head(q)]
<1> DEFINE r == Tail(q)
           m == Len(q) - 1
<1>1. r \in Seq(Packet) /\ m \in Nat /\ Len(r) = m /\ Len(q) = m + 1 /\ Head(q) = q[1]
      /\ (\A i \in 1 .. m : r[i] = q[i + 1]) /\ q[1] \in Packet
  OBVIOUS
<1> HIDE DEF r, m
<1>2. 1 .. m + 1 \in SUBSET (1 .. m + 1) /\ 1 \in 1 .. m + 1
      /\ (1 .. m + 1) \ {1} = {i + 1 : i \in 1 .. m}
  <2>1. \A j \in (1 .. m + 1) \ {1} : j - 1 \in 1 .. m /\ j = (j - 1) + 1
    BY <1>1
  <2>2. (1 .. m + 1) \ {1} \subseteq {i + 1 : i \in 1 .. m}
    BY <2>1
  <2>3. {i + 1 : i \in 1 .. m} \subseteq (1 .. m + 1) \ {1}
    BY <1>1
  <2>4. 1 .. m + 1 \in SUBSET (1 .. m + 1) /\ 1 \in 1 .. m + 1
    BY <1>1
  <2>5. QED
    BY <2>2, <2>3, <2>4
<1>3. Total(Sizes(q), 1 .. m + 1) = Sizes(q)[1] + Total(Sizes(q), {i + 1 : i \in 1 .. m})
  <2> DEFINE I == 1 .. m + 1
  <2>1. IsFiniteSet(I) /\ I \in SUBSET I /\ \A i \in I : Sizes(q)[i] \in Int
    BY <1>1, SizesAre
  <2>2. 1 \in I
    BY <1>1
  <2> HIDE DEF I
  <2>3. Total(Sizes(q), I) = Sizes(q)[1] + Total(Sizes(q), I \ {1})
    BY <2>1, <2>2, TotalRemove
  <2>4. QED
    BY <1>2, <2>3 DEF I
<1>4. Total(Sizes(q), {i + 1 : i \in 1 .. m}) = Total(Sizes(r), 1 .. m)
  <2> DEFINE I == 1 .. m
             k == 1
  <2>1. \A i \in I : Sizes(r)[i] \in Int /\ Sizes(q)[i + k] = Sizes(r)[i]
    <3> TAKE i \in I
    <3>1. Sizes(r)[i] = Size[r[i]] /\ Sizes(r)[i] \in Int
      BY <1>1, SizesAre
    <3>2. i + 1 \in 1 .. Len(q)
      BY <1>1
    <3>3. Sizes(q)[i + 1] = Size[q[i + 1]]
      BY <3>2, SizesAre
    <3>4. QED
      BY <1>1, <3>1, <3>3
  <2>2. IsFiniteSet(I) /\ I \subseteq Int /\ k \in Int
    BY <1>1, FS_Interval
  <2> HIDE DEF I, k
  <2>3. Total(Sizes(q), Moved(I, k)) = Total(Sizes(r), I)
    <3>1. Follows(Sizes(q), Sizes(r), I, k)
      BY <2>1, <2>2 DEF Follows
    <3>2. IsFiniteSet(I)
      BY <2>2
    <3>3. QED
      BY <3>1, <3>2, TotalMoves
  <2>4. QED
    BY <2>3 DEF I, k, Moved
<1>5. Sizes(q)[1] = Size[Head(q)]
  BY <1>1, <1>2, SizesAre
<1>6. SizeOf(q) = Total(Sizes(q), 1 .. m + 1) /\ SizeOf(r) = Total(Sizes(r), 1 .. m)
  BY <1>1, SizeIsTotal
<1>7. Total(Sizes(r), 1 .. m) \in Int
  <2>1. IsFiniteSet(1 .. m) /\ (\A i \in 1 .. m : Sizes(r)[i] \in Int) /\ 1 .. m \in SUBSET (1 .. m)
    BY <1>1, SizesAre
  <2>2. QED
    BY <2>1, TotalType
<1>8. Size[Head(q)] \in Int
  BY <1>1, SizeAssumption
<1>9. QED
  BY <1>3, <1>4, <1>5, <1>6, <1>7, <1>8 DEF r

-------------------------------------------------------------------------------
(* Every packet and every byte is accounted for.                           *)

\* The packets on their way to the decoder and those it has had.
Kept == InQueue \cup InHand \cup WasFed

\* The size is the queue's, and the queue is empty where reset forgets the size; what
\* was handed over is kept, deleted or forgotten, and only one of these.
Ledger ==
    /\ CacheAccounting
    /\ mainPc = "resetBody" => mPackets = << >>
    /\ next \in Nat \ {0}
    /\ Kept \cup dropped \cup cleared = 1 .. next - 1
    /\ dropped \cap Kept = {} /\ cleared \cap Kept = {} /\ dropped \cap cleared = {}

\* The queue holds a range of numbers, the hand is before it and the decoded ones are
\* before both.
LEMMA PlacesInOrder ==
  ASSUME Typed, Order
  PROVE  /\ InQueue = next - Len(mPackets) .. next - 1
         /\ \A n \in InHand : n \in Nat /\ n < next - Len(mPackets)
         /\ \A n \in WasFed : n \in Nat /\ n < next - Len(mPackets)
         /\ \A n \in WasFed, m \in InHand : n < m
<1>1. mPackets \in Seq(Packet) /\ fed \in Seq(Packet) /\ packet \in Packet \cup {NoPacket}
      /\ next \in Nat
  BY DEF Typed, TypeOK, DataTypes
<1> DEFINE m == Len(mPackets)
<1>2. m \in Nat /\ \A i \in 1 .. m : mPackets[i] = next - m + i - 1
  BY <1>1 DEF Order
<1>3. InQueue \subseteq next - m .. next - 1
  BY <1>1, <1>2 DEF InQueue
<1>4. next - m .. next - 1 \subseteq InQueue
  <2> SUFFICES ASSUME NEW n \in next - m .. next - 1 PROVE n \in InQueue
    OBVIOUS
  <2>1. n - next + m + 1 \in 1 .. m
    BY <1>1, <1>2
  <2>2. mPackets[n - next + m + 1] = next - m + (n - next + m + 1) - 1
    BY <1>2, <2>1
  <2>3. mPackets[n - next + m + 1] = n
    BY <1>1, <1>2, <2>2
  <2>4. QED
    BY <2>1, <2>3 DEF InQueue
<1>5. \A n \in InHand : n \in Nat /\ n < next - m
  BY <1>1 DEF InHand, Order, Packet
<1>6. \A i \in 1 .. Len(fed) : fed[i] \in Nat
  <2>1. \A i \in 1 .. Len(fed) : fed[i] \in Packet
    BY <1>1
  <2>2. QED
    BY <2>1, BoundsAssumption DEF Packet
<1>7. \A n \in WasFed : n \in Nat /\ n < next - m
  BY <1>6 DEF WasFed, Order
<1>8. \A n \in WasFed, k \in InHand : n < k
  BY DEF WasFed, InHand, Order
<1>9. QED
  BY <1>3, <1>4, <1>5, <1>7, <1>8

\* What an accepted packet, a taken one, a decoded one, a deleted one and a flush do to
\* the packets that are kept.
LEMMA KeptByPush ==
  ASSUME Typed, AddPush PROVE Kept' = Kept \cup {next}
<1>1. mPackets \in Seq(Packet) /\ mPackets' = Append(mPackets, next)
  BY DEF Typed, TypeOK, DataTypes, AddPush, Push
<1>2. Len(mPackets') = Len(mPackets) + 1 /\ mPackets'[Len(mPackets) + 1] = next
      /\ Len(mPackets) \in Nat
      /\ \A i \in 1 .. Len(mPackets) : mPackets'[i] = mPackets[i]
  BY <1>1
<1>3. 1 .. Len(mPackets') = 1 .. Len(mPackets) \cup {Len(mPackets) + 1}
  BY <1>2
<1>4. InQueue' = InQueue \cup {next}
  BY <1>2, <1>3 DEF InQueue
<1>5. InHand' = InHand /\ WasFed' = WasFed
  BY DEF InHand, WasFed, AddPush
<1>6. QED
  BY <1>4, <1>5 DEF Kept

LEMMA KeptByTake ==
  ASSUME Typed, packet = NoPacket, mPackets # << >>, packet' = Head(mPackets),
         mPackets' = Tail(mPackets), fed' = fed
  PROVE  Kept' = Kept
<1>1. mPackets \in Seq(Packet)
  BY DEF Typed, TypeOK, DataTypes
<1>2. /\ Len(mPackets') = Len(mPackets) - 1 /\ Len(mPackets) \in Nat /\ Len(mPackets) > 0
      /\ \A i \in 1 .. Len(mPackets') : mPackets'[i] = mPackets[i + 1]
      /\ packet' = mPackets[1] /\ mPackets[1] \in Packet
  BY <1>1
<1>3. InQueue \subseteq InQueue' \cup {mPackets[1]}
  <2> SUFFICES ASSUME NEW i \in 1 .. Len(mPackets)
               PROVE  mPackets[i] \in InQueue' \cup {mPackets[1]}
    BY DEF InQueue
  <2>1. CASE i = 1
    BY <2>1
  <2>2. CASE i # 1
    <3>1. i - 1 \in 1 .. Len(mPackets') /\ mPackets'[i - 1] = mPackets[(i - 1) + 1]
          /\ (i - 1) + 1 = i
      BY <1>2, <2>2
    <3>2. QED
      BY <3>1 DEF InQueue
  <2>3. QED
    BY <2>1, <2>2
<1>4. InQueue' \cup {mPackets[1]} \subseteq InQueue
  <2>1. \A i \in 1 .. Len(mPackets') : i + 1 \in 1 .. Len(mPackets)
    BY <1>2
  <2>2. 1 \in 1 .. Len(mPackets)
    BY <1>2
  <2>3. QED
    BY <1>2, <2>1, <2>2 DEF InQueue
<1>5. InHand = {} /\ InHand' = {mPackets[1]}
  BY <1>2 DEF InHand, Packet, NoPacket
<1>6. WasFed' = WasFed
  BY DEF WasFed
<1>7. QED
  BY <1>3, <1>4, <1>5, <1>6 DEF Kept

LEMMA KeptByDecode ==
  ASSUME Typed, DecodeFed PROVE Kept' = Kept
<1>1. fed \in Seq(Packet) /\ fed' = Append(fed, packet) /\ packet \in Packet /\ packet' = NoPacket
      /\ mPackets' = mPackets
  BY DEF Typed, HandsFull, TypeOK, DataTypes, DecodeFed, queue
<1>2. Len(fed') = Len(fed) + 1 /\ fed'[Len(fed) + 1] = packet /\ Len(fed) \in Nat
      /\ \A i \in 1 .. Len(fed) : fed'[i] = fed[i]
  BY <1>1
<1>3. 1 .. Len(fed') = 1 .. Len(fed) \cup {Len(fed) + 1}
  BY <1>2
<1>4. WasFed' = WasFed \cup {packet}
  BY <1>2, <1>3 DEF WasFed
<1>5. InHand = {packet} /\ InHand' = {} /\ InQueue' = InQueue
  BY <1>1 DEF InHand, InQueue, Packet, NoPacket
<1>6. QED
  BY <1>4, <1>5 DEF Kept

LEMMA KeptByDelete ==
  ASSUME Typed, Order, packet # NoPacket, packet' = NoPacket, UNCHANGED <<mPackets, fed>>
  PROVE  Kept = Kept' \cup {packet} /\ packet \notin Kept'
<1>1. InHand = {packet} /\ InHand' = {} /\ InQueue' = InQueue /\ WasFed' = WasFed
  BY DEF InHand, InQueue, WasFed
<1>2. packet \notin InQueue /\ packet \notin WasFed
  BY <1>1, PlacesInOrder DEF Typed, TypeOK, DataTypes
<1>3. QED
  BY <1>1, <1>2 DEF Kept

LEMMA KeptByFlush ==
  ASSUME Typed, Order, FlushBody
  PROVE  Kept = Kept' \cup InQueue /\ InQueue \cap Kept' = {}
<1>1. mPackets' = << >> /\ UNCHANGED <<packet, fed>>
  BY DEF FlushBody, ClearQueue
<1>2. InQueue' = {} /\ InHand' = InHand /\ WasFed' = WasFed
  BY <1>1 DEF InQueue, InHand, WasFed
<1>3. \A n \in InQueue : n \notin InHand /\ n \notin WasFed
  <2>1. Len(mPackets) \in Nat /\ next \in Nat
    BY DEF Typed, TypeOK, DataTypes
  <2>2. \A n \in InQueue : n \in Int /\ n >= next - Len(mPackets)
    BY <2>1, PlacesInOrder
  <2>3. QED
    BY <2>1, <2>2, PlacesInOrder
<1>4. QED
  BY <1>2, <1>3 DEF Kept

\* The account stays true.
LEMMA LedgerStep == Typed /\ Order /\ Ledger /\ [Next]_vars => Ledger'
<1> SUFFICES ASSUME Typed, Order, Ledger, [Next]_vars PROVE Ledger'
  OBVIOUS
<1>0. mPackets \in Seq(Packet) /\ next \in Nat /\ packet \in Packet \cup {NoPacket}
  BY DEF Typed, TypeOK, DataTypes
<1>1. CASE AddPush
  <2>1. next \in Packet /\ next' = next + 1 /\ mPackets' = Append(mPackets, next)
        /\ mPacketCacheSize' = mPacketCacheSize + Size[next] /\ mainPc' = "addSignal"
        /\ UNCHANGED <<dropped, cleared>>
    BY <1>1 DEF AddPush, Push, Typed, HandsFull
  <2>2. CacheAccounting'
    <3>1. SizeOf(Append(mPackets, next)) = SizeOf(mPackets) + Size[next]
      BY <1>0, <2>1, SizeOfAppend
    <3>2. QED
      BY <2>1, <3>1 DEF Ledger, CacheAccounting
  <2>3. Kept' = Kept \cup {next}
    BY <1>1, KeptByPush
  <2>4. 1 .. next' - 1 = (1 .. next - 1) \cup {next} /\ next \notin 1 .. next - 1
    BY <1>0, <2>1 DEF Packet
  <2>5. (Kept \cup dropped \cup cleared = 1 .. next - 1)'
    BY <2>1, <2>3, <2>4 DEF Ledger
  <2>6. dropped' \cap Kept' = {} /\ cleared' \cap Kept' = {} /\ dropped' \cap cleared' = {}
    BY <2>1, <2>3, <2>4 DEF Ledger
  <2>7. next' \in Nat \ {0}
    BY <1>0, <2>1
  <2>8. QED
    BY <2>1, <2>2, <2>5, <2>6, <2>7 DEF Ledger
<1>2. CASE FlushBody
  <2>1. mPackets' = << >> /\ mPacketCacheSize' = 0 /\ cleared' = cleared \cup InQueue
        /\ UNCHANGED <<dropped, next>>
    BY <1>2 DEF FlushBody, ClearQueue, InQueue
  <2>2. CacheAccounting'
    BY <2>1, SizeOfNothing DEF CacheAccounting
  <2>3. Kept = Kept' \cup InQueue /\ InQueue \cap Kept' = {}
    BY <1>2, KeptByFlush
  <2>4. Kept' \cup dropped' \cup cleared' = 1 .. next' - 1
    BY <2>1, <2>3 DEF Ledger
  <2>5. dropped' \cap Kept' = {} /\ cleared' \cap Kept' = {} /\ dropped' \cap cleared' = {}
    BY <2>1, <2>3 DEF Ledger
  <2>6. QED
    BY <2>1, <2>2, <2>4, <2>5 DEF Ledger
<1>3. CASE ResetBody
  <2>1. mPackets = << >> /\ mPacketCacheSize' = 0 /\ mainPc' = "playLoop"
        /\ UNCHANGED <<mPackets, packet, fed, next, dropped, cleared>>
    BY <1>3 DEF ResetBody, Ledger
  <2>2. CacheAccounting'
    BY <2>1, SizeOfNothing DEF CacheAccounting
  <2>3. Kept' = Kept
    BY <2>1 DEF Kept, InQueue, InHand, WasFed
  <2>4. QED
    BY <2>1, <2>2, <2>3 DEF Ledger
<1>4. ASSUME packet # NoPacket, packet' = NoPacket, dropped' = dropped \cup {packet},
             UNCHANGED <<mPackets, mPacketCacheSize, mainPc, fed, next, cleared>>
      PROVE  Ledger'
  <2>1. Kept = Kept' \cup {packet} /\ packet \notin Kept'
    BY <1>4, KeptByDelete
  <2>2. CacheAccounting'
    BY <1>4 DEF Ledger, CacheAccounting
  <2>3. Kept' \cup dropped' \cup cleared' = 1 .. next' - 1
    BY <1>4, <2>1 DEF Ledger
  <2>4. dropped' \cap Kept' = {} /\ cleared' \cap Kept' = {} /\ dropped' \cap cleared' = {}
    BY <1>4, <2>1 DEF Ledger
  <2>5. QED
    BY <1>4, <2>2, <2>3, <2>4 DEF Ledger
<1>5. ASSUME UNCHANGED <<mPackets, mPacketCacheSize, packet, fed, next, dropped, cleared>>,
             mainPc' = "resetBody" => mainPc = "resetBody"
      PROVE  Ledger'
  <2>1. Kept' = Kept /\ CacheAccounting'
    BY <1>5 DEF Kept, InQueue, InHand, WasFed, Ledger, CacheAccounting
  <2>2. QED
    BY <1>5, <2>1 DEF Ledger
<1>6. CASE RunTake
  <2>1. CASE packet # NoPacket /\ mFlush
    BY <1>4, <1>6, <2>1 DEF RunTake, DropInHand
  <2>2. CASE packet = NoPacket /\ mPackets # << >>
    <3>1. /\ packet' = Head(mPackets) /\ mPackets' = Tail(mPackets)
          /\ mPacketCacheSize' = mPacketCacheSize - Size[Head(mPackets)]
          /\ UNCHANGED <<mainPc, fed, next, dropped, cleared>>
      BY <1>6, <2>2 DEF RunTake
    <3>2. Kept' = Kept
      BY <2>2, <3>1, KeptByTake
    <3>3. CacheAccounting'
      <4>1. SizeOf(Tail(mPackets)) = SizeOf(mPackets) - Size[Head(mPackets)]
        BY <1>0, <2>2, SizeOfTail
      <4>2. QED
        BY <3>1, <4>1 DEF Ledger, CacheAccounting
    <3>4. QED
      BY <2>2, <3>1, <3>2, <3>3 DEF Ledger
  <2>3. CASE IF packet = NoPacket THEN mPackets = << >> ELSE ~mFlush
    BY <1>5, <1>6, <2>3 DEF RunTake
  <2>4. QED
    BY <2>1, <2>2, <2>3
<1>7. CASE RunDecide
  <2>1. CASE packet # NoPacket /\ mFlush
    BY <1>4, <1>7, <2>1 DEF RunDecide, DropInHand, Decodes
  <2>2. CASE ~(packet # NoPacket /\ mFlush)
    BY <1>5, <1>7, <2>2 DEF RunDecide
  <2>3. QED
    BY <2>1, <2>2
<1>8. CASE DecodeFed
  <2>1. UNCHANGED <<mPackets, mPacketCacheSize, mainPc, next, dropped, cleared>>
    BY <1>8 DEF DecodeFed
  <2>2. Kept' = Kept /\ CacheAccounting'
    BY <1>8, <2>1, KeptByDecode DEF Ledger, CacheAccounting
  <2>3. QED
    BY <2>1, <2>2 DEF Ledger
<1>9. CASE DecodeGivesUp
  <2>1. packet # NoPacket
    BY <1>9 DEF DecodeGivesUp, Typed, HandsFull, Packet, NoPacket
  <2>2. QED
    BY <1>4, <1>9, <2>1 DEF DecodeGivesUp, DropInHand
<1>10. CASE RunExit
  <2>1. CASE packet = NoPacket
    BY <1>5, <1>10, <2>1 DEF RunExit
  <2>2. CASE packet # NoPacket
    BY <1>4, <1>10, <2>2 DEF RunExit
  <2>3. QED
    BY <2>1, <2>2
<1>11. CASE AddCheck \/ CloseBegin \/ AddSignal \/ FlushRequest \/ FlushLock \/ Seek
            \/ FlushLockDecoder \/ ResetBegin \/ CloseBroadcast \/ CloseDelete \/ Destroy
  BY <1>5, <1>11 DEF AddCheck, CloseBegin, AddSignal, FlushRequest, FlushLock, Seek,
     FlushLockDecoder, ResetBegin, CloseBroadcast, CloseDelete, Destroy
<1>12. CASE RunLock \/ RunCheck \/ RunWait \/ RunSpuriousWakeup \/ RunAstray \/ RunRelock
            \/ RunTestAbort \/ RunLockDecoder \/ DecodeFails
  BY <1>5, <1>12 DEF RunLock, RunCheck, RunWait, RunSpuriousWakeup, RunAstray, RunRelock,
     RunTestAbort, RunLockDecoder, DecodeFails
<1>13. CASE UNCHANGED vars
  BY <1>5, <1>13 DEF vars
<1>14. QED
  BY <1>1, <1>2, <1>3, <1>6, <1>7, <1>8, <1>9, <1>10, <1>11, <1>12, <1>13
     DEF Next, Main, MainContinues, Run, RunContinues, Terminated

\* Sets that share nothing count together.
LEMMA DisjointCount ==
  ASSUME NEW S, NEW T, IsFiniteSet(S), IsFiniteSet(T), S \cap T = {}
  PROVE  IsFiniteSet(S \cup T) /\ Cardinality(S \cup T) = Cardinality(S) + Cardinality(T)
<1>1. Cardinality(S \cup T) = Cardinality(S) + Cardinality(T) - Cardinality(S \cap T)
      /\ IsFiniteSet(S \cup T)
  BY FS_Union
<1>2. Cardinality(S) \in Nat /\ Cardinality(T) \in Nat
  BY FS_CardinalityType
<1>3. Cardinality(S \cap T) = 0
  BY FS_EmptySet
<1>4. QED
  BY <1>1, <1>2, <1>3

\* Packets in different places are counted once.
LEMMA LedgerCounts == Typed /\ Order /\ Ledger => PacketsConserved
<1> SUFFICES ASSUME Typed, Order, Ledger PROVE PacketsConserved
  OBVIOUS
<1>1. mPackets \in Seq(Packet) /\ fed \in Seq(Packet) /\ next \in Nat
      /\ packet \in Packet \cup {NoPacket}
  BY DEF Typed, TypeOK, DataTypes
<1>2. IsFiniteSet(1 .. next - 1) /\ IsFiniteSet(1 .. Len(mPackets)) /\ IsFiniteSet(1 .. Len(fed))
      /\ Cardinality(1 .. Len(mPackets)) = Len(mPackets)
      /\ Cardinality(1 .. Len(fed)) = Len(fed)
  <2>1. Len(mPackets) \in Nat /\ Len(fed) \in Nat /\ 1 \in Int
    BY <1>1
  <2>2. \A m \in Nat : IsFiniteSet(1 .. m) /\ Cardinality(1 .. m) = m
    BY FS_Interval
  <2>3. IsFiniteSet(1 .. next - 1)
    BY <1>1, FS_Interval
  <2>4. QED
    BY <2>1, <2>2, <2>3
<1>3. next >= 1 /\ Cardinality(1 .. next - 1) = next - 1
  <2>1. next >= 1
    BY DEF Ledger
  <2>2. QED
    BY <1>1, <2>1, FS_Interval
<1>4. Cardinality(InQueue) = Len(mPackets) /\ Cardinality(WasFed) = Len(fed)
  <2>1. mPackets \in Bijection(1 .. Len(mPackets), InQueue)
    <3>1. \A i, j \in 1 .. Len(mPackets) : mPackets[i] = mPackets[j] => i = j
      BY <1>1 DEF Order
    <3>2. mPackets \in [1 .. Len(mPackets) -> InQueue]
      BY <1>1 DEF InQueue
    <3>3. \A n \in InQueue : \E i \in 1 .. Len(mPackets) : mPackets[i] = n
      BY DEF InQueue
    <3>4. QED
      BY <3>1, <3>2, <3>3 DEF Bijection, Injection, IsInjective, Surjection
  <2>2. fed \in Bijection(1 .. Len(fed), WasFed)
    <3>1. \A i, j \in 1 .. Len(fed) : fed[i] = fed[j] => i = j
      <4>1. \A i, j \in 1 .. Len(fed) : i < j => fed[i] < fed[j]
        BY DEF Order, FedInOrder
      <4>2. \A i \in 1 .. Len(fed) : fed[i] \in Packet
        BY <1>1
      <4>3. QED
        BY <1>1, <4>1, <4>2, BoundsAssumption DEF Packet
    <3>2. fed \in [1 .. Len(fed) -> WasFed]
      BY <1>1 DEF WasFed
    <3>3. \A n \in WasFed : \E i \in 1 .. Len(fed) : fed[i] = n
      BY DEF WasFed
    <3>4. QED
      BY <3>1, <3>2, <3>3 DEF Bijection, Injection, IsInjective, Surjection
  <2>3. ExistsBijection(1 .. Len(mPackets), InQueue) /\ ExistsBijection(1 .. Len(fed), WasFed)
    BY <2>1, <2>2 DEF ExistsBijection
  <2>4. QED
    BY <1>2, <2>3, FS_Bijection
<1>5. /\ IsFiniteSet(InQueue) /\ IsFiniteSet(InHand) /\ IsFiniteSet(WasFed)
      /\ IsFiniteSet(dropped) /\ IsFiniteSet(cleared)
  <2>1. /\ InQueue \in SUBSET (1 .. next - 1) /\ InHand \in SUBSET (1 .. next - 1)
        /\ WasFed \in SUBSET (1 .. next - 1) /\ dropped \in SUBSET (1 .. next - 1)
        /\ cleared \in SUBSET (1 .. next - 1)
    BY DEF Ledger, Kept
  <2>2. QED
    BY <1>2, <2>1, FS_Subset
<1>6. InQueue \cap InHand = {} /\ (InQueue \cup InHand) \cap WasFed = {}
  <2>1. \A n \in InQueue : n \in Int /\ n >= next - Len(mPackets)
    BY <1>1, PlacesInOrder
  <2>2. \A n \in WasFed : n \notin InHand
    BY PlacesInOrder
  <2>3. QED
    BY <1>1, <2>1, <2>2, PlacesInOrder
<1> DEFINE A == InQueue \cup InHand
<1>7. IsFiniteSet(A) /\ Cardinality(A) = Cardinality(InQueue) + Cardinality(InHand)
  BY <1>5, <1>6, DisjointCount
<1>8. IsFiniteSet(Kept) /\ Cardinality(Kept) = Cardinality(A) + Cardinality(WasFed)
  <2>1. Kept = A \cup WasFed /\ A \cap WasFed = {}
    BY <1>6 DEF Kept
  <2> HIDE DEF A
  <2>2. QED
    BY <1>5, <1>7, <2>1, DisjointCount
<1> DEFINE B == Kept \cup dropped
<1>9. IsFiniteSet(B) /\ Cardinality(B) = Cardinality(Kept) + Cardinality(dropped)
  <2>1. Kept \cap dropped = {}
    BY DEF Ledger
  <2>2. QED
    BY <1>5, <1>8, <2>1, DisjointCount
<1>10. Cardinality(B \cup cleared) = Cardinality(B) + Cardinality(cleared)
  <2>1. B \cap cleared = {}
    BY DEF Ledger
  <2> HIDE DEF B
  <2>2. QED
    BY <1>5, <1>9, <2>1, DisjointCount
<1>11. B \cup cleared = 1 .. next - 1
  BY DEF Ledger
<1>12. /\ Cardinality(InHand) \in Nat /\ Cardinality(dropped) \in Nat
       /\ Cardinality(cleared) \in Nat
  BY <1>5, FS_CardinalityType
<1> HIDE DEF A, B
<1>13. Len(mPackets) + Cardinality(InHand) + Len(fed) + Cardinality(dropped)
         + Cardinality(cleared) = next - 1
  BY <1>1, <1>3, <1>4, <1>7, <1>8, <1>9, <1>10, <1>11, <1>12
<1>14. QED
  BY <1>13 DEF PacketsConserved, Ledger, Kept

\* Every packet that addPacket accepted is queued, in the run thread's hand, decoded,
\* deleted or forgotten by a flush, and only one of these; the size that addPacket reads
\* without the mutex is that of the queue after every critical section; the decoder gets
\* the packets in order.
THEOREM PacketsAreAccounted == Spec => []PacketsAccounted
<1>1. Init => Ledger
  <2> SUFFICES ASSUME Init PROVE Ledger
    OBVIOUS
  <2>1. CacheAccounting
    BY SizeOfNothing DEF Init, CacheAccounting
  <2>2. Kept = {} /\ 1 .. next - 1 = {}
    BY DEF Init, Kept, InQueue, InHand, WasFed
  <2>3. QED
    BY <2>1, <2>2 DEF Init, Ledger
<1>2. Typed /\ Order /\ Ledger /\ [Next]_vars => Ledger'
  BY LedgerStep
<1>3. PacketInv => Typed /\ Order /\ CacheBounded
  BY DEF PacketInv, PlayerInv, Room
<1>4. Typed /\ Order /\ CacheBounded /\ Ledger => PacketsAccounted
  BY LedgerCounts DEF PacketsAccounted, Typed, Order, Ledger
<1>5. QED
  BY PacketInvariant, <1>1, <1>2, <1>3, <1>4, PTL DEF Spec

===============================================================================
