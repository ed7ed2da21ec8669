---------------------------- MODULE PlayLoopProofs ----------------------------
(***************************************************************************)
(* What the playback loop keeps for every file, any number of keys and any *)
(* size of queues and decoders: a seek leaves nothing old to be handed     *)
(* over, the clock that it stops is started again, a packet has one owner, *)
(* and what is left unplayed at the end is accounted for.                  *)
(***************************************************************************)
EXTENDS PlayLoop, TLAPS

\* The clock's part: every way out of a seek leads through control with sentStarted false.
Restarting ==
    /\ pc \in {"flushVideo", "flushAudio", "reset"} \/ Player = {} \/ clock # "stopped"
         \/ (pc = "control" /\ ~sentStarted) \/ pc = "done"

LEMMA InitRestarting == Init => Restarting
BY DEF Init, Restarting

LEMMA StepRestarting == Restarting /\ [Next]_vars => Restarting'
<1> SUFFICES ASSUME Restarting, [Next]_vars PROVE Restarting'
    OBVIOUS
<1> USE DEF Restarting
<1>1. CASE Top \/ Seek \/ SeekRefused
    BY <1>1 DEF Top, Seek, SeekRefused, clockVars, loopVars
<1>2. CASE FlushVideo \/ FlushAudio
    BY <1>2 DEF FlushVideo, FlushAudio, clockVars
<1>3. CASE SeekDone
    BY <1>3 DEF SeekDone, MustRestart
<1>4. CASE Control
    BY <1>4 DEF Control, Restarted
<1>5. CASE ReadPacket \/ AddPacket \/ AtEof \/ PlayOut \/ EndPlay
    BY <1>5 DEF ReadPacket, AddPacket, AtEof, PlayOut, EndPlay, clockVars
<1>6. CASE Key \/ ClockStarts \/ Done
    BY <1>6 DEF Key, ClockStarts, Done, vars, clockVars, loopVars
<1>7. ASSUME NEW p \in Player, RunThread(p) \/ Play(p) PROVE Restarting'
    BY <1>7 DEF RunThread, RunTake, RunDrop, RunDecode, Play, clockVars, loopVars
<1>8. CASE UNCHANGED vars
    BY <1>8 DEF vars, clockVars, loopVars
<1>9. QED
    BY <1>1, <1>2, <1>3, <1>4, <1>5, <1>6, <1>7, <1>8 DEF Next, PlayThread

\* While packets are read the clock is not left stopped by a seek (playLoop, cOmxClock::reset).
THEOREM ClockIsRestarted == Spec => []ClockRestarted
<1>1. Restarting => ClockRestarted
    BY DEF Restarting, ClockRestarted
<1>2. QED
    BY <1>1, InitRestarting, StepRestarting, PTL DEF Spec

-------------------------------------------------------------------------------
(* Packets from before a seek *)

Pair == Nat \X Nat
Shapes ==
    /\ seeks \in Nat /\ next \in Nat
    /\ packet \in Pair \cup {NoPacket}
    /\ queue \in [Player -> Seq(Pair)] /\ decoder \in [Player -> Seq(Pair)]
    /\ hand \in [Player -> Pair \cup {NoPacket}] /\ mFlush \in [Player -> BOOLEAN]

AllFresh(s) == \A i \in DOMAIN s : Fresh(s[i])

\* From its flush on, a player's queue is fresh; what the audio player's thread still holds
\* of before is marked to be dropped; and the loop's own packet goes with the audio flush.
VideoFresh == pc # "flushVideo" /\ "vid" \in Player => AllFresh(queue["vid"])
AudioFresh ==
    pc \notin {"flushVideo", "flushAudio"} /\ "aud" \in Player =>
        /\ AllFresh(queue["aud"]) /\ AllFresh(decoder["aud"])
        /\ hand["aud"] # NoPacket /\ ~mFlush["aud"] => Fresh(hand["aud"])
PacketFresh == pc \notin {"flushVideo", "flushAudio"} /\ packet # NoPacket => Fresh(packet)
ToAdd == pc = "add" => packet # NoPacket
SeekInv == Shapes /\ ToAdd /\ VideoFresh /\ AudioFresh /\ PacketFresh

LEMMA AppendParts ==
    ASSUME NEW S, NEW s \in Seq(S), NEW e \in S
    PROVE  /\ Append(s, e) \in Seq(S)
           /\ AllFresh(s) /\ Fresh(e) => AllFresh(Append(s, e))
BY DEF AllFresh

LEMMA HeadAndTail ==
    ASSUME NEW S, NEW s \in Seq(S), s # <<>>
    PROVE  /\ Head(s) \in S /\ Tail(s) \in Seq(S)
           /\ AllFresh(s) => Fresh(Head(s)) /\ AllFresh(Tail(s))
BY DEF AllFresh

LEMMA EmptyFresh == AllFresh(<<>>) /\ <<>> \in Seq(Pair)
BY DEF AllFresh

LEMMA InitSeek == Init => SeekInv
BY EmptyFresh DEF Init, SeekInv, ToAdd, Shapes, VideoFresh, AudioFresh, PacketFresh, AllFresh

LEMMA StepSeek == SeekInv /\ [Next]_vars => SeekInv'
<1> SUFFICES ASSUME SeekInv, [Next]_vars PROVE SeekInv'
    OBVIOUS
<1> USE DEF SeekInv, ToAdd
<1>a. Shapes /\ ToAdd /\ VideoFresh /\ AudioFresh /\ PacketFresh
    OBVIOUS
<1>b. ASSUME UNCHANGED <<packet, pipeVars, decoder, seeks, next>>,
             pc \in {"flushVideo", "flushAudio"} => pc' = pc, pc' = "add" => pc = "add"
      PROVE SeekInv'
    BY <1>a, <1>b DEF Shapes, VideoFresh, AudioFresh, PacketFresh, AllFresh, Fresh, pipeVars
<1>1. CASE Top \/ SeekRefused \/ Control \/ PlayOut
    BY <1>1, <1>b DEF Top, SeekRefused, Control, PlayOut, loopVars, readerVars, pipeVars, decoderVars
<1>2. CASE AtEof
  <2>1. UNCHANGED <<packet, pipeVars, seeks, next, hand>> /\ pc = "eof" /\ pc' \in {"playout", "top"}
    BY <1>2 DEF AtEof, readerVars, pipeVars
  <2>2. decoder' = decoder \/ \E told \in SUBSET Player :
            decoder' = [p \in Player |-> IF p \in told THEN Append(decoder[p], Eos) ELSE decoder[p]]
    <3>1. SubmitEos => \E told \in SUBSET Player :
            decoder' = [p \in Player |-> IF p \in told THEN Append(decoder[p], Eos) ELSE decoder[p]]
      BY Zenon DEF SubmitEos, WithRoom
    <3>2. QED
      BY <1>2, <3>1 DEF AtEof, decoderVars
  <2>3. Eos \in Pair /\ ("aud" \in Player => Fresh(Eos))
    BY DEF Eos, Pair, Fresh
  <2>4. ASSUME NEW p \in Player
        PROVE  decoder'[p] \in Seq(Pair) /\ (AllFresh(decoder[p]) => AllFresh(decoder'[p]))
    <3>1. decoder'[p] = decoder[p] \/ decoder'[p] = Append(decoder[p], Eos)
      BY <2>2
    <3>2. decoder[p] \in Seq(Pair) /\ Eos \in Pair /\ Fresh(Eos)
      BY <2>3, <1>a DEF Shapes, Fresh
    <3>3. QED
      BY <3>1, <3>2, AppendParts
  <2>4a. decoder' \in [Player -> Seq(Pair)]
    BY <2>2, <2>4, <1>a DEF Shapes
  <2>5. QED
    BY <2>1, <2>4, <2>4a, <1>a DEF Shapes, VideoFresh, AudioFresh, PacketFresh, AllFresh, Fresh, pipeVars
<1>3. CASE Seek
    BY <1>3, <1>a DEF Seek, ReaderSeek, Shapes, VideoFresh, AudioFresh, PacketFresh, pipeVars,
       decoderVars, loopVars
<1>c. ASSUME NEW p \in Player, FlushPlayer(p)
      PROVE  /\ queue' \in [Player -> Seq(Pair)] /\ decoder' \in [Player -> Seq(Pair)]
             /\ hand' \in [Player -> Pair \cup {NoPacket}] /\ mFlush' \in [Player -> BOOLEAN]
             /\ queue'[p] = <<>> /\ decoder'[p] = <<>> /\ mFlush'[p]
             /\ \A q \in Player \ {p} : queue'[q] = queue[q]
    BY <1>a, <1>c, EmptyFresh DEF FlushPlayer, Shapes, MarkFlushed
<1>4. CASE FlushVideo
  <2>1. UNCHANGED <<packet, next, seeks>> /\ pc' = "flushAudio"
    BY <1>4 DEF FlushVideo, loopVars, readerVars
  <2>2. CASE "vid" \in Player
    BY <1>4, <2>1, <2>2, <1>a, <1>c DEF FlushVideo, Shapes, VideoFresh, AudioFresh, PacketFresh, AllFresh
  <2>3. CASE "vid" \notin Player
    BY <1>4, <2>1, <2>3, <1>a DEF FlushVideo, pipeVars, Shapes, VideoFresh, AudioFresh, PacketFresh
  <2>4. QED
    BY <2>2, <2>3
<1>5. CASE FlushAudio
  <2>1. UNCHANGED <<next, seeks>> /\ packet' = NoPacket /\ pc = "flushAudio" /\ pc' = "reset"
    BY <1>5 DEF FlushAudio, Freed, readerVars
  <2>2. CASE "aud" \in Player
    <3>1. FlushPlayer("aud")
      BY <1>5, <2>2 DEF FlushAudio
    <3>2. Shapes' /\ queue'["aud"] = <<>> /\ decoder'["aud"] = <<>> /\ mFlush'["aud"]
      BY <3>1, <2>1, <2>2, <1>a, <1>c DEF Shapes
    <3>3. "vid" \in Player => queue'["vid"] = queue["vid"]
      BY <3>1, <2>2, <1>c
    <3>4. VideoFresh'
      BY <3>3, <2>1, <1>a DEF VideoFresh, AllFresh, Fresh
    <3>5. AudioFresh' /\ PacketFresh'
      BY <3>2, <2>1 DEF AudioFresh, PacketFresh, AllFresh
    <3>6. QED
      BY <3>2, <3>4, <3>5, <2>1
  <2>3. CASE "aud" \notin Player
    BY <1>5, <2>1, <2>3, <1>a DEF FlushAudio, pipeVars, Shapes, VideoFresh, AudioFresh, PacketFresh,
       AllFresh, Fresh
  <2>4. QED
    BY <2>2, <2>3
<1>6. CASE SeekDone
  <2>1. UNCHANGED <<packet, next, seeks>> /\ pc = "reset" /\ pc' = "control"
    BY <1>6 DEF SeekDone, readerVars
  <2>2. CASE "vid" \in Player
    <3>1. /\ queue' = [queue EXCEPT !["vid"] = <<>>] /\ decoder' = [decoder EXCEPT !["vid"] = <<>>]
          /\ mFlush' = [mFlush EXCEPT !["vid"] = FALSE]
          /\ \E h \in {hand["vid"], NoPacket} : hand' = [hand EXCEPT !["vid"] = h]
      BY <1>6, <2>2 DEF SeekDone
    <3>2. Shapes'
      BY <3>1, <2>1, <2>2, <1>a, EmptyFresh DEF Shapes
    <3>3. "aud" \in Player => /\ queue'["aud"] = queue["aud"] /\ decoder'["aud"] = decoder["aud"]
                              /\ hand'["aud"] = hand["aud"] /\ mFlush'["aud"] = mFlush["aud"]
      BY <3>1, <1>a DEF Shapes
    <3>4. queue'["vid"] = <<>>
      BY <3>1, <2>2, <1>a DEF Shapes
    <3>5. QED
      BY <3>2, <3>3, <3>4, <2>1, <1>a DEF VideoFresh, AudioFresh, PacketFresh, AllFresh, Fresh
  <2>3. CASE "vid" \notin Player
    BY <1>6, <2>1, <2>3, <1>a DEF SeekDone, pipeVars, Shapes, VideoFresh, AudioFresh, PacketFresh,
       AllFresh, Fresh
  <2>4. QED
    BY <2>2, <2>3
<1>7. CASE ReadPacket
  <2>1. UNCHANGED <<seeks, pipeVars, decoder>> /\ pc = "read" /\ pc' \in {"add", "eof", "top"}
    BY <1>7 DEF ReadPacket, decoderVars
  <2>2. /\ next' \in Nat /\ packet' \in Pair \cup {NoPacket}
        /\ packet' = packet \/ packet' = <<next, seeks>>
        /\ pc' = "add" => packet' # NoPacket
    BY <1>7, <1>a DEF ReadPacket, readerVars, Shapes, Pair
  <2>3. packet' # NoPacket => Fresh(packet')
    BY <2>1, <2>2, <1>a DEF PacketFresh, Fresh
  <2>4. QED
    BY <2>1, <2>2, <2>3, <1>a DEF Shapes, VideoFresh, AudioFresh, PacketFresh, AllFresh, Fresh, pipeVars
<1>8. CASE AddPacket
  <2>1. /\ UNCHANGED <<next, seeks, hand, mFlush, decoder>> /\ pc = "add" /\ pc' = "top"
        /\ packet' \in {packet, NoPacket}
    BY <1>8 DEF AddPacket, Freed, readerVars, decoderVars
  <2>2. CASE UNCHANGED queue
    BY <2>1, <2>2, <1>a DEF Shapes, VideoFresh, AudioFresh, PacketFresh, AllFresh, Fresh
  <2>3. CASE queue' # queue
    <3>1. PICK p \in Player : queue' = [queue EXCEPT ![p] = Append(@, packet)] /\ p = File[packet[1]]
      BY <1>8, <2>3 DEF AddPacket
    <3>2. packet # NoPacket => queue'[p] \in Seq(Pair) /\ (AllFresh(queue[p]) => AllFresh(queue'[p]))
      BY <3>1, <2>1, <1>a, AppendParts DEF Shapes, PacketFresh
    <3>3. queue' \in [Player -> Seq(Pair)] /\ \A q \in Player \ {p} : queue'[q] = queue[q]
      BY <3>1, <3>2, <2>1, <1>a DEF Shapes
    <3>4. QED
      BY <3>2, <3>3, <2>1, <1>a DEF Shapes, VideoFresh, AudioFresh, PacketFresh, AllFresh, Fresh
  <2>4. QED
    BY <2>2, <2>3
<1>9. CASE EndPlay
  <2>1. /\ UNCHANGED <<next, seeks, mFlush, decoder>> /\ pc = "ended" /\ pc' = "done" /\ packet' = NoPacket
        /\ queue' = [p \in Player |-> <<>>] /\ hand' = [p \in Player |-> NoPacket]
    BY <1>9 DEF EndPlay, readerVars, decoderVars
  <2>2. \A p \in Player : queue'[p] = <<>> /\ hand'[p] = NoPacket
    BY <2>1
  <2>2a. queue' \in [Player -> Seq(Pair)] /\ hand' \in [Player -> Pair \cup {NoPacket}]
    BY <2>1, EmptyFresh
  <2>2b. Shapes'
    BY <2>1, <2>2a, <1>a DEF Shapes
  <2>3. QED
    BY <2>1, <2>2, <2>2b, <1>a DEF VideoFresh, AudioFresh, PacketFresh, AllFresh, Fresh
<1>10. CASE Key \/ ClockStarts \/ Done \/ UNCHANGED vars
    BY <1>10, <1>b DEF Key, ClockStarts, Done, vars, loopVars, readerVars, pipeVars, decoderVars
<1>11. ASSUME NEW p \in Player, RunTake(p) PROVE SeekInv'
  <2>1. /\ UNCHANGED <<pc, packet, next, seeks, mFlush, decoder>>
        /\ hand' = [hand EXCEPT ![p] = Head(queue[p])] /\ queue' = [queue EXCEPT ![p] = Tail(@)]
        /\ queue[p] # <<>>
    BY <1>11 DEF RunTake, loopVars, readerVars, decoderVars
  <2>2. /\ hand'[p] \in Pair /\ queue'[p] \in Seq(Pair)
        /\ AllFresh(queue[p]) => Fresh(hand'[p]) /\ AllFresh(queue'[p])
    BY <2>1, <1>a, HeadAndTail DEF Shapes
  <2>3. Shapes' /\ \A q \in Player \ {p} : queue'[q] = queue[q] /\ hand'[q] = hand[q]
    BY <2>1, <2>2, <1>a DEF Shapes
  <2>4. QED
    BY <2>1, <2>2, <2>3, <1>a DEF VideoFresh, AudioFresh, PacketFresh, AllFresh, Fresh
<1>12. ASSUME NEW p \in Player, RunDrop(p) PROVE SeekInv'
  <2>1. /\ UNCHANGED <<pc, packet, next, seeks, queue, decoder>>
        /\ hand' = [hand EXCEPT ![p] = NoPacket] /\ mFlush' = [mFlush EXCEPT ![p] = FALSE]
    BY <1>12 DEF RunDrop, loopVars, readerVars, decoderVars
  <2>2. QED
    BY <2>1, <1>a DEF Shapes, VideoFresh, AudioFresh, PacketFresh, AllFresh, Fresh
<1>13. ASSUME NEW p \in Player, RunDecode(p) PROVE SeekInv'
  <2>1. /\ UNCHANGED <<pc, packet, next, seeks, queue, mFlush>> /\ hand[p] # NoPacket /\ ~mFlush[p]
        /\ hand' = [hand EXCEPT ![p] = NoPacket] /\ decoder' = [decoder EXCEPT ![p] = Append(@, hand[p])]
    BY <1>13 DEF RunDecode, MayDecode, loopVars, readerVars
  <2>2. decoder'[p] \in Seq(Pair) /\ (AllFresh(decoder[p]) /\ Fresh(hand[p]) => AllFresh(decoder'[p]))
    BY <2>1, <1>a, AppendParts DEF Shapes
  <2>3. Shapes' /\ \A q \in Player \ {p} : decoder'[q] = decoder[q] /\ hand'[q] = hand[q]
    BY <2>1, <2>2, <1>a DEF Shapes
  <2>4. QED
    BY <2>1, <2>2, <2>3, <1>a DEF Shapes, VideoFresh, AudioFresh, PacketFresh, AllFresh, Fresh
<1>14. ASSUME NEW p \in Player, Play(p) PROVE SeekInv'
  <2>1. /\ UNCHANGED <<pc, packet, next, seeks, queue, hand, mFlush>> /\ decoder[p] # <<>>
        /\ decoder' = [decoder EXCEPT ![p] = Tail(@)]
    BY <1>14 DEF Play, loopVars, readerVars, pipeVars
  <2>2. decoder'[p] \in Seq(Pair) /\ (AllFresh(decoder[p]) => AllFresh(decoder'[p]))
    BY <2>1, <1>a, HeadAndTail DEF Shapes
  <2>3. Shapes' /\ \A q \in Player \ {p} : decoder'[q] = decoder[q]
    BY <2>1, <2>2, <1>a DEF Shapes
  <2>4. QED
    BY <2>1, <2>2, <2>3, <1>a DEF VideoFresh, AudioFresh, PacketFresh, AllFresh, Fresh
<1>15. QED
    BY <1>1, <1>2, <1>3, <1>4, <1>5, <1>6, <1>7, <1>8, <1>9, <1>10, <1>11, <1>12, <1>13, <1>14
       DEF Next, PlayThread, RunThread

\* Outside of a seek, what the loop and the queues hold, and what the audio decoder was fed,
\* was read after the last seek (playLoop, cOmxPlayer::flush, run).
THEOREM SeekLeavesNothingOld == Spec => []FreshAfterSeek
<1>1. SeekInv => FreshAfterSeek
    BY PlayerAssumption DEF SeekInv, Shapes, VideoFresh, AudioFresh, PacketFresh, AllFresh, FreshAfterSeek, InSeek
<1>2. QED
    BY <1>1, InitSeek, StepSeek, PTL DEF Spec

-------------------------------------------------------------------------------
(* Types.  The seek counter stays in its bound because every seek is paid  *)
(* for by the key that asked for it.                                       *)

\* A seek needs a key, and the key is not spent before the seek is made.
KeyBudget ==
    /\ seeks <= keys
    /\ mSeekInc /\ ~InSeek => seeks < keys
    /\ pc = "seek" => mSeekInc

\* What the loop has in hand where it uses it.
Places ==
    /\ pc = "add" => packet # NoPacket
    /\ pc = "eof" => mEof /\ packet = NoPacket
Typed == TypeOK /\ KeyBudget /\ Places

LEMMA NatBounds == Len(File) \in Nat /\ MaxKeys \in Nat
BY FileAssumption, BoundsAssumption

LEMMA PairNotEmpty == \A a, b : <<a, b>> # NoPacket
BY DEF NoPacket

LEMMA InitTyped == Init => Typed
<1> SUFFICES ASSUME Init PROVE Typed
    OBVIOUS
<1>1. TypeOK
    <2>1. <<>> \in Seq(Packets) /\ <<>> \in Seq(Packets \union {Eos})
        OBVIOUS
    <2>2. next \in 1..(Len(File) + 1) /\ seeks \in 0..MaxKeys /\ keys \in 0..MaxKeys
        BY NatBounds DEF Init
    <2>3. QED
        BY <2>1, <2>2 DEF Init, TypeOK
<1>2. QED
    BY <1>1, NatBounds DEF Init, Typed, KeyBudget, Places, InSeek

LEMMA StepPlaces == Typed /\ [Next]_vars => KeyBudget' /\ Places'
<1> SUFFICES ASSUME Typed, [Next]_vars PROVE KeyBudget' /\ Places'
    OBVIOUS
<1>a. /\ KeyBudget /\ Places
      /\ seeks \in Nat /\ keys \in Nat /\ mSeekInc \in BOOLEAN /\ mEof \in BOOLEAN
    BY NatBounds DEF Typed, TypeOK
<1> USE <1>a DEF KeyBudget, Places, InSeek, loopVars, readerVars, keyVars
<1>1. CASE Key
    BY <1>1 DEF Key
<1>2a. CASE Top
    BY <1>2a DEF Top
<1>2b. CASE SeekRefused
    BY <1>2b DEF SeekRefused
<1>2e. CASE Control
    BY <1>2e DEF Control
<1>2c. CASE PlayOut
    BY <1>2c DEF PlayOut
<1>2d. CASE EndPlay
    BY <1>2d DEF EndPlay
<1>3a. CASE Seek
    BY <1>3a DEF Seek, ReaderSeek
<1>3b. CASE FlushVideo
    BY <1>3b DEF FlushVideo
<1>3c. CASE FlushAudio
    BY <1>3c DEF FlushAudio
<1>3d. CASE SeekDone
    BY <1>3d DEF SeekDone
<1>4. CASE ReadPacket
    BY <1>4, PairNotEmpty DEF ReadPacket
<1>5. CASE AddPacket \/ AtEof
    BY <1>5 DEF AddPacket, AtEof
<1>6. CASE ClockStarts \/ Done \/ UNCHANGED vars
    BY <1>6 DEF ClockStarts, Done, vars
<1>7. ASSUME NEW p \in Player, RunThread(p) \/ Play(p) PROVE KeyBudget' /\ Places'
    BY <1>7 DEF RunThread, RunTake, RunDrop, RunDecode, Play
<1>8. QED
    BY <1>1, <1>2a, <1>2b, <1>2c, <1>2d, <1>2e, <1>3a, <1>3b, <1>3c, <1>3d, <1>4, <1>5, <1>6, <1>7 DEF Next, PlayThread

LEMMA FrameTypes ==
    /\ next <= Len(File) /\ next \in 1..(Len(File) + 1) /\ seeks \in 0..MaxKeys => <<next, seeks>> \in Packets
    /\ Packets \subseteq Packets \union {Eos} /\ Eos \in Packets \union {Eos}
BY NatBounds DEF Packets

LEMMA StepTypes == Typed /\ [Next]_vars => TypeOK'
<1> SUFFICES ASSUME Typed, [Next]_vars PROVE TypeOK'
    OBVIOUS
<1>a. TypeOK /\ KeyBudget /\ Places /\ seeks \in Nat /\ keys \in Nat
    BY NatBounds DEF Typed, TypeOK
<1> USE DEF loopVars, readerVars, keyVars, clockVars, pipeVars, decoderVars
<1>e. <<>> \in Seq(Packets) /\ <<>> \in Seq(Packets \union {Eos})
    OBVIOUS
<1>1. CASE Key
    <2>1. keys' \in 0..MaxKeys
        BY <1>1, <1>a, NatBounds DEF Key
    <2>2. mPause' \in BOOLEAN /\ mSeekInc' \in BOOLEAN /\ mEntered' \in BOOLEAN
        BY <1>1, <1>a DEF Key, TypeOK
    <2>3. UNCHANGED <<pc, loopVars, readerVars, clockVars, pipeVars, decoderVars, seeks>>
        BY <1>1 DEF Key
    <2>4. QED
        BY <2>1, <2>2, <2>3, <1>a DEF TypeOK
<1>2. CASE Top
    BY <1>2, <1>a DEF Top, TypeOK
<1>3. CASE Seek
    <2>1. seeks' \in 0..MaxKeys
        BY <1>3, <1>a, NatBounds DEF Seek, KeyBudget, InSeek, TypeOK
    <2>2. next' \in 1..(Len(File) + 1) /\ mEof' \in BOOLEAN
        <3>1. next \in 1..(Len(File) + 1) /\ mEof \in BOOLEAN /\ ReaderSeek
            BY <1>3, <1>a DEF Seek, TypeOK
        <3>2. 1..Len(File) \subseteq 1..(Len(File) + 1)
            BY NatBounds
        <3>3. QED
            BY <3>1, <3>2 DEF ReaderSeek
    <2>3. QED
        BY <1>3, <2>1, <2>2, <1>a DEF Seek, TypeOK
<1>4. CASE SeekRefused \/ PlayOut
    BY <1>4, <1>a DEF SeekRefused, PlayOut, TypeOK
<1>b. ASSUME NEW p \in Player, FlushPlayer(p) \/ UNCHANGED <<pipeVars, decoder, mSetStartTime>>
      PROVE  /\ queue' \in [Player -> Seq(Packets)]
             /\ hand' \in [Player -> Packets \union {NoPacket}] /\ mFlush' \in [Player -> BOOLEAN]
             /\ decoder' \in [Player -> Seq(Packets \union {Eos})]
             /\ mSetStartTime' \in [Player -> BOOLEAN]
    <2>1. CASE UNCHANGED <<pipeVars, decoder, mSetStartTime>>
        BY <2>1, <1>a DEF TypeOK
    <2>2. CASE FlushPlayer(p)
        <3>1. PICK h \in {hand[p], NoPacket} : hand' = [hand EXCEPT ![p] = h]
            BY <2>2 DEF FlushPlayer
        <3>2. hand' \in [Player -> Packets \union {NoPacket}]
            BY <3>1, <1>a DEF TypeOK
        <3>3. QED
            BY <2>2, <3>2, <1>a, <1>e DEF FlushPlayer, MarkFlushed, TypeOK
    <2>3. QED
        BY <1>b, <2>1, <2>2
<1>c. ASSUME NEW p \in Player, ClearEos(p) \/ UNCHANGED <<eos, oldEos>>
      PROVE  eos' \in [Player -> BOOLEAN] /\ oldEos' \in [Player -> BOOLEAN]
    BY <1>a, <1>c DEF ClearEos, AskedAfterFlush, TypeOK
<1>5. CASE FlushVideo
    <2>1. /\ queue' \in [Player -> Seq(Packets)]
          /\ hand' \in [Player -> Packets \union {NoPacket}] /\ mFlush' \in [Player -> BOOLEAN]
          /\ decoder' \in [Player -> Seq(Packets \union {Eos})]
          /\ mSetStartTime' \in [Player -> BOOLEAN]
          /\ eos' \in [Player -> BOOLEAN] /\ oldEos' \in [Player -> BOOLEAN]
        BY <1>5, <1>a, <1>b, <1>c DEF FlushVideo, TypeOK
    <2>2. QED
        BY <1>5, <2>1, <1>a DEF FlushVideo, TypeOK
<1>6. CASE FlushAudio
    <2>1. /\ queue' \in [Player -> Seq(Packets)]
          /\ hand' \in [Player -> Packets \union {NoPacket}] /\ mFlush' \in [Player -> BOOLEAN]
          /\ decoder' \in [Player -> Seq(Packets \union {Eos})]
          /\ mSetStartTime' \in [Player -> BOOLEAN]
          /\ eos' \in [Player -> BOOLEAN] /\ oldEos' \in [Player -> BOOLEAN]
        BY <1>6, <1>a, <1>b, <1>c DEF FlushAudio, TypeOK
    <2>2. QED
        BY <1>6, <2>1, <1>a DEF FlushAudio, Freed, TypeOK
<1>7. CASE SeekDone
    <2>1. /\ queue' \in [Player -> Seq(Packets)]
          /\ hand' \in [Player -> Packets \union {NoPacket}] /\ mFlush' \in [Player -> BOOLEAN]
          /\ decoder' \in [Player -> Seq(Packets \union {Eos})]
          /\ mSetStartTime' \in [Player -> BOOLEAN]
        <3>1. CASE "vid" \notin Player
            BY <1>7, <3>1, <1>a DEF SeekDone, TypeOK
        <3>2. CASE "vid" \in Player
            <4>1. PICK h \in {hand["vid"], NoPacket} : hand' = [hand EXCEPT !["vid"] = h]
                BY <1>7, <3>2 DEF SeekDone
            <4>2. hand' \in [Player -> Packets \union {NoPacket}]
                BY <4>1, <3>2, <1>a DEF TypeOK
            <4>3. QED
                BY <1>7, <3>2, <4>2, <1>a, <1>e DEF SeekDone, TypeOK
        <3>3. QED
            BY <3>1, <3>2
    <2>2. eos' \in [Player -> BOOLEAN] /\ oldEos' \in [Player -> BOOLEAN]
        BY <1>7, <1>a, <1>c DEF SeekDone, TypeOK
    <2>3. QED
        BY <1>7, <2>1, <2>2, <1>a DEF SeekDone, MustRestart, TypeOK
<1>8. CASE Control
    BY <1>8, <1>a DEF Control, Restarted, TypeOK
<1>9. CASE ReadPacket
    <2>1. next' \in 1..(Len(File) + 1) /\ packet' \in Packets \union {NoPacket} /\ mEof' \in BOOLEAN
        <3>1. CASE packet = NoPacket /\ ~mEof /\ next <= Len(File)
            <4>1. <<next, seeks>> \in Packets /\ next + 1 \in 1..(Len(File) + 1)
                BY <3>1, <1>a, NatBounds, FrameTypes DEF TypeOK
            <4>2. packet' = <<next, seeks>> /\ next' = next + 1 /\ mEof' = mEof
                BY <1>9, <3>1 DEF ReadPacket
            <4>3. QED
                BY <4>1, <4>2, <1>a DEF TypeOK
        <3>2. CASE ~(packet = NoPacket /\ ~mEof /\ next <= Len(File))
            <4>1. next' = next /\ packet' = packet /\ (mEof' = mEof \/ mEof' = TRUE)
                BY <1>9, <3>2 DEF ReadPacket
            <4>2. QED
                BY <4>1, <1>a DEF TypeOK
        <3>3. QED
            BY <3>1, <3>2
    <2>2. QED
        BY <1>9, <2>1, <1>a DEF ReadPacket, TypeOK
<1>10. CASE AddPacket
    <2>1. queue' \in [Player -> Seq(Packets)] /\ packet' \in Packets \union {NoPacket}
        <3>1. packet \in Packets
            BY <1>10, <1>a DEF AddPacket, Places, TypeOK
        <3>2. packet' \in {packet, NoPacket}
            BY <1>10 DEF AddPacket, Freed
        <3>3. queue' = queue \/ \E p \in Player : queue' = [queue EXCEPT ![p] = Append(@, packet)]
            BY <1>10 DEF AddPacket
        <3>4. \A p \in Player : Append(queue[p], packet) \in Seq(Packets)
            BY <3>1, <1>a DEF TypeOK
        <3>5. queue \in [Player -> Seq(Packets)]
            BY <1>a DEF TypeOK
        <3>6. queue' \in [Player -> Seq(Packets)]
            BY <3>3, <3>4, <3>5
        <3>7. QED
            BY <3>1, <3>2, <3>6
    <2>2. QED
        BY <1>10, <2>1, <1>a DEF AddPacket, EosToSubmit, TypeOK
<1>11. CASE AtEof
    <2>1. decoder' \in [Player -> Seq(Packets \union {Eos})] /\ mFailedEos' \in [Player -> BOOLEAN]
        <3>1. CASE UNCHANGED <<decoder, mFailedEos>>
            BY <3>1, <1>a DEF TypeOK
        <3>2. CASE SubmitEos
            <4>1. \A p \in Player : /\ decoder[p] \in Seq(Packets \union {Eos})
                                    /\ Append(decoder[p], Eos) \in Seq(Packets \union {Eos})
                BY <1>a, FrameTypes DEF TypeOK
            <4>2. QED
                BY <3>2, <4>1 DEF SubmitEos, HasRoom
        <3>3. QED
            BY <1>11, <3>1, <3>2 DEF AtEof
    <2>2. untold' \subseteq Player
        <3>1. SubmitEos => untold' \subseteq Player
            BY DEF SubmitEos, WithRoom
        <3>2. QED
            BY <1>11, <3>1, <1>a DEF AtEof, decoderVars, TypeOK
    <2>3. QED
        BY <1>11, <2>1, <2>2, <1>a DEF AtEof, SubmitEos, TypeOK
<1>12. CASE EndPlay
    <2>1. queue' \in [Player -> Seq(Packets)] /\ hand' \in [Player -> Packets \union {NoPacket}]
        BY <1>12 DEF EndPlay
    <2>2. QED
        BY <1>12, <2>1, <1>a DEF EndPlay, TypeOK
<1>13. CASE ClockStarts
    BY <1>13, <1>a DEF ClockStarts, TypeOK
<1>14. CASE Done \/ UNCHANGED vars
    BY <1>14, <1>a DEF Done, vars, TypeOK
<1>15. ASSUME NEW p \in Player, RunTake(p) PROVE TypeOK'
    <2>1. hand' \in [Player -> Packets \union {NoPacket}] /\ queue' \in [Player -> Seq(Packets)]
        BY <1>15, <1>a DEF RunTake, TypeOK
    <2>2. QED
        BY <1>15, <2>1, <1>a DEF RunTake, TypeOK
<1>16. ASSUME NEW p \in Player, RunDrop(p) PROVE TypeOK'
    BY <1>16, <1>a DEF RunDrop, TypeOK
<1>17. ASSUME NEW p \in Player, RunDecode(p) PROVE TypeOK'
    <2>1. decoder' \in [Player -> Seq(Packets \union {Eos})]
        <3>1. hand[p] \in Packets \union {Eos} /\ decoder[p] \in Seq(Packets \union {Eos})
            BY <1>17, <1>a DEF RunDecode, TypeOK
        <3>2. QED
            BY <1>17, <3>1, <1>a DEF RunDecode, TypeOK
    <2>2. hand' \in [Player -> Packets \union {NoPacket}] /\ mSetStartTime' \in [Player -> BOOLEAN]
          /\ started' \subseteq Player
        BY <1>17, <1>a DEF RunDecode, TypeOK
    <2>3. QED
        BY <1>17, <2>1, <2>2, <1>a DEF RunDecode, TypeOK
<1>18. ASSUME NEW p \in Player, Play(p) PROVE TypeOK'
    <2>1. decoder' \in [Player -> Seq(Packets \union {Eos})] /\ eos' \in [Player -> BOOLEAN]
        BY <1>18, <1>a DEF Play, TypeOK
    <2>2. QED
        BY <1>18, <2>1, <1>a DEF Play, TypeOK
<1>19. QED
    BY <1>1, <1>2, <1>3, <1>4, <1>5, <1>6, <1>7, <1>8, <1>9, <1>10, <1>11, <1>12, <1>13, <1>14,
       <1>15, <1>16, <1>17, <1>18 DEF Next, PlayThread, RunThread

-------------------------------------------------------------------------------
(* One owner.  No step makes a packet: it moves one from hand to hand or   *)
(* deletes it, and what the reader hands out is later than all before.     *)

Elements(s) == {s[i] : i \in DOMAIN s} \ {Eos}
Distinct(s) == \A i, j \in DOMAIN s : s[i] = s[j] /\ s[i] # Eos => i = j

\* A packet was read before, in the present stretch of the file or before a seek.
Handed(x) == x[2] <= seeks /\ (x[2] = seeks => x[1] < next)

\* What a player, its decoder and the loop have, without the sets of positions of OneOwner.
Owns(p) == Elements(queue[p]) \union Held(hand[p]) \union Elements(decoder[p])
Apart(p) ==
    /\ Distinct(queue[p]) /\ Distinct(decoder[p])
    /\ Elements(queue[p]) \cap Elements(decoder[p]) = {}
    /\ Held(hand[p]) \cap (Elements(queue[p]) \union Elements(decoder[p])) = {}
    /\ Held(packet) \cap Owns(p) = {}
OwnerInv ==
    /\ packet # NoPacket => Handed(packet)
    /\ \A p \in Player : Apart(p) /\ \A x \in Owns(p) : Handed(x)

LEMMA AppendElements ==
    ASSUME NEW S, NEW s \in Seq(S), NEW e \in S
    PROVE  /\ Elements(Append(s, e)) = Elements(s) \union ({e} \ {Eos})
           /\ Distinct(s) /\ e \notin Elements(s) => Distinct(Append(s, e))
<1> DEFINE t == Append(s, e)
<1>1. /\ Len(s) \in Nat /\ DOMAIN s = 1..Len(s) /\ DOMAIN t = 1..(Len(s) + 1)
      /\ \A i \in 1..Len(s) : t[i] = s[i]
      /\ t[Len(s) + 1] = e
    OBVIOUS
<1> HIDE DEF t
<1>2. {t[i] : i \in DOMAIN t} = {s[i] : i \in DOMAIN s} \union {e}
    <2>1. ASSUME NEW i \in DOMAIN t PROVE t[i] \in {s[j] : j \in DOMAIN s} \union {e}
        <3>1. CASE i = Len(s) + 1
            BY <1>1, <3>1
        <3>2. CASE i \in 1..Len(s)
            BY <1>1, <3>2
        <3>3. QED
            BY <1>1, <3>1, <3>2
    <2>2. ASSUME NEW i \in DOMAIN s PROVE s[i] \in {t[j] : j \in DOMAIN t}
        <3>1. i \in DOMAIN t /\ t[i] = s[i]
            BY <1>1
        <3>2. QED
            BY <3>1
    <2>3. e \in {t[j] : j \in DOMAIN t}
        BY <1>1
    <2>4. QED
        BY <2>1, <2>2, <2>3
<1>3. ASSUME Distinct(s), e \notin Elements(s), NEW i \in DOMAIN t, NEW j \in DOMAIN t,
             t[i] = t[j], t[i] # Eos
      PROVE  i = j
    <2>1. CASE i \in 1..Len(s) /\ j \in 1..Len(s)
        BY <1>1, <1>3, <2>1 DEF Distinct
    <2>2. CASE i = Len(s) + 1 /\ j \in 1..Len(s)
        BY <1>1, <1>3, <2>2 DEF Elements
    <2>3. CASE i \in 1..Len(s) /\ j = Len(s) + 1
        BY <1>1, <1>3, <2>3 DEF Elements
    <2>4. CASE i = Len(s) + 1 /\ j = Len(s) + 1
        BY <2>4
    <2>5. QED
        BY <1>1, <2>1, <2>2, <2>3, <2>4
<1>4. QED
    BY <1>2, <1>3 DEF Elements, Distinct, t

LEMMA TailElements ==
    ASSUME NEW S, NEW s \in Seq(S), s # <<>>
    PROVE  /\ Elements(Tail(s)) \subseteq Elements(s)
           /\ Head(s) \in Elements(s) \union {Eos}
           /\ Distinct(s) => Distinct(Tail(s)) /\ Head(s) \notin Elements(Tail(s))
<1> DEFINE t == Tail(s)
<1>1. /\ Len(s) \in Nat \ {0} /\ DOMAIN s = 1..Len(s) /\ DOMAIN t = 1..(Len(s) - 1)
      /\ Head(s) = s[1]
      /\ \A i \in 1..(Len(s) - 1) : t[i] = s[i + 1]
    OBVIOUS
<1> HIDE DEF t
<1>2. \A i \in DOMAIN t : i + 1 \in DOMAIN s /\ t[i] = s[i + 1] /\ i + 1 # 1
    BY <1>1
<1>3. 1 \in DOMAIN s /\ Head(s) = s[1]
    BY <1>1
<1>4. Elements(t) \subseteq Elements(s)
    BY <1>2 DEF Elements
<1>5. Head(s) \in Elements(s) \union {Eos}
    BY <1>3 DEF Elements
<1>6. ASSUME Distinct(s) PROVE Distinct(t) /\ Head(s) \notin Elements(t)
    <2>1. ASSUME NEW i \in DOMAIN t, NEW j \in DOMAIN t, t[i] = t[j], t[i] # Eos PROVE i = j
        <3>1. i + 1 = j + 1
            BY <1>2, <1>6, <2>1 DEF Distinct
        <3>2. QED
            BY <3>1, <1>1
    <2>2. ASSUME NEW i \in DOMAIN t, t[i] # Eos PROVE t[i] # Head(s)
        BY <1>2, <1>3, <1>6, <2>2 DEF Distinct
    <2>3. QED
        BY <2>1, <2>2 DEF Distinct, Elements
<1>7. QED
    BY <1>4, <1>5, <1>6 DEF t

LEMMA EmptyElements == Elements(<<>>) = {} /\ Distinct(<<>>)
BY DEF Elements, Distinct

\* What a step may do with the packets of the loop and of player p.
Loses(p) ==
    /\ packet' \in {packet, NoPacket} /\ queue'[p] \in {queue[p], <<>>} /\ hand'[p] \in {hand[p], NoPacket}
    /\ decoder'[p] \in {decoder[p], <<>>, Append(decoder[p], Eos)}
Reads(p) ==
    /\ packet = NoPacket /\ packet' = <<next, seeks>> /\ next' = next + 1 /\ seeks' = seeks
    /\ queue'[p] = queue[p] /\ hand'[p] = hand[p] /\ decoder'[p] = decoder[p]
Accepts(p) ==
    /\ packet # NoPacket /\ packet' = NoPacket
    /\ queue'[p] = Append(queue[p], packet) /\ hand'[p] = hand[p] /\ decoder'[p] = decoder[p]
Takes(p) ==
    /\ packet' = packet /\ decoder'[p] = decoder[p]
    /\ hand[p] = NoPacket /\ queue[p] # <<>> /\ hand'[p] = Head(queue[p]) /\ queue'[p] = Tail(queue[p])
Decodes(p) ==
    /\ packet' = packet /\ queue'[p] = queue[p]
    /\ hand[p] # NoPacket /\ hand'[p] = NoPacket /\ decoder'[p] = Append(decoder[p], hand[p])
Plays(p) ==
    /\ packet' = packet /\ queue'[p] = queue[p] /\ hand'[p] = hand[p]
    /\ decoder[p] # <<>> /\ decoder'[p] = Tail(decoder[p])
Moves(p) == Loses(p) \/ Reads(p) \/ Accepts(p) \/ Takes(p) \/ Decodes(p) \/ Plays(p)
Forth == seeks' = seeks + 1 \/ (seeks' = seeks /\ next' \in {next, next + 1})

LEMMA StepForth == Typed /\ [Next]_vars => Forth
<1> SUFFICES ASSUME Typed, [Next]_vars PROVE Forth
    OBVIOUS
<1>a. seeks \in Nat /\ next \in Nat
    BY NatBounds DEF Typed, TypeOK
<1>b. UNCHANGED <<next, seeks>> => Forth
    BY <1>a DEF Forth
<1> USE DEF readerVars
<1>1. CASE Seek
    BY <1>1, <1>a DEF Seek, Forth
<1>2. CASE ReadPacket
    <2>1. seeks' = seeks /\ next' \in {next, next + 1}
        BY <1>2 DEF ReadPacket
    <2>2. QED
        BY <2>1, <1>a DEF Forth
<1>3. CASE Key \/ Top \/ SeekRefused \/ FlushVideo \/ FlushAudio \/ SeekDone
    BY <1>3, <1>b DEF Key, Top, SeekRefused, FlushVideo, FlushAudio, SeekDone
<1>4. CASE Control \/ AddPacket \/ AtEof \/ PlayOut \/ EndPlay \/ ClockStarts
    BY <1>4, <1>b DEF Control, AddPacket, AtEof, PlayOut, EndPlay, ClockStarts
<1>5. CASE Done \/ UNCHANGED vars
    BY <1>5, <1>b DEF Done, vars
<1>6. ASSUME NEW p \in Player, RunThread(p) \/ Play(p) PROVE Forth
    BY <1>6, <1>b DEF RunThread, RunTake, RunDrop, RunDecode, Play
<1>7. QED
    BY <1>1, <1>2, <1>3, <1>4, <1>5, <1>6 DEF Next, PlayThread

LEMMA StepMoves == Typed /\ [Next]_vars => \A p \in Player : Moves(p)
<1> SUFFICES ASSUME Typed, [Next]_vars, NEW p \in Player PROVE Moves(p)
    OBVIOUS
<1>a. /\ queue \in [Player -> Seq(Packets)] /\ hand \in [Player -> Packets \union {NoPacket}]
      /\ decoder \in [Player -> Seq(Packets \union {Eos})]
      /\ pc = "add" => packet # NoPacket
    BY DEF Typed, TypeOK, Places
<1>b. UNCHANGED <<packet, queue, hand, decoder>> => Moves(p)
    BY DEF Moves, Loses
<1>c. /\ packet' \in {packet, NoPacket} /\ queue'[p] \in {queue[p], <<>>} /\ hand'[p] \in {hand[p], NoPacket}
      /\ decoder'[p] \in {decoder[p], <<>>}
      => Moves(p)
    BY DEF Moves, Loses
<1> USE DEF loopVars, pipeVars, decoderVars
<1>1. CASE Key \/ Top \/ Seek \/ SeekRefused \/ Control \/ PlayOut \/ ClockStarts
    BY <1>1, <1>b DEF Key, Top, Seek, SeekRefused, Control, PlayOut, ClockStarts
<1>2. CASE Done \/ UNCHANGED vars
    BY <1>2, <1>b DEF Done, vars
<1>d. ASSUME NEW q \in Player, FlushPlayer(q)
      PROVE  /\ queue'[p] \in {queue[p], <<>>} /\ hand'[p] \in {hand[p], NoPacket}
             /\ decoder'[p] \in {decoder[p], <<>>}
    BY <1>a, <1>d DEF FlushPlayer
<1>3. CASE FlushVideo
    <2>1. packet' = packet /\ ((FlushPlayer("vid") /\ "vid" \in Player) \/ UNCHANGED <<queue, hand, decoder>>)
        BY <1>3 DEF FlushVideo
    <2>2. QED
        BY <2>1, <1>c, <1>d
<1>4. CASE FlushAudio
    <2>1. packet' = NoPacket /\ ((FlushPlayer("aud") /\ "aud" \in Player) \/ UNCHANGED <<queue, hand, decoder>>)
        BY <1>4 DEF FlushAudio, Freed
    <2>2. QED
        BY <2>1, <1>c, <1>d
<1>5. CASE SeekDone
    <2>1. CASE "vid" \notin Player
        BY <1>5, <2>1, <1>c DEF SeekDone
    <2>2. CASE "vid" \in Player
        <3>1. PICK h \in {hand["vid"], NoPacket} : hand' = [hand EXCEPT !["vid"] = h]
            BY <1>5, <2>2 DEF SeekDone
        <3>2. /\ packet' = packet /\ queue' = [queue EXCEPT !["vid"] = <<>>]
              /\ decoder' = [decoder EXCEPT !["vid"] = <<>>]
            BY <1>5, <2>2 DEF SeekDone
        <3>3. hand'[p] \in {hand[p], NoPacket} /\ queue'[p] \in {queue[p], <<>>} /\ decoder'[p] \in {decoder[p], <<>>}
            BY <3>1, <3>2, <1>a
        <3>4. QED
            BY <3>2, <3>3, <1>c
    <2>3. QED
        BY <2>1, <2>2
<1>6. CASE ReadPacket
    <2>1. UNCHANGED <<queue, hand, decoder, seeks>>
        BY <1>6 DEF ReadPacket
    <2>2. CASE packet' = packet
        BY <2>1, <2>2, <1>b
    <2>3. CASE packet' # packet
        BY <1>6, <2>1, <2>3 DEF ReadPacket, readerVars, Moves, Reads
    <2>4. QED
        BY <2>2, <2>3
<1>7. CASE AddPacket
    <2>1. UNCHANGED <<hand, decoder>> /\ packet # NoPacket
        BY <1>7, <1>a DEF AddPacket
    <2>2. CASE queue' = queue
        BY <1>7, <2>1, <2>2, <1>c DEF AddPacket, Freed
    <2>3. CASE queue' # queue
        <3>1. PICK q \in Player : queue' = [queue EXCEPT ![q] = Append(@, packet)] /\ packet' = NoPacket
            BY <1>7, <2>3 DEF AddPacket, Freed
        <3>2. CASE q = p
            BY <3>1, <3>2, <2>1, <1>a DEF Moves, Accepts
        <3>3. CASE q # p
            <4>1. queue'[p] = queue[p]
                BY <3>1, <3>3, <1>a
            <4>2. QED
                BY <4>1, <3>1, <2>1, <1>c
        <3>4. QED
            BY <3>2, <3>3
    <2>4. QED
        BY <2>2, <2>3
<1>8. CASE AtEof
    <2>1. UNCHANGED <<packet, queue, hand>>
        BY <1>8 DEF AtEof
    <2>2. decoder'[p] \in {decoder[p], Append(decoder[p], Eos)}
        BY <1>8 DEF AtEof, SubmitEos
    <2>3. QED
        BY <2>1, <2>2 DEF Moves, Loses
<1>9. CASE EndPlay
    <2>1. packet' = NoPacket /\ queue'[p] = <<>> /\ hand'[p] = NoPacket /\ decoder' = decoder
        BY <1>9 DEF EndPlay
    <2>2. QED
        BY <2>1, <1>c
<1>10. ASSUME NEW q \in Player, RunThread(q) \/ Play(q), q # p PROVE Moves(p)
    <2>1. packet' = packet /\ queue'[p] = queue[p] /\ hand'[p] = hand[p] /\ decoder'[p] = decoder[p]
        BY <1>10, <1>a DEF RunThread, RunTake, RunDrop, RunDecode, Play
    <2>2. QED
        BY <2>1, <1>c
<1>11. CASE RunTake(p)
    BY <1>11, <1>a DEF RunTake, Moves, Takes
<1>12. CASE RunDrop(p)
    BY <1>12, <1>a, <1>c DEF RunDrop
<1>13. CASE RunDecode(p)
    BY <1>13, <1>a DEF RunDecode, Moves, Decodes
<1>14. CASE Play(p)
    BY <1>14, <1>a DEF Play, Moves, Plays
<1>15. QED
    BY <1>1, <1>2, <1>3, <1>4, <1>5, <1>6, <1>7, <1>8, <1>9, <1>10, <1>11, <1>12, <1>13, <1>14
       DEF Next, PlayThread, RunThread

LEMMA StepPacket ==
    Typed /\ [Next]_vars => \/ packet' \in {packet, NoPacket}
                            \/ packet' = <<next, seeks>> /\ next' = next + 1 /\ seeks' = seeks
<1> SUFFICES ASSUME Typed, [Next]_vars, packet' # packet, packet' # NoPacket
             PROVE  packet' = <<next, seeks>> /\ next' = next + 1 /\ seeks' = seeks
    OBVIOUS
<1> USE DEF loopVars
<1>1. CASE ReadPacket
    BY <1>1 DEF ReadPacket, readerVars
<1>2. CASE Key \/ Top \/ Seek \/ SeekRefused \/ FlushVideo \/ FlushAudio \/ SeekDone
    BY <1>2 DEF Key, Top, Seek, SeekRefused, FlushVideo, FlushAudio, Freed, SeekDone
<1>3. CASE Control \/ AddPacket \/ AtEof \/ PlayOut \/ EndPlay \/ ClockStarts \/ Done \/ UNCHANGED vars
    BY <1>3 DEF Control, AddPacket, Freed, AtEof, PlayOut, EndPlay, ClockStarts, Done, vars
<1>4. \A p \in Player : ~RunThread(p) /\ ~Play(p)
    BY DEF RunThread, RunTake, RunDrop, RunDecode, Play
<1>5. QED
    BY <1>1, <1>2, <1>3, <1>4 DEF Next, PlayThread

LEMMA PacketFacts ==
    /\ Eos \notin Packets /\ NoPacket \notin Packets
    /\ \A x \in Packets : x[1] \in Nat /\ x[2] \in Nat
<1>1. Eos \notin Packets
    BY NatBounds DEF Packets, Eos
<1>2. NoPacket \notin Packets
    BY PairNotEmpty DEF Packets
<1>3. QED
    BY <1>1, <1>2, NatBounds DEF Packets

LEMMA StaysHanded ==
    ASSUME Typed, Forth, NEW x \in Packets, Handed(x)
    PROVE  Handed(x)'
<1>1. x[1] \in Nat /\ x[2] \in Nat /\ seeks \in Nat /\ next \in Nat
    BY PacketFacts, NatBounds DEF Typed, TypeOK
<1>2. CASE seeks' = seeks + 1
    BY <1>1, <1>2 DEF Handed
<1>3. CASE seeks' = seeks /\ next' \in {next, next + 1}
    BY <1>1, <1>3 DEF Handed
<1>4. QED
    BY <1>2, <1>3 DEF Forth

\* Each kind of move keeps the packets of player p apart and known to the reader.
LEMMA MovesApart ==
    ASSUME Typed, Typed', Forth, NEW p \in Player, Moves(p), Apart(p),
           packet # NoPacket => Handed(packet), \A x \in Owns(p) : Handed(x)
    PROVE  Apart(p)' /\ \A x \in Owns(p)' : Handed(x)'
<1> DEFINE Q == Elements(queue[p])
           H == Held(hand[p])
           D == Elements(decoder[p])
<1>a. /\ queue[p] \in Seq(Packets) /\ hand[p] \in Packets \union {NoPacket}
      /\ decoder[p] \in Seq(Packets \union {Eos}) /\ packet \in Packets \union {NoPacket}
    BY DEF Typed, TypeOK
<1>b. Q \subseteq Packets /\ D \subseteq Packets /\ H \subseteq Packets
    <2>1. \A i \in DOMAIN queue[p] : queue[p][i] \in Packets
        BY <1>a
    <2>2. \A i \in DOMAIN decoder[p] : decoder[p][i] \in Packets \union {Eos}
        BY <1>a
    <2>3. QED
        BY <1>a, <2>1, <2>2 DEF Elements, Held
<1>c. /\ Distinct(queue[p]) /\ Distinct(decoder[p])
      /\ Q \cap D = {} /\ H \cap (Q \union D) = {} /\ Held(packet) \cap (Q \union H \union D) = {}
    BY DEF Apart, Owns
<1>d. \A x \in Q \union H \union D : Handed(x) /\ Handed(x)'
    <2>1. \A x \in Q \union H \union D : Handed(x)
        BY DEF Owns
    <2>2. QED
        BY <2>1, <1>b, StaysHanded
<1>e. \A x : x = packet /\ x # NoPacket => Handed(x)'
    <2>1. \A x \in Packets : Handed(x) => Handed(x)'
        BY StaysHanded
    <2>2. QED
        BY <1>a, <2>1
<1>f. ASSUME Distinct(queue'[p]), Distinct(decoder'[p]),
             Elements(queue'[p]) \cap Elements(decoder'[p]) = {},
             Held(hand'[p]) \cap (Elements(queue'[p]) \union Elements(decoder'[p])) = {},
             Held(packet') \cap (Elements(queue'[p]) \union Held(hand'[p]) \union Elements(decoder'[p])) = {},
             \A x \in Elements(queue'[p]) \union Held(hand'[p]) \union Elements(decoder'[p]) : Handed(x)'
      PROVE  Apart(p)' /\ \A x \in Owns(p)' : Handed(x)'
    BY <1>f DEF Apart, Owns
<1>g. Held(NoPacket) = {}
    BY DEF Held
<1> HIDE DEF Q, H, D
<1>1. CASE Loses(p)
    <2>1. Elements(queue'[p]) \subseteq Q /\ Distinct(queue'[p])
        BY <1>1, <1>c, EmptyElements DEF Loses, Q
    <2>2. Held(hand'[p]) \subseteq H /\ Held(packet') \subseteq Held(packet)
        BY <1>1, <1>g DEF Loses, H
    <2>3. Elements(decoder'[p]) \subseteq D /\ Distinct(decoder'[p])
        <3>1. CASE decoder'[p] \in {decoder[p], <<>>}
            BY <3>1, <1>c, EmptyElements DEF D
        <3>2. CASE decoder'[p] = Append(decoder[p], Eos)
            <4>1. Eos \notin Elements(decoder[p])
                BY DEF Elements
            <4>2. Eos \in Packets \union {Eos}
                OBVIOUS
            <4>3. QED
                BY <3>2, <4>1, <4>2, <1>a, <1>c, AppendElements DEF D
        <3>3. QED
            BY <1>1, <3>1, <3>2 DEF Loses
    <2>4. QED
        BY <2>1, <2>2, <2>3, <1>c, <1>d, <1>f
<1>2. CASE Reads(p)
    <2>1. Elements(queue'[p]) = Q /\ Held(hand'[p]) = H /\ Elements(decoder'[p]) = D
        BY <1>2 DEF Reads, Q, H, D
    <2>2. Distinct(queue'[p]) /\ Distinct(decoder'[p])
        BY <1>2, <1>c DEF Reads
    <2>3. packet' \notin Q \union H \union D
        <3>1. ~Handed(<<next, seeks>>)
            BY NatBounds DEF Handed, Typed, TypeOK
        <3>2. QED
            BY <3>1, <1>2, <1>d DEF Reads
    <2>4. QED
        BY <2>1, <2>2, <2>3, <1>c, <1>d, <1>f DEF Held
<1>3. CASE Accepts(p)
    <2>0. packet \in Packets /\ packet # Eos /\ Held(packet) = {packet}
        BY <1>3, <1>a, PacketFacts DEF Accepts, Held
    <2>1. /\ Elements(queue'[p]) = Q \union {packet}
          /\ Distinct(queue'[p])
        <3>1. packet \notin Elements(queue[p])
            BY <2>0, <1>c DEF Q
        <3>2. QED
            BY <2>0, <3>1, <1>3, <1>a, <1>c, AppendElements DEF Accepts, Q
    <2>2. Held(hand'[p]) = H /\ Elements(decoder'[p]) = D /\ Distinct(decoder'[p]) /\ Held(packet') = {}
        BY <1>3, <1>c, <1>g DEF Accepts, H, D
    <2>4. \A x \in Q \union {packet} \union H \union D : Handed(x)'
        BY <1>3, <1>d, <1>e DEF Accepts
    <2>5. (Q \union {packet}) \cap D = {} /\ H \cap (Q \union {packet} \union D) = {}
        BY <2>0, <1>c
    <2>6. QED
        BY <2>1, <2>2, <2>4, <2>5, <1>f
<1>4. CASE Takes(p)
    <2>1. /\ Elements(queue'[p]) \subseteq Q /\ Distinct(queue'[p])
          /\ Held(hand'[p]) \subseteq Q /\ Held(hand'[p]) \cap Elements(queue'[p]) = {}
        <3>1. /\ Elements(Tail(queue[p])) \subseteq Q /\ Distinct(Tail(queue[p]))
              /\ Head(queue[p]) \notin Elements(Tail(queue[p]))
              /\ Head(queue[p]) \in Q \union {Eos}
            BY <1>4, <1>a, <1>c, TailElements DEF Takes, Q
        <3>2. Head(queue[p]) \in Packets
            BY <1>4, <1>a DEF Takes
        <3>3. Head(queue[p]) # Eos
            BY <3>2, PacketFacts
        <3>4. Held(Head(queue[p])) = {Head(queue[p])}
            BY <3>2, PacketFacts DEF Held
        <3>5. QED
            BY <1>4, <3>1, <3>3, <3>4 DEF Takes
    <2>2. Elements(decoder'[p]) = D /\ Distinct(decoder'[p]) /\ Held(packet') = Held(packet)
        BY <1>4, <1>c DEF Takes, D
    <2>3. QED
        BY <2>1, <2>2, <1>c, <1>d, <1>f
<1>5. CASE Decodes(p)
    <2>0. hand[p] \in Packets /\ hand[p] # Eos /\ H = {hand[p]} /\ hand[p] \in Packets \union {Eos}
        BY <1>5, <1>a, PacketFacts DEF Decodes, Held, H
    <2>1. Elements(decoder'[p]) = D \union {hand[p]} /\ Distinct(decoder'[p])
        <3>1. hand[p] \notin Elements(decoder[p])
            BY <2>0, <1>c DEF D
        <3>2. QED
            BY <2>0, <3>1, <1>5, <1>a, <1>c, AppendElements DEF Decodes, D
    <2>2. Held(hand'[p]) = {} /\ Elements(queue'[p]) = Q /\ Distinct(queue'[p]) /\ Held(packet') = Held(packet)
        BY <1>5, <1>c, <1>g DEF Decodes, Q
    <2>3. \A x \in Q \union D \union {hand[p]} : Handed(x)'
        BY <2>0, <1>d
    <2>4. Q \cap (D \union {hand[p]}) = {} /\ Held(packet) \cap (Q \union D \union {hand[p]}) = {}
        BY <2>0, <1>c
    <2>5. QED
        BY <2>1, <2>2, <2>3, <2>4, <1>f
<1>6. CASE Plays(p)
    <2>1. Elements(decoder'[p]) \subseteq D /\ Distinct(decoder'[p])
        BY <1>6, <1>a, <1>c, TailElements DEF Plays, D
    <2>2. /\ Elements(queue'[p]) = Q /\ Held(hand'[p]) = H /\ Distinct(queue'[p])
          /\ Held(packet') = Held(packet)
        BY <1>6, <1>c DEF Plays, Q, H
    <2>3. QED
        BY <2>1, <2>2, <1>c, <1>d, <1>f
<1>7. QED
    BY <1>1, <1>2, <1>3, <1>4, <1>5, <1>6 DEF Moves

LEMMA InitOwners == Init => OwnerInv
<1> SUFFICES ASSUME Init PROVE OwnerInv
    OBVIOUS
<1>1. \A p \in Player : queue[p] = <<>> /\ hand[p] = NoPacket /\ decoder[p] = <<>>
    BY DEF Init
<1>2. packet = NoPacket /\ Held(NoPacket) = {}
    BY DEF Init, Held
<1>3. QED
    BY <1>1, <1>2, EmptyElements DEF OwnerInv, Apart, Owns

LEMMA StepOwners == Typed /\ Typed' /\ OwnerInv /\ [Next]_vars => OwnerInv'
<1> SUFFICES ASSUME Typed, Typed', OwnerInv, [Next]_vars PROVE OwnerInv'
    OBVIOUS
<1>1. Forth /\ \A p \in Player : Moves(p)
    BY StepForth, StepMoves
<1>2. \A p \in Player : Apart(p)' /\ \A x \in Owns(p)' : Handed(x)'
    BY <1>1, MovesApart DEF OwnerInv
<1>3. packet' # NoPacket => Handed(packet)'
    <2>1. CASE packet' \in {packet, NoPacket}
        <3>1. packet \in Packets \union {NoPacket} /\ (packet # NoPacket => Handed(packet))
            BY DEF Typed, TypeOK, OwnerInv
        <3>2. \A x \in Packets : Handed(x) => Handed(x)'
            BY <1>1, StaysHanded
        <3>3. \A x : x = packet' /\ x # NoPacket => Handed(x)'
            BY <2>1, <3>1, <3>2
        <3>4. QED
            BY <3>3 DEF Handed
    <2>2. CASE packet' = <<next, seeks>> /\ next' = next + 1 /\ seeks' = seeks
        <3>1. next \in Nat /\ seeks \in Nat
            BY NatBounds DEF Typed, TypeOK
        <3>2. QED
            BY <2>2, <3>1 DEF Handed
    <2>3. QED
        BY <2>1, <2>2, StepPacket
<1>4. QED
    BY <1>2, <1>3 DEF OwnerInv

LEMMA OwnersAreOne == Typed /\ OwnerInv => OneOwner
<1> SUFFICES ASSUME Typed, OwnerInv PROVE OneOwner
    OBVIOUS
<1>1. TypeOK
    BY DEF Typed
<1>2. ASSUME NEW p \in Player
      PROVE  /\ Queued(p) = Elements(queue[p]) /\ Playing(p) = Elements(decoder[p])
             /\ \A i, j \in DOMAIN queue[p] : queue[p][i] = queue[p][j] => i = j
             /\ \A i, j \in Fed(p) : decoder[p][i] = decoder[p][j] => i = j
    <2>1. \A i \in DOMAIN queue[p] : queue[p][i] # Eos
        BY <1>1, PacketFacts DEF TypeOK
    <2>2. Distinct(queue[p]) /\ Distinct(decoder[p])
        BY DEF OwnerInv, Apart
    <2>3. QED
        BY <2>1, <2>2 DEF Queued, Playing, Fed, Told, Elements, Distinct
<1>3. QED
    BY <1>1, <1>2 DEF OneOwner, OwnerInv, Apart, Owns

\* A packet has one owner: what a player accepted the loop forgets, and nothing is queued,
\* held or decoded twice (addPacket, run, cOmxPlayer::flush); the state is well typed.
THEOREM PacketsHaveOneOwner == Spec => []OneOwner
<1>1. Init => Typed /\ OwnerInv
    BY InitTyped, InitOwners
<1>2. Typed /\ OwnerInv /\ [Next]_vars => Typed' /\ OwnerInv'
    BY StepPlaces, StepTypes, StepOwners DEF Typed
<1>3. QED
    BY <1>1, <1>2, OwnersAreOne, PTL DEF Spec

-------------------------------------------------------------------------------
(* The end of the stream.  A decoder is told of it once, with the queue    *)
(* empty and the file read, so only the packet in run's hand comes after.  *)

\* The end of stream in what a decoder was fed, and the packets it overtook.
ToldIn(s) == {i \in DOMAIN s : s[i] = Eos}
BehindIn(s) == {i \in DOMAIN s : s[i] # Eos /\ \A k \in ToldIn(s) : k < i}
AtMostOne(S) == \A x, y \in S : x = y

LEMMA AppendEnds ==
    ASSUME NEW S, NEW s \in Seq(S), NEW e \in S
    PROVE  /\ e = Eos /\ ToldIn(s) = {} => AtMostOne(ToldIn(Append(s, e))) /\ BehindIn(Append(s, e)) = {}
           /\ e # Eos => /\ ToldIn(Append(s, e)) = ToldIn(s)
                         /\ BehindIn(s) = {} => AtMostOne(BehindIn(Append(s, e)))
<1> DEFINE t == Append(s, e)
<1>1. /\ Len(s) \in Nat /\ DOMAIN s = 1..Len(s) /\ DOMAIN t = 1..(Len(s) + 1)
      /\ \A i \in 1..Len(s) : t[i] = s[i]
      /\ t[Len(s) + 1] = e
    OBVIOUS
<1> HIDE DEF t
<1>2. ASSUME e = Eos, ToldIn(s) = {} PROVE AtMostOne(ToldIn(t)) /\ BehindIn(t) = {}
    <2>1. \A i \in DOMAIN t : t[i] = Eos <=> i = Len(s) + 1
        <3>1. \A i \in DOMAIN s : s[i] # Eos
            BY <1>2 DEF ToldIn
        <3>2. \A i \in DOMAIN t : i # Len(s) + 1 => i \in 1..Len(s)
            BY <1>1
        <3>3. QED
            BY <1>1, <1>2, <3>1, <3>2
    <2>2. ToldIn(t) = {Len(s) + 1}
        BY <1>1, <2>1 DEF ToldIn
    <2>3. \A i \in DOMAIN t : ~(Len(s) + 1 < i)
        BY <1>1
    <2>4. QED
        BY <2>2, <2>3 DEF AtMostOne, BehindIn
<1>3. ASSUME e # Eos PROVE ToldIn(t) = ToldIn(s)
    <2>1. \A i \in DOMAIN t : t[i] = Eos => i \in DOMAIN s /\ s[i] = Eos
        <3>1. \A i \in DOMAIN t : i # Len(s) + 1 => i \in 1..Len(s)
            BY <1>1
        <3>2. QED
            BY <1>1, <1>3, <3>1
    <2>2. \A i \in DOMAIN s : i \in DOMAIN t /\ t[i] = s[i]
        BY <1>1
    <2>3. QED
        BY <2>1, <2>2 DEF ToldIn
<1>4. ASSUME e # Eos, BehindIn(s) = {} PROVE AtMostOne(BehindIn(t))
    <2>1. ASSUME NEW i \in BehindIn(t) PROVE i = Len(s) + 1
        <3>1. SUFFICES ASSUME i \in 1..Len(s) PROVE FALSE
            BY <1>1 DEF BehindIn
        <3>2. i \in BehindIn(s)
            BY <1>1, <1>3, <1>4, <2>1, <3>1 DEF BehindIn
        <3>3. QED
            BY <3>2, <1>4
    <2>2. QED
        BY <2>1 DEF AtMostOne
<1>5. QED
    BY <1>2, <1>3, <1>4 DEF t

LEMMA TailEnds ==
    ASSUME NEW S, NEW s \in Seq(S), s # <<>>, AtMostOne(ToldIn(s))
    PROVE  /\ Head(s) = Eos => ToldIn(s) # {} /\ ToldIn(Tail(s)) = {}
           /\ ToldIn(s) = {} => ToldIn(Tail(s)) = {}
           /\ AtMostOne(ToldIn(Tail(s)))
           /\ AtMostOne(BehindIn(s)) => AtMostOne(BehindIn(Tail(s)))
           /\ BehindIn(s) = {} => BehindIn(Tail(s)) = {}
<1> DEFINE t == Tail(s)
<1>1. /\ Len(s) \in Nat \ {0} /\ DOMAIN s = 1..Len(s) /\ DOMAIN t = 1..(Len(s) - 1)
      /\ Head(s) = s[1]
      /\ \A i \in 1..(Len(s) - 1) : t[i] = s[i + 1]
    OBVIOUS
<1> HIDE DEF t
<1>2. \A i \in DOMAIN t : i \in Nat \ {0} /\ i + 1 \in DOMAIN s /\ t[i] = s[i + 1]
    BY <1>1
<1>3. 1 \in DOMAIN s /\ Head(s) = s[1] /\ DOMAIN s \subseteq Nat \ {0}
    BY <1>1
<1>4. \A i \in ToldIn(t) : i \in Nat \ {0} /\ i + 1 \in ToldIn(s)
    BY <1>2 DEF ToldIn
<1>5. AtMostOne(ToldIn(t))
    <2>1. \A i, j \in ToldIn(t) : i + 1 = j + 1
        BY <1>4 DEF AtMostOne
    <2>2. QED
        BY <1>4, <2>1 DEF AtMostOne
<1>6. Head(s) = Eos => 1 \in ToldIn(s) /\ ToldIn(t) = {}
    <2>1. ASSUME Head(s) = Eos, NEW i \in ToldIn(t) PROVE FALSE
        <3>1. 1 \in ToldIn(s) /\ i + 1 \in ToldIn(s) /\ i + 1 # 1
            BY <1>3, <1>4, <2>1 DEF ToldIn
        <3>2. QED
            BY <3>1 DEF AtMostOne
    <2>2. QED
        BY <2>1, <1>3 DEF ToldIn
<1>7. \A i \in BehindIn(t) : i \in Nat \ {0} /\ i + 1 \in BehindIn(s)
    <2>1. SUFFICES ASSUME NEW i \in BehindIn(t) PROVE i \in Nat \ {0} /\ i + 1 \in BehindIn(s)
        OBVIOUS
    <2>2. i \in DOMAIN t /\ t[i] # Eos /\ \A k \in ToldIn(t) : k < i
        BY <2>1 DEF BehindIn
    <2>3. ASSUME NEW k \in ToldIn(s) PROVE k < i + 1
        <3>1. k \in DOMAIN s /\ s[k] = Eos /\ k \in 1..Len(s)
            BY <1>1, <2>3 DEF ToldIn
        <3>2. CASE k = 1
            BY <3>2, <2>2, <1>2
        <3>3. CASE k # 1
            <4>1. k - 1 \in DOMAIN t /\ t[k - 1] = s[(k - 1) + 1] /\ (k - 1) + 1 = k
                BY <3>1, <3>3, <1>1
            <4>2. k - 1 \in ToldIn(t)
                BY <4>1, <3>1 DEF ToldIn
            <4>3. k - 1 < i
                BY <4>2, <2>2
            <4>4. QED
                BY <4>3, <3>1, <2>2, <1>2
        <3>4. QED
            BY <3>2, <3>3
    <2>4. QED
        BY <1>2, <2>2, <2>3 DEF BehindIn
<1>8. ASSUME AtMostOne(BehindIn(s)) PROVE AtMostOne(BehindIn(t))
    <2>1. \A i, j \in BehindIn(t) : i + 1 = j + 1
        BY <1>7, <1>8 DEF AtMostOne
    <2>2. QED
        BY <1>7, <2>1 DEF AtMostOne
<1>9. QED
    BY <1>4, <1>5, <1>6, <1>7, <1>8 DEF t

LEMMA EmptyEnds == ToldIn(<<>>) = {} /\ BehindIn(<<>>) = {}
BY DEF ToldIn, BehindIn

-------------------------------------------------------------------------------
\* Between a seek and its flush a player may be told of an end that is no longer one.
FlushDue(p) == pc = "flushVideo" \/ (p = "aud" /\ pc = "flushAudio")
\* The player's decoder was told the end of the stream since its last flush ...
Ended(p) == ToldIn(decoder[p]) # {} \/ (eos[p] /\ ~oldEos[p])
\* ... once, when nothing was left but the one packet in run's hand.
EndsOf(p) ==
    ~FlushDue(p) /\ Ended(p) =>
        /\ mEof /\ packet = NoPacket /\ submitEos /\ queue[p] = <<>>
        /\ AtMostOne(ToldIn(decoder[p])) /\ AtMostOne(BehindIn(decoder[p]))
        /\ eos[p] /\ ~oldEos[p] => ToldIn(decoder[p]) = {}
        /\ BehindIn(decoder[p]) # {} => hand[p] = NoPacket
AtEnd == pc = "ended" /\ ~mEntered => \A p \in Player : IsEos(p)
EndInv == AtEnd /\ \A p \in Player : EndsOf(p)

LEMMA InitEnd == Init => EndInv
BY EmptyEnds DEF Init, EndInv, AtEnd, EndsOf, Ended

\* A step that tells player p's decoder nothing new keeps what is known of its end.
Quiet(p) ==
    /\ FlushDue(p) => FlushDue(p)'
    /\ mEof' = mEof /\ submitEos' = submitEos /\ packet' \in {packet, NoPacket}
    /\ queue'[p] \in {queue[p], <<>>} /\ hand'[p] \in {hand[p], NoPacket}
    /\ decoder'[p] = decoder[p] /\ eos'[p] = eos[p] /\ oldEos'[p] = oldEos[p]
Flushed(p) == decoder'[p] = <<>> /\ (eos'[p] => oldEos'[p])

LEMMA QuietEnds == ASSUME NEW p \in Player, EndsOf(p), Quiet(p) PROVE EndsOf(p)'
BY DEF EndsOf, Quiet, Ended

LEMMA FlushedEnds == ASSUME NEW p \in Player, Flushed(p) PROVE EndsOf(p)'
BY EmptyEnds DEF EndsOf, Flushed, Ended

LEMMA StepEnds == Typed /\ EndInv /\ [Next]_vars => \A p \in Player : EndsOf(p)'
<1> SUFFICES ASSUME Typed, EndInv, [Next]_vars, NEW p \in Player PROVE EndsOf(p)'
    OBVIOUS
<1>a. /\ queue \in [Player -> Seq(Packets)] /\ hand \in [Player -> Packets \union {NoPacket}]
      /\ decoder \in [Player -> Seq(Packets \union {Eos})]
      /\ eos \in [Player -> BOOLEAN] /\ oldEos \in [Player -> BOOLEAN]
      /\ EndsOf(p) /\ Places /\ p \in {"vid", "aud"}
    BY PlayerAssumption DEF Typed, TypeOK, EndInv
<1> USE DEF loopVars, readerVars, keyVars, pipeVars, decoderVars
<1>1. CASE Key \/ Top \/ SeekRefused \/ Control
    <2>1. Quiet(p)
        BY <1>1 DEF Key, Top, SeekRefused, Control, Quiet, FlushDue
    <2>2. QED
        BY <2>1, <1>a, QuietEnds
<1>2. CASE PlayOut \/ EndPlay \/ ClockStarts \/ Done \/ UNCHANGED vars
    <2>1. Quiet(p)
        BY <1>2 DEF PlayOut, EndPlay, ClockStarts, Done, vars, Quiet, FlushDue
    <2>2. QED
        BY <2>1, <1>a, QuietEnds
<1>3. CASE Seek
    BY <1>3 DEF Seek, EndsOf, FlushDue
<1>b. ASSUME NEW q \in Player, FlushPlayer(q), ClearEos(q)
      PROVE  IF p = q THEN Flushed(p)
             ELSE /\ queue'[p] = queue[p] /\ hand'[p] = hand[p] /\ decoder'[p] = decoder[p]
                  /\ eos'[p] = eos[p] /\ oldEos'[p] = oldEos[p]
    BY <1>a, <1>b DEF FlushPlayer, ClearEos, Flushed
<1>4. CASE FlushVideo
    <2>1. CASE p = "aud"
        BY <1>4, <2>1 DEF FlushVideo, EndsOf, FlushDue
    <2>2. CASE p = "vid"
        BY <1>4, <2>2, <1>b, FlushedEnds DEF FlushVideo
    <2>3. QED
        BY <1>a, <2>1, <2>2
<1>5. CASE FlushAudio
    <2>1. CASE p = "aud"
        BY <1>5, <2>1, <1>b, FlushedEnds DEF FlushAudio
    <2>2. CASE p = "vid"
        <3>1. CASE "aud" \in Player
            BY <1>5, <2>2, <3>1, <1>a, <1>b, QuietEnds DEF FlushAudio, Freed, Quiet, FlushDue
        <3>2. CASE "aud" \notin Player
            BY <1>5, <2>2, <3>2, <1>a, QuietEnds DEF FlushAudio, Freed, Quiet, FlushDue
        <3>3. QED
            BY <3>1, <3>2
    <2>3. QED
        BY <1>a, <2>1, <2>2
<1>6. CASE SeekDone
    <2>0. /\ pc = "reset" /\ pc' = "control" /\ UNCHANGED <<packet, submitEos, mEof>>
        BY <1>6 DEF SeekDone
    <2>1. CASE p = "vid"
        <3>1. decoder'[p] = <<>> /\ ClearEos(p)
            BY <1>6, <2>1, <1>a DEF SeekDone
        <3>2. Flushed(p)
            BY <3>1, <1>a DEF Flushed, ClearEos
        <3>3. QED
            BY <3>2, FlushedEnds
    <2>2. CASE p = "aud"
        <3>1. CASE "vid" \in Player
            <4>1. PICK h \in {hand["vid"], NoPacket} : hand' = [hand EXCEPT !["vid"] = h]
                BY <1>6, <3>1 DEF SeekDone
            <4>2. /\ queue'[p] = queue[p] /\ hand'[p] = hand[p] /\ decoder'[p] = decoder[p]
                  /\ eos'[p] = eos[p] /\ oldEos'[p] = oldEos[p]
                BY <1>6, <2>2, <3>1, <4>1, <1>a DEF SeekDone, ClearEos
            <4>3. QED
                BY <2>0, <4>2, <1>a, QuietEnds DEF Quiet, FlushDue
        <3>2. CASE "vid" \notin Player
            BY <1>6, <2>0, <3>2, <1>a, QuietEnds DEF SeekDone, Quiet, FlushDue
        <3>3. QED
            BY <3>1, <3>2
    <2>3. QED
        BY <1>a, <2>1, <2>2
<1>7. CASE ReadPacket
    <2>1. pc = "read" /\ pc' # "flushVideo" /\ pc' # "flushAudio" /\ UNCHANGED <<submitEos, queue, hand, decoder, eos, oldEos>>
        BY <1>7 DEF ReadPacket
    <2>2. CASE Ended(p)
        <3>1. mEof /\ packet = NoPacket
            BY <2>1, <2>2, <1>a DEF EndsOf, FlushDue
        <3>2. UNCHANGED <<mEof, packet>>
            BY <1>7, <3>1 DEF ReadPacket
        <3>3. QED
            BY <2>1, <3>2, <1>a, QuietEnds DEF Quiet, FlushDue
    <2>3. CASE ~Ended(p)
        BY <2>1, <2>3 DEF EndsOf, Ended
    <2>4. QED
        BY <2>2, <2>3
<1>8. CASE AddPacket
    <2>1. ~Ended(p)
        BY <1>8, <1>a DEF AddPacket, Places, EndsOf, FlushDue
    <2>2. QED
        BY <1>8, <2>1 DEF AddPacket, EndsOf, Ended
<1>9. CASE AtEof
    <2>0. /\ pc = "eof" /\ pc' \in {"playout", "top"} /\ mEof /\ packet = NoPacket
          /\ UNCHANGED <<mEof, packet, queue, hand, eos, oldEos>>
        BY <1>9, <1>a DEF AtEof, Places
    <2>1. CASE decoder'[p] = decoder[p] /\ submitEos' = submitEos
        BY <2>0, <2>1, <1>a, QuietEnds DEF Quiet, FlushDue
    <2>2. CASE ~submitEos /\ submitEos' /\ QueuesEmpty /\ SubmitEos
        <3>1. ~Ended(p) /\ queue[p] = <<>>
            BY <2>0, <2>2, <1>a DEF EndsOf, FlushDue, QueuesEmpty
        <3>2. ToldIn(decoder[p]) = {} /\ ~(eos[p] /\ ~oldEos[p])
            BY <3>1 DEF Ended
        <3>3. CASE decoder'[p] = Append(decoder[p], Eos)
            <4>1. AtMostOne(ToldIn(decoder'[p])) /\ BehindIn(decoder'[p]) = {}
                <5>1. Eos \in Packets \union {Eos}
                    OBVIOUS
                <5>2. QED
                    BY <3>2, <3>3, <5>1, <1>a, AppendEnds
            <4>2. QED
                BY <4>1, <3>1, <3>2, <2>0, <2>2 DEF EndsOf, AtMostOne
        <3>4. CASE decoder'[p] = decoder[p]
            BY <3>2, <3>4, <2>0 DEF EndsOf, Ended
        <3>5. QED
            BY <2>2, <3>3, <3>4 DEF SubmitEos
    <2>3. QED
        BY <1>9, <2>1, <2>2 DEF AtEof, Typed, TypeOK
<1>10. ASSUME NEW q \in Player, RunThread(q) \/ Play(q), q # p PROVE EndsOf(p)'
    <2>1. Quiet(p)
        BY <1>10, <1>a DEF RunThread, RunTake, RunDrop, RunDecode, Play, Quiet, FlushDue
    <2>2. QED
        BY <2>1, <1>a, QuietEnds
<1>11. CASE RunTake(p)
    BY <1>11, <1>a DEF RunTake, EndsOf, Ended, FlushDue
<1>12. CASE RunDrop(p)
    <2>1. Quiet(p)
        BY <1>12, <1>a DEF RunDrop, Quiet, FlushDue
    <2>2. QED
        BY <2>1, <1>a, QuietEnds
<1>13. CASE RunDecode(p)
    <2>1. /\ UNCHANGED <<pc, mEof, submitEos, packet, queue, eos, oldEos>>
          /\ hand[p] \in Packets /\ hand'[p] = NoPacket /\ decoder'[p] = Append(decoder[p], hand[p])
        BY <1>13, <1>a DEF RunDecode
    <2>2. hand[p] # Eos /\ hand[p] # NoPacket /\ hand[p] \in Packets \union {Eos}
        BY <2>1, PacketFacts
    <2>3. /\ ToldIn(decoder'[p]) = ToldIn(decoder[p])
          /\ BehindIn(decoder[p]) = {} => AtMostOne(BehindIn(decoder'[p]))
        BY <2>1, <2>2, <1>a, AppendEnds
    <2>4. QED
        BY <2>1, <2>2, <2>3, <1>a DEF EndsOf, Ended, FlushDue
<1>14. CASE Play(p)
    <2>1. /\ UNCHANGED <<pc, mEof, submitEos, packet, queue, hand, oldEos>>
          /\ decoder[p] # <<>> /\ decoder'[p] = Tail(decoder[p])
          /\ eos'[p] = (eos[p] \/ Head(decoder[p]) = Eos)
        BY <1>14, <1>a DEF Play
    <2>2. CASE FlushDue(p)
        BY <2>1, <2>2 DEF EndsOf, FlushDue
    <2>3. CASE ~FlushDue(p) /\ Ended(p)
        <3>1. /\ mEof /\ packet = NoPacket /\ submitEos /\ queue[p] = <<>>
              /\ AtMostOne(ToldIn(decoder[p])) /\ AtMostOne(BehindIn(decoder[p]))
              /\ eos[p] /\ ~oldEos[p] => ToldIn(decoder[p]) = {}
              /\ BehindIn(decoder[p]) # {} => hand[p] = NoPacket
            BY <2>3, <1>a DEF EndsOf
        <3>2. /\ Head(decoder[p]) = Eos => ToldIn(decoder'[p]) = {}
              /\ ToldIn(decoder[p]) = {} => ToldIn(decoder'[p]) = {}
              /\ AtMostOne(ToldIn(decoder'[p])) /\ AtMostOne(BehindIn(decoder'[p]))
              /\ BehindIn(decoder[p]) = {} => BehindIn(decoder'[p]) = {}
            BY <2>1, <3>1, <1>a, TailEnds
        <3>3. QED
            BY <2>1, <3>1, <3>2 DEF EndsOf
    <2>4. CASE ~Ended(p)
        <3>1. ToldIn(decoder[p]) = {} /\ ~(eos[p] /\ ~oldEos[p])
            BY <2>4 DEF Ended
        <3>2. Head(decoder[p]) # Eos /\ ToldIn(decoder'[p]) = {}
            <4>1. AtMostOne(ToldIn(decoder[p]))
                BY <3>1 DEF AtMostOne
            <4>2. QED
                BY <2>1, <3>1, <4>1, <1>a, TailEnds
        <3>3. QED
            BY <2>1, <3>1, <3>2 DEF EndsOf, Ended
    <2>5. QED
        BY <2>2, <2>3, <2>4
<1>15. QED
    BY <1>1, <1>2, <1>3, <1>4, <1>5, <1>6, <1>7, <1>8, <1>9, <1>10, <1>11, <1>12, <1>13, <1>14
       DEF Next, PlayThread, RunThread

LEMMA StepAtEnd == Typed /\ EndInv /\ [Next]_vars => AtEnd'
<1> SUFFICES ASSUME Typed, EndInv, [Next]_vars, pc' = "ended", ~mEntered', NEW p \in Player
             PROVE  IsEos(p)'
    BY DEF AtEnd
<1>a. /\ pc = "ended" /\ ~mEntered => IsEos(p)
      /\ queue \in [Player -> Seq(Packets)] /\ eos \in [Player -> BOOLEAN]
    BY DEF EndInv, AtEnd, Typed, TypeOK
<1> USE DEF loopVars, readerVars, keyVars, pipeVars, decoderVars, IsEos
<1>1. CASE Key \/ Top \/ Seek \/ SeekRefused \/ FlushVideo \/ FlushAudio \/ SeekDone \/ Control
    BY <1>1, <1>a DEF Key, Top, Seek, SeekRefused, FlushVideo, FlushAudio, SeekDone, Control
<1>2. CASE ReadPacket \/ AddPacket \/ AtEof \/ PlayOut \/ EndPlay \/ ClockStarts
    BY <1>2, <1>a DEF ReadPacket, AddPacket, AtEof, PlayOut, EndPlay, ClockStarts
<1>3. CASE Done \/ UNCHANGED vars
    BY <1>3, <1>a DEF Done, vars
<1>4. ASSUME NEW q \in Player, RunThread(q) PROVE IsEos(p)'
    BY <1>4, <1>a DEF RunThread, RunTake, RunDrop, RunDecode
<1>5. ASSUME NEW q \in Player, Play(q) PROVE IsEos(p)'
    BY <1>5, <1>a DEF Play
<1>6. QED
    BY <1>1, <1>2, <1>3, <1>4, <1>5 DEF Next, PlayThread

LEMMA EndExplains == EndInv => LossExplained
<1> SUFFICES ASSUME EndInv, pc = "ended", ~mEntered, NEW p \in Player, ~mFailedEos[p], ~oldEos[p]
             PROVE  \A x, y \in Unplayed(p) : x = y
    BY DEF LossExplained
<1>1. queue[p] = <<>> /\ eos[p] /\ EndsOf(p)
    BY DEF EndInv, AtEnd, IsEos
<1>2. /\ ToldIn(decoder[p]) = {} /\ AtMostOne(BehindIn(decoder[p]))
      /\ BehindIn(decoder[p]) # {} => hand[p] = NoPacket
    BY <1>1 DEF EndsOf, Ended, FlushDue
<1>3. Queued(p) = {} /\ Fed(p) = BehindIn(decoder[p])
    BY <1>1, <1>2 DEF Queued, Fed, Told, ToldIn, BehindIn
<1>4. QED
    BY <1>2, <1>3 DEF Unplayed, Held, Playing, AtMostOne

\* A loop that ends by itself leaves a packet unplayed only where submitEOS failed, the end
\* was one from before the seek, or it overtook the one packet in run's hand (playLoop).
THEOREM LossIsExplained == Spec => []LossExplained
<1>1. Init => Typed /\ EndInv
    BY InitTyped, InitEnd
<1>2. Typed /\ EndInv /\ [Next]_vars => Typed' /\ EndInv'
    BY StepPlaces, StepTypes, StepEnds, StepAtEnd DEF Typed, EndInv
<1>3. QED
    BY <1>1, <1>2, EndExplains, PTL DEF Spec

-------------------------------------------------------------------------------
(* Each player is a packet pipe.                                           *)

\* endPlay leaves nothing in a player (its destructor).
NothingAtEnd == pc = "done" => \A p \in Player : queue[p] = <<>> /\ hand[p] = NoPacket

LEMMA InitNothingAtEnd == Init => NothingAtEnd
BY DEF Init, NothingAtEnd

LEMMA StepNothingAtEnd == NothingAtEnd /\ [Next]_vars => NothingAtEnd'
<1> SUFFICES ASSUME NothingAtEnd, [Next]_vars PROVE NothingAtEnd'
    OBVIOUS
<1>1. CASE EndPlay
    BY <1>1 DEF EndPlay, NothingAtEnd
<1>2. CASE PlayThread /\ ~EndPlay
    BY <1>2 DEF PlayThread, Top, Seek, SeekRefused, FlushVideo, FlushAudio, SeekDone, Control,
       ReadPacket, AddPacket, AtEof, PlayOut, NothingAtEnd
<1>3. CASE Key \/ ClockStarts \/ Done \/ UNCHANGED vars
    BY <1>3 DEF Key, ClockStarts, Done, vars, pipeVars, NothingAtEnd
<1>4. ASSUME NEW p \in Player, RunThread(p) \/ Play(p) PROVE NothingAtEnd'
    BY <1>4 DEF RunThread, RunTake, RunDrop, RunDecode, Play, pipeVars, NothingAtEnd
<1>5. QED
    BY <1>1, <1>2, <1>3, <1>4 DEF Next

\* What is on the way, with a packet in hand and without.
LEMMA OnTheWayCases ==
    ASSUME TypeOK, NEW p \in Player
    PROVE  /\ hand[p] = NoPacket => OnTheWay(p) = queue[p]
           /\ hand[p] # NoPacket => /\ OnTheWay(p) # <<>> /\ Head(OnTheWay(p)) = hand[p]
                                    /\ Tail(OnTheWay(p)) = queue[p]
<1>1. queue[p] \in Seq(Packets) /\ hand[p] \in Packets \union {NoPacket}
    BY DEF TypeOK
<1>2. ASSUME NEW S, NEW h \in S, NEW q \in Seq(S)
      PROVE  LET w == <<h>> \o q IN w # <<>> /\ Head(w) = h /\ Tail(w) = q
    OBVIOUS
<1>3. QED
    BY <1>1, <1>2 DEF OnTheWay

\* An accepted packet goes to the end of what is on the way.
LEMMA AppendOnTheWay ==
    ASSUME NEW S, NEW h \in S, NEW q \in Seq(S), NEW e \in S
    PROVE  <<h>> \o Append(q, e) = Append(<<h>> \o q, e)
OBVIOUS

\* Taking the head of the queue in hand leaves what is on the way as it is.
LEMMA TakeOnTheWay ==
    ASSUME NEW S, NEW q \in Seq(S), q # <<>>
    PROVE  Head(q) \in S /\ <<Head(q)>> \o Tail(q) = q
OBVIOUS

\* A flush and a close leave at most the packet in hand.
LEMMA EmptiedOnTheWay ==
    ASSUME TypeOK, NEW p \in Player, queue'[p] = <<>>, hand'[p] \in {hand[p], NoPacket}
    PROVE  Pipe(p)!Emptied
<1>1. CASE hand'[p] = NoPacket
    BY <1>1 DEF Pipe!Emptied, OnTheWay
<1>2. CASE hand'[p] # NoPacket
    <2>1. hand'[p] = hand[p] /\ hand[p] \in Packets
        BY <1>2 DEF TypeOK
    <2>2. ASSUME NEW S, NEW h \in S PROVE <<h>> \o <<>> = <<h>>
        OBVIOUS
    <2>3. OnTheWay(p)' = <<hand[p]>>
        BY <1>2, <2>1, <2>2 DEF OnTheWay
    <2>4. QED
        BY <1>2, <2>1, <2>3, OnTheWayCases DEF Pipe!Emptied
<1>3. QED
    BY <1>1, <1>2

PipesInv == Typed /\ NothingAtEnd

\* What the steps of a player and those of the loop may do to the pipe of player p.
Alone(p) == UNCHANGED <<queue[p], hand[p], mFlush[p], decoder[p]>>

\* An action that keeps a player's packets and moves pc on, by what the move means to its pipe.
LEMMA MovesOfLoop ==
    ASSUME NEW p \in Player, Alone(p)
    PROVE  /\ UNCHANGED <<Flushing(p), Phase>> => UNCHANGED Pipe(p)!vars
           /\ Phase' = Phase /\ ~Flushing(p) /\ Flushing(p)' => Pipe(p)!RequestFlush
           /\ /\ Phase = "open" /\ Phase' = "closing" /\ ~Flushing(p)
              /\ UNCHANGED Flushing(p)
              => Pipe(p)!RequestClose
<1>1. UNCHANGED <<OnTheWay(p), decoder[p], mFlush[p]>>
    BY DEF Alone, OnTheWay
<1>2. Flushing(p)' => Flushing(p)' = TRUE
    BY DEF Flushing
<1>3. QED
    BY <1>1, <1>2 DEF Pipe!vars, Pipe!RequestFlush, Pipe!RequestClose

\* A flush of player p, alone or as the first part of reset.
LEMMA FlushOfLoop ==
    ASSUME TypeOK, NEW p \in Player, queue'[p] = <<>>, hand'[p] \in {hand[p], NoPacket},
           mFlush'[p] \in BOOLEAN, decoder'[p] = <<>>, UNCHANGED Phase,
           Phase # "closed", Flushing(p), ~Flushing(p)'
    PROVE  Pipe(p)!Flush
<1>1. Flushing(p)' = FALSE
    BY DEF Flushing
<1>2. QED
    BY <1>1, EmptiedOnTheWay DEF Pipe!Flush

\* Every step of the loop, the keyboard and the run threads is one of p's pipe or leaves it alone.
LEMMA StepPipe ==
    ASSUME PipesInv, [Next]_vars, NEW p \in Player
    PROVE  Pipe(p)!Next \/ UNCHANGED Pipe(p)!vars
<1>a. /\ TypeOK /\ NothingAtEnd /\ Places
      /\ p \in {"vid", "aud"} /\ queue[p] \in Seq(Packets) /\ mFlush[p] \in BOOLEAN
    BY PlayerAssumption DEF PipesInv, Typed, TypeOK
<1>b. /\ UNCHANGED <<pipeVars, decoder>> => Alone(p)
      /\ UNCHANGED decoderVars => UNCHANGED decoder
    BY DEF pipeVars, decoderVars, Alone
<1>1. CASE PlayThread
  <2>1. CASE Top \/ PlayOut
    <3>1. /\ Alone(p) /\ ~Flushing(p) /\ ~Flushing(p)' /\ Phase = "open"
          /\ Phase' \in {"open", "closing"}
        BY <1>b, <2>1 DEF Top, PlayOut, Flushing, Phase
    <3>2. UNCHANGED Flushing(p)
        BY <3>1 DEF Flushing
    <3>3. QED
        BY <3>1, <3>2, MovesOfLoop DEF Pipe!Next
  <2>2. CASE Seek \/ SeekRefused
    <3>1. Alone(p) /\ UNCHANGED Phase
        BY <1>b, <2>2 DEF Seek, SeekRefused, Phase
    <3>2. CASE p = "vid"
      <4>1. ~Flushing(p) /\ Flushing(p)'
          BY <2>2, <3>2 DEF Seek, SeekRefused, Flushing
      <4>2. QED
          BY <3>1, <4>1, MovesOfLoop DEF Pipe!Next
    <3>3. CASE p = "aud"
      <4>1. UNCHANGED Flushing(p)
          BY <2>2, <3>3 DEF Seek, SeekRefused, Flushing
      <4>2. QED
          BY <3>1, <4>1, MovesOfLoop
    <3>4. QED
        BY <1>a, <3>2, <3>3
  <2>3. CASE FlushVideo
    <3>1. UNCHANGED Phase /\ Phase # "closed"
        BY <2>3 DEF FlushVideo, Phase
    <3>2. CASE p = "vid"
      <4>1. /\ queue'[p] = <<>> /\ hand'[p] \in {hand[p], NoPacket} /\ mFlush'[p] \in BOOLEAN
            /\ decoder'[p] = <<>>
          BY <1>a, <2>3, <3>2 DEF FlushVideo, FlushPlayer, MarkFlushed, TypeOK
      <4>2. Flushing(p) /\ ~Flushing(p)'
          BY <2>3, <3>2 DEF FlushVideo, Flushing
      <4>3. QED
          BY <1>a, <3>1, <4>1, <4>2, FlushOfLoop DEF Pipe!Next
    <3>3. CASE p = "aud"
      <4>1. Alone(p)
          BY <1>a, <1>b, <2>3, <3>3 DEF FlushVideo, FlushPlayer, Alone, TypeOK
      <4>2. ~Flushing(p) /\ Flushing(p)'
          BY <2>3, <3>3 DEF FlushVideo, Flushing
      <4>3. QED
          BY <3>1, <4>1, <4>2, MovesOfLoop DEF Pipe!Next
    <3>4. QED
        BY <1>a, <3>2, <3>3
  <2>4. CASE FlushAudio
    <3>1. UNCHANGED Phase /\ Phase # "closed"
        BY <2>4 DEF FlushAudio, Phase
    <3>2. CASE p = "aud"
      <4>1. /\ queue'[p] = <<>> /\ hand'[p] \in {hand[p], NoPacket} /\ mFlush'[p] \in BOOLEAN
            /\ decoder'[p] = <<>>
          BY <1>a, <2>4, <3>2 DEF FlushAudio, FlushPlayer, MarkFlushed, TypeOK
      <4>2. Flushing(p) /\ ~Flushing(p)'
          BY <2>4, <3>2 DEF FlushAudio, Flushing
      <4>3. QED
          BY <1>a, <3>1, <4>1, <4>2, FlushOfLoop DEF Pipe!Next
    <3>3. CASE p = "vid"
      <4>1. Alone(p)
          BY <1>a, <1>b, <2>4, <3>3 DEF FlushAudio, FlushPlayer, Alone, TypeOK
      <4>2. ~Flushing(p) /\ Flushing(p)'
          BY <2>4, <3>3 DEF FlushAudio, Flushing
      <4>3. QED
          BY <3>1, <4>1, <4>2, MovesOfLoop DEF Pipe!Next
    <3>4. QED
        BY <1>a, <3>2, <3>3
  <2>5. CASE SeekDone
    <3>1. UNCHANGED Phase /\ Phase # "closed"
        BY <2>5 DEF SeekDone, Phase
    <3>2. CASE p = "vid"
      <4>1. /\ queue'[p] = <<>> /\ hand'[p] \in {hand[p], NoPacket} /\ mFlush'[p] \in BOOLEAN
            /\ decoder'[p] = <<>>
          BY <1>a, <2>5, <3>2 DEF SeekDone, TypeOK
      <4>2. Flushing(p) /\ ~Flushing(p)'
          BY <2>5, <3>2 DEF SeekDone, Flushing
      <4>3. QED
          BY <1>a, <3>1, <4>1, <4>2, FlushOfLoop DEF Pipe!Next
    <3>3. CASE p = "aud"
      <4>1. Alone(p)
          BY <1>a, <1>b, <2>5, <3>3 DEF SeekDone, Alone, TypeOK
      <4>2. UNCHANGED Flushing(p)
          BY <2>5, <3>3 DEF SeekDone, Flushing
      <4>3. QED
          BY <3>1, <4>1, <4>2, MovesOfLoop
    <3>4. QED
        BY <1>a, <3>2, <3>3
  <2>6. CASE Control \/ ReadPacket
    <3>1. Alone(p) /\ UNCHANGED <<Flushing(p), Phase>>
        BY <1>b, <2>6 DEF Control, ReadPacket, Flushing, Phase
    <3>2. QED
        BY <3>1, MovesOfLoop
  <2>7. CASE AddPacket
    <3>1. UNCHANGED <<Flushing(p), Phase, hand[p], mFlush[p], decoder[p]>> /\ Phase = "open"
        BY <1>b, <2>7 DEF AddPacket, Flushing, Phase
    <3>2. CASE UNCHANGED queue[p]
        BY <3>1, <3>2, MovesOfLoop DEF Alone
    <3>3. CASE queue'[p] # queue[p]
      <4>1. queue'[p] = Append(queue[p], packet) /\ packet \in Packets
          BY <1>a, <2>7, <3>3 DEF AddPacket, TypeOK, Places
      <4>2. OnTheWay(p)' = Append(OnTheWay(p), packet)
        <5>1. CASE hand[p] = NoPacket
            BY <3>1, <4>1, <5>1 DEF OnTheWay
        <5>2. CASE hand[p] # NoPacket
          <6>1. hand[p] \in Packets
              BY <1>a, <5>2 DEF TypeOK
          <6>2. QED
              BY <1>a, <3>1, <4>1, <5>2, <6>1, AppendOnTheWay DEF OnTheWay
        <5>3. QED
            BY <5>1, <5>2
      <4>3. QED
          BY <3>1, <4>1, <4>2 DEF Pipe!Accept, Pipe!Next
    <3>4. QED
        BY <3>2, <3>3
  <2>8. CASE EndPlay
    <3>1. /\ queue'[p] = <<>> /\ hand'[p] = NoPacket /\ UNCHANGED <<mFlush[p], decoder[p]>>
          /\ Phase = "closing" /\ Phase' = "closed" /\ ~Flushing(p) /\ ~Flushing(p)'
        BY <1>b, <2>8 DEF EndPlay, Phase, Flushing
    <3>2. Pipe(p)!Emptied /\ UNCHANGED Flushing(p)
        BY <1>a, <3>1, EmptiedOnTheWay DEF Flushing
    <3>3. QED
        BY <3>1, <3>2 DEF Pipe!Close, Pipe!Next
  <2>9. CASE AtEof
    <3>1. /\ UNCHANGED <<pipeVars, OnTheWay(p), Flushing(p), Phase>> /\ Phase = "open"
          /\ mFlush'[p] = mFlush[p]
        BY <2>9 DEF AtEof, OnTheWay, Flushing, Phase, pipeVars
    <3>2. CASE UNCHANGED decoder
        BY <1>b, <3>1, <3>2, MovesOfLoop
    <3>3. CASE SubmitEos
      <4>1. decoder'[p] \in {decoder[p], Append(decoder[p], Eos)}
          BY <3>3 DEF SubmitEos
      <4>2. QED
          BY <3>1, <4>1 DEF Pipe!vars, Pipe!EndStream, Pipe!Next
    <3>4. QED
        BY <1>b, <2>9, <3>2, <3>3 DEF AtEof
  <2>10. QED
    BY <1>1, <2>1, <2>2, <2>3, <2>4, <2>5, <2>6, <2>7, <2>8, <2>9 DEF PlayThread
<1>2. CASE Key \/ ClockStarts \/ Done \/ UNCHANGED vars
  <2>1. Alone(p) /\ UNCHANGED <<Flushing(p), Phase>>
    BY <1>2, <1>b DEF Key, ClockStarts, Done, vars, Flushing, Phase
  <2>2. QED
    BY <2>1, MovesOfLoop
<1>3. ASSUME NEW q \in Player, RunTake(q) \/ RunDrop(q) \/ Play(q) \/ RunDecode(q),
             Alone(p)
      PROVE  UNCHANGED Pipe(p)!vars
  <2>1. UNCHANGED <<Flushing(p), Phase>>
    BY <1>3 DEF RunTake, RunDrop, RunDecode, Play, Flushing, Phase
  <2>2. QED
    BY <1>3, <2>1, MovesOfLoop
<1>4. ASSUME NEW q \in Player, RunTake(q)
      PROVE  UNCHANGED Pipe(p)!vars
  <2>1. CASE q # p
    BY <1>3, <1>4, <1>a, <1>b, <2>1 DEF RunTake, Alone, TypeOK
  <2>2. CASE q = p
    <3>1. /\ hand[p] = NoPacket /\ queue[p] # <<>>
          /\ hand'[p] = Head(queue[p]) /\ queue'[p] = Tail(queue[p])
          /\ UNCHANGED <<pc, mFlush[p], decoder[p]>>
        BY <1>4, <1>a, <1>b, <2>2 DEF RunTake, TypeOK
    <3>2. Head(queue[p]) \in Packets /\ <<Head(queue[p])>> \o Tail(queue[p]) = queue[p]
        BY <1>a, <3>1, TakeOnTheWay
    <3>3. hand'[p] # NoPacket
        BY <3>1, <3>2, PairNotEmpty DEF Packets
    <3>4. UNCHANGED <<OnTheWay(p), Flushing(p), Phase>>
        BY <3>1, <3>2, <3>3 DEF OnTheWay, Flushing, Phase
    <3>5. QED
        BY <3>1, <3>4 DEF Pipe!vars
  <2>3. QED
    BY <2>1, <2>2
<1>5. ASSUME NEW q \in Player, RunDrop(q)
      PROVE  Pipe(p)!Next \/ UNCHANGED Pipe(p)!vars
  <2>1. CASE q # p
    BY <1>3, <1>5, <1>a, <1>b, <2>1 DEF RunDrop, Alone, TypeOK
  <2>2. CASE q = p
    <3>1. /\ hand[p] # NoPacket /\ hand'[p] = NoPacket /\ mFlush[p] /\ mFlush'[p] = FALSE
          /\ UNCHANGED <<pc, queue[p], decoder[p]>>
        BY <1>5, <1>a, <1>b, <2>2 DEF RunDrop, TypeOK
    <3>2. OnTheWay(p) # <<>> /\ OnTheWay(p)' = Tail(OnTheWay(p))
        BY <1>a, <3>1, OnTheWayCases DEF OnTheWay
    <3>3. UNCHANGED <<Flushing(p), Phase>>
        BY <3>1 DEF Flushing, Phase
    <3>4. QED
        BY <3>1, <3>2, <3>3 DEF Pipe!Discard, Pipe!Next
  <2>3. QED
    BY <2>1, <2>2
<1>6. ASSUME NEW q \in Player, RunDecode(q)
      PROVE  Pipe(p)!Next \/ UNCHANGED Pipe(p)!vars
  <2>1. CASE q # p
    BY <1>3, <1>6, <1>a, <2>1 DEF RunDecode, Alone, TypeOK
  <2>2. CASE q = p
    <3>1. /\ hand[p] # NoPacket /\ hand'[p] = NoPacket /\ ~mFlush[p] /\ UNCHANGED mFlush[p]
          /\ decoder'[p] = Append(decoder[p], hand[p])
          /\ UNCHANGED <<pc, queue[p]>>
        BY <1>6, <1>a, <2>2 DEF RunDecode, MayDecode, TypeOK
    <3>2. OnTheWay(p) # <<>> /\ OnTheWay(p)' = Tail(OnTheWay(p)) /\ Head(OnTheWay(p)) = hand[p]
        BY <1>a, <3>1, OnTheWayCases DEF OnTheWay
    <3>3. UNCHANGED <<Flushing(p), Phase>> /\ Phase # "closed"
        BY <1>a, <3>1 DEF Flushing, Phase, NothingAtEnd
    <3>4. QED
        BY <3>1, <3>2, <3>3 DEF Pipe!Deliver, Pipe!Next
  <2>3. QED
    BY <2>1, <2>2
<1>7. ASSUME NEW q \in Player, Play(q)
      PROVE  Pipe(p)!Next \/ UNCHANGED Pipe(p)!vars
  <2>1. CASE q # p
    BY <1>3, <1>7, <1>a, <2>1 DEF Play, pipeVars, Alone, TypeOK
  <2>2. CASE q = p
    <3>1. decoder[p] # <<>> /\ decoder'[p] = Tail(decoder[p])
        BY <1>7, <1>a, <2>2 DEF Play, TypeOK
    <3>2. UNCHANGED <<OnTheWay(p), mFlush[p], Flushing(p), Phase>>
        BY <1>7 DEF Play, pipeVars, OnTheWay, Flushing, Phase
    <3>3. QED
        BY <3>1, <3>2 DEF Pipe!Finish, Pipe!Next
  <2>3. QED
    BY <2>1, <2>2
<1>8. QED
  BY <1>1, <1>2, <1>4, <1>5, <1>6, <1>7 DEF Next, RunThread

LEMMA PipesInvariant == Spec => []PipesInv
<1>1. Init => PipesInv
    BY InitTyped, InitNothingAtEnd DEF PipesInv
<1>2. PipesInv /\ [Next]_vars => PipesInv'
    BY StepPlaces, StepTypes, StepNothingAtEnd DEF PipesInv, Typed
<1>3. QED
    BY <1>1, <1>2, PTL DEF Spec

LEMMA InitPipe == ASSUME Init, NEW p \in Player PROVE Pipe(p)!Init
BY DEF Init, Pipe!Init, OnTheWay, Flushing, Phase

\* Each player of the loop implements the packet pipe, for any file, sizes and keys: what
\* addPacket accepted reaches the decoder in order and at most once, or is thrown away on
\* account of a flush or a close (beginPlay, playLoop, endPlay, cOmxPlayer::run).
THEOREM LoopUsesPipes == Spec => PlayersArePipes
<1>1. Init => \A p \in Player : Pipe(p)!Init
    BY InitPipe
<1>2. PipesInv /\ [Next]_vars
        => [\A p \in Player : [Pipe(p)!Next]_(Pipe(p)!vars)]_vars
    BY StepPipe
<1>3. QED
    BY <1>1, <1>2, PipesInvariant, PTL DEF Spec, PlayersArePipes

\* The same of one player, as the specification of its pipe.
THEOREM PlayerKeepsPromise == ASSUME NEW p \in Player PROVE Spec => Pipe(p)!Spec
<1>1. Init => Pipe(p)!Init
    BY InitPipe
<1>2. PipesInv /\ [Next]_vars => [Pipe(p)!Next]_(Pipe(p)!vars)
    BY StepPipe
<1>3. QED
    BY <1>1, <1>2, PipesInvariant, PTL DEF Spec, Pipe!Spec
===============================================================================
