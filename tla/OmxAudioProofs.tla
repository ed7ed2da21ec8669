---------------------------- MODULE OmxAudioProofs ----------------------------
(***************************************************************************)
(* What the audio decoder is given, for any packets, any number of buffers *)
(* and flushes and whatever fails: which frames, in which order, with      *)
(* which timestamps and flags; and whose volume the mixer has.             *)
(***************************************************************************)
EXTENDS OmxAudio, TLAPS

Frames == [size : Nat \ {0}, chans : Nat \ {0}, format : STRING]
Id == Nat \X Nat
Sent == [frame : Id, pts : Nat, flag : {"start", "timed", "unknown", "eos"}, length : Nat]
Typed ==
    /\ TypeOK
    /\ packet \in [number : Nat, pts : Nat, frames : Seq(Frames)]
    /\ frame.id \in Id /\ frame.size \in Nat
    /\ sent \in Seq(Sent)
    /\ decoded \in Seq(Nat) /\ firstFresh \in Nat \ {0}

\* The frame that is on its way is the last the codec returned, of a packet from after the
\* last flush, and mPts is of its packet: a frame is left over only if it is not empty.
Current ==
    /\ packet.number = Len(decoded) /\ frame.id[1] <= Len(decoded)
    /\ firstFresh <= Len(decoded) + 1
    /\ pc # "idle" => firstFresh <= Len(decoded) /\ packet.pts = decoded[Len(decoded)]
    /\ mGotFrame => frame.id[1] >= firstFresh /\ frame.size > 0 /\ mPts = decoded[frame.id[1]]
    /\ mGotFrame /\ pc \notin {"convert", "wait", "add"} => mOutputSize > 0

\* What was sent came before the frame that is on its way.
SentInOrder ==
    /\ \A i \in DOMAIN sent : HasFrame(sent[i]) =>
           /\ sent[i].frame[1] >= firstFresh /\ sent[i].frame[1] <= frame.id[1]
           /\ sent[i].pts = decoded[sent[i].frame[1]]
           /\ mGotFrame => Earlier(sent[i].frame, frame.id)
           /\ sent[i].frame = frame.id \/ Earlier(sent[i].frame, frame.id)
    /\ \A i, j \in DOMAIN sent :
           i < j /\ HasFrame(sent[i]) /\ HasFrame(sent[j]) => Earlier(sent[i].frame, sent[j].frame)

\* mSetStartTime stands until a frame was sent, or refused.
NoneSent == \A i \in DOMAIN sent : ~HasFrame(sent[i])
Starting ==
    /\ mSetStartTime <=> ~startLost /\ NoneSent
    /\ StartFirst

\* mLastPts is no earlier than any stamp, unless a packet without a pts came since.
AllTimed(a, b) == \A n \in a..b : decoded[n] # NoPts
Timing ==
    /\ \A i \in DOMAIN sent :
          Stamped(sent[i]) /\ AllTimed(sent[i].frame[1], frame.id[1]) => sent[i].pts <= mLastPts
    /\ TimesIncrease

AudioInv == Typed /\ Current /\ SentInOrder /\ Starting /\ Timing

-------------------------------------------------------------------------------
(* Types, and the frame that is on its way *)

LEMMA InitAudio == Init => AudioInv
<1> SUFFICES ASSUME Init PROVE AudioInv
    OBVIOUS
<1>1. Typed
    <2>1. frame.id \in Id /\ frame.size \in Nat
        <3>1. <<0, 0>> \in Id
            BY DEF Id
        <3>2. QED
            BY <3>1 DEF Init, NoFrame
    <2>2. packet \in [number : Nat, pts : Nat, frames : Seq(Frames)]
        BY DEF Init, NoPts
    <2>3. sent \in Seq(Sent)
          /\ decoded \in Seq(Nat) /\ available \in 0..Buffers
        BY PoolAssumption DEF Init
    <2>4. TypeOK /\ firstFresh \in Nat \ {0}
        <3>1. /\ pc = "idle" /\ mGotFrame = FALSE /\ mOutputSize = 0 /\ mPts = 0 /\ mSetStartTime = TRUE
              /\ mLastPts = 0 /\ startLost = FALSE /\ flushRequested = FALSE /\ mMixer = FALSE
              /\ firstFresh = 1
            BY DEF Init, NoPts
        <3>2. mOutputSize \in Nat /\ mPts \in Nat /\ mLastPts \in Nat /\ firstFresh \in Nat \ {0}
            BY <3>1
        <3>3. /\ mGotFrame \in BOOLEAN /\ mSetStartTime \in BOOLEAN /\ startLost \in BOOLEAN
              /\ flushRequested \in BOOLEAN /\ mMixer \in BOOLEAN
            BY <3>1
        <3>5. spinning \in BOOLEAN
            BY DEF Init
        <3>4. QED
            BY <2>3, <3>1, <3>2, <3>3, <3>5 DEF TypeOK
    <2>5. QED
        BY <2>1, <2>2, <2>3, <2>4 DEF Typed
<1>2. Current
    BY DEF Init, NoFrame, Current
<1>3. SentInOrder /\ Starting /\ Timing
    BY DEF Init, SentInOrder, Starting, NoneSent, StartFirst, FirstFrame, Timing, TimesIncrease
<1>4. QED
    BY <1>1, <1>2, <1>3 DEF AudioInv

LEMMA StepTypes == Typed /\ [Next]_vars => Typed'
<1> SUFFICES ASSUME Typed, [Next]_vars PROVE Typed'
    OBVIOUS
<1>a. /\ TypeOK
      /\ packet \in [number : Nat, pts : Nat, frames : Seq(Frames)]
      /\ frame.id \in Id /\ frame.size \in Nat
      /\ sent \in Seq(Sent)
      /\ decoded \in Seq(Nat) /\ firstFresh \in Nat \ {0}
    BY DEF Typed
<1>b. packet.pts \in Nat /\ packet.number \in Nat /\ frame.size \in Nat /\ FramePts \in Nat
      /\ LastPts \in Nat
    BY <1>a DEF FramePts, LastPts, TypeOK
<1>c. Buffers \in Nat /\ NoPts \in Nat
    BY PoolAssumption DEF NoPts
<1> USE DEF frameVars, converterVars, timeVars, poolVars, flushVars, volumeVars
<1>1. ASSUME NEW p \in Packets, Decode(p) PROVE Typed'
    <2>1. p.pts \in Nat /\ p.frames \in Seq(Frames)
        BY PacketsAssumption DEF Frames
    <2>2. decoded' \in Seq(Nat) /\ packet' \in [number : Nat, pts : Nat, frames : Seq(Frames)]
        BY <1>1, <1>a, <2>1 DEF Decode
    <2>3. QED
        BY <1>1, <1>a, <2>2 DEF Decode, Typed, TypeOK
<1>2. CASE CodecFrame
    <2>1. Head(packet.frames) \in Frames /\ Tail(packet.frames) \in Seq(Frames)
        BY <1>2, <1>a DEF CodecFrame, CodecCalled
    <2>2. packet' \in [number : Nat, pts : Nat, frames : Seq(Frames)]
        BY <1>2, <1>a, <2>1 DEF CodecFrame, CodecCalled
    <2>3. \E n \in Nat : frame' = [id |-> <<packet.number, n>>, size |-> Head(packet.frames).size,
                                  chans |-> Head(packet.frames).chans, format |-> Head(packet.frames).format]
        <3>1. frame.id[2] + 1 \in Nat /\ 1 \in Nat
            BY <1>a DEF Id
        <3>2. QED
            BY <1>2, <3>1 DEF CodecFrame, CodecCalled
    <2>4. frame'.id \in Id /\ frame'.size \in Nat
        BY <2>1, <2>3, <1>b DEF Frames, Id
    <2>5. mPts' \in Nat
        BY <1>2, <1>b DEF CodecFrame, CodecCalled
    <2>6. QED
        BY <1>2, <1>a, <2>2, <2>4, <2>5 DEF CodecFrame, CodecCalled, Typed, TypeOK
<1>3. CASE CodecNothing \/ LeftFrame \/ CodecError
    BY <1>3, <1>a, <1>b DEF CodecNothing, LeftFrame, CodecError, CodecCalled, ForgetFrame, Typed, TypeOK
<1>4. CASE PacketUsed \/ SpaceFound \/ FlushSeen
    BY <1>4, <1>a DEF PacketUsed, SpaceFound, FlushSeen, Typed, TypeOK
<1>5. CASE Convert
    <2>1. /\ UNCHANGED <<packet, decoded, spinning, frame, sent, firstFresh, mGotFrame, mPts, available>>
          /\ UNCHANGED <<mSetStartTime, mLastPts, startLost, flushRequested, mMixer>>
          /\ mOutputSize' = frame.size /\ pc = "convert" /\ pc' = "wait"
        BY <1>5 DEF Convert
    <2>2. QED
        BY <2>1, <1>a, <1>b DEF Typed, TypeOK
<1>5a. CASE ConvertFails
    BY <1>5a, <1>a DEF ConvertFails, Typed, TypeOK
<1>6. CASE AddBuffer
    <2>1. [frame |-> frame.id, pts |-> mPts, flag |-> Flag, length |-> mOutputSize] \in Sent
        BY <1>a DEF TypeOK, Sent, Flag
    <2>2. sent' \in Seq(Sent)
        BY <1>6, <1>a, <2>1 DEF AddBuffer
    <2>3. available' \in 0..Buffers /\ mLastPts' \in Nat /\ mMixer' \in BOOLEAN
        <3>1. available \in 0..Buffers /\ available > 0 /\ available' = available - 1
            BY <1>6, <1>a DEF AddBuffer, TypeOK
        <3>2. available' \in 0..Buffers
            BY <3>1, <1>c
        <3>3. QED
            BY <1>6, <1>a, <1>b, <3>2 DEF AddBuffer, TypeOK
    <2>4. QED
        BY <1>6, <1>a, <2>2, <2>3 DEF AddBuffer, FrameDone, Typed, TypeOK
<1>7. CASE AddRefused
    BY <1>7, <1>a, <1>b DEF AddRefused, FrameDone, Typed, TypeOK
<1>7a. CASE AddTimesOut
    BY <1>7a, <1>a DEF AddTimesOut, FrameDone, Typed, TypeOK
<1>8. CASE ReadVolume \/ ApplyVolume \/ ApplyFails
    BY <1>8, <1>a DEF ReadVolume, ApplyVolume, ApplyFails, Typed, TypeOK
<1>9. ASSUME NEW v \in Volumes, SetVolume(v) PROVE Typed'
    BY <1>9, <1>a DEF SetVolume, Typed, TypeOK
<1>10. CASE FlushRequest
    BY <1>10, <1>a DEF FlushRequest, Typed, TypeOK
<1>11. CASE Flush
    <2>1. firstFresh' \in Nat \ {0} /\ sent' \in Seq(Sent) /\ available' \in 0..Buffers /\ mLastPts' \in Nat
        BY <1>11, <1>a, <1>c DEF Flush
    <2>2. QED
        BY <1>11, <1>a, <2>1 DEF Flush, ForgetFrame, StartPending, Typed, TypeOK
<1>12. CASE SubmitEos
    <2>1. [frame |-> <<0, 0>>, pts |-> NoPts, flag |-> "eos", length |-> 0] \in Sent
        BY <1>c DEF Sent, Id
    <2>2. sent' \in Seq(Sent)
        BY <1>12, <1>a, <2>1 DEF SubmitEos
    <2>3. available' \in 0..Buffers
        BY <1>12, <1>a, <1>c DEF SubmitEos, TypeOK
    <2>4. QED
        BY <1>12, <1>a, <2>2, <2>3 DEF SubmitEos, Typed, TypeOK
<1>13. CASE EmptyBufferDone
    <2>1. available' \in 0..Buffers
        BY <1>13, <1>a, <1>c DEF EmptyBufferDone, TypeOK
    <2>2. QED
        BY <1>13, <1>a, <2>1 DEF EmptyBufferDone, Typed, TypeOK
<1>14. CASE Finished \/ UNCHANGED vars
    BY <1>14, <1>a DEF Finished, vars, Typed, TypeOK
<1>15. QED
    BY <1>1, <1>2, <1>3, <1>4, <1>5, <1>5a, <1>6, <1>7, <1>7a, <1>8, <1>9, <1>10, <1>11, <1>12, <1>13, <1>14
       DEF Next, DecodeStep

LEMMA StepCurrent == Typed /\ Current /\ [Next]_vars => Current'
<1> SUFFICES ASSUME Typed, Current, [Next]_vars PROVE Current'
    OBVIOUS
<1>a. /\ packet \in [number : Nat, pts : Nat, frames : Seq(Frames)]
      /\ frame.id \in Id /\ frame.size \in Nat
      /\ decoded \in Seq(Nat) /\ firstFresh \in Nat \ {0} /\ mOutputSize \in Nat
      /\ ~mGotFrame => mOutputSize = 0
      /\ pc \in {"convert", "wait", "add"} => mGotFrame
      /\ available \in Nat /\ mGotFrame \in BOOLEAN
    BY PoolAssumption DEF Typed, TypeOK
<1>b. frame.id[1] \in Nat /\ Len(decoded) \in Nat /\ packet.number \in Nat /\ DOMAIN decoded = 1..Len(decoded)
    BY <1>a DEF Id
<1>c. Current
    OBVIOUS
<1> USE DEF frameVars, converterVars, timeVars, poolVars, flushVars, volumeVars
<1>1. ASSUME NEW p \in Packets, Decode(p) PROVE Current'
    <2>1. /\ decoded' = Append(decoded, p.pts) /\ packet'.number = Len(decoded) + 1 /\ packet'.pts = p.pts
          /\ UNCHANGED <<frame, mGotFrame, mPts, mOutputSize, firstFresh>> /\ pc = "idle" /\ pc' = "loop"
        BY <1>1 DEF Decode
    <2>2. p.pts \in Nat
        BY PacketsAssumption
    <2>3. /\ Len(decoded') = Len(decoded) + 1 /\ decoded'[Len(decoded) + 1] = p.pts
          /\ \A n \in 1..Len(decoded) : decoded'[n] = decoded[n]
        BY <2>1, <2>2, <1>a
    <2>4. ASSUME mGotFrame PROVE decoded'[frame.id[1]] = decoded[frame.id[1]]
        <3>1. CASE frame.id[1] \in 1..Len(decoded)
            BY <3>1, <2>3
        <3>2. CASE frame.id[1] = 0
            BY <3>2, <2>4, <1>c, <1>a DEF Current
        <3>3. QED
            BY <3>1, <3>2, <1>b, <1>c DEF Current
    <2>5. QED
        BY <2>1, <2>3, <2>4, <1>a, <1>b, <1>c DEF Current
<1>2. CASE CodecFrame
    <2>1. /\ pc = "loop" /\ pc' = "convert" /\ UNCHANGED <<decoded, firstFresh>> /\ mPts' = packet.pts
          /\ packet'.number = packet.number /\ packet'.pts = packet.pts
        BY <1>2, <1>a DEF CodecFrame, CodecCalled, FramePts
    <2>2. Head(packet.frames) \in Frames
        BY <1>2, <1>a DEF CodecFrame, CodecCalled
    <2>3. frame'.id[1] = packet.number /\ frame'.size = Head(packet.frames).size /\ frame'.size > 0
        BY <1>2, <2>2 DEF CodecFrame, CodecCalled, Frames
    <2>4. QED
        BY <2>1, <2>3, <1>b, <1>c DEF Current
<1>3. CASE LeftFrame
    BY <1>3, <1>a, <1>c DEF LeftFrame, FramePts, Current
<1>4. CASE CodecNothing \/ CodecError
    BY <1>4, <1>a, <1>c DEF CodecNothing, CodecError, CodecCalled, ForgetFrame, Current
<1>4a. CASE PacketUsed
    BY <1>4a, <1>a, <1>c DEF PacketUsed, Current
<1>4b. CASE SpaceFound
    BY <1>4b, <1>a, <1>c DEF SpaceFound, Current
<1>5. CASE FlushSeen
    <2>1. available * BufferSize \in Nat
        BY <1>a, PoolAssumption
    <2>2. mOutputSize > 0
        BY <1>5, <2>1, <1>a DEF FlushSeen, Space
    <2>3. QED
        BY <1>5, <2>2, <1>a, <1>c DEF FlushSeen, Current
<1>6. CASE Convert \/ ConvertFails
    BY <1>6, <1>a, <1>c DEF Convert, ConvertFails, Current
<1>7. CASE AddBuffer \/ AddRefused \/ AddTimesOut
    BY <1>7, <1>a, <1>c DEF AddBuffer, AddRefused, AddTimesOut, FrameDone, Current
<1>8. CASE ReadVolume \/ ApplyVolume \/ ApplyFails
    BY <1>8, <1>a, <1>c DEF ReadVolume, ApplyVolume, ApplyFails, Current
<1>9. ASSUME NEW v \in Volumes, SetVolume(v) PROVE Current'
    BY <1>9, <1>c DEF SetVolume, Current
<1>10. CASE FlushRequest \/ SubmitEos \/ EmptyBufferDone
    BY <1>10, <1>c DEF FlushRequest, SubmitEos, EmptyBufferDone, Current
<1>11. CASE Flush
    BY <1>11, <1>a, <1>b, <1>c DEF Flush, ForgetFrame, Current
<1>12. CASE Finished \/ UNCHANGED vars
    BY <1>12, <1>c DEF Finished, vars, Current
<1>13. QED
    BY <1>1, <1>2, <1>3, <1>4, <1>4a, <1>4b, <1>5, <1>6, <1>7, <1>8, <1>9, <1>10, <1>11, <1>12 DEF Next, DecodeStep

-------------------------------------------------------------------------------
(* What the component was given *)

\* A step that neither sends nor decodes: a frame may be dropped, none appears.
Quiet ==
    /\ UNCHANGED <<sent, decoded, frame, firstFresh, mSetStartTime, mLastPts, startLost>>
    /\ mGotFrame' => mGotFrame

LEMMA StepKinds ==
    Typed /\ [Next]_vars => \/ Quiet \/ (\E p \in Packets : Decode(p)) \/ CodecFrame
                            \/ AddBuffer \/ AddRefused \/ Flush \/ SubmitEos
<1> SUFFICES ASSUME Typed, [Next]_vars, ~\E p \in Packets : Decode(p), ~CodecFrame,
                    ~AddBuffer, ~AddRefused, ~Flush, ~SubmitEos
             PROVE  Quiet
    OBVIOUS
<1> USE DEF Quiet, frameVars, timeVars, poolVars, flushVars
<1>1. CASE CodecNothing \/ LeftFrame \/ CodecError \/ PacketUsed \/ Convert \/ ConvertFails \/ SpaceFound
    BY <1>1 DEF CodecNothing, LeftFrame, CodecError, ForgetFrame, PacketUsed, Convert, ConvertFails, SpaceFound
<1>2. CASE FlushSeen \/ AddTimesOut \/ ReadVolume \/ ApplyVolume \/ ApplyFails
    BY <1>2 DEF FlushSeen, AddTimesOut, FrameDone, ReadVolume, ApplyVolume, ApplyFails
<1>3. ASSUME NEW v \in Volumes, SetVolume(v) PROVE Quiet
    BY <1>3 DEF SetVolume
<1>4. CASE FlushRequest \/ EmptyBufferDone \/ Finished \/ UNCHANGED vars
    BY <1>4 DEF FlushRequest, EmptyBufferDone, Finished, vars
<1>5. QED
    BY <1>1, <1>2, <1>3, <1>4 DEF Next, DecodeStep

LEMMA AppendParts ==
    ASSUME NEW S, NEW s \in Seq(S), NEW b \in S
    PROVE  /\ DOMAIN Append(s, b) = 1..(Len(s) + 1) /\ DOMAIN s = 1..Len(s) /\ Len(s) \in Nat
           /\ \A i \in DOMAIN Append(s, b) : i \in DOMAIN s \/ i = Len(s) + 1
           /\ \A i \in DOMAIN s : i \in DOMAIN Append(s, b) /\ Append(s, b)[i] = s[i] /\ i < Len(s) + 1
           /\ Append(s, b)[Len(s) + 1] = b
           /\ \A i \in DOMAIN Append(s, b) : ~(Len(s) + 1 < i)
<1>1. Len(s) \in Nat /\ DOMAIN s = 1..Len(s) /\ DOMAIN Append(s, b) = 1..(Len(s) + 1)
    OBVIOUS
<1>2. \A i \in 1..Len(s) : Append(s, b)[i] = s[i]
    OBVIOUS
<1>3. Append(s, b)[Len(s) + 1] = b
    OBVIOUS
<1>4. QED
    BY <1>1, <1>2, <1>3

\* The buffer that decode or submitEOS hands over is at the end of sent.
LEMMA SentGrows ==
    ASSUME Typed, NEW b \in Sent, sent' = Append(sent, b)
    PROVE  \E n : /\ n \in DOMAIN sent' /\ n \notin DOMAIN sent /\ sent'[n] = b
                  /\ \A i \in DOMAIN sent' : i \in DOMAIN sent \/ i = n
                  /\ \A i \in DOMAIN sent : i \in DOMAIN sent' /\ sent'[i] = sent[i] /\ i < n
                  /\ \A i \in DOMAIN sent' : ~(n < i)
<1>1. sent \in Seq(Sent)
    BY DEF Typed, Sent
<1>2. Len(sent) + 1 \in DOMAIN sent' /\ Len(sent) + 1 \notin DOMAIN sent
    BY <1>1, AppendParts
<1>3. QED
    BY <1>1, <1>2, AppendParts

LEMMA SentParts ==
    ASSUME Typed, NEW i \in DOMAIN sent
    PROVE  /\ sent[i] \in Sent /\ sent[i].frame[1] \in Nat /\ sent[i].frame[2] \in Nat
           /\ sent[i].pts \in Nat
<1>1. sent[i] \in Sent
    <2>1. sent \in Seq(Sent)
        BY DEF Typed, Sent
    <2>2. QED
        BY <2>1
<1>2. sent[i].frame \in Id /\ sent[i].pts \in Nat
    BY <1>1 DEF Sent
<1>3. QED
    BY <1>1, <1>2 DEF Id

LEMMA BufferSent ==
    Typed /\ AddBuffer => [frame |-> frame.id, pts |-> mPts, flag |-> Flag, length |-> mOutputSize] \in Sent
BY DEF Typed, TypeOK, Sent, Flag

LEMMA EosSent ==
    /\ [frame |-> <<0, 0>>, pts |-> NoPts, flag |-> "eos", length |-> 0] \in Sent
    /\ ~HasFrame([frame |-> <<0, 0>>, pts |-> NoPts, flag |-> "eos", length |-> 0])
BY DEF Sent, Id, NoPts, HasFrame

LEMMA DecodedKept ==
    ASSUME Typed, NEW p \in Packets, Decode(p), NEW n \in 1..Len(decoded)
    PROVE  decoded'[n] = decoded[n]
<1>1. p.pts \in Nat /\ decoded \in Seq(Nat) /\ decoded' = Append(decoded, p.pts)
    BY PacketsAssumption DEF Typed, Decode
<1>2. QED
    BY <1>1

LEMMA StepOrder == Typed /\ Current /\ SentInOrder /\ [Next]_vars => SentInOrder'
<1> SUFFICES ASSUME Typed, Current, SentInOrder, [Next]_vars PROVE SentInOrder'
    OBVIOUS
<1>a. /\ frame.id[1] \in Nat /\ frame.id[2] \in Nat /\ Len(decoded) \in Nat /\ firstFresh \in Nat \ {0}
      /\ frame.id \in Id
    BY DEF Typed, Id
<1>b. SentInOrder
    OBVIOUS
<1>1. CASE Quiet
    BY <1>1, <1>b DEF Quiet, SentInOrder
<1>2. ASSUME NEW p \in Packets, Decode(p) PROVE SentInOrder'
    <2>1. UNCHANGED <<sent, firstFresh, frame, mGotFrame>>
        BY <1>2 DEF Decode, poolVars, flushVars, frameVars
    <2>2. ASSUME NEW i \in DOMAIN sent, HasFrame(sent[i])
          PROVE  decoded'[sent[i].frame[1]] = decoded[sent[i].frame[1]]
        <3>1. sent[i].frame[1] \in Nat /\ sent[i].frame[1] >= firstFresh /\ sent[i].frame[1] <= frame.id[1]
            BY <2>2, <1>b, SentParts DEF SentInOrder
        <3>2. sent[i].frame[1] \in 1..Len(decoded)
            BY <3>1, <1>a DEF Current
        <3>3. QED
            BY <1>2, <3>2, DecodedKept
    <2>3. QED
        BY <2>1, <2>2, <1>b DEF SentInOrder
<1>3. CASE CodecFrame
    <2>1. UNCHANGED <<sent, firstFresh, decoded>>
        BY <1>3 DEF CodecFrame, CodecCalled, poolVars, flushVars
    <2>2. Earlier(frame.id, frame'.id) /\ frame'.id[1] >= frame.id[1] /\ frame'.id[1] \in Nat /\ frame'.id[2] \in Nat
        <3>1. frame'.id = <<packet.number, IF frame.id[1] = packet.number THEN frame.id[2] + 1 ELSE 1>>
            BY <1>3 DEF CodecFrame, CodecCalled
        <3>2. packet.number \in Nat /\ frame.id[1] <= packet.number
            BY DEF Typed, Current
        <3>3. QED
            BY <1>a, <3>1, <3>2 DEF Earlier
    <2>3. ASSUME NEW i \in DOMAIN sent, HasFrame(sent[i])
          PROVE  sent[i].frame[1] <= frame'.id[1] /\ Earlier(sent[i].frame, frame'.id)
        <3>1. /\ sent[i].frame[1] <= frame.id[1] /\ sent[i].frame[1] \in Nat /\ sent[i].frame[2] \in Nat
              /\ sent[i].frame = frame.id \/ Earlier(sent[i].frame, frame.id)
            BY <2>3, <1>b, SentParts DEF SentInOrder
        <3>2. QED
            BY <3>1, <2>2, <1>a DEF Earlier
    <2>4. QED
        BY <2>1, <2>3, <1>b DEF SentInOrder
<1>4. CASE AddBuffer
    <2> DEFINE b == [frame |-> frame.id, pts |-> mPts, flag |-> Flag, length |-> mOutputSize]
    <2>1. sent' = Append(sent, b) /\ UNCHANGED <<frame, decoded, firstFresh>> /\ ~mGotFrame' /\ pc = "add"
        BY <1>4 DEF AddBuffer, FrameDone, flushVars
    <2>2. mGotFrame /\ frame.id[1] >= firstFresh /\ mPts = decoded[frame.id[1]]
        BY <2>1 DEF Typed, TypeOK, Current
    <2>3. b \in Sent /\ b.frame = frame.id /\ b.pts = mPts
        BY <1>4, BufferSent
    <2> HIDE DEF b
    <2>4. PICK n : /\ n \in DOMAIN sent' /\ n \notin DOMAIN sent /\ sent'[n] = b
                   /\ \A i \in DOMAIN sent' : i \in DOMAIN sent \/ i = n
                   /\ \A i \in DOMAIN sent : i \in DOMAIN sent' /\ sent'[i] = sent[i] /\ i < n
                   /\ \A i \in DOMAIN sent' : ~(n < i)
        BY <2>1, <2>3, SentGrows
    <2>5. \A i \in DOMAIN sent : HasFrame(sent[i]) => Earlier(sent[i].frame, frame.id)
        BY <2>2, <1>b DEF SentInOrder
    <2>6. frame.id[1] <= frame.id[1]
        BY <1>a
    <2>7. \A i \in DOMAIN sent' : HasFrame(sent'[i]) =>
           /\ sent'[i].frame[1] >= firstFresh' /\ sent'[i].frame[1] <= frame'.id[1]
           /\ sent'[i].pts = decoded'[sent'[i].frame[1]]
           /\ sent'[i].frame = frame'.id \/ Earlier(sent'[i].frame, frame'.id)
        BY <2>1, <2>2, <2>3, <2>4, <2>6, <1>b DEF SentInOrder
    <2>8. \A i, j \in DOMAIN sent' :
           i < j /\ HasFrame(sent'[i]) /\ HasFrame(sent'[j]) => Earlier(sent'[i].frame, sent'[j].frame)
        BY <2>3, <2>4, <2>5, <1>b DEF SentInOrder
    <2>9. QED
        BY <2>1, <2>7, <2>8 DEF SentInOrder
<1>5. CASE AddRefused
    BY <1>5, <1>b DEF AddRefused, FrameDone, poolVars, flushVars, SentInOrder
<1>6. CASE Flush
    BY <1>6 DEF Flush, SentInOrder
<1>7. CASE SubmitEos
    <2> DEFINE b == [frame |-> <<0, 0>>, pts |-> NoPts, flag |-> "eos", length |-> 0]
    <2>1. sent' = Append(sent, b) /\ UNCHANGED <<frame, decoded, firstFresh, mGotFrame>>
        BY <1>7 DEF SubmitEos, flushVars, frameVars
    <2>2. b \in Sent /\ ~HasFrame(b)
        BY EosSent
    <2> HIDE DEF b
    <2>3. PICK n : /\ n \in DOMAIN sent' /\ n \notin DOMAIN sent /\ sent'[n] = b
                   /\ \A i \in DOMAIN sent' : i \in DOMAIN sent \/ i = n
                   /\ \A i \in DOMAIN sent : i \in DOMAIN sent' /\ sent'[i] = sent[i] /\ i < n
                   /\ \A i \in DOMAIN sent' : ~(n < i)
        BY <2>1, <2>2, SentGrows
    <2>4. QED
        BY <2>1, <2>2, <2>3, <1>b DEF SentInOrder
<1>8. QED
    BY <1>1, <1>2, <1>3, <1>4, <1>5, <1>6, <1>7, StepKinds

-------------------------------------------------------------------------------
(* Start time and timestamps *)

LEMMA StepStarting == Typed /\ Starting /\ [Next]_vars => Starting'
<1> SUFFICES ASSUME Typed, Starting, [Next]_vars PROVE Starting'
    OBVIOUS
<1>b. Starting /\ (mSetStartTime <=> ~startLost /\ NoneSent) /\ mSetStartTime \in BOOLEAN /\ startLost \in BOOLEAN
    BY DEF Starting, NoneSent, Typed, TypeOK
<1>c. ASSUME UNCHANGED <<sent, mSetStartTime, startLost>> PROVE Starting'
    BY <1>b, <1>c DEF Starting, NoneSent, StartFirst, FirstFrame
<1>1. CASE Quiet
    BY <1>1, <1>c DEF Quiet
<1>2. ASSUME NEW p \in Packets, Decode(p) PROVE Starting'
    BY <1>2, <1>c DEF Decode, timeVars, poolVars
<1>3. CASE CodecFrame
    BY <1>3, <1>c DEF CodecFrame, CodecCalled, timeVars, poolVars
<1>d. ASSUME NEW b \in Sent, sent' = Append(sent, b)
      PROVE  \E n : /\ n \in DOMAIN sent' /\ sent'[n] = b
                    /\ \A i \in DOMAIN sent' : i \in DOMAIN sent \/ i = n
                    /\ \A i \in DOMAIN sent : sent'[i] = sent[i] /\ (FirstFrame(i)' <=> FirstFrame(i))
                    /\ FirstFrame(n)' <=> HasFrame(b) /\ NoneSent
                    /\ NoneSent' <=> NoneSent /\ ~HasFrame(b)
    <2>1. PICK n : /\ n \in DOMAIN sent' /\ n \notin DOMAIN sent /\ sent'[n] = b
                   /\ \A i \in DOMAIN sent' : i \in DOMAIN sent \/ i = n
                   /\ \A i \in DOMAIN sent : i \in DOMAIN sent' /\ sent'[i] = sent[i] /\ i < n
                   /\ \A i \in DOMAIN sent' : ~(n < i)
        BY <1>d, SentGrows
    <2>2. \A i \in DOMAIN sent : FirstFrame(i)' <=> FirstFrame(i)
        BY <2>1 DEF FirstFrame
    <2>3. FirstFrame(n)' <=> HasFrame(b) /\ NoneSent
        BY <2>1 DEF FirstFrame, NoneSent
    <2>4. NoneSent' <=> NoneSent /\ ~HasFrame(b)
        BY <2>1 DEF NoneSent
    <2>5. QED
        BY <2>1, <2>2, <2>3, <2>4
<1>4. CASE AddBuffer
    <2> DEFINE b == [frame |-> frame.id, pts |-> mPts, flag |-> Flag, length |-> mOutputSize]
    <2>1. sent' = Append(sent, b) /\ mSetStartTime' = FALSE /\ startLost' = startLost
        BY <1>4 DEF AddBuffer
    <2>2. b \in Sent /\ HasFrame(b) /\ (b.flag = "start" <=> mSetStartTime)
        BY <1>4, BufferSent DEF HasFrame, Flag
    <2> HIDE DEF b
    <2>3. PICK n : /\ n \in DOMAIN sent' /\ sent'[n] = b
                   /\ \A i \in DOMAIN sent' : i \in DOMAIN sent \/ i = n
                   /\ \A i \in DOMAIN sent : sent'[i] = sent[i] /\ (FirstFrame(i)' <=> FirstFrame(i))
                   /\ FirstFrame(n)' <=> HasFrame(b) /\ NoneSent
                   /\ NoneSent' <=> NoneSent /\ ~HasFrame(b)
        BY <2>1, <2>2, <1>d
    <2>4. StartFirst'
        <3>1. SUFFICES ASSUME NEW i \in DOMAIN sent'
                       PROVE  /\ sent'[i].flag = "start" => FirstFrame(i)'
                              /\ FirstFrame(i)' /\ ~startLost' => sent'[i].flag = "start"
            BY DEF StartFirst
        <3>2. CASE i = n
            BY <2>1, <2>2, <2>3, <3>2, <1>b
        <3>3. CASE i \in DOMAIN sent
            BY <2>1, <2>3, <3>3, <1>b DEF Starting, StartFirst
        <3>4. QED
            BY <2>3, <3>2, <3>3
    <2>5. QED
        BY <2>1, <2>2, <2>3, <2>4 DEF Starting, NoneSent
<1>5. CASE AddRefused
    <2>1. UNCHANGED sent /\ mSetStartTime' = FALSE /\ startLost' = (startLost \/ mSetStartTime)
        BY <1>5 DEF AddRefused, poolVars
    <2>2. QED
        BY <2>1, <1>b DEF Starting, StartFirst, FirstFrame, NoneSent
<1>6. CASE Flush
    BY <1>6 DEF Flush, StartPending, Starting, NoneSent, StartFirst
<1>7. CASE SubmitEos
    <2> DEFINE b == [frame |-> <<0, 0>>, pts |-> NoPts, flag |-> "eos", length |-> 0]
    <2>1. sent' = Append(sent, b) /\ UNCHANGED <<mSetStartTime, startLost>>
        BY <1>7 DEF SubmitEos, timeVars
    <2>2. b \in Sent /\ ~HasFrame(b) /\ b.flag # "start"
        BY EosSent
    <2> HIDE DEF b
    <2>3. PICK n : /\ n \in DOMAIN sent' /\ sent'[n] = b
                   /\ \A i \in DOMAIN sent' : i \in DOMAIN sent \/ i = n
                   /\ \A i \in DOMAIN sent : sent'[i] = sent[i] /\ (FirstFrame(i)' <=> FirstFrame(i))
                   /\ FirstFrame(n)' <=> HasFrame(b) /\ NoneSent
                   /\ NoneSent' <=> NoneSent /\ ~HasFrame(b)
        BY <2>1, <2>2, <1>d
    <2>4. StartFirst'
        BY <2>1, <2>2, <2>3, <1>b DEF Starting, StartFirst
    <2>5. QED
        BY <2>1, <2>2, <2>3, <2>4, <1>b DEF Starting, NoneSent
<1>8. QED
    BY <1>1, <1>2, <1>3, <1>4, <1>5, <1>6, <1>7, StepKinds

LEMMA StepTiming == AudioInv /\ [Next]_vars => Timing'
<1> SUFFICES ASSUME AudioInv, [Next]_vars PROVE Timing'
    OBVIOUS
<1>a. /\ frame.id[1] \in Nat /\ Len(decoded) \in Nat /\ firstFresh \in Nat \ {0} /\ mLastPts \in Nat
      /\ mPts \in Nat
    BY DEF AudioInv, Typed, TypeOK, Id
<1>b. Typed /\ Current /\ SentInOrder /\ Timing
    BY DEF AudioInv
<1>c. \A i \in DOMAIN sent : Stamped(sent[i]) => HasFrame(sent[i])
    BY DEF Stamped, HasFrame
<1>d. \A i \in DOMAIN sent : Stamped(sent[i]) =>
          /\ sent[i].frame[1] \in Nat /\ sent[i].frame[1] >= firstFresh /\ sent[i].frame[1] <= frame.id[1]
          /\ sent[i].pts \in Nat
    BY <1>b, <1>c, SentParts DEF SentInOrder
<1>1. CASE Quiet
    BY <1>1, <1>b DEF Quiet, Timing, TimesIncrease, AllTimed
<1>2. ASSUME NEW p \in Packets, Decode(p) PROVE Timing'
    <2>1. UNCHANGED <<sent, frame, mLastPts>>
        BY <1>2 DEF Decode, poolVars, frameVars, timeVars
    <2>2. \A n \in 1..Len(decoded) : decoded'[n] = decoded[n]
        BY <1>2, <1>b, DecodedKept
    <2>3. ASSUME NEW a \in Nat, NEW c \in Nat, a >= 1, c <= frame.id[1], \A n \in a..c : decoded'[n] # NoPts
          PROVE  \A n \in a..c : decoded[n] # NoPts
        <3>1. \A n \in a..c : n \in 1..Len(decoded)
            BY <2>3, <1>a, <1>b DEF Current
        <3>2. QED
            BY <2>2, <2>3, <3>1
    <2>4. \A i \in DOMAIN sent : Stamped(sent[i]) =>
              sent[i].frame[1] \in Nat /\ sent[i].frame[1] >= 1 /\ sent[i].frame[1] <= frame.id[1]
        BY <1>a, <1>d
    <2>5. frame.id[1] <= frame.id[1]
        BY <1>a
    <2>6. ASSUME NEW i \in DOMAIN sent, Stamped(sent[i]), \A n \in sent[i].frame[1]..frame.id[1] : decoded'[n] # NoPts
          PROVE  sent[i].pts <= mLastPts
        <3>1. \A n \in sent[i].frame[1]..frame.id[1] : decoded[n] # NoPts
            BY <2>3, <2>4, <2>5, <2>6, <1>a
        <3>2. QED
            BY <2>6, <3>1, <1>b DEF Timing, AllTimed
    <2>7. ASSUME NEW i \in DOMAIN sent, NEW j \in DOMAIN sent, i < j, Stamped(sent[i]), Stamped(sent[j]),
                 \A n \in sent[i].frame[1]..sent[j].frame[1] : decoded'[n] # NoPts
          PROVE  sent[i].pts < sent[j].pts
        <3>1. \A n \in sent[i].frame[1]..sent[j].frame[1] : decoded[n] # NoPts
            BY <2>3, <2>4, <2>7
        <3>2. QED
            BY <2>7, <3>1, <1>b DEF Timing, TimesIncrease
    <2>8. QED
        BY <2>1, <2>6, <2>7 DEF Timing, TimesIncrease, AllTimed
<1>3. CASE CodecFrame
    <2>1. UNCHANGED <<sent, decoded, mLastPts>> /\ frame'.id[1] = packet.number
        BY <1>3 DEF CodecFrame, CodecCalled, poolVars, timeVars
    <2>2. packet.number \in Nat /\ frame.id[1] <= packet.number
        BY <1>b DEF Typed, Current
    <2>3. ASSUME NEW i \in DOMAIN sent, Stamped(sent[i]),
                 \A n \in sent[i].frame[1]..frame'.id[1] : decoded'[n] # NoPts
          PROVE  sent[i].pts <= mLastPts
        <3>1. \A n \in sent[i].frame[1]..frame.id[1] : n \in sent[i].frame[1]..packet.number
            BY <2>2, <2>3, <1>a, <1>d
        <3>2. AllTimed(sent[i].frame[1], frame.id[1])
            BY <2>1, <2>3, <3>1 DEF AllTimed
        <3>3. QED
            BY <2>3, <3>2, <1>b DEF Timing
    <2>4. QED
        BY <2>1, <2>3, <1>b DEF Timing, TimesIncrease, AllTimed
<1>4. CASE AddBuffer
    <2> DEFINE b == [frame |-> frame.id, pts |-> mPts, flag |-> Flag, length |-> mOutputSize]
    <2>1. /\ sent' = Append(sent, b) /\ UNCHANGED <<frame, decoded>> /\ mLastPts' = LastPts
          /\ pc = "add"
        BY <1>4 DEF AddBuffer, FrameDone
    <2>2. b \in Sent /\ b.frame = frame.id /\ b.pts = mPts /\ b.flag = Flag
        BY <1>4, <1>b, BufferSent
    <2>3. mPts = decoded[frame.id[1]]
        BY <2>1, <1>b DEF Typed, TypeOK, Current
    <2> HIDE DEF b
    <2>4. PICK n : /\ n \in DOMAIN sent' /\ n \notin DOMAIN sent /\ sent'[n] = b
                   /\ \A i \in DOMAIN sent' : i \in DOMAIN sent \/ i = n
                   /\ \A i \in DOMAIN sent : i \in DOMAIN sent' /\ sent'[i] = sent[i] /\ i < n
                   /\ \A i \in DOMAIN sent' : ~(n < i)
        BY <2>1, <2>2, <1>b, SentGrows
    \* A stamped buffer is later than all that no packet without a pts separates from it.
    <2>5. ASSUME NEW i \in DOMAIN sent, Stamped(sent[i]), AllTimed(sent[i].frame[1], frame.id[1])
          PROVE  sent[i].pts <= mLastPts' /\ (Stamped(b) => sent[i].pts < mPts)
        <3>1. ~mSetStartTime
            BY <2>5, <1>c DEF AudioInv, Starting, NoneSent
        <3>2. mPts # NoPts
            <4>1. frame.id[1] \in sent[i].frame[1]..frame.id[1]
                BY <2>5, <1>a, <1>d
            <4>2. QED
                BY <4>1, <2>3, <2>5 DEF AllTimed
        <3>3. sent[i].pts <= mLastPts /\ sent[i].pts \in Nat
            BY <2>5, <1>b, <1>d DEF Timing
        <3>4. Stamped(b) => mPts > mLastPts
            BY <3>1, <2>2 DEF Stamped, Flag
        <3>5. QED
            BY <2>1, <3>1, <3>2, <3>3, <3>4, <1>a DEF LastPts
    <2>6. Stamped(b) => mPts <= mLastPts'
        BY <2>1, <2>2, <1>a DEF Stamped, Flag, LastPts
    <2>7. ASSUME NEW i \in DOMAIN sent', Stamped(sent'[i]),
                 \A m \in sent'[i].frame[1]..frame.id[1] : decoded[m] # NoPts
          PROVE  sent'[i].pts <= mLastPts'
        <3>1. CASE i = n
            BY <2>7, <3>1, <2>2, <2>4, <2>6
        <3>2. CASE i \in DOMAIN sent
            BY <2>7, <3>2, <2>4, <2>5 DEF AllTimed
        <3>3. QED
            BY <3>1, <3>2, <2>4
    <2>8. ASSUME NEW i \in DOMAIN sent', NEW j \in DOMAIN sent', i < j, Stamped(sent'[i]), Stamped(sent'[j]),
                 \A m \in sent'[i].frame[1]..sent'[j].frame[1] : decoded[m] # NoPts
          PROVE  sent'[i].pts < sent'[j].pts
        <3>1. i # n
            BY <2>4, <2>8
        <3>2. i \in DOMAIN sent /\ sent'[i] = sent[i]
            BY <2>4, <3>1
        <3>3. CASE j = n
            BY <2>2, <2>4, <2>5, <2>8, <3>2, <3>3 DEF AllTimed
        <3>4. CASE j \in DOMAIN sent
            BY <2>4, <2>8, <3>2, <3>4, <1>b DEF Timing, TimesIncrease
        <3>5. QED
            BY <2>4, <3>3, <3>4
    <2>9. QED
        BY <2>1, <2>7, <2>8 DEF Timing, TimesIncrease, AllTimed
<1>5. CASE AddRefused
    <2>1. UNCHANGED <<sent, decoded, frame>> /\ mLastPts' = LastPts /\ pc = "add"
        BY <1>5 DEF AddRefused, FrameDone, poolVars
    <2>2. mPts = decoded[frame.id[1]]
        BY <2>1, <1>b DEF Typed, TypeOK, Current
    <2>3. ASSUME NEW i \in DOMAIN sent, Stamped(sent[i]), AllTimed(sent[i].frame[1], frame.id[1])
          PROVE  sent[i].pts <= mLastPts'
        <3>1. ~mSetStartTime
            BY <2>3, <1>c DEF AudioInv, Starting, NoneSent
        <3>2. mPts # NoPts
            <4>1. frame.id[1] \in sent[i].frame[1]..frame.id[1]
                BY <2>3, <1>a, <1>d
            <4>2. QED
                BY <4>1, <2>2, <2>3 DEF AllTimed
        <3>3. sent[i].pts <= mLastPts /\ sent[i].pts \in Nat
            BY <2>3, <1>b, <1>d DEF Timing
        <3>4. QED
            BY <2>1, <3>1, <3>2, <3>3, <1>a DEF LastPts
    <2>4. QED
        BY <2>1, <2>3, <1>b DEF Timing, TimesIncrease, AllTimed
<1>6. CASE Flush
    BY <1>6 DEF Flush, Timing, TimesIncrease
<1>7. CASE SubmitEos
    <2> DEFINE b == [frame |-> <<0, 0>>, pts |-> NoPts, flag |-> "eos", length |-> 0]
    <2>1. sent' = Append(sent, b) /\ UNCHANGED <<frame, decoded, mLastPts>>
        BY <1>7 DEF SubmitEos, frameVars, timeVars
    <2>2. b \in Sent /\ ~Stamped(b)
        BY EosSent DEF Stamped
    <2> HIDE DEF b
    <2>3. PICK n : /\ n \in DOMAIN sent' /\ n \notin DOMAIN sent /\ sent'[n] = b
                   /\ \A i \in DOMAIN sent' : i \in DOMAIN sent \/ i = n
                   /\ \A i \in DOMAIN sent : i \in DOMAIN sent' /\ sent'[i] = sent[i] /\ i < n
                   /\ \A i \in DOMAIN sent' : ~(n < i)
        BY <2>1, <2>2, <1>b, SentGrows
    <2>4. QED
        BY <2>1, <2>2, <2>3, <1>b DEF Timing, TimesIncrease, AllTimed
<1>8. QED
    BY <1>1, <1>2, <1>3, <1>4, <1>5, <1>6, <1>7, <1>b, StepKinds

-------------------------------------------------------------------------------
LEMMA AlwaysAudio == Spec => []AudioInv
<1>1. AudioInv /\ [Next]_vars => AudioInv'
    BY StepTypes, StepCurrent, StepOrder, StepStarting, StepTiming DEF AudioInv
<1>2. QED
    BY InitAudio, <1>1, PTL DEF Spec

\* The stamps the component sees between two flushes rise strictly, except past a packet
\* without a pts (addBuffer, mLastPts).
THEOREM TimesDoIncrease == Spec => []TimesIncrease
<1>1. AudioInv => TimesIncrease
    BY DEF AudioInv, Timing
<1>2. QED
    BY <1>1, AlwaysAudio, PTL

\* Each buffer holds a frame from after the last flush, in order and once, with the pts of its
\* packet, also when a frame was left over from a decode that saw the flush coming (decode).
THEOREM FramesAreFresh == Spec => []FramesFresh
<1>1. AudioInv => FramesFresh
    BY DEF AudioInv, Typed, SentInOrder, FramesFresh
<1>2. QED
    BY <1>1, AlwaysAudio, PTL

\* The first frame after a flush carries the start time, unless its buffer was refused (addBuffer).
THEOREM StartComesFirst == Spec => []StartFirst
<1>1. AudioInv => StartFirst
    BY DEF AudioInv, Starting
<1>2. QED
    BY <1>1, AlwaysAudio, PTL

\* Of two threads that set the volume, neither leaves a mistaken belief of it (applyVolume, setVolume).
THEOREM VolumeIsBelieved == Spec => []VolumeBelieved
<1>1. Init => VolumeBelieved
    BY DEF Init, VolumeBelieved
<1>2. VolumeBelieved /\ [Next]_vars => VolumeBelieved'
    <2> SUFFICES ASSUME VolumeBelieved, [Next]_vars PROVE VolumeBelieved'
        OBVIOUS
    <2> USE DEF VolumeBelieved, volumeVars
    <2>1. CASE ApplyVolume \/ ReadVolume \/ ApplyFails
        BY <2>1 DEF ApplyVolume, LastApplied, ReadVolume, ApplyFails
    <2>2. ASSUME NEW v \in Volumes, SetVolume(v) PROVE VolumeBelieved'
        BY <2>2 DEF SetVolume, SetMixer
    <2>3. CASE CodecFrame \/ CodecNothing \/ LeftFrame \/ CodecError \/ PacketUsed \/ Convert \/ ConvertFails \/ SpaceFound
        BY <2>3 DEF CodecFrame, CodecNothing, LeftFrame, CodecError, PacketUsed, Convert, ConvertFails, SpaceFound
    <2>4. CASE FlushSeen \/ AddBuffer \/ AddRefused \/ AddTimesOut
        BY <2>4 DEF FlushSeen, AddBuffer, AddRefused, AddTimesOut
    <2>5. CASE (\E p \in Packets : Decode(p)) \/ FlushRequest \/ Flush \/ SubmitEos
        BY <2>5 DEF Decode, FlushRequest, Flush, SubmitEos
    <2>6. CASE EmptyBufferDone \/ Finished \/ UNCHANGED vars
        BY <2>6 DEF EmptyBufferDone, Finished, vars
    <2>7. QED
        BY <2>1, <2>2, <2>3, <2>4, <2>5, <2>6 DEF Next, DecodeStep
<1>3. QED
    BY <1>1, <1>2, PTL DEF Spec
===============================================================================
