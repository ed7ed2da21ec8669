-------------------------------- MODULE OmxAudio --------------------------------
(***************************************************************************)
(* cOmxAudio::decode and what it calls (cOmxAudio.cpp), in the thread of   *)
(* the audio player's run; flush and submitEOS come from the play thread   *)
(* and the volume from the keyboard thread.  The codec turns a packet into *)
(* any number of frames; each is converted, given a timestamp and copied   *)
(* into an input buffer of the decoder component, which holds a pool of    *)
(* Buffers and returns a buffer when it has played it.  flush calls the    *)
(* decoder while run is not in decode (OmxPlayer has the mutexes).         *)
(***************************************************************************)
EXTENDS Naturals, Sequences

CONSTANTS
    Buffers,    \* input buffers of the decoder component
    BufferSize, \* bytes of one
    Packets,    \* what a packet may be: its pts (0: kNoPts) and its frames
    MaxPackets, \* bound on packets decoded
    MaxFlushes, \* bound on flushes
    Volumes,    \* volumes the user sets
    MayFail     \* the codec, a conversion and a call of a component may fail

ASSUME PoolAssumption == Buffers \in Nat \ {0} /\ BufferSize \in Nat \ {0}
ASSUME BoundsAssumption == MaxPackets \in Nat /\ MaxFlushes \in Nat /\ MayFail \in BOOLEAN
ASSUME PacketsAssumption ==
    Packets \subseteq [pts : Nat, frames : Seq([size : Nat \ {0}, chans : Nat \ {0}, format : STRING])]
ASSUME VolumesAssumption == 0 \notin Volumes

NoPts == 0
NoFrame == [id |-> <<0, 0>>, size |-> 0, chans |-> 0, format |-> "none"]
NoConverter == [chans |-> 0, format |-> "none"]
OutFormat == "out"

VARIABLES
    pc,            \* run: where it is in decode, "idle" outside
    packet,        \* its number, its pts and the frames the codec has not yet returned
    spinning,      \* the codec takes nothing of the packet and returns no frame, ever
    mGotFrame, mOutputSize, mPts,
    frame,         \* mFrame
    mConvert, mChans, mSampleFormat, \* the converter
    mSetStartTime, mLastPts,
    startLost,     \* history: the buffer that was to start the clock was refused
    available,     \* input buffers of the pool that are free
    sent,          \* history: the buffers the component was given since the last flush
    flushRequested, flushes, firstFresh, \* firstFresh: the first packet after the last flush
    decoded,       \* the pts of the packets decoded so far
    mMixer, mCurVolume, mLastVolume, volume, mixerVolume \* volume: read by applyVolume

frameVars == <<mGotFrame, mOutputSize, mPts, frame>>
converterVars == <<mConvert, mChans, mSampleFormat>>
timeVars == <<mSetStartTime, mLastPts, startLost>>
poolVars == <<available, sent>>
flushVars == <<flushRequested, flushes, firstFresh>>
volumeVars == <<mMixer, mCurVolume, mLastVolume, volume, mixerVolume>>
vars == <<pc, packet, decoded, spinning, frameVars, converterVars, timeVars, poolVars, flushVars, volumeVars>>

Init ==
    /\ pc = "idle" /\ packet = [number |-> 0, pts |-> NoPts, frames |-> <<>>] /\ decoded = <<>>
    /\ spinning = FALSE
    /\ mGotFrame = FALSE /\ mOutputSize = 0 /\ mPts = NoPts /\ frame = NoFrame
    /\ mConvert = NoConverter /\ mChans = 0 /\ mSampleFormat = "none"
    /\ mSetStartTime = TRUE /\ mLastPts = NoPts /\ startLost = FALSE
    /\ available = Buffers /\ sent = <<>>
    /\ flushRequested = FALSE /\ flushes = 0 /\ firstFresh = 1
    /\ mMixer = FALSE /\ mCurVolume = 1 /\ mLastVolume = 0 /\ volume = 0 /\ mixerVolume = 0

-------------------------------------------------------------------------------
(* decode *)

Decode(p) ==
    /\ pc = "idle" /\ Len(decoded) < MaxPackets
    /\ decoded' = Append(decoded, p.pts)
    /\ packet' = [number |-> Len(decoded) + 1, pts |-> p.pts, frames |-> p.frames]
    /\ pc' = "loop"
    /\ UNCHANGED <<spinning, frameVars, converterVars, timeVars, poolVars, flushVars, volumeVars>>

\* A frame that was not output keeps the pts of its packet.
FramePts == IF mOutputSize = 0 THEN packet.pts ELSE mPts

\* The codec returns a frame of what is left of the packet.
CodecCalled == pc = "loop" /\ ~mGotFrame /\ packet.frames # <<>> /\ ~spinning
CodecFrame ==
    /\ CodecCalled
    /\ mPts' = FramePts
    /\ mGotFrame' = TRUE
    /\ LET f == Head(packet.frames)
           number == IF frame.id[1] = packet.number THEN frame.id[2] + 1 ELSE 1
       IN frame' = [id |-> <<packet.number, number>>, size |-> f.size, chans |-> f.chans, format |-> f.format]
    /\ packet' = [packet EXCEPT !.frames = Tail(@)]
    /\ pc' = "convert"
    /\ UNCHANGED <<decoded, spinning, mOutputSize, converterVars, timeVars, poolVars, flushVars, volumeVars>>

\* The codec returns neither a frame nor an error.  data and size stay as they are: the call
\* is made again, without a look at flushRequested, until something comes, and that may
\* be never.
CodecNothing ==
    /\ CodecCalled
    /\ mPts' = FramePts
    /\ spinning' \in BOOLEAN
    /\ UNCHANGED <<pc, packet, decoded, mGotFrame, mOutputSize, frame, converterVars, timeVars, poolVars,
                   flushVars, volumeVars>>

\* A frame that was left when the last decode saw a flush requested is still to be output.
LeftFrame ==
    /\ pc = "loop" /\ mGotFrame /\ packet.frames # <<>>
    /\ mPts' = FramePts
    /\ pc' = "convert"
    /\ UNCHANGED <<packet, decoded, spinning, mGotFrame, mOutputSize, frame, converterVars, timeVars, poolVars,
                   flushVars, volumeVars>>

\* reset, which a flush calls too: the codec and what it returned are forgotten.
KeepOutput == mGotFrame' = FALSE /\ UNCHANGED mOutputSize
ForgetFrame == mGotFrame' = FALSE /\ mOutputSize' = 0

CodecError ==
    /\ MayFail /\ CodecCalled
    /\ mPts' = FramePts
    /\ ForgetFrame
    /\ pc' = "volume"
    /\ UNCHANGED <<packet, decoded, spinning, frame, converterVars, timeVars, poolVars, flushVars, volumeVars>>

PacketUsed ==
    /\ pc = "loop" /\ packet.frames = <<>>
    /\ pc' = "volume"
    /\ UNCHANGED <<packet, decoded, spinning, frameVars, converterVars, timeVars, poolVars, flushVars, volumeVars>>

\* The converter is made anew when the channels or the format of the frames change.
StaleConverter == mConvert # NoConverter /\ (mChans # frame.chans \/ frame.format # mSampleFormat)
Converter == [chans |-> frame.chans, format |-> frame.format]
Convert ==
    /\ pc = "convert"
    /\ mOutputSize' = frame.size
    /\ pc' = "wait"
    /\ IF frame.format = OutFormat THEN UNCHANGED converterVars
       ELSE /\ mChans' = IF StaleConverter THEN frame.chans ELSE mChans
            /\ IF StaleConverter \/ mConvert = NoConverter
               THEN mConvert' = Converter /\ mSampleFormat' = frame.format
               ELSE UNCHANGED <<mConvert, mSampleFormat>>
    /\ UNCHANGED <<packet, decoded, spinning, mGotFrame, mPts, frame, timeVars, poolVars, flushVars, volumeVars>>

ConvertFails ==
    /\ MayFail /\ pc = "convert"
    /\ mOutputSize' = 0 /\ mGotFrame' = FALSE
    /\ pc' = "loop"
    /\ UNCHANGED <<packet, decoded, spinning, mPts, frame, converterVars, timeVars, poolVars, flushVars, volumeVars>>

Space == available * BufferSize
SpaceFound ==
    /\ pc = "wait" /\ mOutputSize <= Space
    /\ pc' = "add"
    /\ UNCHANGED <<packet, decoded, spinning, frameVars, converterVars, timeVars, poolVars, flushVars, volumeVars>>

WaitsForSpace == FALSE
GivesUp == flushRequested
FlushSeen ==
    /\ pc = "wait" /\ mOutputSize > Space /\ GivesUp
    /\ pc' = "idle"
    /\ UNCHANGED <<packet, decoded, spinning, frameVars, converterVars, timeVars, poolVars, flushVars, volumeVars>>

-------------------------------------------------------------------------------
(* addBuffer *)

\* A buffer is stamped if it is the first after a flush, or later than all stamped
\* ones since a packet without a pts.
FlagIfNew == IF mSetStartTime THEN "start" ELSE IF mPts # NoPts /\ mPts # mLastPts THEN "timed" ELSE "unknown"
Flag == IF mSetStartTime THEN "start" ELSE IF mPts # NoPts /\ mPts > mLastPts THEN "timed" ELSE "unknown"
LastPts == IF mSetStartTime \/ mPts = NoPts \/ mPts > mLastPts THEN mPts ELSE mLastPts

FrameDone == mOutputSize' = 0 /\ mGotFrame' = FALSE /\ pc' = "loop" /\ UNCHANGED <<mPts, frame>>

\* The component may announce that its output has changed; srcChanged then makes the mixer.
AddBuffer ==
    /\ pc = "add" /\ available > 0
    /\ sent' = Append(sent, [frame |-> frame.id, pts |-> mPts, flag |-> Flag, length |-> mOutputSize])
    /\ available' = available - 1
    /\ mSetStartTime' = FALSE /\ mLastPts' = LastPts /\ UNCHANGED startLost
    /\ mMixer' \in {mMixer, TRUE}
    /\ FrameDone
    /\ UNCHANGED <<packet, decoded, spinning, converterVars, flushVars, mCurVolume, mLastVolume, volume, mixerVolume>>

\* emptyThisBuffer fails: the frame is lost, and with it its flag.
AddRefused ==
    /\ MayFail /\ pc = "add" /\ available > 0
    /\ mSetStartTime' = FALSE /\ mLastPts' = LastPts /\ startLost' = (startLost \/ mSetStartTime)
    /\ FrameDone
    /\ UNCHANGED <<packet, decoded, spinning, converterVars, poolVars, flushVars, volumeVars>>

\* No buffer within 200 ms: the end of stream took the last one.
AddTimesOut ==
    /\ pc = "add" /\ available = 0
    /\ FrameDone
    /\ UNCHANGED <<packet, decoded, spinning, converterVars, timeVars, poolVars, flushVars, volumeVars>>

-------------------------------------------------------------------------------
(* applyVolume, at the end of decode; and setVolume of the keyboard thread *)

ReadVolume ==
    /\ pc = "volume"
    /\ volume' = mCurVolume
    /\ pc' = IF mCurVolume # mLastVolume /\ mMixer THEN "mix" ELSE "idle"
    /\ UNCHANGED <<packet, decoded, spinning, frameVars, converterVars, timeVars, poolVars, flushVars,
                   mMixer, mCurVolume, mLastVolume, mixerVolume>>

SetMixer(v) == mixerVolume' = v /\ mLastVolume' = v
LastWanted == mCurVolume
LastApplied == volume
ApplyVolume ==
    /\ pc = "mix"
    /\ mixerVolume' = volume /\ mLastVolume' = LastApplied
    /\ pc' = "idle"
    /\ UNCHANGED <<packet, decoded, spinning, frameVars, converterVars, timeVars, poolVars, flushVars,
                   mMixer, mCurVolume, volume>>

ApplyFails ==
    /\ MayFail /\ pc = "mix"
    /\ pc' = "idle"
    /\ UNCHANGED <<packet, decoded, spinning, frameVars, converterVars, timeVars, poolVars, flushVars, volumeVars>>

\* setVolume applies it at once if it can.
SetVolume(v) ==
    /\ mCurVolume # v
    /\ mCurVolume' = v
    /\ \/ v # mLastVolume /\ mMixer /\ SetMixer(v)
       \/ (v = mLastVolume \/ ~mMixer \/ MayFail) /\ UNCHANGED <<mixerVolume, mLastVolume>>
    /\ UNCHANGED <<pc, packet, decoded, spinning, frameVars, converterVars, timeVars, poolVars, flushVars,
                   mMixer, volume>>

-------------------------------------------------------------------------------
(* The play thread and the component *)

FlushRequest ==
    /\ ~flushRequested /\ flushes < MaxFlushes
    /\ flushRequested' = TRUE /\ flushes' = flushes + 1
    /\ UNCHANGED <<pc, packet, decoded, spinning, frameVars, converterVars, timeVars, poolVars, firstFresh, volumeVars>>

\* flushDecoder: reset and flush.
StartKept == mSetStartTime
StartPending == TRUE
Flush ==
    /\ flushRequested /\ pc = "idle"
    /\ flushRequested' = FALSE
    /\ ForgetFrame
    /\ mSetStartTime' = StartPending /\ mLastPts' = NoPts /\ startLost' = FALSE
    /\ available' = Buffers /\ sent' = <<>>
    /\ firstFresh' = Len(decoded) + 1
    /\ UNCHANGED <<pc, packet, decoded, spinning, mPts, frame, converterVars, flushes, volumeVars>>

\* submitEOS, which gives up when no buffer comes free within a second.
SubmitEos ==
    /\ available > 0 /\ ~flushRequested /\ decoded # <<>>
    /\ ~\E i \in DOMAIN sent : sent[i].flag = "eos"
    /\ available' = available - 1
    /\ sent' = Append(sent, [frame |-> <<0, 0>>, pts |-> NoPts, flag |-> "eos", length |-> 0])
    /\ UNCHANGED <<pc, packet, decoded, spinning, frameVars, converterVars, timeVars, flushVars, volumeVars>>

\* The component has played a buffer.
EmptyBufferDone ==
    /\ available < Buffers
    /\ available' = available + 1
    /\ UNCHANGED <<pc, packet, decoded, spinning, frameVars, converterVars, timeVars, sent, flushVars, volumeVars>>

DecodeStep ==
    \/ CodecFrame \/ CodecNothing \/ LeftFrame \/ CodecError \/ PacketUsed
    \/ Convert \/ ConvertFails \/ SpaceFound \/ FlushSeen
    \/ AddBuffer \/ AddRefused \/ AddTimesOut \/ ReadVolume \/ ApplyVolume \/ ApplyFails

\* The player has decoded all it will, or calls the codec for ever.
Finished ==
    /\ (pc = "idle" /\ Len(decoded) = MaxPackets) \/ spinning
    /\ UNCHANGED vars

Next ==
    \/ \E p \in Packets : Decode(p)
    \/ DecodeStep
    \/ \E v \in Volumes : SetVolume(v)
    \/ FlushRequest \/ Flush \/ SubmitEos \/ EmptyBufferDone
    \/ Finished

Spec == Init /\ [][Next]_vars

\* The thread of run is scheduled; nothing is assumed of the component or the user.
FairSpec == Spec /\ WF_vars(DecodeStep)

-------------------------------------------------------------------------------
(* Properties *)

TypeOK ==
    /\ pc \in {"idle", "loop", "convert", "wait", "add", "volume", "mix"}
    /\ mGotFrame \in BOOLEAN /\ mOutputSize \in Nat /\ mPts \in Nat
    /\ ~mGotFrame => mOutputSize = 0
    /\ pc \in {"convert", "wait", "add"} => mGotFrame
    /\ mSetStartTime \in BOOLEAN /\ mLastPts \in Nat /\ startLost \in BOOLEAN
    /\ available \in 0..Buffers
    /\ flushRequested \in BOOLEAN /\ mMixer \in BOOLEAN /\ spinning \in BOOLEAN

\* The timestamps the component sees rise strictly from flush to flush, except past a
\* packet that had none: two frames of a packet, or packets out of order, are
\* never stamped alike or backwards.
Stamped(b) == b.flag \in {"start", "timed"} /\ b.pts # NoPts
TimesIncrease ==
    \A i, j \in DOMAIN sent :
        i < j /\ Stamped(sent[i]) /\ Stamped(sent[j])
            /\ (\A n \in sent[i].frame[1]..sent[j].frame[1] : decoded[n] # NoPts)
        => sent[i].pts < sent[j].pts

\* A buffer holds a frame of a packet from after the last flush, each frame once and
\* in order, stamped with the pts of its own packet.
HasFrame(b) == b.flag # "eos"
Earlier(x, y) == x[1] < y[1] \/ (x[1] = y[1] /\ x[2] < y[2])
FramesFresh ==
    /\ TypeOK
    /\ \A i \in DOMAIN sent : HasFrame(sent[i]) =>
           sent[i].frame[1] >= firstFresh /\ sent[i].pts = decoded[sent[i].frame[1]]
    /\ \A i, j \in DOMAIN sent :
           i < j /\ HasFrame(sent[i]) /\ HasFrame(sent[j]) => Earlier(sent[i].frame, sent[j].frame)

\* The first frame the component takes after opening or a flush, and no other, carries the
\* start time the clock waits for, unless the component refused the buffer that had it.
FirstFrame(i) == HasFrame(sent[i]) /\ \A j \in DOMAIN sent : j < i => ~HasFrame(sent[j])
StartFirst ==
    \A i \in DOMAIN sent :
        /\ sent[i].flag = "start" => FirstFrame(i)
        /\ FirstFrame(i) /\ ~startLost => sent[i].flag = "start"

\* The volume the object believes in is the mixer's, whoever of the two threads set it
\* last and whatever failed: so a volume that was missed is set after the next packet.
VolumeBelieved == mLastVolume = mixerVolume

\* A flush gets its turn: decode returns though the component plays nothing any more.  Of
\* its loops only the one around a codec that returns nothing does not look at the request.
DecodeReturns == flushRequested ~> ~flushRequested \/ pc = "idle" \/ spinning
===============================================================================
