-------------------------------- MODULE OmxChain --------------------------------
(***************************************************************************)
(* A player opens its decoder component and, when the decoder tells the    *)
(* format of its output, wires up the components behind it: srcChanged of  *)
(* cOmxVideo and cOmxAudio, cOmxTunnel::establish and deEstablish          *)
(* (cOmxCore.h), cOmxCore::init and deInit, and the close and delete of    *)
(* the player (cOmxAv.h, omx.cpp).  A wiring is a sequence of calls of     *)
(* which every one may fail; the plans below are those sequences, and a    *)
(* step does the first call of todo.  All of it runs under the decoder's   *)
(* mutex.  A handle is <<component, attempt that got it>> and a port       *)
(* <<component, attempt, port>>.                                           *)
(***************************************************************************)
EXTENDS Naturals, Sequences, FiniteSets

CONSTANTS
    Devices,     \* audio outputs: "anal" (omx:local), "hdmi", "both", and "none": a video player
    Interlaced,  \* what srcChanged may find mDeInterlace to be
    MaxFaults,   \* bound on calls that fail
    MaxAttempts, \* bound on wirings tried
    MaxChanges   \* bound on format changes after the wiring

ASSUME DevicesAssumption == Devices \subseteq {"none", "anal", "hdmi", "both"}
ASSUME InterlacedAssumption == Interlaced \subseteq BOOLEAN /\ Interlaced # {}
ASSUME BoundsAssumption == {MaxFaults, MaxAttempts, MaxChanges} \subseteq Nat

Components == {"decoder", "scheduler", "imageFx", "render", "mixer", "splitter", "anal", "hdmi"}
Tunnels == {"clock", "decoder", "imageFx", "sched",
            "mixer", "splitter anal", "splitter hdmi", "clock anal", "clock hdmi"}
Ports == {"in", "out", "out1", "clock", "clock in", "clock in+1", "clock in+2"}
NoEnds == <<"none", "in", "none", "in">>
Clock == "clock component"

VARIABLES
    phase,     \* "new", "opening", "open", "wiring", "closing", "closed", "refused", "crashed"
    device, todo,
    decoder,   \* mOmxVideo or mOmxAudio is not nullptr
    refused,   \* open returned false
    mDeInterlace,
    result,    \* what the last srcChanged returned
    handle,    \* component -> the attempt that got its handle, 0: nullptr
    state,     \* component -> its OMX state
    ends,      \* tunnel -> <<component, port, component, port>> of its init
    mTunnelSet,
    held, joined, enabled, \* in the GPU: handles not freed, ports in a tunnel, ports enabled
    attempts, changes, faults, closeFaults, \* closeFaults: calls of close that failed
    \* history: handles OMX_FreeHandle failed to free; a port was not re-enabled; a failed wiring was
    \* taken for one that is done
    unfreed, lame, mistaken

IsVideo == device = "none" \* cOmxVideo, not cOmxAudio
gpuVars == <<held, joined, enabled>>
vars == <<phase, device, todo, decoder, refused, mDeInterlace, result, handle, state, ends, mTunnelSet,
          gpuVars, attempts, changes, faults, closeFaults, unfreed, lame, mistaken>>

Init ==
    /\ phase = "new" /\ device \in Devices /\ todo = <<>> /\ decoder = FALSE /\ refused = FALSE
    /\ mDeInterlace = FALSE /\ result = "none"
    /\ handle = [c \in Components |-> 0] /\ state = [c \in Components |-> "Loaded"]
    /\ ends = [t \in Tunnels |-> NoEnds] /\ mTunnelSet = {}
    /\ held = {} /\ joined = {} /\ enabled = {}
    /\ attempts = 0 /\ changes = 0 /\ faults = 0 /\ closeFaults = 0
    /\ unfreed = {} /\ lame = FALSE /\ mistaken = FALSE

(***************************************************************************)
(* The plans: <<call, component or tunnel, argument>>.                     *)
(***************************************************************************)
Do(call, x) == <<call, x, "">>
When(b, plan) == IF b THEN plan ELSE <<>>

\* cOmxTunnel::establish: the source to Idle, OMX_SetupTunnel, the two ports
Establish(t) == <<Do("srcIdle", t), Do("setup", t), Do("enable", t)>>

OpenPlan == <<Do("init", "decoder")>>
    \o When(IsVideo, <<Do("idle", "decoder")>>)
    \o <<Do("config", "decoder"), Do("alloc", "decoder"), Do("execute", "decoder"), Do("config", "decoder")>>

VideoPlan(deInterlace) ==
    <<Do("init", "render"), Do("init", "scheduler"), <<"interlace", "decoder", deInterlace>>>>
    \o (IF deInterlace
        THEN <<Do("init", "imageFx"), Do("config", "imageFx"),
               <<"tunnel", "decoder", <<"decoder", "out", "imageFx", "in">>>>,
               <<"tunnel", "imageFx", <<"imageFx", "out", "scheduler", "in">>>>>>
        ELSE <<<<"tunnel", "decoder", <<"decoder", "out", "scheduler", "in">>>>>>)
    \o <<Do("config", "render"), <<"tunnel", "sched", <<"scheduler", "out", "render", "in">>>>,
         <<"tunnel", "clock", <<Clock, "clock in+1", "scheduler", "clock">>>>>>
    \o Establish("clock") \o Establish("decoder")
    \o When(deInterlace, Establish("imageFx") \o <<Do("execute", "imageFx")>>)
    \o Establish("sched") \o <<Do("execute", "scheduler"), Do("execute", "render")>>

Both == device = "both"
Renders == IF Both THEN {"anal", "hdmi"} ELSE {device}
PerRender(Plan(_)) == When("anal" \in Renders, Plan("anal")) \o When("hdmi" \in Renders, Plan("hdmi"))
ClockTunnel(r) == IF r = "anal" THEN "clock anal" ELSE "clock hdmi"
SplitTunnel(r) == IF r = "anal" THEN "splitter anal" ELSE "splitter hdmi"
ClockPort(r) == IF r = "hdmi" /\ Both THEN "clock in+2" ELSE "clock in"

AudioPlan ==
    LET ClockTo(r) == <<<<"tunnel", ClockTunnel(r), <<Clock, ClockPort(r), r, "clock">>>>>>
                      \o Establish(ClockTunnel(r))
        SplitTo(r) == <<<<"tunnel", SplitTunnel(r),
                          <<"splitter", IF r = "anal" THEN "out" ELSE "out1", r, "in">>>>>>
                      \o Establish(SplitTunnel(r))
        Sink == IF Both THEN "splitter" ELSE device
    IN  <<Do("init", "mixer")>> \o When(Both, <<Do("init", "splitter")>>)
        \o PerRender(LAMBDA r : <<Do("init", r)>>)
        \o <<Do("config", "mixer")>> \o PerRender(ClockTo) \o PerRender(LAMBDA r : <<Do("config", r)>>)
        \o When(Both, PerRender(SplitTo))
        \o <<<<"tunnel", "decoder", <<"decoder", "out", "mixer", "in">>>>,
             <<"tunnel", "mixer", <<"mixer", "out", Sink, "in">>>>>>
        \o Establish("decoder") \o <<Do("execute", "mixer")>> \o Establish("mixer")
        \o When(Both, <<Do("execute", "splitter")>>) \o PerRender(LAMBDA r : <<Do("execute", r)>>)

\* cOmxVideo::close and ~cOmxAudio, with the destructors of the components they leave
VideoClose ==
    <<Do("part", "clock"), Do("part", "decoder")>> \o When(mDeInterlace, <<Do("part", "imageFx")>>)
    \o <<Do("part", "sched"), Do("free", "scheduler"), Do("free", "decoder")>>
    \o When(mDeInterlace, <<Do("free", "imageFx")>>) \o <<Do("free", "render"), Do("free", "imageFx")>>
AudioClose ==
    <<Do("part", "clock anal"), Do("part", "clock hdmi"), Do("part", "decoder"), Do("part", "mixer"),
      Do("part", "splitter hdmi"), Do("part", "splitter anal"), Do("free", "decoder"), Do("free", "mixer"),
      Do("free", "splitter"), Do("free", "hdmi"), Do("free", "anal")>>
CloseFreesFirst ==
    LET plan == IF IsVideo THEN VideoClose ELSE AudioClose
    IN  SelectSeq(plan, LAMBDA s : s[1] = "free") \o SelectSeq(plan, LAMBDA s : s[1] = "part")
CloseLeavesRender ==
    SelectSeq(IF IsVideo THEN VideoClose ELSE AudioClose,
              LAMBDA s : s[1] = "free" => s[2] \notin {"render", "hdmi"})
ClosePlan == IF IsVideo THEN VideoClose ELSE AudioClose

(***************************************************************************)
(* What the calls share.                                                   *)
(***************************************************************************)
Serial(c) == IF c = Clock THEN 1 ELSE handle[c]
Port(c, p) == <<c, Serial(c), p>>
Src(t) == Port(ends[t][1], ends[t][2])
Dst(t) == Port(ends[t][3], ends[t][4])
PortsOf(c, n) == {c} \X {n} \X Ports
ClockPorts == PortsOf(Clock, 1)

Calls(call) == todo # <<>> /\ Head(todo)[1] = call
Subject == Head(todo)[2]
Argument == Head(todo)[3]

Fault == faults < MaxFaults /\ faults' = faults + 1
NoFault == UNCHANGED faults

\* the rest of the plan, and where it ends: open and srcChanged return true
Advance ==
    /\ todo' = Tail(todo)
    /\ phase' = IF Tail(todo) = <<>> THEN "open" ELSE phase
    /\ result' = IF Tail(todo) = <<>> /\ phase = "wiring" THEN "true" ELSE result
    /\ UNCHANGED refused

CarryOn == Advance
\* an error return: srcChanged returns false; the player's open closes and returns false
Abort ==
    /\ phase' = IF phase = "wiring" THEN "open" ELSE "closing"
    /\ todo' = IF phase = "wiring" THEN <<>> ELSE ClosePlan
    /\ refused' = (phase = "opening")
    /\ result' = IF phase = "wiring" THEN "false" ELSE result

history == <<device, decoder, attempts, changes, closeFaults, unfreed, lame, mistaken>>

(***************************************************************************)
(* The calls of open and srcChanged.                                       *)
(***************************************************************************)
\* cOmxCore::init forgets the handle it has; ports that disableAllPorts fails on stay enabled
InitComponent ==
    /\ Calls("init") /\ Advance
    /\ handle' = [handle EXCEPT ![Subject] = attempts + 1]
    /\ state' = [state EXCEPT ![Subject] = "Loaded"]
    /\ held' = held \cup {<<Subject, attempts + 1>>}
    /\ \/ NoFault /\ UNCHANGED enabled
       \/ Fault /\ enabled' = enabled \cup PortsOf(Subject, attempts + 1)
    /\ UNCHANGED <<history, mDeInterlace, ends, mTunnelSet, joined>>

InitFails ==
    /\ Calls("init") /\ Fault /\ Abort
    /\ handle' = [handle EXCEPT ![Subject] = 0]
    /\ state' = [state EXCEPT ![Subject] = "Loaded"]
    /\ UNCHANGED <<history, mDeInterlace, ends, mTunnelSet, gpuVars>>

\* setParam, setConfig, getParam and the first buffer, or setState from Loaded to Idle
Configure ==
    /\ (Calls("config") \/ Calls("idle")) /\ NoFault /\ Advance
    /\ state' = IF Calls("idle") THEN [state EXCEPT ![Subject] = "Idle"] ELSE state
    /\ UNCHANGED <<history, mDeInterlace, handle, ends, mTunnelSet, gpuVars>>

ChooseInterlace ==
    /\ Calls("interlace") /\ NoFault /\ Advance
    /\ mDeInterlace' = Argument
    /\ UNCHANGED <<history, handle, state, ends, mTunnelSet, gpuVars>>

\* cOmxTunnel::init leaves mTunnelSet as it is
InitTunnel ==
    /\ Calls("tunnel") /\ NoFault /\ Advance
    /\ ends' = [ends EXCEPT ![Subject] = Argument]
    /\ UNCHANGED <<history, mDeInterlace, handle, state, mTunnelSet, gpuVars>>

\* allocInputBuffers ignores a failure to reach Idle; a port that is enabled answers no command
AllocInputBuffers ==
    /\ Calls("alloc") /\ Port(Subject, "in") \notin enabled
    /\ \/ NoFault /\ state' = [state EXCEPT ![Subject] = "Idle"]
       \/ Fault /\ UNCHANGED state
    /\ Advance
    /\ enabled' = enabled \cup {Port(Subject, "in")}
    /\ UNCHANGED <<history, mDeInterlace, handle, ends, mTunnelSet, held, joined>>

\* a component refuses to execute unless it is Idle
Execute ==
    /\ Calls("execute") /\ state[Subject] = "Idle" /\ NoFault /\ Advance
    /\ state' = [state EXCEPT ![Subject] = "Executing"]
    /\ UNCHANGED <<history, mDeInterlace, handle, ends, mTunnelSet, gpuVars>>

SourceIdle ==
    LET c == ends[Subject][1] IN
    /\ Calls("srcIdle") /\ NoFault /\ Advance
    /\ state' = IF c # Clock /\ state[c] = "Loaded" THEN [state EXCEPT ![c] = "Idle"] ELSE state
    /\ UNCHANGED <<history, mDeInterlace, handle, ends, mTunnelSet, gpuVars>>

Set(t) == mTunnelSet \cup {t}

SetupTunnel ==
    /\ Calls("setup") /\ NoFault /\ Advance
    /\ joined' = joined \cup {Src(Subject), Dst(Subject)}
    /\ mTunnelSet' = Set(Subject)
    /\ UNCHANGED <<history, mDeInterlace, handle, state, ends, held, enabled>>

\* enablePort sends no command to a port that is enabled, and waitCommand then waits in vain
Answered(t) == {Src(t), Dst(t)} \cap enabled = {}

DestinationIdle(c) == IF state[c] = "Loaded" THEN [state EXCEPT ![c] = "Idle"] ELSE state

\* a port of a Loaded component is enabled at once, any other when the component at the other end of
\* its tunnel has left Loaded too and shares the buffers (the clock has been Idle since it was made)
Asleep(c, s) == c # Clock /\ s[c] = "Loaded"
Completes(c, peer, s) == Asleep(c, s) \/ ~Asleep(peer, s)

\* establish waits for the destination's port, puts the destination to Idle, and waits for the source's
WaitsSwapped(t) ==
    LET src == ends[t][1] dst == ends[t][3]
    IN  Completes(src, dst, state) /\ Completes(dst, src, DestinationIdle(dst))
WaitsEnd(t) ==
    LET src == ends[t][1] dst == ends[t][3]
    IN  Completes(dst, src, state) /\ Completes(src, dst, DestinationIdle(dst))

EnablePorts ==
    /\ Calls("enable") /\ Answered(Subject) /\ WaitsEnd(Subject) /\ NoFault /\ Advance
    /\ enabled' = enabled \cup {Src(Subject), Dst(Subject)}
    /\ state' = DestinationIdle(ends[Subject][3])
    /\ UNCHANGED <<history, mDeInterlace, handle, ends, mTunnelSet, held, joined>>

\* the ports that were enabled before establish gave up, and whether it got to the Idle state
EnableFails ==
    LET c == ends[Subject][3] IN
    /\ Calls("enable") /\ IF Answered(Subject) /\ WaitsEnd(Subject) THEN Fault ELSE NoFault
    /\ Abort
    /\ \E on \in SUBSET {Src(Subject), Dst(Subject)} :
        /\ enabled' = enabled \cup on
        /\ \/ UNCHANGED state
           \/ Dst(Subject) \in on /\ state[c] = "Loaded" /\ state' = [state EXCEPT ![c] = "Idle"]
    /\ UNCHANGED <<history, mDeInterlace, handle, ends, mTunnelSet, held, joined>>

\* any other call that returns an error
CallFails ==
    /\ \E call \in {"config", "idle", "alloc", "execute", "srcIdle", "setup"} : Calls(call)
    /\ IF \/ Calls("execute") /\ state[Subject] # "Idle"
          \/ Calls("alloc") /\ Port(Subject, "in") \in enabled
       THEN NoFault ELSE Fault
    /\ Abort
    /\ UNCHANGED <<history, mDeInterlace, handle, state, ends, mTunnelSet, gpuVars>>

(***************************************************************************)
(* The player: open, changes of format, close and delete.                  *)
(***************************************************************************)
Rest == <<handle, state, ends, mTunnelSet, gpuVars>>

Open ==
    /\ phase = "new"
    /\ phase' = "opening" /\ todo' = OpenPlan /\ decoder' = TRUE
    /\ UNCHANGED <<device, refused, mDeInterlace, result, attempts, changes, faults, closeFaults, unfreed, lame, mistaken,
                   Rest>>

\* a codec nothing decodes: the MPEG-2 that the video player refuses, before it makes its decoder,
\* any other codec, and for audio, whose flush needs the codec's context, the end of the program
OpenUnsupported ==
    /\ phase = "new" /\ Fault
    /\ refused' = TRUE
    /\ \/ IsVideo /\ phase' = "refused" /\ UNCHANGED <<decoder, todo>>
       \/ IsVideo /\ phase' = "closing" /\ decoder' = TRUE /\ todo' = ClosePlan
       \/ ~IsVideo /\ phase' = "crashed" /\ decoder' = TRUE /\ UNCHANGED todo
    /\ UNCHANGED <<device, mDeInterlace, result, attempts, changes, closeFaults, unfreed, lame, mistaken, Rest>>

\* how srcChanged recognises that the wiring is done: mSrcChanged, or the mixer's handle
IsWired == IF IsVideo THEN result = "true" ELSE handle["mixer"] # 0

SrcChanged ==
    /\ phase = "open" /\ ~IsWired /\ attempts < MaxAttempts
    /\ \E d \in Interlaced : todo' = IF IsVideo THEN VideoPlan(d) ELSE AudioPlan
    /\ phase' = "wiring" /\ attempts' = attempts + 1
    /\ UNCHANGED <<device, decoder, refused, mDeInterlace, result, changes, faults, closeFaults, unfreed, lame, mistaken,
                   Rest>>

\* the decoder's output is disabled and enabled again, and what these calls return is ignored
SrcChangedAgain ==
    LET port == Port("decoder", "out") IN
    /\ phase = "open" /\ IsWired /\ changes < MaxChanges
    /\ changes' = changes + 1 /\ result' = "true"
    /\ mistaken' = (mistaken \/ result = "false")
    /\ \/ NoFault /\ enabled' = enabled \cup {port} /\ UNCHANGED lame
       \/ Fault /\ \E on \in BOOLEAN : enabled' = (IF on THEN enabled \cup {port} ELSE enabled \ {port}) /\ lame' = TRUE
    /\ UNCHANGED <<phase, device, todo, decoder, refused, mDeInterlace, handle, state, ends, mTunnelSet,
                   held, joined, attempts, closeFaults, unfreed>>

\* the destructor of the player closes it, and close flushes the decoder
DeletePlayer ==
    /\ phase \in {"open", "refused"}
    /\ IF decoder THEN phase' = "closing" /\ todo' = ClosePlan
                  ELSE phase' = "crashed" /\ UNCHANGED todo
    /\ UNCHANGED <<device, decoder, refused, mDeInterlace, result, attempts, changes, faults, closeFaults, unfreed, lame, mistaken,
                   Rest>>

\* the next call of close; deleteDecoder comes last
Close ==
    /\ todo' = Tail(todo)
    /\ phase' = IF Tail(todo) # <<>> THEN phase ELSE IF refused THEN "refused" ELSE "closed"
    /\ decoder' = (Tail(todo) # <<>>)
    /\ mDeInterlace' = (mDeInterlace /\ Tail(todo) # <<>>)
    /\ UNCHANGED <<device, refused, result, attempts, changes, faults, lame, mistaken>>

\* deEstablish: failures, of the ports in stuck, are only logged
DeEstablish ==
    /\ Calls("part") /\ Close
    /\ UNCHANGED <<handle, state, ends, held, unfreed>>
    /\ IF Subject \notin mTunnelSet THEN UNCHANGED <<mTunnelSet, joined, enabled, closeFaults>>
       ELSE \E stuck \in SUBSET {Src(Subject), Dst(Subject)} :
            LET ports == {p \in {Src(Subject), Dst(Subject)} : p[2] # 0} \ stuck IN
            /\ stuck # {} => closeFaults < MaxFaults
            /\ closeFaults' = IF stuck = {} THEN closeFaults ELSE closeFaults + 1
            /\ mTunnelSet' = mTunnelSet \ {Subject}
            /\ joined' = joined \ ports /\ enabled' = enabled \ ports

Loaded(c) == [state EXCEPT ![c] = "Loaded"]

\* deInit, of a component that has a handle: back to Loaded and OMX_FreeHandle. Failures of either
\* are only logged, and a handle that could not be freed is forgotten like one that was.
DeInit ==
    LET own == <<Subject, handle[Subject]>> IN
    /\ Calls("free") /\ Close
    /\ state' = Loaded(Subject)
    /\ handle' = [handle EXCEPT ![Subject] = 0]
    /\ \/ /\ held' = held \ {own}
          /\ joined' = joined \ PortsOf(Subject, handle[Subject])
          /\ enabled' = enabled \ PortsOf(Subject, handle[Subject])
          /\ UNCHANGED unfreed
       \/ /\ handle[Subject] # 0
          /\ unfreed' = unfreed \cup {own}
          /\ UNCHANGED gpuVars
    /\ UNCHANGED <<ends, mTunnelSet, closeFaults>>

Next ==
    \/ Open \/ OpenUnsupported \/ SrcChanged \/ SrcChangedAgain \/ DeletePlayer
    \/ InitComponent \/ InitFails \/ Configure \/ ChooseInterlace \/ InitTunnel \/ AllocInputBuffers
    \/ Execute \/ SourceIdle \/ SetupTunnel \/ EnablePorts \/ EnableFails \/ CallFails
    \/ DeEstablish \/ DeInit

Spec == Init /\ [][Next]_vars

(***************************************************************************)
(* Properties.                                                             *)
(***************************************************************************)
Busy == {"opening", "wiring", "closing"}
Gone == phase \in {"closed", "refused"}
Used == {c \in Components : \E t \in mTunnelSet : c \in {ends[t][1], ends[t][3]}}

\* Every variable keeps its type: there are calls to do only within open, srcChanged and close,
\* and a component without a handle is not taken for one that executes.
TypeOK ==
    /\ phase \in Busy \cup {"new", "open", "closed", "refused", "crashed"}
    /\ (todo # <<>>) = (phase \in Busy)
    /\ result \in {"none", "true", "false"} /\ {decoder, refused, mDeInterlace, lame, mistaken} \subseteq BOOLEAN
    /\ handle \in [Components -> 0..MaxAttempts + 1]
    /\ state \in [Components -> {"Loaded", "Idle", "Executing"}]
    /\ \A c \in Components : handle[c] = 0 => state[c] = "Loaded"
    /\ mTunnelSet \subseteq Tunnels
    /\ held \subseteq Components \X (1..MaxAttempts + 1) /\ unfreed \subseteq Components \X (1..MaxAttempts + 1)
    /\ faults \in 0..MaxFaults /\ closeFaults \in 0..MaxFaults

\* The order of the calls is right: as long as no component fails, open and srcChanged never
\* return false, and no component is told to execute before it is Idle.
WiringWorks == faults = 0 => ~refused /\ phase # "crashed" /\ result # "false"

\* When srcChanged has returned true, every component of the chain executes and every tunnel joins
\* two ports that are enabled, also after a wiring that failed and was tried again, unless the
\* decoder's output was not enabled again, or cOmxAudio took a mixer that was left over from a
\* failed wiring for a wired chain.
Wired ==
    result = "true" /\ phase = "open" /\ ~mistaken =>
        /\ {"decoder"} \subseteq Used
        /\ \A c \in Used : handle[c] # 0 /\ state[c] = "Executing"
        /\ \A t \in mTunnelSet : {Src(t), Dst(t)} \subseteq joined
        /\ ~lame => \A t \in mTunnelSet : {Src(t), Dst(t)} \subseteq enabled

\* A player that is gone leaves nothing in the GPU, whichever call failed: every handle is freed,
\* except those that OMX_FreeHandle itself failed to free and those of the video chain that a
\* further srcChanged overwrote after one that failed, and unless a deEstablish failed the port of
\* the clock, which outlives the player, is free for the next file's tunnel.
NothingLeft ==
    /\ TypeOK
    /\ Gone =>
         /\ \A h \in held \ unfreed : IsVideo /\ h[1] # "decoder" /\ h[2] <= attempts
         /\ closeFaults = 0 => ClockPorts \cap (joined \cup enabled) = {}

\* deEstablish comes before deInit: no handle is freed while one of its ports is in a tunnel, unless
\* deEstablish failed or an image filter was left over from an earlier srcChanged.
TunnelsDownFirst ==
    [][\A h \in held \ held' :
        closeFaults = 0 /\ (attempts <= 1 \/ h[1] # "imageFx") => PortsOf(h[1], h[2]) \cap joined = {}]_vars
================================================================================
