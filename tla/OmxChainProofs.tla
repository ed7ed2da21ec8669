--------------------------- MODULE OmxChainProofs ---------------------------
(***************************************************************************)
(* What holds of a decoder and the components behind it, for every device, *)
(* any number of failing calls, wirings and changes of format.  First, a   *)
(* player that is gone leaves nothing in the GPU, and tunnels come down    *)
(* before the components are freed (ChainInv).  Then, a wiring gives up    *)
(* only after a call has failed, and one that returns true is one that     *)
(* works (WorkInv).                                                        *)
(***************************************************************************)
EXTENDS OmxChain, Integers, SequenceTheorems, FiniteSetTheorems, TLAPS

-----------------------------------------------------------------------------
(* The calls of a plan                                                       *)

Early == {"init", "interlace"}
Plain == {"config", "idle", "alloc", "execute", "srcIdle", "setup", "enable"}
OfTunnel == {"srcIdle", "setup", "enable"}
Quads == (Components \cup {Clock}) \X Ports \X Components \X Ports
AnyCall ==
    ({"init", "config", "idle", "alloc", "execute", "free"} \X Components \X {""})
    \cup ({"srcIdle", "setup", "enable", "part"} \X Tunnels \X {""})
    \cup ({"tunnel"} \X Tunnels \X Quads)
    \cup ({"interlace"} \X {"decoder"} \X BOOLEAN)

Items(plan) == {plan[i] : i \in 1..Len(plan)}
Subjects(plan, call) == {c \in Components \cup Tunnels : \E s \in Items(plan) : s[1] = call /\ s[2] = c}

\* What may come before what: components are made first, and each once; the deinterlacer
\* is chosen after the others are made; a tunnel is not initialised again once it is set up;
\* tunnels are taken down before components are freed.
MayPrecede(a, b) ==
    /\ b[1] \in Early => a[1] \in Early \cup {"config"}
    /\ a[1] = "interlace" /\ b[1] = "init" => b[2] = "imageFx"
    /\ a[1] = "init" /\ b[1] = "init" => a[2] # b[2]
    /\ a[1] = "setup" /\ b[1] = "tunnel" => a[2] # b[2]
    /\ a[1] = "free" => b[1] # "part"
InOrder(plan) == \A i, j \in 1..Len(plan) : i < j => MayPrecede(plan[i], plan[j])

\* A call of a tunnel comes after another of the same tunnel, unless that is not needed.
After(plan, calls, call, t, done) ==
    \A i \in 1..Len(plan) :
        plan[i][1] \in calls /\ plan[i][2] = t =>
            done \/ \E j \in 1..(i - 1) : plan[j][1] = call /\ plan[j][2] = t

\* The components and tunnels of the player, those it wires up with or without a deinterlacer,
\* and the tunnels that start at the clock with the port of each.
Chain == IF IsVideo THEN {"decoder", "scheduler", "render", "imageFx"}
         ELSE {"decoder", "mixer", "splitter", "anal", "hdmi"}
Members(d) ==
    IF IsVideo THEN {"decoder", "scheduler", "render"} \cup (IF d THEN {"imageFx"} ELSE {})
    ELSE {"decoder", "mixer"} \cup Renders \cup (IF Both THEN {"splitter"} ELSE {})
ChainTunnels == IF IsVideo THEN {"clock", "decoder", "imageFx", "sched"} ELSE Tunnels \ {"clock", "imageFx", "sched"}
ClockTunnels == {"clock", "clock anal", "clock hdmi"}
FromClock(t) == IF t = "clock" THEN "clock in+1"
                ELSE ClockPort(IF t = "clock anal" THEN "anal" ELSE "hdmi")

\* The ends that tunnel t may be given.
Shape(t, quad) ==
    /\ quad \in Quads
    /\ quad[1] = Clock <=> t \in ClockTunnels
    /\ t \in ClockTunnels => quad[2] = FromClock(t)
    /\ quad[1] = "decoder" <=> t = "decoder"
    /\ t = "decoder" => quad[2] = "out"
    /\ quad[3] # "decoder"
    /\ t = "imageFx" => quad[1] = "imageFx" /\ quad[3] = "scheduler"

\* A call of a wiring with (d) or without a deinterlacer.
Fits(s, d) ==
    /\ s[1] \in Early \cup Plain \cup {"tunnel"}
    /\ s[1] = "init" => s[2] \in Members(d) \ {"decoder"}
    /\ s[1] \in {"idle", "alloc"} => FALSE
    /\ s[1] = "interlace" => s[3] = d /\ IsVideo
    /\ s[1] \in OfTunnel => s[2] \in ChainTunnels
    /\ s[1] = "setup" /\ s[2] = "imageFx" => d
    /\ s[1] = "tunnel" => Shape(s[2], s[3]) /\ s[3][1] \in Members(d) \cup {Clock} /\ s[3][3] \in Members(d)

-----------------------------------------------------------------------------
(* The invariant *)

Typed ==
    /\ TypeOK
    /\ todo \in Seq(AnyCall)
    /\ attempts \in 0..MaxAttempts
    /\ device \in {"none", "anal", "hdmi", "both"}
    /\ mTunnelSet \subseteq ChainTunnels
    /\ ends \in [Tunnels -> Quads \cup {NoEnds}]
    /\ \A t \in Tunnels : ends[t] = NoEnds \/ Shape(t, ends[t])
    /\ ~IsVideo => ~mDeInterlace

\* An attempt gives out its own number as handle, and the decoder has the first.
OnlyDecoder == \A h \in held : h[1] = "decoder"
Numbered ==
    /\ \A c \in Components : handle[c] <= attempts + 1 /\ (handle[c] # 0 => <<c, handle[c]>> \in held)
    /\ \A c \in Components \ {"decoder"} : handle[c] # 1
    /\ handle["decoder"] \in {0, 1}
    /\ \A h \in held : h[1] \in Chain /\ h[2] <= attempts + 1 /\ (h[1] = "decoder" => h[2] = 1)
    /\ \A p \in joined : p[2] \in Nat /\ p[2] <= attempts + 1

Before ==
    /\ phase = "new" => attempts = 0 /\ held = {} /\ joined = {} /\ enabled = {} /\ mTunnelSet = {} /\ ~decoder
    /\ phase = "opening" =>
         /\ attempts = 0 /\ joined = {} /\ enabled \cap ClockPorts = {} /\ mTunnelSet = {}
         /\ InOrder(todo) /\ OnlyDecoder
         /\ \A s \in Items(todo) : s[1] \in {"init", "config", "idle", "alloc", "execute"} /\ s[2] = "decoder"
         /\ handle["decoder"] # 0 \/ Head(todo)[1] = "init"
         /\ "decoder" \in Subjects(todo, "init") => held = {}

\* What is left of a wiring fits to what is done of it.
Wiring(d) ==
    /\ InOrder(todo)
    /\ \A s \in Items(todo) : Fits(s, d)
    /\ handle["decoder"] # 0 /\ attempts # 0
    /\ \A c \in Members(d) \ {"decoder"} : c \in Subjects(todo, "init") \/ handle[c] = attempts + 1
    /\ \A c \in Subjects(todo, "init") : <<c, attempts + 1>> \notin held
    /\ (\E s \in Items(todo) : s[1] \in Early) => \A p \in joined : p[2] <= attempts
    /\ \A t \in Tunnels : After(todo, {"enable"}, "setup", t, t \in mTunnelSet)
    /\ \A t \in Tunnels :
          After(todo, OfTunnel, "tunnel", t,
                ends[t][1] \in Members(d) \cup {Clock} /\ ends[t][3] \in Members(d))
    /\ IsVideo => mDeInterlace = d \/ \E s \in Items(todo) : s[1] = "interlace"
WhileWiring == phase = "wiring" => \E d \in BOOLEAN : Wiring(d)
WhenOpen == phase = "open" => handle["decoder"] # 0

\* cOmxAudio makes the mixer first, and tries again only as long as it has none.
MixerFirst ==
    ~IsVideo =>
        /\ phase = "open" => handle["mixer"] # 0 \/ OnlyDecoder
        /\ phase = "wiring" =>
              \/ handle["mixer"] # 0 /\ "mixer" \notin Subjects(todo, "init")
              \/ Head(todo) = Do("init", "mixer") /\ OnlyDecoder
        /\ phase = "wiring" => \A h \in held : h[1] = "decoder" \/ h[2] = attempts + 1

\* The handles that a player has neither overwritten nor failed to free are those its components
\* have, and while it closes they are still to be freed.
Owned(h) == h \notin unfreed /\ (~IsVideo \/ h[1] = "decoder" \/ h[2] = attempts + 1)
HandlesKept ==
    \A h \in held : Owned(h) =>
        /\ handle[h[1]] = h[2] /\ ~Gone
        /\ phase = "closing" => h[1] \in Subjects(todo, "free")

\* A port of the clock that is used is one end of a tunnel that is set up, and while the
\* player closes that tunnel is still to be taken down.
ClockUsed ==
    /\ closeFaults = 0 =>
         \A p \in (joined \cup enabled) \cap ClockPorts : \E t \in mTunnelSet \cap ClockTunnels : p = Src(t)
    /\ phase = "closing" => mTunnelSet \cap ClockTunnels \subseteq Subjects(todo, "part")
    /\ Gone => mTunnelSet \cap ClockTunnels = {}

\* A port in a tunnel is one end of a tunnel that is set up, and while the player closes that
\* tunnel is still to be taken down; without the image filters that were left over.
Current(p) == p[2] # 0 /\ p[1] \in Components /\ p[2] = handle[p[1]] /\ (attempts <= 1 \/ p[1] # "imageFx")
JoinedBy(p, t) ==
    /\ t \in mTunnelSet /\ p \in {Src(t), Dst(t)} /\ (t = "imageFx" => mDeInterlace)
    /\ phase = "wiring" =>
          p[1] = "decoder" \/ t \notin Subjects(todo, "tunnel") \/ p[2] # attempts + 1
TunnelsKept ==
    /\ closeFaults = 0 /\ ~Gone /\ phase # "crashed" =>
         \A p \in joined : Current(p) => \E t \in mTunnelSet : JoinedBy(p, t)
    /\ phase = "closing" =>
         /\ InOrder(todo)
         /\ \A s \in Items(todo) : s[1] \in {"part", "free"} /\ (s[1] = "free" => s[2] \in Chain)
         /\ mTunnelSet \subseteq Subjects(todo, "part") \cup (IF mDeInterlace THEN {} ELSE {"imageFx"})
    /\ Gone => ~decoder

ChainInv ==
    /\ Typed /\ Numbered /\ Before /\ WhileWiring /\ WhenOpen /\ MixerFirst /\ HandlesKept
    /\ ClockUsed /\ TunnelsKept

-----------------------------------------------------------------------------
(* Sequences of calls *)

LEMMA ItemsOfTail ==
    ASSUME NEW S, NEW plan \in Seq(S), plan # <<>>
    PROVE  /\ Head(plan) \in Items(plan) /\ Tail(plan) \in Seq(S)
           /\ Items(Tail(plan)) \subseteq Items(plan)
           /\ \A s \in Items(plan) : s = Head(plan) \/ s \in Items(Tail(plan))
<1>1. Len(plan) \in Nat \ {0} /\ Tail(plan) \in Seq(S) /\ Len(Tail(plan)) = Len(plan) - 1
      /\ \A i \in 1..Len(Tail(plan)) : Tail(plan)[i] = plan[i + 1]
  BY HeadTailProperties, EmptySeq, LenProperties
<1>2. Head(plan) = plan[1]
  OBVIOUS
<1>3. ASSUME NEW s \in Items(Tail(plan)) PROVE s \in Items(plan)
  <2>1. PICK i \in 1..Len(Tail(plan)) : s = Tail(plan)[i]
    BY DEF Items
  <2>2. s = plan[i + 1] /\ i + 1 \in 1..Len(plan)
    BY <1>1, <2>1
  <2> QED BY <2>2 DEF Items
<1>4. ASSUME NEW s \in Items(plan), s # Head(plan) PROVE s \in Items(Tail(plan))
  <2>1. PICK i \in 1..Len(plan) : s = plan[i]
    BY DEF Items
  <2>2. i - 1 \in 1..Len(Tail(plan)) /\ Tail(plan)[i - 1] = s
    BY <1>1, <1>2, <1>4, <2>1
  <2> QED BY <2>2 DEF Items
<1>5. Head(plan) \in Items(plan)
  BY <1>1, <1>2 DEF Items
<1> QED BY <1>1, <1>3, <1>4, <1>5

LEMMA ItemsOfEmpty == Items(<<>>) = {}
BY DEF Items

LEMMA ItemsOfOne ==
    ASSUME NEW a
    PROVE  Items(<<a>>) = {a}
BY DEF Items

LEMMA ItemsOfTwo ==
    ASSUME NEW a, NEW b
    PROVE  Items(<<a, b>>) = {a, b}
<1>1. 1..Len(<<a, b>>) = {1, 2}
  OBVIOUS
<1> QED BY <1>1 DEF Items

LEMMA ItemsOfThree ==
    ASSUME NEW a, NEW b, NEW c
    PROVE  Items(<<a, b, c>>) = {a, b, c}
<1>1. 1..Len(<<a, b, c>>) = {1, 2, 3}
  OBVIOUS
<1> QED BY <1>1 DEF Items

LEMMA ItemsOfConcat ==
    ASSUME NEW S, NEW a \in Seq(S), NEW b \in Seq(S)
    PROVE  /\ a \o b \in Seq(S) /\ Items(a \o b) = Items(a) \cup Items(b)
<1>1. /\ a \o b \in Seq(S) /\ Len(a \o b) = Len(a) + Len(b) /\ Len(a) \in Nat /\ Len(b) \in Nat
      /\ \A i \in 1..(Len(a) + Len(b)) : (a \o b)[i] = IF i <= Len(a) THEN a[i] ELSE b[i - Len(a)]
  BY ConcatProperties, LenProperties
<1>2. ASSUME NEW s \in Items(a) PROVE s \in Items(a \o b)
  <2>1. PICK i \in 1..Len(a) : s = a[i]
    BY DEF Items
  <2>2. i \in 1..Len(a \o b) /\ (a \o b)[i] = s
    BY <1>1, <2>1
  <2> QED BY <2>2 DEF Items
<1>3. ASSUME NEW s \in Items(b) PROVE s \in Items(a \o b)
  <2>1. PICK i \in 1..Len(b) : s = b[i]
    BY DEF Items
  <2>2. i + Len(a) \in 1..Len(a \o b) /\ (a \o b)[i + Len(a)] = s
    BY <1>1, <2>1
  <2> QED BY <2>2 DEF Items
<1>4. ASSUME NEW s \in Items(a \o b) PROVE s \in Items(a) \cup Items(b)
  <2>1. PICK i \in 1..Len(a \o b) : s = (a \o b)[i]
    BY DEF Items
  <2>2. CASE i <= Len(a)
    <3>1. i \in 1..Len(a) /\ s = a[i]
      BY <1>1, <2>1, <2>2
    <3> QED BY <3>1 DEF Items
  <2>3. CASE ~(i <= Len(a))
    <3>1. i - Len(a) \in 1..Len(b) /\ s = b[i - Len(a)]
      BY <1>1, <2>1, <2>3
    <3> QED BY <3>1 DEF Items
  <2> QED BY <2>2, <2>3
<1> QED BY <1>1, <1>2, <1>3, <1>4

LEMMA SubjectsOfTail ==
    ASSUME NEW S, NEW plan \in Seq(S), plan # <<>>, NEW call
    PROVE  /\ Subjects(Tail(plan), call) \subseteq Subjects(plan, call)
           /\ \A c \in Subjects(plan, call) :
                 c \in Subjects(Tail(plan), call) \/ (Head(plan)[1] = call /\ Head(plan)[2] = c)
BY ItemsOfTail DEF Subjects

LEMMA SubjectsOfEmpty ==
    ASSUME NEW call
    PROVE  Subjects(<<>>, call) = {}
BY ItemsOfEmpty DEF Subjects

LEMMA InOrderTail ==
    ASSUME NEW S, NEW plan \in Seq(S), plan # <<>>, InOrder(plan)
    PROVE  /\ InOrder(Tail(plan))
           /\ \A s \in Items(Tail(plan)) : MayPrecede(Head(plan), s)
<1>1. Len(plan) \in Nat \ {0} /\ Len(Tail(plan)) = Len(plan) - 1
      /\ \A i \in 1..Len(Tail(plan)) : Tail(plan)[i] = plan[i + 1]
  BY HeadTailProperties, EmptySeq, LenProperties
<1>2. Head(plan) = plan[1]
  OBVIOUS
<1>3. ASSUME NEW i \in 1..Len(Tail(plan)), NEW j \in 1..Len(Tail(plan)), i < j
      PROVE  MayPrecede(Tail(plan)[i], Tail(plan)[j])
  <2>1. i + 1 \in 1..Len(plan) /\ j + 1 \in 1..Len(plan) /\ i + 1 < j + 1
    BY <1>1, <1>3
  <2>2. MayPrecede(plan[i + 1], plan[j + 1])
    BY <2>1 DEF InOrder
  <2> QED BY <1>1, <2>2
<1>4. ASSUME NEW s \in Items(Tail(plan)) PROVE MayPrecede(Head(plan), s)
  <2>1. PICK i \in 1..Len(Tail(plan)) : s = Tail(plan)[i]
    BY DEF Items
  <2>2. s = plan[i + 1] /\ i + 1 \in 1..Len(plan) /\ 1 \in 1..Len(plan) /\ 1 < i + 1
    BY <1>1, <2>1
  <2>3. MayPrecede(plan[1], plan[i + 1])
    BY <2>2 DEF InOrder
  <2> QED BY <1>2, <2>2, <2>3
<1> QED BY <1>3, <1>4 DEF InOrder

LEMMA InOrderConcat ==
    ASSUME NEW S, NEW a \in Seq(S), NEW b \in Seq(S), InOrder(a), InOrder(b),
           \A x \in Items(a), y \in Items(b) : MayPrecede(x, y)
    PROVE  InOrder(a \o b)
<1>1. /\ Len(a \o b) = Len(a) + Len(b) /\ Len(a) \in Nat /\ Len(b) \in Nat
      /\ \A i \in 1..(Len(a) + Len(b)) : (a \o b)[i] = IF i <= Len(a) THEN a[i] ELSE b[i - Len(a)]
  BY ConcatProperties, LenProperties
<1> SUFFICES ASSUME NEW i \in 1..Len(a \o b), NEW j \in 1..Len(a \o b), i < j
             PROVE  MayPrecede((a \o b)[i], (a \o b)[j])
  BY DEF InOrder
<1>2. CASE j <= Len(a)
  <2>1. i \in 1..Len(a) /\ j \in 1..Len(a) /\ (a \o b)[i] = a[i] /\ (a \o b)[j] = a[j]
    BY <1>1, <1>2
  <2> QED BY <2>1 DEF InOrder
<1>3. CASE i <= Len(a) /\ ~(j <= Len(a))
  <2>1. i \in 1..Len(a) /\ j - Len(a) \in 1..Len(b) /\ (a \o b)[i] = a[i] /\ (a \o b)[j] = b[j - Len(a)]
    BY <1>1, <1>3
  <2> QED BY <2>1 DEF Items
<1>4. CASE ~(i <= Len(a))
  <2>1. i - Len(a) \in 1..Len(b) /\ j - Len(a) \in 1..Len(b) /\ i - Len(a) < j - Len(a)
        /\ (a \o b)[i] = b[i - Len(a)] /\ (a \o b)[j] = b[j - Len(a)]
    BY <1>1, <1>4
  <2> QED BY <2>1 DEF InOrder
<1> QED BY <1>1, <1>2, <1>3, <1>4

LEMMA AfterTail ==
    ASSUME NEW S, NEW plan \in Seq(S), plan # <<>>, NEW calls, NEW call, NEW t,
           NEW done, NEW later, After(plan, calls, call, t, done), done => later,
           Head(plan)[1] = call /\ Head(plan)[2] = t => later
    PROVE  After(Tail(plan), calls, call, t, later)
<1>1. Len(plan) \in Nat \ {0} /\ Len(Tail(plan)) = Len(plan) - 1
      /\ \A i \in 1..Len(Tail(plan)) : Tail(plan)[i] = plan[i + 1]
  BY HeadTailProperties, EmptySeq, LenProperties
<1>2. Head(plan) = plan[1]
  OBVIOUS
<1> SUFFICES ASSUME NEW i \in 1..Len(Tail(plan)), Tail(plan)[i][1] \in calls, Tail(plan)[i][2] = t, ~later
             PROVE  \E j \in 1..(i - 1) : Tail(plan)[j][1] = call /\ Tail(plan)[j][2] = t
  BY DEF After
<1>3. i + 1 \in 1..Len(plan) /\ plan[i + 1][1] \in calls /\ plan[i + 1][2] = t /\ ~done
  BY <1>1
<1>4. PICK j \in 1..(i + 1 - 1) : plan[j][1] = call /\ plan[j][2] = t
  BY <1>3 DEF After
<1>5. j # 1
  BY <1>2, <1>4
<1>6. j - 1 \in 1..(i - 1) /\ j - 1 \in 1..Len(Tail(plan)) /\ Tail(plan)[j - 1] = plan[j]
  BY <1>1, <1>4, <1>5
<1> QED BY <1>4, <1>6

LEMMA AfterHead ==
    ASSUME NEW S, NEW plan \in Seq(S), plan # <<>>, NEW calls, NEW call, NEW t, NEW done,
           After(plan, calls, call, t, done), Head(plan)[1] \in calls, Head(plan)[2] = t
    PROVE  done
<1>1. Len(plan) \in Nat \ {0} /\ Head(plan) = plan[1]
  BY EmptySeq, LenProperties
<1>2. 1 \in 1..Len(plan) /\ 1..(1 - 1) = {}
  BY <1>1
<1> QED BY <1>1, <1>2 DEF After

LEMMA AfterWeaker ==
    ASSUME NEW plan, NEW calls, NEW call, NEW t, NEW done, After(plan, calls, call, t, FALSE)
    PROVE  After(plan, calls, call, t, done)
BY DEF After

\* Two plans that are in order, or of which the first has what the second needs.
LEMMA AfterConcat ==
    ASSUME NEW S, NEW a \in Seq(S), NEW b \in Seq(S), NEW calls, NEW call, NEW t,
           After(a, calls, call, t, FALSE),
           \/ After(b, calls, call, t, FALSE)
           \/ \E s \in Items(a) : s[1] = call /\ s[2] = t
    PROVE  After(a \o b, calls, call, t, FALSE)
<1>1. /\ Len(a \o b) = Len(a) + Len(b) /\ Len(a) \in Nat /\ Len(b) \in Nat
      /\ \A i \in 1..(Len(a) + Len(b)) : (a \o b)[i] = IF i <= Len(a) THEN a[i] ELSE b[i - Len(a)]
  BY ConcatProperties, LenProperties
<1> SUFFICES ASSUME NEW i \in 1..Len(a \o b), (a \o b)[i][1] \in calls, (a \o b)[i][2] = t
             PROVE  \E j \in 1..(i - 1) : (a \o b)[j][1] = call /\ (a \o b)[j][2] = t
  BY DEF After
<1>2. CASE i <= Len(a)
  <2>1. i \in 1..Len(a) /\ (a \o b)[i] = a[i]
    BY <1>1, <1>2
  <2>2. PICK j \in 1..(i - 1) : a[j][1] = call /\ a[j][2] = t
    BY <2>1 DEF After
  <2>3. (a \o b)[j] = a[j]
    BY <1>1, <1>2, <2>2
  <2> QED BY <2>2, <2>3
<1>3. CASE ~(i <= Len(a)) /\ After(b, calls, call, t, FALSE)
  <2>1. i - Len(a) \in 1..Len(b) /\ (a \o b)[i] = b[i - Len(a)]
    BY <1>1, <1>3
  <2>2. PICK j \in 1..(i - Len(a) - 1) : b[j][1] = call /\ b[j][2] = t
    BY <1>3, <2>1 DEF After
  <2>3. j + Len(a) \in 1..(i - 1) /\ (a \o b)[j + Len(a)] = b[j]
    BY <1>1, <1>3, <2>2
  <2> QED BY <2>2, <2>3
<1>4. CASE ~(i <= Len(a)) /\ \E s \in Items(a) : s[1] = call /\ s[2] = t
  <2>1. PICK j \in 1..Len(a) : a[j][1] = call /\ a[j][2] = t
    BY <1>4 DEF Items
  <2>2. j \in 1..(i - 1) /\ (a \o b)[j] = a[j]
    BY <1>1, <1>4, <2>1
  <2> QED BY <2>1, <2>2
<1> QED BY <1>1, <1>2, <1>3, <1>4

LEMMA AfterNone ==
    ASSUME NEW plan, NEW calls, NEW call, NEW t, \A s \in Items(plan) : s[1] \in calls => s[2] # t
    PROVE  After(plan, calls, call, t, FALSE)
BY DEF After, Items

-----------------------------------------------------------------------------
(* The plans *)

\* A part of a wiring: in order, every call fits, and ports are enabled in tunnels set up.
Good(plan, d) ==
    /\ plan \in Seq(AnyCall) /\ InOrder(plan)
    /\ \A s \in Items(plan) : Fits(s, d)
    /\ \A t \in Tunnels : After(plan, {"enable"}, "setup", t, FALSE)
\* Its tunnels are given their ends before anything else.
EndsFirst(plan) == \A t \in Tunnels : After(plan, OfTunnel, "tunnel", t, FALSE)
AllPlain(plan) == \A s \in Items(plan) : s[1] \in Plain

LEMMA GoodEmpty ==
    ASSUME NEW d
    PROVE  Good(<<>>, d) /\ EndsFirst(<<>>) /\ AllPlain(<<>>)
<1>1. <<>> \in Seq(AnyCall) /\ Len(<<>>) = 0
  OBVIOUS
<1>2. InOrder(<<>>)
  BY <1>1 DEF InOrder
<1>3. \A t \in Tunnels : After(<<>>, {"enable"}, "setup", t, FALSE) /\ After(<<>>, OfTunnel, "tunnel", t, FALSE)
  BY ItemsOfEmpty, AfterNone
<1> QED BY <1>1, <1>2, <1>3, ItemsOfEmpty DEF Good, EndsFirst, AllPlain

LEMMA GoodConcat ==
    ASSUME NEW a, NEW b, NEW d, Good(a, d), Good(b, d),
           \A x \in Items(a), y \in Items(b) : MayPrecede(x, y)
    PROVE  Good(a \o b, d)
<1>1. a \in Seq(AnyCall) /\ b \in Seq(AnyCall) /\ InOrder(a) /\ InOrder(b)
  BY DEF Good
<1>2. a \o b \in Seq(AnyCall) /\ Items(a \o b) = Items(a) \cup Items(b)
  BY <1>1, ItemsOfConcat
<1>3. InOrder(a \o b)
  BY <1>1, InOrderConcat
<1>4. \A s \in Items(a \o b) : Fits(s, d)
  BY <1>2 DEF Good
<1>5. ASSUME NEW t \in Tunnels PROVE After(a \o b, {"enable"}, "setup", t, FALSE)
  <2>1. After(a, {"enable"}, "setup", t, FALSE) /\ After(b, {"enable"}, "setup", t, FALSE)
    BY DEF Good
  <2> QED BY <1>1, <2>1, AfterConcat
<1> QED BY <1>2, <1>3, <1>4, <1>5 DEF Good

LEMMA PlainFollows ==
    ASSUME NEW x, NEW y, y[1] \in Plain
    PROVE  MayPrecede(x, y)
BY DEF MayPrecede, Plain, Early

LEMMA GoodThenPlain ==
    ASSUME NEW a, NEW b, NEW d, Good(a, d), Good(b, d), AllPlain(b)
    PROVE  Good(a \o b, d)
BY GoodConcat, PlainFollows DEF AllPlain

LEMMA PlainConcat ==
    ASSUME NEW a, NEW b, NEW d, Good(a, d), Good(b, d), AllPlain(a), AllPlain(b)
    PROVE  AllPlain(a \o b)
<1>1. Items(a \o b) = Items(a) \cup Items(b)
  BY ItemsOfConcat DEF Good
<1> QED BY <1>1 DEF AllPlain

\* The second part gives its tunnels their ends itself, or the first has done it.
LEMMA EndsConcat ==
    ASSUME NEW a, NEW b, NEW d, Good(a, d), Good(b, d), EndsFirst(a),
           \A s \in Items(b) : s[1] \in OfTunnel =>
               EndsFirst(b) \/ \E x \in Items(a) : x[1] = "tunnel" /\ x[2] = s[2]
    PROVE  EndsFirst(a \o b)
<1> SUFFICES ASSUME NEW t \in Tunnels PROVE After(a \o b, OfTunnel, "tunnel", t, FALSE)
  BY DEF EndsFirst
<1>1. a \in Seq(AnyCall) /\ b \in Seq(AnyCall) /\ After(a, OfTunnel, "tunnel", t, FALSE)
  BY DEF Good, EndsFirst
<1>2. CASE \A s \in Items(b) : s[1] \in OfTunnel => s[2] # t
  <2>1. After(b, OfTunnel, "tunnel", t, FALSE)
    BY <1>2, AfterNone
  <2> QED BY <1>1, <2>1, AfterConcat
<1>3. CASE \E x \in Items(a) : x[1] = "tunnel" /\ x[2] = t
  BY <1>1, <1>3, AfterConcat
<1>4. CASE EndsFirst(b)
  <2>1. After(b, OfTunnel, "tunnel", t, FALSE)
    BY <1>4 DEF EndsFirst
  <2> QED BY <1>1, <2>1, AfterConcat
<1> QED BY <1>2, <1>3, <1>4

LEMMA GoodOne ==
    ASSUME NEW s \in AnyCall, NEW d, Fits(s, d), s[1] # "enable"
    PROVE  Good(<<s>>, d) /\ Items(<<s>>) = {s}
<1>1. Items(<<s>>) = {s}
  BY ItemsOfOne
<1>2. InOrder(<<s>>)
  BY DEF InOrder
<1>3. \A t \in Tunnels : After(<<s>>, {"enable"}, "setup", t, FALSE)
  BY <1>1, AfterNone
<1>4. <<s>> \in Seq(AnyCall)
  OBVIOUS
<1> QED BY <1>1, <1>2, <1>3, <1>4 DEF Good

LEMMA GoodTwo ==
    ASSUME NEW r \in AnyCall, NEW s \in AnyCall, NEW d, Fits(r, d), Fits(s, d), MayPrecede(r, s),
           r[1] # "enable", s[1] # "enable"
    PROVE  Good(<<r, s>>, d) /\ Items(<<r, s>>) = {r, s}
<1>1. Items(<<r, s>>) = {r, s}
  BY ItemsOfTwo
<1>2. InOrder(<<r, s>>)
  <2>1. 1..Len(<<r, s>>) = {1, 2}
    OBVIOUS
  <2> QED BY <2>1 DEF InOrder
<1>3. \A t \in Tunnels : After(<<r, s>>, {"enable"}, "setup", t, FALSE)
  BY <1>1, AfterNone
<1>4. <<r, s>> \in Seq(AnyCall)
  OBVIOUS
<1> QED BY <1>1, <1>2, <1>3, <1>4 DEF Good

LEMMA GoodThree ==
    ASSUME NEW r \in AnyCall, NEW s \in AnyCall, NEW u \in AnyCall, NEW d,
           Fits(r, d), Fits(s, d), Fits(u, d),
           MayPrecede(r, s), MayPrecede(r, u), MayPrecede(s, u),
           r[1] # "enable", s[1] # "enable", u[1] # "enable"
    PROVE  Good(<<r, s, u>>, d) /\ Items(<<r, s, u>>) = {r, s, u}
<1>1. Items(<<r, s, u>>) = {r, s, u}
  BY ItemsOfThree
<1>2. InOrder(<<r, s, u>>)
  <2>1. 1..Len(<<r, s, u>>) = {1, 2, 3}
    OBVIOUS
  <2> QED BY <2>1 DEF InOrder
<1>3. \A t \in Tunnels : After(<<r, s, u>>, {"enable"}, "setup", t, FALSE)
  BY <1>1, AfterNone
<1>4. <<r, s, u>> \in Seq(AnyCall)
  OBVIOUS
<1> QED BY <1>1, <1>2, <1>3, <1>4 DEF Good

\* establish of a tunnel of the player.
LEMMA GoodEstablish ==
    ASSUME NEW t \in ChainTunnels, NEW d, t = "imageFx" => d
    PROVE  /\ Good(Establish(t), d) /\ AllPlain(Establish(t))
           /\ \A s \in Items(Establish(t)) : s[1] \in OfTunnel /\ s[2] = t
<1> DEFINE a == Do("srcIdle", t)
           b == Do("setup", t)
           c == Do("enable", t)
<1>1. Establish(t) = <<a, b, c>> /\ Items(<<a, b, c>>) = {a, b, c}
  BY ItemsOfThree DEF Establish
<1>2. t \in Tunnels
  BY DEF ChainTunnels, Tunnels
<1>3. a \in AnyCall /\ b \in AnyCall /\ c \in AnyCall
  BY <1>2 DEF AnyCall, Do
<1>4. /\ a[1] = "srcIdle" /\ b[1] = "setup" /\ c[1] = "enable" /\ a[2] = t /\ b[2] = t /\ c[2] = t
  BY DEF Do
<1> HIDE DEF a, b, c
<1>5. Fits(a, d) /\ Fits(b, d) /\ Fits(c, d)
  BY <1>4 DEF Fits, Plain, Early, OfTunnel
<1>6. InOrder(<<a, b, c>>)
  <2>1. 1..Len(<<a, b, c>>) = {1, 2, 3}
    OBVIOUS
  <2>2. MayPrecede(a, b) /\ MayPrecede(a, c) /\ MayPrecede(b, c)
    BY <1>4, PlainFollows DEF Plain
  <2> QED BY <2>1, <2>2 DEF InOrder
<1>7. ASSUME NEW u \in Tunnels PROVE After(<<a, b, c>>, {"enable"}, "setup", u, FALSE)
  <2>1. 1..Len(<<a, b, c>>) = {1, 2, 3} /\ <<a, b, c>>[1] = a /\ <<a, b, c>>[2] = b /\ <<a, b, c>>[3] = c
    OBVIOUS
  <2>2. 2 \in 1..(3 - 1)
    OBVIOUS
  <2> QED BY <1>4, <2>1, <2>2 DEF After
<1>8. <<a, b, c>> \in Seq(AnyCall)
  BY <1>3
<1> QED BY <1>1, <1>4, <1>5, <1>6, <1>7, <1>8 DEF Good, AllPlain, Plain, OfTunnel

LEMMA GoodFour ==
    ASSUME NEW r \in AnyCall, NEW s \in AnyCall, NEW u \in AnyCall, NEW v \in AnyCall, NEW d,
           Fits(r, d), Fits(s, d), Fits(u, d), Fits(v, d),
           MayPrecede(r, s), MayPrecede(r, u), MayPrecede(r, v),
           MayPrecede(s, u), MayPrecede(s, v), MayPrecede(u, v),
           r[1] # "enable", s[1] # "enable", u[1] # "enable", v[1] # "enable"
    PROVE  Good(<<r, s, u, v>>, d) /\ Items(<<r, s, u, v>>) = {r, s, u, v}
<1>1. 1..Len(<<r, s, u, v>>) = {1, 2, 3, 4}
  OBVIOUS
<1>2. Items(<<r, s, u, v>>) = {r, s, u, v}
  BY <1>1 DEF Items
<1>3. InOrder(<<r, s, u, v>>)
  BY <1>1 DEF InOrder
<1>4. \A t \in Tunnels : After(<<r, s, u, v>>, {"enable"}, "setup", t, FALSE)
  BY <1>2, AfterNone
<1>5. <<r, s, u, v>> \in Seq(AnyCall)
  OBVIOUS
<1> QED BY <1>2, <1>3, <1>4, <1>5 DEF Good

\* A beginning of a wiring in which the tunnels of X at most are set up.
Begun(plan, d, X) ==
    /\ Good(plan, d) /\ EndsFirst(plan)
    /\ \A s \in Items(plan) : s[1] = "setup" => s[2] \in X

LEMMA GoodWhen ==
    ASSUME NEW b \in BOOLEAN, NEW plan, NEW d, NEW X, b => Begun(plan, d, X)
    PROVE  /\ Begun(When(b, plan), d, X)
           /\ Items(When(b, plan)) = IF b THEN Items(plan) ELSE {}
<1>1. Begun(<<>>, d, X)
  BY GoodEmpty, ItemsOfEmpty DEF Begun
<1>2. CASE b
  <2>1. When(b, plan) = plan
    BY <1>2 DEF When
  <2> QED BY <1>2, <2>1
<1>3. CASE ~b
  <2>1. When(b, plan) = <<>>
    BY <1>3 DEF When
  <2> QED BY <1>1, <1>3, <2>1, ItemsOfEmpty
<1> QED BY <1>2, <1>3

LEMMA BegunConcat ==
    ASSUME NEW a, NEW b, NEW d, NEW X, NEW Y, Begun(a, d, X), Begun(b, d, Y),
           \A x \in Items(a), y \in Items(b) : MayPrecede(x, y)
    PROVE  Begun(a \o b, d, X \cup Y) /\ Items(a \o b) = Items(a) \cup Items(b)
<1>1. Good(a \o b, d)
  BY GoodConcat DEF Begun
<1>2. Items(a \o b) = Items(a) \cup Items(b)
  BY ItemsOfConcat DEF Begun, Good
<1>3. EndsFirst(a \o b)
  BY EndsConcat DEF Begun
<1> QED BY <1>1, <1>2, <1>3 DEF Begun

\* What follows the making of the components.
Late(plan) == \A s \in Items(plan) : s[1] \in Plain \cup {"tunnel"}

LEMMA LateFollows ==
    ASSUME NEW a, NEW b, NEW d, NEW X, Begun(a, d, X), Late(b),
           \A y \in Items(b) : y[1] = "tunnel" => y[2] \notin X
    PROVE  \A x \in Items(a), y \in Items(b) : MayPrecede(x, y)
BY DEF Begun, Late, MayPrecede, Plain, Early

LEMMA BegunThenLate ==
    ASSUME NEW a, NEW b, NEW d, NEW X, NEW Y, Begun(a, d, X), Begun(b, d, Y), Late(b),
           \A y \in Items(b) : y[1] = "tunnel" => y[2] \notin X
    PROVE  Begun(a \o b, d, X \cup Y) /\ Items(a \o b) = Items(a) \cup Items(b)
BY LateFollows, BegunConcat

LEMMA BegunThenEstablish ==
    ASSUME NEW a, NEW d, NEW X, Begun(a, d, X), NEW t \in ChainTunnels, t = "imageFx" => d,
           NEW x \in Items(a), x[1] = "tunnel", x[2] = t
    PROVE  Begun(a \o Establish(t), d, X \cup {t}) /\ Items(a) \subseteq Items(a \o Establish(t))
<1> DEFINE b == Establish(t)
<1>1. Good(b, d) /\ AllPlain(b) /\ \A s \in Items(b) : s[1] \in OfTunnel /\ s[2] = t
  BY GoodEstablish
<1> HIDE DEF b
<1>2. Good(a \o b, d)
  BY <1>1, GoodThenPlain DEF Begun
<1>3. Items(a \o b) = Items(a) \cup Items(b)
  BY <1>1, ItemsOfConcat DEF Begun, Good
<1>4. EndsFirst(a \o b)
  BY <1>1, EndsConcat DEF Begun
<1>5. Begun(a \o b, d, X \cup {t})
  BY <1>1, <1>2, <1>3, <1>4 DEF Begun
<1> QED BY <1>3, <1>5 DEF b

\* Calls that are no calls of tunnels.
LEMMA BegunNoTunnels ==
    ASSUME NEW plan, NEW d, Good(plan, d), \A s \in Items(plan) : s[1] \notin OfTunnel
    PROVE  Begun(plan, d, {})
<1>1. EndsFirst(plan)
  BY AfterNone DEF EndsFirst
<1> QED BY <1>1 DEF Begun, OfTunnel

LEMMA IsCall ==
    ASSUME NEW c \in Components, NEW call \in {"init", "config", "idle", "alloc", "execute", "free"}
    PROVE  Do(call, c) \in AnyCall
BY DEF AnyCall, Do

LEMMA MemberIsComponent ==
    ASSUME NEW d, device \in {"none", "anal", "hdmi", "both"}
    PROVE  Members(d) \subseteq Components /\ Members(d) \subseteq Chain
BY DEF Members, Components, Chain, Renders, Both, IsVideo

LEMMA InitFits ==
    ASSUME NEW d, NEW c \in Members(d) \ {"decoder"}, device \in {"none", "anal", "hdmi", "both"}
    PROVE  Do("init", c) \in AnyCall /\ Fits(Do("init", c), d)
<1>1. Do("init", c) \in AnyCall
  <2>1. c \in Components
    BY MemberIsComponent
  <2> QED BY <2>1, IsCall
<1>2. Fits(Do("init", c), d)
  BY DEF Fits, Do, Early, OfTunnel
<1> QED BY <1>1, <1>2

LEMMA PlainFits ==
    ASSUME NEW d, NEW c \in Components, NEW call \in {"config", "execute"}
    PROVE  Do(call, c) \in AnyCall /\ Fits(Do(call, c), d)
BY DEF AnyCall, Do, Fits, Plain, OfTunnel

LEMMA WireFits ==
    ASSUME NEW d, NEW t \in Tunnels, NEW quad, Shape(t, quad),
           quad[1] \in Members(d) \cup {Clock}, quad[3] \in Members(d)
    PROVE  <<"tunnel", t, quad>> \in AnyCall /\ Fits(<<"tunnel", t, quad>>, d)
<1>1. <<"tunnel", t, quad>> \in AnyCall
  BY DEF AnyCall, Shape
<1>2. Fits(<<"tunnel", t, quad>>, d)
  BY DEF Fits, OfTunnel
<1> QED BY <1>1, <1>2

LEMMA MemberIs ==
    ASSUME NEW d \in BOOLEAN
    PROVE  /\ IsVideo => Members(d) = {"decoder", "scheduler", "render"} \cup (IF d THEN {"imageFx"} ELSE {})
           /\ ~IsVideo => Members(d) = {"decoder", "mixer"} \cup Renders \cup (IF Both THEN {"splitter"} ELSE {})
BY DEF Members

LEMMA MakeShape ==
    ASSUME NEW t, NEW a \in Components \cup {Clock}, NEW b \in Ports, NEW c \in Components, NEW e \in Ports,
           a = Clock <=> t \in ClockTunnels, t \in ClockTunnels => b = FromClock(t),
           a = "decoder" <=> t = "decoder", t = "decoder" => b = "out", c # "decoder",
           t = "imageFx" => a = "imageFx" /\ c = "scheduler"
    PROVE  Shape(t, <<a, b, c, e>>)
<1> DEFINE quad == <<a, b, c, e>>
<1>1. quad[1] = a /\ quad[2] = b /\ quad[3] = c
  OBVIOUS
<1>2. quad \in Quads
  BY DEF Quads
<1> HIDE DEF quad
<1>3. Shape(t, quad)
  BY <1>1, <1>2 DEF Shape
<1> QED BY <1>3 DEF quad

LEMMA VideoShapes ==
    ASSUME IsVideo
    PROVE  /\ Shape("decoder", <<"decoder", "out", "imageFx", "in">>)
           /\ Shape("imageFx", <<"imageFx", "out", "scheduler", "in">>)
           /\ Shape("decoder", <<"decoder", "out", "scheduler", "in">>)
           /\ Shape("sched", <<"scheduler", "out", "render", "in">>)
           /\ Shape("clock", <<Clock, "clock in+1", "scheduler", "clock">>)
<1>1. {"decoder", "imageFx", "scheduler", "render"} \subseteq Components /\ {"in", "out", "clock", "clock in+1"} \subseteq Ports
  BY DEF Components, Ports
<1>2. /\ Clock # "decoder" /\ Clock # "imageFx" /\ Clock # "scheduler" /\ "clock" \in ClockTunnels
      /\ "decoder" \notin ClockTunnels /\ "imageFx" \notin ClockTunnels /\ "sched" \notin ClockTunnels
      /\ FromClock("clock") = "clock in+1"
  BY DEF Clock, ClockTunnels, FromClock
<1>3. Shape("decoder", <<"decoder", "out", "imageFx", "in">>)
  BY <1>1, <1>2, MakeShape
<1>4. Shape("imageFx", <<"imageFx", "out", "scheduler", "in">>)
  BY <1>1, <1>2, MakeShape
<1>5. Shape("decoder", <<"decoder", "out", "scheduler", "in">>)
  BY <1>1, <1>2, MakeShape
<1>6. Shape("sched", <<"scheduler", "out", "render", "in">>)
  BY <1>1, <1>2, MakeShape
<1>7. Shape("clock", <<Clock, "clock in+1", "scheduler", "clock">>)
  BY <1>1, <1>2, MakeShape
<1> QED BY <1>3, <1>4, <1>5, <1>6, <1>7

LEMMA DoIs ==
    ASSUME NEW call, NEW x
    PROVE  Do(call, x)[1] = call /\ Do(call, x)[2] = x
BY DEF Do

\* What a wiring needs of a plan.
Complete(plan, d) ==
    /\ Good(plan, d) /\ EndsFirst(plan) /\ plan # <<>>
    /\ \A c \in Members(d) \ {"decoder"} : Do("init", c) \in Items(plan)
    /\ IsVideo => \E s \in Items(plan) : s[1] = "interlace"
    /\ ~IsVideo => Head(plan) = Do("init", "mixer")

LEMMA VideoPlanIsComplete ==
    ASSUME IsVideo, NEW d \in BOOLEAN
    PROVE  Complete(VideoPlan(d), d)
<1> DEFINE P1 == <<Do("init", "render"), Do("init", "scheduler"), <<"interlace", "decoder", d>>>>
           P2 == IF d
                 THEN <<Do("init", "imageFx"), Do("config", "imageFx"),
                        <<"tunnel", "decoder", <<"decoder", "out", "imageFx", "in">>>>,
                        <<"tunnel", "imageFx", <<"imageFx", "out", "scheduler", "in">>>>>>
                 ELSE <<<<"tunnel", "decoder", <<"decoder", "out", "scheduler", "in">>>>>>
           P3 == <<Do("config", "render"), <<"tunnel", "sched", <<"scheduler", "out", "render", "in">>>>,
                   <<"tunnel", "clock", <<Clock, "clock in+1", "scheduler", "clock">>>>>>
           P6 == When(d, Establish("imageFx") \o <<Do("execute", "imageFx")>>)
           P8 == <<Do("execute", "scheduler"), Do("execute", "render")>>
           A == P1 \o P2
           B == A \o P3
           C == B \o Establish("clock")
           D == C \o Establish("decoder")
           E == D \o P6
           F == E \o Establish("sched")
           G == F \o P8
<1>0. VideoPlan(d) = G /\ device \in {"none", "anal", "hdmi", "both"}
  BY DEF VideoPlan, IsVideo
<1>1. Begun(P1, d, {}) /\ Items(P1) = {Do("init", "render"), Do("init", "scheduler"), <<"interlace", "decoder", d>>}
  <2>1. Do("init", "render") \in AnyCall /\ Fits(Do("init", "render"), d)
    BY <1>0, InitFits, MemberIs
  <2>2. Do("init", "scheduler") \in AnyCall /\ Fits(Do("init", "scheduler"), d)
    BY <1>0, InitFits, MemberIs
  <2>3. <<"interlace", "decoder", d>> \in AnyCall /\ Fits(<<"interlace", "decoder", d>>, d)
    BY DEF AnyCall, Fits, Early, OfTunnel
  <2>4. MayPrecede(Do("init", "render"), Do("init", "scheduler"))
        /\ MayPrecede(Do("init", "render"), <<"interlace", "decoder", d>>)
        /\ MayPrecede(Do("init", "scheduler"), <<"interlace", "decoder", d>>)
    BY DEF MayPrecede, Do, Early
  <2>5. Good(P1, d) /\ Items(P1) = {Do("init", "render"), Do("init", "scheduler"), <<"interlace", "decoder", d>>}
    BY <2>1, <2>2, <2>3, <2>4, GoodThree DEF Do
  <2>6. \A s \in Items(P1) : s[1] \notin OfTunnel
    <3>1. <<"interlace", "decoder", d>>[1] = "interlace"
      OBVIOUS
    <3>2. "init" \notin OfTunnel /\ "interlace" \notin OfTunnel
      BY DEF OfTunnel
    <3> QED BY <2>5, <3>1, <3>2, DoIs
  <2> QED BY <2>5, <2>6, BegunNoTunnels
<1>2. /\ Begun(P2, d, {})
      /\ \A s \in Items(P2) : s[1] \in {"init", "config", "tunnel"} /\ (s[1] = "init" => s[2] = "imageFx")
      /\ d => Do("init", "imageFx") \in Items(P2) /\ \E s \in Items(P2) : s[1] = "tunnel" /\ s[2] = "imageFx"
      /\ \E s \in Items(P2) : s[1] = "tunnel" /\ s[2] = "decoder"
  <2>1. CASE d
    <3> DEFINE r == Do("init", "imageFx")
               s == Do("config", "imageFx")
               u == <<"tunnel", "decoder", <<"decoder", "out", "imageFx", "in">>>>
               v == <<"tunnel", "imageFx", <<"imageFx", "out", "scheduler", "in">>>>
    <3>1. r \in AnyCall /\ Fits(r, d)
      BY <1>0, <2>1, InitFits, MemberIs
    <3>2. s \in AnyCall /\ Fits(s, d)
      BY PlainFits DEF Components
    <3>3. u \in AnyCall /\ Fits(u, d)
      BY <2>1, WireFits, VideoShapes, MemberIs DEF Tunnels
    <3>4. v \in AnyCall /\ Fits(v, d)
      BY <2>1, WireFits, VideoShapes, MemberIs DEF Tunnels
    <3>5. r[1] = "init" /\ r[2] = "imageFx" /\ s[1] = "config" /\ u[1] = "tunnel" /\ u[2] = "decoder"
          /\ v[1] = "tunnel" /\ v[2] = "imageFx"
      BY DEF Do
    <3>6. P2 = <<r, s, u, v>>
      BY <2>1
    <3> HIDE DEF r, s, u, v, P2
    <3>7. MayPrecede(r, s) /\ MayPrecede(r, u) /\ MayPrecede(r, v) /\ MayPrecede(s, u)
          /\ MayPrecede(s, v) /\ MayPrecede(u, v)
      BY <3>5 DEF MayPrecede, Early
    <3>8. Good(P2, d) /\ Items(P2) = {r, s, u, v}
      BY <3>1, <3>2, <3>3, <3>4, <3>5, <3>6, <3>7, GoodFour
    <3>9. \A x \in Items(P2) : x[1] \notin OfTunnel
      BY <3>5, <3>8 DEF OfTunnel
    <3>10. Begun(P2, d, {})
      BY <3>8, <3>9, BegunNoTunnels
    <3>11. Do("init", "imageFx") \in Items(P2)
      BY <3>8 DEF r
    <3> QED BY <3>5, <3>8, <3>10, <3>11
  <2>2. CASE ~d
    <3> DEFINE u == <<"tunnel", "decoder", <<"decoder", "out", "scheduler", "in">>>>
    <3>1. u \in AnyCall /\ Fits(u, d)
      BY WireFits, VideoShapes, MemberIs DEF Tunnels
    <3>2. u[1] = "tunnel" /\ u[2] = "decoder" /\ P2 = <<u>>
      BY <2>2
    <3> HIDE DEF u, P2
    <3>3. Good(P2, d) /\ Items(P2) = {u}
      BY <3>1, <3>2, GoodOne
    <3>4. \A x \in Items(P2) : x[1] \notin OfTunnel
      BY <3>2, <3>3 DEF OfTunnel
    <3> QED BY <2>2, <3>2, <3>3, <3>4, BegunNoTunnels
  <2> QED BY <2>1, <2>2
<1>3. /\ Begun(P3, d, {}) /\ Late(P3)
      /\ \E s \in Items(P3) : s[1] = "tunnel" /\ s[2] = "sched"
      /\ \E s \in Items(P3) : s[1] = "tunnel" /\ s[2] = "clock"
  <2> DEFINE r == Do("config", "render")
             u == <<"tunnel", "sched", <<"scheduler", "out", "render", "in">>>>
             v == <<"tunnel", "clock", <<Clock, "clock in+1", "scheduler", "clock">>>>
  <2>1. r \in AnyCall /\ Fits(r, d)
    BY PlainFits DEF Components
  <2>2. u \in AnyCall /\ Fits(u, d)
    BY WireFits, VideoShapes, MemberIs DEF Tunnels
  <2>3. v \in AnyCall /\ Fits(v, d)
    BY WireFits, VideoShapes, MemberIs DEF Tunnels
  <2>4. r[1] = "config" /\ u[1] = "tunnel" /\ u[2] = "sched" /\ v[1] = "tunnel" /\ v[2] = "clock" /\ P3 = <<r, u, v>>
    BY DEF Do
  <2> HIDE DEF r, u, v, P3
  <2>5. MayPrecede(r, u) /\ MayPrecede(r, v) /\ MayPrecede(u, v)
    BY <2>4 DEF MayPrecede, Early
  <2>6. Good(P3, d) /\ Items(P3) = {r, u, v}
    BY <2>1, <2>2, <2>3, <2>4, <2>5, GoodThree
  <2>7. \A x \in Items(P3) : x[1] \notin OfTunnel
    BY <2>4, <2>6 DEF OfTunnel
  <2> QED BY <2>4, <2>6, <2>7, BegunNoTunnels DEF Late, Plain
<1>4. Begun(P8, d, {}) /\ Late(P8) /\ \A y \in Items(P8) : y[1] # "tunnel"
  <2> DEFINE r == Do("execute", "scheduler")
             u == Do("execute", "render")
  <2>1. r \in AnyCall /\ Fits(r, d) /\ u \in AnyCall /\ Fits(u, d)
    BY PlainFits DEF Components
  <2>2. r[1] = "execute" /\ u[1] = "execute" /\ P8 = <<r, u>>
    BY DEF Do
  <2> HIDE DEF r, u, P8
  <2>3. Good(P8, d) /\ Items(P8) = {r, u}
    BY <2>1, <2>2, PlainFollows, GoodTwo DEF Plain
  <2>4. \A x \in Items(P8) : x[1] \notin OfTunnel
    BY <2>2, <2>3 DEF OfTunnel
  <2> QED BY <2>2, <2>3, <2>4, BegunNoTunnels DEF Late, Plain
<1>10. ChainTunnels = {"clock", "decoder", "imageFx", "sched"}
  BY DEF ChainTunnels
<1> HIDE DEF P1, P2, P3, P6, P8
<1>11. Begun(A, d, {}) /\ Items(A) = Items(P1) \cup Items(P2)
  <2>1. \A x \in Items(P1), y \in Items(P2) : MayPrecede(x, y)
    <3>1. \A x \in Items(P1) : x[1] \in Early /\ (x[1] = "init" => x[2] # "imageFx")
      <4>1. <<"interlace", "decoder", d>>[1] = "interlace"
        OBVIOUS
      <4> QED BY <1>1, <4>1, DoIs DEF Early
    <3> QED BY <1>2, <3>1 DEF MayPrecede, Early
  <2>2. {} \cup {} = {}
    OBVIOUS
  <2> QED BY <1>1, <1>2, <2>1, <2>2, BegunConcat
<1> HIDE DEF A
<1>12. Begun(B, d, {}) /\ Items(B) = Items(A) \cup Items(P3)
  <2>1. {} \cup {} = {}
    OBVIOUS
  <2> QED BY <1>3, <1>11, <2>1, BegunThenLate
<1> HIDE DEF B
<1>13. Begun(C, d, {"clock"}) /\ Items(B) \subseteq Items(C)
  <2>1. PICK x \in Items(B) : x[1] = "tunnel" /\ x[2] = "clock"
    BY <1>3, <1>12
  <2>2. Begun(C, d, {} \cup {"clock"}) /\ Items(B) \subseteq Items(C)
    BY <1>10, <1>12, <2>1, BegunThenEstablish
  <2>3. {} \cup {"clock"} = {"clock"}
    OBVIOUS
  <2> QED BY <2>2, <2>3
<1> HIDE DEF C
<1>14. Begun(D, d, {"clock", "decoder"}) /\ Items(C) \subseteq Items(D)
  <2>1. PICK x \in Items(C) : x[1] = "tunnel" /\ x[2] = "decoder"
    BY <1>2, <1>11, <1>12, <1>13
  <2>2. Begun(D, d, {"clock"} \cup {"decoder"}) /\ Items(C) \subseteq Items(D)
    BY <1>10, <1>13, <2>1, BegunThenEstablish
  <2>3. {"clock"} \cup {"decoder"} = {"clock", "decoder"}
    OBVIOUS
  <2> QED BY <2>2, <2>3
<1> HIDE DEF D
<1>15. Begun(E, d, ChainTunnels) /\ Items(D) \subseteq Items(E)
  <2>1. CASE d
    <3> DEFINE H == <<Do("execute", "imageFx")>>
               K == Establish("imageFx") \o H
    <3>1. Good(H, d) /\ AllPlain(H) /\ Items(H) = {Do("execute", "imageFx")}
      <4>1. Do("execute", "imageFx") \in AnyCall /\ Fits(Do("execute", "imageFx"), d)
        BY PlainFits DEF Components
      <4>2. Do("execute", "imageFx")[1] = "execute"
        BY DEF Do
      <4>3. Good(H, d) /\ Items(H) = {Do("execute", "imageFx")}
        BY <4>1, <4>2, GoodOne
      <4> QED BY <4>2, <4>3 DEF AllPlain, Plain
    <3>2. Good(Establish("imageFx"), d) /\ AllPlain(Establish("imageFx"))
          /\ \A s \in Items(Establish("imageFx")) : s[1] \in OfTunnel /\ s[2] = "imageFx"
      BY <1>10, <2>1, GoodEstablish
    <3>3. Good(K, d) /\ AllPlain(K)
      <4> HIDE DEF H
      <4> QED BY <3>1, <3>2, GoodThenPlain, PlainConcat
    <3>4. Items(K) = Items(Establish("imageFx")) \cup Items(H)
      BY <3>1, <3>2, ItemsOfConcat DEF Good
    <3>5. \A s \in Items(K) : s[1] \in OfTunnel => s[2] = "imageFx"
      BY <3>1, <3>2, <3>4, DoIs DEF OfTunnel
    <3>6. P6 = K
      BY <2>1 DEF When, P6
    <3>7. \E x \in Items(D) : x[1] = "tunnel" /\ x[2] = "imageFx"
      BY <1>2, <1>11, <1>12, <1>13, <1>14, <2>1
    <3> HIDE DEF K
    <3>8. Good(E, d)
      BY <1>14, <3>3, <3>6, GoodThenPlain DEF Begun
    <3>9. EndsFirst(E)
      BY <1>14, <3>3, <3>5, <3>6, <3>7, EndsConcat DEF Begun
    <3>10. Items(E) = Items(D) \cup Items(K)
      BY <1>14, <3>3, <3>6, ItemsOfConcat DEF Begun, Good
    <3>11. \A s \in Items(E) : s[1] = "setup" => s[2] \in ChainTunnels
      BY <1>10, <1>14, <3>5, <3>10 DEF Begun, OfTunnel
    <3> QED BY <3>8, <3>9, <3>10, <3>11 DEF Begun
  <2>2. CASE ~d
    <3>1. P6 = <<>>
      BY <2>2 DEF When, P6
    <3>2. D \in Seq(AnyCall)
      BY <1>14 DEF Begun, Good
    <3>3. E = D
      BY <3>1, <3>2
    <3> QED BY <1>10, <1>14, <3>3 DEF Begun
  <2> QED BY <2>1, <2>2
<1> HIDE DEF E
<1>16. Begun(F, d, ChainTunnels) /\ Items(E) \subseteq Items(F)
  <2>1. PICK x \in Items(E) : x[1] = "tunnel" /\ x[2] = "sched"
    BY <1>3, <1>12, <1>13, <1>14, <1>15
  <2>2. Begun(F, d, ChainTunnels \cup {"sched"}) /\ Items(E) \subseteq Items(F)
    BY <1>10, <1>15, <2>1, BegunThenEstablish
  <2>3. ChainTunnels \cup {"sched"} = ChainTunnels
    BY <1>10
  <2> QED BY <2>2, <2>3
<1> HIDE DEF F
<1>17. Begun(G, d, ChainTunnels \cup {}) /\ Items(G) = Items(F) \cup Items(P8)
  BY <1>4, <1>16, BegunThenLate
<1>18. Items(P1) \subseteq Items(G) /\ Items(P2) \subseteq Items(G)
  BY <1>11, <1>12, <1>13, <1>14, <1>15, <1>16, <1>17
<1>19. G # <<>>
  BY <1>1, <1>18, ItemsOfEmpty
<1>20. \A c \in Members(d) \ {"decoder"} : Do("init", c) \in Items(G)
  BY <1>1, <1>2, <1>18, MemberIs
<1>21. \E s \in Items(G) : s[1] = "interlace"
  BY <1>1, <1>18
<1> HIDE DEF G
<1>22. Complete(G, d)
  BY <1>17, <1>19, <1>20, <1>21 DEF Complete, Begun
<1> QED BY <1>0, <1>22

LEMMA OneInit ==
    ASSUME NEW d, NEW c \in Members(d) \ {"decoder"}, device \in {"none", "anal", "hdmi", "both"}
    PROVE  Begun(<<Do("init", c)>>, d, {}) /\ Items(<<Do("init", c)>>) = {Do("init", c)}
<1>1. Do("init", c) \in AnyCall /\ Fits(Do("init", c), d) /\ Do("init", c)[1] = "init"
  BY InitFits, DoIs
<1>2. Good(<<Do("init", c)>>, d) /\ Items(<<Do("init", c)>>) = {Do("init", c)}
  BY <1>1, GoodOne
<1>3. "init" \notin OfTunnel
  BY DEF OfTunnel
<1> QED BY <1>1, <1>2, <1>3, BegunNoTunnels

LEMMA OnePlain ==
    ASSUME NEW d, NEW c \in Components, NEW call \in {"config", "execute"}
    PROVE  /\ Begun(<<Do(call, c)>>, d, {}) /\ Late(<<Do(call, c)>>)
           /\ \A y \in Items(<<Do(call, c)>>) : y[1] = call
<1>1. Do(call, c) \in AnyCall /\ Fits(Do(call, c), d) /\ Do(call, c)[1] = call
  BY PlainFits, DoIs
<1>2. Good(<<Do(call, c)>>, d) /\ Items(<<Do(call, c)>>) = {Do(call, c)}
  BY <1>1, GoodOne
<1>3. call \notin OfTunnel /\ call \in Plain
  BY DEF OfTunnel, Plain
<1> QED BY <1>1, <1>2, <1>3, BegunNoTunnels DEF Late

\* A part that sets up tunnels of X and gives them their ends.
Part(plan, d, X) ==
    Begun(plan, d, X) /\ Late(plan) /\ \A y \in Items(plan) : y[1] = "tunnel" => y[2] \in X

\* The ends of a tunnel and its establish.
LEMMA OneLink ==
    ASSUME NEW d, NEW t \in ChainTunnels \ {"imageFx"}, NEW quad, Shape(t, quad),
           quad[1] \in Members(d) \cup {Clock}, quad[3] \in Members(d)
    PROVE  Part(<<<<"tunnel", t, quad>>>> \o Establish(t), d, {t})
<1> DEFINE s == <<"tunnel", t, quad>>
           a == <<s>>
           b == Establish(t)
<1>1. t \in Tunnels
  BY DEF ChainTunnels, Tunnels
<1>2. s \in AnyCall /\ Fits(s, d)
  BY <1>1, WireFits
<1>3. s[1] = "tunnel" /\ s[2] = t
  OBVIOUS
<1> HIDE DEF s
<1>4. Good(a, d) /\ Items(a) = {s}
  BY <1>2, <1>3, GoodOne
<1>5. "tunnel" \notin OfTunnel
  BY DEF OfTunnel
<1>6. Begun(a, d, {})
  BY <1>3, <1>4, <1>5, BegunNoTunnels
<1> HIDE DEF a
<1>7. Begun(a \o b, d, {} \cup {t})
  BY <1>3, <1>4, <1>6, BegunThenEstablish
<1>8. {} \cup {t} = {t}
  OBVIOUS
<1>9. Good(b, d) /\ AllPlain(b) /\ \A y \in Items(b) : y[1] \in OfTunnel /\ y[2] = t
  BY GoodEstablish
<1>10. Items(a \o b) = Items(a) \cup Items(b)
  <2> HIDE DEF b
  <2> QED BY <1>4, <1>9, ItemsOfConcat DEF Good
<1> HIDE DEF b
<1>11. Late(a \o b)
  BY <1>3, <1>4, <1>9, <1>10 DEF Late, AllPlain
<1>12. \A y \in Items(a \o b) : y[1] = "tunnel" => y[2] = t
  BY <1>3, <1>4, <1>9, <1>10
<1>13. Begun(a \o b, d, {t})
  BY <1>7, <1>8
<1>14. Part(a \o b, d, {t})
  BY <1>11, <1>12, <1>13 DEF Part
<1> QED BY <1>14 DEF a, b, s

\* The same part for the analog and for the HDMI renderer, each if it is used.
LEMMA BothParts ==
    ASSUME NEW d, NEW b1 \in BOOLEAN, NEW b2 \in BOOLEAN, NEW p1, NEW p2, NEW X1, NEW X2,
           NEW Z, b1 => Part(p1, d, X1), b2 => Part(p2, d, X2), X1 \cap X2 = {}, Z = X1 \cup X2
    PROVE  Part(When(b1, p1) \o When(b2, p2), d, Z)
<1> DEFINE a == When(b1, p1)
           b == When(b2, p2)
<1>1. Begun(a, d, X1) /\ Items(a) = IF b1 THEN Items(p1) ELSE {}
  BY GoodWhen DEF Part
<1>2. Begun(b, d, X2) /\ Items(b) = IF b2 THEN Items(p2) ELSE {}
  BY GoodWhen DEF Part
<1> HIDE DEF a, b
<1>3. Late(a) /\ \A y \in Items(a) : y[1] = "tunnel" => y[2] \in X1
  BY <1>1 DEF Late, Part
<1>4. Late(b) /\ \A y \in Items(b) : y[1] = "tunnel" => y[2] \in X2
  BY <1>2 DEF Late, Part
<1>5. \A y \in Items(b) : y[1] = "tunnel" => y[2] \notin X1
  BY <1>4
<1>6. Begun(a \o b, d, X1 \cup X2) /\ Items(a \o b) = Items(a) \cup Items(b)
  BY <1>1, <1>2, <1>4, <1>5, BegunThenLate
<1> HIDE DEF Late
<1>7. Late(a \o b) /\ \A y \in Items(a \o b) : y[1] = "tunnel" => y[2] \in X1 \cup X2
  BY <1>3, <1>4, <1>6 DEF Late
<1>8. Part(a \o b, d, Z)
  BY <1>6, <1>7 DEF Part
<1> QED BY <1>8 DEF a, b

LEMMA HeadOfConcat ==
    ASSUME NEW a \in Seq(AnyCall), NEW b \in Seq(AnyCall), a # <<>>
    PROVE  a \o b # <<>> /\ Head(a \o b) = Head(a)
<1>1. Len(a) \in Nat \ {0} /\ Len(b) \in Nat
  BY EmptySeq, LenProperties
<1>2. a \o b \in Seq(AnyCall) /\ Len(a \o b) = Len(a) + Len(b) /\ (a \o b)[1] = a[1]
  BY <1>1, ConcatProperties
<1>3. Len(a \o b) # 0
  BY <1>1, <1>2
<1>4. a \o b # <<>>
  BY <1>2, <1>3, EmptySeq
<1> QED BY <1>2, <1>4

LEMMA AudioShapes ==
    ASSUME ~IsVideo, device \in {"none", "anal", "hdmi", "both"}, NEW d \in BOOLEAN
    PROVE  /\ "anal" \in Renders => Shape("clock anal", <<Clock, ClockPort("anal"), "anal", "clock">>)
           /\ "hdmi" \in Renders => Shape("clock hdmi", <<Clock, ClockPort("hdmi"), "hdmi", "clock">>)
           /\ Shape("splitter anal", <<"splitter", "out", "anal", "in">>)
           /\ Shape("splitter hdmi", <<"splitter", "out1", "hdmi", "in">>)
           /\ Shape("decoder", <<"decoder", "out", "mixer", "in">>)
           /\ Shape("mixer", <<"mixer", "out", IF Both THEN "splitter" ELSE device, "in">>)
           /\ {"clock anal", "clock hdmi", "splitter anal", "splitter hdmi", "decoder", "mixer"} \subseteq ChainTunnels \ {"imageFx"}
           /\ {"decoder", "mixer"} \cup Renders \subseteq Members(d) /\ (Both => "splitter" \in Members(d))
           /\ (IF Both THEN "splitter" ELSE device) \in Members(d) /\ Renders \subseteq {"anal", "hdmi"}
           /\ Both => Renders = {"anal", "hdmi"}
<1>1. {"decoder", "mixer", "splitter", "anal", "hdmi"} \subseteq Components /\ {"in", "out", "out1", "clock"} \subseteq Ports
      /\ ClockPort("anal") \in Ports /\ ClockPort("hdmi") \in Ports
  BY DEF Components, Ports, ClockPort
<1>2. /\ Clock # "decoder" /\ Clock # "mixer" /\ Clock # "splitter"
      /\ "clock anal" \in ClockTunnels /\ "clock hdmi" \in ClockTunnels
      /\ "decoder" \notin ClockTunnels /\ "mixer" \notin ClockTunnels
      /\ "splitter anal" \notin ClockTunnels /\ "splitter hdmi" \notin ClockTunnels
      /\ FromClock("clock anal") = ClockPort("anal") /\ FromClock("clock hdmi") = ClockPort("hdmi")
  BY DEF Clock, ClockTunnels, FromClock
<1>3. Shape("clock anal", <<Clock, ClockPort("anal"), "anal", "clock">>)
  BY <1>1, <1>2, MakeShape
<1>4. Shape("clock hdmi", <<Clock, ClockPort("hdmi"), "hdmi", "clock">>)
  BY <1>1, <1>2, MakeShape
<1>5. Shape("splitter anal", <<"splitter", "out", "anal", "in">>)
  BY <1>1, <1>2, MakeShape
<1>6. Shape("splitter hdmi", <<"splitter", "out1", "hdmi", "in">>)
  BY <1>1, <1>2, MakeShape
<1>7. Shape("decoder", <<"decoder", "out", "mixer", "in">>)
  BY <1>1, <1>2, MakeShape
<1> DEFINE sink == IF Both THEN "splitter" ELSE device
<1>8. sink \in {"splitter", "anal", "hdmi"}
  BY DEF Both, IsVideo
<1>9. Shape("mixer", <<"mixer", "out", sink, "in">>)
  <2> HIDE DEF sink
  <2>1. sink \in Components /\ sink # "decoder"
    BY <1>1, <1>8
  <2> QED BY <1>1, <1>2, <2>1, MakeShape
<1>10. {"clock anal", "clock hdmi", "splitter anal", "splitter hdmi", "decoder", "mixer"} \subseteq ChainTunnels \ {"imageFx"}
  BY DEF ChainTunnels, Tunnels
<1>11. /\ {"decoder", "mixer"} \cup Renders \subseteq Members(d) /\ (Both => "splitter" \in Members(d))
       /\ sink \in Members(d) /\ Renders \subseteq {"anal", "hdmi"}
       /\ Both => Renders = {"anal", "hdmi"}
  BY DEF Members, Renders, IsVideo, Both
<1> QED BY <1>3, <1>4, <1>5, <1>6, <1>7, <1>9, <1>10, <1>11

\* A beginning whose first call is the making of the mixer, and one call or part more.
Started(plan, d, X) == Begun(plan, d, X) /\ plan # <<>> /\ Head(plan) = Do("init", "mixer")

LEMMA StartedMore ==
    ASSUME NEW a, NEW b, NEW d, NEW X, NEW Y, NEW Z, Started(a, d, X), Begun(b, d, Y), Late(b),
           \A y \in Items(b) : y[1] = "tunnel" => y[2] \notin X, Z = X \cup Y
    PROVE  Started(a \o b, d, Z) /\ Items(a) \subseteq Items(a \o b) /\ Items(b) \subseteq Items(a \o b)
<1>1. Begun(a \o b, d, Z) /\ Items(a \o b) = Items(a) \cup Items(b)
  BY BegunThenLate DEF Started
<1>2. a \o b # <<>> /\ Head(a \o b) = Do("init", "mixer")
  BY HeadOfConcat DEF Started, Begun, Good
<1> QED BY <1>1, <1>2 DEF Started

LEMMA StartedPart ==
    ASSUME NEW a, NEW b, NEW d, NEW X, NEW Y, NEW Z, Started(a, d, X), Part(b, d, Y), X \cap Y = {}, Z = X \cup Y
    PROVE  Started(a \o b, d, Z) /\ Items(a) \subseteq Items(a \o b)
BY StartedMore DEF Part

LEMMA StartedInit ==
    ASSUME NEW a, NEW d, Started(a, d, {}), NEW b \in BOOLEAN, NEW c \in Components,
           device \in {"none", "anal", "hdmi", "both"}, b => c \in Members(d) \ {"decoder"},
           \A x \in Items(a) : x[1] = "init" /\ x[2] # c
    PROVE  /\ Started(a \o When(b, <<Do("init", c)>>), d, {})
           /\ Items(a \o When(b, <<Do("init", c)>>)) = Items(a) \cup (IF b THEN {Do("init", c)} ELSE {})
<1> DEFINE p == <<Do("init", c)>>
           q == When(b, p)
<1>1. b => Begun(p, d, {}) /\ Items(p) = {Do("init", c)}
  BY OneInit
<1>2. Begun(q, d, {}) /\ Items(q) = IF b THEN Items(p) ELSE {}
  <2> HIDE DEF p
  <2> QED BY <1>1, GoodWhen
<1> HIDE DEF q
<1>3. \A y \in Items(q) : y[1] = "init" /\ y[2] = c
  BY <1>1, <1>2, DoIs
<1>4. \A x \in Items(a), y \in Items(q) : MayPrecede(x, y)
  BY <1>3 DEF MayPrecede, Early
<1>5. {} \cup {} = {}
  OBVIOUS
<1>6. Begun(a \o q, d, {}) /\ Items(a \o q) = Items(a) \cup Items(q)
  <2>1. Begun(a, d, {})
    BY DEF Started
  <2>2. Begun(a \o q, d, {} \cup {}) /\ Items(a \o q) = Items(a) \cup Items(q)
    BY <1>2, <1>4, <2>1, BegunConcat
  <2> QED BY <1>5, <2>2
<1>7. a \o q # <<>> /\ Head(a \o q) = Do("init", "mixer")
  BY <1>2, HeadOfConcat DEF Started, Begun, Good
<1>8. Started(a \o q, d, {})
  BY <1>6, <1>7 DEF Started
<1>9. Items(a \o q) = Items(a) \cup (IF b THEN {Do("init", c)} ELSE {})
  BY <1>1, <1>2, <1>6
<1> QED BY <1>8, <1>9 DEF q

LEMMA StartedEstablish ==
    ASSUME NEW a, NEW d, NEW X, NEW Z, Started(a, d, X), NEW t \in ChainTunnels \ {"imageFx"},
           NEW x \in Items(a), x[1] = "tunnel", x[2] = t, Z = X \cup {t}
    PROVE  Started(a \o Establish(t), d, Z) /\ Items(a) \subseteq Items(a \o Establish(t))
<1>1. Begun(a \o Establish(t), d, Z) /\ Items(a) \subseteq Items(a \o Establish(t))
  BY BegunThenEstablish DEF Started
<1>2. Good(Establish(t), d)
  BY GoodEstablish
<1>3. a \o Establish(t) # <<>> /\ Head(a \o Establish(t)) = Do("init", "mixer")
  BY <1>2, HeadOfConcat DEF Started, Begun, Good
<1> QED BY <1>1, <1>3 DEF Started

\* A part that sets up no tunnel and may be left out, once or once for each renderer.
LEMMA StartedPlain ==
    ASSUME NEW a, NEW d, NEW X, Started(a, d, X), NEW b \in BOOLEAN,
           NEW c \in Components, NEW call \in {"config", "execute"}
    PROVE  /\ Started(a \o When(b, <<Do(call, c)>>), d, X)
           /\ Items(a) \subseteq Items(a \o When(b, <<Do(call, c)>>))
<1> DEFINE p == <<Do(call, c)>>
           q == When(b, p)
<1>1. Begun(p, d, {}) /\ Late(p) /\ \A y \in Items(p) : y[1] = call
  BY OnePlain
<1>2. Begun(q, d, {}) /\ Items(q) = IF b THEN Items(p) ELSE {}
  <2> HIDE DEF p
  <2> QED BY <1>1, GoodWhen
<1> HIDE DEF p, q
<1>3. Late(q) /\ \A y \in Items(q) : y[1] # "tunnel"
  BY <1>1, <1>2 DEF Late
<1>4. X = X \cup {}
  OBVIOUS
<1>5. Started(a \o q, d, X) /\ Items(a) \subseteq Items(a \o q)
  BY <1>2, <1>3, <1>4, StartedMore
<1> QED BY <1>5 DEF p, q

LEMMA PlainPair ==
    ASSUME NEW d, NEW b1 \in BOOLEAN, NEW b2 \in BOOLEAN, NEW call \in {"config", "execute"}
    PROVE  Part(When(b1, <<Do(call, "anal")>>) \o When(b2, <<Do(call, "hdmi")>>), d, {})
<1> DEFINE p1 == <<Do(call, "anal")>>
           p2 == <<Do(call, "hdmi")>>
<1>1. "anal" \in Components /\ "hdmi" \in Components /\ call # "tunnel"
  BY DEF Components
<1>2. Part(p1, d, {})
  <2>1. Begun(p1, d, {}) /\ Late(p1) /\ \A y \in Items(p1) : y[1] = call
    BY <1>1, OnePlain
  <2> QED BY <1>1, <2>1 DEF Part
<1>3. Part(p2, d, {})
  <2>1. Begun(p2, d, {}) /\ Late(p2) /\ \A y \in Items(p2) : y[1] = call
    BY <1>1, OnePlain
  <2> QED BY <1>1, <2>1 DEF Part
<1> HIDE DEF p1, p2
<1>4. {} = {} \cup {} /\ {} \cap {} = {}
  OBVIOUS
<1>5. Part(When(b1, p1) \o When(b2, p2), d, {})
  BY <1>2, <1>3, <1>4, BothParts
<1> QED BY <1>5 DEF p1, p2

LEMMA AudioPlanIsComplete ==
    ASSUME ~IsVideo, NEW d \in BOOLEAN, device \in {"none", "anal", "hdmi", "both"}
    PROVE  Complete(AudioPlan, d)
<1> DEFINE useA == "anal" \in Renders
           useH == "hdmi" \in Renders
           sink == IF Both THEN "splitter" ELSE device
           LA == <<<<"tunnel", "clock anal", <<Clock, ClockPort("anal"), "anal", "clock">>>>>> \o Establish("clock anal")
           LH == <<<<"tunnel", "clock hdmi", <<Clock, ClockPort("hdmi"), "hdmi", "clock">>>>>> \o Establish("clock hdmi")
           SA == <<<<"tunnel", "splitter anal", <<"splitter", "out", "anal", "in">>>>>> \o Establish("splitter anal")
           SH == <<<<"tunnel", "splitter hdmi", <<"splitter", "out1", "hdmi", "in">>>>>> \o Establish("splitter hdmi")
           u == <<"tunnel", "decoder", <<"decoder", "out", "mixer", "in">>>>
           v == <<"tunnel", "mixer", <<"mixer", "out", sink, "in">>>>
           I2 == When(useA, <<Do("init", "anal")>>)
           I3 == When(useH, <<Do("init", "hdmi")>>)
           W == When(useA, LA) \o When(useH, LH)
           C == When(useA, <<Do("config", "anal")>>) \o When(useH, <<Do("config", "hdmi")>>)
           Y == When(useA, SA) \o When(useH, SH)
           X == When(useA, <<Do("execute", "anal")>>) \o When(useH, <<Do("execute", "hdmi")>>)
           S0 == <<Do("init", "mixer")>>
           S1 == S0 \o When(Both, <<Do("init", "splitter")>>)
           S2 == S1 \o (I2 \o I3)
           S3 == S2 \o <<Do("config", "mixer")>>
           S4 == S3 \o W
           S5 == S4 \o C
           S6 == S5 \o When(Both, Y)
           S7 == S6 \o <<u, v>>
           S8 == S7 \o Establish("decoder")
           S9 == S8 \o <<Do("execute", "mixer")>>
           S10 == S9 \o Establish("mixer")
           S11 == S10 \o When(Both, <<Do("execute", "splitter")>>)
           S12 == S11 \o X
<1>0. AudioPlan = S12
  <2>1. SplitTunnel("anal") = "splitter anal" /\ SplitTunnel("hdmi") = "splitter hdmi"
        /\ ClockTunnel("anal") = "clock anal" /\ ClockTunnel("hdmi") = "clock hdmi"
    BY DEF SplitTunnel, ClockTunnel
  <2> QED BY <2>1 DEF AudioPlan, PerRender
<1>1. Both \in BOOLEAN /\ useA \in BOOLEAN /\ useH \in BOOLEAN
  BY DEF Both
<1>2. /\ useA => "anal" \in Members(d) \ {"decoder"}
      /\ useH => "hdmi" \in Members(d) \ {"decoder"}
      /\ Both => "splitter" \in Members(d) \ {"decoder"}
      /\ "mixer" \in Members(d) \ {"decoder"} /\ "decoder" \in Members(d)
      /\ Both => useA /\ useH
      /\ {"mixer", "anal", "hdmi", "splitter"} \subseteq Components
  BY AudioShapes DEF Components
<1>3. /\ useA => Part(LA, d, {"clock anal"})
      /\ useH => Part(LH, d, {"clock hdmi"})
  <2> DEFINE qa == <<Clock, ClockPort("anal"), "anal", "clock">>
             qh == <<Clock, ClockPort("hdmi"), "hdmi", "clock">>
  <2>1. qa[1] = Clock /\ qa[3] = "anal" /\ qh[1] = Clock /\ qh[3] = "hdmi"
    OBVIOUS
  <2>2. /\ useA => Shape("clock anal", qa)
        /\ useH => Shape("clock hdmi", qh)
        /\ "clock anal" \in ChainTunnels \ {"imageFx"} /\ "clock hdmi" \in ChainTunnels \ {"imageFx"}
    BY AudioShapes
  <2> HIDE DEF qa, qh
  <2>3. useA => Part(<<<<"tunnel", "clock anal", qa>>>> \o Establish("clock anal"), d, {"clock anal"})
    BY <1>2, <2>1, <2>2, OneLink
  <2>4. useH => Part(<<<<"tunnel", "clock hdmi", qh>>>> \o Establish("clock hdmi"), d, {"clock hdmi"})
    BY <1>2, <2>1, <2>2, OneLink
  <2> QED BY <2>3, <2>4 DEF qa, qh
<1>4. Both =>
        Part(SA, d, {"splitter anal"}) /\ Part(SH, d, {"splitter hdmi"})
  <2> DEFINE qa == <<"splitter", "out", "anal", "in">>
             qh == <<"splitter", "out1", "hdmi", "in">>
  <2>1. qa[1] = "splitter" /\ qa[3] = "anal" /\ qh[1] = "splitter" /\ qh[3] = "hdmi"
    OBVIOUS
  <2>2. /\ Shape("splitter anal", qa) /\ Shape("splitter hdmi", qh)
        /\ "splitter anal" \in ChainTunnels \ {"imageFx"} /\ "splitter hdmi" \in ChainTunnels \ {"imageFx"}
    BY AudioShapes
  <2> HIDE DEF qa, qh
  <2>3. Both => Part(<<<<"tunnel", "splitter anal", qa>>>> \o Establish("splitter anal"), d, {"splitter anal"})
    BY <1>2, <2>1, <2>2, OneLink
  <2>4. Both => Part(<<<<"tunnel", "splitter hdmi", qh>>>> \o Establish("splitter hdmi"), d, {"splitter hdmi"})
    BY <1>2, <2>1, <2>2, OneLink
  <2> QED BY <2>3, <2>4 DEF qa, qh
<1>5. /\ Begun(<<u, v>>, d, {}) /\ Late(<<u, v>>) /\ Items(<<u, v>>) = {u, v}
      /\ \A y \in Items(<<u, v>>) : y[1] = "tunnel" => y[2] \in {"decoder", "mixer"}
  <2> DEFINE qd == <<"decoder", "out", "mixer", "in">>
             qm == <<"mixer", "out", sink, "in">>
  <2>1. qd[1] = "decoder" /\ qd[3] = "mixer" /\ qm[1] = "mixer" /\ qm[3] = sink
    OBVIOUS
  <2>2. Shape("decoder", qd) /\ Shape("mixer", qm) /\ sink \in Members(d) /\ "decoder" \in Tunnels /\ "mixer" \in Tunnels
    BY AudioShapes DEF Tunnels
  <2> HIDE DEF qd, qm, sink
  <2>3. u \in AnyCall /\ Fits(u, d)
    BY <1>2, <2>1, <2>2, WireFits DEF qd
  <2>4. v \in AnyCall /\ Fits(v, d)
    BY <1>2, <2>1, <2>2, WireFits DEF qm
  <2>5. u[1] = "tunnel" /\ u[2] = "decoder" /\ v[1] = "tunnel" /\ v[2] = "mixer"
    OBVIOUS
  <2> HIDE DEF u, v
  <2>6. MayPrecede(u, v)
    BY <2>5 DEF MayPrecede, Early
  <2>7. Good(<<u, v>>, d) /\ Items(<<u, v>>) = {u, v}
    BY <2>3, <2>4, <2>5, <2>6, GoodTwo
  <2>8. "tunnel" \notin OfTunnel
    BY DEF OfTunnel
  <2>9. Begun(<<u, v>>, d, {})
    BY <2>5, <2>7, <2>8, BegunNoTunnels
  <2>10. Late(<<u, v>>)
    BY <2>5, <2>7 DEF Late
  <2> QED BY <2>5, <2>7, <2>9, <2>10
<1>6. u[1] = "tunnel" /\ u[2] = "decoder" /\ v[1] = "tunnel" /\ v[2] = "mixer"
  OBVIOUS
<1> HIDE DEF sink, LA, LH, SA, SH, u, v
<1>7. Part(W, d, {"clock anal", "clock hdmi"})
  <2>1. {"clock anal", "clock hdmi"} = {"clock anal"} \cup {"clock hdmi"} /\ {"clock anal"} \cap {"clock hdmi"} = {}
    OBVIOUS
  <2> QED BY <1>1, <1>3, <2>1, BothParts
<1>8. Part(When(Both, Y), d, {"splitter anal", "splitter hdmi"})
  <2> DEFINE Z == {"splitter anal", "splitter hdmi"}
  <2>1. Z = {"splitter anal"} \cup {"splitter hdmi"} /\ {"splitter anal"} \cap {"splitter hdmi"} = {}
    OBVIOUS
  <2>2. Both => Part(Y, d, Z)
    <3> HIDE DEF Z
    <3> QED BY <1>1, <1>4, <2>1, BothParts
  <2> HIDE DEF Z, Y
  <2>3. Begun(When(Both, Y), d, Z) /\ Items(When(Both, Y)) = IF Both THEN Items(Y) ELSE {}
    BY <1>1, <2>2, GoodWhen DEF Part
  <2>4. Part(When(Both, Y), d, Z)
    BY <2>2, <2>3 DEF Late, Part
  <2> QED BY <2>4 DEF Z
<1>9. Part(C, d, {}) /\ Part(X, d, {})
  BY <1>1, PlainPair
<1> HIDE DEF W, C, Y, X
<1>10. Started(S0, d, {}) /\ Items(S0) = {Do("init", "mixer")}
  <2>1. Begun(S0, d, {}) /\ Items(S0) = {Do("init", "mixer")}
    BY <1>2, OneInit
  <2> QED BY <2>1 DEF Started
<1> HIDE DEF S0
<1>11. Started(S1, d, {}) /\ Items(S1) = Items(S0) \cup (IF Both THEN {Do("init", "splitter")} ELSE {})
  BY <1>1, <1>2, <1>10, DoIs, StartedInit
<1> HIDE DEF S1
<1>12. /\ Started(S2, d, {})
       /\ Items(S2) = Items(S1) \cup (IF useA THEN {Do("init", "anal")} ELSE {}) \cup (IF useH THEN {Do("init", "hdmi")} ELSE {})
  <2>1. \A x \in Items(S1) : x[1] = "init" /\ x[2] # "anal" /\ x[2] # "hdmi"
    BY <1>10, <1>11, DoIs
  <2>0. "anal" \in Components /\ (useA => "anal" \in Members(d) \ {"decoder"})
    BY <1>2
  <2>2. Started(S1 \o I2, d, {}) /\ Items(S1 \o I2) = Items(S1) \cup (IF useA THEN {Do("init", "anal")} ELSE {})
    <3> HIDE DEF useA
    <3> QED BY <1>1, <1>11, <2>0, <2>1, StartedInit
  <2> DEFINE T == S1 \o I2
  <2>3. \A x \in Items(T) : x[1] = "init" /\ x[2] # "hdmi"
    BY <2>1, <2>2, DoIs
  <2>4. Started(T, d, {}) /\ Items(T) = Items(S1) \cup (IF useA THEN {Do("init", "anal")} ELSE {})
    BY <2>2
  <2> HIDE DEF T
  <2>5. Started(T \o I3, d, {}) /\ Items(T \o I3) = Items(T) \cup (IF useH THEN {Do("init", "hdmi")} ELSE {})
    BY <1>1, <1>2, <2>3, <2>4, StartedInit
  <2>6. T \o I3 = S2
    <3>1. useA => Begun(<<Do("init", "anal")>>, d, {})
      BY <1>2, OneInit
    <3>2. useH => Begun(<<Do("init", "hdmi")>>, d, {})
      BY <1>2, OneInit
    <3>3. Begun(I2, d, {}) /\ Begun(I3, d, {})
      BY <1>1, <3>1, <3>2, GoodWhen
    <3> HIDE DEF I2, I3
    <3>4. S1 \in Seq(AnyCall) /\ I2 \in Seq(AnyCall) /\ I3 \in Seq(AnyCall)
      BY <1>11, <3>3 DEF Started, Begun, Good
    <3> QED BY <3>4, ConcatAssociative DEF T
  <2> QED BY <2>4, <2>5, <2>6
<1> HIDE DEF S2
<1>13. Started(S3, d, {}) /\ Items(S2) \subseteq Items(S3)
  <2>1. /\ Begun(<<Do("config", "mixer")>>, d, {}) /\ Late(<<Do("config", "mixer")>>)
        /\ \A y \in Items(<<Do("config", "mixer")>>) : y[1] = "config"
    BY <1>2, OnePlain
  <2> DEFINE p == <<Do("config", "mixer")>>
  <2> HIDE DEF p
  <2>2. {} = {} \cup {}
    OBVIOUS
  <2> QED BY <1>12, <2>1, <2>2, StartedMore DEF p
<1> HIDE DEF S3
<1>14. Started(S4, d, {"clock anal", "clock hdmi"}) /\ Items(S3) \subseteq Items(S4)
  <2>1. {"clock anal", "clock hdmi"} = {} \cup {"clock anal", "clock hdmi"}
    OBVIOUS
  <2>2. {} \cap {"clock anal", "clock hdmi"} = {}
    OBVIOUS
  <2> QED BY <1>7, <1>13, <2>1, <2>2, StartedPart
<1> HIDE DEF S4
<1>15. Started(S5, d, {"clock anal", "clock hdmi"}) /\ Items(S4) \subseteq Items(S5)
  <2>1. {"clock anal", "clock hdmi"} = {"clock anal", "clock hdmi"} \cup {}
    OBVIOUS
  <2>2. {"clock anal", "clock hdmi"} \cap {} = {}
    OBVIOUS
  <2> QED BY <1>9, <1>14, <2>1, <2>2, StartedPart
<1> HIDE DEF S5
<1> DEFINE Z6 == {"clock anal", "clock hdmi", "splitter anal", "splitter hdmi"}
<1>16. Started(S6, d, Z6) /\ Items(S5) \subseteq Items(S6)
  <2>1. Z6 = {"clock anal", "clock hdmi"} \cup {"splitter anal", "splitter hdmi"}
    OBVIOUS
  <2>2. {"clock anal", "clock hdmi"} \cap {"splitter anal", "splitter hdmi"} = {}
    OBVIOUS
  <2> HIDE DEF Z6
  <2> QED BY <1>8, <1>15, <2>1, <2>2, StartedPart
<1> HIDE DEF S6
<1>17. Started(S7, d, Z6) /\ Items(S6) \subseteq Items(S7) /\ u \in Items(S7) /\ v \in Items(S7)
  <2>1. Z6 = Z6 \cup {}
    OBVIOUS
  <2>2. \A y \in Items(<<u, v>>) : y[1] = "tunnel" => y[2] \notin Z6
    BY <1>5
  <2>3. Started(S7, d, Z6) /\ Items(S6) \subseteq Items(S7) /\ Items(<<u, v>>) \subseteq Items(S7)
    <3> DEFINE p == <<u, v>>
    <3>1. Begun(p, d, {}) /\ Late(p) /\ \A y \in Items(p) : y[1] = "tunnel" => y[2] \notin Z6
      BY <1>5, <2>2
    <3> HIDE DEF p, Z6
    <3>2. Started(S6 \o p, d, Z6) /\ Items(S6) \subseteq Items(S6 \o p) /\ Items(p) \subseteq Items(S6 \o p)
      BY <1>16, <2>1, <3>1, StartedMore
    <3> QED BY <3>2 DEF p
  <2> QED BY <1>5, <2>3
<1> HIDE DEF S7
<1>18. "decoder" \in ChainTunnels \ {"imageFx"} /\ "mixer" \in ChainTunnels \ {"imageFx"}
  BY AudioShapes
<1>19. Started(S8, d, Z6 \cup {"decoder"}) /\ Items(S7) \subseteq Items(S8)
  <2> HIDE DEF Z6
  <2> QED BY <1>6, <1>17, <1>18, StartedEstablish
<1> HIDE DEF S8, Z6
<1> DEFINE Z8 == Z6 \cup {"decoder"}
<1> HIDE DEF Z8
<1>20. Started(S9, d, Z8) /\ Items(S8) \subseteq Items(S9)
  <2>1. /\ Begun(<<Do("execute", "mixer")>>, d, {}) /\ Late(<<Do("execute", "mixer")>>)
        /\ \A y \in Items(<<Do("execute", "mixer")>>) : y[1] = "execute"
    BY <1>2, OnePlain
  <2> DEFINE p == <<Do("execute", "mixer")>>
  <2> HIDE DEF p
  <2>2. Z8 = Z8 \cup {}
    OBVIOUS
  <2>3. Started(S8, d, Z8)
    BY <1>19 DEF Z8
  <2> QED BY <2>1, <2>2, <2>3, StartedMore DEF p
<1> HIDE DEF S9
<1>21. Started(S10, d, Z8 \cup {"mixer"}) /\ Items(S9) \subseteq Items(S10)
  <2>1. v \in Items(S9)
    BY <1>17, <1>19, <1>20
  <2> QED BY <1>6, <1>18, <1>20, <2>1, StartedEstablish
<1> HIDE DEF S10
<1> DEFINE Z10 == Z8 \cup {"mixer"}
<1> HIDE DEF Z10
<1>22. Started(S11, d, Z10) /\ Items(S10) \subseteq Items(S11)
  <2>1. Started(S10, d, Z10)
    BY <1>21 DEF Z10
  <2> QED BY <1>1, <1>2, <2>1, StartedPlain
<1> HIDE DEF S11
<1>23. Started(S12, d, Z10) /\ Items(S11) \subseteq Items(S12)
  <2>1. Z10 = Z10 \cup {}
    OBVIOUS
  <2>2. Z10 \cap {} = {}
    OBVIOUS
  <2> QED BY <1>9, <1>22, <2>1, <2>2, StartedPart
<1> HIDE DEF S12
<1>24. Items(S2) \subseteq Items(S12)
  BY <1>13, <1>14, <1>15, <1>16, <1>17, <1>19, <1>20, <1>21, <1>22, <1>23
<1>25. \A c \in Members(d) \ {"decoder"} : Do("init", c) \in Items(S12)
  <2>1. Do("init", "mixer") \in Items(S2)
        /\ (Both => Do("init", "splitter") \in Items(S2))
        /\ (useA => Do("init", "anal") \in Items(S2))
        /\ (useH => Do("init", "hdmi") \in Items(S2))
    BY <1>10, <1>11, <1>12
  <2>2. Members(d) = {"decoder", "mixer"} \cup Renders \cup (IF Both THEN {"splitter"} ELSE {})
        /\ Renders \subseteq {"anal", "hdmi"}
    BY MemberIs, AudioShapes
  <2> QED BY <1>24, <2>1, <2>2
<1>26. Complete(S12, d)
  BY <1>23, <1>25 DEF Complete, Started, Begun
<1> QED BY <1>0, <1>26

-----------------------------------------------------------------------------
(* open and close *)

LEMMA SubjectIs ==
    ASSUME NEW plan, NEW call, NEW c \in Components \cup Tunnels, Do(call, c) \in Items(plan)
    PROVE  c \in Subjects(plan, call)
BY DoIs DEF Subjects

Opening(plan) ==
    /\ plan \in Seq(AnyCall) /\ InOrder(plan)
    /\ \A s \in Items(plan) : s[1] \in {"init", "config", "idle", "alloc", "execute"} /\ s[2] = "decoder"

LEMMA OpenCall ==
    ASSUME NEW call \in {"init", "config", "idle", "alloc", "execute"}
    PROVE  Opening(<<Do(call, "decoder")>>) /\ Items(<<Do(call, "decoder")>>) = {Do(call, "decoder")}
<1> DEFINE s == Do(call, "decoder")
<1>1. s \in AnyCall /\ s[1] = call /\ s[2] = "decoder"
  <2>1. "decoder" \in Components
    BY DEF Components
  <2> QED BY <2>1, IsCall, DoIs
<1> HIDE DEF s
<1>2. Items(<<s>>) = {s}
  BY ItemsOfOne
<1>3. InOrder(<<s>>)
  BY DEF InOrder
<1>4. <<s>> \in Seq(AnyCall)
  BY <1>1
<1>5. Opening(<<s>>) /\ Items(<<s>>) = {s}
  BY <1>1, <1>2, <1>3, <1>4 DEF Opening
<1> QED BY <1>5 DEF s

LEMMA OpenMore ==
    ASSUME NEW a, NEW b, Opening(a), Opening(b), \A y \in Items(b) : y[1] # "init"
    PROVE  Opening(a \o b) /\ Items(a \o b) = Items(a) \cup Items(b)
<1>1. a \in Seq(AnyCall) /\ b \in Seq(AnyCall) /\ InOrder(a) /\ InOrder(b)
  BY DEF Opening
<1>2. a \o b \in Seq(AnyCall) /\ Items(a \o b) = Items(a) \cup Items(b)
  BY <1>1, ItemsOfConcat
<1>3. \A x \in Items(a), y \in Items(b) : MayPrecede(x, y)
  BY DEF Opening, MayPrecede, Early
<1>4. InOrder(a \o b)
  BY <1>1, <1>3, InOrderConcat
<1> QED BY <1>2, <1>4 DEF Opening

LEMMA OpenPlanIsFit ==
    Opening(OpenPlan) /\ OpenPlan # <<>> /\ Head(OpenPlan)[1] = "init"
<1> DEFINE p == <<Do("init", "decoder")>>
           q == When(IsVideo, <<Do("idle", "decoder")>>)
           r == <<Do("config", "decoder"), Do("alloc", "decoder"), Do("execute", "decoder"), Do("config", "decoder")>>
           a == p \o q
           plan == a \o r
<1>1. OpenPlan = plan
  BY DEF OpenPlan
<1>2. Opening(p) /\ p # <<>> /\ Head(p) = Do("init", "decoder") /\ Head(p)[1] = "init"
  <2>1. Opening(p)
    BY OpenCall
  <2>2. p # <<>> /\ Head(p) = Do("init", "decoder")
    OBVIOUS
  <2> QED BY <2>1, <2>2, DoIs
<1>3. Opening(q) /\ \A y \in Items(q) : y[1] # "init"
  <2>1. CASE IsVideo
    <3>1. q = <<Do("idle", "decoder")>>
      BY <2>1 DEF When
    <3>2. Opening(<<Do("idle", "decoder")>>) /\ Items(<<Do("idle", "decoder")>>) = {Do("idle", "decoder")}
      BY OpenCall
    <3> HIDE DEF q
    <3> QED BY <3>1, <3>2, DoIs
  <2>2. CASE ~IsVideo
    <3>1. q = <<>>
      BY <2>2 DEF When
    <3>2. <<>> \in Seq(AnyCall) /\ Len(<<>>) = 0
      OBVIOUS
    <3>3. InOrder(<<>>) /\ Items(<<>>) = {}
      BY <3>2, ItemsOfEmpty DEF InOrder
    <3>4. Opening(<<>>) /\ \A y \in Items(<<>>) : y[1] # "init"
      BY <3>2, <3>3 DEF Opening
    <3> HIDE DEF q
    <3> QED BY <3>1, <3>4
  <2> QED BY <2>1, <2>2
<1>4. Opening(r) /\ \A y \in Items(r) : y[1] # "init"
  <2> DEFINE k == Do("config", "decoder")
             l == Do("alloc", "decoder")
             m == Do("execute", "decoder")
  <2>1. k \in AnyCall /\ l \in AnyCall /\ m \in AnyCall
    <3>1. "decoder" \in Components
      BY DEF Components
    <3> QED BY <3>1, IsCall
  <2>2. k[1] = "config" /\ l[1] = "alloc" /\ m[1] = "execute" /\ k[2] = "decoder" /\ l[2] = "decoder" /\ m[2] = "decoder"
    BY DoIs
  <2>3. r = <<k, l, m, k>>
    OBVIOUS
  <2> HIDE DEF k, l, m, r
  <2>4. r \in Seq(AnyCall) /\ 1..Len(r) = {1, 2, 3, 4} /\ r[1] = k /\ r[2] = l /\ r[3] = m /\ r[4] = k
    BY <2>1, <2>3
  <2>5. Items(r) = {k, l, m}
    BY <2>4 DEF Items
  <2>6. \A y \in Items(r) : y[1] # "init" /\ y[1] \in {"config", "alloc", "execute"} /\ y[2] = "decoder"
    BY <2>2, <2>5
  <2>7. \A i \in 1..Len(r) : r[i] \in Items(r)
    BY DEF Items
  <2>8. InOrder(r)
    BY <2>6, <2>7 DEF InOrder, MayPrecede, Early
  <2> QED BY <2>4, <2>6, <2>8 DEF Opening
<1> HIDE DEF p, q, r
<1>5. Opening(a) /\ Items(a) = Items(p) \cup Items(q)
  BY <1>2, <1>3, OpenMore
<1>6. a # <<>> /\ Head(a) = Head(p)
  BY <1>2, <1>3, HeadOfConcat DEF Opening
<1> HIDE DEF a
<1>7. Opening(plan)
  BY <1>4, <1>5, OpenMore
<1>8. plan # <<>> /\ Head(plan) = Head(a)
  BY <1>4, <1>5, <1>6, HeadOfConcat DEF Opening
<1> HIDE DEF plan
<1> QED BY <1>1, <1>2, <1>6, <1>7, <1>8

\* A part of close.
Closing(plan) ==
    /\ plan \in Seq(AnyCall) /\ InOrder(plan)
    /\ \A s \in Items(plan) : s[1] \in {"part", "free"} /\ (s[1] = "free" => s[2] \in Chain)

LEMMA CloseOrder ==
    ASSUME NEW a, NEW b, a[1] \in {"part", "free"}, b[1] \in {"part", "free"}, a[1] = "part" \/ b[1] = "free"
    PROVE  MayPrecede(a, b)
BY DEF MayPrecede, Early

LEMMA CloseCall ==
    ASSUME NEW call \in {"part", "free"}, NEW c, call = "free" => c \in Chain, call = "part" => c \in Tunnels
    PROVE  Do(call, c) \in AnyCall /\ Do(call, c)[1] = call /\ Do(call, c)[2] = c
<1>1. Chain \subseteq Components
  BY DEF Chain, Components
<1>2. Do(call, c) \in AnyCall
  BY <1>1 DEF AnyCall, Do
<1> QED BY <1>2, DoIs

LEMMA CloseWhen ==
    ASSUME NEW b \in BOOLEAN, NEW call \in {"part", "free"}, NEW c, call = "free" => c \in Chain, call = "part" => c \in Tunnels
    PROVE  /\ Closing(When(b, <<Do(call, c)>>))
           /\ Items(When(b, <<Do(call, c)>>)) = IF b THEN {Do(call, c)} ELSE {}
<1> DEFINE s == Do(call, c)
<1>1. s \in AnyCall /\ s[1] = call /\ s[2] = c
  BY CloseCall
<1> HIDE DEF s
<1>2. CASE b
  <2>1. When(b, <<s>>) = <<s>>
    BY <1>2 DEF When
  <2>2. Items(<<s>>) = {s} /\ InOrder(<<s>>)
    BY ItemsOfOne DEF InOrder
  <2>3. <<s>> \in Seq(AnyCall)
    BY <1>1
  <2>4. Closing(<<s>>)
    BY <1>1, <2>2, <2>3 DEF Closing
  <2> QED BY <1>2, <2>1, <2>2, <2>4 DEF s
<1>3. CASE ~b
  <2>1. When(b, <<s>>) = <<>>
    BY <1>3 DEF When
  <2>2. <<>> \in Seq(AnyCall) /\ Len(<<>>) = 0
    OBVIOUS
  <2>3. InOrder(<<>>) /\ Items(<<>>) = {}
    BY <2>2, ItemsOfEmpty DEF InOrder
  <2>4. Closing(<<>>)
    BY <2>2, <2>3 DEF Closing
  <2> QED BY <1>3, <2>1, <2>3, <2>4 DEF s
<1> QED BY <1>2, <1>3

LEMMA CloseMore ==
    ASSUME NEW a, NEW b, Closing(a), Closing(b),
           \/ \A x \in Items(a) : x[1] = "part"
           \/ \A y \in Items(b) : y[1] = "free"
    PROVE  Closing(a \o b) /\ Items(a \o b) = Items(a) \cup Items(b)
<1>1. a \in Seq(AnyCall) /\ b \in Seq(AnyCall) /\ InOrder(a) /\ InOrder(b)
  BY DEF Closing
<1>2. a \o b \in Seq(AnyCall) /\ Items(a \o b) = Items(a) \cup Items(b)
  BY <1>1, ItemsOfConcat
<1>3. \A x \in Items(a), y \in Items(b) : MayPrecede(x, y)
  BY CloseOrder DEF Closing
<1>4. InOrder(a \o b)
  BY <1>1, <1>3, InOrderConcat
<1> QED BY <1>2, <1>4 DEF Closing

LEMMA CloseTwo ==
    ASSUME NEW r \in AnyCall, NEW s \in AnyCall, r[1] \in {"part", "free"}, s[1] = r[1],
           r[1] = "free" => r[2] \in Chain /\ s[2] \in Chain
    PROVE  Closing(<<r, s>>) /\ Items(<<r, s>>) = {r, s}
<1>1. Items(<<r, s>>) = {r, s}
  BY ItemsOfTwo
<1>2. InOrder(<<r, s>>)
  <2>1. 1..Len(<<r, s>>) = {1, 2}
    OBVIOUS
  <2>2. MayPrecede(r, s)
    BY CloseOrder
  <2> QED BY <2>1, <2>2 DEF InOrder
<1>3. <<r, s>> \in Seq(AnyCall)
  OBVIOUS
<1> QED BY <1>1, <1>2, <1>3 DEF Closing

\* What close has to do: it takes down every tunnel that may be set up and frees every component.
Closes(plan) ==
    /\ Closing(plan) /\ plan # <<>>
    /\ Chain \subseteq Subjects(plan, "free")
    /\ ChainTunnels \subseteq Subjects(plan, "part") \cup (IF mDeInterlace THEN {} ELSE {"imageFx"})

LEMMA VideoCloses ==
    ASSUME IsVideo, mDeInterlace \in BOOLEAN
    PROVE  Closes(VideoClose)
<1> DEFINE P1 == <<Do("part", "clock"), Do("part", "decoder")>>
           P2 == When(mDeInterlace, <<Do("part", "imageFx")>>)
           P3 == <<Do("part", "sched"), Do("free", "scheduler"), Do("free", "decoder")>>
           P4 == When(mDeInterlace, <<Do("free", "imageFx")>>)
           P5 == <<Do("free", "render"), Do("free", "imageFx")>>
           A == P1 \o P2
           B == A \o P3
           C == B \o P4
           D == C \o P5
<1>0. VideoClose = D
  BY DEF VideoClose
<1>1. Chain = {"decoder", "scheduler", "render", "imageFx"} /\ ChainTunnels = {"clock", "decoder", "imageFx", "sched"}
      /\ ChainTunnels \subseteq Tunnels /\ Chain \subseteq Components
  BY DEF Chain, ChainTunnels, Tunnels, Components
<1>2. Closing(P1) /\ Items(P1) = {Do("part", "clock"), Do("part", "decoder")} /\ \A x \in Items(P1) : x[1] = "part"
  <2> DEFINE r == Do("part", "clock")
             s == Do("part", "decoder")
  <2>1. r \in AnyCall /\ s \in AnyCall /\ r[1] = "part" /\ s[1] = "part"
    BY <1>1, CloseCall
  <2> HIDE DEF r, s
  <2>2. Closing(<<r, s>>) /\ Items(<<r, s>>) = {r, s}
    BY <2>1, CloseTwo
  <2>3. \A x \in Items(<<r, s>>) : x[1] = "part"
    BY <2>1, <2>2
  <2> QED BY <2>2, <2>3 DEF r, s
<1>3. Closing(P2) /\ Items(P2) = (IF mDeInterlace THEN {Do("part", "imageFx")} ELSE {})
  BY <1>1, CloseWhen
<1>4. Closing(P3) /\ Items(P3) = {Do("part", "sched"), Do("free", "scheduler"), Do("free", "decoder")}
  <2> DEFINE r == Do("part", "sched")
             s == Do("free", "scheduler")
             u == Do("free", "decoder")
  <2>1. r \in AnyCall /\ s \in AnyCall /\ u \in AnyCall /\ r[1] = "part" /\ s[1] = "free" /\ u[1] = "free"
        /\ s[2] = "scheduler" /\ u[2] = "decoder"
    BY <1>1, CloseCall
  <2> HIDE DEF r, s, u
  <2>2. Items(<<r, s, u>>) = {r, s, u}
    BY ItemsOfThree
  <2>3. InOrder(<<r, s, u>>)
    <3>1. 1..Len(<<r, s, u>>) = {1, 2, 3}
      OBVIOUS
    <3>2. MayPrecede(r, s) /\ MayPrecede(r, u) /\ MayPrecede(s, u)
      BY <2>1, CloseOrder
    <3> QED BY <3>1, <3>2 DEF InOrder
  <2>4. <<r, s, u>> \in Seq(AnyCall)
    BY <2>1
  <2>5. Closing(<<r, s, u>>)
    BY <1>1, <2>1, <2>2, <2>3, <2>4 DEF Closing
  <2> QED BY <2>2, <2>5 DEF r, s, u
<1>5. Closing(P4) /\ Items(P4) = (IF mDeInterlace THEN {Do("free", "imageFx")} ELSE {}) /\ \A y \in Items(P4) : y[1] = "free"
  <2>1. Closing(P4) /\ Items(P4) = (IF mDeInterlace THEN {Do("free", "imageFx")} ELSE {})
    BY <1>1, CloseWhen
  <2> QED BY <2>1, DoIs
<1>6. Closing(P5) /\ Items(P5) = {Do("free", "render"), Do("free", "imageFx")} /\ \A x \in Items(P5) : x[1] = "free"
  <2> DEFINE r == Do("free", "render")
             s == Do("free", "imageFx")
  <2>1. r \in AnyCall /\ s \in AnyCall /\ r[1] = "free" /\ s[1] = "free" /\ r[2] = "render" /\ s[2] = "imageFx"
    BY <1>1, CloseCall
  <2> HIDE DEF r, s
  <2>2. Closing(<<r, s>>) /\ Items(<<r, s>>) = {r, s}
    BY <1>1, <2>1, CloseTwo
  <2>3. \A x \in Items(<<r, s>>) : x[1] = "free"
    BY <2>1, <2>2
  <2> QED BY <2>2, <2>3 DEF r, s
<1> HIDE DEF P1, P2, P3, P4, P5
<1>7. Closing(A) /\ Items(A) = Items(P1) \cup Items(P2) /\ \A x \in Items(A) : x[1] = "part"
  <2>1. Closing(A) /\ Items(A) = Items(P1) \cup Items(P2)
    BY <1>2, <1>3, CloseMore
  <2> QED BY <1>2, <1>3, <2>1, DoIs
<1> HIDE DEF A
<1>8. Closing(B) /\ Items(B) = Items(A) \cup Items(P3)
  BY <1>4, <1>7, CloseMore
<1> HIDE DEF B
<1>9. Closing(C) /\ Items(C) = Items(B) \cup Items(P4)
  BY <1>5, <1>8, CloseMore
<1> HIDE DEF C
<1>10. Closing(D) /\ Items(D) = Items(C) \cup Items(P5)
  BY <1>6, <1>9, CloseMore
<1> HIDE DEF D
<1>11. {Do("free", "scheduler"), Do("free", "decoder"), Do("free", "render"), Do("free", "imageFx"),
        Do("part", "clock"), Do("part", "decoder"), Do("part", "sched")} \subseteq Items(D)
  BY <1>2, <1>4, <1>6, <1>7, <1>8, <1>9, <1>10
<1>12. mDeInterlace => Do("part", "imageFx") \in Items(D)
  BY <1>3, <1>7, <1>8, <1>9, <1>10
<1>13. Chain \subseteq Subjects(D, "free")
  BY <1>1, <1>11, SubjectIs
<1>14. ChainTunnels \subseteq Subjects(D, "part") \cup (IF mDeInterlace THEN {} ELSE {"imageFx"})
  BY <1>1, <1>11, <1>12, SubjectIs
<1>15. D # <<>>
  BY <1>11, ItemsOfEmpty
<1> QED BY <1>0, <1>10, <1>13, <1>14, <1>15 DEF Closes

LEMMA ElevenCalls ==
    ASSUME NEW c1 \in AnyCall, NEW c2 \in AnyCall, NEW c3 \in AnyCall, NEW c4 \in AnyCall, NEW c5 \in AnyCall,
           NEW c6 \in AnyCall, NEW c7 \in AnyCall, NEW c8 \in AnyCall, NEW c9 \in AnyCall, NEW c10 \in AnyCall,
           NEW c11 \in AnyCall
    PROVE  <<c1, c2, c3, c4, c5, c6, c7, c8, c9, c10, c11>> \in Seq(AnyCall)
OBVIOUS

LEMMA AudioCloses ==
    ASSUME ~IsVideo
    PROVE  Closes(AudioClose)
<1> DEFINE plan == AudioClose
<1>1. Chain = {"decoder", "mixer", "splitter", "anal", "hdmi"} /\ Chain \subseteq Components /\ ChainTunnels \subseteq Tunnels
      /\ ChainTunnels = {"decoder", "mixer", "splitter anal", "splitter hdmi", "clock anal", "clock hdmi"}
  BY DEF Chain, Components, ChainTunnels, Tunnels
<1>2. /\ 1..Len(plan) = 1..11 /\ plan # <<>>
      /\ plan[1] = Do("part", "clock anal") /\ plan[2] = Do("part", "clock hdmi") /\ plan[3] = Do("part", "decoder")
      /\ plan[4] = Do("part", "mixer") /\ plan[5] = Do("part", "splitter hdmi") /\ plan[6] = Do("part", "splitter anal")
      /\ plan[7] = Do("free", "decoder") /\ plan[8] = Do("free", "mixer") /\ plan[9] = Do("free", "splitter")
      /\ plan[10] = Do("free", "hdmi") /\ plan[11] = Do("free", "anal")
  BY DEF AudioClose
<1>3. plan \in Seq(AnyCall)
  <2>1. /\ Do("part", "clock anal") \in AnyCall /\ Do("part", "clock hdmi") \in AnyCall /\ Do("part", "decoder") \in AnyCall
        /\ Do("part", "mixer") \in AnyCall /\ Do("part", "splitter hdmi") \in AnyCall /\ Do("part", "splitter anal") \in AnyCall
        /\ Do("free", "decoder") \in AnyCall /\ Do("free", "mixer") \in AnyCall /\ Do("free", "splitter") \in AnyCall
        /\ Do("free", "hdmi") \in AnyCall /\ Do("free", "anal") \in AnyCall
    BY <1>1, CloseCall
  <2> QED BY <2>1, ElevenCalls DEF AudioClose
<1> HIDE DEF plan
<1>4. \A i \in 1..6 : plan[i][1] = "part"
  <2>1. \A i \in 1..6 : i = 1 \/ i = 2 \/ i = 3 \/ i = 4 \/ i = 5 \/ i = 6
    OBVIOUS
  <2>2. plan[1][1] = "part" /\ plan[2][1] = "part" /\ plan[3][1] = "part"
    <3>1. Do("part", "clock anal")[1] = "part" /\ Do("part", "clock hdmi")[1] = "part" /\ Do("part", "decoder")[1] = "part"
      BY DoIs
    <3> QED BY <1>2, <3>1, Zenon
  <2>3. plan[4][1] = "part" /\ plan[5][1] = "part" /\ plan[6][1] = "part"
    <3>1. Do("part", "mixer")[1] = "part" /\ Do("part", "splitter hdmi")[1] = "part" /\ Do("part", "splitter anal")[1] = "part"
      BY DoIs
    <3> QED BY <1>2, <3>1, Zenon
  <2> QED BY <2>1, <2>2, <2>3
<1>5. \A i \in 7..11 : plan[i][1] = "free" /\ plan[i][2] \in Chain
  <2>1. \A i \in 7..11 : i = 7 \/ i = 8 \/ i = 9 \/ i = 10 \/ i = 11
    OBVIOUS
  <2>2. Do("free", "decoder")[1] = "free" /\ Do("free", "mixer")[1] = "free" /\ Do("free", "splitter")[1] = "free"
        /\ Do("free", "hdmi")[1] = "free" /\ Do("free", "anal")[1] = "free"
    BY DoIs
  <2>3. Do("free", "decoder")[2] \in Chain /\ Do("free", "mixer")[2] \in Chain /\ Do("free", "splitter")[2] \in Chain
        /\ Do("free", "hdmi")[2] \in Chain /\ Do("free", "anal")[2] \in Chain
    <3>1. Do("free", "decoder")[2] = "decoder" /\ Do("free", "mixer")[2] = "mixer" /\ Do("free", "splitter")[2] = "splitter"
          /\ Do("free", "hdmi")[2] = "hdmi" /\ Do("free", "anal")[2] = "anal"
      BY DoIs
    <3>2. "decoder" \in Chain /\ "mixer" \in Chain /\ "splitter" \in Chain /\ "hdmi" \in Chain /\ "anal" \in Chain
      BY <1>1
    <3> QED BY <3>1, <3>2, Zenon
  <2>4. plan[7][1] = "free" /\ plan[8][1] = "free" /\ plan[9][1] = "free" /\ plan[10][1] = "free" /\ plan[11][1] = "free"
    BY <1>2, <2>2, Zenon
  <2>5. plan[7][2] \in Chain /\ plan[8][2] \in Chain /\ plan[9][2] \in Chain /\ plan[10][2] \in Chain /\ plan[11][2] \in Chain
    BY <1>2, <2>3, Zenon
  <2> QED BY <2>1, <2>4, <2>5
<1>6. \A i \in 1..11 : i \in 1..6 \/ i \in 7..11
  OBVIOUS
<1>7. InOrder(plan)
  <2> SUFFICES ASSUME NEW i \in 1..11, NEW j \in 1..11, i < j PROVE MayPrecede(plan[i], plan[j])
    BY <1>2 DEF InOrder
  <2>1. i \in 1..6 \/ j \in 7..11
    OBVIOUS
  <2> QED BY <1>4, <1>5, <1>6, <2>1, CloseOrder
<1>8. Closing(plan)
  <2>1. ASSUME NEW s \in Items(plan) PROVE s[1] \in {"part", "free"} /\ (s[1] = "free" => s[2] \in Chain)
    <3>1. PICK i \in 1..11 : s = plan[i]
      BY <1>2 DEF Items
    <3> QED BY <1>4, <1>5, <1>6, <3>1
  <2> QED BY <1>3, <1>7, <2>1 DEF Closing
<1>9. \A i \in 1..11 : plan[i] \in Items(plan)
  BY <1>2 DEF Items
<1>10. {1, 2, 3, 4, 5, 6, 7, 8, 9, 10, 11} \subseteq 1..11
  OBVIOUS
<1>11. /\ Do("part", "clock anal") \in Items(plan) /\ Do("part", "clock hdmi") \in Items(plan) /\ Do("part", "decoder") \in Items(plan)
       /\ Do("part", "mixer") \in Items(plan) /\ Do("part", "splitter hdmi") \in Items(plan) /\ Do("part", "splitter anal") \in Items(plan)
       /\ Do("free", "decoder") \in Items(plan) /\ Do("free", "mixer") \in Items(plan) /\ Do("free", "splitter") \in Items(plan)
       /\ Do("free", "hdmi") \in Items(plan) /\ Do("free", "anal") \in Items(plan)
  BY <1>2, <1>9, <1>10
<1>12. Chain \subseteq Subjects(plan, "free")
  BY <1>1, <1>11, SubjectIs
<1>13. ChainTunnels \subseteq Subjects(plan, "part")
  BY <1>1, <1>11, SubjectIs
<1>14. Closes(plan)
  BY <1>2, <1>8, <1>12, <1>13 DEF Closes
<1> QED BY <1>14 DEF plan

LEMMA ClosePlanCloses ==
    ASSUME mDeInterlace \in BOOLEAN
    PROVE  Closes(ClosePlan)
BY VideoCloses, AudioCloses DEF ClosePlan

-----------------------------------------------------------------------------
(* What the invariant says of the next call *)

LEMMA DeviceIs ==
    ASSUME ChainInv
    PROVE  /\ device \in {"none", "anal", "hdmi", "both"} /\ attempts \in Nat /\ mDeInterlace \in BOOLEAN
           /\ \A d \in BOOLEAN : Members(d) \subseteq Components /\ Members(d) \subseteq Chain
           /\ Chain \subseteq Components /\ ChainTunnels \subseteq Tunnels
           /\ Clock \notin Components /\ "none" \notin Components /\ "none" # Clock
           /\ ~(\E c \in Components : handle[c] \notin Nat)
<1>1. device \in {"none", "anal", "hdmi", "both"} /\ attempts \in Nat /\ mDeInterlace \in BOOLEAN
      /\ \A c \in Components : handle[c] \in 0..MaxAttempts + 1
  BY DEF ChainInv, Typed, TypeOK
<1>2. \A d \in BOOLEAN : Members(d) \subseteq Components /\ Members(d) \subseteq Chain
  BY <1>1, MemberIsComponent
<1>3. Chain \subseteq Components /\ ChainTunnels \subseteq Tunnels
  BY DEF Chain, Components, ChainTunnels, Tunnels
<1>4. Clock \notin Components /\ "none" \notin Components /\ "none" # Clock
  BY DEF Clock, Components
<1>5. MaxAttempts \in Nat
  BY BoundsAssumption
<1> QED BY <1>1, <1>2, <1>3, <1>4, <1>5

LEMMA TodoIs ==
    ASSUME ChainInv, todo # <<>>
    PROVE  /\ todo \in Seq(AnyCall) /\ Head(todo) \in Items(todo) /\ Head(todo) \in AnyCall
           /\ Tail(todo) \in Seq(AnyCall) /\ Items(Tail(todo)) \subseteq Items(todo)
           /\ \A s \in Items(todo) : s = Head(todo) \/ s \in Items(Tail(todo))
           /\ phase \in Busy
           /\ phase = "closing" <=> Head(todo)[1] \in {"part", "free"}
<1>1. todo \in Seq(AnyCall) /\ phase \in Busy
  BY DEF ChainInv, Typed, TypeOK
<1>2. /\ Head(todo) \in Items(todo) /\ Tail(todo) \in Seq(AnyCall) /\ Items(Tail(todo)) \subseteq Items(todo)
      /\ \A s \in Items(todo) : s = Head(todo) \/ s \in Items(Tail(todo))
  BY <1>1, ItemsOfTail
<1>3. Head(todo) \in AnyCall
  BY <1>1, HeadTailProperties
<1>4. CASE phase = "closing"
  BY <1>1, <1>2, <1>3, <1>4 DEF ChainInv, TunnelsKept
<1>5. CASE phase = "opening"
  BY <1>1, <1>2, <1>3, <1>5 DEF ChainInv, Before
<1>6. CASE phase = "wiring"
  <2>1. PICK d \in BOOLEAN : Wiring(d)
    BY <1>6 DEF ChainInv, WhileWiring
  <2>2. Fits(Head(todo), d)
    BY <1>2, <2>1 DEF Wiring
  <2>3. Head(todo)[1] \notin {"part", "free"}
    BY <2>2 DEF Fits, Early, Plain
  <2> QED BY <1>1, <1>2, <1>3, <1>6, <2>3
<1> QED BY <1>1, <1>4, <1>5, <1>6 DEF Busy

LEMMA NoEarlyLeft ==
    ASSUME NEW S, NEW plan \in Seq(S), plan # <<>>, InOrder(plan), Head(plan)[1] \notin Early \cup {"config"}
    PROVE  (\A s \in Items(plan) : s[1] \notin Early) /\ Subjects(plan, "init") = {}
<1>1. \A s \in Items(plan) : s[1] \notin Early
  BY ItemsOfTail, InOrderTail DEF MayPrecede
<1>2. "init" \in Early
  BY DEF Early
<1> QED BY <1>1, <1>2 DEF Subjects

LEMMA OpeningIs ==
    ASSUME ChainInv, phase = "opening"
    PROVE  /\ attempts = 0 /\ joined = {} /\ mTunnelSet = {} /\ todo # <<>> /\ Subject = "decoder"
           /\ enabled \cap ClockPorts = {} /\ OnlyDecoder
           /\ Head(todo)[1] \in {"init", "config", "idle", "alloc", "execute"}
           /\ InOrder(Tail(todo))
           /\ \A s \in Items(Tail(todo)) : s[1] \in {"init", "config", "idle", "alloc", "execute"} /\ s[2] = "decoder"
           /\ Head(todo)[1] # "init" => handle["decoder"] # 0
           /\ Head(todo)[1] = "init" => held = {} /\ "decoder" \notin Subjects(Tail(todo), "init")
           /\ "decoder" \in Subjects(Tail(todo), "init") => held = {}
<1>1. /\ attempts = 0 /\ joined = {} /\ mTunnelSet = {} /\ InOrder(todo) /\ OnlyDecoder /\ enabled \cap ClockPorts = {}
      /\ \A s \in Items(todo) : s[1] \in {"init", "config", "idle", "alloc", "execute"} /\ s[2] = "decoder"
      /\ handle["decoder"] # 0 \/ Head(todo)[1] = "init"
      /\ "decoder" \in Subjects(todo, "init") => held = {}
  BY DEF ChainInv, Before
<1>2. todo # <<>>
  BY DEF ChainInv, Typed, TypeOK, Busy
<1>3. /\ todo \in Seq(AnyCall) /\ Head(todo) \in Items(todo) /\ Items(Tail(todo)) \subseteq Items(todo)
  BY <1>2, TodoIs
<1>4. InOrder(Tail(todo)) /\ \A s \in Items(Tail(todo)) : MayPrecede(Head(todo), s)
  BY <1>1, <1>2, <1>3, InOrderTail
<1>5. Subject = "decoder" /\ Head(todo)[1] \in {"init", "config", "idle", "alloc", "execute"}
  BY <1>1, <1>3 DEF Subject
<1>6. Subjects(Tail(todo), "init") \subseteq Subjects(todo, "init")
  BY <1>2, <1>3, SubjectsOfTail
<1>7. ASSUME Head(todo)[1] = "init" PROVE held = {} /\ "decoder" \notin Subjects(Tail(todo), "init")
  <2>1. "decoder" \in Components
    BY DEF Components
  <2>2. "decoder" \in Subjects(todo, "init")
    BY <1>3, <1>5, <1>7, <2>1 DEF Subjects, Subject
  <2>3. \A s \in Items(Tail(todo)) : ~(s[1] = "init" /\ s[2] = "decoder")
    BY <1>4, <1>5, <1>7 DEF MayPrecede, Subject
  <2> QED BY <1>1, <2>2, <2>3 DEF Subjects
<1> QED BY <1>1, <1>2, <1>3, <1>4, <1>5, <1>6, <1>7

LEMMA EndsAre ==
    ASSUME ChainInv, NEW t \in Tunnels, ends[t][1] \in Components \cup {Clock}
    PROVE  Shape(t, ends[t]) /\ ends[t][3] \in Components
<1>1. NoEnds[1] = "none"
  BY DEF NoEnds
<1>2. ends[t] # NoEnds
  BY <1>1, DeviceIs
<1>3. Shape(t, ends[t])
  BY <1>2 DEF ChainInv, Typed
<1>4. ends[t] \in Quads
  BY <1>3 DEF Shape
<1> QED BY <1>3, <1>4 DEF Quads

LEMMA SrcDst ==
    ASSUME NEW t
    PROVE  /\ Src(t)[1] = ends[t][1] /\ Src(t)[2] = Serial(ends[t][1]) /\ Src(t)[3] = ends[t][2]
           /\ Dst(t)[1] = ends[t][3] /\ Dst(t)[2] = Serial(ends[t][3]) /\ Dst(t)[3] = ends[t][4]
           /\ Src(t) = <<ends[t][1], Serial(ends[t][1]), ends[t][2]>>
           /\ Dst(t) = <<ends[t][3], Serial(ends[t][3]), ends[t][4]>>
BY DEF Src, Dst, Port

LEMMA WiringHead ==
    ASSUME ChainInv, phase = "wiring", NEW d \in BOOLEAN, Wiring(d)
    PROVE  /\ todo # <<>> /\ Fits(Head(todo), d) /\ InOrder(Tail(todo))
           /\ \A s \in Items(Tail(todo)) : Fits(s, d) /\ MayPrecede(Head(todo), s)
           /\ Head(todo)[1] \notin Early \cup {"config"} =>
                 /\ \A s \in Items(todo) : s[1] \notin Early
                 /\ \A c \in Members(d) \ {"decoder"} : handle[c] = attempts + 1
                 /\ \A c \in Members(d) : handle[c] # 0
           /\ Head(todo)[1] = "init" =>
                 /\ Subject \in Members(d) \ {"decoder"} /\ <<Subject, attempts + 1>> \notin held
                 /\ Subject \notin Subjects(Tail(todo), "init")
           /\ Head(todo)[1] \in Early => \A p \in joined : p[2] <= attempts
           /\ Head(todo)[1] \in OfTunnel =>
                 /\ Subject \in ChainTunnels /\ Shape(Subject, ends[Subject])
                 /\ ends[Subject][1] \in Members(d) \cup {Clock} /\ ends[Subject][3] \in Members(d)
           /\ Head(todo)[1] = "enable" => Subject \in mTunnelSet
<1>1. todo # <<>>
  BY DEF ChainInv, Typed, TypeOK, Busy
<1>2. /\ todo \in Seq(AnyCall) /\ Head(todo) \in Items(todo) /\ Items(Tail(todo)) \subseteq Items(todo)
  BY <1>1, TodoIs
<1>3. InOrder(todo) /\ \A s \in Items(todo) : Fits(s, d)
  BY DEF Wiring
<1>4. InOrder(Tail(todo)) /\ \A s \in Items(Tail(todo)) : MayPrecede(Head(todo), s)
  BY <1>1, <1>2, <1>3, InOrderTail
<1>5. ASSUME Head(todo)[1] \notin Early \cup {"config"}
      PROVE  /\ \A s \in Items(todo) : s[1] \notin Early
             /\ \A c \in Members(d) \ {"decoder"} : handle[c] = attempts + 1
             /\ \A c \in Members(d) : handle[c] # 0
  <2>1. (\A s \in Items(todo) : s[1] \notin Early) /\ Subjects(todo, "init") = {}
    BY <1>1, <1>2, <1>3, <1>5, NoEarlyLeft
  <2>2. \A c \in Members(d) \ {"decoder"} : handle[c] = attempts + 1
    BY <2>1 DEF Wiring
  <2>3. handle["decoder"] # 0
    BY DEF Wiring
  <2> QED BY <2>1, <2>2, <2>3, DeviceIs
<1>6. ASSUME Head(todo)[1] = "init"
      PROVE  /\ Subject \in Members(d) \ {"decoder"} /\ <<Subject, attempts + 1>> \notin held
             /\ Subject \notin Subjects(Tail(todo), "init")
  <2>1. Subject \in Members(d) \ {"decoder"}
    BY <1>2, <1>3, <1>6 DEF Fits, Subject
  <2>2. Subject \in Subjects(todo, "init")
    BY <1>2, <1>6, <2>1, DeviceIs DEF Subjects, Subject
  <2>3. <<Subject, attempts + 1>> \notin held
    BY <2>2 DEF Wiring
  <2>4. \A s \in Items(Tail(todo)) : ~(s[1] = "init" /\ s[2] = Subject)
    BY <1>4, <1>6 DEF MayPrecede, Subject
  <2>5. Subject \notin Subjects(Tail(todo), "init")
    BY <2>4 DEF Subjects
  <2> QED BY <2>1, <2>3, <2>5
<1>7. ASSUME Head(todo)[1] \in Early PROVE \A p \in joined : p[2] <= attempts
  BY <1>2, <1>7 DEF Wiring
<1>8. ASSUME Head(todo)[1] \in OfTunnel
      PROVE  /\ Subject \in ChainTunnels /\ Shape(Subject, ends[Subject])
             /\ ends[Subject][1] \in Members(d) \cup {Clock} /\ ends[Subject][3] \in Members(d)
  <2>1. Subject \in ChainTunnels /\ Subject \in Tunnels
    BY <1>2, <1>3, <1>8, DeviceIs DEF Fits, Subject
  <2>2. After(todo, OfTunnel, "tunnel", Subject, ends[Subject][1] \in Members(d) \cup {Clock} /\ ends[Subject][3] \in Members(d))
    BY <2>1 DEF Wiring
  <2>3. ends[Subject][1] \in Members(d) \cup {Clock} /\ ends[Subject][3] \in Members(d)
    BY <1>1, <1>2, <1>8, <2>2, AfterHead DEF Subject
  <2>4. Shape(Subject, ends[Subject])
    BY <2>1, <2>3, EndsAre, DeviceIs
  <2> QED BY <2>1, <2>3, <2>4
<1>9. ASSUME Head(todo)[1] = "enable" PROVE Subject \in mTunnelSet
  <2>1. Subject \in Tunnels
    BY <1>2, <1>3, <1>9, DeviceIs DEF Fits, Subject, OfTunnel
  <2>2. After(todo, {"enable"}, "setup", Subject, Subject \in mTunnelSet)
    BY <2>1 DEF Wiring
  <2>3. Len(todo) \in Nat \ {0} /\ Head(todo) = todo[1]
    BY <1>1, <1>2, EmptySeq, LenProperties
  <2>4. todo[1][1] \in {"enable"} /\ todo[1][2] = Subject /\ 1 \in 1..Len(todo) /\ 1..(1 - 1) = {}
    BY <1>9, <2>3 DEF Subject
  <2> QED BY <2>2, <2>4 DEF After
<1> QED BY <1>1, <1>2, <1>3, <1>4, <1>5, <1>6, <1>7, <1>8, <1>9

-----------------------------------------------------------------------------
(* What a call of open or srcChanged does to what the invariant speaks of    *)

Enabling == \A p \in enabled' : p \in enabled \/ p \notin ClockPorts \/ (Calls("enable") /\ p = Src(Subject))
Stated ==
    /\ state' \in [Components -> {"Loaded", "Idle", "Executing"}]
    /\ \A c \in Components : handle'[c] = 0 => state'[c] = "Loaded"
    /\ faults' \in 0..MaxFaults
    /\ UNCHANGED <<device, decoder, attempts, changes, closeFaults, unfreed, lame, mistaken>>
Ongoing == todo # <<>> /\ phase \in {"opening", "wiring"} /\ Stated /\ Enabling
Advancing ==
    /\ Ongoing /\ Advance
    /\ handle' = IF Calls("init") THEN [handle EXCEPT ![Subject] = attempts + 1] ELSE handle
    /\ held' = IF Calls("init") THEN held \cup {<<Subject, attempts + 1>>} ELSE held
    /\ joined' = IF Calls("setup") THEN joined \cup {Src(Subject), Dst(Subject)} ELSE joined
    /\ mTunnelSet' = IF Calls("setup") THEN mTunnelSet \cup {Subject} ELSE mTunnelSet
    /\ ends' = IF Calls("tunnel") THEN [ends EXCEPT ![Subject] = Argument] ELSE ends
    /\ mDeInterlace' = IF Calls("interlace") THEN Argument ELSE mDeInterlace
Aborting ==
    /\ Ongoing /\ Abort
    /\ handle' = IF Calls("init") THEN [handle EXCEPT ![Subject] = 0] ELSE handle
    /\ UNCHANGED <<mDeInterlace, held, joined, ends, mTunnelSet>>

LEMMA CallIs ==
    ASSUME NEW s \in AnyCall
    PROVE  /\ s[1] \in {"init", "config", "idle", "alloc", "execute", "free"} => s[2] \in Components
           /\ s[1] \in {"srcIdle", "setup", "enable", "part", "tunnel"} => s[2] \in Tunnels
           /\ s[1] = "tunnel" => s[3] \in Quads
           /\ s[1] = "interlace" => s[3] \in BOOLEAN
BY DEF AnyCall

LEMMA StateTypes ==
    ASSUME ChainInv
    PROVE  /\ state \in [Components -> {"Loaded", "Idle", "Executing"}]
           /\ handle \in [Components -> 0..MaxAttempts + 1]
           /\ \A c \in Components : handle[c] = 0 => state[c] = "Loaded"
           /\ faults \in 0..MaxFaults /\ closeFaults \in 0..MaxFaults /\ MaxFaults \in Nat /\ MaxAttempts \in Nat
BY BoundsAssumption DEF ChainInv, Typed, TypeOK

LEMMA Faulty ==
    ASSUME ChainInv
    PROVE  (Fault => faults' \in 0..MaxFaults) /\ (NoFault => faults' \in 0..MaxFaults)
BY StateTypes DEF Fault, NoFault

\* A component that has a handle may be in any state.
LEMMA StateOf ==
    ASSUME ChainInv, NEW c \in Components, handle[c] # 0, UNCHANGED handle,
           NEW x \in {"Loaded", "Idle", "Executing"}, state' = [state EXCEPT ![c] = x]
    PROVE  /\ state' \in [Components -> {"Loaded", "Idle", "Executing"}]
           /\ \A k \in Components : handle'[k] = 0 => state'[k] = "Loaded"
BY StateTypes

LEMMA StateKept ==
    ASSUME ChainInv, UNCHANGED handle, UNCHANGED state
    PROVE  /\ state' \in [Components -> {"Loaded", "Idle", "Executing"}]
           /\ \A k \in Components : handle'[k] = 0 => state'[k] = "Loaded"
BY StateTypes

\* The component that a call of a tunnel or one of open sends to another state has a handle.
LEMMA TunnelHandles ==
    ASSUME ChainInv, phase = "wiring", todo # <<>>, Head(todo)[1] \in OfTunnel
    PROVE  /\ ends[Subject][1] = Clock \/ (ends[Subject][1] \in Components /\ handle[ends[Subject][1]] # 0)
           /\ ends[Subject][3] \in Components /\ handle[ends[Subject][3]] # 0
<1>1. PICK d \in BOOLEAN : Wiring(d)
  BY DEF ChainInv, WhileWiring
<1>2. Head(todo)[1] \notin Early \cup {"config"}
  BY DEF OfTunnel, Early
<1> QED BY <1>1, <1>2, WiringHead, DeviceIs

LEMMA NotClosing ==
    ASSUME ChainInv, todo # <<>>, Head(todo)[1] \notin {"part", "free"}
    PROVE  /\ phase \in {"opening", "wiring"}
           /\ Head(todo)[1] \notin {"init", "config", "idle", "alloc", "execute"} => phase = "wiring"
           /\ Head(todo)[1] \in {"idle", "alloc"} => phase = "opening"
<1>1. phase \in {"opening", "wiring"}
  BY TodoIs DEF Busy
<1>2. phase = "opening" => Head(todo)[1] \in {"init", "config", "idle", "alloc", "execute"}
  BY OpeningIs
<1>3. phase = "wiring" => Head(todo)[1] \notin {"idle", "alloc"}
  <2> SUFFICES ASSUME phase = "wiring" PROVE Head(todo)[1] \notin {"idle", "alloc"}
    OBVIOUS
  <2>1. PICK d \in BOOLEAN : Wiring(d)
    BY DEF ChainInv, WhileWiring
  <2>2. Fits(Head(todo), d)
    BY <2>1, WiringHead
  <2> QED BY <2>2 DEF Fits
<1> QED BY <1>1, <1>2, <1>3

LEMMA NotClock ==
    ASSUME ChainInv, NEW c \in Components, NEW n
    PROVE  PortsOf(c, n) \cap ClockPorts = {} /\ \A p : Port(c, p) \notin ClockPorts
BY DeviceIs DEF PortsOf, ClockPorts, Port

LEMMA InitComponentAdvances ==
    ASSUME ChainInv, InitComponent
    PROVE  Advancing
<1>1. todo # <<>> /\ Head(todo)[1] = "init" /\ Advance /\ Calls("init")
      /\ ~Calls("setup") /\ ~Calls("tunnel") /\ ~Calls("interlace")
  BY DEF InitComponent, Calls
<1>2. Subject \in Components /\ phase \in {"opening", "wiring"}
  BY <1>1, TodoIs, CallIs, NotClosing DEF Subject
<1>3. Enabling
  <2>1. enabled' \subseteq enabled \cup PortsOf(Subject, attempts + 1)
    BY DEF InitComponent, Fault, NoFault
  <2> QED BY <1>2, <2>1, NotClock DEF Enabling
<1>4. Stated
  <2>1. handle' = [handle EXCEPT ![Subject] = attempts + 1] /\ state' = [state EXCEPT ![Subject] = "Loaded"]
        /\ UNCHANGED <<device, decoder, attempts, changes, closeFaults, unfreed, lame, mistaken>>
    BY DEF InitComponent, history
  <2>2. faults' \in 0..MaxFaults
    BY Faulty DEF InitComponent
  <2> QED BY <1>2, <2>1, <2>2, StateTypes DEF Stated
<1> QED BY <1>1, <1>2, <1>3, <1>4 DEF InitComponent, Advancing, Ongoing

LEMMA InitFailsAborts ==
    ASSUME ChainInv, InitFails
    PROVE  Aborting
<1>1. todo # <<>> /\ Head(todo)[1] = "init" /\ Abort /\ Calls("init")
  BY DEF InitFails, Calls
<1>2. Subject \in Components /\ phase \in {"opening", "wiring"}
  BY <1>1, TodoIs, CallIs, NotClosing DEF Subject
<1>3. Enabling
  BY DEF InitFails, gpuVars, Enabling
<1>4. Stated
  <2>1. handle' = [handle EXCEPT ![Subject] = 0] /\ state' = [state EXCEPT ![Subject] = "Loaded"]
        /\ UNCHANGED <<device, decoder, attempts, changes, closeFaults, unfreed, lame, mistaken>>
    BY DEF InitFails, history
  <2>2. faults' \in 0..MaxFaults
    BY Faulty DEF InitFails
  <2> QED BY <1>2, <2>1, <2>2, StateTypes DEF Stated
<1> QED BY <1>1, <1>2, <1>3, <1>4 DEF InitFails, Aborting, Ongoing, gpuVars

LEMMA ConfigureAdvances ==
    ASSUME ChainInv, Configure
    PROVE  Advancing
<1>1. todo # <<>> /\ Head(todo)[1] \in {"config", "idle"} /\ Advance /\ ~Calls("init")
      /\ ~Calls("setup") /\ ~Calls("tunnel") /\ ~Calls("interlace")
  BY DEF Configure, Calls
<1>2. Subject \in Components /\ phase \in {"opening", "wiring"}
  BY <1>1, TodoIs, CallIs, NotClosing DEF Subject
<1>3. UNCHANGED <<device, decoder, attempts, changes, closeFaults, unfreed, lame, mistaken>>
      /\ UNCHANGED <<mDeInterlace, handle, ends, mTunnelSet, held, joined, enabled>>
  BY DEF Configure, history, gpuVars
<1>4. Stated
  <2>1. CASE Calls("idle")
    <3>1. phase = "opening" /\ Subject = "decoder" /\ handle[Subject] # 0
      <4>1. Head(todo)[1] = "idle"
        BY <2>1 DEF Calls
      <4>2. phase = "opening"
        BY <1>1, <4>1, NotClosing
      <4> QED BY <4>1, <4>2, OpeningIs
    <3>2. state' = [state EXCEPT ![Subject] = "Idle"]
      BY <2>1 DEF Configure
    <3> QED BY <1>2, <1>3, <3>1, <3>2, StateOf, Faulty DEF Stated, Configure
  <2>2. CASE ~Calls("idle")
    <3>1. state' = state
      BY <2>2 DEF Configure
    <3> QED BY <1>3, <3>1, StateKept, Faulty DEF Stated, Configure
  <2> QED BY <2>1, <2>2
<1>5. Enabling
  BY <1>3 DEF Enabling
<1> QED BY <1>1, <1>2, <1>3, <1>4, <1>5 DEF Advancing, Ongoing

LEMMA ChooseInterlaceAdvances ==
    ASSUME ChainInv, ChooseInterlace
    PROVE  Advancing
<1>1. todo # <<>> /\ Head(todo)[1] = "interlace" /\ Advance /\ ~Calls("init") /\ Calls("interlace")
      /\ ~Calls("setup") /\ ~Calls("tunnel")
  BY DEF ChooseInterlace, Calls
<1>2. phase \in {"opening", "wiring"}
  BY <1>1, NotClosing
<1>3. UNCHANGED <<device, decoder, attempts, changes, closeFaults, unfreed, lame, mistaken>>
      /\ UNCHANGED <<handle, state, ends, mTunnelSet, held, joined, enabled>>
  BY DEF ChooseInterlace, history, gpuVars
<1>4. Stated
  BY <1>3, StateKept, Faulty DEF Stated, ChooseInterlace
<1>5. Enabling
  BY <1>3 DEF Enabling
<1> QED BY <1>1, <1>2, <1>3, <1>4, <1>5 DEF Advancing, Ongoing, ChooseInterlace

LEMMA InitTunnelAdvances ==
    ASSUME ChainInv, InitTunnel
    PROVE  Advancing
<1>1. todo # <<>> /\ Head(todo)[1] = "tunnel" /\ Advance /\ ~Calls("init") /\ ~Calls("interlace")
      /\ ~Calls("setup") /\ Calls("tunnel")
  BY DEF InitTunnel, Calls
<1>2. phase \in {"opening", "wiring"}
  BY <1>1, NotClosing
<1>3. UNCHANGED <<device, decoder, attempts, changes, closeFaults, unfreed, lame, mistaken>>
      /\ UNCHANGED <<mDeInterlace, handle, state, mTunnelSet, held, joined, enabled>>
  BY DEF InitTunnel, history, gpuVars
<1>4. Stated
  BY <1>3, StateKept, Faulty DEF Stated, InitTunnel
<1>5. Enabling
  BY <1>3 DEF Enabling
<1> QED BY <1>1, <1>2, <1>3, <1>4, <1>5 DEF Advancing, Ongoing, InitTunnel

LEMMA AllocInputBuffersAdvances ==
    ASSUME ChainInv, AllocInputBuffers
    PROVE  Advancing
<1>1. todo # <<>> /\ Head(todo)[1] = "alloc" /\ Advance /\ ~Calls("init") /\ ~Calls("interlace")
      /\ ~Calls("setup") /\ ~Calls("tunnel")
  BY DEF AllocInputBuffers, Calls
<1>2. phase = "opening" /\ Subject = "decoder" /\ handle[Subject] # 0 /\ Subject \in Components
  <2>1. phase = "opening"
    BY <1>1, NotClosing
  <2> QED BY <1>1, <2>1, OpeningIs DEF Components
<1>3. UNCHANGED <<device, decoder, attempts, changes, closeFaults, unfreed, lame, mistaken>>
      /\ UNCHANGED <<mDeInterlace, handle, ends, mTunnelSet, held, joined>>
  BY DEF AllocInputBuffers, history
<1>4. Stated
  <2>1. faults' \in 0..MaxFaults
    BY Faulty DEF AllocInputBuffers
  <2>2. CASE state' = [state EXCEPT ![Subject] = "Idle"]
    BY <1>2, <1>3, <2>1, <2>2, StateOf DEF Stated
  <2>3. CASE UNCHANGED state
    BY <1>3, <2>1, <2>3, StateKept DEF Stated
  <2> QED BY <2>2, <2>3 DEF AllocInputBuffers
<1>5. Enabling
  <2>1. enabled' = enabled \cup {Port(Subject, "in")}
    BY DEF AllocInputBuffers
  <2> QED BY <1>2, <2>1, NotClock DEF Enabling
<1> QED BY <1>1, <1>2, <1>3, <1>4, <1>5 DEF Advancing, Ongoing

LEMMA ExecuteAdvances ==
    ASSUME ChainInv, Execute
    PROVE  Advancing
<1>1. todo # <<>> /\ Head(todo)[1] = "execute" /\ Advance /\ ~Calls("init") /\ ~Calls("interlace")
      /\ ~Calls("setup") /\ ~Calls("tunnel")
  BY DEF Execute, Calls
<1>2. Subject \in Components /\ phase \in {"opening", "wiring"}
  BY <1>1, TodoIs, CallIs, NotClosing DEF Subject
<1>3. UNCHANGED <<device, decoder, attempts, changes, closeFaults, unfreed, lame, mistaken>>
      /\ UNCHANGED <<mDeInterlace, handle, ends, mTunnelSet, held, joined, enabled>>
  BY DEF Execute, history, gpuVars
<1>4. Stated
  <2>1. handle[Subject] # 0 /\ state' = [state EXCEPT ![Subject] = "Executing"]
    BY <1>2, StateTypes DEF Execute
  <2> QED BY <1>2, <1>3, <2>1, StateOf, Faulty DEF Stated, Execute
<1>5. Enabling
  BY <1>3 DEF Enabling
<1> QED BY <1>1, <1>2, <1>3, <1>4, <1>5 DEF Advancing, Ongoing

LEMMA SourceIdleAdvances ==
    ASSUME ChainInv, SourceIdle
    PROVE  Advancing
<1>1. todo # <<>> /\ Head(todo)[1] = "srcIdle" /\ Advance /\ ~Calls("init") /\ ~Calls("interlace")
      /\ ~Calls("setup") /\ ~Calls("tunnel")
  BY DEF SourceIdle, Calls
<1>2. phase = "wiring"
  BY <1>1, NotClosing
<1>3. UNCHANGED <<device, decoder, attempts, changes, closeFaults, unfreed, lame, mistaken>>
      /\ UNCHANGED <<mDeInterlace, handle, ends, mTunnelSet, held, joined, enabled>>
  BY DEF SourceIdle, history, gpuVars
<1>4. Stated
  <2> DEFINE c == ends[Subject][1]
  <2>1. c = Clock \/ (c \in Components /\ handle[c] # 0)
    BY <1>1, <1>2, TunnelHandles DEF OfTunnel
  <2>2. state' = IF c # Clock /\ state[c] = "Loaded" THEN [state EXCEPT ![c] = "Idle"] ELSE state
    BY DEF SourceIdle
  <2> HIDE DEF c
  <2>3. CASE c # Clock /\ state[c] = "Loaded"
    BY <1>3, <2>1, <2>2, <2>3, StateOf, Faulty DEF Stated, SourceIdle
  <2>4. CASE ~(c # Clock /\ state[c] = "Loaded")
    BY <1>3, <2>2, <2>4, StateKept, Faulty DEF Stated, SourceIdle
  <2> QED BY <2>3, <2>4
<1>5. Enabling
  BY <1>3 DEF Enabling
<1> QED BY <1>1, <1>2, <1>3, <1>4, <1>5 DEF Advancing, Ongoing

LEMMA SetupTunnelAdvances ==
    ASSUME ChainInv, SetupTunnel
    PROVE  Advancing
<1>1. todo # <<>> /\ Head(todo)[1] = "setup" /\ Advance /\ ~Calls("init") /\ ~Calls("interlace")
      /\ Calls("setup") /\ ~Calls("tunnel")
  BY DEF SetupTunnel, Calls
<1>2. phase = "wiring"
  BY <1>1, NotClosing
<1>3. UNCHANGED <<device, decoder, attempts, changes, closeFaults, unfreed, lame, mistaken>>
      /\ UNCHANGED <<mDeInterlace, handle, state, ends, held, enabled>>
      /\ joined' = joined \cup {Src(Subject), Dst(Subject)} /\ mTunnelSet' = mTunnelSet \cup {Subject}
  BY DEF SetupTunnel, history, Set
<1>4. Stated
  BY <1>3, StateKept, Faulty DEF Stated, SetupTunnel
<1>5. Enabling
  BY <1>3 DEF Enabling
<1> QED BY <1>1, <1>2, <1>3, <1>4, <1>5 DEF Advancing, Ongoing

LEMMA EnableKeepsClock ==
    ASSUME ChainInv, phase = "wiring", todo # <<>>, Head(todo)[1] = "enable",
           enabled' \subseteq enabled \cup {Src(Subject), Dst(Subject)}
    PROVE  Enabling
<1>1. ends[Subject][3] \in Components
  BY TunnelHandles DEF OfTunnel
<1>2. Dst(Subject) \notin ClockPorts
  BY <1>1, NotClock DEF Dst
<1> QED BY <1>2 DEF Enabling, Calls

LEMMA EnablePortsAdvances ==
    ASSUME ChainInv, EnablePorts
    PROVE  Advancing
<1>1. todo # <<>> /\ Head(todo)[1] = "enable" /\ Advance /\ ~Calls("init") /\ ~Calls("interlace")
      /\ ~Calls("setup") /\ ~Calls("tunnel")
  BY DEF EnablePorts, Calls
<1>2. phase = "wiring"
  BY <1>1, NotClosing
<1>3. UNCHANGED <<device, decoder, attempts, changes, closeFaults, unfreed, lame, mistaken>>
      /\ UNCHANGED <<mDeInterlace, handle, ends, mTunnelSet, held, joined>>
  BY DEF EnablePorts, history
<1>4. Stated
  <2> DEFINE c == ends[Subject][3]
  <2>1. c \in Components /\ handle[c] # 0
    BY <1>1, <1>2, TunnelHandles DEF OfTunnel
  <2>2. state' = IF state[c] = "Loaded" THEN [state EXCEPT ![c] = "Idle"] ELSE state
    BY DEF EnablePorts, DestinationIdle
  <2> HIDE DEF c
  <2>3. CASE state[c] = "Loaded"
    BY <1>3, <2>1, <2>2, <2>3, StateOf, Faulty DEF Stated, EnablePorts
  <2>4. CASE state[c] # "Loaded"
    BY <1>3, <2>2, <2>4, StateKept, Faulty DEF Stated, EnablePorts
  <2> QED BY <2>3, <2>4
<1>5. Enabling
  BY <1>1, <1>2, EnableKeepsClock DEF EnablePorts
<1> QED BY <1>1, <1>2, <1>3, <1>4, <1>5 DEF Advancing, Ongoing

LEMMA EnableFailsAborts ==
    ASSUME ChainInv, EnableFails
    PROVE  Aborting
<1>1. todo # <<>> /\ Head(todo)[1] = "enable" /\ Abort /\ ~Calls("init")
  BY DEF EnableFails, Calls
<1>2. phase = "wiring"
  BY <1>1, NotClosing
<1>3. UNCHANGED <<device, decoder, attempts, changes, closeFaults, unfreed, lame, mistaken>>
      /\ UNCHANGED <<mDeInterlace, handle, ends, mTunnelSet, held, joined>>
  BY DEF EnableFails, history
<1>4. Stated
  <2> DEFINE c == ends[Subject][3]
  <2>1. c \in Components /\ handle[c] # 0
    BY <1>1, <1>2, TunnelHandles DEF OfTunnel
  <2>2. UNCHANGED state \/ state' = [state EXCEPT ![c] = "Idle"]
    BY DEF EnableFails
  <2>3. faults' \in 0..MaxFaults
    BY Faulty DEF EnableFails
  <2> HIDE DEF c
  <2>4. CASE state' = [state EXCEPT ![c] = "Idle"]
    BY <1>3, <2>1, <2>3, <2>4, StateOf DEF Stated
  <2>5. CASE UNCHANGED state
    BY <1>3, <2>3, <2>5, StateKept DEF Stated
  <2> QED BY <2>2, <2>4, <2>5
<1>5. Enabling
  <2>1. enabled' \subseteq enabled \cup {Src(Subject), Dst(Subject)}
    BY DEF EnableFails
  <2> QED BY <1>1, <1>2, <2>1, EnableKeepsClock
<1> QED BY <1>1, <1>2, <1>3, <1>4, <1>5 DEF Aborting, Ongoing

LEMMA CallFailsAborts ==
    ASSUME ChainInv, CallFails
    PROVE  Aborting
<1>1. todo # <<>> /\ Head(todo)[1] \in {"config", "idle", "alloc", "execute", "srcIdle", "setup"} /\ Abort /\ ~Calls("init")
  BY DEF CallFails, Calls
<1>2. phase \in {"opening", "wiring"}
  BY <1>1, NotClosing
<1>3. UNCHANGED <<device, decoder, attempts, changes, closeFaults, unfreed, lame, mistaken>>
      /\ UNCHANGED <<mDeInterlace, handle, state, ends, mTunnelSet, held, joined, enabled>>
  BY DEF CallFails, history, gpuVars
<1>4. Stated
  <2>1. faults' \in 0..MaxFaults
    BY Faulty DEF CallFails
  <2> QED BY <1>3, <2>1, StateKept DEF Stated
<1>5. Enabling
  BY <1>3 DEF Enabling
<1> QED BY <1>1, <1>2, <1>3, <1>4, <1>5 DEF Aborting, Ongoing

LEMMA DeviceFixed ==
    ASSUME UNCHANGED device
    PROVE  /\ IsVideo' <=> IsVideo
           /\ Chain' = Chain /\ ChainTunnels' = ChainTunnels
           /\ \A d : Members(d)' = Members(d)
           /\ \A t, quad : Shape(t, quad)' <=> Shape(t, quad)
           /\ \A s, d : Fits(s, d)' <=> Fits(s, d)
<1>1. (IsVideo' <=> IsVideo) /\ (Both' <=> Both) /\ Renders' = Renders
  BY DEF IsVideo, Both, Renders
<1>2. Chain' = Chain /\ ChainTunnels' = ChainTunnels
  BY <1>1 DEF Chain, ChainTunnels
<1>3. \A d : Members(d)' = Members(d)
  BY <1>1 DEF Members
<1>4. \A t, quad : Shape(t, quad)' <=> Shape(t, quad)
  BY <1>1 DEF Shape, FromClock, ClockPort
<1>5. \A s, d : Fits(s, d)' <=> Fits(s, d)
  BY <1>1, <1>2, <1>3, <1>4 DEF Fits
<1> QED BY <1>1, <1>2, <1>3, <1>4, <1>5

\* The call a step of Advancing made, in open and in srcChanged.
LEMMA AdvancingIs ==
    ASSUME ChainInv, Advancing
    PROVE  /\ todo # <<>> /\ todo' = Tail(todo) /\ attempts' = attempts /\ UNCHANGED device
           /\ phase \in {"opening", "wiring"}
           /\ \/ phase' = phase /\ Tail(todo) # <<>>
              \/ phase' = "open" /\ Tail(todo) = <<>>
           /\ phase = "opening" => UNCHANGED <<joined, mTunnelSet, ends, mDeInterlace>>
           /\ Calls("init") => Subject \in Components
<1>1. /\ todo # <<>> /\ todo' = Tail(todo) /\ attempts' = attempts /\ UNCHANGED device
      /\ phase \in {"opening", "wiring"}
      /\ \/ phase' = phase /\ Tail(todo) # <<>>
         \/ phase' = "open" /\ Tail(todo) = <<>>
  BY DEF Advancing, Ongoing, Advance, Stated
<1>2. phase = "opening" => UNCHANGED <<joined, mTunnelSet, ends, mDeInterlace>>
  BY OpeningIs DEF Advancing, Calls
<1>3. Calls("init") => Subject \in Components
  BY <1>1, TodoIs, CallIs DEF Calls, Subject
<1> QED BY <1>1, <1>2, <1>3

LEMMA AdvancingTyped ==
    ASSUME ChainInv, Advancing
    PROVE  Typed'
<1>1. TypeOK /\ BoundsAssumption
  BY BoundsAssumption DEF ChainInv, Typed
<1>2. /\ todo # <<>> /\ todo' = Tail(todo) /\ attempts' = attempts /\ UNCHANGED device
      /\ phase \in {"opening", "wiring"}
      /\ \/ phase' = phase /\ Tail(todo) # <<>>
         \/ phase' = "open" /\ Tail(todo) = <<>>
  BY AdvancingIs
<1>3. todo' \in Seq(AnyCall) /\ Head(todo) \in AnyCall
  BY <1>2, TodoIs
<1>4. phase' \in Busy \cup {"new", "open", "closed", "refused", "crashed"} /\ (todo' # <<>>) = (phase' \in Busy)
  BY <1>2 DEF Busy
<1>5. result' \in {"none", "true", "false"} /\ {decoder', refused', mDeInterlace', lame', mistaken'} \subseteq BOOLEAN
  <2>1. mDeInterlace' \in BOOLEAN
    BY <1>1, <1>3, CallIs DEF Advancing, Argument, Calls, TypeOK
  <2> QED BY <1>1, <2>1 DEF TypeOK, Advancing, Advance, Ongoing, Stated
<1>6. handle' \in [Components -> 0..MaxAttempts + 1] /\ attempts' \in 0..MaxAttempts
  <2>1. attempts \in 0..MaxAttempts /\ MaxAttempts \in Nat
    BY BoundsAssumption DEF ChainInv, Typed
  <2> QED BY <1>1, <1>2, <2>1, AdvancingIs DEF TypeOK, Advancing
<1>7. /\ state' \in [Components -> {"Loaded", "Idle", "Executing"}]
      /\ \A c \in Components : handle'[c] = 0 => state'[c] = "Loaded"
      /\ faults' \in 0..MaxFaults /\ closeFaults' \in 0..MaxFaults
  BY <1>1 DEF Advancing, Ongoing, Stated, TypeOK
<1>8. mTunnelSet' \subseteq ChainTunnels
  <2>1. CASE Calls("setup")
    <3>1. phase = "wiring" /\ Head(todo)[1] = "setup"
      BY <1>2, <2>1, NotClosing DEF Calls
    <3>2. PICK d \in BOOLEAN : Wiring(d)
      BY <3>1 DEF ChainInv, WhileWiring
    <3>3. Subject \in ChainTunnels
      BY <3>1, <3>2, WiringHead DEF OfTunnel
    <3> QED BY <2>1, <3>3 DEF Advancing, ChainInv, Typed
  <2>2. CASE ~Calls("setup")
    BY <2>2 DEF Advancing, ChainInv, Typed
  <2> QED BY <2>1, <2>2
<1>9. held' \subseteq Components \X (1..MaxAttempts + 1)
  <2>1. attempts \in 0..MaxAttempts /\ MaxAttempts \in Nat
    BY BoundsAssumption DEF ChainInv, Typed
  <2>2. attempts + 1 \in 1..MaxAttempts + 1
    BY <2>1
  <2> QED BY <1>1, <2>2, AdvancingIs DEF TypeOK, Advancing
<1>10. ends' \in [Tunnels -> Quads \cup {NoEnds}] /\ \A t \in Tunnels : ends'[t] = NoEnds \/ Shape(t, ends'[t])
  <2>1. CASE Calls("tunnel")
    <3>1. phase = "wiring" /\ Head(todo)[1] = "tunnel"
      BY <1>2, <2>1, NotClosing DEF Calls
    <3>2. PICK d \in BOOLEAN : Wiring(d)
      BY <3>1 DEF ChainInv, WhileWiring
    <3>3. Fits(Head(todo), d)
      BY <3>1, <3>2, WiringHead
    <3>4. Shape(Subject, Argument)
      BY <3>1, <3>3 DEF Fits, Subject, Argument
    <3>5. ends \in [Tunnels -> Quads \cup {NoEnds}] /\ \A t \in Tunnels : ends[t] = NoEnds \/ Shape(t, ends[t])
      BY DEF ChainInv, Typed
    <3>6. Argument \in Quads
      BY <3>4 DEF Shape
    <3>7. ends' = [ends EXCEPT ![Subject] = Argument]
      BY <2>1 DEF Advancing
    <3> QED BY <3>4, <3>5, <3>6, <3>7
  <2>2. CASE ~Calls("tunnel")
    BY <2>2 DEF Advancing, ChainInv, Typed
  <2> QED BY <2>1, <2>2
<1>11. ~IsVideo => ~mDeInterlace'
  <2>1. CASE Calls("interlace")
    <3>1. phase = "wiring" /\ Head(todo)[1] = "interlace"
      BY <1>2, <2>1, NotClosing DEF Calls
    <3>2. PICK d \in BOOLEAN : Wiring(d)
      BY <3>1 DEF ChainInv, WhileWiring
    <3> QED BY <3>1, <3>2, WiringHead DEF Fits
  <2>2. CASE ~Calls("interlace")
    BY <2>2 DEF Advancing, ChainInv, Typed
  <2> QED BY <2>1, <2>2
<1>12. mTunnelSet' \subseteq Tunnels
  BY <1>8, DeviceIs
<1>15. unfreed' \subseteq Components \X (1..MaxAttempts + 1)
  BY <1>1 DEF TypeOK, Advancing, Ongoing, Stated
<1>13. TypeOK'
  BY <1>4, <1>5, <1>6, <1>7, <1>9, <1>12, <1>15 DEF TypeOK, Busy
<1>14. device' \in {"none", "anal", "hdmi", "both"}
  BY <1>2, DeviceIs
<1> QED BY <1>2, <1>3, <1>6, <1>8, <1>10, <1>11, <1>13, <1>14, DeviceFixed DEF Typed

LEMMA SerialBound ==
    ASSUME ChainInv, NEW c \in Components \cup {Clock}
    PROVE  Serial(c) \in Nat /\ Serial(c) <= attempts + 1
<1>1. c \in Components => handle[c] \in Nat /\ handle[c] <= attempts + 1
  BY DeviceIs DEF ChainInv, Numbered
<1>2. attempts \in Nat
  BY DeviceIs
<1> QED BY <1>1, <1>2 DEF Serial

LEMMA AdvancingNumbered ==
    ASSUME ChainInv, Advancing
    PROVE  Numbered'
<1>1. /\ todo # <<>> /\ attempts' = attempts /\ attempts \in Nat /\ phase \in {"opening", "wiring"} /\ UNCHANGED device
  BY AdvancingIs, DeviceIs
<1>2. /\ \A c \in Components : handle[c] <= attempts + 1 /\ (handle[c] # 0 => <<c, handle[c]>> \in held)
      /\ \A c \in Components \ {"decoder"} : handle[c] # 1
      /\ handle["decoder"] \in {0, 1}
      /\ \A h \in held : h[1] \in Chain /\ h[2] <= attempts + 1 /\ (h[1] = "decoder" => h[2] = 1)
      /\ \A p \in joined : p[2] \in Nat /\ p[2] <= attempts + 1
  BY DEF ChainInv, Numbered
<1>3. handle \in [Components -> 0..MaxAttempts + 1] /\ "decoder" \in Components
  BY StateTypes DEF Components
<1>4. Calls("init") => Subject \in Chain /\ Subject \in Components /\ (Subject = "decoder" => attempts = 0) /\ (Subject # "decoder" => attempts # 0)
  <2> SUFFICES ASSUME Calls("init")
               PROVE  Subject \in Chain /\ Subject \in Components /\ (Subject = "decoder" => attempts = 0) /\ (Subject # "decoder" => attempts # 0)
    OBVIOUS
  <2>1. CASE phase = "opening"
    <3>1. Subject = "decoder" /\ attempts = 0
      BY <2>1, OpeningIs
    <3> QED BY <1>3, <3>1 DEF Chain
  <2>2. CASE phase = "wiring"
    <3>1. PICK d \in BOOLEAN : Wiring(d)
      BY <2>2 DEF ChainInv, WhileWiring
    <3>2. Subject \in Members(d) \ {"decoder"} /\ attempts # 0
      BY <2>2, <3>1, WiringHead DEF Calls, Wiring
    <3> QED BY <3>2, DeviceIs
  <2> QED BY <1>1, <2>1, <2>2
<1>5. \A c \in Components : handle'[c] <= attempts + 1 /\ (handle'[c] # 0 => <<c, handle'[c]>> \in held')
  <2>1. CASE Calls("init")
    <3>1. handle' = [handle EXCEPT ![Subject] = attempts + 1] /\ held' = held \cup {<<Subject, attempts + 1>>}
      BY <2>1 DEF Advancing
    <3> QED BY <1>1, <1>2, <1>3, <3>1
  <2>2. CASE ~Calls("init")
    <3>1. handle' = handle /\ held' = held
      BY <2>2 DEF Advancing
    <3> QED BY <1>2, <3>1
  <2> QED BY <2>1, <2>2
<1>6. /\ \A c \in Components \ {"decoder"} : handle'[c] # 1
      /\ handle'["decoder"] \in {0, 1}
  <2>1. CASE Calls("init")
    <3>1. handle' = [handle EXCEPT ![Subject] = attempts + 1]
      BY <2>1 DEF Advancing
    <3> QED BY <1>1, <1>2, <1>3, <1>4, <2>1, <3>1
  <2>2. CASE ~Calls("init")
    <3>1. handle' = handle
      BY <2>2 DEF Advancing
    <3> QED BY <1>2, <3>1
  <2> QED BY <2>1, <2>2
<1>7. \A h \in held' : h[1] \in Chain /\ h[2] <= attempts + 1 /\ (h[1] = "decoder" => h[2] = 1)
  <2>1. CASE Calls("init")
    <3>1. held' = held \cup {<<Subject, attempts + 1>>}
      BY <2>1 DEF Advancing
    <3> QED BY <1>1, <1>2, <1>4, <2>1, <3>1
  <2>2. CASE ~Calls("init")
    <3>1. held' = held
      BY <2>2 DEF Advancing
    <3> QED BY <1>2, <3>1
  <2> QED BY <2>1, <2>2
<1>8. \A p \in joined' : p[2] \in Nat /\ p[2] <= attempts + 1
  <2>1. CASE Calls("setup")
    <3>1. phase = "wiring" /\ Head(todo)[1] = "setup" /\ Head(todo)[1] \in OfTunnel
      BY <1>1, <2>1, NotClosing DEF Calls, OfTunnel
    <3>2. PICK d \in BOOLEAN : Wiring(d)
      BY <3>1 DEF ChainInv, WhileWiring
    <3>3. ends[Subject][1] \in Components \cup {Clock} /\ ends[Subject][3] \in Components
      BY <3>1, <3>2, WiringHead, DeviceIs
    <3>4. \A p \in {Src(Subject), Dst(Subject)} : p[2] \in Nat /\ p[2] <= attempts + 1
      BY <3>3, SrcDst, SerialBound
    <3>5. joined' = joined \cup {Src(Subject), Dst(Subject)}
      BY <2>1 DEF Advancing
    <3> QED BY <1>2, <3>4, <3>5
  <2>2. CASE ~Calls("setup")
    BY <1>2, <2>2 DEF Advancing
  <2> QED BY <2>1, <2>2
<1> QED BY <1>1, <1>5, <1>6, <1>7, <1>8, DeviceFixed DEF Numbered

LEMMA AdvancingBefore ==
    ASSUME ChainInv, Advancing
    PROVE  Before'
<1>1. phase' # "new"
  BY AdvancingIs
<1> SUFFICES ASSUME phase' = "opening"
             PROVE  /\ attempts' = 0 /\ joined' = {} /\ enabled' \cap ClockPorts = {} /\ mTunnelSet' = {}
                    /\ InOrder(todo') /\ OnlyDecoder'
                    /\ \A s \in Items(todo') : s[1] \in {"init", "config", "idle", "alloc", "execute"} /\ s[2] = "decoder"
                    /\ handle'["decoder"] # 0 \/ Head(todo')[1] = "init"
                    /\ "decoder" \in Subjects(todo', "init") => held' = {}
  BY <1>1 DEF Before, ClockPorts, PortsOf
<1>2. /\ phase = "opening" /\ todo' = Tail(todo) /\ attempts' = attempts /\ UNCHANGED <<joined, mTunnelSet>>
  BY AdvancingIs
<1>3. enabled' \cap ClockPorts = {}
  <2>1. ~Calls("enable")
    BY <1>2, OpeningIs DEF Calls
  <2> QED BY <1>2, <2>1, OpeningIs DEF Advancing, Ongoing, Enabling
<1>4. OnlyDecoder' /\ handle'["decoder"] # 0 /\ ("decoder" \in Subjects(todo', "init") => held' = {})
  <2>1. CASE Calls("init")
    <3>1. handle' = [handle EXCEPT !["decoder"] = attempts + 1] /\ held' = held \cup {<<"decoder", attempts + 1>>}
      BY <1>2, <2>1, OpeningIs DEF Advancing
    <3>2. handle'["decoder"] # 0
      <4>1. handle \in [Components -> 0..MaxAttempts + 1] /\ "decoder" \in Components /\ attempts \in Nat
        BY StateTypes, DeviceIs DEF Components
      <4> QED BY <3>1, <4>1
    <3>3. held = {} /\ "decoder" \notin Subjects(Tail(todo), "init")
      BY <1>2, <2>1, OpeningIs DEF Calls
    <3> QED BY <1>2, <3>1, <3>2, <3>3 DEF OnlyDecoder
  <2>2. CASE ~Calls("init")
    <3>1. handle' = handle /\ held' = held
      BY <2>2 DEF Advancing
    <3>2. Head(todo)[1] # "init"
      BY <1>2, <2>2, OpeningIs DEF Calls
    <3> QED BY <1>2, <3>1, <3>2, OpeningIs DEF OnlyDecoder
  <2> QED BY <2>1, <2>2
<1> QED BY <1>2, <1>3, <1>4, OpeningIs

\* A call of a wiring, also the last one.
LEMMA WiringGoesOn ==
    ASSUME ChainInv, Advancing, phase = "wiring", NEW d \in BOOLEAN, Wiring(d)
    PROVE  Wiring(d)'
<1>1. /\ phase = "wiring" /\ todo # <<>> /\ todo' = Tail(todo) /\ attempts' = attempts /\ UNCHANGED device
  BY AdvancingIs
<1>2. Wiring(d)
  OBVIOUS
<1>3. todo \in Seq(AnyCall) /\ handle \in [Components -> 0..MaxAttempts + 1] /\ attempts \in Nat
  BY <1>1, TodoIs, StateTypes, DeviceIs
<1>4. InOrder(todo') /\ \A s \in Items(todo') : Fits(s, d)
  BY <1>1, <1>2, WiringHead
<1>5. handle'["decoder"] # 0 /\ attempts' # 0
  <2>1. handle["decoder"] # 0 /\ attempts # 0 /\ "decoder" \in Components
    BY <1>2 DEF Wiring, Components
  <2>2. CASE Calls("init")
    <3>1. Subject # "decoder" /\ handle' = [handle EXCEPT ![Subject] = attempts + 1]
      BY <1>1, <1>2, <2>2, WiringHead DEF Calls, Advancing
    <3> QED BY <1>1, <1>3, <2>1, <3>1
  <2>3. CASE ~Calls("init")
    BY <1>1, <2>1, <2>3 DEF Advancing
  <2> QED BY <2>2, <2>3
<1>6. \A c \in Members(d) \ {"decoder"} : c \in Subjects(todo', "init") \/ handle'[c] = attempts + 1
  <2> SUFFICES ASSUME NEW c \in Members(d) \ {"decoder"}, c \notin Subjects(todo', "init") PROVE handle'[c] = attempts + 1
    OBVIOUS
  <2>1. c \in Components
    BY DeviceIs
  <2>2. c \in Subjects(todo, "init") => Head(todo)[1] = "init" /\ Subject = c
    BY <1>1, <1>3, SubjectsOfTail DEF Subject
  <2>3. c \in Subjects(todo, "init") \/ handle[c] = attempts + 1
    BY <1>2 DEF Wiring
  <2>4. CASE Calls("init")
    <3>1. handle' = [handle EXCEPT ![Subject] = attempts + 1]
      BY <2>4 DEF Advancing
    <3> QED BY <1>3, <2>1, <2>2, <2>3, <3>1
  <2>5. CASE ~Calls("init")
    <3>1. handle' = handle /\ Head(todo)[1] # "init"
      BY <1>1, <2>5 DEF Advancing, Calls
    <3> QED BY <2>2, <2>3, <3>1
  <2> QED BY <2>4, <2>5
<1>7. \A c \in Subjects(todo', "init") : <<c, attempts + 1>> \notin held'
  <2> SUFFICES ASSUME NEW c \in Subjects(todo', "init") PROVE <<c, attempts + 1>> \notin held'
    OBVIOUS
  <2>1. c \in Subjects(todo, "init")
    BY <1>1, <1>3, SubjectsOfTail
  <2>2. <<c, attempts + 1>> \notin held
    BY <1>2, <2>1 DEF Wiring
  <2>3. Calls("init") => Subject # c
    BY <1>1, <1>2, WiringHead DEF Calls
  <2>4. CASE Calls("init")
    <3>1. held' = held \cup {<<Subject, attempts + 1>>}
      BY <2>4 DEF Advancing
    <3> QED BY <2>2, <2>3, <2>4, <3>1
  <2>5. CASE ~Calls("init")
    BY <2>2, <2>5 DEF Advancing
  <2> QED BY <2>4, <2>5
<1>8. (\E s \in Items(todo') : s[1] \in Early) => \A p \in joined' : p[2] <= attempts
  <2> SUFFICES ASSUME NEW s \in Items(todo'), s[1] \in Early PROVE \A p \in joined' : p[2] <= attempts
    OBVIOUS
  <2>1. s \in Items(todo)
    BY <1>1, TodoIs
  <2>2. \A p \in joined : p[2] <= attempts
    BY <1>2, <2>1 DEF Wiring
  <2>3. ~Calls("setup")
    <3> SUFFICES ASSUME Head(todo)[1] = "setup" PROVE FALSE
      BY DEF Calls
    <3>1. "setup" \notin Early \cup {"config"}
      BY DEF Early
    <3> QED BY <1>1, <1>2, <2>1, <3>1, WiringHead
  <2> QED BY <2>2, <2>3 DEF Advancing
<1>9. \A t \in Tunnels : After(todo', {"enable"}, "setup", t, t \in mTunnelSet')
  <2> SUFFICES ASSUME NEW t \in Tunnels PROVE After(todo', {"enable"}, "setup", t, t \in mTunnelSet')
    OBVIOUS
  <2>1. After(todo, {"enable"}, "setup", t, t \in mTunnelSet)
    BY <1>2 DEF Wiring
  <2>2. t \in mTunnelSet => t \in mTunnelSet'
    BY DEF Advancing
  <2>3. Head(todo)[1] = "setup" /\ Head(todo)[2] = t => t \in mTunnelSet'
    BY <1>1 DEF Advancing, Calls, Subject
  <2>4. After(Tail(todo), {"enable"}, "setup", t, t \in mTunnelSet')
    BY <1>1, <1>3, <2>1, <2>2, <2>3, AfterTail
  <2> QED BY <1>1, <2>4
<1>10. \A t \in Tunnels :
          After(todo', OfTunnel, "tunnel", t, ends'[t][1] \in Members(d) \cup {Clock} /\ ends'[t][3] \in Members(d))
  <2> SUFFICES ASSUME NEW t \in Tunnels
               PROVE  After(todo', OfTunnel, "tunnel", t, ends'[t][1] \in Members(d) \cup {Clock} /\ ends'[t][3] \in Members(d))
    OBVIOUS
  <2> DEFINE done == ends[t][1] \in Members(d) \cup {Clock} /\ ends[t][3] \in Members(d)
             later == ends'[t][1] \in Members(d) \cup {Clock} /\ ends'[t][3] \in Members(d)
  <2>1. After(todo, OfTunnel, "tunnel", t, done)
    BY <1>2 DEF Wiring
  <2>2. ends \in [Tunnels -> Quads \cup {NoEnds}]
    BY DEF ChainInv, Typed
  <2>3. Head(todo)[1] = "tunnel" /\ Head(todo)[2] = t => later
    <3> SUFFICES ASSUME Head(todo)[1] = "tunnel", Head(todo)[2] = t PROVE later
      OBVIOUS
    <3>0. Calls("tunnel") /\ Subject = t
      BY <1>1 DEF Calls, Subject
    <3>1. ends' = [ends EXCEPT ![t] = Argument]
      BY <3>0 DEF Advancing
    <3>2. Argument[1] \in Members(d) \cup {Clock} /\ Argument[3] \in Members(d)
      BY <1>1, <1>2, WiringHead DEF Fits, Argument
    <3> QED BY <2>2, <3>1, <3>2
  <2>4. done => later
    <3>1. CASE Calls("tunnel") /\ Subject = t
      BY <2>3, <3>1 DEF Calls, Subject
    <3>2. CASE ~(Calls("tunnel") /\ Subject = t)
      <4>1. ends'[t] = ends[t]
        BY <2>2, <3>2 DEF Advancing
      <4> QED BY <4>1
    <3> QED BY <3>1, <3>2
  <2> HIDE DEF done, later
  <2>5. After(Tail(todo), OfTunnel, "tunnel", t, later)
    BY <1>1, <1>3, <2>1, <2>3, <2>4, AfterTail
  <2> QED BY <1>1, <2>5 DEF later
<1>11. IsVideo => mDeInterlace' = d \/ \E s \in Items(todo') : s[1] = "interlace"
  <2> SUFFICES ASSUME IsVideo, ~\E s \in Items(todo') : s[1] = "interlace" PROVE mDeInterlace' = d
    OBVIOUS
  <2>1. mDeInterlace = d \/ \E s \in Items(todo) : s[1] = "interlace"
    BY <1>2 DEF Wiring
  <2>2. mDeInterlace = d \/ Head(todo)[1] = "interlace"
    BY <1>1, <2>1, TodoIs
  <2>3. CASE Head(todo)[1] = "interlace"
    <3>1. Argument = d
      BY <1>1, <1>2, <2>3, WiringHead DEF Fits, Argument
    <3> QED BY <1>1, <2>3, <3>1 DEF Advancing, Calls
  <2>4. CASE Head(todo)[1] # "interlace"
    BY <2>2, <2>4 DEF Advancing, Calls
  <2> QED BY <2>3, <2>4
<1>12. Members(d)' = Members(d) /\ (\A s : Fits(s, d)' <=> Fits(s, d)) /\ (IsVideo' <=> IsVideo)
  BY <1>1, DeviceFixed
<1> QED BY <1>1, <1>4, <1>5, <1>6, <1>7, <1>8, <1>9, <1>10, <1>11, <1>12 DEF Wiring

LEMMA AdvancingWiring ==
    ASSUME ChainInv, Advancing
    PROVE  WhileWiring'
<1> SUFFICES ASSUME phase' = "wiring" PROVE \E d \in BOOLEAN : Wiring(d)'
  BY DEF WhileWiring
<1>1. phase = "wiring"
  BY AdvancingIs
<1>2. PICK d \in BOOLEAN : Wiring(d)
  BY <1>1 DEF ChainInv, WhileWiring
<1> QED BY <1>1, <1>2, WiringGoesOn

\* An init of a wiring makes a component anew that has no handle of this attempt yet.
LEMMA InitIsNew ==
    ASSUME ChainInv, todo # <<>>, phase \in {"opening", "wiring"}, Calls("init"), NEW h \in held, Owned(h)
    PROVE  h[1] # Subject
<1> SUFFICES ASSUME h[1] = Subject PROVE FALSE
  OBVIOUS
<1>1. phase = "wiring"
  BY OpeningIs DEF Calls
<1>2. PICK d \in BOOLEAN : Wiring(d)
  BY <1>1 DEF ChainInv, WhileWiring
<1>3. Subject \in Members(d) \ {"decoder"} /\ <<Subject, attempts + 1>> \notin held
  BY <1>1, <1>2, WiringHead DEF Calls
<1>4. h[2] = attempts + 1
  BY <1>1, <1>3 DEF Owned, ChainInv, MixerFirst
<1>5. h = <<h[1], h[2]>>
  BY DEF ChainInv, Typed, TypeOK
<1> QED BY <1>3, <1>4, <1>5

\* open and srcChanged leave the decoder with a handle.
LEMMA DecoderStays ==
    ASSUME ChainInv, phase = "wiring", todo # <<>>,
           handle' = handle \/ \E n : Calls("init") /\ handle' = [handle EXCEPT ![Subject] = n]
    PROVE  handle'["decoder"] # 0
<1>1. PICK d \in BOOLEAN : Wiring(d)
  BY DEF ChainInv, WhileWiring
<1>2. handle["decoder"] # 0 /\ "decoder" \in Components /\ handle \in [Components -> 0..MaxAttempts + 1]
  BY <1>1, StateTypes DEF Wiring, Components
<1>3. Calls("init") => Subject # "decoder"
  BY <1>1, WiringHead DEF Calls
<1> QED BY <1>2, <1>3

LEMMA AdvancingOpen ==
    ASSUME ChainInv, Advancing
    PROVE  WhenOpen'
<1>1. todo # <<>> /\ phase \in {"opening", "wiring"}
  BY AdvancingIs
<1>2. CASE phase = "wiring"
  <2>1. handle' = handle \/ \E n : Calls("init") /\ handle' = [handle EXCEPT ![Subject] = n]
    BY DEF Advancing
  <2>2. handle'["decoder"] # 0
    BY <1>1, <1>2, <2>1, DecoderStays
  <2> QED BY <2>2 DEF WhenOpen
<1>3. CASE phase = "opening"
  <2>1. handle \in [Components -> 0..MaxAttempts + 1] /\ "decoder" \in Components /\ attempts \in Nat
    BY StateTypes, DeviceIs DEF Components
  <2>2. CASE Calls("init")
    <3>1. handle' = [handle EXCEPT !["decoder"] = attempts + 1]
      BY <1>3, <2>2, OpeningIs DEF Advancing
    <3> QED BY <2>1, <3>1 DEF WhenOpen
  <2>3. CASE ~Calls("init")
    <3>1. handle' = handle /\ handle["decoder"] # 0
      BY <1>1, <1>3, <2>3, OpeningIs DEF Advancing, Calls
    <3> QED BY <3>1 DEF WhenOpen
  <2> QED BY <2>2, <2>3
<1> QED BY <1>1, <1>2, <1>3

LEMMA AdvancingMixer ==
    ASSUME ChainInv, Advancing
    PROVE  MixerFirst'
<1>1. /\ todo # <<>> /\ todo' = Tail(todo) /\ attempts' = attempts /\ attempts \in Nat /\ UNCHANGED device
      /\ phase \in {"opening", "wiring"} /\ phase' \in {phase, "open"}
  BY AdvancingIs, DeviceIs
<1> SUFFICES ASSUME ~IsVideo
             PROVE  /\ phase' = "open" => handle'["mixer"] # 0 \/ OnlyDecoder'
                    /\ phase' = "wiring" =>
                          \/ handle'["mixer"] # 0 /\ "mixer" \notin Subjects(todo', "init")
                          \/ Head(todo') = Do("init", "mixer") /\ OnlyDecoder'
                    /\ phase' = "wiring" => \A h \in held' : h[1] = "decoder" \/ h[2] = attempts + 1
  BY <1>1, DeviceFixed DEF MixerFirst
<1>2. CASE phase = "opening"
  <2>1. OnlyDecoder /\ Subject = "decoder"
    BY <1>2, OpeningIs
  <2>2. OnlyDecoder'
    BY <2>1 DEF OnlyDecoder, Advancing
  <2> QED BY <1>1, <1>2, <2>2
<1>3. CASE phase = "wiring"
  <2>1. PICK d \in BOOLEAN : Wiring(d)
    BY <1>3 DEF ChainInv, WhileWiring
  <2>2. handle \in [Components -> 0..MaxAttempts + 1] /\ "mixer" \in Components /\ todo \in Seq(AnyCall)
    BY <1>1, StateTypes, TodoIs DEF Components
  <2>3. Subjects(todo', "init") \subseteq Subjects(todo, "init")
    BY <1>1, <2>2, SubjectsOfTail
  <2>4. handle'["mixer"] # 0 /\ "mixer" \notin Subjects(todo', "init")
    <3>1. CASE handle["mixer"] # 0 /\ "mixer" \notin Subjects(todo, "init")
      <4>1. handle' = handle \/ handle' = [handle EXCEPT ![Subject] = attempts + 1]
        BY DEF Advancing
      <4>2. handle'["mixer"] # 0
        BY <1>1, <2>2, <3>1, <4>1
      <4> QED BY <2>3, <3>1, <4>2
    <3>2. CASE Head(todo) = Do("init", "mixer")
      <4>1. Head(todo)[1] = "init" /\ Subject = "mixer" /\ Calls("init")
        BY <1>1, <3>2, DoIs DEF Subject, Calls
      <4>2. "mixer" \notin Subjects(Tail(todo), "init")
        BY <1>3, <2>1, <4>1, WiringHead
      <4>3. handle' = [handle EXCEPT !["mixer"] = attempts + 1]
        BY <4>1 DEF Advancing
      <4> QED BY <1>1, <2>2, <4>2, <4>3
    <3> QED BY <1>3, <3>1, <3>2 DEF ChainInv, MixerFirst
  <2>5. \A h \in held' : h[1] = "decoder" \/ h[2] = attempts + 1
    BY <1>3 DEF ChainInv, MixerFirst, Advancing
  <2> QED BY <2>4, <2>5
<1> QED BY <1>1, <1>2, <1>3

LEMMA AdvancingHandles ==
    ASSUME ChainInv, Advancing
    PROVE  HandlesKept'
<1>1. /\ todo # <<>> /\ attempts' = attempts /\ UNCHANGED device
      /\ phase \in {"opening", "wiring"} /\ phase' \in {phase, "open"}
  BY AdvancingIs
<1>2. handle \in [Components -> 0..MaxAttempts + 1] /\ \A h \in held : h[1] \in Components
  BY StateTypes, DeviceIs DEF ChainInv, Numbered
<1>6. UNCHANGED unfreed
  BY DEF Advancing, Ongoing, Stated
<1> SUFFICES ASSUME NEW h \in held', Owned(h) PROVE handle'[h[1]] = h[2]
  BY <1>1, <1>6, DeviceFixed DEF HandlesKept, Owned, Gone
<1>3. h \in held => handle[h[1]] = h[2]
  BY DEF ChainInv, HandlesKept
<1>4. CASE Calls("init")
  <2>1. handle' = [handle EXCEPT ![Subject] = attempts + 1] /\ held' = held \cup {<<Subject, attempts + 1>>}
    BY <1>4 DEF Advancing
  <2>2. Subject \in Components
    BY <1>4, AdvancingIs
  <2>3. CASE h \in held
    BY <1>1, <1>2, <1>3, <1>4, <2>1, <2>3, InitIsNew
  <2>4. CASE h \notin held
    BY <1>2, <2>1, <2>2, <2>4
  <2> QED BY <2>3, <2>4
<1>5. CASE ~Calls("init")
  BY <1>3, <1>5 DEF Advancing
<1> QED BY <1>4, <1>5

\* The port of the clock at which a tunnel starts does not depend on any handle.
LEMMA ClockStays ==
    ASSUME ChainInv, UNCHANGED device, NEW t \in Tunnels, Src(t) \in ClockPorts,
           ends'[t] = ends[t] \/ Shape(t, ends'[t])
    PROVE  t \in ClockTunnels /\ Src(t)' = Src(t)
<1>1. ends[t][1] = Clock
  BY SrcDst DEF ClockPorts, PortsOf
<1>2. Shape(t, ends[t]) /\ Shape(t, ends'[t])
  BY <1>1, EndsAre
<1>3. t \in ClockTunnels
  BY <1>1, <1>2 DEF Shape
<1>4. ends'[t][1] = Clock /\ ends'[t][2] = ends[t][2]
  BY <1>1, <1>2, <1>3 DEF Shape
<1>5. Src(t) = <<Clock, 1, ends[t][2]>> /\ Src(t)' = <<Clock, 1, ends[t][2]>>
  BY <1>1, <1>4 DEF Src, Port, Serial
<1> QED BY <1>3, <1>5

\* What a call adds to the ports of the clock in use belongs to a tunnel that is set up.
LEMMA OngoingClock ==
    ASSUME ChainInv, Ongoing, mTunnelSet \subseteq mTunnelSet',
           \A t \in Tunnels : ends'[t] = ends[t] \/ Shape(t, ends'[t]),
           joined' = joined \/ (/\ Calls("setup") /\ joined' = joined \cup {Src(Subject), Dst(Subject)}
                                /\ Subject \in mTunnelSet'),
           closeFaults = 0, NEW p \in (joined' \cup enabled') \cap ClockPorts
    PROVE  \E t \in mTunnelSet' \cap ClockTunnels : p = Src(t)'
<1>1. UNCHANGED device /\ mTunnelSet \subseteq Tunnels /\ todo # <<>> /\ phase \in {"opening", "wiring"}
  BY DEF Ongoing, Stated, ChainInv, Typed, TypeOK
<1>2. CASE p \in joined \cup enabled
  <2>1. PICK t \in mTunnelSet \cap ClockTunnels : p = Src(t)
    BY <1>2 DEF ChainInv, ClockUsed
  <2>2. Src(t)' = Src(t)
    BY <1>1, <2>1, ClockStays
  <2> QED BY <2>1, <2>2
<1>3. CASE p \notin joined \cup enabled
  <2>1. /\ p \in {Src(Subject), Dst(Subject)} /\ Head(todo)[1] \in OfTunnel
        /\ (Calls("setup") /\ Subject \in mTunnelSet') \/ Calls("enable")
    <3>1. p \in enabled' => Calls("enable") /\ p = Src(Subject)
      BY <1>3 DEF Ongoing, Enabling
    <3>2. p \in joined' => Calls("setup") /\ p \in {Src(Subject), Dst(Subject)} /\ Subject \in mTunnelSet'
      BY <1>3
    <3> QED BY <3>1, <3>2 DEF Calls, OfTunnel
  <2>2. phase = "wiring"
    BY <1>1, <2>1, NotClosing DEF OfTunnel
  <2>3. PICK d \in BOOLEAN : Wiring(d)
    BY <2>2 DEF ChainInv, WhileWiring
  <2>4. Subject \in Tunnels /\ Subject \in mTunnelSet'
    BY <2>1, <2>2, <2>3, WiringHead, DeviceIs DEF Calls
  <2>5. p = Src(Subject)
    <3>1. ends[Subject][3] \in Components
      BY <1>1, <2>1, <2>2, TunnelHandles
    <3>2. Dst(Subject) \notin ClockPorts
      BY <3>1, NotClock DEF Dst
    <3> QED BY <2>1, <3>2
  <2> QED BY <1>1, <2>4, <2>5, ClockStays
<1> QED BY <1>2, <1>3

LEMMA AdvancingClock ==
    ASSUME ChainInv, Advancing
    PROVE  ClockUsed'
<1>1. /\ todo # <<>> /\ UNCHANGED <<device, closeFaults>>
      /\ phase \in {"opening", "wiring"} /\ phase' \in {phase, "open"} /\ Ongoing
  BY AdvancingIs DEF Advancing, Ongoing, Stated
<1>2. mTunnelSet \subseteq mTunnelSet'
  BY DEF Advancing
<1>3. \A t \in Tunnels : ends'[t] = ends[t] \/ Shape(t, ends'[t])
  <2> SUFFICES ASSUME NEW t \in Tunnels PROVE ends'[t] = ends[t] \/ Shape(t, ends'[t])
    OBVIOUS
  <2>1. ends \in [Tunnels -> Quads \cup {NoEnds}]
    BY DEF ChainInv, Typed
  <2>2. CASE Calls("tunnel") /\ Subject = t
    <3>1. phase = "wiring"
      BY <2>2, NotClosing DEF Calls
    <3>2. PICK d \in BOOLEAN : Wiring(d)
      BY <3>1 DEF ChainInv, WhileWiring
    <3>3. Fits(Head(todo), d)
      BY <3>1, <3>2, WiringHead
    <3>4. Shape(t, Argument)
      BY <2>2, <3>3 DEF Fits, Argument, Calls, Subject
    <3>5. ends' = [ends EXCEPT ![t] = Argument]
      BY <2>2 DEF Advancing
    <3> QED BY <2>1, <3>4, <3>5
  <2>3. CASE ~(Calls("tunnel") /\ Subject = t)
    <3>1. ends'[t] = ends[t]
      BY <2>1, <2>3 DEF Advancing
    <3> QED BY <3>1
  <2> QED BY <2>2, <2>3
<1>4. joined' = joined \/ (/\ Calls("setup") /\ joined' = joined \cup {Src(Subject), Dst(Subject)}
                           /\ Subject \in mTunnelSet')
  BY DEF Advancing
<1>5. ASSUME closeFaults = 0, NEW p \in (joined' \cup enabled') \cap ClockPorts
      PROVE  \E t \in mTunnelSet' \cap ClockTunnels : p = Src(t)'
  BY <1>1, <1>2, <1>3, <1>4, <1>5, OngoingClock
<1> QED BY <1>1, <1>5 DEF ClockUsed, Gone, ClockPorts, PortsOf

LEMMA JoinedShape ==
    ASSUME ChainInv, NEW p, p[1] \in Components, NEW t \in mTunnelSet, p \in {Src(t), Dst(t)}
    PROVE  t \in Tunnels /\ Shape(t, ends[t]) /\ p[1] \in {ends[t][1], ends[t][3]}
<1>1. t \in Tunnels /\ (ends[t] = NoEnds \/ Shape(t, ends[t]))
  BY DEF ChainInv, Typed, TypeOK
<1>2. p[1] \in {ends[t][1], ends[t][3]}
  BY SrcDst
<1>3. NoEnds[1] = "none" /\ NoEnds[3] = "none"
  BY DEF NoEnds
<1> QED BY <1>1, <1>2, <1>3, DeviceIs

LEMMA PortStays ==
    ASSUME NEW t, NEW p \in {Src(t), Dst(t)}, ends'[t] = ends[t], handle'[p[1]] = handle[p[1]]
    PROVE  p \in {Src(t)', Dst(t)'}
<1>1. CASE p = Src(t)
  <2>1. p[1] = ends[t][1]
    BY <1>1, SrcDst
  <2>2. Serial(ends[t][1])' = Serial(ends[t][1])
    BY <2>1 DEF Serial
  <2> QED BY <1>1, <2>2 DEF Src, Port, Serial
<1>2. CASE p = Dst(t)
  <2>1. p[1] = ends[t][3]
    BY <1>2, SrcDst
  <2>2. Serial(ends[t][3])' = Serial(ends[t][3])
    BY <2>1 DEF Serial
  <2> QED BY <1>2, <2>2 DEF Dst, Port, Serial
<1> QED BY <1>1, <1>2

\* The components of a wiring that are made have a handle of this attempt.
LEMMA CurrentIsNew ==
    ASSUME ChainInv, phase = "wiring", NEW d \in BOOLEAN, Wiring(d), Head(todo)[1] \notin Early \cup {"config"},
           NEW p, Current(p), p[1] # "decoder"
    PROVE  p[2] = attempts + 1
<1>1. p[1] \in Components /\ p[2] # 0 /\ p[2] = handle[p[1]] /\ (attempts <= 1 \/ p[1] # "imageFx")
  BY DEF Current
<1>2. <<p[1], p[2]>> \in held
  BY <1>1 DEF ChainInv, Numbered
<1>3. CASE p[1] \in Members(d)
  BY <1>1, <1>3, WiringHead
<1>4. CASE ~IsVideo
  <2> DEFINE h == <<p[1], p[2]>>
  <2>1. h[1] = p[1] /\ h[2] = p[2] /\ h \in held
    BY <1>2
  <2> HIDE DEF h
  <2>2. h[1] = "decoder" \/ h[2] = attempts + 1
    BY <1>4, <2>1 DEF ChainInv, MixerFirst
  <2> QED BY <2>1, <2>2
<1>5. CASE IsVideo /\ p[1] \notin Members(d)
  <2> DEFINE h == <<p[1], p[2]>>
  <2>1. h[1] = p[1] /\ h \in held
    BY <1>2
  <2> HIDE DEF h
  <2>2. p[1] \in Chain
    BY <2>1 DEF ChainInv, Numbered
  <2>3. p[1] = "imageFx"
    BY <1>5, <2>2 DEF Chain, Members
  <2>4. attempts = 1
    <3>1. attempts # 0 /\ attempts \in Nat
      BY DeviceIs DEF Wiring
    <3> QED BY <1>1, <2>3, <3>1
  <2>5. handle["imageFx"] \in Nat /\ handle["imageFx"] # 1 /\ handle["imageFx"] <= attempts + 1
    <3>1. "imageFx" \in Components \ {"decoder"}
      BY DEF Components
    <3> QED BY <3>1, DeviceIs DEF ChainInv, Numbered
  <2> QED BY <1>1, <2>3, <2>4, <2>5
<1> QED BY <1>3, <1>4, <1>5

LEMMA AdvancingTunnels ==
    ASSUME ChainInv, Advancing
    PROVE  TunnelsKept'
<1>1. /\ todo # <<>> /\ todo' = Tail(todo) /\ attempts' = attempts /\ attempts \in Nat /\ UNCHANGED <<device, closeFaults>>
      /\ phase \in {"opening", "wiring"} /\ phase' \in {phase, "open"}
  BY AdvancingIs, DeviceIs DEF Advancing, Ongoing, Stated
<1> SUFFICES ASSUME closeFaults = 0, NEW p \in joined', Current(p)'
             PROVE  \E t \in mTunnelSet' : JoinedBy(p, t)'
  BY <1>1 DEF TunnelsKept, Gone
<1>2. phase = "wiring"
  BY <1>1, AdvancingIs, OpeningIs
<1>3. PICK d \in BOOLEAN : Wiring(d)
  BY <1>2 DEF ChainInv, WhileWiring
<1>4. handle \in [Components -> 0..MaxAttempts + 1] /\ todo \in Seq(AnyCall)
  BY <1>1, StateTypes, TodoIs
<1>5. Subjects(todo', "tunnel") \subseteq Subjects(todo, "tunnel")
  BY <1>1, <1>4, SubjectsOfTail
<1>6. \A q \in joined : Current(q) => \E t \in mTunnelSet : JoinedBy(q, t)
  BY <1>2 DEF ChainInv, TunnelsKept, Gone
<1>7. mTunnelSet \subseteq mTunnelSet'
  BY DEF Advancing
<1>8. p[2] # 0 /\ p[1] \in Components /\ p[2] = handle'[p[1]] /\ (attempts <= 1 \/ p[1] # "imageFx")
  BY <1>1 DEF Current
<1>10. CASE Calls("init")
  <2>1. Head(todo)[1] = "init" /\ "init" \in Early /\ ~Calls("setup") /\ ~Calls("interlace") /\ ~Calls("tunnel")
    BY <1>10 DEF Calls, Early
  <2>2. /\ joined' = joined /\ ends' = ends /\ mDeInterlace' = mDeInterlace /\ mTunnelSet' = mTunnelSet
        /\ handle' = [handle EXCEPT ![Subject] = attempts + 1]
    BY <1>10, <2>1 DEF Advancing
  <2>3. p[2] <= attempts
    BY <1>2, <1>3, <2>1, <2>2, WiringHead
  <2>4. p[1] # Subject
    BY <1>1, <1>4, <1>8, <2>2, <2>3
  <2>5. handle'[p[1]] = handle[p[1]]
    BY <1>4, <1>8, <2>2, <2>4
  <2>6. Current(p)
    BY <1>8, <2>5 DEF Current
  <2>7. PICK t \in mTunnelSet : JoinedBy(p, t)
    BY <1>6, <2>2, <2>6
  <2>8. p \in {Src(t)', Dst(t)'}
    BY <2>2, <2>5, <2>7, PortStays DEF JoinedBy
  <2>9. JoinedBy(p, t)'
    BY <1>1, <1>2, <1>5, <2>2, <2>7, <2>8 DEF JoinedBy
  <2> QED BY <2>2, <2>7, <2>9
<1>11. CASE Calls("interlace")
  <2>1. Head(todo)[1] = "interlace" /\ "interlace" \in Early /\ ~Calls("setup") /\ ~Calls("init") /\ ~Calls("tunnel")
    BY <1>11 DEF Calls, Early
  <2>2. /\ joined' = joined /\ ends' = ends /\ handle' = handle /\ mTunnelSet' = mTunnelSet
    BY <2>1 DEF Advancing
  <2>3. p[2] <= attempts
    BY <1>2, <1>3, <2>1, <2>2, WiringHead
  <2>4. Current(p)
    BY <1>8, <2>2 DEF Current
  <2>5. PICK t \in mTunnelSet : JoinedBy(p, t)
    BY <1>6, <2>2, <2>4
  <2>6. p \in {Src(t)', Dst(t)'}
    BY <2>2, <2>5, PortStays DEF JoinedBy
  <2>7. t # "imageFx"
    <3> SUFFICES ASSUME t = "imageFx" PROVE FALSE
      OBVIOUS
    <3>1. p[1] \in {"imageFx", "scheduler"}
      BY <1>8, <2>5, JoinedShape DEF JoinedBy, Shape
    <3>2. CASE p[1] = "imageFx"
      <4>1. "imageFx" \in Components \ {"decoder"}
        BY DEF Components
      <4>2. handle["imageFx"] # 1 /\ handle["imageFx"] \in Nat
        BY <4>1, DeviceIs DEF ChainInv, Numbered
      <4> QED BY <1>1, <1>8, <2>2, <2>3, <3>2, <4>2
    <3>3. CASE p[1] = "scheduler"
      <4>1. IsVideo
        BY <1>2, <1>3, <2>1, WiringHead DEF Fits
      <4>2. "scheduler" \in Members(d) \ {"decoder"}
        BY <4>1, MemberIs
      <4>3. "scheduler" \notin Subjects(todo, "init")
        <5>1. \A s \in Items(todo) : s = Head(todo) \/ MayPrecede(Head(todo), s)
          BY <1>1, <1>2, <1>3, TodoIs, WiringHead
        <5>2. \A s \in Items(todo) : s[1] = "init" => s[2] = "imageFx"
          BY <2>1, <5>1 DEF MayPrecede
        <5> QED BY <5>2 DEF Subjects
      <4>4. handle["scheduler"] = attempts + 1
        BY <1>3, <4>2, <4>3 DEF Wiring
      <4> QED BY <1>1, <1>8, <2>2, <2>3, <3>3, <4>4
    <3> QED BY <3>1, <3>2, <3>3
  <2>8. JoinedBy(p, t)'
    BY <1>1, <1>2, <1>5, <2>2, <2>5, <2>6, <2>7 DEF JoinedBy
  <2> QED BY <2>2, <2>5, <2>8
<1>12. CASE Calls("tunnel")
  <2>1. Head(todo)[1] = "tunnel" /\ Head(todo)[1] \notin Early \cup {"config"} /\ ~Calls("setup") /\ ~Calls("init") /\ ~Calls("interlace")
    BY <1>12 DEF Calls, Early
  <2>2. /\ joined' = joined /\ handle' = handle /\ mTunnelSet' = mTunnelSet /\ mDeInterlace' = mDeInterlace
        /\ ends' = [ends EXCEPT ![Subject] = Argument]
    BY <1>12, <2>1 DEF Advancing
  <2>3. Current(p)
    BY <1>8, <2>2 DEF Current
  <2>4. PICK t \in mTunnelSet : JoinedBy(p, t)
    BY <1>6, <2>2, <2>3
  <2>5. t \in Tunnels /\ Shape(t, ends[t])
    BY <1>8, <2>4, JoinedShape DEF JoinedBy
  <2>6. ends \in [Tunnels -> Quads \cup {NoEnds}]
    BY DEF ChainInv, Typed
  <2>7. CASE t # Subject
    <3>1. ends'[t] = ends[t]
      BY <2>2, <2>5, <2>6, <2>7
    <3>2. p \in {Src(t)', Dst(t)'}
      BY <2>2, <2>4, <3>1, PortStays DEF JoinedBy
    <3>3. JoinedBy(p, t)'
      BY <1>1, <1>2, <1>5, <2>2, <2>4, <3>2 DEF JoinedBy
    <3> QED BY <2>2, <2>4, <3>3
  <2>8. CASE t = Subject
    <3>1. p[1] = "decoder"
      <4>1. t \in Subjects(todo, "tunnel")
        BY <1>1, <2>1, <2>5, <2>8, TodoIs DEF Subjects, Subject
      <4>2. p[1] = "decoder" \/ p[2] # attempts + 1
        BY <1>2, <2>4, <4>1 DEF JoinedBy
      <4> QED BY <1>2, <1>3, <2>1, <2>3, <4>2, CurrentIsNew
    <3>2. ends[t][3] # "decoder" /\ ends[t][1] = "decoder" /\ t = "decoder" /\ ends[t][2] = "out"
      BY <1>8, <2>4, <2>5, <3>1, JoinedShape DEF Shape, JoinedBy
    <3>3. p = Src(t)
      <4>1. Dst(t)[1] = ends[t][3]
        BY SrcDst
      <4> QED BY <2>4, <3>1, <3>2, <4>1 DEF JoinedBy
    <3>4. Fits(Head(todo), d)
      BY <1>2, <1>3, WiringHead
    <3>5. Shape(t, Argument)
      BY <2>1, <2>8, <3>4 DEF Fits, Subject, Argument
    <3>6. ends'[t] = Argument
      BY <2>2, <2>5, <2>6, <2>8
    <3>7. Src(t)' = Src(t)
      <4>1. Argument[1] = "decoder" /\ Argument[2] = "out"
        BY <3>2, <3>5 DEF Shape
      <4> QED BY <2>2, <3>2, <3>6, <4>1 DEF Src, Port, Serial
    <3>8. JoinedBy(p, t)'
      BY <2>2, <2>4, <3>1, <3>2, <3>3, <3>7 DEF JoinedBy
    <3> QED BY <2>2, <2>4, <3>8
  <2> QED BY <2>7, <2>8
<1>13. CASE Calls("setup")
  <2>1. /\ Head(todo)[1] = "setup" /\ Head(todo)[1] \notin Early \cup {"config"} /\ Head(todo)[1] \in OfTunnel
        /\ ~Calls("tunnel") /\ ~Calls("init") /\ ~Calls("interlace")
    BY <1>13 DEF Calls, Early, OfTunnel
  <2>2. /\ joined' = joined \cup {Src(Subject), Dst(Subject)} /\ handle' = handle /\ ends' = ends
        /\ mTunnelSet' = mTunnelSet \cup {Subject} /\ mDeInterlace' = mDeInterlace
    BY <1>13, <2>1 DEF Advancing
  <2>3. Current(p)
    BY <1>8, <2>2 DEF Current
  <2>4. CASE p \in joined
    <3>1. PICK t \in mTunnelSet : JoinedBy(p, t)
      BY <1>6, <2>3, <2>4
    <3>2. p \in {Src(t)', Dst(t)'}
      BY <2>2, <3>1, PortStays DEF JoinedBy
    <3>3. JoinedBy(p, t)'
      BY <1>1, <1>2, <1>5, <2>2, <3>1, <3>2 DEF JoinedBy
    <3> QED BY <2>2, <3>1, <3>3
  <2>5. CASE p \notin joined
    <3>1. p \in {Src(Subject), Dst(Subject)}
      BY <2>2, <2>5
    <3>0. PICK t : t = Subject
      OBVIOUS
    <3>2. p \in {Src(t)', Dst(t)'}
      BY <2>2, <3>0, <3>1, PortStays
    <3>3. Subject = "imageFx" => mDeInterlace
      <4> SUFFICES ASSUME Subject = "imageFx" PROVE mDeInterlace
        OBVIOUS
      <4>1. d /\ IsVideo
        <5>1. Fits(Head(todo), d)
          BY <1>2, <1>3, WiringHead
        <5>2. Subject \in ChainTunnels
          BY <2>1, <5>1 DEF Fits, Subject
        <5> QED BY <2>1, <5>1, <5>2 DEF Fits, Subject, ChainTunnels
      <4>2. \A s \in Items(todo) : s[1] # "interlace"
        BY <1>2, <1>3, <2>1, WiringHead DEF Early
      <4> QED BY <1>3, <4>1, <4>2 DEF Wiring
    <3>4. Subject \notin Subjects(todo', "tunnel")
      <4>1. \A s \in Items(Tail(todo)) : MayPrecede(Head(todo), s)
        BY <1>2, <1>3, WiringHead
      <4> QED BY <1>1, <2>1, <4>1 DEF MayPrecede, Subjects, Subject
    <3>5. JoinedBy(p, t)'
      BY <2>2, <3>0, <3>2, <3>3, <3>4 DEF JoinedBy
    <3> QED BY <2>2, <3>0, <3>5
  <2> QED BY <2>4, <2>5
<1>14. CASE ~Calls("init") /\ ~Calls("interlace") /\ ~Calls("tunnel") /\ ~Calls("setup")
  <2>1. /\ joined' = joined /\ handle' = handle /\ ends' = ends /\ mTunnelSet' = mTunnelSet /\ mDeInterlace' = mDeInterlace
    BY <1>14 DEF Advancing
  <2>2. Current(p)
    BY <1>8, <2>1 DEF Current
  <2>3. PICK t \in mTunnelSet : JoinedBy(p, t)
    BY <1>6, <2>1, <2>2
  <2>4. p \in {Src(t)', Dst(t)'}
    BY <2>1, <2>3, PortStays DEF JoinedBy
  <2>5. JoinedBy(p, t)'
    BY <1>1, <1>2, <1>5, <2>1, <2>3, <2>4 DEF JoinedBy
  <2> QED BY <2>1, <2>3, <2>5
<1> QED BY <1>10, <1>11, <1>12, <1>13, <1>14

-----------------------------------------------------------------------------
(* An error return                                                           *)

LEMMA AbortingIs ==
    ASSUME ChainInv, Aborting
    PROVE  /\ todo # <<>> /\ UNCHANGED <<device, decoder, attempts, closeFaults, mDeInterlace, held, joined, ends, mTunnelSet>>
           /\ \/ phase = "wiring" /\ phase' = "open" /\ todo' = <<>>
              \/ phase = "opening" /\ phase' = "closing" /\ todo' = ClosePlan
           /\ refused' \in BOOLEAN /\ result' \in {result, "false"}
           /\ handle' = handle \/ (Calls("init") /\ handle' = [handle EXCEPT ![Subject] = 0])
           /\ Calls("init") => Subject \in Components
<1>1. todo # <<>> /\ phase \in {"opening", "wiring"}
  BY DEF Aborting, Ongoing
<1>2. Calls("init") => Subject \in Components
  BY <1>1, TodoIs, CallIs DEF Calls, Subject
<1> QED BY <1>1, <1>2 DEF Aborting, Ongoing, Stated, Abort

LEMMA AbortingTyped ==
    ASSUME ChainInv, Aborting
    PROVE  Typed' /\ Numbered'
<1>1. /\ todo # <<>> /\ UNCHANGED <<device, decoder, attempts, closeFaults, mDeInterlace, held, joined, ends, mTunnelSet>>
      /\ \/ phase = "wiring" /\ phase' = "open" /\ todo' = <<>>
         \/ phase = "opening" /\ phase' = "closing" /\ todo' = ClosePlan
      /\ refused' \in BOOLEAN /\ result' \in {result, "false"}
      /\ handle' = handle \/ (Calls("init") /\ handle' = [handle EXCEPT ![Subject] = 0])
  BY AbortingIs
<1>2. handle \in [Components -> 0..MaxAttempts + 1] /\ MaxAttempts \in Nat
  BY StateTypes
<1>3. handle' \in [Components -> 0..MaxAttempts + 1] /\ \A c \in Components : handle'[c] = handle[c] \/ handle'[c] = 0
  BY <1>1, <1>2
<1>4. Closes(ClosePlan)
  BY DeviceIs, ClosePlanCloses
<1>5. todo' \in Seq(AnyCall) /\ (todo' # <<>>) = (phase' \in Busy)
  <2>1. <<>> \in Seq(AnyCall)
    OBVIOUS
  <2>2. ClosePlan \in Seq(AnyCall) /\ ClosePlan # <<>>
    BY <1>4 DEF Closes, Closing
  <2>3. todo' \in Seq(AnyCall)
    BY <1>1, <2>1, <2>2
  <2>4. CASE phase' = "open" /\ todo' = <<>>
    BY <2>3, <2>4 DEF Busy
  <2>5. CASE phase' = "closing" /\ todo' = ClosePlan
    BY <2>2, <2>3, <2>5 DEF Busy
  <2> QED BY <1>1, <2>4, <2>5
<1>6. Stated
  BY DEF Aborting, Ongoing
<1>7. Typed'
  <2>1. TypeOK'
    BY <1>1, <1>3, <1>5, <1>6 DEF ChainInv, Typed, TypeOK, Stated, Busy
  <2> QED BY <1>1, <1>5, <2>1, DeviceFixed DEF ChainInv, Typed
<1>8. Numbered'
  <2>1. "decoder" \in Components /\ attempts \in Nat
    BY DeviceIs DEF Components
  <2>2. /\ \A c \in Components : handle[c] <= attempts + 1 /\ (handle[c] # 0 => <<c, handle[c]>> \in held)
        /\ \A c \in Components \ {"decoder"} : handle[c] # 1
        /\ handle["decoder"] \in {0, 1}
        /\ \A h \in held : h[1] \in Chain /\ h[2] <= attempts + 1 /\ (h[1] = "decoder" => h[2] = 1)
        /\ \A p \in joined : p[2] \in Nat /\ p[2] <= attempts + 1
    BY DEF ChainInv, Numbered
  <2>3. \A c \in Components : handle'[c] <= attempts + 1 /\ (handle'[c] # 0 => <<c, handle'[c]>> \in held)
    BY <1>3, <2>1, <2>2
  <2>4. /\ \A c \in Components \ {"decoder"} : handle'[c] # 1
        /\ handle'["decoder"] \in {0, 1}
    BY <1>3, <2>1, <2>2
  <2>5. Chain' = Chain
    BY <1>1, DeviceFixed
  <2> QED BY <1>1, <2>2, <2>3, <2>4, <2>5 DEF Numbered
<1> QED BY <1>7, <1>8

LEMMA AbortingOpen ==
    ASSUME ChainInv, Aborting
    PROVE  Before' /\ WhileWiring' /\ WhenOpen' /\ MixerFirst'
<1>1. /\ todo # <<>> /\ UNCHANGED <<device, held>>
      /\ \/ phase = "wiring" /\ phase' = "open"
         \/ phase = "opening" /\ phase' = "closing"
      /\ handle' = handle \/ (Calls("init") /\ handle' = [handle EXCEPT ![Subject] = 0])
  BY AbortingIs
<1>2. Before' /\ WhileWiring'
  BY <1>1 DEF Before, WhileWiring
<1>3. WhenOpen'
  <2> SUFFICES ASSUME phase' = "open" PROVE handle'["decoder"] # 0
    BY DEF WhenOpen
  <2>1. phase = "wiring"
    BY <1>1
  <2> QED BY <1>1, <2>1, DecoderStays
<1>4. MixerFirst'
  <2> SUFFICES ASSUME ~IsVideo, phase' = "open" PROVE handle'["mixer"] # 0 \/ OnlyDecoder'
    BY <1>1, DeviceFixed DEF MixerFirst
  <2>1. phase = "wiring"
    BY <1>1
  <2>2. OnlyDecoder' <=> OnlyDecoder
    BY <1>1 DEF OnlyDecoder
  <2>3. CASE handle["mixer"] # 0 /\ "mixer" \notin Subjects(todo, "init")
    <3>1. Calls("init") => Subject # "mixer"
      BY <1>1, <2>3, TodoIs DEF Calls, Subject, Subjects, Components
    <3>2. handle \in [Components -> 0..MaxAttempts + 1] /\ "mixer" \in Components
      BY StateTypes DEF Components
    <3> QED BY <1>1, <2>3, <3>1, <3>2
  <2>4. CASE OnlyDecoder
    BY <2>2, <2>4
  <2> QED BY <2>1, <2>3, <2>4 DEF ChainInv, MixerFirst
<1> QED BY <1>2, <1>3, <1>4

LEMMA AbortingHandles ==
    ASSUME ChainInv, Aborting
    PROVE  HandlesKept'
<1>1. /\ todo # <<>> /\ UNCHANGED <<device, attempts, held>>
      /\ \/ phase = "wiring" /\ phase' = "open"
         \/ phase = "opening" /\ phase' = "closing" /\ todo' = ClosePlan
      /\ handle' = handle \/ (Calls("init") /\ handle' = [handle EXCEPT ![Subject] = 0])
  BY AbortingIs
<1>2. handle \in [Components -> 0..MaxAttempts + 1] /\ \A h \in held : h[1] \in Components /\ h[1] \in Chain
  BY StateTypes, DeviceIs DEF ChainInv, Numbered
<1>7. UNCHANGED unfreed
  BY DEF Aborting, Ongoing, Stated
<1> SUFFICES ASSUME NEW h \in held, Owned(h)
             PROVE  handle'[h[1]] = h[2] /\ (phase' = "closing" => h[1] \in Subjects(todo', "free"))
  BY <1>1, <1>7, DeviceFixed DEF HandlesKept, Owned, Gone
<1>3. handle[h[1]] = h[2]
  BY DEF ChainInv, HandlesKept
<1>4. Calls("init") => h[1] # Subject
  BY <1>1, InitIsNew
<1>5. handle'[h[1]] = h[2]
  BY <1>1, <1>2, <1>3, <1>4
<1>6. Closes(ClosePlan)
  BY DeviceIs, ClosePlanCloses
<1> QED BY <1>1, <1>2, <1>5, <1>6 DEF Closes

LEMMA AbortingTunnels ==
    ASSUME ChainInv, Aborting
    PROVE  ClockUsed' /\ TunnelsKept'
<1>1. /\ todo # <<>> /\ UNCHANGED <<device, attempts, closeFaults, mDeInterlace, joined, ends, mTunnelSet>>
      /\ \/ phase = "wiring" /\ phase' = "open" /\ todo' = <<>>
         \/ phase = "opening" /\ phase' = "closing" /\ todo' = ClosePlan
      /\ handle' = handle \/ (Calls("init") /\ handle' = [handle EXCEPT ![Subject] = 0])
      /\ Calls("init") => Subject \in Components
  BY AbortingIs
<1>2. phase' = "closing" => mTunnelSet = {} /\ todo' = ClosePlan
  BY <1>1, OpeningIs
<1>3. ClockUsed'
  <2>1. Ongoing
    BY DEF Aborting
  <2>2. ASSUME closeFaults = 0, NEW p \in (joined' \cup enabled') \cap ClockPorts
        PROVE  \E t \in mTunnelSet' \cap ClockTunnels : p = Src(t)'
    BY <1>1, <2>1, <2>2, OngoingClock
  <2> QED BY <1>1, <1>2, <2>2 DEF ClockUsed, Gone, ClockPorts, PortsOf
<1>4. Closes(ClosePlan)
  BY DeviceIs, ClosePlanCloses
<1>5. ASSUME closeFaults = 0, NEW p \in joined, Current(p)' PROVE \E t \in mTunnelSet : JoinedBy(p, t)'
  <2>1. handle \in [Components -> 0..MaxAttempts + 1]
    BY StateTypes
  <2>2. p[2] # 0 /\ p[1] \in Components /\ p[2] = handle'[p[1]] /\ (attempts <= 1 \/ p[1] # "imageFx")
    BY <1>1, <1>5 DEF Current
  <2>3. handle'[p[1]] = handle[p[1]]
    BY <1>1, <2>1, <2>2
  <2>4. Current(p)
    BY <2>2, <2>3 DEF Current
  <2>5. PICK t \in mTunnelSet : JoinedBy(p, t)
    BY <1>1, <1>5, <2>4 DEF ChainInv, TunnelsKept, Gone
  <2>6. p \in {Src(t)', Dst(t)'}
    BY <1>1, <2>3, <2>5, PortStays DEF JoinedBy
  <2>7. JoinedBy(p, t)'
    BY <1>1, <2>5, <2>6 DEF JoinedBy
  <2> QED BY <2>7
<1>6. Chain' = Chain
  BY <1>1, DeviceFixed
<1>7. phase' = "closing" =>
        /\ InOrder(todo')
        /\ \A s \in Items(todo') : s[1] \in {"part", "free"} /\ (s[1] = "free" => s[2] \in Chain)
        /\ mTunnelSet = {}
  BY <1>2, <1>4 DEF Closes, Closing
<1>8. TunnelsKept'
  BY <1>1, <1>5, <1>6, <1>7 DEF TunnelsKept, Gone
<1> QED BY <1>3, <1>8

-----------------------------------------------------------------------------
(* The calls of close                                                        *)

\* OMX_FreeHandle frees a handle or fails to.
Released(h) ==
    \/ held' = held \ {h} /\ UNCHANGED unfreed
    \/ UNCHANGED held /\ unfreed' = unfreed \cup {h} /\ h \in held

Undoing ==
    /\ todo # <<>> /\ phase = "closing" /\ Close
    /\ state' \in [Components -> {"Loaded", "Idle", "Executing"}]
    /\ \A c \in Components : handle'[c] = 0 => state'[c] = "Loaded"
    /\ closeFaults' \in 0..MaxFaults /\ (closeFaults' = 0 => closeFaults = 0)
    /\ UNCHANGED ends /\ joined' \subseteq joined /\ enabled' \subseteq enabled
    /\ \/ /\ Calls("part") /\ Subject \in Tunnels /\ UNCHANGED <<handle, held>> /\ mTunnelSet' = mTunnelSet \ {Subject}
          /\ closeFaults' = 0 /\ Subject \in mTunnelSet =>
                \A p \in {Src(Subject), Dst(Subject)} : p[2] # 0 => p \notin joined' \cup enabled'
          /\ UNCHANGED unfreed
       \/ /\ Calls("free") /\ Subject \in Components /\ UNCHANGED mTunnelSet
          /\ handle' = [handle EXCEPT ![Subject] = 0]
          /\ Released(<<Subject, handle[Subject]>>)

LEMMA DeEstablishUndoes ==
    ASSUME ChainInv, DeEstablish
    PROVE  Undoing
<1>1. todo # <<>> /\ Head(todo)[1] = "part" /\ Close /\ Calls("part")
  BY DEF DeEstablish, Calls
<1>2. phase = "closing" /\ Subject \in Tunnels
  BY <1>1, TodoIs, CallIs DEF Subject
<1>3. UNCHANGED <<handle, state, ends, held, unfreed>>
  BY DEF DeEstablish
<1>4. closeFaults \in 0..MaxFaults /\ MaxFaults \in Nat
  BY StateTypes
<1>5. CASE Subject \notin mTunnelSet
  <2>1. UNCHANGED <<mTunnelSet, joined, enabled, closeFaults>>
    BY <1>5 DEF DeEstablish
  <2> QED BY <1>1, <1>2, <1>3, <1>4, <1>5, <2>1, StateKept DEF Undoing
<1>6. CASE Subject \in mTunnelSet
  <2>1. PICK stuck \in SUBSET {Src(Subject), Dst(Subject)} :
            LET ports == {p \in {Src(Subject), Dst(Subject)} : p[2] # 0} \ stuck IN
            /\ stuck # {} => closeFaults < MaxFaults
            /\ closeFaults' = IF stuck = {} THEN closeFaults ELSE closeFaults + 1
            /\ mTunnelSet' = mTunnelSet \ {Subject}
            /\ joined' = joined \ ports /\ enabled' = enabled \ ports
    BY <1>6 DEF DeEstablish
  <2>2. joined' \subseteq joined /\ enabled' \subseteq enabled /\ mTunnelSet' = mTunnelSet \ {Subject}
    BY <2>1
  <2>3. closeFaults' \in 0..MaxFaults /\ (closeFaults' = 0 => stuck = {} /\ closeFaults = 0)
    BY <1>4, <2>1
  <2>4. closeFaults' = 0 => \A p \in {Src(Subject), Dst(Subject)} : p[2] # 0 => p \notin joined' \cup enabled'
    BY <2>1, <2>3
  <2>5. /\ state' \in [Components -> {"Loaded", "Idle", "Executing"}]
        /\ \A c \in Components : handle'[c] = 0 => state'[c] = "Loaded"
    BY <1>3, StateKept
  <2> QED BY <1>1, <1>2, <1>3, <2>2, <2>3, <2>4, <2>5 DEF Undoing
<1> QED BY <1>5, <1>6

LEMMA DeInitUndoes ==
    ASSUME ChainInv, DeInit
    PROVE  Undoing
<1>1. todo # <<>> /\ Head(todo)[1] = "free" /\ Close /\ Calls("free")
  BY DEF DeInit, Calls
<1>2. phase = "closing" /\ Subject \in Components
  BY <1>1, TodoIs, CallIs DEF Subject
<1> DEFINE own == <<Subject, handle[Subject]>>
<1>3. /\ state' = [state EXCEPT ![Subject] = "Loaded"] /\ handle' = [handle EXCEPT ![Subject] = 0]
      /\ UNCHANGED <<ends, mTunnelSet, closeFaults>>
  BY DEF DeInit, Loaded
<1>5. joined' \subseteq joined /\ enabled' \subseteq enabled /\ Released(own)
  <2>1. CASE /\ held' = held \ {own} /\ UNCHANGED unfreed
             /\ joined' = joined \ PortsOf(Subject, handle[Subject])
             /\ enabled' = enabled \ PortsOf(Subject, handle[Subject])
    BY <2>1 DEF Released
  <2>2. CASE handle[Subject] # 0 /\ unfreed' = unfreed \cup {own} /\ UNCHANGED gpuVars
    <3>1. own \in held
      BY <1>2, <2>2 DEF ChainInv, Numbered
    <3> QED BY <2>2, <3>1 DEF Released, gpuVars
  <2> QED BY <2>1, <2>2 DEF DeInit
<1>4. /\ state' \in [Components -> {"Loaded", "Idle", "Executing"}]
      /\ \A c \in Components : handle'[c] = 0 => state'[c] = "Loaded"
  BY <1>2, <1>3, StateTypes
<1> QED BY <1>1, <1>2, <1>3, <1>4, <1>5, StateTypes DEF Undoing

LEMMA UndoingIs ==
    ASSUME ChainInv, Undoing
    PROVE  /\ todo # <<>> /\ phase = "closing" /\ todo' = Tail(todo) /\ todo \in Seq(AnyCall)
           /\ UNCHANGED <<device, attempts>>
           /\ \/ Tail(todo) = <<>> /\ phase' \in {"closed", "refused"} /\ ~decoder'
              \/ Tail(todo) # <<>> /\ phase' = "closing" /\ mDeInterlace' = mDeInterlace
           /\ decoder' \in BOOLEAN /\ mDeInterlace' \in BOOLEAN /\ (~mDeInterlace => ~mDeInterlace')
           /\ InOrder(Tail(todo))
           /\ \A s \in Items(Tail(todo)) : s[1] \in {"part", "free"} /\ (s[1] = "free" => s[2] \in Chain)
           /\ \A c \in Subjects(todo, "free") : c \in Subjects(Tail(todo), "free") \/ (Calls("free") /\ Subject = c)
           /\ \A c \in Subjects(todo, "part") : c \in Subjects(Tail(todo), "part") \/ (Calls("part") /\ Subject = c)
<1>1. todo # <<>> /\ phase = "closing" /\ todo' = Tail(todo) /\ UNCHANGED <<device, attempts>>
  BY DEF Undoing, Close
<1>2. todo \in Seq(AnyCall) /\ Items(Tail(todo)) \subseteq Items(todo)
  BY <1>1, TodoIs
<1>3. \/ Tail(todo) = <<>> /\ phase' \in {"closed", "refused"} /\ ~decoder'
      \/ Tail(todo) # <<>> /\ phase' = "closing" /\ mDeInterlace' = mDeInterlace
  BY <1>1, DeviceIs DEF Undoing, Close
<1>4. decoder' \in BOOLEAN /\ mDeInterlace' \in BOOLEAN /\ (~mDeInterlace => ~mDeInterlace')
  BY DEF Undoing, Close
<1>5. /\ InOrder(todo)
      /\ \A s \in Items(todo) : s[1] \in {"part", "free"} /\ (s[1] = "free" => s[2] \in Chain)
  BY <1>1 DEF ChainInv, TunnelsKept
<1>6. InOrder(Tail(todo))
  BY <1>1, <1>2, <1>5, InOrderTail
<1>7. /\ \A c \in Subjects(todo, "free") : c \in Subjects(Tail(todo), "free") \/ (Calls("free") /\ Subject = c)
      /\ \A c \in Subjects(todo, "part") : c \in Subjects(Tail(todo), "part") \/ (Calls("part") /\ Subject = c)
  BY <1>1, <1>2, SubjectsOfTail DEF Calls, Subject
<1> QED BY <1>1, <1>2, <1>3, <1>4, <1>5, <1>6, <1>7

LEMMA UndoingHandles ==
    ASSUME ChainInv, Undoing
    PROVE  /\ handle' \in [Components -> 0..MaxAttempts + 1] /\ held' \subseteq held
           /\ unfreed \subseteq unfreed' /\ unfreed' \subseteq unfreed \cup held
           /\ \A c \in Components : handle'[c] = handle[c] \/ handle'[c] = 0
           /\ \A c \in Components : handle'[c] # 0 => <<c, handle'[c]>> \in held'
<1>1. handle \in [Components -> 0..MaxAttempts + 1] /\ MaxAttempts \in Nat
  BY StateTypes
<1>2. \A c \in Components : handle[c] # 0 => <<c, handle[c]>> \in held
  BY DEF ChainInv, Numbered
<1>3. CASE Calls("part") /\ UNCHANGED <<handle, held, unfreed>>
  BY <1>1, <1>2, <1>3
<1>4. CASE handle' = [handle EXCEPT ![Subject] = 0] /\ Released(<<Subject, handle[Subject]>>)
  <2>0. 0 \in 0..MaxAttempts + 1
    BY <1>1
  <2>1. /\ handle' \in [Components -> 0..MaxAttempts + 1] /\ held' \subseteq held
        /\ unfreed \subseteq unfreed' /\ unfreed' \subseteq unfreed \cup held
    BY <1>1, <1>4, <2>0 DEF Released
  <2>2. \A c \in Components : handle'[c] = IF c = Subject THEN 0 ELSE handle[c]
    BY <1>1, <1>4
  <2>3. ASSUME NEW c \in Components, c # Subject, handle[c] # 0 PROVE <<c, handle[c]>> \in held'
    <3>1. <<c, handle[c]>> # <<Subject, handle[Subject]>>
      BY <2>3
    <3> QED BY <1>2, <1>4, <2>3, <3>1 DEF Released
  <2> QED BY <2>1, <2>2, <2>3
<1> QED BY <1>3, <1>4 DEF Undoing

LEMMA UndoingTyped ==
    ASSUME ChainInv, Undoing
    PROVE  Typed' /\ Numbered'
<1>1. /\ todo # <<>> /\ todo' = Tail(todo) /\ todo \in Seq(AnyCall) /\ UNCHANGED <<device, attempts>>
      /\ \/ Tail(todo) = <<>> /\ phase' \in {"closed", "refused"}
         \/ Tail(todo) # <<>> /\ phase' = "closing"
      /\ decoder' \in BOOLEAN /\ mDeInterlace' \in BOOLEAN /\ (~mDeInterlace => ~mDeInterlace')
  BY UndoingIs
<1>2. /\ handle' \in [Components -> 0..MaxAttempts + 1] /\ held' \subseteq held
      /\ \A c \in Components : handle'[c] = handle[c] \/ handle'[c] = 0
      /\ \A c \in Components : handle'[c] # 0 => <<c, handle'[c]>> \in held'
  BY UndoingHandles
<1>3. todo' \in Seq(AnyCall)
  BY <1>1, TodoIs
<1>4. (todo' # <<>>) = (phase' \in Busy) /\ phase' \in Busy \cup {"new", "open", "closed", "refused", "crashed"}
  BY <1>1 DEF Busy
<1>5. mTunnelSet' \subseteq mTunnelSet
  BY DEF Undoing
<1>6. UNCHANGED <<ends, result, faults, refused, lame, mistaken>>
  BY DEF Undoing, Close
<1>7. TypeOK'
  <2>1. /\ state' \in [Components -> {"Loaded", "Idle", "Executing"}]
        /\ \A c \in Components : handle'[c] = 0 => state'[c] = "Loaded"
        /\ closeFaults' \in 0..MaxFaults
    BY DEF Undoing
  <2>2. /\ result' \in {"none", "true", "false"} /\ {decoder', refused', mDeInterlace', lame', mistaken'} \subseteq BOOLEAN
        /\ mTunnelSet' \subseteq Tunnels /\ held' \subseteq Components \X (1..MaxAttempts + 1) /\ faults' \in 0..MaxFaults
        /\ unfreed' \subseteq Components \X (1..MaxAttempts + 1)
    BY <1>1, <1>2, <1>5, <1>6, UndoingHandles DEF ChainInv, Typed, TypeOK
  <2> QED BY <1>2, <1>4, <2>1, <2>2 DEF TypeOK, Busy
<1>8. Typed'
  BY <1>1, <1>3, <1>5, <1>6, <1>7, DeviceFixed DEF ChainInv, Typed
<1>9. Numbered'
  <2>1. "decoder" \in Components /\ attempts \in Nat
    BY DeviceIs DEF Components
  <2>2. /\ \A c \in Components : handle[c] <= attempts + 1
        /\ \A c \in Components \ {"decoder"} : handle[c] # 1
        /\ handle["decoder"] \in {0, 1}
        /\ \A h \in held : h[1] \in Chain /\ h[2] <= attempts + 1 /\ (h[1] = "decoder" => h[2] = 1)
        /\ \A p \in joined : p[2] \in Nat /\ p[2] <= attempts + 1
    BY DEF ChainInv, Numbered
  <2>3. \A c \in Components : handle'[c] <= attempts + 1
    BY <1>2, <2>1, <2>2
  <2>4. /\ \A c \in Components \ {"decoder"} : handle'[c] # 1
        /\ handle'["decoder"] \in {0, 1}
    BY <1>2, <2>1, <2>2
  <2>5. Chain' = Chain /\ joined' \subseteq joined
    BY <1>1, DeviceFixed DEF Undoing
  <2> QED BY <1>1, <1>2, <2>2, <2>3, <2>4, <2>5 DEF Numbered
<1> QED BY <1>8, <1>9

LEMMA UndoingHeld ==
    ASSUME ChainInv, Undoing
    PROVE  HandlesKept'
<1>1. /\ todo # <<>> /\ phase = "closing" /\ todo' = Tail(todo) /\ UNCHANGED <<device, attempts>>
      /\ \/ Tail(todo) = <<>> /\ phase' \in {"closed", "refused"}
         \/ Tail(todo) # <<>> /\ phase' = "closing"
      /\ \A c \in Subjects(todo, "free") : c \in Subjects(Tail(todo), "free") \/ (Calls("free") /\ Subject = c)
  BY UndoingIs
<1> SUFFICES ASSUME NEW h \in held', Owned(h), h \notin unfreed'
             PROVE  handle'[h[1]] = h[2] /\ h[1] \in Subjects(todo', "free") /\ todo' # <<>>
  BY <1>1, UndoingHandles, DeviceFixed DEF HandlesKept, Owned, Gone
<1>2. h \in held /\ h[1] \in Components /\ h = <<h[1], h[2]>>
  BY UndoingHandles DEF ChainInv, Typed, TypeOK
<1>3. handle[h[1]] = h[2] /\ h[1] \in Subjects(todo, "free")
  BY <1>1, <1>2 DEF ChainInv, HandlesKept
<1>4. Calls("free") => h[1] # Subject /\ handle' = [handle EXCEPT ![Subject] = 0]
  BY <1>2, <1>3 DEF Undoing, Calls, Released
<1>5. ~Calls("free") => handle' = handle
  BY DEF Undoing
<1>6. handle'[h[1]] = h[2]
  BY <1>2, <1>3, <1>4, <1>5, StateTypes
<1>7. h[1] \in Subjects(Tail(todo), "free")
  BY <1>1, <1>3, <1>4
<1>8. Tail(todo) # <<>>
  BY <1>7, SubjectsOfEmpty
<1> QED BY <1>1, <1>6, <1>7, <1>8

LEMMA UndoingClock ==
    ASSUME ChainInv, Undoing
    PROVE  ClockUsed'
<1>1. /\ todo # <<>> /\ phase = "closing" /\ todo' = Tail(todo) /\ UNCHANGED <<device, attempts>>
      /\ \/ Tail(todo) = <<>> /\ phase' \in {"closed", "refused"}
         \/ Tail(todo) # <<>> /\ phase' = "closing"
      /\ \A c \in Subjects(todo, "part") : c \in Subjects(Tail(todo), "part") \/ (Calls("part") /\ Subject = c)
  BY UndoingIs
<1>2. ASSUME closeFaults' = 0, NEW p \in (joined' \cup enabled') \cap ClockPorts
      PROVE  \E t \in mTunnelSet' \cap ClockTunnels : p = Src(t)'
  <2>1. closeFaults = 0 /\ p \in joined \cup enabled /\ p[2] = 1
    BY <1>2 DEF Undoing, ClockPorts, PortsOf
  <2>2. PICK t \in mTunnelSet \cap ClockTunnels : p = Src(t)
    BY <1>2, <2>1 DEF ChainInv, ClockUsed
  <2>3. t \in Tunnels /\ ends' = ends
    BY <2>2 DEF ChainInv, Typed, TypeOK, Undoing
  <2>4. Src(t)' = Src(t)
    BY <1>1, <1>2, <2>2, <2>3, ClockStays
  <2>5. t \in mTunnelSet'
    BY <1>2, <2>1, <2>2 DEF Undoing
  <2> QED BY <2>2, <2>4, <2>5
<1>3. mTunnelSet' \cap ClockTunnels \subseteq Subjects(todo', "part")
  <2> SUFFICES ASSUME NEW t \in mTunnelSet' \cap ClockTunnels PROVE t \in Subjects(Tail(todo), "part")
    BY <1>1
  <2>1. t \in mTunnelSet /\ (Calls("part") => t # Subject)
    BY DEF Undoing, Calls
  <2>2. t \in Subjects(todo, "part")
    BY <1>1, <2>1 DEF ChainInv, ClockUsed
  <2> QED BY <1>1, <2>1, <2>2
<1>4. Tail(todo) = <<>> => mTunnelSet' \cap ClockTunnels = {}
  BY <1>1, <1>3, SubjectsOfEmpty
<1> QED BY <1>1, <1>2, <1>3, <1>4 DEF ClockUsed, Gone, ClockPorts, PortsOf

LEMMA UndoingTunnels ==
    ASSUME ChainInv, Undoing
    PROVE  TunnelsKept'
<1>1. /\ todo # <<>> /\ phase = "closing" /\ todo' = Tail(todo) /\ UNCHANGED <<device, attempts>>
      /\ \/ Tail(todo) = <<>> /\ phase' \in {"closed", "refused"} /\ ~decoder'
         \/ Tail(todo) # <<>> /\ phase' = "closing" /\ mDeInterlace' = mDeInterlace
      /\ InOrder(Tail(todo))
      /\ \A s \in Items(Tail(todo)) : s[1] \in {"part", "free"} /\ (s[1] = "free" => s[2] \in Chain)
      /\ \A c \in Subjects(todo, "part") : c \in Subjects(Tail(todo), "part") \/ (Calls("part") /\ Subject = c)
  BY UndoingIs
<1>2. ASSUME closeFaults' = 0, phase' = "closing", NEW p \in joined', Current(p)'
      PROVE  \E t \in mTunnelSet' : JoinedBy(p, t)'
  <2>1. closeFaults = 0 /\ p \in joined
    BY <1>2 DEF Undoing
  <2>2. p[2] # 0 /\ p[1] \in Components /\ p[2] = handle'[p[1]] /\ (attempts <= 1 \/ p[1] # "imageFx")
    BY <1>1, <1>2 DEF Current
  <2>3. handle'[p[1]] = handle[p[1]]
    BY <2>2, UndoingHandles
  <2>4. Current(p)
    BY <2>2, <2>3 DEF Current
  <2>5. PICK t \in mTunnelSet : JoinedBy(p, t)
    BY <1>1, <2>1, <2>4 DEF ChainInv, TunnelsKept, Gone
  <2>6. t \in mTunnelSet'
    BY <1>2, <2>2, <2>5 DEF Undoing, JoinedBy
  <2>7. p \in {Src(t)', Dst(t)'}
    BY <2>3, <2>5, PortStays DEF JoinedBy, Undoing
  <2>8. JoinedBy(p, t)'
    BY <1>1, <1>2, <2>5, <2>6, <2>7 DEF JoinedBy
  <2> QED BY <2>6, <2>8
<1>3. ASSUME phase' = "closing"
      PROVE  mTunnelSet' \subseteq Subjects(todo', "part") \cup (IF mDeInterlace' THEN {} ELSE {"imageFx"})
  <2> SUFFICES ASSUME NEW t \in mTunnelSet', t # "imageFx" \/ mDeInterlace PROVE t \in Subjects(Tail(todo), "part")
    BY <1>1, <1>3
  <2>1. t \in mTunnelSet /\ (Calls("part") => t # Subject)
    BY DEF Undoing, Calls
  <2>2. t \in Subjects(todo, "part")
    BY <1>1, <2>1 DEF ChainInv, TunnelsKept
  <2> QED BY <1>1, <2>1, <2>2
<1>4. Chain' = Chain
  BY <1>1, DeviceFixed
<1>5. phase' = "closing" \/ Gone'
  BY <1>1 DEF Gone
<1> QED BY <1>1, <1>2, <1>3, <1>4, <1>5 DEF TunnelsKept, Gone

-----------------------------------------------------------------------------
(* The player                                                                *)

LEMMA OpenKeeps ==
    ASSUME ChainInv, Open
    PROVE  ChainInv'
<1>1. /\ phase = "new" /\ phase' = "opening" /\ todo' = OpenPlan /\ decoder' = TRUE
      /\ UNCHANGED <<device, refused, mDeInterlace, result, attempts, changes, faults, closeFaults, unfreed, lame, mistaken>>
      /\ UNCHANGED <<handle, state, ends, mTunnelSet, held, joined, enabled>>
  BY DEF Open, Rest, gpuVars
<1>2. attempts = 0 /\ held = {} /\ joined = {} /\ enabled = {} /\ mTunnelSet = {}
  BY <1>1 DEF ChainInv, Before
<1>3. Opening(OpenPlan) /\ OpenPlan # <<>> /\ Head(OpenPlan)[1] = "init"
  BY OpenPlanIsFit
<1>4. Typed'
  <2>1. TypeOK'
    BY <1>1, <1>3 DEF ChainInv, Typed, TypeOK, Busy
  <2> QED BY <1>1, <1>3, <2>1, DeviceFixed DEF ChainInv, Typed, Opening
<1>5. Numbered'
  BY <1>1, DeviceFixed DEF ChainInv, Numbered
<1>6. Before'
  BY <1>1, <1>2, <1>3 DEF Before, OnlyDecoder, Opening
<1>7. WhileWiring' /\ WhenOpen' /\ MixerFirst' /\ HandlesKept' /\ ClockUsed' /\ TunnelsKept'
  BY <1>1, <1>2 DEF WhileWiring, WhenOpen, MixerFirst, HandlesKept, ClockUsed, TunnelsKept, Gone
<1> QED BY <1>4, <1>5, <1>6, <1>7 DEF ChainInv

\* The player gives up what it has: it closes, or the program has ended or closed it before.
Leaving ==
    /\ UNCHANGED <<device, mDeInterlace, result, attempts, changes, closeFaults, unfreed, lame, mistaken>>
    /\ UNCHANGED <<handle, state, ends, mTunnelSet, held, joined, enabled>>
    /\ faults' \in 0..MaxFaults /\ refused' \in BOOLEAN /\ decoder' \in BOOLEAN
    /\ \/ phase' = "closing" /\ todo' = ClosePlan /\ phase \in {"new", "open"}
       \/ phase' = "crashed" /\ todo = <<>> /\ todo' = <<>>
       \/ phase' = "refused" /\ todo = <<>> /\ todo' = <<>> /\ phase = "new" /\ ~decoder'

LEMMA LeavingKeeps ==
    ASSUME ChainInv, Leaving
    PROVE  ChainInv'
<1>1. /\ UNCHANGED <<device, mDeInterlace, result, attempts, changes, closeFaults, unfreed, lame, mistaken>>
      /\ UNCHANGED <<handle, state, ends, mTunnelSet, held, joined, enabled>>
      /\ faults' \in 0..MaxFaults /\ refused' \in BOOLEAN /\ decoder' \in BOOLEAN
      /\ \/ phase' = "closing" /\ todo' = ClosePlan /\ phase \in {"new", "open"}
         \/ phase' = "crashed" /\ todo = <<>> /\ todo' = <<>>
         \/ phase' = "refused" /\ todo = <<>> /\ todo' = <<>> /\ phase = "new" /\ ~decoder'
  BY DEF Leaving
<1>2. Closes(ClosePlan) /\ ClosePlan \in Seq(AnyCall) /\ ClosePlan # <<>>
  BY DeviceIs, ClosePlanCloses DEF Closes, Closing
<1>3. phase' \in {"closing", "crashed", "refused"}
  BY <1>1
<1>4. todo' \in Seq(AnyCall) /\ (todo' # <<>>) = (phase' \in Busy)
  <2>1. CASE phase' = "closing"
    BY <1>1, <1>2, <2>1 DEF Busy
  <2>2. CASE phase' \in {"crashed", "refused"}
    <3>1. todo' = <<>> /\ <<>> \in Seq(AnyCall)
      BY <1>1, <2>2
    <3> QED BY <2>2, <3>1 DEF Busy
  <2> QED BY <1>3, <2>1, <2>2
<1>5. Typed'
  <2>1. TypeOK'
    BY <1>1, <1>3, <1>4 DEF ChainInv, Typed, TypeOK, Busy
  <2> QED BY <1>1, <1>4, <2>1, DeviceFixed DEF ChainInv, Typed
<1>6. Numbered'
  BY <1>1, DeviceFixed DEF ChainInv, Numbered
<1>7. Before' /\ WhileWiring' /\ WhenOpen' /\ MixerFirst'
  BY <1>3 DEF Before, WhileWiring, WhenOpen, MixerFirst
<1>8. Chain' = Chain
  BY <1>1, DeviceFixed
<1>9. phase' = "refused" => held = {} /\ joined = {} /\ mTunnelSet = {} /\ ~decoder'
  BY <1>1 DEF ChainInv, Before
<1>10. HandlesKept'
  <2> SUFFICES ASSUME NEW h \in held, Owned(h)
               PROVE  handle[h[1]] = h[2] /\ ~Gone' /\ (phase' = "closing" => h[1] \in Subjects(todo', "free"))
    BY <1>1, DeviceFixed DEF HandlesKept, Owned
  <2>1. handle[h[1]] = h[2] /\ h[1] \in Chain
    BY DEF ChainInv, HandlesKept, Numbered
  <2>2. ~Gone'
    BY <1>3, <1>9 DEF Gone
  <2> QED BY <1>1, <1>2, <2>1, <2>2 DEF Closes
<1>11. UNCHANGED <<handle, ends>> => \A t : Src(t)' = Src(t) /\ Dst(t)' = Dst(t)
  BY DEF Src, Dst, Port, Serial
<1>12. ClockUsed'
  <2>1. phase' = "closing" => mTunnelSet \cap ClockTunnels \subseteq Subjects(todo', "part")
    BY <1>1, <1>2 DEF Closes, ChainInv, Typed, ClockTunnels
  <2>2. Gone' => mTunnelSet \cap ClockTunnels = {}
    BY <1>3, <1>9 DEF Gone
  <2> QED BY <1>1, <1>11, <2>1, <2>2 DEF ChainInv, ClockUsed, ClockPorts, PortsOf
<1>13. TunnelsKept'
  <2>1. phase' = "closing" =>
          /\ InOrder(todo')
          /\ \A s \in Items(todo') : s[1] \in {"part", "free"} /\ (s[1] = "free" => s[2] \in Chain)
          /\ mTunnelSet \subseteq Subjects(todo', "part") \cup (IF mDeInterlace THEN {} ELSE {"imageFx"})
    BY <1>1, <1>2 DEF Closes, Closing, ChainInv, Typed
  <2>2. ASSUME closeFaults = 0, phase' = "closing", NEW p \in joined, Current(p)' PROVE \E t \in mTunnelSet : JoinedBy(p, t)'
    <3>1. Current(p) /\ phase \in {"new", "open"}
      BY <1>1, <2>2 DEF Current
    <3>2. PICK t \in mTunnelSet : JoinedBy(p, t)
      BY <2>2, <3>1 DEF ChainInv, TunnelsKept, Gone
    <3> QED BY <1>1, <1>11, <2>2, <3>2 DEF JoinedBy
  <2> QED BY <1>1, <1>3, <1>8, <1>9, <2>1, <2>2 DEF TunnelsKept, Gone
<1> QED BY <1>5, <1>6, <1>7, <1>10, <1>12, <1>13 DEF ChainInv

LEMMA DeletePlayerLeaves ==
    ASSUME ChainInv, DeletePlayer
    PROVE  Leaving
<1>1. todo = <<>>
  BY DEF DeletePlayer, ChainInv, Typed, TypeOK, Busy
<1>2. phase = "refused" => ~decoder
  BY DEF ChainInv, TunnelsKept, Gone
<1>3. faults' \in 0..MaxFaults /\ refused' \in BOOLEAN /\ decoder' \in BOOLEAN
  BY DEF DeletePlayer, ChainInv, Typed, TypeOK
<1> QED BY <1>1, <1>2, <1>3 DEF DeletePlayer, Leaving, Rest, gpuVars

LEMMA OpenUnsupportedLeaves ==
    ASSUME ChainInv, OpenUnsupported
    PROVE  Leaving
<1>1. todo = <<>> /\ ~decoder /\ decoder \in BOOLEAN
  BY DEF OpenUnsupported, ChainInv, Typed, TypeOK, Busy, Before
<1>2. faults' \in 0..MaxFaults
  BY Faulty DEF OpenUnsupported
<1>3. /\ phase = "new" /\ refused' = TRUE
      /\ UNCHANGED <<device, mDeInterlace, result, attempts, changes, closeFaults, unfreed, lame, mistaken>>
      /\ UNCHANGED <<handle, state, ends, mTunnelSet, held, joined, enabled>>
  BY DEF OpenUnsupported, Rest, gpuVars
<1>4. \/ phase' = "refused" /\ decoder' = decoder /\ todo' = todo
      \/ phase' = "closing" /\ decoder' = TRUE /\ todo' = ClosePlan
      \/ phase' = "crashed" /\ decoder' = TRUE /\ todo' = todo
  BY DEF OpenUnsupported
<1>5. decoder' \in BOOLEAN
  BY <1>1, <1>4
<1>6. \/ phase' = "closing" /\ todo' = ClosePlan /\ phase \in {"new", "open"}
      \/ phase' = "crashed" /\ todo = <<>> /\ todo' = <<>>
      \/ phase' = "refused" /\ todo = <<>> /\ todo' = <<>> /\ phase = "new" /\ ~decoder'
  BY <1>1, <1>3, <1>4
<1> QED BY <1>2, <1>3, <1>5, <1>6 DEF Leaving

\* srcChanged, that begins a wiring.
LEMMA WiringBegins ==
    ASSUME ChainInv, SrcChanged, NEW d \in Interlaced, todo' = IF IsVideo THEN VideoPlan(d) ELSE AudioPlan
    PROVE  Complete(todo', d) /\ Wiring(d)'
<1>1. /\ phase = "open" /\ ~IsWired /\ attempts < MaxAttempts /\ phase' = "wiring" /\ attempts' = attempts + 1
      /\ UNCHANGED <<device, decoder, refused, mDeInterlace, result, changes, faults, closeFaults, unfreed, lame, mistaken>>
      /\ UNCHANGED <<handle, state, ends, mTunnelSet, held, joined, enabled>>
  BY DEF SrcChanged, Rest, gpuVars
<1>2. d \in BOOLEAN /\ attempts \in Nat /\ MaxAttempts \in Nat
  BY InterlacedAssumption, BoundsAssumption, DeviceIs
<1>3. Complete(todo', d)
  BY <1>2, VideoPlanIsComplete, AudioPlanIsComplete, DeviceIs
<1>4. /\ todo' \in Seq(AnyCall) /\ todo' # <<>> /\ InOrder(todo') /\ \A s \in Items(todo') : Fits(s, d)
      /\ \A t \in Tunnels : After(todo', {"enable"}, "setup", t, FALSE)
      /\ \A t \in Tunnels : After(todo', OfTunnel, "tunnel", t, FALSE)
      /\ \A c \in Members(d) \ {"decoder"} : Do("init", c) \in Items(todo')
      /\ IsVideo => \E s \in Items(todo') : s[1] = "interlace"
      /\ ~IsVideo => Head(todo') = Do("init", "mixer")
  BY <1>3 DEF Complete, Good, EndsFirst
<1>5. /\ \A h \in held : h[2] <= attempts + 1 /\ h[1] \in Components
      /\ \A p \in joined : p[2] \in Nat /\ p[2] <= attempts + 1
      /\ \A c \in Components : handle[c] <= attempts + 1 /\ handle[c] \in Nat
  BY DeviceIs DEF ChainInv, Numbered
<1>6. attempts + 1 # attempts + 2 /\ attempts + 1 # 0 /\ attempts' \in 0..MaxAttempts
  BY <1>1, <1>2
<1>7. handle'["decoder"] # 0 /\ attempts' # 0
  BY <1>1, <1>6 DEF ChainInv, WhenOpen
<1>8. \A c \in Members(d) \ {"decoder"} : c \in Subjects(todo', "init")
  <2> SUFFICES ASSUME NEW c \in Members(d) \ {"decoder"} PROVE c \in Subjects(todo', "init")
    OBVIOUS
  <2>1. c \in Components /\ Do("init", c) \in Items(todo')
    BY <1>2, <1>4, DeviceIs
  <2> QED BY <2>1, SubjectIs
<1>9. \A c : <<c, attempts' + 1>> \notin held'
  <2> SUFFICES ASSUME NEW c, <<c, attempts' + 1>> \in held PROVE FALSE
    BY <1>1
  <2> DEFINE h == <<c, attempts' + 1>>
  <2>1. h[2] = attempts + 2
    BY <1>1, <1>2
  <2>2. h \in held
    OBVIOUS
  <2> HIDE DEF h
  <2>3. attempts + 2 <= attempts + 1
    BY <1>5, <2>1, <2>2
  <2> QED BY <1>2, <2>3
<1>10. \A p \in joined' : p[2] <= attempts'
  BY <1>1, <1>5
<1>11. \A t \in Tunnels : After(todo', {"enable"}, "setup", t, t \in mTunnelSet')
  BY <1>4, AfterWeaker
<1>12. \A t \in Tunnels :
        After(todo', OfTunnel, "tunnel", t, ends'[t][1] \in Members(d) \cup {Clock} /\ ends'[t][3] \in Members(d))
  <2> SUFFICES ASSUME NEW t \in Tunnels
               PROVE  After(todo', OfTunnel, "tunnel", t, ends'[t][1] \in Members(d) \cup {Clock} /\ ends'[t][3] \in Members(d))
    OBVIOUS
  <2> DEFINE later == ends'[t][1] \in Members(d) \cup {Clock} /\ ends'[t][3] \in Members(d)
  <2>1. After(todo', OfTunnel, "tunnel", t, FALSE)
    BY <1>4
  <2> HIDE DEF later
  <2>2. After(todo', OfTunnel, "tunnel", t, later)
    BY <2>1, AfterWeaker
  <2> QED BY <2>2 DEF later
<1>13. Members(d)' = Members(d) /\ (\A s : Fits(s, d)' <=> Fits(s, d)) /\ (IsVideo' <=> IsVideo)
  BY <1>1, DeviceFixed
<1>14. Wiring(d)'
  BY <1>4, <1>7, <1>8, <1>9, <1>10, <1>11, <1>12, <1>13 DEF Wiring
<1> QED BY <1>3, <1>14

LEMMA SrcChangedKeeps ==
    ASSUME ChainInv, SrcChanged
    PROVE  ChainInv'
<1>1. /\ phase = "open" /\ ~IsWired /\ attempts < MaxAttempts /\ phase' = "wiring" /\ attempts' = attempts + 1
      /\ UNCHANGED <<device, decoder, refused, mDeInterlace, result, changes, faults, closeFaults, unfreed, lame, mistaken>>
      /\ UNCHANGED <<handle, state, ends, mTunnelSet, held, joined, enabled>>
  BY DEF SrcChanged, Rest, gpuVars
<1>2. PICK d \in Interlaced : todo' = IF IsVideo THEN VideoPlan(d) ELSE AudioPlan
  BY DEF SrcChanged
<1>3. d \in BOOLEAN /\ attempts \in Nat /\ MaxAttempts \in Nat
  BY InterlacedAssumption, BoundsAssumption, DeviceIs
<1>4. Complete(todo', d) /\ Wiring(d)'
  BY <1>2, WiringBegins
<1>5. /\ todo' \in Seq(AnyCall) /\ todo' # <<>> /\ InOrder(todo') /\ \A s \in Items(todo') : Fits(s, d)
      /\ \A t \in Tunnels : After(todo', {"enable"}, "setup", t, FALSE)
      /\ \A t \in Tunnels : After(todo', OfTunnel, "tunnel", t, FALSE)
      /\ \A c \in Members(d) \ {"decoder"} : Do("init", c) \in Items(todo')
      /\ IsVideo => \E s \in Items(todo') : s[1] = "interlace"
      /\ ~IsVideo => Head(todo') = Do("init", "mixer")
  BY <1>4 DEF Complete, Good, EndsFirst
<1>6. /\ \A h \in held : h[2] <= attempts + 1 /\ h[1] \in Components
      /\ \A p \in joined : p[2] \in Nat /\ p[2] <= attempts + 1
      /\ \A c \in Components : handle[c] <= attempts + 1 /\ handle[c] \in Nat
  BY DeviceIs DEF ChainInv, Numbered
<1>7. attempts + 1 # attempts + 2 /\ attempts + 1 # 0 /\ attempts' \in 0..MaxAttempts
  BY <1>1, <1>3
<1>8. Typed'
  <2>1. TypeOK'
    BY <1>1, <1>5 DEF ChainInv, Typed, TypeOK, Busy
  <2> QED BY <1>1, <1>5, <1>7, <2>1, DeviceFixed DEF ChainInv, Typed
<1>9. Numbered'
  <2>1. \A c \in Components : handle[c] <= attempts' + 1
    BY <1>1, <1>3, <1>6
  <2>2. \A h \in held : h[2] \in Nat => h[2] <= attempts' + 1
    BY <1>1, <1>3, <1>6
  <2>3. \A h \in held : h[2] \in Nat
    BY <1>3 DEF ChainInv, Typed, TypeOK
  <2>4. \A p \in joined : p[2] \in Nat /\ p[2] <= attempts' + 1
    BY <1>1, <1>3, <1>6
  <2>5. Chain' = Chain
    BY <1>1, DeviceFixed
  <2> QED BY <1>1, <2>1, <2>2, <2>3, <2>4, <2>5 DEF ChainInv, Numbered
<1>10. Before' /\ WhenOpen'
  BY <1>1 DEF Before, WhenOpen
<1>11. OnlyDecoder \/ IsVideo
  BY <1>1 DEF ChainInv, MixerFirst, IsWired
<1>12. \A h \in held : h[1] = "decoder" => h[2] = 1
  BY DEF ChainInv, Numbered
<1>13. WhileWiring'
  BY <1>3, <1>4 DEF WhileWiring
<1>14. MixerFirst'
  <2> SUFFICES ASSUME ~IsVideo
               PROVE  Head(todo') = Do("init", "mixer") /\ OnlyDecoder' /\ \A h \in held' : h[1] = "decoder"
    BY <1>1, DeviceFixed DEF MixerFirst
  <2> QED BY <1>1, <1>5, <1>11 DEF OnlyDecoder
<1>15. HandlesKept'
  <2> SUFFICES ASSUME NEW h \in held, Owned(h)' PROVE handle[h[1]] = h[2]
    BY <1>1 DEF HandlesKept, Gone
  <2>1. Owned(h)
    <3>1. IsVideo' <=> IsVideo
      BY <1>1, DeviceFixed
    <3>2. h[2] # attempts + 1 + 1
      <4>1. h[2] \in Nat
        BY <1>3 DEF ChainInv, Typed, TypeOK
      <4> QED BY <1>3, <1>6, <4>1
    <3> QED BY <1>1, <3>1, <3>2 DEF Owned
  <2> QED BY <2>1 DEF ChainInv, HandlesKept
<1>16. \A t : Src(t)' = Src(t) /\ Dst(t)' = Dst(t)
  BY <1>1 DEF Src, Dst, Port, Serial
<1>17. ClockUsed'
  BY <1>1, <1>16 DEF ChainInv, ClockUsed, ClockPorts, PortsOf, Gone
<1>18. TunnelsKept'
  <2> SUFFICES ASSUME closeFaults = 0, NEW p \in joined, Current(p)' PROVE \E t \in mTunnelSet : JoinedBy(p, t)'
    BY <1>1 DEF TunnelsKept, Gone
  <2>1. Current(p)
    BY <1>1, <1>3 DEF Current
  <2>2. PICK t \in mTunnelSet : JoinedBy(p, t)
    BY <1>1, <2>1 DEF ChainInv, TunnelsKept, Gone
  <2>3. p[2] # attempts' + 1
    <3>1. p[2] = handle[p[1]] /\ p[1] \in Components
      BY <2>1 DEF Current
    <3> QED BY <1>1, <1>3, <1>6, <3>1
  <2> QED BY <1>1, <1>16, <2>2, <2>3 DEF JoinedBy
<1> QED BY <1>8, <1>9, <1>10, <1>13, <1>14, <1>15, <1>17, <1>18 DEF ChainInv

LEMMA SrcChangedAgainKeeps ==
    ASSUME ChainInv, SrcChangedAgain
    PROVE  ChainInv'
<1>1. /\ phase = "open" /\ result' = "true" /\ mistaken' \in BOOLEAN /\ lame' \in BOOLEAN
      /\ faults' \in 0..MaxFaults
      /\ UNCHANGED <<phase, device, todo, decoder, refused, mDeInterlace, handle, state, ends, mTunnelSet,
                     held, joined, attempts, closeFaults, unfreed>>
  <2>1. lame \in BOOLEAN /\ mistaken \in BOOLEAN
    BY DEF ChainInv, Typed, TypeOK
  <2>2. faults' \in 0..MaxFaults
    BY Faulty DEF SrcChangedAgain
  <2>3. lame' \in BOOLEAN
    BY <2>1 DEF SrcChangedAgain
  <2> QED BY <2>1, <2>2, <2>3 DEF SrcChangedAgain
<1>2. enabled' \subseteq enabled \cup {Port("decoder", "out")}
  BY DEF SrcChangedAgain
<1>3. Port("decoder", "out") \notin ClockPorts
  BY NotClock DEF Components
<1>4. Typed'
  <2>1. TypeOK'
    BY <1>1 DEF ChainInv, Typed, TypeOK, Busy
  <2> QED BY <1>1, <2>1, DeviceFixed DEF ChainInv, Typed
<1>5. Numbered'
  BY <1>1, DeviceFixed DEF ChainInv, Numbered
<1>6. Before' /\ WhileWiring' /\ WhenOpen'
  BY <1>1 DEF Before, WhileWiring, ChainInv, WhenOpen
<1>7. MixerFirst' /\ HandlesKept'
  BY <1>1, DeviceFixed DEF ChainInv, MixerFirst, OnlyDecoder, HandlesKept, Owned, Gone
<1>8. \A t : Src(t)' = Src(t) /\ Dst(t)' = Dst(t)
  BY <1>1 DEF Src, Dst, Port, Serial
<1>9. ClockUsed'
  BY <1>1, <1>2, <1>3, <1>8 DEF ChainInv, ClockUsed, ClockPorts, PortsOf, Gone
<1>10. TunnelsKept'
  <2> SUFFICES ASSUME closeFaults = 0, NEW p \in joined, Current(p)' PROVE \E t \in mTunnelSet : JoinedBy(p, t)'
    BY <1>1 DEF TunnelsKept, Gone
  <2>1. Current(p)
    BY <1>1 DEF Current
  <2>2. PICK t \in mTunnelSet : JoinedBy(p, t)
    BY <1>1, <2>1 DEF ChainInv, TunnelsKept, Gone
  <2> QED BY <1>1, <1>8, <2>2 DEF JoinedBy
<1> QED BY <1>4, <1>5, <1>6, <1>7, <1>9, <1>10 DEF ChainInv

-----------------------------------------------------------------------------
(* The theorems                                                              *)

LEMMA InitIsFine ==
    ASSUME Init
    PROVE  ChainInv
<1>1. Typed
  <2>1. TypeOK
    <3>1. (todo # <<>>) = (phase \in Busy) /\ phase \in Busy \cup {"new", "open", "closed", "refused", "crashed"}
      BY DEF Init, Busy
    <3>2. handle \in [Components -> 0..MaxAttempts + 1] /\ state \in [Components -> {"Loaded", "Idle", "Executing"}]
      <4>1. 0 \in 0..MaxAttempts + 1
        BY BoundsAssumption
      <4> QED BY <4>1 DEF Init
    <3>3. faults \in 0..MaxFaults /\ closeFaults \in 0..MaxFaults
      BY BoundsAssumption DEF Init
    <3> QED BY <3>1, <3>2, <3>3 DEF Init, TypeOK
  <2>2. <<>> \in Seq(AnyCall) /\ 0 \in 0..MaxAttempts
    BY BoundsAssumption
  <2> QED BY <2>1, <2>2, DevicesAssumption DEF Init, Typed, NoEnds
<1>2. Numbered
  BY DEF Init, Numbered, Components
<1>3. Before /\ WhileWiring /\ WhenOpen /\ MixerFirst /\ HandlesKept /\ ClockUsed /\ TunnelsKept
  BY DEF Init, Before, WhileWiring, WhenOpen, MixerFirst, HandlesKept, ClockUsed, TunnelsKept, Gone
<1> QED BY <1>1, <1>2, <1>3 DEF ChainInv

LEMMA AdvancingKeeps ==
    ASSUME ChainInv, Advancing
    PROVE  ChainInv'
BY AdvancingTyped, AdvancingNumbered, AdvancingBefore, AdvancingWiring, AdvancingOpen, AdvancingMixer,
   AdvancingHandles, AdvancingClock, AdvancingTunnels DEF ChainInv

LEMMA AbortingKeeps ==
    ASSUME ChainInv, Aborting
    PROVE  ChainInv'
BY AbortingTyped, AbortingOpen, AbortingHandles, AbortingTunnels DEF ChainInv

LEMMA UndoingKeeps ==
    ASSUME ChainInv, Undoing
    PROVE  ChainInv'
<1>1. phase' \in {"closing", "closed", "refused"}
  BY UndoingIs
<1>2. Before' /\ WhileWiring' /\ WhenOpen' /\ MixerFirst'
  BY <1>1 DEF Before, WhileWiring, WhenOpen, MixerFirst
<1> QED BY <1>2, UndoingTyped, UndoingHeld, UndoingClock, UndoingTunnels DEF ChainInv

LEMMA StutterKeeps ==
    ASSUME ChainInv, UNCHANGED vars
    PROVE  ChainInv'
<1>1. /\ UNCHANGED <<phase, device, todo, decoder, refused, mDeInterlace, result, handle, state, ends, mTunnelSet>>
      /\ UNCHANGED <<held, joined, enabled, attempts, changes, faults, closeFaults, unfreed, lame, mistaken>>
  BY DEF vars, gpuVars
<1>2. Typed' /\ Numbered'
  <2>1. TypeOK'
    BY <1>1 DEF ChainInv, Typed, TypeOK, Busy
  <2> QED BY <1>1, <2>1, DeviceFixed DEF ChainInv, Typed, Numbered
<1>3. Before' /\ WhenOpen'
  BY <1>1 DEF ChainInv, Before, WhenOpen, OnlyDecoder, ClockPorts, PortsOf
<1>4. WhileWiring'
  <2> SUFFICES ASSUME phase = "wiring" PROVE \E d \in BOOLEAN : Wiring(d)'
    BY <1>1 DEF WhileWiring
  <2>1. PICK d \in BOOLEAN : Wiring(d)
    BY DEF ChainInv, WhileWiring
  <2>2. Members(d)' = Members(d) /\ (\A s : Fits(s, d)' <=> Fits(s, d)) /\ (IsVideo' <=> IsVideo)
    BY <1>1, DeviceFixed
  <2>3. Wiring(d)'
    BY <1>1, <2>1, <2>2 DEF Wiring
  <2> QED BY <2>3
<1>5. MixerFirst' /\ HandlesKept'
  BY <1>1, DeviceFixed DEF ChainInv, MixerFirst, OnlyDecoder, HandlesKept, Owned, Gone
<1>6. \A t : Src(t)' = Src(t) /\ Dst(t)' = Dst(t)
  BY <1>1 DEF Src, Dst, Port, Serial
<1>7. ClockUsed'
  BY <1>1, <1>6 DEF ChainInv, ClockUsed, ClockPorts, PortsOf, Gone
<1>8. Chain' = Chain
  BY <1>1, DeviceFixed
<1>9. TunnelsKept'
  <2>1. \A p : Current(p)' <=> Current(p)
    BY <1>1 DEF Current
  <2>2. \A p, t : JoinedBy(p, t)' <=> JoinedBy(p, t)
    BY <1>1, <1>6 DEF JoinedBy
  <2> QED BY <1>1, <1>8, <2>1, <2>2 DEF ChainInv, TunnelsKept, Gone
<1> QED BY <1>2, <1>3, <1>4, <1>5, <1>7, <1>9 DEF ChainInv

LEMMA EveryStep ==
    ASSUME ChainInv, [Next]_vars
    PROVE  ChainInv'
<1>1. CASE InitComponent \/ Configure \/ ChooseInterlace \/ InitTunnel \/ AllocInputBuffers
           \/ Execute \/ SourceIdle \/ SetupTunnel \/ EnablePorts
  BY <1>1, AdvancingKeeps, InitComponentAdvances, ConfigureAdvances, ChooseInterlaceAdvances, InitTunnelAdvances,
     AllocInputBuffersAdvances, ExecuteAdvances, SourceIdleAdvances, SetupTunnelAdvances, EnablePortsAdvances
<1>2. CASE InitFails \/ EnableFails \/ CallFails
  BY <1>2, AbortingKeeps, InitFailsAborts, EnableFailsAborts, CallFailsAborts
<1>3. CASE DeEstablish \/ DeInit
  BY <1>3, UndoingKeeps, DeEstablishUndoes, DeInitUndoes
<1>4. CASE OpenUnsupported \/ DeletePlayer
  BY <1>4, LeavingKeeps, OpenUnsupportedLeaves, DeletePlayerLeaves
<1>5. CASE Open
  BY <1>5, OpenKeeps
<1>6. CASE SrcChanged
  BY <1>6, SrcChangedKeeps
<1>7. CASE SrcChangedAgain
  BY <1>7, SrcChangedAgainKeeps
<1>8. CASE UNCHANGED vars
  BY <1>8, StutterKeeps
<1> QED BY <1>1, <1>2, <1>3, <1>4, <1>5, <1>6, <1>7, <1>8 DEF Next

\* What a player has in the GPU is known to it at every step of open, of a change of format
\* and of close, whichever of their calls fail.
THEOREM ChainIsKept == Spec => []ChainInv
<1>1. Init => ChainInv
  BY InitIsFine
<1>2. ChainInv /\ [Next]_vars => ChainInv'
  BY EveryStep
<1> QED BY <1>1, <1>2, PTL DEF Spec

LEMMA GoneIsEmpty ==
    ASSUME ChainInv
    PROVE  NothingLeft
<1>1. TypeOK
  BY DEF ChainInv, Typed
<1>2. ASSUME Gone, NEW h \in held \ unfreed PROVE IsVideo /\ h[1] # "decoder" /\ h[2] <= attempts
  <2>1. ~Owned(h)
    BY <1>2 DEF ChainInv, HandlesKept
  <2>2. h[2] <= attempts + 1 /\ h[2] \in Nat /\ attempts \in Nat
    BY BoundsAssumption, DeviceIs DEF ChainInv, Typed, TypeOK, Numbered
  <2> QED BY <2>1, <2>2 DEF Owned
<1>3. ASSUME Gone, closeFaults = 0 PROVE ClockPorts \cap (joined \cup enabled) = {}
  BY <1>3 DEF ChainInv, ClockUsed
<1> QED BY <1>1, <1>2, <1>3 DEF NothingLeft

\* A player that is gone, closed or refused, leaves nothing in the GPU, whichever calls failed and
\* however often the format changed: every handle it got is freed, except those that OMX_FreeHandle
\* failed to free and those of a video chain that srcChanged overwrote when it tried again, and the
\* port of the clock, which the next player needs, is in no tunnel unless a deEstablish failed.  cOmxVideo::close and ~cOmxAudio depend for
\* this on handles and tunnels that any call of srcChanged may have left half made.
THEOREM NothingIsLeft == Spec => []NothingLeft
<1>1. ChainInv => NothingLeft
  BY GoneIsEmpty
<1> QED BY <1>1, ChainIsKept, PTL

LEMMA FreedIsApart ==
    ASSUME ChainInv, [Next]_vars, NEW h \in held \ held', closeFaults = 0, attempts <= 1 \/ h[1] # "imageFx"
    PROVE  PortsOf(h[1], h[2]) \cap joined = {}
<1> SUFFICES ASSUME NEW p \in PortsOf(h[1], h[2]) \cap joined PROVE FALSE
  OBVIOUS
<1>1. DeInit
  <2>1. \/ Advancing \/ Aborting \/ Leaving \/ UNCHANGED held \/ DeEstablish \/ DeInit
    <3>1. CASE InitComponent \/ Configure \/ ChooseInterlace \/ InitTunnel \/ AllocInputBuffers
               \/ Execute \/ SourceIdle \/ SetupTunnel \/ EnablePorts
      BY <3>1, InitComponentAdvances, ConfigureAdvances, ChooseInterlaceAdvances, InitTunnelAdvances,
         AllocInputBuffersAdvances, ExecuteAdvances, SourceIdleAdvances, SetupTunnelAdvances, EnablePortsAdvances
    <3>2. CASE InitFails \/ EnableFails \/ CallFails
      BY <3>2, InitFailsAborts, EnableFailsAborts, CallFailsAborts
    <3>3. CASE OpenUnsupported \/ DeletePlayer
      BY <3>3, OpenUnsupportedLeaves, DeletePlayerLeaves
    <3>4. CASE Open \/ SrcChanged \/ SrcChangedAgain \/ UNCHANGED vars
      BY <3>4 DEF Open, SrcChanged, SrcChangedAgain, Rest, gpuVars, vars
    <3> QED BY <3>1, <3>2, <3>3, <3>4 DEF Next
  <2>2. ~UNCHANGED held /\ ~(held \subseteq held')
    OBVIOUS
  <2>3. Advancing => held \subseteq held'
    BY DEF Advancing
  <2>4. Aborting \/ Leaving \/ DeEstablish => UNCHANGED held
    BY DEF Aborting, Leaving, DeEstablish
  <2> QED BY <2>1, <2>2, <2>3, <2>4
<1>2. todo # <<>> /\ Head(todo)[1] = "free" /\ Subject \in Components /\ phase = "closing"
  BY <1>1, TodoIs, CallIs DEF DeInit, Calls, Subject
<1>3. h = <<Subject, handle[Subject]>>
  BY <1>1 DEF DeInit, gpuVars
<1>4. h[1] = Subject /\ h[2] = handle[Subject] /\ h[2] # 0
  <2>1. h[2] # 0
    BY BoundsAssumption DEF ChainInv, Typed, TypeOK
  <2> QED BY <1>3, <2>1
<1>5. p[1] = h[1] /\ p[2] = h[2] /\ p \in joined
  BY DEF PortsOf
<1>6. Current(p)
  BY <1>2, <1>4, <1>5 DEF Current
<1>7. PICK t \in mTunnelSet : JoinedBy(p, t)
  BY <1>2, <1>5, <1>6 DEF ChainInv, TunnelsKept, Gone
<1>8. t \in Subjects(todo, "part")
  BY <1>2, <1>7 DEF ChainInv, TunnelsKept, JoinedBy
<1>9. PICK s \in Items(todo) : s[1] = "part"
  BY <1>8 DEF Subjects
<1>10. s \in Items(Tail(todo))
  BY <1>2, <1>9, TodoIs
<1>11. MayPrecede(Head(todo), s)
  <2>1. todo \in Seq(AnyCall) /\ InOrder(todo)
    BY <1>2, TodoIs DEF ChainInv, TunnelsKept
  <2> QED BY <1>2, <1>10, <2>1, InOrderTail
<1> QED BY <1>2, <1>9, <1>11 DEF MayPrecede

\* No component is freed while one of its ports is in a tunnel: close calls deEstablish of every
\* tunnel before the first deInit, and knows in mTunnelSet which tunnels there are, also after a
\* wiring that failed half way and another that followed it.  Only a port that deEstablish failed
\* on, and those of an image filter that a later srcChanged does without, are excepted.
THEOREM TunnelsComeDownFirst == Spec => TunnelsDownFirst
<1>1. ChainInv /\ [Next]_vars =>
        [\A h \in held \ held' :
            closeFaults = 0 /\ (attempts <= 1 \/ h[1] # "imageFx") => PortsOf(h[1], h[2]) \cap joined = {}]_vars
  BY FreedIsApart
<1> QED BY <1>1, ChainIsKept, PTL DEF Spec, TunnelsDownFirst

-----------------------------------------------------------------------------
(* How a wiring gets to its end                                              *)

\* The tunnels a wiring sets up, and the ends it gives them.
Wires(d) ==
    IF IsVideo THEN {"clock", "decoder", "sched"} \cup (IF d THEN {"imageFx"} ELSE {})
    ELSE {"decoder", "mixer"} \cup {ClockTunnel(r) : r \in Renders}
         \cup (IF Both THEN {"splitter anal", "splitter hdmi"} ELSE {})
EndsOf(t, d) ==
    CASE t = "clock" -> <<Clock, "clock in+1", "scheduler", "clock">>
      [] t = "sched" -> <<"scheduler", "out", "render", "in">>
      [] t = "imageFx" -> <<"imageFx", "out", "scheduler", "in">>
      [] t = "decoder" ->
            <<"decoder", "out", IF ~IsVideo THEN "mixer" ELSE IF d THEN "imageFx" ELSE "scheduler", "in">>
      [] t = "mixer" -> <<"mixer", "out", IF Both THEN "splitter" ELSE device, "in">>
      [] t = "clock anal" -> <<Clock, ClockPort("anal"), "anal", "clock">>
      [] t = "clock hdmi" -> <<Clock, ClockPort("hdmi"), "hdmi", "clock">>
      [] t = "splitter anal" -> <<"splitter", "out", "anal", "in">>
      [] t = "splitter hdmi" -> <<"splitter", "out1", "hdmi", "in">>

\* The tunnel whose establish brings a component to Idle, before it is told to execute.
Waker(c) ==
    CASE c = "scheduler" -> "clock" [] c = "imageFx" -> "decoder" [] c = "render" -> "sched"
      [] c = "mixer" -> "decoder" [] c = "splitter" -> "mixer"
      [] c = "anal" -> "clock anal" [] c = "hdmi" -> "clock hdmi"

\* Of a tunnel, first the ends, then its source to Idle, set up and enabled, each once; the clock's
\* tunnel before the others; and a component executes once, after its waker.
Orderly(a, b) ==
    /\ a[1] = "setup" /\ b[1] = "enable" /\ b[2] = "clock" => a[2] = "clock"
    /\ a[1] = "enable" /\ a[2] = "clock" => b[1] \notin Early \cup {"tunnel"}
    /\ a[1] = "enable" /\ b[1] \in OfTunnel => a[2] # b[2]
    /\ a[1] \in OfTunnel /\ b[1] = "tunnel" => a[2] # b[2]
    /\ a[1] = "execute" /\ b[1] = "execute" => a[2] # b[2]
    /\ a[1] = "execute" /\ b[1] = "enable" => b[2] # Waker(a[2])
OrderlyPlan(plan) == \A i, j \in 1..Len(plan) : i < j => Orderly(plan[i], plan[j])

\* Its calls are those of the tunnels it sets up and the components it makes.
Proper(s, d) ==
    /\ s[1] \in OfTunnel \cup {"tunnel"} => s[2] \in Wires(d)
    /\ s[1] = "tunnel" => s[3] = EndsOf(s[2], d)
    /\ s[1] = "execute" => s[2] \in Members(d) \ {"decoder"}

\* Every member of the chain executes, or is still to be told.
Running(d) ==
    \A c \in Members(d) :
        c \in Subjects(todo, "execute") \/ (state[c] = "Executing" /\ c \notin Subjects(todo, "init"))
Behind(t) == Subjects(todo, "init") = {} /\ t \notin Subjects(todo, "tunnel")
Joined(t) == {Src(t), Dst(t)} \subseteq joined /\ Behind(t)
Made(t, d) ==
    /\ Joined(t) /\ {Src(t), Dst(t)} \subseteq enabled
    /\ ends[t][1] \in Members(d) \cup {Clock} /\ ends[t][3] \in Members(d)
ClockIn == <<Clock, 1, "clock in+1">>
Tunneled(d) ==
    /\ \A t \in Subjects(todo, "enable") : t \in Subjects(todo, "setup") \/ Joined(t)
    /\ Subjects(todo, "setup") \subseteq Subjects(todo, "enable")
    /\ ~IsVideo \/ "clock" \notin Subjects(todo, "enable") =>
           \A t \in mTunnelSet : t \in Subjects(todo, "enable") \/ Made(t, d)
    /\ "decoder" \in Subjects(todo, "setup") \cup mTunnelSet
\* A clock tunnel that is enabled refuses another one, so that a video chain is only wired up
\* while none of its other tunnels is left from an attempt before.
ClockFirst ==
    /\ IsVideo =>
         /\ ("clock" \in Subjects(todo, "enable") /\ mTunnelSet \subseteq {"clock"}) \/ ClockIn \in enabled
         /\ (\E s \in Items(todo) : s[1] \in Early \cup {"tunnel"}) => "clock" \in Subjects(todo, "enable")
    /\ ~IsVideo /\ Subjects(todo, "init") # {} => mTunnelSet = {}
\* A component is Idle when it is told to execute.
Woken(c) ==
    \/ /\ Waker(c) \in Subjects(todo, "enable")
       /\ c \in Subjects(todo, "init") \/ state[c] # "Executing"
    \/ state[c] = "Idle" /\ c \notin Subjects(todo, "init")
Given(d) == \A t \in Wires(d) : t \in Subjects(todo, "tunnel") \/ ends[t] = EndsOf(t, d)
\* The ports enabled without a fault: the decoder's input, and those of the tunnels so far.
UsedBy(p, t, d) == \E k \in {1, 3} : p[1] = EndsOf(t, d)[k] /\ p[3] = EndsOf(t, d)[k + 1]
InputOnly == \A p \in enabled : p[1] = "decoder" /\ p[3] = "in"
Unfaulted(d) ==
    faults = 0 =>
        \A p \in enabled :
            \/ p[1] = "decoder" /\ p[3] = "in"
            \/ \E t \in Wires(d) \ Subjects(todo, "enable") : UsedBy(p, t, d)
\* The source of a tunnel has left Loaded before its port is enabled.
Roused ==
    \A t \in Subjects(todo, "enable") :
        \/ t \in Subjects(todo, "srcIdle")
        \/ Behind(t) /\ ends[t][1] \in Components \cup {Clock} /\ ~Asleep(ends[t][1], state)
\* What is left of a wiring gets to its end, from where it is.
Progress(d) ==
    /\ OrderlyPlan(todo) /\ \A s \in Items(todo) : Proper(s, d)
    /\ Running(d) /\ Tunneled(d) /\ ClockFirst
    /\ \A c \in Subjects(todo, "execute") : Woken(c)
    /\ \A c \in Subjects(todo, "init") : Waker(c) \in Subjects(todo, "enable")
    /\ Given(d) /\ Unfaulted(d) /\ Roused

\* open allocates and executes once, and the decoder is Idle, with its input's buffers, before it
\* executes.
OpensOnce(plan) ==
    \A i, j \in 1..Len(plan) :
        i < j /\ plan[i][1] \in {"alloc", "execute"} => plan[j][1] \in {"config", "execute"} /\ plan[i][1] # plan[j][1]
Prepared ==
    /\ OpensOnce(todo)
    /\ \/ "decoder" \in Subjects(todo, "execute")
       \/ (state["decoder"] = "Executing" /\ \A s \in Items(todo) : s[1] = "config")
    /\ "decoder" \in Subjects(todo, "alloc") => "decoder" \in Subjects(todo, "execute")
    /\ faults = 0 =>
          /\ InputOnly
          /\ "decoder" \in Subjects(todo, "alloc") => enabled = {}
          /\ "decoder" \in Subjects(todo, "execute") =>
                ("decoder" \in Subjects(todo, "alloc") \/ state["decoder"] = "Idle")
Preparing == phase = "opening" => Prepared

WhenWired(d) == phase = "wiring" => Wiring(d) /\ Progress(d)
\* Between wirings: a chain that is wired, or what the next wiring needs to get to its end.
Opened ==
    phase = "open" =>
        /\ state["decoder"] = "Executing"
        /\ attempts # 0 => result # "none"
        /\ IsVideo /\ result # "true" => (mTunnelSet \subseteq {"clock"} \/ ClockIn \in enabled)
        /\ ~IsVideo /\ handle["mixer"] = 0 => mTunnelSet = {}
        /\ faults = 0 => (IsWired \/ (attempts = 0 /\ InputOnly))
\* Without a fault nothing is refused, and srcChanged has not returned before it was called.
Flawless ==
    /\ phase \in {"opening", "open", "wiring"} => decoder
    /\ phase = "refused" => refused
    /\ attempts = 0 => result = "none"
    /\ WiringWorks
WorkInv ==
    /\ (\E d \in BOOLEAN : WhenWired(d)) /\ Preparing /\ Opened /\ Flawless /\ Wired

-----------------------------------------------------------------------------
(* The tunnels of a wiring                                                   *)

\* The ends of each tunnel, and the ports that it uses.
LEMMA EndsAt ==
    ASSUME NEW d \in BOOLEAN
    PROVE  /\ EndsOf("clock", d) = <<Clock, "clock in+1", "scheduler", "clock">>
           /\ EndsOf("sched", d) = <<"scheduler", "out", "render", "in">>
           /\ EndsOf("imageFx", d) = <<"imageFx", "out", "scheduler", "in">>
           /\ EndsOf("decoder", d) =
                <<"decoder", "out", IF ~IsVideo THEN "mixer" ELSE IF d THEN "imageFx" ELSE "scheduler", "in">>
           /\ EndsOf("mixer", d) = <<"mixer", "out", IF Both THEN "splitter" ELSE device, "in">>
           /\ EndsOf("clock anal", d) = <<Clock, ClockPort("anal"), "anal", "clock">>
           /\ EndsOf("clock hdmi", d) = <<Clock, ClockPort("hdmi"), "hdmi", "clock">>
           /\ EndsOf("splitter anal", d) = <<"splitter", "out", "anal", "in">>
           /\ EndsOf("splitter hdmi", d) = <<"splitter", "out1", "hdmi", "in">>
BY DEF EndsOf

LEMMA UsedByEnds ==
    ASSUME NEW t, NEW d, NEW p, NEW a, NEW b, NEW c, NEW e, EndsOf(t, d) = <<a, b, c, e>>
    PROVE  UsedBy(p, t, d) <=> (p[1] = a /\ p[3] = b) \/ (p[1] = c /\ p[3] = e)
<1>1. EndsOf(t, d)[1] = a /\ EndsOf(t, d)[1 + 1] = b /\ EndsOf(t, d)[3] = c /\ EndsOf(t, d)[3 + 1] = e
  OBVIOUS
<1> QED BY <1>1 DEF UsedBy

LEMMA UsedIs ==
    ASSUME NEW d \in BOOLEAN, NEW p
    PROVE  /\ UsedBy(p, "clock", d) <=> (p[1] = Clock /\ p[3] = "clock in+1") \/ (p[1] = "scheduler" /\ p[3] = "clock")
           /\ UsedBy(p, "sched", d) <=> (p[1] = "scheduler" /\ p[3] = "out") \/ (p[1] = "render" /\ p[3] = "in")
           /\ UsedBy(p, "imageFx", d) <=> (p[1] = "imageFx" /\ p[3] = "out") \/ (p[1] = "scheduler" /\ p[3] = "in")
           /\ UsedBy(p, "decoder", d) <=>
                \/ p[1] = "decoder" /\ p[3] = "out"
                \/ p[1] = (IF ~IsVideo THEN "mixer" ELSE IF d THEN "imageFx" ELSE "scheduler") /\ p[3] = "in"
           /\ UsedBy(p, "mixer", d) <=>
                (p[1] = "mixer" /\ p[3] = "out") \/ (p[1] = (IF Both THEN "splitter" ELSE device) /\ p[3] = "in")
           /\ UsedBy(p, "clock anal", d) <=> (p[1] = Clock /\ p[3] = ClockPort("anal")) \/ (p[1] = "anal" /\ p[3] = "clock")
           /\ UsedBy(p, "clock hdmi", d) <=> (p[1] = Clock /\ p[3] = ClockPort("hdmi")) \/ (p[1] = "hdmi" /\ p[3] = "clock")
           /\ UsedBy(p, "splitter anal", d) <=> (p[1] = "splitter" /\ p[3] = "out") \/ (p[1] = "anal" /\ p[3] = "in")
           /\ UsedBy(p, "splitter hdmi", d) <=> (p[1] = "splitter" /\ p[3] = "out1") \/ (p[1] = "hdmi" /\ p[3] = "in")
<1>1. UsedBy(p, "clock", d) <=> (p[1] = Clock /\ p[3] = "clock in+1") \/ (p[1] = "scheduler" /\ p[3] = "clock")
  <2> DEFINE in == "clock in+1"
  <2>1. EndsOf("clock", d) = <<Clock, in, "scheduler", "clock">>
    BY EndsAt
  <2> HIDE DEF in
  <2>2. UsedBy(p, "clock", d) <=> (p[1] = Clock /\ p[3] = in) \/ (p[1] = "scheduler" /\ p[3] = "clock")
    BY <2>1, UsedByEnds
  <2> QED BY <2>2 DEF in
<1>2. UsedBy(p, "sched", d) <=> (p[1] = "scheduler" /\ p[3] = "out") \/ (p[1] = "render" /\ p[3] = "in")
  <2>1. EndsOf("sched", d) = <<"scheduler", "out", "render", "in">>
    BY EndsAt
  <2> QED BY <2>1, UsedByEnds
<1>3. UsedBy(p, "imageFx", d) <=> (p[1] = "imageFx" /\ p[3] = "out") \/ (p[1] = "scheduler" /\ p[3] = "in")
  <2>1. EndsOf("imageFx", d) = <<"imageFx", "out", "scheduler", "in">>
    BY EndsAt
  <2> QED BY <2>1, UsedByEnds
<1> DEFINE fed == IF ~IsVideo THEN "mixer" ELSE IF d THEN "imageFx" ELSE "scheduler"
           sink == IF Both THEN "splitter" ELSE device
<1>4. UsedBy(p, "decoder", d) <=> (p[1] = "decoder" /\ p[3] = "out") \/ (p[1] = fed /\ p[3] = "in")
  <2>1. EndsOf("decoder", d) = <<"decoder", "out", fed, "in">>
    BY EndsAt
  <2> HIDE DEF fed
  <2> QED BY <2>1, UsedByEnds
<1>5. UsedBy(p, "mixer", d) <=> (p[1] = "mixer" /\ p[3] = "out") \/ (p[1] = sink /\ p[3] = "in")
  <2>1. EndsOf("mixer", d) = <<"mixer", "out", sink, "in">>
    BY EndsAt
  <2> HIDE DEF sink
  <2> QED BY <2>1, UsedByEnds
<1>6. UsedBy(p, "clock anal", d) <=> (p[1] = Clock /\ p[3] = ClockPort("anal")) \/ (p[1] = "anal" /\ p[3] = "clock")
  <2> DEFINE t == "clock anal"
  <2>1. EndsOf(t, d) = <<Clock, ClockPort("anal"), "anal", "clock">>
    BY EndsAt
  <2> HIDE DEF t
  <2>2. UsedBy(p, t, d) <=> (p[1] = Clock /\ p[3] = ClockPort("anal")) \/ (p[1] = "anal" /\ p[3] = "clock")
    BY <2>1, UsedByEnds
  <2> QED BY <2>2 DEF t
<1>7. UsedBy(p, "clock hdmi", d) <=> (p[1] = Clock /\ p[3] = ClockPort("hdmi")) \/ (p[1] = "hdmi" /\ p[3] = "clock")
  <2> DEFINE t == "clock hdmi"
  <2>1. EndsOf(t, d) = <<Clock, ClockPort("hdmi"), "hdmi", "clock">>
    BY EndsAt
  <2> HIDE DEF t
  <2>2. UsedBy(p, t, d) <=> (p[1] = Clock /\ p[3] = ClockPort("hdmi")) \/ (p[1] = "hdmi" /\ p[3] = "clock")
    BY <2>1, UsedByEnds
  <2> QED BY <2>2 DEF t
<1>8. UsedBy(p, "splitter anal", d) <=> (p[1] = "splitter" /\ p[3] = "out") \/ (p[1] = "anal" /\ p[3] = "in")
  <2> DEFINE t == "splitter anal"
  <2>1. EndsOf(t, d) = <<"splitter", "out", "anal", "in">>
    BY EndsAt
  <2> HIDE DEF t
  <2>2. UsedBy(p, t, d) <=> (p[1] = "splitter" /\ p[3] = "out") \/ (p[1] = "anal" /\ p[3] = "in")
    BY <2>1, UsedByEnds
  <2> QED BY <2>2 DEF t
<1>9. UsedBy(p, "splitter hdmi", d) <=> (p[1] = "splitter" /\ p[3] = "out1") \/ (p[1] = "hdmi" /\ p[3] = "in")
  <2> DEFINE t == "splitter hdmi"
  <2>1. EndsOf(t, d) = <<"splitter", "out1", "hdmi", "in">>
    BY EndsAt
  <2> HIDE DEF t
  <2>2. UsedBy(p, t, d) <=> (p[1] = "splitter" /\ p[3] = "out1") \/ (p[1] = "hdmi" /\ p[3] = "in")
    BY <2>1, UsedByEnds
  <2> QED BY <2>2 DEF t
<1> QED BY <1>1, <1>2, <1>3, <1>4, <1>5, <1>6, <1>7, <1>8, <1>9

LEMMA WakerIs ==
    /\ Waker("scheduler") = "clock" /\ Waker("imageFx") = "decoder" /\ Waker("render") = "sched"
    /\ Waker("mixer") = "decoder" /\ Waker("splitter") = "mixer"
    /\ Waker("anal") = "clock anal" /\ Waker("hdmi") = "clock hdmi"
BY DEF Waker

\* The tunnels and components for each device.
LEMMA WiresAre ==
    ASSUME NEW d \in BOOLEAN, device \in {"none", "anal", "hdmi", "both"}
    PROVE  /\ IsVideo => /\ device = "none" /\ Wires(d) = {"clock", "decoder", "sched"} \cup (IF d THEN {"imageFx"} ELSE {})
                         /\ Members(d) \ {"decoder"} = {"scheduler", "render"} \cup (IF d THEN {"imageFx"} ELSE {})
           /\ device = "anal" => /\ ~IsVideo /\ ~Both /\ Wires(d) = {"decoder", "mixer", "clock anal"}
                                 /\ Members(d) \ {"decoder"} = {"mixer", "anal"} /\ Renders = {"anal"}
           /\ device = "hdmi" => /\ ~IsVideo /\ ~Both /\ Wires(d) = {"decoder", "mixer", "clock hdmi"}
                                 /\ Members(d) \ {"decoder"} = {"mixer", "hdmi"} /\ Renders = {"hdmi"}
           /\ device = "both" => /\ ~IsVideo /\ Both
                                 /\ Wires(d) = {"decoder", "mixer", "clock anal", "clock hdmi", "splitter anal", "splitter hdmi"}
                                 /\ Members(d) \ {"decoder"} = {"mixer", "anal", "hdmi", "splitter"}
                                 /\ Renders = {"anal", "hdmi"}
<1>1. CASE IsVideo
  BY <1>1 DEF IsVideo, Wires, Members
<1>2. CASE device = "anal"
  <2>1. ~IsVideo /\ ~Both /\ Renders = {"anal"}
    BY <1>2 DEF IsVideo, Both, Renders
  <2>2. {ClockTunnel(r) : r \in Renders} = {"clock anal"}
    BY <2>1 DEF ClockTunnel
  <2> QED BY <1>2, <2>1, <2>2 DEF Wires, Members
<1>3. CASE device = "hdmi"
  <2>1. ~IsVideo /\ ~Both /\ Renders = {"hdmi"}
    BY <1>3 DEF IsVideo, Both, Renders
  <2>2. {ClockTunnel(r) : r \in Renders} = {"clock hdmi"}
    BY <2>1 DEF ClockTunnel
  <2> QED BY <1>3, <2>1, <2>2 DEF Wires, Members
<1>4. CASE device = "both"
  <2>1. ~IsVideo /\ Both /\ Renders = {"anal", "hdmi"}
    BY <1>4 DEF IsVideo, Both, Renders
  <2>2. {ClockTunnel(r) : r \in Renders} = {"clock anal", "clock hdmi"}
    BY <2>1 DEF ClockTunnel
  <2> QED BY <1>4, <2>1, <2>2 DEF Wires, Members
<1> QED BY <1>1, <1>2, <1>3, <1>4 DEF IsVideo

LEMMA WiresAreTunnels ==
    ASSUME NEW d \in BOOLEAN, device \in {"none", "anal", "hdmi", "both"}
    PROVE  /\ Wires(d) \subseteq Tunnels /\ Wires(d) \subseteq ChainTunnels /\ "decoder" \in Wires(d)
           /\ IsVideo => "clock" \in Wires(d)
<1>1. CASE IsVideo
  BY <1>1, WiresAre DEF Tunnels, ChainTunnels
<1>2. CASE ~IsVideo
  BY <1>2, WiresAre DEF Tunnels, ChainTunnels, IsVideo
<1> QED BY <1>1, <1>2

\* Every component that is told to execute is the destination of its waker.
LEMMA WakerWakes ==
    ASSUME NEW d \in BOOLEAN, device \in {"none", "anal", "hdmi", "both"}, NEW c \in Members(d) \ {"decoder"}
    PROVE  Waker(c) \in Wires(d) /\ EndsOf(Waker(c), d)[3] = c
<1>1. EndsOf("clock", d)[3] = "scheduler" /\ EndsOf("sched", d)[3] = "render"
  <2> DEFINE in == "clock in+1"
  <2>1. EndsOf("clock", d) = <<Clock, in, "scheduler", "clock">>
    BY EndsAt
  <2>2. EndsOf("sched", d) = <<"scheduler", "out", "render", "in">>
    BY EndsAt
  <2> HIDE DEF in
  <2> QED BY <2>1, <2>2
<1>2. EndsOf("clock anal", d)[3] = "anal" /\ EndsOf("clock hdmi", d)[3] = "hdmi"
  <2> DEFINE a == "clock anal"
             h == "clock hdmi"
  <2>1. EndsOf(a, d) = <<Clock, ClockPort("anal"), "anal", "clock">> /\ EndsOf(h, d) = <<Clock, ClockPort("hdmi"), "hdmi", "clock">>
    BY EndsAt
  <2> HIDE DEF a, h
  <2>2. EndsOf(a, d)[3] = "anal" /\ EndsOf(h, d)[3] = "hdmi"
    BY <2>1
  <2> QED BY <2>2 DEF a, h
<1>3. /\ ~IsVideo => EndsOf("decoder", d)[3] = "mixer"
      /\ IsVideo /\ d => EndsOf("decoder", d)[3] = "imageFx"
  <2> DEFINE fed == IF ~IsVideo THEN "mixer" ELSE IF d THEN "imageFx" ELSE "scheduler"
  <2>1. EndsOf("decoder", d) = <<"decoder", "out", fed, "in">>
    BY EndsAt
  <2>2. EndsOf("decoder", d)[3] = fed
    <3> HIDE DEF fed
    <3> QED BY <2>1
  <2> QED BY <2>2
<1>4. Both => EndsOf("mixer", d)[3] = "splitter"
  <2> DEFINE sink == IF Both THEN "splitter" ELSE device
  <2>1. EndsOf("mixer", d) = <<"mixer", "out", sink, "in">>
    BY EndsAt
  <2>2. EndsOf("mixer", d)[3] = sink
    <3> HIDE DEF sink
    <3> QED BY <2>1
  <2> QED BY <2>2
<1>5. CASE IsVideo
  <2>1. c \in {"scheduler", "render"} \/ (d /\ c = "imageFx")
    BY <1>5, WiresAre
  <2>2. {"clock", "decoder", "sched"} \subseteq Wires(d)
    BY <1>5, WiresAre
  <2> QED BY <1>1, <1>3, <1>5, <2>1, <2>2, WakerIs
<1>6. CASE device = "anal"
  BY <1>2, <1>3, <1>6, WiresAre, WakerIs
<1>7. CASE device = "hdmi"
  BY <1>2, <1>3, <1>7, WiresAre, WakerIs
<1>8. CASE device = "both"
  BY <1>2, <1>3, <1>4, <1>8, WiresAre, WakerIs
<1> QED BY <1>5, <1>6, <1>7, <1>8 DEF IsVideo

\* No two tunnels of a wiring have a port in common, and none has the decoder's input.
LEMMA TunnelsApart ==
    ASSUME NEW d \in BOOLEAN, device \in {"none", "anal", "hdmi", "both"}, NEW t \in Wires(d), NEW p, UsedBy(p, t, d)
    PROVE  /\ ~(p[1] = "decoder" /\ p[3] = "in")
           /\ \A u \in Wires(d) : UsedBy(p, u, d) => u = t
<1> DEFINE a == p[1]
           b == p[3]
<1>1. Clock = "clock component"
  BY DEF Clock
<1>2. CASE IsVideo
  <2>1. Wires(d) \subseteq {"clock", "decoder", "sched"} \cup (IF d THEN {"imageFx"} ELSE {})
    BY <1>2, WiresAre
  <2>2. /\ UsedBy(p, "clock", d) <=> (a = "clock component" /\ b = "clock in+1") \/ (a = "scheduler" /\ b = "clock")
        /\ UsedBy(p, "sched", d) <=> (a = "scheduler" /\ b = "out") \/ (a = "render" /\ b = "in")
        /\ UsedBy(p, "imageFx", d) <=> (a = "imageFx" /\ b = "out") \/ (a = "scheduler" /\ b = "in")
        /\ UsedBy(p, "decoder", d) <=>
             (a = "decoder" /\ b = "out") \/ (a = (IF d THEN "imageFx" ELSE "scheduler") /\ b = "in")
    BY <1>1, <1>2, UsedIs
  <2> HIDE DEF a, b
  <2>3. ~(a = "decoder" /\ b = "in") /\ \A u \in Wires(d) : UsedBy(p, u, d) => u = t
    BY <2>1, <2>2
  <2> QED BY <2>3 DEF a, b
<1>3. ASSUME ~IsVideo PROVE
        /\ UsedBy(p, "decoder", d) <=> (a = "decoder" /\ b = "out") \/ (a = "mixer" /\ b = "in")
        /\ UsedBy(p, "mixer", d) <=>
             (a = "mixer" /\ b = "out") \/ (a = (IF Both THEN "splitter" ELSE device) /\ b = "in")
        /\ UsedBy(p, "clock anal", d) <=> (a = "clock component" /\ b = ClockPort("anal")) \/ (a = "anal" /\ b = "clock")
        /\ UsedBy(p, "clock hdmi", d) <=> (a = "clock component" /\ b = ClockPort("hdmi")) \/ (a = "hdmi" /\ b = "clock")
        /\ UsedBy(p, "splitter anal", d) <=> (a = "splitter" /\ b = "out") \/ (a = "anal" /\ b = "in")
        /\ UsedBy(p, "splitter hdmi", d) <=> (a = "splitter" /\ b = "out1") \/ (a = "hdmi" /\ b = "in")
  BY <1>1, <1>3, UsedIs
<1>4. CASE ~IsVideo
  <2>1. /\ ClockPort("anal") = "clock in" /\ (device = "both" => ClockPort("hdmi") = "clock in+2")
        /\ Both <=> device = "both"
    BY DEF ClockPort, Both
  <2>2. \/ device = "anal" /\ Wires(d) = {"decoder", "mixer", "clock anal"}
        \/ device = "hdmi" /\ Wires(d) = {"decoder", "mixer", "clock hdmi"}
        \/ device = "both" /\ Wires(d) = {"decoder", "mixer", "clock anal", "clock hdmi", "splitter anal", "splitter hdmi"}
    BY <1>4, WiresAre DEF IsVideo
  <2> HIDE DEF a, b
  <2>3. ~(a = "decoder" /\ b = "in") /\ \A u \in Wires(d) : UsedBy(p, u, d) => u = t
    BY <1>3, <1>4, <2>1, <2>2
  <2> QED BY <2>3 DEF a, b
<1> QED BY <1>2, <1>4

-----------------------------------------------------------------------------
(* The order of a wiring's calls                                             *)

LEMMA OrderlyTail ==
    ASSUME NEW S, NEW plan \in Seq(S), plan # <<>>, OrderlyPlan(plan)
    PROVE  OrderlyPlan(Tail(plan)) /\ \A s \in Items(Tail(plan)) : Orderly(Head(plan), s)
<1>1. Len(plan) \in Nat \ {0} /\ Head(plan) = plan[1]
  BY EmptySeq, LenProperties
<1>2. Len(Tail(plan)) = Len(plan) - 1 /\ \A i \in 1..Len(Tail(plan)) : Tail(plan)[i] = plan[i + 1]
  BY HeadTailProperties
<1>3. \A i \in 1..Len(Tail(plan)) : i + 1 \in 1..Len(plan) /\ 1 < i + 1
  BY <1>1, <1>2
<1>4. \A s \in Items(Tail(plan)) : Orderly(Head(plan), s)
  <2> SUFFICES ASSUME NEW i \in 1..Len(Tail(plan)) PROVE Orderly(plan[1], plan[i + 1])
    BY <1>1, <1>2 DEF Items
  <2>1. 1 \in 1..Len(plan)
    BY <1>1
  <2> QED BY <1>3, <2>1 DEF OrderlyPlan
<1>5. OrderlyPlan(Tail(plan))
  <2> SUFFICES ASSUME NEW i \in 1..Len(Tail(plan)), NEW j \in 1..Len(Tail(plan)), i < j
               PROVE  Orderly(plan[i + 1], plan[j + 1])
    BY <1>2 DEF OrderlyPlan
  <2>1. i + 1 < j + 1
    BY <1>1, <1>2
  <2> QED BY <1>3, <2>1 DEF OrderlyPlan
<1> QED BY <1>4, <1>5

LEMMA OrderlyConcat ==
    ASSUME NEW S, NEW a \in Seq(S), NEW b \in Seq(S), OrderlyPlan(a), OrderlyPlan(b),
           \A x \in Items(a), y \in Items(b) : Orderly(x, y)
    PROVE  OrderlyPlan(a \o b)
<1>1. /\ Len(a \o b) = Len(a) + Len(b) /\ Len(a) \in Nat /\ Len(b) \in Nat
      /\ \A i \in 1..(Len(a) + Len(b)) : (a \o b)[i] = IF i <= Len(a) THEN a[i] ELSE b[i - Len(a)]
  BY ConcatProperties, LenProperties
<1> SUFFICES ASSUME NEW i \in 1..Len(a \o b), NEW j \in 1..Len(a \o b), i < j
             PROVE  Orderly((a \o b)[i], (a \o b)[j])
  BY DEF OrderlyPlan
<1>2. CASE j <= Len(a)
  <2>1. i \in 1..Len(a) /\ j \in 1..Len(a) /\ (a \o b)[i] = a[i] /\ (a \o b)[j] = a[j]
    BY <1>1, <1>2
  <2> QED BY <2>1 DEF OrderlyPlan
<1>3. CASE i <= Len(a) /\ ~(j <= Len(a))
  <2>1. i \in 1..Len(a) /\ j - Len(a) \in 1..Len(b) /\ (a \o b)[i] = a[i] /\ (a \o b)[j] = b[j - Len(a)]
    BY <1>1, <1>3
  <2> QED BY <2>1 DEF Items
<1>4. CASE ~(i <= Len(a))
  <2>1. i - Len(a) \in 1..Len(b) /\ j - Len(a) \in 1..Len(b) /\ i - Len(a) < j - Len(a)
        /\ (a \o b)[i] = b[i - Len(a)] /\ (a \o b)[j] = b[j - Len(a)]
    BY <1>1, <1>4
  <2> QED BY <2>1 DEF OrderlyPlan
<1> QED BY <1>1, <1>2, <1>3, <1>4

\* A part of a wiring that gives the tunnels of T their ends, establishes those of X and lets the
\* components of E execute.
Laid(plan, d, T, X, E) ==
    /\ plan \in Seq(AnyCall) /\ OrderlyPlan(plan)
    /\ \A s \in Items(plan) :
         /\ s[1] = "tunnel" => s[2] \in T /\ s[3] = EndsOf(s[2], d)
         /\ s[1] \in OfTunnel => s[2] \in X
         /\ s[1] = "execute" => s[2] \in E
    /\ \A t \in T : \E s \in Items(plan) : s[1] = "tunnel" /\ s[2] = t
    /\ \A t \in X : /\ \E s \in Items(plan) : s[1] = "srcIdle" /\ s[2] = t
                    /\ \E s \in Items(plan) : s[1] = "setup" /\ s[2] = t
                    /\ \E s \in Items(plan) : s[1] = "enable" /\ s[2] = t
    /\ \A c \in E : \E s \in Items(plan) : s[1] = "execute" /\ s[2] = c

LEMMA LaidThen ==
    ASSUME NEW a, NEW b, NEW d, NEW T, NEW X, NEW E, NEW U, NEW Y, NEW F, NEW T1, NEW X1, NEW E1,
           Laid(a, d, T, X, E), Laid(b, d, U, Y, F), X \cap Y = {}, X \cap U = {}, E \cap F = {},
           \A c \in E : Waker(c) \notin Y, "clock" \in Y => X = {},
           "clock" \in X => \A s \in Items(b) : s[1] \notin Early \cup {"tunnel"},
           T1 = T \cup U, X1 = X \cup Y, E1 = E \cup F
    PROVE  Laid(a \o b, d, T1, X1, E1)
<1>1. a \in Seq(AnyCall) /\ b \in Seq(AnyCall) /\ OrderlyPlan(a) /\ OrderlyPlan(b)
  BY DEF Laid
<1>2. a \o b \in Seq(AnyCall) /\ Items(a \o b) = Items(a) \cup Items(b)
  BY <1>1, ItemsOfConcat
<1>3. \A x \in Items(a), y \in Items(b) : Orderly(x, y)
  <2> SUFFICES ASSUME NEW x \in Items(a), NEW y \in Items(b) PROVE Orderly(x, y)
    OBVIOUS
  <2>1. /\ x[1] \in OfTunnel => x[2] \in X
        /\ x[1] = "execute" => x[2] \in E
    BY DEF Laid
  <2>2. /\ y[1] \in OfTunnel => y[2] \in Y
        /\ y[1] = "tunnel" => y[2] \in U
        /\ y[1] = "execute" => y[2] \in F
    BY DEF Laid
  <2> QED BY <2>1, <2>2 DEF Orderly, OfTunnel
<1>4. OrderlyPlan(a \o b)
  BY <1>1, <1>3, OrderlyConcat
<1>5. /\ \A s \in Items(a \o b) :
            /\ s[1] = "tunnel" => s[2] \in T1 /\ s[3] = EndsOf(s[2], d)
            /\ s[1] \in OfTunnel => s[2] \in X1
            /\ s[1] = "execute" => s[2] \in E1
      /\ \A t \in T1 : \E s \in Items(a \o b) : s[1] = "tunnel" /\ s[2] = t
  BY <1>2 DEF Laid
<1>6. /\ \A t \in X1 : \E s \in Items(a \o b) : s[1] = "srcIdle" /\ s[2] = t
      /\ \A t \in X1 : \E s \in Items(a \o b) : s[1] = "setup" /\ s[2] = t
      /\ \A t \in X1 : \E s \in Items(a \o b) : s[1] = "enable" /\ s[2] = t
      /\ \A c \in E1 : \E s \in Items(a \o b) : s[1] = "execute" /\ s[2] = c
  BY <1>2 DEF Laid
<1> QED BY <1>2, <1>4, <1>5, <1>6 DEF Laid

\* Calls that establish no tunnel and let nothing execute.
LEMMA LaidEnds ==
    ASSUME NEW plan \in Seq(AnyCall), NEW d, NEW T,
           \A s \in Items(plan) : s[1] \in {"init", "config", "interlace", "tunnel"},
           \A s \in Items(plan) : s[1] = "tunnel" => s[2] \in T /\ s[3] = EndsOf(s[2], d),
           \A t \in T : \E s \in Items(plan) : s[1] = "tunnel" /\ s[2] = t
    PROVE  Laid(plan, d, T, {}, {})
<1>1. OrderlyPlan(plan)
  <2> SUFFICES ASSUME NEW i \in 1..Len(plan), NEW j \in 1..Len(plan) PROVE Orderly(plan[i], plan[j])
    BY DEF OrderlyPlan
  <2>1. plan[i][1] \in {"init", "config", "interlace", "tunnel"}
    BY DEF Items
  <2> QED BY <2>1 DEF Orderly, OfTunnel
<1> QED BY <1>1 DEF Laid, OfTunnel

LEMMA LaidEstablish ==
    ASSUME NEW t \in Tunnels, NEW d
    PROVE  Laid(Establish(t), d, {}, {t}, {}) /\ \A s \in Items(Establish(t)) : s[1] \in OfTunnel
<1> DEFINE a == Do("srcIdle", t)
           b == Do("setup", t)
           c == Do("enable", t)
<1>1. Establish(t) = <<a, b, c>> /\ Items(<<a, b, c>>) = {a, b, c}
  BY ItemsOfThree DEF Establish
<1>2. a \in AnyCall /\ b \in AnyCall /\ c \in AnyCall
  BY DEF AnyCall, Do
<1>3. a[1] = "srcIdle" /\ b[1] = "setup" /\ c[1] = "enable" /\ a[2] = t /\ b[2] = t /\ c[2] = t
  BY DEF Do
<1> HIDE DEF a, b, c
<1>4. Orderly(a, b) /\ Orderly(a, c) /\ Orderly(b, c)
  BY <1>3 DEF Orderly, OfTunnel
<1>5. OrderlyPlan(<<a, b, c>>)
  <2>1. 1..Len(<<a, b, c>>) = {1, 2, 3}
    OBVIOUS
  <2> QED BY <1>4, <2>1 DEF OrderlyPlan
<1>6. <<a, b, c>> \in Seq(AnyCall)
  BY <1>2
<1>7. Laid(<<a, b, c>>, d, {}, {t}, {})
  BY <1>1, <1>3, <1>5, <1>6 DEF Laid, OfTunnel
<1> QED BY <1>1, <1>3, <1>7 DEF OfTunnel

LEMMA LaidExecute ==
    ASSUME NEW c \in Components, NEW d
    PROVE  /\ Laid(<<Do("execute", c)>>, d, {}, {}, {c})
           /\ \A s \in Items(<<Do("execute", c)>>) : s[1] = "execute"
<1> DEFINE a == Do("execute", c)
<1>1. a \in AnyCall /\ a[1] = "execute" /\ a[2] = c
  BY IsCall DEF Do
<1> HIDE DEF a
<1>2. Items(<<a>>) = {a} /\ <<a>> \in Seq(AnyCall)
  BY <1>1, ItemsOfOne
<1>3. OrderlyPlan(<<a>>)
  BY DEF OrderlyPlan
<1>4. Laid(<<a>>, d, {}, {}, {c}) /\ \A s \in Items(<<a>>) : s[1] = "execute"
  BY <1>1, <1>2, <1>3 DEF Laid, OfTunnel
<1> QED BY <1>4 DEF a

LEMMA LaidWhen ==
    ASSUME NEW b \in BOOLEAN, NEW plan, NEW d, NEW T, NEW X, NEW E, b => Laid(plan, d, T, X, E)
    PROVE  /\ Laid(When(b, plan), d, IF b THEN T ELSE {}, IF b THEN X ELSE {}, IF b THEN E ELSE {})
           /\ Items(When(b, plan)) = IF b THEN Items(plan) ELSE {}
<1>1. CASE b
  <2>1. When(b, plan) = plan
    BY <1>1 DEF When
  <2> QED BY <1>1, <2>1
<1>2. CASE ~b
  <2>1. When(b, plan) = <<>> /\ Items(<<>>) = {}
    BY <1>2, ItemsOfEmpty DEF When
  <2>2. OrderlyPlan(<<>>) /\ <<>> \in Seq(AnyCall)
    BY DEF OrderlyPlan
  <2>3. Laid(<<>>, d, {}, {}, {})
    BY <2>1, <2>2 DEF Laid
  <2> QED BY <1>2, <2>1, <2>3
<1> QED BY <1>1, <1>2

\* What establishes and executes follows what was laid before.
LEMMA ThenEstablish ==
    ASSUME NEW a, NEW d, NEW T, NEW X, NEW E, NEW Z, Laid(a, d, T, X, E), NEW t \in Tunnels, t \notin X,
           \A c \in E : Waker(c) # t, t = "clock" => X = {}, Z = X \cup {t}
    PROVE  Laid(a \o Establish(t), d, T, Z, E)
<1>1. Laid(Establish(t), d, {}, {t}, {}) /\ \A s \in Items(Establish(t)) : s[1] \in OfTunnel
  BY LaidEstablish
<1>2. \A s \in Items(Establish(t)) : s[1] \notin Early \cup {"tunnel"}
  BY <1>1 DEF OfTunnel, Early
<1>3. T = T \cup {} /\ E = E \cup {} /\ X \cap {t} = {} /\ X \cap {} = {} /\ E \cap {} = {}
  OBVIOUS
<1> QED BY <1>1, <1>2, <1>3, LaidThen

LEMMA ThenExecute ==
    ASSUME NEW a, NEW d, NEW T, NEW X, NEW E, NEW F, Laid(a, d, T, X, E), NEW c \in Components, c \notin E,
           F = E \cup {c}
    PROVE  Laid(a \o <<Do("execute", c)>>, d, T, X, F)
<1>1. Laid(<<Do("execute", c)>>, d, {}, {}, {c}) /\ \A s \in Items(<<Do("execute", c)>>) : s[1] = "execute"
  BY LaidExecute
<1>2. \A s \in Items(<<Do("execute", c)>>) : s[1] \notin Early \cup {"tunnel"}
  BY <1>1 DEF Early
<1>3. T = T \cup {} /\ X = X \cup {} /\ X \cap {} = {} /\ E \cap {c} = {}
  OBVIOUS
<1> DEFINE b == <<Do("execute", c)>>
<1> HIDE DEF b
<1>4. Laid(a \o b, d, T, X, F)
  BY <1>1, <1>2, <1>3, LaidThen DEF b
<1> QED BY <1>4 DEF b

\* Calls that establish no tunnel, before the clock's tunnel is established.
LEMMA ThenEnds ==
    ASSUME NEW a, NEW b, NEW d, NEW T, NEW X, NEW E, NEW U, NEW V,
           Laid(a, d, T, X, E), Laid(b, d, U, {}, {}), X \cap U = {}, "clock" \notin X, V = T \cup U
    PROVE  Laid(a \o b, d, V, X, E)
<1>1. X = X \cup {} /\ E = E \cup {} /\ X \cap {} = {} /\ E \cap {} = {}
  OBVIOUS
<1> QED BY <1>1, LaidThen

LEMMA VideoPlanIsLaid ==
    ASSUME IsVideo, NEW d \in BOOLEAN
    PROVE  Laid(VideoPlan(d), d, Wires(d), Wires(d), Members(d) \ {"decoder"})
<1> DEFINE P1 == <<Do("init", "render"), Do("init", "scheduler"), <<"interlace", "decoder", d>>>>
           P2 == IF d
                 THEN <<Do("init", "imageFx"), Do("config", "imageFx"),
                        <<"tunnel", "decoder", <<"decoder", "out", "imageFx", "in">>>>,
                        <<"tunnel", "imageFx", <<"imageFx", "out", "scheduler", "in">>>>>>
                 ELSE <<<<"tunnel", "decoder", <<"decoder", "out", "scheduler", "in">>>>>>
           P3 == <<Do("config", "render"), <<"tunnel", "sched", <<"scheduler", "out", "render", "in">>>>,
                   <<"tunnel", "clock", <<Clock, "clock in+1", "scheduler", "clock">>>>>>
           P6 == When(d, Establish("imageFx") \o <<Do("execute", "imageFx")>>)
           P8 == <<Do("execute", "scheduler"), Do("execute", "render")>>
           A == P1 \o P2
           B == A \o P3
           C == B \o Establish("clock")
           D == C \o Establish("decoder")
           E == D \o P6
           F == E \o Establish("sched")
           G == F \o P8
           fx == IF d THEN {"imageFx"} ELSE {}
<1>0. VideoPlan(d) = G /\ device \in {"none", "anal", "hdmi", "both"}
  BY DEF VideoPlan, IsVideo
<1>1. Laid(P1, d, {}, {}, {})
  <2> DEFINE r == Do("init", "render")
             u == Do("init", "scheduler")
             v == <<"interlace", "decoder", d>>
  <2>1. r \in AnyCall /\ u \in AnyCall /\ v \in AnyCall
    BY IsCall DEF AnyCall, Components
  <2>2. r[1] = "init" /\ u[1] = "init" /\ v[1] = "interlace" /\ P1 = <<r, u, v>>
    BY DEF Do
  <2> HIDE DEF r, u, v, P1
  <2>3. P1 \in Seq(AnyCall) /\ Items(P1) = {r, u, v}
    BY <2>1, <2>2, ItemsOfThree
  <2> QED BY <2>2, <2>3, LaidEnds
<1>2. Laid(P2, d, {"decoder"} \cup fx, {}, {})
  <2>1. CASE d
    <3> DEFINE r == Do("init", "imageFx")
               s == Do("config", "imageFx")
               u == <<"tunnel", "decoder", <<"decoder", "out", "imageFx", "in">>>>
               v == <<"tunnel", "imageFx", <<"imageFx", "out", "scheduler", "in">>>>
    <3>1. r \in AnyCall /\ s \in AnyCall
      BY IsCall DEF Components
    <3>2. u \in AnyCall /\ v \in AnyCall
      BY <2>1, WireFits, VideoShapes, MemberIs DEF Tunnels
    <3>3. r[1] = "init" /\ s[1] = "config" /\ u[1] = "tunnel" /\ u[2] = "decoder" /\ v[1] = "tunnel" /\ v[2] = "imageFx"
      BY DEF Do
    <3>4. u[3] = EndsOf("decoder", d) /\ v[3] = EndsOf("imageFx", d)
      BY <2>1, EndsAt
    <3>5. P2 = <<r, s, u, v>> /\ {"decoder"} \cup fx = {"decoder", "imageFx"}
      BY <2>1
    <3> HIDE DEF r, s, u, v, P2, fx
    <3>6. 1..Len(<<r, s, u, v>>) = {1, 2, 3, 4}
      OBVIOUS
    <3>7. P2 \in Seq(AnyCall) /\ Items(P2) = {r, s, u, v}
      BY <3>1, <3>2, <3>5, <3>6 DEF Items
    <3> QED BY <3>3, <3>4, <3>5, <3>7, LaidEnds
  <2>2. CASE ~d
    <3> DEFINE u == <<"tunnel", "decoder", <<"decoder", "out", "scheduler", "in">>>>
    <3>1. u \in AnyCall
      BY WireFits, VideoShapes, MemberIs DEF Tunnels
    <3>2. u[1] = "tunnel" /\ u[2] = "decoder" /\ P2 = <<u>> /\ {"decoder"} \cup fx = {"decoder"}
      BY <2>2
    <3>3. u[3] = EndsOf("decoder", d)
      BY <2>2, EndsAt
    <3> HIDE DEF u, P2, fx
    <3>4. P2 \in Seq(AnyCall) /\ Items(P2) = {u}
      BY <3>1, <3>2, ItemsOfOne
    <3> QED BY <3>2, <3>3, <3>4, LaidEnds
  <2> QED BY <2>1, <2>2
<1>3. Laid(P3, d, {"sched", "clock"}, {}, {})
  <2> DEFINE q == <<Clock, "clock in+1", "scheduler", "clock">>
             r == Do("config", "render")
             u == <<"tunnel", "sched", <<"scheduler", "out", "render", "in">>>>
             v == <<"tunnel", "clock", q>>
  <2>1. r \in AnyCall
    BY IsCall DEF Components
  <2>2. u \in AnyCall /\ v \in AnyCall
    BY WireFits, VideoShapes, MemberIs DEF Tunnels
  <2>3. q = EndsOf("clock", d)
    BY EndsAt
  <2>4. P3 = <<r, u, v>>
    OBVIOUS
  <2> HIDE DEF q, P3
  <2>5. r[1] = "config" /\ u[1] = "tunnel" /\ u[2] = "sched" /\ v[1] = "tunnel" /\ v[2] = "clock" /\ v[3] = q
    BY DEF Do
  <2>6. u[3] = EndsOf("sched", d)
    BY EndsAt
  <2> HIDE DEF r, u, v
  <2>7. P3 \in Seq(AnyCall) /\ Items(P3) = {r, u, v}
    BY <2>1, <2>2, <2>4, ItemsOfThree
  <2> QED BY <2>3, <2>5, <2>6, <2>7, LaidEnds
<1> HIDE DEF P1, P2, P3
<1>4. {"clock", "decoder", "imageFx", "sched"} \subseteq Tunnels /\ {"imageFx", "scheduler", "render"} \subseteq Components
  BY DEF Tunnels, Components
<1>5. Laid(A, d, {"decoder"} \cup fx, {}, {})
  <2>1. {"decoder"} \cup fx = {} \cup ({"decoder"} \cup fx) /\ {} \cap ({"decoder"} \cup fx) = {}
    OBVIOUS
  <2> QED BY <1>1, <1>2, <2>1, ThenEnds
<1> HIDE DEF A
<1> DEFINE W == {"clock", "decoder", "sched"} \cup fx
<1>6. Laid(B, d, W, {}, {})
  <2>1. W = ({"decoder"} \cup fx) \cup {"sched", "clock"} /\ {} \cap {"sched", "clock"} = {}
    OBVIOUS
  <2> QED BY <1>3, <1>5, <2>1, ThenEnds
<1>7. fx = IF d THEN {"imageFx"} ELSE {}
  OBVIOUS
<1> HIDE DEF B, W, fx
<1>8. Laid(C, d, W, {"clock"}, {})
  <2>1. {"clock"} = {} \cup {"clock"}
    OBVIOUS
  <2> QED BY <1>4, <1>6, <2>1, ThenEstablish
<1> HIDE DEF C
<1>9. Laid(D, d, W, {"clock", "decoder"}, {})
  <2>1. {"clock", "decoder"} = {"clock"} \cup {"decoder"}
    OBVIOUS
  <2> QED BY <1>4, <1>8, <2>1, ThenEstablish
<1> HIDE DEF D
<1>10. Laid(E, d, W, {"clock", "decoder"} \cup fx, fx)
  <2> DEFINE K == Establish("imageFx") \o <<Do("execute", "imageFx")>>
  <2>1. Laid(Establish("imageFx"), d, {}, {"imageFx"}, {}) /\ \A s \in Items(Establish("imageFx")) : s[1] \in OfTunnel
    BY <1>4, LaidEstablish
  <2>2. Laid(K, d, {}, {"imageFx"}, {"imageFx"})
    <3>1. {"imageFx"} = {} \cup {"imageFx"} /\ "imageFx" \notin {}
      OBVIOUS
    <3> QED BY <1>4, <2>1, <3>1, ThenExecute
  <2>3. \A s \in Items(K) : s[1] \in OfTunnel \cup {"execute"}
    <3> DEFINE H == <<Do("execute", "imageFx")>>
    <3>1. \A s \in Items(H) : s[1] = "execute"
      BY <1>4, LaidExecute
    <3>2. Establish("imageFx") \in Seq(AnyCall) /\ H \in Seq(AnyCall)
      BY <1>4, <2>1, LaidExecute DEF Laid
    <3> HIDE DEF H
    <3>3. Items(Establish("imageFx") \o H) = Items(Establish("imageFx")) \cup Items(H)
      BY <3>2, ItemsOfConcat
    <3>4. \A s \in Items(Establish("imageFx") \o H) : s[1] \in OfTunnel \cup {"execute"}
      BY <2>1, <3>1, <3>3
    <3> QED BY <3>4 DEF H
  <2> HIDE DEF K
  <2>4. Laid(P6, d, {}, fx, fx) /\ Items(P6) = IF d THEN Items(K) ELSE {}
    <3>1. P6 = When(d, K)
      BY DEF K
    <3>2. Laid(When(d, K), d, IF d THEN {} ELSE {}, IF d THEN {"imageFx"} ELSE {}, IF d THEN {"imageFx"} ELSE {})
          /\ Items(When(d, K)) = IF d THEN Items(K) ELSE {}
      BY <2>2, LaidWhen
    <3>3. (IF d THEN {} ELSE {}) = {}
      OBVIOUS
    <3> QED BY <1>7, <3>1, <3>2, <3>3
  <2> HIDE DEF P6
  <2>5. \A s \in Items(P6) : s[1] \notin Early \cup {"tunnel"}
    BY <2>3, <2>4 DEF OfTunnel, Early
  <2>6. /\ {"clock", "decoder"} \cap fx = {} /\ {"clock", "decoder"} \cap {} = {} /\ {} \cap fx = {}
        /\ W = W \cup {} /\ fx = {} \cup fx /\ "clock" \notin fx
    BY <1>7
  <2> QED BY <1>9, <2>4, <2>5, <2>6, LaidThen
<1> HIDE DEF P6, E
<1>11. Laid(F, d, W, W, fx)
  <2>1. /\ "sched" \notin {"clock", "decoder"} \cup fx /\ W = ({"clock", "decoder"} \cup fx) \cup {"sched"}
        /\ \A c \in fx : Waker(c) # "sched"
    BY <1>7, WakerIs DEF W
  <2> QED BY <1>4, <1>10, <2>1, ThenEstablish
<1> HIDE DEF F
<1>12. Laid(G, d, W, W, {"scheduler", "render"} \cup fx)
  <2> DEFINE r == Do("execute", "scheduler")
             u == Do("execute", "render")
             H == F \o <<r>>
  <2>1. Laid(H, d, W, W, fx \cup {"scheduler"})
    BY <1>4, <1>7, <1>11, ThenExecute
  <2>2. G = H \o <<u>>
    <3>1. F \in Seq(AnyCall) /\ <<r>> \in Seq(AnyCall) /\ <<u>> \in Seq(AnyCall) /\ P8 = <<r>> \o <<u>>
      BY <1>4, <1>11, IsCall DEF Laid
    <3> HIDE DEF r, u, P8
    <3>2. F \o (<<r>> \o <<u>>) = (F \o <<r>>) \o <<u>>
      BY <3>1, ConcatAssociative
    <3> QED BY <3>1, <3>2
  <2> HIDE DEF H
  <2>3. {"scheduler", "render"} \cup fx = (fx \cup {"scheduler"}) \cup {"render"} /\ "render" \notin fx \cup {"scheduler"}
    BY <1>7
  <2>4. Laid(H \o <<u>>, d, W, W, {"scheduler", "render"} \cup fx)
    BY <1>4, <2>1, <2>3, ThenExecute
  <2> QED BY <2>2, <2>4
<1> HIDE DEF G
<1>13. W = Wires(d) /\ Members(d) \ {"decoder"} = {"scheduler", "render"} \cup fx
  BY <1>0, <1>7, WiresAre DEF W
<1> QED BY <1>0, <1>12, <1>13

\* Parts of an audio wiring, in which there is no tunnel "clock".
LEMMA LaidMore ==
    ASSUME NEW a, NEW b, NEW d, NEW T, NEW X, NEW E, NEW U, NEW Y, NEW F, NEW T1, NEW X1, NEW E1,
           Laid(a, d, T, X, E), Laid(b, d, U, Y, F), X \cap Y = {}, X \cap U = {}, E \cap F = {},
           \A c \in E : Waker(c) \notin Y, "clock" \notin X, "clock" \notin Y,
           T1 = T \cup U, X1 = X \cup Y, E1 = E \cup F
    PROVE  Laid(a \o b, d, T1, X1, E1)
BY LaidThen

LEMMA LaidPlain ==
    ASSUME NEW call \in {"init", "config"}, NEW c \in Components, NEW d
    PROVE  Laid(<<Do(call, c)>>, d, {}, {}, {})
<1> DEFINE a == Do(call, c)
<1>1. a \in AnyCall /\ a[1] = call
  BY IsCall DEF Do
<1> HIDE DEF a
<1>2. Items(<<a>>) = {a} /\ <<a>> \in Seq(AnyCall)
  BY <1>1, ItemsOfOne
<1>3. Laid(<<a>>, d, {}, {}, {})
  BY <1>1, <1>2, LaidEnds
<1> QED BY <1>3 DEF a

\* A tunnel that is established right after its ends are known.
LEMMA LaidLink ==
    ASSUME NEW t \in Tunnels, t # "clock", NEW d, NEW quad, quad = EndsOf(t, d), <<"tunnel", t, quad>> \in AnyCall
    PROVE  Laid(<<<<"tunnel", t, quad>>>> \o Establish(t), d, {t}, {t}, {})
<1> DEFINE a == <<"tunnel", t, quad>>
<1>1. a[1] = "tunnel" /\ a[2] = t /\ a[3] = quad /\ a \in AnyCall
  OBVIOUS
<1> HIDE DEF a
<1>2. Items(<<a>>) = {a} /\ <<a>> \in Seq(AnyCall)
  BY <1>1, ItemsOfOne
<1>3. Laid(<<a>>, d, {t}, {}, {})
  BY <1>1, <1>2, LaidEnds
<1>4. {t} = {} \cup {t}
  OBVIOUS
<1>5. Laid(<<a>> \o Establish(t), d, {t}, {t}, {})
  BY <1>3, <1>4, ThenEstablish
<1> QED BY <1>5 DEF a

LEMMA LaidPair ==
    ASSUME NEW d, NEW b \in BOOLEAN, NEW c \in BOOLEAN, NEW p, NEW q,
           NEW T, NEW X, NEW E, NEW U, NEW Y, NEW F, NEW T1, NEW X1, NEW E1,
           b => Laid(p, d, T, X, E), c => Laid(q, d, U, Y, F),
           X \cap Y = {}, X \cap U = {}, E \cap F = {}, \A k \in E : Waker(k) \notin Y,
           "clock" \notin X, "clock" \notin Y,
           T1 = (IF b THEN T ELSE {}) \cup (IF c THEN U ELSE {}),
           X1 = (IF b THEN X ELSE {}) \cup (IF c THEN Y ELSE {}),
           E1 = (IF b THEN E ELSE {}) \cup (IF c THEN F ELSE {})
    PROVE  Laid(When(b, p) \o When(c, q), d, T1, X1, E1)
<1>1. Laid(When(b, p), d, IF b THEN T ELSE {}, IF b THEN X ELSE {}, IF b THEN E ELSE {})
  BY LaidWhen
<1>2. Laid(When(c, q), d, IF c THEN U ELSE {}, IF c THEN Y ELSE {}, IF c THEN F ELSE {})
  BY LaidWhen
<1> DEFINE Tb == IF b THEN T ELSE {}
           Xb == IF b THEN X ELSE {}
           Eb == IF b THEN E ELSE {}
           Uc == IF c THEN U ELSE {}
           Yc == IF c THEN Y ELSE {}
           Fc == IF c THEN F ELSE {}
<1>3. Xb \subseteq X /\ Eb \subseteq E /\ Uc \subseteq U /\ Yc \subseteq Y /\ Fc \subseteq F
  OBVIOUS
<1>4. Xb \cap Yc = {} /\ Xb \cap Uc = {} /\ Eb \cap Fc = {} /\ \A k \in Eb : Waker(k) \notin Yc
  BY <1>3
<1>5. "clock" \notin Xb /\ "clock" \notin Yc
  BY <1>3
<1>6. Laid(When(b, p), d, Tb, Xb, Eb) /\ Laid(When(c, q), d, Uc, Yc, Fc)
      /\ T1 = Tb \cup Uc /\ X1 = Xb \cup Yc /\ E1 = Eb \cup Fc
  BY <1>1, <1>2
<1> HIDE DEF Tb, Xb, Eb, Uc, Yc, Fc
<1> QED BY <1>4, <1>5, <1>6, LaidMore

LEMMA AudioPlanIsLaid ==
    ASSUME ~IsVideo, NEW d \in BOOLEAN, device \in {"none", "anal", "hdmi", "both"}
    PROVE  Laid(AudioPlan, d, Wires(d), Wires(d), Members(d) \ {"decoder"})
<1> DEFINE useA == "anal" \in Renders
           useH == "hdmi" \in Renders
           sink == IF Both THEN "splitter" ELSE device
           LA == <<<<"tunnel", "clock anal", <<Clock, ClockPort("anal"), "anal", "clock">>>>>> \o Establish("clock anal")
           LH == <<<<"tunnel", "clock hdmi", <<Clock, ClockPort("hdmi"), "hdmi", "clock">>>>>> \o Establish("clock hdmi")
           SA == <<<<"tunnel", "splitter anal", <<"splitter", "out", "anal", "in">>>>>> \o Establish("splitter anal")
           SH == <<<<"tunnel", "splitter hdmi", <<"splitter", "out1", "hdmi", "in">>>>>> \o Establish("splitter hdmi")
           u == <<"tunnel", "decoder", <<"decoder", "out", "mixer", "in">>>>
           v == <<"tunnel", "mixer", <<"mixer", "out", sink, "in">>>>
           I == When(useA, <<Do("init", "anal")>>) \o When(useH, <<Do("init", "hdmi")>>)
           W == When(useA, LA) \o When(useH, LH)
           C == When(useA, <<Do("config", "anal")>>) \o When(useH, <<Do("config", "hdmi")>>)
           Y == When(useA, SA) \o When(useH, SH)
           X == When(useA, <<Do("execute", "anal")>>) \o When(useH, <<Do("execute", "hdmi")>>)
           S0 == <<Do("init", "mixer")>>
           S1 == S0 \o When(Both, <<Do("init", "splitter")>>)
           S2 == S1 \o I
           S3 == S2 \o <<Do("config", "mixer")>>
           S4 == S3 \o W
           S5 == S4 \o C
           S6 == S5 \o When(Both, Y)
           S7 == S6 \o <<u, v>>
           S8 == S7 \o Establish("decoder")
           S9 == S8 \o <<Do("execute", "mixer")>>
           S10 == S9 \o Establish("mixer")
           S11 == S10 \o When(Both, <<Do("execute", "splitter")>>)
           S12 == S11 \o X
           clocks == (IF useA THEN {"clock anal"} ELSE {}) \cup (IF useH THEN {"clock hdmi"} ELSE {})
           splits == IF Both THEN {"splitter anal", "splitter hdmi"} ELSE {}
           sinks == (IF useA THEN {"anal"} ELSE {}) \cup (IF useH THEN {"hdmi"} ELSE {})
           split == IF Both THEN {"splitter"} ELSE {}
<1>0. AudioPlan = S12
  <2>1. SplitTunnel("anal") = "splitter anal" /\ SplitTunnel("hdmi") = "splitter hdmi"
        /\ ClockTunnel("anal") = "clock anal" /\ ClockTunnel("hdmi") = "clock hdmi"
    BY DEF SplitTunnel, ClockTunnel
  <2> QED BY <2>1 DEF AudioPlan, PerRender
<1>1. Both \in BOOLEAN /\ useA \in BOOLEAN /\ useH \in BOOLEAN
  BY DEF Both
<1>2. /\ Both => useA /\ useH
      /\ {"decoder", "mixer", "anal", "hdmi", "splitter"} \subseteq Components
      /\ {"clock anal", "clock hdmi", "splitter anal", "splitter hdmi", "decoder", "mixer"} \subseteq Tunnels
  BY AudioShapes DEF Components, Tunnels
<1>3. /\ useA => Laid(LA, d, {"clock anal"}, {"clock anal"}, {})
      /\ useH => Laid(LH, d, {"clock hdmi"}, {"clock hdmi"}, {})
  <2> DEFINE a == "clock anal"
             h == "clock hdmi"
             qa == <<Clock, ClockPort("anal"), "anal", "clock">>
             qh == <<Clock, ClockPort("hdmi"), "hdmi", "clock">>
  <2>0. a # "clock" /\ h # "clock" /\ a \in Tunnels /\ h \in Tunnels /\ a = "clock anal" /\ h = "clock hdmi"
    BY <1>2
  <2>1. qa = EndsOf(a, d) /\ qh = EndsOf(h, d)
    BY EndsAt
  <2>2. useA => Shape(a, qa) /\ "anal" \in Members(d)
    BY AudioShapes
  <2>3. useH => Shape(h, qh) /\ "hdmi" \in Members(d)
    BY AudioShapes
  <2>4. qa[1] = Clock /\ qa[3] = "anal" /\ qh[1] = Clock /\ qh[3] = "hdmi"
    OBVIOUS
  <2> HIDE DEF qa, qh, a, h
  <2>5. useA => <<"tunnel", a, qa>> \in AnyCall
    BY <2>0, <2>2, <2>4, WireFits
  <2>6. useH => <<"tunnel", h, qh>> \in AnyCall
    BY <2>0, <2>3, <2>4, WireFits
  <2>7. useA => Laid(<<<<"tunnel", a, qa>>>> \o Establish(a), d, {a}, {a}, {})
    BY <2>0, <2>1, <2>5, LaidLink
  <2>8. useH => Laid(<<<<"tunnel", h, qh>>>> \o Establish(h), d, {h}, {h}, {})
    BY <2>0, <2>1, <2>6, LaidLink
  <2> QED BY <2>7, <2>8 DEF qa, qh, a, h
<1>4. Both => /\ Laid(SA, d, {"splitter anal"}, {"splitter anal"}, {})
              /\ Laid(SH, d, {"splitter hdmi"}, {"splitter hdmi"}, {})
  <2> DEFINE a == "splitter anal"
             h == "splitter hdmi"
             qa == <<"splitter", "out", "anal", "in">>
             qh == <<"splitter", "out1", "hdmi", "in">>
  <2>0. a # "clock" /\ h # "clock" /\ a \in Tunnels /\ h \in Tunnels
    BY <1>2
  <2>1. qa = EndsOf(a, d) /\ qh = EndsOf(h, d)
    BY EndsAt
  <2>2. Shape(a, qa) /\ Shape(h, qh)
    BY AudioShapes
  <2>3. Both => "anal" \in Members(d) /\ "hdmi" \in Members(d) /\ "splitter" \in Members(d)
    BY AudioShapes
  <2>4. qa[1] = "splitter" /\ qa[3] = "anal" /\ qh[1] = "splitter" /\ qh[3] = "hdmi"
    OBVIOUS
  <2> HIDE DEF qa, qh, a, h
  <2>5. Both => <<"tunnel", a, qa>> \in AnyCall
    BY <2>0, <2>2, <2>3, <2>4, WireFits
  <2>6. Both => <<"tunnel", h, qh>> \in AnyCall
    BY <2>0, <2>2, <2>3, <2>4, WireFits
  <2>7. Both => Laid(<<<<"tunnel", a, qa>>>> \o Establish(a), d, {a}, {a}, {})
    BY <2>0, <2>1, <2>5, LaidLink
  <2>8. Both => Laid(<<<<"tunnel", h, qh>>>> \o Establish(h), d, {h}, {h}, {})
    BY <2>0, <2>1, <2>6, LaidLink
  <2> QED BY <2>7, <2>8 DEF qa, qh, a, h
<1>5. Laid(<<u, v>>, d, {"decoder", "mixer"}, {}, {})
  <2> DEFINE qd == <<"decoder", "out", "mixer", "in">>
             qm == <<"mixer", "out", sink, "in">>
  <2>1. qd[1] = "decoder" /\ qd[3] = "mixer" /\ qm[1] = "mixer" /\ qm[3] = sink
    OBVIOUS
  <2>2. Shape("decoder", qd) /\ Shape("mixer", qm) /\ sink \in Members(d) /\ {"decoder", "mixer"} \subseteq Members(d)
    BY AudioShapes
  <2>3. qd = EndsOf("decoder", d) /\ qm = EndsOf("mixer", d)
    BY EndsAt
  <2> HIDE DEF qd, qm, sink
  <2>4. u \in AnyCall
    BY <1>2, <2>1, <2>2, WireFits DEF qd
  <2>5. v \in AnyCall
    BY <1>2, <2>1, <2>2, WireFits DEF qm
  <2>6. u[1] = "tunnel" /\ u[2] = "decoder" /\ v[1] = "tunnel" /\ v[2] = "mixer" /\ u[3] = qd /\ v[3] = qm
    BY DEF qd, qm
  <2> HIDE DEF u, v
  <2>7. <<u, v>> \in Seq(AnyCall) /\ Items(<<u, v>>) = {u, v}
    BY <2>4, <2>5, ItemsOfTwo
  <2> QED BY <2>3, <2>6, <2>7, LaidEnds
<1> HIDE DEF sink, LA, LH, SA, SH, u, v
<1>6. Laid(W, d, clocks, clocks, {})
  <2> DEFINE a == {"clock anal"}
             h == {"clock hdmi"}
  <2>1. a \cap h = {} /\ {} \cap {} = {} /\ "clock" \notin a /\ "clock" \notin h
        /\ {} = (IF useA THEN {} ELSE {}) \cup (IF useH THEN {} ELSE {})
    OBVIOUS
  <2>2. clocks = (IF useA THEN a ELSE {}) \cup (IF useH THEN h ELSE {})
    OBVIOUS
  <2>3. (useA => Laid(LA, d, a, a, {})) /\ (useH => Laid(LH, d, h, h, {}))
    BY <1>3
  <2> HIDE DEF useA, useH, clocks, a, h
  <2> QED BY <1>1, <2>1, <2>2, <2>3, LaidPair
<1>7. Laid(When(Both, Y), d, splits, splits, {})
  <2> DEFINE a == {"splitter anal"}
             h == {"splitter hdmi"}
  <2>1. a \cap h = {} /\ {} \cap {} = {} /\ "clock" \notin a /\ "clock" \notin h
        /\ {} = (IF useA THEN {} ELSE {}) \cup (IF useH THEN {} ELSE {})
    OBVIOUS
  <2>2. Both => splits = (IF useA THEN a ELSE {}) \cup (IF useH THEN h ELSE {})
    BY <1>2
  <2>3. ASSUME Both PROVE Laid(Y, d, splits, splits, {})
    <3>1. Laid(SA, d, a, a, {}) /\ Laid(SH, d, h, h, {})
      BY <1>4, <2>3
    <3> HIDE DEF useA, useH, splits, a, h
    <3> QED BY <1>1, <2>1, <2>2, <2>3, <3>1, LaidPair
  <2> HIDE DEF Y
  <2>4. Laid(When(Both, Y), d, IF Both THEN splits ELSE {}, IF Both THEN splits ELSE {}, IF Both THEN {} ELSE {})
    BY <1>1, <2>3, LaidWhen
  <2>5. (IF Both THEN splits ELSE {}) = splits /\ (IF Both THEN {} ELSE {}) = {}
    OBVIOUS
  <2> QED BY <2>4, <2>5
<1>8. Laid(I, d, {}, {}, {}) /\ Laid(C, d, {}, {}, {})
  <2>1. /\ Laid(<<Do("init", "anal")>>, d, {}, {}, {}) /\ Laid(<<Do("init", "hdmi")>>, d, {}, {}, {})
        /\ Laid(<<Do("config", "anal")>>, d, {}, {}, {}) /\ Laid(<<Do("config", "hdmi")>>, d, {}, {}, {})
    BY <1>2, LaidPlain
  <2>2. {} \cap {} = {} /\ {} = (IF useA THEN {} ELSE {}) \cup (IF useH THEN {} ELSE {})
    OBVIOUS
  <2> DEFINE i == <<Do("init", "anal")>>
             j == <<Do("init", "hdmi")>>
             k == <<Do("config", "anal")>>
             l == <<Do("config", "hdmi")>>
  <2> HIDE DEF useA, useH, i, j, k, l
  <2>3. Laid(When(useA, i) \o When(useH, j), d, {}, {}, {})
    BY <1>1, <2>1, <2>2, LaidPair DEF i, j
  <2>4. Laid(When(useA, k) \o When(useH, l), d, {}, {}, {})
    BY <1>1, <2>1, <2>2, LaidPair DEF k, l
  <2> QED BY <2>3, <2>4 DEF i, j, k, l
<1>9. Laid(X, d, {}, {}, sinks)
  <2> DEFINE i == <<Do("execute", "anal")>>
             j == <<Do("execute", "hdmi")>>
  <2>1. Laid(i, d, {}, {}, {"anal"}) /\ Laid(j, d, {}, {}, {"hdmi"})
    BY <1>2, LaidExecute
  <2>2. {"anal"} \cap {"hdmi"} = {} /\ {} \cap {} = {} /\ {} = (IF useA THEN {} ELSE {}) \cup (IF useH THEN {} ELSE {})
        /\ sinks = (IF useA THEN {"anal"} ELSE {}) \cup (IF useH THEN {"hdmi"} ELSE {})
    OBVIOUS
  <2> HIDE DEF useA, useH, sinks, i, j
  <2>3. Laid(When(useA, i) \o When(useH, j), d, {}, {}, sinks)
    BY <1>1, <2>1, <2>2, LaidPair
  <2> QED BY <2>3 DEF i, j
<1>10. \A S : S \cup {} = S /\ {} \cup S = S /\ S \cap {} = {} /\ {} \cap S = {}
  OBVIOUS
<1>11. /\ clocks \subseteq {"clock anal", "clock hdmi"} /\ splits \subseteq {"splitter anal", "splitter hdmi"}
       /\ sinks \subseteq {"anal", "hdmi"} /\ split \subseteq {"splitter"}
       /\ "clock" \notin clocks /\ "clock" \notin splits /\ clocks \cap splits = {}
  OBVIOUS
<1> HIDE DEF I, W, C, Y, X
<1>12. Laid(S1, d, {}, {}, {})
  <2> DEFINE p == <<Do("init", "splitter")>>
  <2>1. Laid(p, d, {}, {}, {}) /\ Laid(S0, d, {}, {}, {})
    BY <1>2, LaidPlain
  <2> HIDE DEF p, S0
  <2>2. Laid(When(Both, p), d, IF Both THEN {} ELSE {}, IF Both THEN {} ELSE {}, IF Both THEN {} ELSE {})
    BY <1>1, <2>1, LaidWhen
  <2>3. (IF Both THEN {} ELSE {}) = {}
    OBVIOUS
  <2>4. Laid(When(Both, p), d, {}, {}, {})
    BY <2>2, <2>3
  <2>5. Laid(S0 \o When(Both, p), d, {}, {}, {})
    BY <1>10, <2>1, <2>4, ThenEnds
  <2> QED BY <2>5 DEF p
<1> HIDE DEF S1
<1>13. Laid(S2, d, {}, {}, {})
  BY <1>8, <1>10, <1>12, ThenEnds
<1> HIDE DEF S2
<1>14. Laid(S3, d, {}, {}, {})
  <2> DEFINE p == <<Do("config", "mixer")>>
  <2>1. Laid(p, d, {}, {}, {})
    BY <1>2, LaidPlain
  <2> HIDE DEF p
  <2>2. Laid(S2 \o p, d, {}, {}, {})
    BY <1>10, <1>13, <2>1, ThenEnds
  <2> QED BY <2>2 DEF p
<1> HIDE DEF S3, clocks, splits, sinks, split
<1>15. Laid(S4, d, clocks, clocks, {})
  <2>1. "clock" \notin {} /\ "clock" \notin clocks /\ {} \cap clocks = {} /\ {} \cap {} = {}
        /\ clocks = {} \cup clocks /\ {} = {} \cup {}
    BY <1>11
  <2> QED BY <1>6, <1>14, <2>1, LaidMore
<1> HIDE DEF S4
<1>16. Laid(S5, d, clocks, clocks, {})
  <2>1. "clock" \notin clocks /\ clocks \cap {} = {} /\ clocks = clocks \cup {}
    BY <1>11
  <2> QED BY <1>8, <1>15, <2>1, ThenEnds
<1> HIDE DEF S5
<1>17. Laid(S6, d, clocks \cup splits, clocks \cup splits, {})
  <2>1. \A c \in {} : Waker(c) \notin splits
    OBVIOUS
  <2>2. /\ "clock" \notin clocks /\ "clock" \notin splits /\ clocks \cap splits = {}
    BY <1>11
  <2>3. {} \cup {} = {} /\ {} \cap {} = {}
    OBVIOUS
  <2> QED BY <1>7, <1>16, <2>1, <2>2, <2>3, LaidMore
<1> HIDE DEF S6
<1> DEFINE links == clocks \cup splits
           wires == links \cup {"decoder", "mixer"}
<1>18. links \subseteq {"clock anal", "clock hdmi", "splitter anal", "splitter hdmi"}
  BY <1>11
<1>19. Laid(S7, d, wires, links, {})
  <2> DEFINE p == <<u, v>>
  <2> HIDE DEF p
  <2>1. Laid(p, d, {"decoder", "mixer"}, {}, {}) /\ Laid(S6, d, links, links, {})
    BY <1>5, <1>17 DEF p
  <2>2. links \cap {"decoder", "mixer"} = {} /\ "clock" \notin links
    BY <1>18
  <2>3. wires = links \cup {"decoder", "mixer"}
    OBVIOUS
  <2> HIDE DEF links, wires
  <2>4. Laid(S6 \o p, d, wires, links, {})
    BY <2>1, <2>2, <2>3, ThenEnds
  <2> QED BY <2>4 DEF p
<1>20. wires = (links \cup {"decoder"}) \cup {"mixer"}
  OBVIOUS
<1> HIDE DEF S7, links, wires
<1>21. Laid(S8, d, wires, links \cup {"decoder"}, {})
  BY <1>2, <1>18, <1>19, ThenEstablish
<1> HIDE DEF S8
<1>22. Laid(S9, d, wires, links \cup {"decoder"}, {"mixer"})
  <2>1. {"mixer"} = {} \cup {"mixer"}
    OBVIOUS
  <2> QED BY <1>2, <1>21, <2>1, ThenExecute
<1> HIDE DEF S9
<1>23. Laid(S10, d, wires, wires, {"mixer"})
  <2>1. "mixer" \notin links \cup {"decoder"} /\ \A c \in {"mixer"} : Waker(c) # "mixer"
    BY <1>18, WakerIs
  <2> QED BY <1>2, <1>20, <1>22, <2>1, ThenEstablish
<1> HIDE DEF S10
<1>24. Laid(S11, d, wires, wires, {"mixer"} \cup split)
  <2> DEFINE p == <<Do("execute", "splitter")>>
  <2>1. Laid(p, d, {}, {}, {"splitter"})
    BY <1>2, LaidExecute
  <2> HIDE DEF p
  <2>2. Laid(When(Both, p), d, IF Both THEN {} ELSE {}, IF Both THEN {} ELSE {}, IF Both THEN {"splitter"} ELSE {})
    BY <1>1, <2>1, LaidWhen
  <2>3. (IF Both THEN {} ELSE {}) = {}
    OBVIOUS
  <2>4. Laid(When(Both, p), d, {}, {}, split)
    BY <2>2, <2>3 DEF split
  <2>5. {"mixer"} \cap split = {} /\ "clock" \notin wires
    BY <1>11, <1>18, <1>20
  <2>6. Laid(S10 \o When(Both, p), d, wires, wires, {"mixer"} \cup split)
    BY <1>10, <1>23, <2>4, <2>5, LaidMore
  <2> QED BY <2>6 DEF p
<1> HIDE DEF S11
<1>25. Laid(S12, d, wires, wires, ({"mixer"} \cup split) \cup sinks)
  <2>1. ({"mixer"} \cup split) \cap sinks = {} /\ "clock" \notin wires
    BY <1>11, <1>18, <1>20
  <2> QED BY <1>9, <1>10, <1>24, <2>1, LaidMore
<1> HIDE DEF S12
<1>26. wires = Wires(d) /\ ({"mixer"} \cup split) \cup sinks = Members(d) \ {"decoder"}
  <2>1. Both <=> device = "both"
    BY DEF Both
  <2>2. device = "anal" => wires = Wires(d) /\ ({"mixer"} \cup split) \cup sinks = Members(d) \ {"decoder"}
    BY <2>1, WiresAre DEF wires, links, clocks, splits, split, sinks
  <2>3. device = "hdmi" => wires = Wires(d) /\ ({"mixer"} \cup split) \cup sinks = Members(d) \ {"decoder"}
    BY <2>1, WiresAre DEF wires, links, clocks, splits, split, sinks
  <2>4. device = "both" => wires = Wires(d) /\ ({"mixer"} \cup split) \cup sinks = Members(d) \ {"decoder"}
    BY <2>1, WiresAre DEF wires, links, clocks, splits, split, sinks
  <2> QED BY <2>2, <2>3, <2>4 DEF IsVideo
<1> QED BY <1>0, <1>25, <1>26

-----------------------------------------------------------------------------
(* What a call of a wiring does to the states and the ports                  *)

Moved ==
    /\ \A c \in Components :
         /\ Calls("init") /\ c = Subject => state'[c] = "Loaded"
         /\ Calls("execute") /\ c = Subject => state'[c] = "Executing"
         /\ Calls("enable") /\ c = ends[Subject][3] /\ state[c] # "Executing" => state'[c] = "Idle"
         /\ Calls("srcIdle") /\ c = ends[Subject][1] => c = Clock \/ state'[c] # "Loaded"
         /\ \/ state'[c] = state[c]
            \/ state[c] = "Loaded" /\ state'[c] = "Idle"
            \/ (Calls("init") \/ Calls("execute")) /\ c = Subject
    /\ faults' = 0 => faults = 0
    /\ enabled \subseteq enabled'
    /\ faults' = 0 /\ ~Calls("enable") => enabled' = enabled
    /\ Calls("enable") =>
         {Src(Subject), Dst(Subject)} \cap enabled = {} /\ enabled' = enabled \cup {Src(Subject), Dst(Subject)}

LEMMA FaultIsCounted ==
    ASSUME ChainInv
    PROVE  (Fault => faults' # 0) /\ (NoFault => faults' = faults)
BY StateTypes DEF Fault, NoFault

LEMMA InitMoves ==
    ASSUME ChainInv, InitComponent
    PROVE  Moved
<1>1. Calls("init") /\ ~Calls("execute") /\ ~Calls("enable") /\ ~Calls("srcIdle")
  BY DEF InitComponent, Calls
<1>2. state' = [state EXCEPT ![Subject] = "Loaded"] /\ state \in [Components -> {"Loaded", "Idle", "Executing"}]
  BY StateTypes DEF InitComponent
<1>3. (NoFault /\ UNCHANGED enabled) \/ (Fault /\ enabled \subseteq enabled')
  BY DEF InitComponent
<1> QED BY <1>1, <1>2, <1>3, FaultIsCounted DEF Moved

\* The calls that leave every port as it is.
LEMMA OtherMoves ==
    ASSUME ChainInv, phase = "wiring", Configure \/ ChooseInterlace \/ InitTunnel \/ SetupTunnel
    PROVE  Moved
<1>1. Head(todo)[1] \in {"config", "idle", "interlace", "tunnel", "setup"} /\ todo # <<>>
  BY DEF Configure, ChooseInterlace, InitTunnel, SetupTunnel, Calls
<1>2. ~Calls("idle") /\ ~Calls("init") /\ ~Calls("execute") /\ ~Calls("enable") /\ ~Calls("srcIdle")
  <2>1. Head(todo)[1] # "idle"
    BY <1>1, NotClosing
  <2> QED BY <1>1, <2>1 DEF Calls
<1>3. state' = state /\ enabled' = enabled /\ NoFault
  BY <1>2 DEF Configure, ChooseInterlace, InitTunnel, SetupTunnel, gpuVars
<1> QED BY <1>2, <1>3, FaultIsCounted DEF Moved

LEMMA ExecuteMoves ==
    ASSUME ChainInv, Execute
    PROVE  Moved
<1>1. Calls("execute") /\ ~Calls("init") /\ ~Calls("enable") /\ ~Calls("srcIdle") /\ NoFault /\ enabled' = enabled
  BY DEF Execute, Calls, gpuVars
<1>2. state' = [state EXCEPT ![Subject] = "Executing"] /\ state \in [Components -> {"Loaded", "Idle", "Executing"}]
  BY StateTypes DEF Execute
<1> QED BY <1>1, <1>2, FaultIsCounted DEF Moved

LEMMA SourceMoves ==
    ASSUME ChainInv, SourceIdle
    PROVE  Moved
<1>1. Calls("srcIdle") /\ ~Calls("execute") /\ ~Calls("init") /\ ~Calls("enable") /\ NoFault /\ enabled' = enabled
  BY DEF SourceIdle, Calls, gpuVars
<1> DEFINE k == ends[Subject][1]
<1>2. state \in [Components -> {"Loaded", "Idle", "Executing"}]
      /\ state' = IF k # Clock /\ state[k] = "Loaded" THEN [state EXCEPT ![k] = "Idle"] ELSE state
  BY StateTypes DEF SourceIdle
<1>3. \A c \in Components :
        /\ c = k => c = Clock \/ state'[c] # "Loaded"
        /\ state'[c] = state[c] \/ (state[c] = "Loaded" /\ state'[c] = "Idle")
  <2> HIDE DEF k
  <2> QED BY <1>2
<1>4. \A c \in Components :
        /\ c = ends[Subject][1] => c = Clock \/ state'[c] # "Loaded"
        /\ state'[c] = state[c] \/ (state[c] = "Loaded" /\ state'[c] = "Idle")
  BY <1>3
<1> QED BY <1>1, <1>4, FaultIsCounted DEF Moved

LEMMA EnableMoves ==
    ASSUME ChainInv, EnablePorts
    PROVE  Moved
<1>1. Calls("enable") /\ ~Calls("execute") /\ ~Calls("init") /\ ~Calls("srcIdle") /\ NoFault
      /\ enabled' = enabled \cup {Src(Subject), Dst(Subject)} /\ {Src(Subject), Dst(Subject)} \cap enabled = {}
  BY DEF EnablePorts, Calls, Answered
<1> DEFINE k == ends[Subject][3]
<1>2. state \in [Components -> {"Loaded", "Idle", "Executing"}]
      /\ state' = IF state[k] = "Loaded" THEN [state EXCEPT ![k] = "Idle"] ELSE state
  BY StateTypes DEF EnablePorts, DestinationIdle
<1>3. \A c \in Components :
        /\ c = k /\ state[c] # "Executing" => state'[c] = "Idle"
        /\ state'[c] = state[c] \/ (state[c] = "Loaded" /\ state'[c] = "Idle")
  <2> HIDE DEF k
  <2> QED BY <1>2
<1>4. \A c \in Components :
        /\ c = ends[Subject][3] /\ state[c] # "Executing" => state'[c] = "Idle"
        /\ state'[c] = state[c] \/ (state[c] = "Loaded" /\ state'[c] = "Idle")
  BY <1>3
<1> QED BY <1>1, <1>4, FaultIsCounted DEF Moved

\* The calls of open and srcChanged that succeed.
Succeeds ==
    \/ InitComponent \/ Configure \/ ChooseInterlace \/ InitTunnel \/ AllocInputBuffers
    \/ Execute \/ SourceIdle \/ SetupTunnel \/ EnablePorts
Fails == InitFails \/ EnableFails \/ CallFails

LEMMA SuccessAdvances ==
    ASSUME ChainInv, Succeeds
    PROVE  Advancing /\ (phase = "wiring" => Moved)
<1>1. Advancing
  BY InitComponentAdvances, ConfigureAdvances, ChooseInterlaceAdvances, InitTunnelAdvances,
     AllocInputBuffersAdvances, ExecuteAdvances, SourceIdleAdvances, SetupTunnelAdvances, EnablePortsAdvances DEF Succeeds
<1>2. AllocInputBuffers => phase # "wiring"
  BY NotClosing DEF AllocInputBuffers, Calls
<1> QED BY <1>1, <1>2, InitMoves, OtherMoves, ExecuteMoves, SourceMoves, EnableMoves DEF Succeeds

LEMMA FailureAborts ==
    ASSUME ChainInv, Fails
    PROVE  Aborting
BY InitFailsAborts, EnableFailsAborts, CallFailsAborts DEF Fails

-----------------------------------------------------------------------------
(* A wiring gets on                                                          *)

LEMMA WiresFixed ==
    ASSUME UNCHANGED device
    PROVE  /\ \A d : Wires(d)' = Wires(d)
           /\ \A t, d : EndsOf(t, d)' = EndsOf(t, d)
           /\ \A p, t, d : UsedBy(p, t, d)' <=> UsedBy(p, t, d)
           /\ \A s, d : Proper(s, d)' <=> Proper(s, d)
<1>1. (IsVideo' <=> IsVideo) /\ (Both' <=> Both) /\ Renders' = Renders /\ \A d : Members(d)' = Members(d)
  BY DeviceFixed DEF IsVideo, Both, Renders
<1>2. \A d : Wires(d)' = Wires(d)
  BY <1>1 DEF Wires
<1>3. \A r : ClockPort(r)' = ClockPort(r)
  BY <1>1 DEF ClockPort
<1>4. \A t, d : EndsOf(t, d)' = EndsOf(t, d)
  <2> SUFFICES ASSUME NEW t, NEW d PROVE EndsOf(t, d)' = EndsOf(t, d)
    OBVIOUS
  <2> QED BY <1>1, <1>3 DEF EndsOf
<1>5. \A p, t, d : UsedBy(p, t, d)' <=> UsedBy(p, t, d)
  BY <1>4 DEF UsedBy
<1>6. \A s, d : Proper(s, d)' <=> Proper(s, d)
  BY <1>1, <1>2, <1>4 DEF Proper
<1> QED BY <1>2, <1>4, <1>5, <1>6

\* A wiring, with its next call.
Going(d) == ChainInv /\ phase = "wiring" /\ Advancing /\ Moved /\ Wiring(d) /\ Progress(d)

LEMMA GoingIs ==
    ASSUME NEW d \in BOOLEAN, Going(d)
    PROVE  /\ todo # <<>> /\ todo' = Tail(todo) /\ attempts' = attempts /\ UNCHANGED device
           /\ device \in {"none", "anal", "hdmi", "both"}
           /\ OrderlyPlan(Tail(todo)) /\ \A s \in Items(Tail(todo)) : Orderly(Head(todo), s)
           /\ \A s \in Items(todo) : Proper(s, d)
           /\ \A call : /\ Subjects(Tail(todo), call) \subseteq Subjects(todo, call)
                        /\ \A c \in Subjects(todo, call) :
                              c \in Subjects(Tail(todo), call) \/ (Calls(call) /\ Subject = c)
                        /\ Calls(call) => Subject \in Subjects(todo, call) \/ call = "interlace"
<1>1. todo # <<>> /\ todo' = Tail(todo) /\ attempts' = attempts /\ UNCHANGED device
  BY AdvancingIs DEF Going
<1>2. device \in {"none", "anal", "hdmi", "both"}
  BY DeviceIs DEF Going
<1>3. todo \in Seq(AnyCall) /\ Head(todo) \in Items(todo) /\ Head(todo) \in AnyCall
  BY <1>1, TodoIs DEF Going
<1>4. OrderlyPlan(Tail(todo)) /\ \A s \in Items(Tail(todo)) : Orderly(Head(todo), s)
  BY <1>1, <1>3, OrderlyTail DEF Going, Progress
<1>5. \A call : /\ Subjects(Tail(todo), call) \subseteq Subjects(todo, call)
                /\ \A c \in Subjects(todo, call) :
                      c \in Subjects(Tail(todo), call) \/ (Calls(call) /\ Subject = c)
  BY <1>1, <1>3, SubjectsOfTail DEF Calls, Subject
<1>6. ASSUME NEW call, Calls(call), call # "interlace" PROVE Subject \in Subjects(todo, call)
  <2>1. Subject \in Components \cup Tunnels
    <3>1. Head(todo)[1] # "interlace"
      BY <1>6 DEF Calls
    <3> QED BY <1>3, <3>1 DEF AnyCall, Subject
  <2> QED BY <1>3, <1>6, <2>1 DEF Subjects, Calls, Subject
<1>7. \A s \in Items(todo) : Proper(s, d)
  BY DEF Going, Progress
<1> QED BY <1>1, <1>2, <1>4, <1>5, <1>6, <1>7

\* Which calls are not made a second time.
LEMMA GoingOnce ==
    ASSUME NEW d \in BOOLEAN, Going(d)
    PROVE  /\ Calls("execute") => Subject \notin Subjects(Tail(todo), "execute")
           /\ Calls("enable") =>
                Subject \notin Subjects(Tail(todo), "enable") /\ Subject \notin Subjects(Tail(todo), "setup")
           /\ Calls("srcIdle") \/ Calls("setup") \/ Calls("enable") =>
                Subject \notin Subjects(todo, "tunnel") /\ Subject \in Wires(d)
           /\ Calls("execute") \/ Calls("srcIdle") \/ Calls("setup") \/ Calls("enable") => Subjects(todo, "init") = {}
           /\ Calls("init") => Subject \notin Subjects(Tail(todo), "init")
           /\ Calls("tunnel") => Argument = EndsOf(Subject, d) /\ Subject \in Wires(d)
<1>1. /\ \A s \in Items(Tail(todo)) : Orderly(Head(todo), s)
      /\ \A s \in Items(todo) : Proper(s, d)
      /\ todo # <<>>
      /\ \A c \in Subjects(todo, "tunnel") : c \in Subjects(Tail(todo), "tunnel") \/ (Calls("tunnel") /\ Subject = c)
      /\ \A call : Calls(call) => Head(todo)[1] = call
  BY GoingIs DEF Calls
<1>2. Head(todo) \in Items(todo) /\ todo \in Seq(AnyCall)
  BY <1>1, TodoIs DEF Going
<1>3. Proper(Head(todo), d)
  BY <1>1, <1>2
<1>4. Calls("execute") => Subject \notin Subjects(Tail(todo), "execute")
  BY <1>1 DEF Subjects, Orderly, Subject
<1>5. Calls("enable") => Subject \notin Subjects(Tail(todo), "enable") /\ Subject \notin Subjects(Tail(todo), "setup")
  BY <1>1 DEF Subjects, Orderly, OfTunnel, Subject
<1>6. Calls("srcIdle") \/ Calls("setup") \/ Calls("enable") =>
        Subject \notin Subjects(todo, "tunnel") /\ Subject \in Wires(d)
  <2> SUFFICES ASSUME Calls("srcIdle") \/ Calls("setup") \/ Calls("enable")
               PROVE  Subject \notin Subjects(todo, "tunnel") /\ Subject \in Wires(d)
    OBVIOUS
  <2>1. Head(todo)[1] \in OfTunnel /\ ~Calls("tunnel")
    BY <1>1 DEF OfTunnel, Calls
  <2>2. Subject \notin Subjects(Tail(todo), "tunnel")
    BY <1>1, <2>1 DEF Subjects, Orderly, Subject
  <2> QED BY <1>1, <1>3, <2>1, <2>2 DEF Proper, Subject
<1>7. Calls("execute") \/ Calls("srcIdle") \/ Calls("setup") \/ Calls("enable") => Subjects(todo, "init") = {}
  <2> SUFFICES ASSUME Calls("execute") \/ Calls("srcIdle") \/ Calls("setup") \/ Calls("enable")
               PROVE  Subjects(todo, "init") = {}
    OBVIOUS
  <2>1. Head(todo)[1] \notin Early \cup {"config"}
    BY <1>1 DEF Early
  <2>2. InOrder(todo)
    BY DEF Going, Wiring
  <2> QED BY <1>1, <1>2, <2>1, <2>2, NoEarlyLeft
<1>8. Calls("init") => Subject \notin Subjects(Tail(todo), "init")
  BY WiringHead DEF Going, Calls
<1>9. Calls("tunnel") => Argument = EndsOf(Subject, d) /\ Subject \in Wires(d)
  BY <1>1, <1>3 DEF Proper, Subject, Argument
<1> QED BY <1>4, <1>5, <1>6, <1>7, <1>8, <1>9

LEMMA GoingRuns ==
    ASSUME NEW d \in BOOLEAN, Going(d)
    PROVE  Running(d)'
<1>1. todo' = Tail(todo) /\ Members(d)' = Members(d)
  BY GoingIs, DeviceFixed
<1> SUFFICES ASSUME NEW c \in Members(d), c \notin Subjects(todo', "execute")
             PROVE  state'[c] = "Executing" /\ c \notin Subjects(todo', "init")
  BY <1>1 DEF Running
<1>2. c \in Components
  BY DeviceIs DEF Going
<1>3. CASE c \in Subjects(todo, "execute")
  <2>1. Calls("execute") /\ Subject = c
    BY <1>1, <1>3, GoingIs
  <2>2. state'[c] = "Executing"
    BY <1>2, <2>1 DEF Going, Moved
  <2>3. Subjects(todo', "init") = {}
    BY <1>1, <2>1, GoingIs, GoingOnce
  <2> QED BY <2>2, <2>3
<1>4. CASE state[c] = "Executing" /\ c \notin Subjects(todo, "init")
  <2>1. c \notin Subjects(todo', "init")
    BY <1>1, <1>4, GoingIs
  <2>2. ~(Calls("init") /\ c = Subject)
    BY <1>4, GoingIs
  <2>3. ~(Calls("execute") /\ c = Subject) \/ state'[c] = "Executing"
    BY <1>2 DEF Going, Moved
  <2>4. state'[c] = "Executing"
    BY <1>2, <1>4, <2>2, <2>3 DEF Going, Moved
  <2> QED BY <2>1, <2>4
<1> QED BY <1>3, <1>4 DEF Going, Progress, Running

\* The ports of a tunnel whose ends are known stay the same.
LEMMA JoinedStays ==
    ASSUME NEW d \in BOOLEAN, Going(d), NEW t \in Tunnels, Behind(t)
    PROVE  /\ Src(t)' = Src(t) /\ Dst(t)' = Dst(t) /\ ends'[t] = ends[t] /\ handle' = handle
           /\ Behind(t)' /\ (Joined(t) => Joined(t)')
<1>1. todo' = Tail(todo)
  BY GoingIs
<1>2. ~Calls("init") /\ ~(Calls("tunnel") /\ Subject = t)
  BY GoingIs DEF Behind
<1>3. handle' = handle
  BY <1>2 DEF Going, Advancing
<1>4. ends'[t] = ends[t]
  <2>1. ends \in [Tunnels -> Quads \cup {NoEnds}]
    BY DEF Going, ChainInv, Typed
  <2> QED BY <1>2, <2>1 DEF Going, Advancing
<1>5. Src(t)' = Src(t) /\ Dst(t)' = Dst(t)
  BY <1>3, <1>4 DEF Src, Dst, Port, Serial
<1>6. Behind(t)'
  BY <1>1, GoingIs DEF Behind
<1>7. joined \subseteq joined'
  BY DEF Going, Advancing
<1> QED BY <1>3, <1>4, <1>5, <1>6, <1>7 DEF Joined

LEMMA MadeStays ==
    ASSUME NEW d \in BOOLEAN, Going(d), NEW t \in Tunnels, Made(t, d)
    PROVE  Made(t, d)'
<1>1. Members(d)' = Members(d)
  BY GoingIs, DeviceFixed
<1>2. enabled \subseteq enabled'
  BY DEF Going, Moved
<1>3. Behind(t) /\ Joined(t)
  BY DEF Made, Joined
<1> QED BY <1>1, <1>2, <1>3, JoinedStays DEF Made

\* After setup its ports are in a tunnel, after enable they are enabled.
LEMMA SetupJoins ==
    ASSUME NEW d \in BOOLEAN, Going(d), Calls("setup"), NEW t \in Tunnels, t = Subject
    PROVE  Joined(t)'
<1>1. Behind(t)
  BY GoingOnce DEF Behind
<1>2. joined' = joined \cup {Src(t), Dst(t)}
  BY DEF Going, Advancing
<1>3. Src(t)' = Src(t) /\ Dst(t)' = Dst(t) /\ Behind(t)'
  BY <1>1, JoinedStays
<1> QED BY <1>2, <1>3 DEF Joined

LEMMA EnableMakes ==
    ASSUME NEW d \in BOOLEAN, Going(d), Calls("enable"), NEW t \in Tunnels, t = Subject
    PROVE  Made(t, d)'
<1>1. Behind(t) /\ t \notin Subjects(Tail(todo), "setup") /\ t \in Subjects(todo, "enable")
  BY GoingOnce, GoingIs DEF Behind
<1>2. t \notin Subjects(todo, "setup")
  BY <1>1, GoingIs DEF Calls
<1>3. Joined(t)
  BY <1>1, <1>2 DEF Going, Progress, Tunneled
<1>4. Src(t)' = Src(t) /\ Dst(t)' = Dst(t) /\ ends'[t] = ends[t] /\ Joined(t)'
  BY <1>1, <1>3, JoinedStays
<1>5. enabled' = enabled \cup {Src(t), Dst(t)}
  BY DEF Going, Moved
<1>6. ends[t][1] \in Members(d) \cup {Clock} /\ ends[t][3] \in Members(d)
  <2>1. Head(todo)[1] \in OfTunnel
    BY DEF Calls, OfTunnel
  <2> QED BY <2>1, WiringHead DEF Going
<1>7. Members(d)' = Members(d)
  BY GoingIs, DeviceFixed
<1> QED BY <1>4, <1>5, <1>6, <1>7 DEF Made

\* The clock's tunnel, when its ports are enabled, had the only port of the clock.
LEMMA ClockAlone ==
    ASSUME NEW d \in BOOLEAN, Going(d), IsVideo, Calls("enable"), Subject = "clock"
    PROVE  mTunnelSet \subseteq {"clock"} /\ ClockIn \in enabled'
<1>1. Head(todo)[1] \in OfTunnel
  BY DEF Calls, OfTunnel
<1>2. Shape("clock", ends["clock"])
  BY <1>1, WiringHead DEF Going
<1> DEFINE in == "clock in+1"
<1>3. "clock" \in ClockTunnels /\ FromClock("clock") = in
  BY DEF ClockTunnels, FromClock
<1> HIDE DEF in
<1>4. ends["clock"][1] = Clock /\ ends["clock"][2] = in
  BY <1>2, <1>3 DEF Shape
<1>5. Src("clock") = <<Clock, 1, in>>
  BY <1>4 DEF Src, Port, Serial
<1>6. ClockIn = <<Clock, 1, in>>
  BY DEF ClockIn, in
<1>7. ClockIn = Src(Subject)
  BY <1>5, <1>6
<1>8. Src(Subject) \notin enabled /\ Src(Subject) \in enabled'
  BY DEF Going, Moved
<1>9. mTunnelSet \subseteq {"clock"} \/ ClockIn \in enabled
  BY DEF Going, Progress, ClockFirst
<1> QED BY <1>7, <1>8, <1>9

LEMMA GoingTunnels ==
    ASSUME NEW d \in BOOLEAN, Going(d)
    PROVE  Tunneled(d)'
<1>1. /\ todo' = Tail(todo) /\ (IsVideo' <=> IsVideo) /\ Wires(d) \subseteq Tunnels /\ mTunnelSet \subseteq Tunnels
  BY GoingIs, DeviceFixed, WiresAreTunnels DEF Going, ChainInv, Typed, TypeOK
<1>2. Tunneled(d)
  BY DEF Going, Progress
<1>3. mTunnelSet' = IF Calls("setup") THEN mTunnelSet \cup {Subject} ELSE mTunnelSet
  BY DEF Going, Advancing
<1>4. ~(Calls("setup") /\ Calls("enable"))
  BY DEF Calls
<1>5. Subjects(todo, "enable") \subseteq Wires(d)
  BY GoingIs DEF Subjects, Proper, OfTunnel
<1>6. ASSUME NEW t \in Subjects(todo', "enable") PROVE t \in Subjects(todo', "setup") \/ Joined(t)'
  <2>1. t \in Subjects(todo, "enable") /\ t \in Tunnels
    BY <1>1, <1>5, <1>6, GoingIs
  <2>2. CASE t \in Subjects(todo, "setup")
    <3>1. t \in Subjects(todo', "setup") \/ (Calls("setup") /\ Subject = t)
      BY <1>1, <2>2, GoingIs
    <3> QED BY <2>1, <3>1, SetupJoins
  <2>3. CASE Joined(t)
    <3>1. Behind(t)
      BY <2>3 DEF Joined
    <3> QED BY <2>1, <2>3, <3>1, JoinedStays
  <2> QED BY <1>2, <2>1, <2>2, <2>3 DEF Tunneled
<1>7. Subjects(todo', "setup") \subseteq Subjects(todo', "enable")
  <2> SUFFICES ASSUME NEW t \in Subjects(todo', "setup") PROVE t \in Subjects(todo', "enable")
    OBVIOUS
  <2>1. t \in Subjects(todo, "enable")
    BY <1>1, <1>2, GoingIs DEF Tunneled
  <2> QED BY <1>1, <2>1, GoingIs, GoingOnce
<1>8. ASSUME ~IsVideo \/ "clock" \notin Subjects(todo', "enable"), NEW t \in mTunnelSet'
      PROVE  t \in Subjects(todo', "enable") \/ Made(t, d)'
  <2>1. t \in mTunnelSet \/ (Calls("setup") /\ t = Subject)
    BY <1>3, <1>8
  <2>2. CASE Calls("setup") /\ t = Subject
    <3>1. t \in Subjects(todo, "enable")
      BY <1>2, <2>2, GoingIs DEF Tunneled
    <3> QED BY <1>1, <1>4, <2>2, <3>1, GoingIs
  <2>3. CASE t \in mTunnelSet /\ (~IsVideo \/ "clock" \notin Subjects(todo, "enable"))
    <3>1. t \in Subjects(todo, "enable") \/ Made(t, d)
      BY <1>2, <2>3 DEF Tunneled
    <3>2. t \in Tunnels
      BY <1>1, <2>3
    <3>3. CASE Made(t, d)
      BY <3>2, <3>3, MadeStays
    <3>4. CASE t \in Subjects(todo, "enable")
      BY <1>1, <3>2, <3>4, GoingIs, EnableMakes
    <3> QED BY <3>1, <3>3, <3>4
  <2>4. CASE t \in mTunnelSet /\ IsVideo /\ "clock" \in Subjects(todo, "enable")
    <3>1. Calls("enable") /\ Subject = "clock"
      BY <1>1, <1>8, <2>4, GoingIs
    <3>2. t = "clock" /\ t \in Tunnels
      BY <1>1, <2>4, <3>1, ClockAlone
    <3> QED BY <3>1, <3>2, EnableMakes
  <2> QED BY <2>1, <2>2, <2>3, <2>4
<1>9. "decoder" \in Subjects(todo', "setup") \cup mTunnelSet'
  BY <1>1, <1>2, <1>3, GoingIs DEF Tunneled
<1> QED BY <1>1, <1>6, <1>7, <1>8, <1>9 DEF Tunneled

LEMMA GoingClock ==
    ASSUME NEW d \in BOOLEAN, Going(d)
    PROVE  ClockFirst'
<1>1. /\ todo' = Tail(todo) /\ (IsVideo' <=> IsVideo) /\ Items(Tail(todo)) \subseteq Items(todo)
      /\ \A s \in Items(Tail(todo)) : Orderly(Head(todo), s)
  BY GoingIs, DeviceFixed, TodoIs DEF Going
<1>2. ClockFirst
  BY DEF Going, Progress
<1>3. mTunnelSet' = IF Calls("setup") THEN mTunnelSet \cup {Subject} ELSE mTunnelSet
  BY DEF Going, Advancing
<1>4. enabled \subseteq enabled'
  BY DEF Going, Moved
<1>5. ClockIn' = ClockIn
  BY DEF ClockIn
<1>6. ASSUME IsVideo
      PROVE  ("clock" \in Subjects(todo', "enable") /\ mTunnelSet' \subseteq {"clock"}) \/ ClockIn \in enabled'
  <2>1. CASE ClockIn \in enabled
    BY <1>4, <2>1
  <2>2. CASE "clock" \in Subjects(todo', "enable") /\ mTunnelSet \subseteq {"clock"}
    <3>1. Calls("setup") => Subject = "clock"
      BY <1>1, <2>2 DEF Subjects, Orderly, Calls, Subject
    <3> QED BY <1>3, <2>2, <3>1
  <2>3. CASE "clock" \in Subjects(todo, "enable") /\ "clock" \notin Subjects(todo', "enable")
    BY <1>1, <1>6, <2>3, GoingIs, ClockAlone
  <2> QED BY <1>2, <1>6, <2>1, <2>2, <2>3 DEF ClockFirst
<1>7. ASSUME IsVideo, NEW s \in Items(todo'), s[1] \in Early \cup {"tunnel"} PROVE "clock" \in Subjects(todo', "enable")
  <2>1. "clock" \in Subjects(todo, "enable")
    BY <1>1, <1>2, <1>7 DEF ClockFirst
  <2>2. ~(Calls("enable") /\ Subject = "clock")
    BY <1>1, <1>7 DEF Orderly, Calls, Subject
  <2> QED BY <1>1, <2>1, <2>2, GoingIs
<1>8. ASSUME ~IsVideo, Subjects(todo', "init") # {} PROVE mTunnelSet' = {}
  <2>1. Subjects(todo, "init") # {}
    BY <1>1, <1>8, GoingIs
  <2>2. mTunnelSet = {} /\ ~Calls("setup")
    BY <1>2, <1>8, <2>1, GoingOnce DEF ClockFirst
  <2> QED BY <1>3, <2>2
<1> QED BY <1>1, <1>5, <1>6, <1>7, <1>8 DEF ClockFirst

LEMMA GoingWakes ==
    ASSUME NEW d \in BOOLEAN, Going(d)
    PROVE  /\ \A c \in Subjects(todo', "execute") : Woken(c)'
           /\ \A c \in Subjects(todo', "init") : Waker(c) \in Subjects(todo', "enable")
<1>1. todo' = Tail(todo) /\ device \in {"none", "anal", "hdmi", "both"}
  BY GoingIs
<1>2. ASSUME NEW c \in Subjects(todo', "init") PROVE Waker(c) \in Subjects(todo', "enable")
  <2>1. c \in Subjects(todo, "init")
    BY <1>1, GoingIs
  <2>2. Waker(c) \in Subjects(todo, "enable")
    BY <2>1 DEF Going, Progress
  <2>3. ~Calls("enable")
    BY <2>1, GoingOnce
  <2> QED BY <1>1, <2>2, <2>3, GoingIs
<1>3. ASSUME NEW c \in Subjects(todo', "execute")
      PROVE  \/ /\ Waker(c) \in Subjects(todo', "enable")
                /\ c \in Subjects(todo', "init") \/ state'[c] # "Executing"
             \/ state'[c] = "Idle" /\ c \notin Subjects(todo', "init")
  <2>1. c \in Subjects(todo, "execute") /\ ~(Calls("execute") /\ c = Subject)
    BY <1>1, GoingIs, GoingOnce
  <2>2. c \in Members(d) \ {"decoder"} /\ c \in Components
    <3>1. c \in Members(d) \ {"decoder"}
      BY <2>1, GoingIs DEF Subjects, Proper
    <3> QED BY <3>1, DeviceIs DEF Going
  <2>3. Woken(c)
    BY <2>1 DEF Going, Progress
  <2>4. \/ state'[c] = state[c]
        \/ state[c] = "Loaded" /\ state'[c] = "Idle"
        \/ Calls("init") /\ c = Subject
    BY <2>1, <2>2 DEF Going, Moved
  <2>5. Calls("init") /\ c = Subject => state'[c] = "Loaded" /\ c \in Subjects(todo, "init")
    BY <2>2, GoingIs DEF Going, Moved
  <2>6. CASE state[c] = "Idle" /\ c \notin Subjects(todo, "init")
    <3>1. state'[c] = "Idle"
      BY <2>4, <2>5, <2>6
    <3> QED BY <1>1, <2>6, <3>1, GoingIs
  <2>7. CASE Waker(c) \in Subjects(todo', "enable") /\ (c \in Subjects(todo, "init") \/ state[c] # "Executing")
    <3>1. c \in Subjects(todo', "init") \/ state'[c] # "Executing"
      BY <1>1, <2>4, <2>5, <2>7, GoingIs
    <3> QED BY <2>7, <3>1
  <2>8. CASE /\ Waker(c) \in Subjects(todo, "enable") /\ Waker(c) \notin Subjects(todo', "enable")
             /\ c \in Subjects(todo, "init") \/ state[c] # "Executing"
    <3>1. Calls("enable") /\ Subject = Waker(c)
      BY <1>1, <2>8, GoingIs
    <3>2. Subjects(todo, "init") = {} /\ Subject \notin Subjects(todo, "tunnel") /\ Subject \in Wires(d)
      BY <3>1, GoingOnce
    <3>3. ends[Subject] = EndsOf(Subject, d)
      BY <3>2 DEF Going, Progress, Given
    <3>4. EndsOf(Subject, d)[3] = c
      BY <1>1, <2>2, <3>1, WakerWakes
    <3>5. c = ends[Subject][3]
      BY <3>3, <3>4
    <3>6. state'[c] = "Idle"
      BY <2>2, <2>8, <3>1, <3>2, <3>5 DEF Going, Moved
    <3>7. c \notin Subjects(todo', "init")
      BY <1>1, <3>2, GoingIs
    <3> QED BY <3>6, <3>7
  <2> QED BY <2>3, <2>6, <2>7, <2>8 DEF Woken
<1>4. \A c : Waker(c)' = Waker(c)
  BY DEF Waker
<1> QED BY <1>2, <1>3, <1>4 DEF Woken

LEMMA GoingGives ==
    ASSUME NEW d \in BOOLEAN, Going(d)
    PROVE  Given(d)' /\ Unfaulted(d)'
<1>1. /\ todo' = Tail(todo) /\ Wires(d)' = Wires(d) /\ Wires(d) \subseteq Tunnels
      /\ \A t : EndsOf(t, d)' = EndsOf(t, d)
      /\ \A p, t : UsedBy(p, t, d)' <=> UsedBy(p, t, d)
  BY GoingIs, WiresFixed, WiresAreTunnels
<1>2. ends \in [Tunnels -> Quads \cup {NoEnds}]
      /\ ends' = IF Calls("tunnel") THEN [ends EXCEPT ![Subject] = Argument] ELSE ends
  BY DEF Going, ChainInv, Typed, Advancing
<1>3. Given(d) /\ Unfaulted(d)
  BY DEF Going, Progress
<1>4. ASSUME NEW t \in Wires(d), t \notin Subjects(todo', "tunnel") PROVE ends'[t] = EndsOf(t, d)
  <2>1. t \in Tunnels
    BY <1>1
  <2>2. CASE Calls("tunnel") /\ Subject = t
    <3>1. Argument = EndsOf(t, d)
      BY <2>2, GoingOnce
    <3> QED BY <1>2, <2>1, <2>2, <3>1
  <2>3. CASE ~(Calls("tunnel") /\ Subject = t)
    <3>1. t \notin Subjects(todo, "tunnel")
      BY <1>1, <1>4, <2>3, GoingIs
    <3>2. ends[t] = EndsOf(t, d)
      BY <1>3, <3>1 DEF Given
    <3> QED BY <1>2, <2>1, <2>3, <3>2
  <2> QED BY <2>2, <2>3
<1>5. ASSUME faults' = 0, NEW p \in enabled'
      PROVE  \/ p[1] = "decoder" /\ p[3] = "in"
             \/ \E t \in Wires(d) \ Subjects(todo', "enable") : UsedBy(p, t, d)
  <2>1. faults = 0
    BY <1>5 DEF Going, Moved
  <2>2. CASE p \in enabled
    <3>1. \/ p[1] = "decoder" /\ p[3] = "in"
          \/ \E t \in Wires(d) \ Subjects(todo, "enable") : UsedBy(p, t, d)
      BY <1>3, <2>1, <2>2 DEF Unfaulted
    <3> QED BY <1>1, <3>1, GoingIs
  <2>3. CASE p \notin enabled
    <3>1. Calls("enable") /\ p \in {Src(Subject), Dst(Subject)}
      BY <1>5, <2>3 DEF Going, Moved
    <3>2. Subject \in Wires(d) /\ Subject \notin Subjects(Tail(todo), "enable") /\ Subject \notin Subjects(todo, "tunnel")
      BY <3>1, GoingOnce
    <3>3. ends[Subject] = EndsOf(Subject, d)
      BY <1>3, <3>2 DEF Given
    <3>4. UsedBy(p, Subject, d)
      <4> DEFINE q == EndsOf(Subject, d)
      <4>1. (p[1] = q[1] /\ p[3] = q[2]) \/ (p[1] = q[3] /\ p[3] = q[4])
        BY <3>1, <3>3, SrcDst
      <4>2. 1 + 1 = 2 /\ 3 + 1 = 4
        OBVIOUS
      <4> QED BY <4>1, <4>2 DEF UsedBy
    <3> QED BY <1>1, <3>2, <3>4
  <2> QED BY <2>2, <2>3
<1> QED BY <1>1, <1>4, <1>5 DEF Given, Unfaulted

LEMMA GoingRouses ==
    ASSUME NEW d \in BOOLEAN, Going(d)
    PROVE  Roused'
<1>1. todo' = Tail(todo) /\ Wires(d) \subseteq Tunnels /\ Clock \notin Components /\ Members(d) \subseteq Components
  BY GoingIs, WiresAreTunnels, DeviceIs DEF Going
<1> SUFFICES ASSUME NEW t \in Subjects(todo', "enable"), t \notin Subjects(todo', "srcIdle")
             PROVE  /\ Behind(t)' /\ ends'[t][1] \in Components \cup {Clock}
                    /\ ends'[t][1] = Clock \/ state'[ends'[t][1]] # "Loaded"
  BY DEF Roused, Asleep
<1>2. t \in Subjects(todo, "enable") /\ t \in Tunnels
  <2>1. t \in Subjects(todo, "enable")
    BY <1>1, GoingIs
  <2>2. t \in Wires(d)
    BY <2>1, GoingIs DEF Subjects, Proper, OfTunnel
  <2> QED BY <1>1, <2>1, <2>2
<1>3. CASE t \in Subjects(todo, "srcIdle")
  <2>1. Calls("srcIdle") /\ Subject = t
    BY <1>1, <1>3, GoingIs
  <2>2. Behind(t)
    BY <2>1, GoingOnce DEF Behind
  <2>3. ends'[t] = ends[t] /\ Behind(t)'
    BY <1>2, <2>2, JoinedStays
  <2>4. ends[t][1] \in Members(d) \cup {Clock}
    <3>1. Head(todo)[1] \in OfTunnel
      BY <2>1 DEF Calls, OfTunnel
    <3> QED BY <2>1, <3>1, WiringHead DEF Going
  <2>5. ends[t][1] \in Components => ends[t][1] = Clock \/ state'[ends[t][1]] # "Loaded"
    BY <2>1 DEF Going, Moved
  <2> QED BY <1>1, <2>3, <2>4, <2>5
<1>4. CASE Behind(t) /\ ends[t][1] \in Components \cup {Clock} /\ ~Asleep(ends[t][1], state)
  <2>1. ends'[t] = ends[t] /\ Behind(t)'
    BY <1>2, <1>4, JoinedStays
  <2>2. ~Calls("init")
    BY <1>4, GoingIs DEF Behind
  <2>3. ASSUME NEW c \in Components, state[c] # "Loaded" PROVE state'[c] # "Loaded"
    BY <2>2, <2>3 DEF Going, Moved
  <2> QED BY <1>4, <2>1, <2>3 DEF Asleep
<1> QED BY <1>2, <1>3, <1>4 DEF Going, Progress, Roused

\* A call that succeeds leaves a wiring that gets to its end.
LEMMA GoingOn ==
    ASSUME NEW d \in BOOLEAN, Going(d)
    PROVE  Wiring(d)' /\ Progress(d)'
<1>1. Wiring(d)'
  BY WiringGoesOn DEF Going
<1>2. OrderlyPlan(todo)' /\ \A s \in Items(todo') : Proper(s, d)'
  <2>1. todo' = Tail(todo) /\ OrderlyPlan(Tail(todo)) /\ UNCHANGED device /\ \A s \in Items(todo) : Proper(s, d)
    BY GoingIs
  <2>2. Items(todo') \subseteq Items(todo)
    BY <2>1, GoingIs, TodoIs DEF Going
  <2>3. OrderlyPlan(todo)'
    <3>1. \A i, j \in 1..Len(todo') : i < j => Orderly(todo'[i], todo'[j])
      BY <2>1 DEF OrderlyPlan
    <3> QED BY <3>1 DEF OrderlyPlan
  <2> QED BY <2>1, <2>2, <2>3, WiresFixed
<1> QED BY <1>1, <1>2, GoingRuns, GoingTunnels, GoingClock, GoingWakes, GoingGives, GoingRouses DEF Progress

-----------------------------------------------------------------------------
(* How a wiring begins and ends                                              *)

LEMMA WiringGetsOn ==
    ASSUME ChainInv, Opened, SrcChanged, NEW d \in Interlaced, todo' = IF IsVideo THEN VideoPlan(d) ELSE AudioPlan
    PROVE  Progress(d)'
<1>1. /\ phase = "open" /\ ~IsWired
      /\ UNCHANGED <<device, result, handle, state, ends, mTunnelSet, joined, enabled, faults>>
  BY DEF SrcChanged, Rest, gpuVars
<1>2. d \in BOOLEAN /\ device \in {"none", "anal", "hdmi", "both"}
  BY InterlacedAssumption, DeviceIs
<1>3. Laid(todo', d, Wires(d), Wires(d), Members(d) \ {"decoder"}) /\ Complete(todo', d)
  BY <1>2, VideoPlanIsLaid, AudioPlanIsLaid, WiringBegins
<1>4. /\ Wires(d)' = Wires(d) /\ Members(d)' = Members(d) /\ (IsVideo' <=> IsVideo)
      /\ Wires(d) \subseteq Tunnels /\ "decoder" \in Wires(d) /\ (IsVideo => "clock" \in Wires(d))
      /\ Members(d) \subseteq Components
      /\ \A s : Proper(s, d)' <=> Proper(s, d)
  BY <1>1, <1>2, WiresFixed, DeviceFixed, WiresAreTunnels, DeviceIs
<1>5. /\ Subjects(todo', "tunnel") = Wires(d) /\ Subjects(todo', "setup") = Wires(d)
      /\ Subjects(todo', "enable") = Wires(d) /\ Subjects(todo', "execute") = Members(d) \ {"decoder"}
      /\ Subjects(todo', "srcIdle") = Wires(d)
  <2>1. /\ \A s \in Items(todo') :
             /\ s[1] = "tunnel" => s[2] \in Wires(d)
             /\ s[1] \in OfTunnel => s[2] \in Wires(d)
             /\ s[1] = "execute" => s[2] \in Members(d) \ {"decoder"}
        /\ \A t \in Wires(d) : \E s \in Items(todo') : s[1] = "tunnel" /\ s[2] = t
        /\ \A t \in Wires(d) : /\ \E s \in Items(todo') : s[1] = "srcIdle" /\ s[2] = t
                               /\ \E s \in Items(todo') : s[1] = "setup" /\ s[2] = t
                               /\ \E s \in Items(todo') : s[1] = "enable" /\ s[2] = t
        /\ \A c \in Members(d) \ {"decoder"} : \E s \in Items(todo') : s[1] = "execute" /\ s[2] = c
    BY <1>3 DEF Laid
  <2>2. "srcIdle" \in OfTunnel /\ "setup" \in OfTunnel /\ "enable" \in OfTunnel
    BY DEF OfTunnel
  <2> QED BY <1>4, <2>1, <2>2 DEF Subjects
<1>6. Subjects(todo', "init") = Members(d) \ {"decoder"}
  <2>1. /\ \A c \in Members(d) \ {"decoder"} : Do("init", c) \in Items(todo')
        /\ \A s \in Items(todo') : Fits(s, d)
    BY <1>3 DEF Complete, Good
  <2>2. \A c \in Members(d) \ {"decoder"} : c \in Subjects(todo', "init")
    BY <1>4, <2>1, SubjectIs
  <2>3. \A c \in Subjects(todo', "init") : c \in Members(d) \ {"decoder"}
    BY <2>1 DEF Subjects, Fits
  <2> QED BY <2>2, <2>3
<1>7. \A c \in Members(d) \ {"decoder"} : Waker(c) \in Wires(d)
  BY <1>2, WakerWakes
<1>8. OrderlyPlan(todo)' /\ \A s \in Items(todo') : Proper(s, d)'
  <2>1. OrderlyPlan(todo)'
    <3>1. \A i, j \in 1..Len(todo') : i < j => Orderly(todo'[i], todo'[j])
      BY <1>3 DEF Laid, OrderlyPlan
    <3> QED BY <3>1 DEF OrderlyPlan
  <2>2. \A s \in Items(todo') :
             /\ s[1] = "tunnel" => s[2] \in Wires(d) /\ s[3] = EndsOf(s[2], d)
             /\ s[1] \in OfTunnel => s[2] \in Wires(d)
             /\ s[1] = "execute" => s[2] \in Members(d) \ {"decoder"}
    BY <1>3 DEF Laid
  <2>3. \A s \in Items(todo') : Proper(s, d)
    BY <2>2 DEF Proper
  <2> QED BY <1>4, <2>1, <2>3
<1>9. Running(d)'
  <2>1. state["decoder"] = "Executing"
    BY <1>1 DEF Opened
  <2> QED BY <1>1, <1>4, <1>5, <1>6, <2>1 DEF Running
<1>10. ~IsVideo => mTunnelSet = {}
  BY <1>1 DEF Opened, IsWired
<1>11. Tunneled(d)'
  BY <1>1, <1>4, <1>5, <1>10 DEF Tunneled
<1>12. ClockFirst'
  <2>1. IsVideo => (mTunnelSet \subseteq {"clock"} \/ ClockIn \in enabled)
    BY <1>1 DEF Opened, IsWired
  <2>2. ClockIn' = ClockIn
    BY DEF ClockIn
  <2> QED BY <1>1, <1>4, <1>5, <1>10, <2>1, <2>2 DEF ClockFirst
<1>13. \A c \in Subjects(todo', "execute") : Woken(c)'
  <2>1. \A c : Waker(c)' = Waker(c)
    BY DEF Waker
  <2> QED BY <1>5, <1>6, <1>7, <2>1 DEF Woken
<1>14. \A c \in Subjects(todo', "init") : Waker(c)' \in Subjects(todo', "enable")
  BY <1>5, <1>6, <1>7 DEF Waker
<1>15. Given(d)'
  BY <1>4, <1>5 DEF Given
<1>16. Unfaulted(d)'
  BY <1>1 DEF Unfaulted, Opened, InputOnly
<1>17. Roused'
  BY <1>5 DEF Roused
<1> QED BY <1>8, <1>9, <1>11, <1>12, <1>13, <1>14, <1>15, <1>16, <1>17 DEF Progress

\* At its end, a wiring has the chain that it is to be.
LEMMA WiringEnds ==
    ASSUME NEW d \in BOOLEAN, Going(d), Tail(todo) = <<>>
    PROVE  Opened' /\ Wired'
<1>1. /\ todo' = <<>> /\ UNCHANGED device /\ phase' = "open" /\ result' = "true"
  BY GoingIs DEF Going, Advancing, Advance
<1>2. \A call : Subjects(todo', call) = {}
  BY <1>1, SubjectsOfEmpty
<1>3. Wiring(d)' /\ Progress(d)'
  BY GoingOn
<1>4. /\ Members(d)' = Members(d) /\ Wires(d)' = Wires(d) /\ \A t : EndsOf(t, d)' = EndsOf(t, d)
      /\ IsVideo' <=> IsVideo
  BY <1>1, DeviceFixed, WiresFixed
<1>5. \A c \in Members(d) : state'[c] = "Executing"
  BY <1>2, <1>3, <1>4 DEF Progress, Running
<1>6. attempts' # 0 /\ attempts' \in Nat
  BY <1>3, AdvancingIs, DeviceIs DEF Wiring, Going
<1>7. \A c \in Members(d) : handle'[c] # 0
  BY <1>2, <1>3, <1>4, <1>6 DEF Wiring
<1>8. "decoder" \in Members(d) /\ (~IsVideo => "mixer" \in Members(d))
  BY DEF Members
<1>9. Opened'
  BY <1>1, <1>4, <1>5, <1>7, <1>8 DEF Opened, IsWired
<1>10. \A t \in mTunnelSet' : Made(t, d)'
  BY <1>2, <1>3 DEF Progress, Tunneled
<1>11. \A t \in mTunnelSet' : /\ {Src(t)', Dst(t)'} \subseteq joined' /\ {Src(t)', Dst(t)'} \subseteq enabled'
                              /\ ends'[t][1] \in Members(d) \cup {Clock} /\ ends'[t][3] \in Members(d)
  BY <1>4, <1>10 DEF Made, Joined
<1>12. "decoder" \in Used'
  <2>1. "decoder" \in mTunnelSet'
    BY <1>2, <1>3 DEF Progress, Tunneled
  <2>2. "decoder" \in Wires(d)
    BY GoingIs, WiresAreTunnels
  <2>3. ends'["decoder"] = EndsOf("decoder", d)
    BY <1>2, <1>3, <1>4, <2>2 DEF Progress, Given
  <2>4. EndsOf("decoder", d)[1] = "decoder"
    <3> DEFINE fed == IF ~IsVideo THEN "mixer" ELSE IF d THEN "imageFx" ELSE "scheduler"
    <3>1. EndsOf("decoder", d) = <<"decoder", "out", fed, "in">>
      BY EndsAt
    <3> HIDE DEF fed
    <3> QED BY <3>1
  <2>5. "decoder" \in Components
    BY DEF Components
  <2> QED BY <2>1, <2>3, <2>4, <2>5 DEF Used
<1>13. \A c \in Used' : c \in Members(d)
  <2>1. Clock \notin Components
    BY DeviceIs DEF Going
  <2> QED BY <1>11, <2>1 DEF Used
<1>14. Wired'
  BY <1>5, <1>7, <1>11, <1>12, <1>13 DEF Wired
<1> QED BY <1>9, <1>14

-----------------------------------------------------------------------------
(* A call fails only by a fault                                              *)

LEMMA WiringFaults ==
    ASSUME NEW d \in BOOLEAN, ChainInv, phase = "wiring", Wiring(d), Progress(d), Fails
    PROVE  faults' # 0
<1>1. todo # <<>> /\ faults \in Nat
  BY FailureAborts, StateTypes DEF Aborting, Ongoing
<1>2. /\ \A s \in Items(Tail(todo)) : Orderly(Head(todo), s)
      /\ todo \in Seq(AnyCall) /\ Head(todo) \in Items(todo) /\ Head(todo) \in AnyCall
  <2>1. todo \in Seq(AnyCall) /\ Head(todo) \in Items(todo) /\ Head(todo) \in AnyCall
    BY <1>1, TodoIs
  <2> QED BY <1>1, <2>1, OrderlyTail DEF Progress
<1>3. Proper(Head(todo), d)
  BY <1>2 DEF Progress
<1>4. device \in {"none", "anal", "hdmi", "both"}
  BY DeviceIs
<1> SUFFICES ASSUME faults = 0, NoFault PROVE FALSE
  <2>1. Fault \/ NoFault
    BY DEF Fails, InitFails, EnableFails, CallFails
  <2>2. Fault => faults' # 0
    BY FaultIsCounted
  <2>3. NoFault => faults' = faults
    BY FaultIsCounted
  <2> QED BY <2>1, <2>2, <2>3
<1>5. ~Fault
  BY <1>1 DEF Fault, NoFault
<1>6. CASE EnableFails
  <2> DEFINE t == Subject
  <2>1. Head(todo)[1] = "enable" /\ ~(Answered(t) /\ WaitsEnd(t))
    BY <1>5, <1>6 DEF EnableFails, Calls
  <2>2. t \in Wires(d) /\ t \in Subjects(todo, "enable") /\ t \notin Subjects(Tail(todo), "tunnel")
    <3>1. t \in Tunnels
      BY <1>2, <2>1, CallIs DEF Subject
    <3>2. t \in Wires(d)
      BY <1>3, <2>1 DEF Proper, OfTunnel, Subject
    <3>3. t \in Subjects(todo, "enable")
      BY <1>2, <2>1, <3>1 DEF Subjects, Subject
    <3>4. t \notin Subjects(Tail(todo), "tunnel")
      BY <1>2, <2>1 DEF Subjects, Orderly, OfTunnel, Subject
    <3> QED BY <3>2, <3>3, <3>4
  <2>3. t \notin Subjects(todo, "tunnel")
    BY <1>1, <1>2, <2>1, <2>2, SubjectsOfTail
  <2>4. ends[t] = EndsOf(t, d)
    BY <2>2, <2>3 DEF Progress, Given
  <2>8. WaitsEnd(t)
    <3> DEFINE src == ends[t][1]
               dst == ends[t][3]
    <3>1. t \notin Subjects(todo, "srcIdle")
      <4>1. t \notin Subjects(Tail(todo), "srcIdle")
        BY <1>2, <2>1 DEF Subjects, Orderly, OfTunnel, Subject
      <4> QED BY <1>1, <1>2, <2>1, <4>1, SubjectsOfTail
    <3>2. ~Asleep(src, state)
      BY <2>2, <3>1 DEF Progress, Roused
    <3>3. dst \in Components
      <4>1. Head(todo)[1] \in OfTunnel
        BY <2>1 DEF OfTunnel
      <4>2. ends[t][3] \in Members(d) /\ Members(d) \subseteq Components
        BY <1>1, <4>1, WiringHead, DeviceIs
      <4> QED BY <4>2
    <3>4. state \in [Components -> {"Loaded", "Idle", "Executing"}]
      BY StateTypes
    <3> HIDE DEF src, dst
    <3>5. ~Asleep(dst, DestinationIdle(dst))
      BY <3>3, <3>4 DEF Asleep, DestinationIdle
    <3>6. Completes(dst, src, state) /\ Completes(src, dst, DestinationIdle(dst))
      BY <3>2, <3>5 DEF Completes
    <3> QED BY <3>6 DEF WaitsEnd, src, dst
  <2>5. PICK p \in {Src(t), Dst(t)} : p \in enabled
    BY <2>1, <2>8 DEF Answered
  <2>6. UsedBy(p, t, d)
    <3> DEFINE q == EndsOf(t, d)
    <3>1. (p[1] = q[1] /\ p[3] = q[2]) \/ (p[1] = q[3] /\ p[3] = q[4])
      BY <2>4, <2>5, SrcDst
    <3>2. 1 + 1 = 2 /\ 3 + 1 = 4
      OBVIOUS
    <3> QED BY <3>1, <3>2 DEF UsedBy
  <2> HIDE DEF t
  <2>7. \/ p[1] = "decoder" /\ p[3] = "in"
        \/ \E u \in Wires(d) \ Subjects(todo, "enable") : UsedBy(p, u, d)
    BY <2>5 DEF Progress, Unfaulted
  <2> QED BY <1>4, <2>2, <2>6, <2>7, TunnelsApart
<1>7. CASE CallFails
  <2>1. \/ Head(todo)[1] = "execute" /\ state[Subject] # "Idle"
        \/ Head(todo)[1] = "alloc"
    BY <1>5, <1>7 DEF CallFails, Calls
  <2>2. Head(todo)[1] # "alloc"
    BY <1>1, NotClosing
  <2>3. Subject \in Subjects(todo, "execute")
    BY <1>2, <2>1, <2>2, CallIs DEF Subjects, Subject
  <2>4. Woken(Subject)
    BY <2>3 DEF Progress
  <2>5. Waker(Subject) \notin Subjects(Tail(todo), "enable")
    BY <1>2, <2>1, <2>2 DEF Subjects, Orderly, Subject
  <2>6. Waker(Subject) \notin Subjects(todo, "enable")
    BY <1>1, <1>2, <2>1, <2>2, <2>5, SubjectsOfTail
  <2> QED BY <2>1, <2>2, <2>4, <2>6 DEF Woken
<1>8. CASE InitFails
  BY <1>5, <1>8 DEF InitFails
<1> QED BY <1>6, <1>7, <1>8 DEF Fails

\* A wiring that is given up leaves what the next one needs.
LEMMA WiringFails ==
    ASSUME NEW d \in BOOLEAN, ChainInv, phase = "wiring", Wiring(d), Progress(d), Fails
    PROVE  Opened'
<1>1. /\ Aborting /\ Abort /\ todo # <<>> /\ UNCHANGED <<device, attempts, mTunnelSet>>
      /\ phase' = "open" /\ result' = "false"
  BY FailureAborts DEF Aborting, Ongoing, Stated, Abort
<1>2. IsVideo' <=> IsVideo
  BY <1>1, DeviceFixed
<1>3. faults' # 0
  BY WiringFaults
<1>4. Calls("init") => Subject # "decoder" /\ Subjects(todo, "init") # {}
  <2>1. Calls("init") => Subject \in Members(d) \ {"decoder"} /\ Head(todo) \in Items(todo)
    BY <1>1, WiringHead, TodoIs DEF Calls
  <2>2. Members(d) \subseteq Components
    BY DeviceIs
  <2> QED BY <2>1, <2>2 DEF Subjects, Calls, Subject
<1>5. state'["decoder"] = "Executing"
  <2>1. "decoder" \in Members(d) /\ "decoder" \in Components
    BY DEF Members, Components
  <2>2. "decoder" \notin Subjects(todo, "execute")
    BY DEF Progress, Proper, Subjects
  <2>3. state["decoder"] = "Executing"
    BY <2>1, <2>2 DEF Progress, Running
  <2>4. state \in [Components -> {"Loaded", "Idle", "Executing"}]
    BY StateTypes
  <2>5. CASE InitFails
    <3>1. Subject # "decoder" /\ state' = [state EXCEPT ![Subject] = "Loaded"]
      BY <1>4, <2>5 DEF InitFails
    <3> QED BY <2>1, <2>3, <2>4, <3>1
  <2>6. CASE EnableFails
    <3> DEFINE k == ends[Subject][3]
    <3>1. state' = state \/ (state[k] = "Loaded" /\ state' = [state EXCEPT ![k] = "Idle"])
      BY <2>6 DEF EnableFails
    <3> HIDE DEF k
    <3> QED BY <2>1, <2>3, <2>4, <3>1
  <2>7. CASE CallFails
    BY <2>3, <2>7 DEF CallFails
  <2> QED BY <2>5, <2>6, <2>7 DEF Fails
<1>6. IsVideo => (mTunnelSet \subseteq {"clock"} \/ ClockIn \in enabled')
  <2>1. enabled \subseteq enabled'
    BY DEF Fails, InitFails, EnableFails, CallFails, gpuVars
  <2> QED BY <2>1 DEF Progress, ClockFirst
<1>7. ASSUME ~IsVideo, handle'["mixer"] = 0 PROVE mTunnelSet = {}
  <2>1. "mixer" \in Members(d) \ {"decoder"} /\ attempts + 1 # 0
    BY <1>7, DeviceIs DEF Members
  <2>2. CASE Calls("init")
    BY <1>4, <1>7, <2>2 DEF Progress, ClockFirst
  <2>3. CASE ~Calls("init")
    <3>1. handle["mixer"] = 0
      BY <1>1, <1>7, <2>3 DEF Aborting
    <3>2. "mixer" \in Subjects(todo, "init")
      BY <2>1, <3>1 DEF Wiring
    <3> QED BY <1>7, <3>2 DEF Progress, ClockFirst
  <2> QED BY <2>2, <2>3
<1>8. ClockIn' = ClockIn
  BY DEF ClockIn
<1> QED BY <1>1, <1>2, <1>3, <1>5, <1>6, <1>7, <1>8 DEF Opened

-----------------------------------------------------------------------------
(* How the decoder is opened                                                 *)

\* What a call of open does to the decoder.
OpeningMove ==
    /\ Calls("init") => state'["decoder"] = "Loaded"
    /\ Calls("idle") => state'["decoder"] = "Idle"
    /\ Calls("execute") => state'["decoder"] = "Executing"
    /\ Calls("config") => state' = state
    /\ Calls("alloc") /\ faults' = 0 => state'["decoder"] = "Idle"
    /\ faults' = 0 => faults = 0 /\ (~Calls("alloc") => enabled' = enabled)
    /\ Calls("alloc") => \A p \in enabled' : p \in enabled \/ (p[1] = "decoder" /\ p[3] = "in")

LEMMA OpeningMoves ==
    ASSUME ChainInv, phase = "opening", Succeeds
    PROVE  OpeningMove
<1>1. /\ Subject = "decoder" /\ "decoder" \in Components /\ state \in [Components -> {"Loaded", "Idle", "Executing"}]
      /\ todo # <<>>
      /\ Head(todo)[1] \in {"init", "config", "idle", "alloc", "execute"}
  BY OpeningIs, StateTypes DEF Components
<1>2. (Fault => faults' # 0) /\ (NoFault => faults' = faults)
  BY FaultIsCounted
<1>3. CASE InitComponent
  <2>1. Head(todo)[1] = "init" /\ state' = [state EXCEPT ![Subject] = "Loaded"] /\ (Fault \/ (NoFault /\ enabled' = enabled))
    BY <1>3 DEF InitComponent, Calls
  <2> QED BY <1>1, <1>2, <2>1 DEF OpeningMove, Calls
<1>4. CASE Configure
  <2>1. /\ Head(todo)[1] \in {"config", "idle"} /\ NoFault /\ enabled' = enabled
        /\ state' = IF Head(todo)[1] = "idle" THEN [state EXCEPT ![Subject] = "Idle"] ELSE state
    BY <1>4 DEF Configure, Calls, gpuVars
  <2> QED BY <1>1, <1>2, <2>1 DEF OpeningMove, Calls
<1>5. CASE AllocInputBuffers
  <2>1. /\ Head(todo)[1] = "alloc" /\ enabled' = enabled \cup {Port("decoder", "in")}
        /\ \/ NoFault /\ state' = [state EXCEPT ![Subject] = "Idle"]
           \/ Fault
    BY <1>1, <1>5 DEF AllocInputBuffers, Calls
  <2>2. Port("decoder", "in")[1] = "decoder" /\ Port("decoder", "in")[3] = "in"
    BY DEF Port
  <2>3. (faults' = 0 => faults = 0) /\ (faults' = 0 => state'["decoder"] = "Idle")
    BY <1>1, <1>2, <2>1
  <2>4. \A p \in enabled' : p \in enabled \/ (p[1] = "decoder" /\ p[3] = "in")
    BY <2>1, <2>2
  <2> QED BY <1>1, <2>1, <2>3, <2>4 DEF OpeningMove, Calls
<1>6. CASE Execute
  <2>1. Head(todo)[1] = "execute" /\ NoFault /\ enabled' = enabled /\ state' = [state EXCEPT ![Subject] = "Executing"]
    BY <1>6 DEF Execute, Calls, gpuVars
  <2> QED BY <1>1, <1>2, <2>1 DEF OpeningMove, Calls
<1>7. CASE ChooseInterlace \/ InitTunnel \/ SourceIdle \/ SetupTunnel \/ EnablePorts
  BY <1>1, <1>7 DEF ChooseInterlace, InitTunnel, SourceIdle, SetupTunnel, EnablePorts, Calls
<1> QED BY <1>3, <1>4, <1>5, <1>6, <1>7 DEF Succeeds

LEMMA OpensOnceTail ==
    ASSUME NEW S, NEW plan \in Seq(S), plan # <<>>, OpensOnce(plan)
    PROVE  /\ OpensOnce(Tail(plan))
           /\ Head(plan)[1] \in {"alloc", "execute"} =>
                \A s \in Items(Tail(plan)) : s[1] \in {"config", "execute"} /\ s[1] # Head(plan)[1]
<1>1. Len(plan) \in Nat \ {0} /\ Head(plan) = plan[1]
  BY EmptySeq, LenProperties
<1>2. Len(Tail(plan)) = Len(plan) - 1 /\ \A i \in 1..Len(Tail(plan)) : Tail(plan)[i] = plan[i + 1]
  BY HeadTailProperties
<1>3. \A i \in 1..Len(Tail(plan)) : i + 1 \in 1..Len(plan) /\ 1 < i + 1
  BY <1>1, <1>2
<1>4. 1 \in 1..Len(plan)
  BY <1>1
<1>5. ASSUME Head(plan)[1] \in {"alloc", "execute"}, NEW s \in Items(Tail(plan))
      PROVE  s[1] \in {"config", "execute"} /\ s[1] # Head(plan)[1]
  <2>1. PICK i \in 1..Len(Tail(plan)) : s = plan[i + 1]
    BY <1>2 DEF Items
  <2>2. i + 1 \in 1..Len(plan) /\ 1 < i + 1
    BY <1>3
  <2>3. plan[i + 1][1] \in {"config", "execute"} /\ plan[1][1] # plan[i + 1][1]
    BY <1>1, <1>4, <1>5, <2>2 DEF OpensOnce
  <2> QED BY <1>1, <2>1, <2>3
<1>6. OpensOnce(Tail(plan))
  <2> SUFFICES ASSUME NEW i \in 1..Len(Tail(plan)), NEW j \in 1..Len(Tail(plan)), i < j,
                      plan[i + 1][1] \in {"alloc", "execute"}
               PROVE  plan[j + 1][1] \in {"config", "execute"} /\ plan[i + 1][1] # plan[j + 1][1]
    BY <1>2 DEF OpensOnce
  <2>1. i + 1 < j + 1
    BY <1>1, <1>2
  <2> QED BY <1>3, <2>1 DEF OpensOnce
<1> QED BY <1>5, <1>6

\* Every call of open that succeeds gets on, and at the end the decoder executes.
LEMMA OpeningGoesOn ==
    ASSUME ChainInv, Prepared, phase = "opening", Succeeds
    PROVE  /\ Prepared' /\ UNCHANGED <<attempts, mTunnelSet, result, refused, decoder>>
           /\ Tail(todo) = <<>> => Opened'
<1>1. OpeningMove /\ Advancing /\ UNCHANGED decoder
  BY OpeningMoves, SuccessAdvances DEF Advancing, Ongoing, Stated
<1>2. /\ todo # <<>> /\ todo' = Tail(todo) /\ UNCHANGED <<device, attempts, mTunnelSet>> /\ attempts = 0 /\ mTunnelSet = {}
      /\ phase' = (IF Tail(todo) = <<>> THEN "open" ELSE phase) /\ UNCHANGED <<result, refused>>
  BY <1>1, AdvancingIs, OpeningIs DEF Advancing, Advance
<1>3. /\ Subject = "decoder" /\ "decoder" \in Components
      /\ Head(todo)[1] \in {"init", "config", "idle", "alloc", "execute"} /\ Head(todo) \in Items(todo)
      /\ todo \in Seq(AnyCall) /\ Items(Tail(todo)) \subseteq Items(todo)
  BY <1>2, OpeningIs, TodoIs DEF Components
<1>4. /\ OpensOnce(todo') /\ OpensOnce(todo)
      /\ Head(todo)[1] \in {"alloc", "execute"} =>
           \A s \in Items(todo') : s[1] \in {"config", "execute"} /\ s[1] # Head(todo)[1]
  BY <1>2, <1>3, OpensOnceTail DEF Prepared
<1>5. \A call : /\ "decoder" \in Subjects(todo', call) => "decoder" \in Subjects(todo, call)
                /\ "decoder" \in Subjects(todo, call) => "decoder" \in Subjects(todo', call) \/ Head(todo)[1] = call
  BY <1>2, <1>3, SubjectsOfTail
<1>6. /\ Head(todo)[1] = "execute" => "decoder" \notin Subjects(todo', "execute")
      /\ Head(todo)[1] \in {"alloc", "execute"} => "decoder" \notin Subjects(todo', "alloc")
      /\ Head(todo)[1] = "alloc" => "decoder" \in Subjects(todo, "alloc")
      /\ Head(todo)[1] = "execute" => "decoder" \in Subjects(todo, "execute")
  <2>1. Head(todo)[1] = "execute" => "decoder" \notin Subjects(todo', "execute")
    BY <1>4 DEF Subjects
  <2>2. Head(todo)[1] \in {"alloc", "execute"} => "decoder" \notin Subjects(todo', "alloc")
    BY <1>4 DEF Subjects
  <2>3. Head(todo)[2] = "decoder"
    BY <1>3 DEF Subject
  <2> QED BY <1>3, <2>1, <2>2, <2>3 DEF Subjects
<1>7. Head(todo)[1] = "init" => state["decoder"] = "Loaded"
  <2> SUFFICES ASSUME Head(todo)[1] = "init" PROVE handle["decoder"] = 0
    BY <1>3, StateTypes
  <2>1. held = {}
    BY OpeningIs
  <2> QED BY <1>3, <2>1 DEF ChainInv, Numbered
<1>8. \/ "decoder" \in Subjects(todo', "execute")
      \/ state'["decoder"] = "Executing" /\ \A s \in Items(todo') : s[1] = "config"
  <2>1. CASE Head(todo)[1] = "execute"
    BY <1>1, <1>2, <1>4, <2>1 DEF OpeningMove, Calls
  <2>2. CASE Head(todo)[1] # "execute" /\ "decoder" \in Subjects(todo, "execute")
    BY <1>5, <2>2
  <2>3. CASE state["decoder"] = "Executing" /\ \A s \in Items(todo) : s[1] = "config"
    BY <1>1, <1>2, <1>3, <2>3 DEF OpeningMove, Calls
  <2> QED BY <2>1, <2>2, <2>3 DEF Prepared
<1>9. "decoder" \in Subjects(todo', "alloc") => "decoder" \in Subjects(todo', "execute")
  BY <1>5, <1>6 DEF Prepared
<1>10. ASSUME faults' = 0
       PROVE  /\ InputOnly'
              /\ "decoder" \in Subjects(todo', "alloc") => enabled' = {}
              /\ "decoder" \in Subjects(todo', "execute") =>
                    ("decoder" \in Subjects(todo', "alloc") \/ state'["decoder"] = "Idle")
  <2>1. /\ faults = 0 /\ InputOnly /\ ("decoder" \in Subjects(todo, "alloc") => enabled = {})
        /\ "decoder" \in Subjects(todo, "execute") => ("decoder" \in Subjects(todo, "alloc") \/ state["decoder"] = "Idle")
    BY <1>1, <1>10 DEF OpeningMove, Prepared
  <2>2. InputOnly'
    BY <1>1, <1>10, <2>1 DEF OpeningMove, InputOnly
  <2>3. "decoder" \in Subjects(todo', "alloc") => enabled' = {}
    BY <1>1, <1>5, <1>6, <1>10, <2>1 DEF OpeningMove, Calls
  <2>4. ASSUME "decoder" \in Subjects(todo', "execute"), "decoder" \notin Subjects(todo', "alloc")
        PROVE  state'["decoder"] = "Idle"
    <3>1. Head(todo)[1] # "execute" /\ "decoder" \in Subjects(todo, "execute")
      BY <1>5, <1>6, <2>4
    <3>2. Head(todo)[1] = "alloc" \/ state["decoder"] = "Idle"
      BY <1>5, <2>1, <2>4, <3>1
    <3> QED BY <1>1, <1>2, <1>3, <1>7, <1>10, <3>1, <3>2 DEF OpeningMove, Calls
  <2> QED BY <2>2, <2>3, <2>4
<1>11. Prepared'
  BY <1>4, <1>8, <1>9, <1>10 DEF Prepared
<1>12. ASSUME Tail(todo) = <<>> PROVE Opened'
  <2>1. \A call : Subjects(todo', call) = {}
    BY <1>2, <1>12, SubjectsOfEmpty
  <2>2. state'["decoder"] = "Executing"
    BY <1>8, <2>1
  <2>3. faults' = 0 => InputOnly'
    BY <1>10
  <2> QED BY <1>2, <1>12, <2>2, <2>3 DEF Opened
<1> QED BY <1>1, <1>2, <1>11, <1>12

\* open does not give up before a call has failed.
LEMMA OpeningFaults ==
    ASSUME ChainInv, Prepared, phase = "opening", Fails
    PROVE  faults' # 0
<1>1. todo # <<>> /\ faults \in Nat
  BY FailureAborts, StateTypes DEF Aborting, Ongoing
<1>2. /\ Subject = "decoder" /\ "decoder" \in Components
      /\ Head(todo)[1] \in {"init", "config", "idle", "alloc", "execute"} /\ Head(todo) \in Items(todo)
      /\ todo \in Seq(AnyCall)
  BY <1>1, OpeningIs, TodoIs DEF Components
<1>3. Head(todo)[1] \in {"alloc", "execute"} =>
        \A s \in Items(Tail(todo)) : s[1] \in {"config", "execute"} /\ s[1] # Head(todo)[1]
  BY <1>1, <1>2, OpensOnceTail DEF Prepared
<1> SUFFICES ASSUME faults = 0, NoFault PROVE FALSE
  <2>1. Fault \/ NoFault
    BY DEF Fails, InitFails, EnableFails, CallFails
  <2> QED BY <2>1, FaultIsCounted
<1>4. ~Fault
  BY <1>1 DEF Fault, NoFault
<1>5. CASE CallFails
  <2>1. \/ Head(todo)[1] = "execute" /\ state["decoder"] # "Idle"
        \/ Head(todo)[1] = "alloc" /\ Port("decoder", "in") \in enabled
    BY <1>2, <1>4, <1>5 DEF CallFails, Calls
  <2>2. "decoder" \in Subjects(todo, Head(todo)[1])
    BY <1>2 DEF Subjects, Subject
  <2>3. Head(todo)[1] # "alloc"
    BY <2>1, <2>2 DEF Prepared
  <2>4. "decoder" \notin Subjects(Tail(todo), "alloc")
    BY <1>3, <2>1, <2>3 DEF Subjects
  <2>5. "decoder" \notin Subjects(todo, "alloc")
    BY <1>1, <1>2, <2>3, <2>4, SubjectsOfTail
  <2> QED BY <2>1, <2>2, <2>3, <2>5 DEF Prepared
<1>6. CASE InitFails
  BY <1>4, <1>6 DEF InitFails
<1>7. CASE EnableFails
  BY <1>2, <1>7 DEF EnableFails, Calls
<1> QED BY <1>5, <1>6, <1>7 DEF Fails

\* The calls of open prepare the decoder: it is Idle with its input's buffers before it executes.
LEMMA OpenPlanOpens ==
    OpensOnce(OpenPlan) /\ {Do("alloc", "decoder"), Do("execute", "decoder")} \subseteq Items(OpenPlan)
<1> DEFINE i == Do("init", "decoder")
           j == Do("idle", "decoder")
           k == Do("config", "decoder")
           l == Do("alloc", "decoder")
           m == Do("execute", "decoder")
           plan == OpenPlan
<1>1. i[1] = "init" /\ j[1] = "idle" /\ k[1] = "config" /\ l[1] = "alloc" /\ m[1] = "execute"
  BY DoIs
<1>2. plan = <<i>> \o When(IsVideo, <<j>>) \o <<k, l, m, k>>
  BY DEF OpenPlan
<1>3. When(IsVideo, <<j>>) = IF IsVideo THEN <<j>> ELSE <<>>
  BY DEF When
<1> DEFINE S == {i, j, k, l, m}
           w == When(IsVideo, <<j>>)
           r == <<k, l, m, k>>
           a == <<i>> \o w
<1>4. w \in Seq(S) /\ r \in Seq(S) /\ <<i>> \in Seq(S)
  <2> HIDE DEF i, j, k, l, m
  <2>1. r \in Seq(S) /\ <<i>> \in Seq(S) /\ <<j>> \in Seq(S)
    OBVIOUS
  <2>2. <<>> \in Seq(S)
    OBVIOUS
  <2> HIDE DEF S
  <2> QED BY <1>3, <2>1, <2>2
<1>5. Len(<<i>>) = 1 /\ Len(r) = 4 /\ r[1] = k /\ r[2] = l /\ r[3] = m /\ r[4] = k
      /\ Len(w) = IF IsVideo THEN 1 ELSE 0
  <2> HIDE DEF i, j, k, l, m
  <2>1. Len(<<i>>) = 1 /\ Len(r) = 4 /\ r[1] = k /\ r[2] = l /\ r[3] = m /\ r[4] = k
    OBVIOUS
  <2>2. Len(<<j>>) = 1 /\ Len(<<>>) = 0
    OBVIOUS
  <2> QED BY <1>3, <2>1, <2>2
<1>6. (IsVideo => w[1] = j) /\ <<i>>[1] = i
  <2> HIDE DEF i, j
  <2> QED BY <1>3
<1>7. plan = a \o r
  BY <1>2
<1> HIDE DEF i, j, k, l, m, plan, S, w, r
<1>8. a \in Seq(S) /\ Len(a) = 1 + Len(w) /\ a[1] = i /\ (IsVideo => a[2] = j)
  <2>1. /\ a \in Seq(S) /\ Len(a) = Len(<<i>>) + Len(w)
        /\ \A n \in 1..(Len(<<i>>) + Len(w)) : a[n] = IF n <= Len(<<i>>) THEN <<i>>[n] ELSE w[n - Len(<<i>>)]
    BY <1>4, ConcatProperties
  <2> HIDE DEF a
  <2> QED BY <1>5, <1>6, <2>1
<1> HIDE DEF a
<1>9. /\ Len(plan) = Len(a) + 4
      /\ \A n \in 1..(Len(a) + 4) : plan[n] = IF n <= Len(a) THEN a[n] ELSE r[n - Len(a)]
  <2>1. a \in Seq(S) /\ r \in Seq(S)
    BY <1>4, <1>8
  <2>2. /\ Len(a \o r) = Len(a) + Len(r)
        /\ \A n \in 1..(Len(a) + Len(r)) : (a \o r)[n] = IF n <= Len(a) THEN a[n] ELSE r[n - Len(a)]
    BY <2>1, ConcatProperties
  <2> QED BY <1>5, <1>7, <2>2
<1>10. CASE IsVideo
  <2>1. Len(plan) = 6 /\ plan[1] = i /\ plan[2] = j /\ plan[3] = k /\ plan[4] = l /\ plan[5] = m /\ plan[6] = k
    BY <1>5, <1>8, <1>9, <1>10
  <2>2. OpensOnce(plan)
    BY <1>1, <2>1 DEF OpensOnce
  <2>3. l \in Items(plan) /\ m \in Items(plan)
    BY <2>1 DEF Items
  <2> QED BY <2>2, <2>3 DEF l, m, plan
<1>11. CASE ~IsVideo
  <2>1. Len(plan) = 5 /\ plan[1] = i /\ plan[2] = k /\ plan[3] = l /\ plan[4] = m /\ plan[5] = k
    BY <1>5, <1>8, <1>9, <1>11
  <2>2. OpensOnce(plan)
    BY <1>1, <2>1 DEF OpensOnce
  <2>3. l \in Items(plan) /\ m \in Items(plan)
    BY <2>1 DEF Items
  <2> QED BY <2>2, <2>3 DEF l, m, plan
<1> QED BY <1>10, <1>11

LEMMA OpenPrepares ==
    ASSUME ChainInv, Open
    PROVE  Prepared'
<1>1. /\ phase = "new" /\ todo' = OpenPlan /\ enabled' = enabled
  BY DEF Open, Rest, gpuVars
<1>2. enabled = {}
  BY <1>1 DEF ChainInv, Before
<1>3. "decoder" \in Components
  BY DEF Components
<1>4. OpensOnce(todo') /\ "decoder" \in Subjects(todo', "alloc") /\ "decoder" \in Subjects(todo', "execute")
  BY <1>1, <1>3, OpenPlanOpens, SubjectIs
<1>5. InputOnly'
  BY <1>1, <1>2 DEF InputOnly
<1> QED BY <1>1, <1>2, <1>4, <1>5 DEF Prepared

-----------------------------------------------------------------------------
(* What a wiring needs is kept by every step                                 *)

LEMMA WorkSucceeds ==
    ASSUME ChainInv, WorkInv, Succeeds
    PROVE  WorkInv'
<1>1. /\ Advancing /\ todo # <<>> /\ UNCHANGED <<device, decoder, attempts, refused>> /\ phase \in {"opening", "wiring"}
      /\ \/ phase' = phase /\ Tail(todo) # <<>> /\ result' = result
         \/ phase' = "open" /\ Tail(todo) = <<>> /\ result' = IF phase = "wiring" THEN "true" ELSE result
  BY SuccessAdvances, AdvancingIs DEF Advancing, Ongoing, Advance, Stated
<1>2. decoder /\ (attempts = 0 => result = "none") /\ WiringWorks
  BY <1>1 DEF WorkInv, Flawless
<1>3. CASE phase = "wiring"
  <2>1. PICK d \in BOOLEAN : Wiring(d) /\ Progress(d)
    BY <1>3 DEF WorkInv, WhenWired
  <2>2. Going(d) /\ (faults' = 0 => faults = 0)
    BY <1>1, <1>3, <2>1, SuccessAdvances DEF Going, Moved
  <2>3. WhenWired(d)'
    BY <2>2, GoingOn DEF WhenWired
  <2>4. Preparing'
    BY <1>1, <1>3 DEF Preparing
  <2>5. Opened' /\ Wired'
    <3>1. CASE Tail(todo) = <<>>
      BY <2>2, <3>1, WiringEnds
    <3>2. CASE Tail(todo) # <<>>
      BY <1>1, <1>3, <3>2 DEF Opened, Wired
    <3> QED BY <3>1, <3>2
  <2>6. attempts # 0
    BY <2>1 DEF Wiring
  <2>7. Flawless'
    BY <1>1, <1>2, <1>3, <2>2, <2>6 DEF Flawless, WiringWorks
  <2> QED BY <2>3, <2>4, <2>5, <2>7 DEF WorkInv
<1>4. CASE phase = "opening"
  <2>1. Prepared /\ (faults' = 0 => faults = 0) /\ attempts = 0
    BY <1>4, OpeningMoves, OpeningIs DEF WorkInv, Preparing, OpeningMove
  <2>2. Prepared' /\ result' = result /\ (Tail(todo) = <<>> => Opened')
    BY <1>4, <2>1, OpeningGoesOn
  <2>3. result' = "none"
    BY <1>2, <2>1, <2>2
  <2>4. Preparing' /\ \E d \in BOOLEAN : WhenWired(d)'
    BY <1>1, <1>4, <2>2 DEF Preparing, WhenWired
  <2>5. Opened' /\ Wired'
    BY <1>1, <1>4, <2>2, <2>3 DEF Opened, Wired
  <2>6. Flawless'
    BY <1>1, <1>2, <1>4, <2>1, <2>2, <2>3 DEF Flawless, WiringWorks
  <2> QED BY <2>4, <2>5, <2>6 DEF WorkInv
<1> QED BY <1>1, <1>3, <1>4

LEMMA WorkFails ==
    ASSUME ChainInv, WorkInv, Fails
    PROVE  WorkInv'
<1>1. /\ Abort /\ UNCHANGED <<decoder, attempts>> /\ phase \in {"opening", "wiring"}
  BY FailureAborts DEF Aborting, Ongoing, Stated
<1>2. decoder /\ (attempts = 0 => result = "none")
  BY <1>1 DEF WorkInv, Flawless
<1>3. CASE phase = "wiring"
  <2>1. phase' = "open" /\ refused' = FALSE /\ result' = "false"
    BY <1>1, <1>3 DEF Abort
  <2>2. PICK d \in BOOLEAN : Wiring(d) /\ Progress(d)
    BY <1>3 DEF WorkInv, WhenWired
  <2>3. Opened' /\ faults' # 0 /\ attempts # 0
    BY <1>3, <2>2, WiringFails, WiringFaults DEF Wiring
  <2>4. (\E e \in BOOLEAN : WhenWired(e)') /\ Preparing' /\ Wired'
    BY <2>1 DEF WhenWired, Preparing, Wired
  <2>5. Flawless'
    BY <1>1, <1>2, <2>1, <2>3 DEF Flawless, WiringWorks
  <2> QED BY <2>3, <2>4, <2>5 DEF WorkInv
<1>4. CASE phase = "opening"
  <2>1. phase' = "closing" /\ result' = result
    BY <1>1, <1>4 DEF Abort
  <2>2. faults' # 0
    BY <1>4, OpeningFaults DEF WorkInv, Preparing
  <2>3. (\E e \in BOOLEAN : WhenWired(e)') /\ Preparing' /\ Wired' /\ Opened'
    BY <2>1 DEF WhenWired, Preparing, Wired, Opened
  <2>4. Flawless'
    BY <1>1, <1>2, <2>1, <2>2 DEF Flawless, WiringWorks
  <2> QED BY <2>3, <2>4 DEF WorkInv
<1> QED BY <1>1, <1>3, <1>4

LEMMA WorkOpens ==
    ASSUME ChainInv, WorkInv, Open \/ OpenUnsupported
    PROVE  WorkInv'
<1>1. /\ phase = "new" /\ UNCHANGED <<attempts, result>> /\ phase' \notin {"open", "wiring"}
      /\ (attempts = 0 => result = "none") /\ WiringWorks
  BY DEF Open, OpenUnsupported, WorkInv, Flawless
<1>2. (\E e \in BOOLEAN : WhenWired(e)') /\ Wired' /\ Opened'
  BY <1>1 DEF WhenWired, Wired, Opened
<1>3. CASE Open
  <2>1. Preparing'
    BY <1>3, OpenPrepares DEF Preparing
  <2>2. phase' = "opening" /\ decoder' = TRUE /\ UNCHANGED <<refused, faults>>
    BY <1>3 DEF Open
  <2>3. Flawless'
    BY <1>1, <2>2 DEF Flawless, WiringWorks
  <2> QED BY <1>2, <2>1, <2>3 DEF WorkInv
<1>4. CASE OpenUnsupported
  <2>1. phase' \in {"refused", "closing", "crashed"} /\ refused' = TRUE /\ faults' # 0
    BY <1>4, FaultIsCounted DEF OpenUnsupported
  <2>2. Preparing'
    BY <2>1 DEF Preparing
  <2>3. Flawless'
    BY <1>1, <2>1 DEF Flawless, WiringWorks
  <2> QED BY <1>2, <2>2, <2>3 DEF WorkInv
<1> QED BY <1>3, <1>4

LEMMA WorkStarts ==
    ASSUME ChainInv, WorkInv, SrcChanged
    PROVE  WorkInv'
<1>1. /\ phase = "open" /\ phase' = "wiring" /\ attempts' = attempts + 1 /\ attempts \in Nat
      /\ UNCHANGED <<decoder, refused, result, faults>>
  BY DeviceIs DEF SrcChanged
<1>2. PICK d \in Interlaced : todo' = IF IsVideo THEN VideoPlan(d) ELSE AudioPlan
  BY DEF SrcChanged
<1>3. d \in BOOLEAN
  BY InterlacedAssumption
<1>4. Wiring(d)' /\ Progress(d)'
  BY <1>2, WiringBegins, WiringGetsOn DEF WorkInv
<1>5. (\E e \in BOOLEAN : WhenWired(e)') /\ Preparing' /\ Wired' /\ Opened'
  BY <1>1, <1>3, <1>4 DEF WhenWired, Preparing, Wired, Opened
<1>6. Flawless'
  BY <1>1 DEF WorkInv, Flawless, WiringWorks
<1> QED BY <1>5, <1>6 DEF WorkInv

\* A further change of format leaves a chain as it is, unless the decoder's output stays disabled.
LEMMA WorkChanges ==
    ASSUME ChainInv, WorkInv, SrcChangedAgain
    PROVE  WorkInv'
<1>1. /\ phase = "open" /\ IsWired /\ result' = "true" /\ mistaken' = (mistaken \/ result = "false")
      /\ UNCHANGED <<phase, device, todo, decoder, refused, mDeInterlace, handle, state, ends, mTunnelSet,
                     held, joined, attempts, closeFaults, unfreed>>
      /\ \/ NoFault /\ enabled \subseteq enabled' /\ UNCHANGED lame
         \/ Fault /\ lame' = TRUE
  BY DEF SrcChangedAgain
<1>2. (faults' = 0 => faults = 0 /\ enabled \subseteq enabled') /\ (~lame' => ~lame /\ enabled \subseteq enabled')
  BY <1>1, FaultIsCounted
<1>3. IsVideo' <=> IsVideo
  BY <1>1, DeviceFixed
<1>4. attempts # 0
  <2>1. CASE IsVideo
    BY <1>1, <2>1 DEF IsWired, WorkInv, Flawless
  <2>2. CASE ~IsVideo
    <3>1. handle["mixer"] # 0 /\ handle["mixer"] # 1 /\ handle["mixer"] <= attempts + 1
      BY <1>1, <2>2 DEF IsWired, ChainInv, Numbered, Components
    <3>2. handle["mixer"] \in Nat
      BY DeviceIs DEF Components
    <3> QED BY <3>1, <3>2
  <2> QED BY <2>1, <2>2
<1>5. result # "none"
  BY <1>1, <1>4 DEF WorkInv, Opened
<1>6. IsWired'
  BY <1>1, <1>3 DEF IsWired
<1>7. Opened'
  <2>1. state["decoder"] = "Executing" /\ (~IsVideo /\ handle["mixer"] = 0 => mTunnelSet = {})
    BY <1>1 DEF WorkInv, Opened
  <2> QED BY <1>1, <1>3, <1>6, <2>1 DEF Opened
<1>8. Wired'
  <2> SUFFICES ASSUME ~mistaken'
               PROVE  /\ "decoder" \in Used' /\ (\A c \in Used' : handle'[c] # 0 /\ state'[c] = "Executing")
                      /\ \A t \in mTunnelSet' : {Src(t)', Dst(t)'} \subseteq joined'
                      /\ ~lame' => \A t \in mTunnelSet' : {Src(t)', Dst(t)'} \subseteq enabled'
    BY DEF Wired
  <2>1. ~mistaken /\ result # "false" /\ result \in {"none", "true", "false"}
    BY <1>1 DEF ChainInv, Typed, TypeOK
  <2>2. /\ "decoder" \in Used /\ (\A c \in Used : handle[c] # 0 /\ state[c] = "Executing")
        /\ \A t \in mTunnelSet : {Src(t), Dst(t)} \subseteq joined
        /\ ~lame => \A t \in mTunnelSet : {Src(t), Dst(t)} \subseteq enabled
    BY <1>1, <1>5, <2>1 DEF WorkInv, Wired
  <2>3. Used' = Used /\ \A t : Src(t)' = Src(t) /\ Dst(t)' = Dst(t)
    BY <1>1 DEF Used, Src, Dst, Port, Serial
  <2> QED BY <1>1, <1>2, <2>2, <2>3
<1>9. (\E e \in BOOLEAN : WhenWired(e)') /\ Preparing'
  BY <1>1 DEF WhenWired, Preparing
<1>10. Flawless'
  BY <1>1, <1>2, <1>4 DEF WorkInv, Flawless, WiringWorks
<1> QED BY <1>7, <1>8, <1>9, <1>10 DEF WorkInv

LEMMA WorkCloses ==
    ASSUME ChainInv, WorkInv, DeletePlayer \/ DeEstablish \/ DeInit
    PROVE  WorkInv'
<1>1. /\ UNCHANGED <<refused, result, attempts, faults>> /\ phase' \in {"closing", "closed", "refused", "crashed"}
      /\ (phase' = "crashed" => faults # 0) /\ (phase' = "refused" => refused)
  <2>1. CASE DeletePlayer
    <3>1. UNCHANGED <<refused, result, attempts, faults>> /\ phase \in {"open", "refused"}
          /\ phase' = IF decoder THEN "closing" ELSE "crashed"
      BY <2>1 DEF DeletePlayer
    <3>2. (phase = "open" => decoder) /\ (phase = "refused" => faults # 0)
      BY DEF WorkInv, Flawless, WiringWorks
    <3> QED BY <3>1, <3>2
  <2>2. CASE DeEstablish \/ DeInit
    <3>1. phase = "closing" /\ phase' \in {"closing", "closed", "refused"}
      BY <2>2, DeEstablishUndoes, DeInitUndoes, UndoingIs
    <3>2. UNCHANGED <<refused, result, attempts, faults>> /\ (phase' = "refused" => phase = "refused" \/ refused)
      BY <2>2 DEF DeEstablish, DeInit, Close
    <3> QED BY <3>1, <3>2
  <2> QED BY <2>1, <2>2
<1>2. (\E e \in BOOLEAN : WhenWired(e)') /\ Preparing' /\ Wired' /\ Opened'
  BY <1>1 DEF WhenWired, Preparing, Wired, Opened
<1>3. Flawless'
  BY <1>1 DEF WorkInv, Flawless, WiringWorks
<1> QED BY <1>2, <1>3 DEF WorkInv

LEMMA WorkStutters ==
    ASSUME ChainInv, WorkInv, UNCHANGED vars
    PROVE  WorkInv'
<1>1. /\ UNCHANGED <<phase, device, todo, decoder, refused, mDeInterlace, result, handle, state, ends, mTunnelSet>>
      /\ UNCHANGED <<held, joined, enabled, attempts, changes, faults, closeFaults, unfreed, lame, mistaken>>
  BY DEF vars, gpuVars
<1>2. (IsVideo' <=> IsVideo) /\ \A d : Members(d)' = Members(d) /\ Wires(d)' = Wires(d)
  BY <1>1, DeviceFixed, WiresFixed
<1>3. \A t : Src(t)' = Src(t) /\ Dst(t)' = Dst(t)
  BY <1>1 DEF Src, Dst, Port, Serial
<1>4. (\A c : Waker(c)' = Waker(c)) /\ ClockIn' = ClockIn
  BY DEF Waker, ClockIn
<1>5. ASSUME NEW d \in BOOLEAN, phase = "wiring", Wiring(d), Progress(d) PROVE Wiring(d)' /\ Progress(d)'
  <2>1. Wiring(d)'
    <3>1. \A s : Fits(s, d)' <=> Fits(s, d)
      BY <1>1, DeviceFixed
    <3> QED BY <1>1, <1>2, <1>5, <3>1 DEF Wiring
  <2>2. OrderlyPlan(todo)' /\ (\A s \in Items(todo') : Proper(s, d)') /\ Running(d)' /\ ClockFirst'
    <3>1. \A s : Proper(s, d)' <=> Proper(s, d)
      BY <1>1, WiresFixed
    <3>2. OrderlyPlan(todo)'
      <4>1. \A i, j \in 1..Len(todo') : i < j => Orderly(todo'[i], todo'[j])
        BY <1>1, <1>5 DEF Progress, OrderlyPlan
      <4> QED BY <4>1 DEF OrderlyPlan
    <3>3. (\A s \in Items(todo') : Proper(s, d)') /\ Running(d)' /\ ClockFirst'
      BY <1>1, <1>2, <1>4, <1>5, <3>1 DEF Progress, Running, ClockFirst
    <3> QED BY <3>2, <3>3
  <2>3. Tunneled(d)'
    <3>1. \A t : (Joined(t)' <=> Joined(t)) /\ (Made(t, d)' <=> Made(t, d))
      BY <1>1, <1>2, <1>3 DEF Joined, Made, Behind
    <3> QED BY <1>1, <1>2, <1>5, <3>1 DEF Progress, Tunneled
  <2>4. (\A c \in Subjects(todo', "execute") : Woken(c)') /\ \A c \in Subjects(todo', "init") : Waker(c)' \in Subjects(todo', "enable")
    BY <1>1, <1>4, <1>5 DEF Progress, Woken
  <2>6. Roused'
    <3>1. \A c : Asleep(c, state)' <=> Asleep(c, state)
      BY <1>1 DEF Asleep
    <3>2. \A t : Behind(t)' <=> Behind(t)
      BY <1>1 DEF Behind
    <3> QED BY <1>1, <1>5, <3>1, <3>2 DEF Progress, Roused
  <2>5. Given(d)' /\ Unfaulted(d)'
    <3>1. (\A t : EndsOf(t, d)' = EndsOf(t, d)) /\ \A p, t : UsedBy(p, t, d)' <=> UsedBy(p, t, d)
      BY <1>1, WiresFixed
    <3> QED BY <1>1, <1>2, <1>5, <3>1 DEF Progress, Given, Unfaulted
  <2> QED BY <2>1, <2>2, <2>3, <2>4, <2>5, <2>6 DEF Progress
<1>6. \E d \in BOOLEAN : WhenWired(d)'
  <2>1. PICK d \in BOOLEAN : WhenWired(d)
    BY DEF WorkInv
  <2>2. WhenWired(d)'
    BY <1>1, <1>5, <2>1 DEF WhenWired
  <2> QED BY <2>2
<1>7. Preparing'
  <2> SUFFICES ASSUME phase = "opening" PROVE Prepared'
    BY <1>1 DEF Preparing
  <2>1. Prepared
    BY DEF WorkInv, Preparing
  <2>2. OpensOnce(todo')
    BY <1>1, <2>1 DEF Prepared
  <2> QED BY <1>1, <2>1, <2>2 DEF Prepared, InputOnly
<1>8. (IsWired' <=> IsWired) /\ Used' = Used
  BY <1>1, <1>2 DEF IsWired, Used
<1>9. Opened' /\ Flawless'
  BY <1>1, <1>2, <1>4, <1>8 DEF WorkInv, Opened, InputOnly, Flawless, WiringWorks
<1>10. Wired'
  BY <1>1, <1>3, <1>8 DEF WorkInv, Wired
<1> QED BY <1>6, <1>7, <1>9, <1>10 DEF WorkInv

LEMMA WorkStep ==
    ASSUME ChainInv, WorkInv, [Next]_vars
    PROVE  WorkInv'
<1>1. CASE InitComponent \/ Configure \/ ChooseInterlace \/ InitTunnel \/ AllocInputBuffers
           \/ Execute \/ SourceIdle \/ SetupTunnel \/ EnablePorts
  BY <1>1, WorkSucceeds DEF Succeeds
<1>2. CASE InitFails \/ EnableFails \/ CallFails
  BY <1>2, WorkFails DEF Fails
<1>3. CASE DeEstablish \/ DeInit \/ DeletePlayer
  BY <1>3, WorkCloses
<1>4. CASE Open \/ OpenUnsupported
  BY <1>4, WorkOpens
<1>5. CASE SrcChanged
  BY <1>5, WorkStarts
<1>6. CASE SrcChangedAgain
  BY <1>6, WorkChanges
<1>7. CASE UNCHANGED vars
  BY <1>7, WorkStutters
<1> QED BY <1>1, <1>2, <1>3, <1>4, <1>5, <1>6, <1>7 DEF Next

LEMMA WorkBegins ==
    ASSUME Init
    PROVE  WorkInv
<1>1. /\ phase = "new" /\ attempts = 0 /\ result = "none" /\ refused = FALSE
  BY DEF Init
<1> QED BY <1>1 DEF WorkInv, WhenWired, Preparing, Opened, Flawless, WiringWorks, Wired

LEMMA WorkIsKept == Spec => []WorkInv
<1>1. Init => ChainInv /\ WorkInv
  BY InitIsFine, WorkBegins
<1>2. ChainInv /\ WorkInv /\ [Next]_vars => ChainInv' /\ WorkInv'
  BY EveryStep, WorkStep
<1> QED BY <1>1, <1>2, PTL DEF Spec

\* The order of the calls is right: while no component fails, open and srcChanged get to their end,
\* for video and audio, with a deinterlacer or without, and one output or two.  No component is told
\* to execute before a tunnel's establish, or open, has brought it to Idle, and establish enables no
\* port that is enabled already, which would wait in vain for its answer.
THEOREM WiringDoesWork == Spec => []WiringWorks
<1>1. WorkInv => WiringWorks
  BY DEF WorkInv, Flawless
<1> QED BY <1>1, WorkIsKept, PTL

\* What srcChanged says is so: when it has returned true, every component of the chain executes and
\* every tunnel joins two ports that are enabled, whatever failed in the wirings that were given up
\* before, whose tunnels mTunnelSet still has and whose handles init overwrites.
THEOREM WiredIsWired == Spec => []Wired
<1>1. WorkInv => Wired
  BY DEF WorkInv
<1> QED BY <1>1, WorkIsKept, PTL
=============================================================================
