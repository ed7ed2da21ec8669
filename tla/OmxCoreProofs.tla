----------------------------- MODULE OmxCoreProofs ----------------------------
(***************************************************************************)
(* No buffer of a cOmxCore is lost or in two places, for any number of     *)
(* buffers, frames of any size, every error, refusal and late answer; and, *)
(* as long as the component has done none of these, each command has one   *)
(* answer, which goes to the wait for it, and the teardown is clean.       *)
(*                                                                         *)
(* The pool changes hands in a few steps; what makes each of them safe is  *)
(* that the client holds a buffer exactly while its next call is           *)
(* emptyThisBuffer, which rests on the order of the calls in todo: each    *)
(* getInputBuffer is followed by the emptyThisBuffer of what it got.       *)
(*                                                                         *)
(* For the rest the position in the twelve calls of close says it all:     *)
(* which command is under way, which state the component is in, whether    *)
(* the buffers are back and freed (Closing).                               *)
(***************************************************************************)
EXTENDS OmxCore, TimeSpec, FiniteSetTheorems, SequenceTheorems, TLAPS

CallRecord == [do : CallNames, on : Event \cup {"none"}]

Paired(s) ==
    /\ \A i, j \in 1 .. Len(s) : j = i + 1 => (s[i].do = "get" <=> s[j].do = "empty")
    /\ \A i \in 1 .. Len(s) : s[i].do = "get" => i < Len(s)

Plain(s) == \A i \in DOMAIN s : s[i].do \notin {"get", "empty"}

Types ==
    /\ mInputAvaliable \in Seq(Buffer) /\ mInputBuffers \in {Buffer, {}}
    /\ hand \in Buffer \cup {NoBuffer} /\ returning \in Buffer \cup {NoBuffer}
    /\ held \subseteq Buffer /\ dropped \subseteq Buffer
    /\ room \in Nat

Script ==
    /\ todo \in Seq(CallRecord)
    /\ Paired(todo)
    /\ hand # NoBuffer <=> Calling("empty")

-------------------------------------------------------------------------------
(* The methods, as sequences of calls                                       *)

LEMMA CallTypes ==
    /\ \A name \in CallNames : Call(name) \in CallRecord /\ Call(name).do = name
    /\ \A c \in Event : /\ Flush(c) \in CallRecord /\ Flush(c).do = "flush"
                        /\ SetState(c) \in CallRecord /\ SetState(c).do = "setState"
                        /\ Await(c) \in CallRecord /\ Await(c).do = "await"
BY DEF CallRecord, Call, Flush, SetState, Await, CallNames

LEMMA PlainJoin ==
    ASSUME NEW s \in Seq(CallRecord), NEW t \in Seq(CallRecord), Plain(s), Plain(t)
    PROVE  s \o t \in Seq(CallRecord) /\ Plain(s \o t)
BY DEF Plain

LEMMA PlainPaired ==
    ASSUME NEW s \in Seq(CallRecord), Plain(s)
    PROVE  Paired(s) /\ (s # << >> => Head(s).do # "empty")
BY DEF Plain, Paired

LEMMA CloseScript == CloseCalls \in Seq(CallRecord) /\ Plain(CloseCalls)
<1> DEFINE start == <<Call("exit"), Flush("flushIn"), Flush("flushOut")>>
           free == <<Call("disable"), Call("free"), Await("disable"), Call("inputDone"), Call("forget")>>
           down == <<SetState("idle"), SetState("loaded"), Call("freeHandle")>>
<1>1. start \in Seq(CallRecord) /\ Plain(start)
    BY CallTypes DEF Plain, CallNames, Event, Command
<1>2. free \in Seq(CallRecord) /\ Plain(free)
    BY CallTypes DEF Plain, CallNames, Event, Command
<1>3. down \in Seq(CallRecord) /\ Plain(down)
    BY CallTypes DEF Plain, CallNames, Event, Command
<1>4. <<Flush("flushIn")>> \in Seq(CallRecord) /\ Plain(<<Flush("flushIn")>>)
    BY CallTypes DEF Plain, Event, Command
<1> HIDE DEF start, free, down
<1>5. start \o free \in Seq(CallRecord) /\ Plain(start \o free)
    BY <1>1, <1>2, PlainJoin
<1>6. (start \o free) \o down \in Seq(CallRecord) /\ Plain((start \o free) \o down)
    BY <1>3, <1>5, PlainJoin
<1>7. DeInit = (start \o free) \o down
    BY DEF DeInit, FreeInputBuffers, start, free, down
<1>8. QED
    BY <1>4, <1>6, <1>7, PlainJoin DEF CloseCalls

\* decode's calls for n buffers.
LEMMA DecodeScript ==
    ASSUME NEW n \in Nat,
           NEW s, s = [i \in 1 .. 4 * n |-> SendPart[1 + ((i - 1) % 4)]]
    PROVE  /\ s \in Seq(CallRecord) /\ Paired(s)
           /\ s # << >> => Head(s).do # "empty"
<1>1. \A k \in 1 .. 4 : /\ SendPart[k] \in CallRecord
                        /\ SendPart[k].do = "get" <=> k = 1
                        /\ SendPart[k].do = "empty" <=> k = 2
    <2>1. /\ Call("get") \in CallRecord /\ Call("get").do = "get"
          /\ Call("empty") \in CallRecord /\ Call("empty").do = "empty"
          /\ Await("settings") \in CallRecord /\ Await("settings").do = "await"
          /\ Await("param") \in CallRecord /\ Await("param").do = "await"
        BY CallTypes DEF CallNames, Event, Change
    <2>2. QED
        BY <2>1 DEF SendPart
<1>2. \A i \in 1 .. 4 * n : 1 + ((i - 1) % 4) \in 1 .. 4
    OBVIOUS
<1>3. DOMAIN s = 1 .. 4 * n /\ Len(s) = 4 * n /\ s \in Seq(CallRecord)
    BY <1>1, <1>2
<1>4. \A i \in 1 .. 4 * n : /\ s[i].do = "get" <=> (i - 1) % 4 = 0
                            /\ s[i].do = "empty" <=> (i - 1) % 4 = 1
    BY <1>1, <1>2
<1>5. \A i, j \in 1 .. 4 * n : j = i + 1 => ((i - 1) % 4 = 0 <=> (j - 1) % 4 = 1)
    OBVIOUS
<1>6. \A i \in 1 .. 4 * n : (i - 1) % 4 = 0 => i < 4 * n
    OBVIOUS
<1>7. Paired(s)
    <2>1. ASSUME NEW i \in 1 .. Len(s), NEW j \in 1 .. Len(s), j = i + 1
          PROVE  s[i].do = "get" <=> s[j].do = "empty"
        BY <1>3, <1>4, <1>5, <2>1
    <2>2. ASSUME NEW i \in 1 .. Len(s), s[i].do = "get"
          PROVE  i < Len(s)
        BY <1>3, <1>4, <1>6, <2>2
    <2>3. QED
        BY <2>1, <2>2 DEF Paired
<1>8. s # << >> => Head(s).do # "empty"
    <2>1. s # << >> => 1 \in 1 .. 4 * n /\ Head(s) = s[1]
        BY <1>3
    <2>2. (1 - 1) % 4 = 0
        OBVIOUS
    <2>3. QED
        BY <2>1, <2>2, <1>4
<1>9. QED
    BY <1>3, <1>7, <1>8

\* What is left after the first call is still paired, and it goes on with emptyThisBuffer
\* exactly if that call was getInputBuffer.
LEMMA TailScript ==
    ASSUME NEW s \in Seq(CallRecord), s # << >>, Paired(s)
    PROVE  /\ Tail(s) \in Seq(CallRecord) /\ Paired(Tail(s))
           /\ Head(s).do = "get" <=> Tail(s) # << >> /\ Head(Tail(s)).do = "empty"
<1> DEFINE t == Tail(s)
<1>1. /\ t \in Seq(CallRecord) /\ Len(t) = Len(s) - 1
      /\ \A i \in 1 .. Len(t) : t[i] = s[i + 1]
    OBVIOUS
<1>2. Len(s) \in Nat \ {0} /\ Len(t) \in Nat /\ Head(s) = s[1]
    BY <1>1
<1>3. (t # << >> => Len(t) > 0 /\ Head(t) = t[1]) /\ (Len(t) > 0 => t # << >>)
    <2> HIDE DEF t
    <2>1. Len(<< >>) = 0
        OBVIOUS
    <2>2. QED
        BY <1>1, <2>1
<1> HIDE DEF t
<1>4. Paired(t)
    <2>1. ASSUME NEW i \in 1 .. Len(t), NEW j \in 1 .. Len(t), j = i + 1
          PROVE  t[i].do = "get" <=> t[j].do = "empty"
        <3>1. i + 1 \in 1 .. Len(s) /\ j + 1 \in 1 .. Len(s) /\ j + 1 = (i + 1) + 1
            BY <1>1, <1>2, <2>1
        <3>2. QED
            BY <1>1, <3>1 DEF Paired
    <2>2. ASSUME NEW i \in 1 .. Len(t), t[i].do = "get"
          PROVE  i < Len(t)
        <3>1. i + 1 \in 1 .. Len(s) /\ s[i + 1].do = "get"
            BY <1>1, <1>2, <2>2
        <3>2. QED
            BY <1>1, <1>2, <3>1 DEF Paired
    <2>3. QED
        BY <2>1, <2>2 DEF Paired
<1>5. Head(s).do = "get" <=> t # << >> /\ Head(t).do = "empty"
    <2>1. CASE Len(s) = 1
        <3>1. s[1].do # "get"
            BY <2>1 DEF Paired
        <3>2. QED
            BY <2>1, <3>1, <1>1, <1>2, <1>3
    <2>2. CASE Len(s) > 1
        <3>1. /\ 1 \in 1 .. Len(s) /\ 2 \in 1 .. Len(s) /\ 2 = 1 + 1
              /\ 1 \in 1 .. Len(t) /\ t # << >> /\ Head(t) = t[1]
            BY <2>2, <1>1, <1>2, <1>3
        <3>2. t[1] = s[2]
            BY <1>1, <3>1
        <3>3. s[1].do = "get" <=> s[2].do = "empty"
            BY <3>1 DEF Paired
        <3>4. QED
            BY <3>1, <3>2, <3>3, <1>2
    <2> DEFINE n == Len(s)
    <2>3. n \in Nat \ {0}
        BY <1>2
    <2> HIDE DEF n
    <2>5. n = 1 \/ n > 1
        BY <2>3
    <2>4. QED
        BY <2>1, <2>2, <2>5 DEF n
<1>6. QED
    BY <1>1, <1>4, <1>5 DEF t

LEMMA WithAwait ==
    ASSUME NEW s \in Seq(CallRecord), Paired(s), NEW a \in CallRecord, a.do = "await",
           s # << >> => Head(s).do # "empty"
    PROVE  /\ <<a>> \o s \in Seq(CallRecord) /\ Paired(<<a>> \o s)
           /\ Head(<<a>> \o s) = a
<1> DEFINE t == <<a>> \o s
<1>1. /\ t \in Seq(CallRecord) /\ Len(t) = Len(s) + 1
      /\ t[1] = a /\ Head(t) = a
      /\ \A i \in 2 .. Len(s) + 1 : t[i] = s[i - 1]
    OBVIOUS
<1>2. Len(s) \in Nat /\ (Len(s) > 0 => Head(s) = s[1] /\ s # << >>)
    OBVIOUS
<1> HIDE DEF t
<1>3. ASSUME NEW i \in 1 .. Len(t), NEW j \in 1 .. Len(t), j = i + 1
      PROVE  t[i].do = "get" <=> t[j].do = "empty"
    <2>1. CASE i = 1
        <3>1. t[j] = s[1] /\ s # << >> /\ Head(s) = s[1]
            BY <1>1, <1>2, <1>3, <2>1
        <3>2. QED
            BY <1>1, <2>1, <3>1
    <2>2. CASE i > 1
        <3>1. i \in 2 .. Len(s) + 1 /\ j \in 2 .. Len(s) + 1
            BY <1>1, <1>2, <1>3, <2>2
        <3>2. t[i] = s[i - 1] /\ t[j] = s[j - 1]
            BY <1>1, <3>1
        <3>3. i - 1 \in 1 .. Len(s) /\ j - 1 \in 1 .. Len(s) /\ j - 1 = (i - 1) + 1
            BY <1>2, <1>3, <3>1
        <3>4. QED
            BY <3>2, <3>3 DEF Paired
    <2>3. QED
        BY <2>1, <2>2
<1>4. ASSUME NEW i \in 1 .. Len(t), t[i].do = "get"
      PROVE  i < Len(t)
    <2>1. i > 1 /\ i - 1 \in 1 .. Len(s) /\ s[i - 1].do = "get"
        BY <1>1, <1>2, <1>4
    <2>2. QED
        BY <1>1, <1>2, <2>1 DEF Paired
<1>5. QED
    BY <1>1, <1>3, <1>4 DEF Paired, t
-------------------------------------------------------------------------------
(* The calls in order                                                       *)

CoreInv == Types /\ Script /\ BuffersConserved

\* A step after which the client's next call is the one that follows.
LEMMA ProceedScript ==
    ASSUME Script, todo # << >>, Proceed,
           (hand' # NoBuffer) <=> Calling("get")
    PROVE  Script'
<1>1. /\ todo' \in Seq(CallRecord) /\ Paired(todo')
      /\ Head(todo).do = "get" <=> todo' # << >> /\ Head(todo').do = "empty"
    BY TailScript DEF Script, Proceed
<1>2. QED
    BY <1>1 DEF Script, Calling

LEMMA GiveUpScript ==
    ASSUME GiveUp, hand' = NoBuffer
    PROVE  Script'
BY DEF GiveUp, Script, Calling, Paired

LEMMA StartScript ==
    ASSUME Script, todo = << >>, NEW calls \in Seq(CallRecord), Paired(calls),
           calls # << >> => Head(calls).do # "empty", todo' = calls, hand' = hand
    PROVE  Script'
BY DEF Script, Calling

\* A call that is not emptyThisBuffer is made with empty hands.
LEMMA EmptyHanded ==
    ASSUME Script, NEW name, name # "empty", Calling(name)
    PROVE  hand = NoBuffer /\ todo # << >> /\ Head(todo).do = name
BY DEF Script, Calling

LEMMA ThenAwaitScript ==
    ASSUME Script, NEW name \in {"flush", "setState"}, Calling(name),
           ThenAwait(On), hand' = hand
    PROVE  Script'
<1>1. hand = NoBuffer /\ todo # << >> /\ Head(todo).do = name
    BY EmptyHanded
<1>2. /\ Tail(todo) \in Seq(CallRecord) /\ Paired(Tail(todo))
      /\ Tail(todo) # << >> => Head(Tail(todo)).do # "empty"
    BY <1>1, TailScript DEF Script
<1>3. Await(On) \in CallRecord /\ Await(On).do = "await"
    <2>1. Head(todo) \in CallRecord
        BY <1>1 DEF Script
    <2>2. On \in Event \cup {"none"}
        BY <2>1 DEF CallRecord, On
    <2>3. QED
        BY <2>2 DEF Await, CallRecord, CallNames
<1>4. /\ todo' \in Seq(CallRecord) /\ Paired(todo')
      /\ Head(todo') = Await(On)
    BY <1>2, <1>3, WithAwait DEF ThenAwait
<1>5. QED
    BY <1>1, <1>3, <1>4 DEF Script, Calling
-------------------------------------------------------------------------------
(* The inductive invariant                                                  *)

LEMMA InitCore == Init => CoreInv
<1> SUFFICES ASSUME Init PROVE CoreInv
    OBVIOUS
<1>1. /\ Cardinality(Buffer) \in Nat /\ Cardinality(1 .. Cardinality(Buffer)) = Cardinality(Buffer)
      /\ IsFiniteSet(1 .. Cardinality(Buffer))
    BY FS_CardinalityType, FS_Interval, BufferAssumption
<1>2. /\ mInputAvaliable \in [1 .. Cardinality(Buffer) -> Buffer]
      /\ \A i, j \in 1 .. Cardinality(Buffer) :
           i # j => mInputAvaliable[i] # mInputAvaliable[j]
    BY DEF Init, SetToSeqs
<1>3. mInputAvaliable \in Seq(Buffer) /\ IsInjective(mInputAvaliable)
    BY <1>1, <1>2 DEF IsInjective
<1>4. Available = Buffer
    <2> DEFINE D == 1 .. Cardinality(Buffer)
    <2>1. mInputAvaliable \in Injection(D, Buffer)
        BY <1>2, <1>3 DEF Injection
    <2>2. IsFiniteSet(D) /\ Cardinality(D) = Cardinality(Buffer)
        BY <1>1
    <2> HIDE DEF D
    <2>3. Cardinality(D) = Cardinality(Buffer) <=> mInputAvaliable \in Surjection(D, Buffer)
        BY <2>1, FS_Injection, BufferAssumption
    <2>4. mInputAvaliable \in Surjection(D, Buffer)
        BY <2>2, <2>3
    <2>5. QED
        BY <1>2, <2>4 DEF Surjection, Available, ToSet, D
<1>5. Types
    BY <1>3, BufferAssumption DEF Init, Types
<1>6. Script
    BY DEF Init, Script, Calling, Paired
<1>7. BuffersConserved
    BY <1>3, <1>4 DEF Init, BuffersConserved, InHand, OnItsWay
<1>8. QED
    BY <1>5, <1>6, <1>7 DEF CoreInv
\* Where the buffers are, without the tuple of BuffersConserved.
Placed ==
    /\ IsInjective(mInputAvaliable)
    /\ Available \cap InHand = {} /\ Available \cap held = {}
    /\ Available \cap OnItsWay = {} /\ Available \cap dropped = {}
    /\ InHand \cap held = {} /\ InHand \cap OnItsWay = {} /\ InHand \cap dropped = {}
    /\ held \cap OnItsWay = {} /\ held \cap dropped = {} /\ OnItsWay \cap dropped = {}
    /\ Available \cup InHand \cup held \cup OnItsWay \cup dropped = mInputBuffers

LEMMA PlacedIsConserved == BuffersConserved <=> (mInputBuffers # {} => Placed)
<1> DEFINE places == <<Available, InHand, held, OnItsWay, dropped>>
<1>1. /\ places[1] = Available /\ places[2] = InHand /\ places[3] = held
      /\ places[4] = OnItsWay /\ places[5] = dropped
    OBVIOUS
<1> HIDE DEF places
<1>2. UNION {places[i] : i \in 1 .. 5} = Available \cup InHand \cup held \cup OnItsWay \cup dropped
    <2>1. {places[i] : i \in 1 .. 5} = {Available, InHand, held, OnItsWay, dropped}
        BY <1>1
    <2>2. QED
        BY <2>1
<1>3. (\A i, j \in 1 .. 5 : i # j => places[i] \cap places[j] = {}) <=>
          /\ Available \cap InHand = {} /\ Available \cap held = {}
          /\ Available \cap OnItsWay = {} /\ Available \cap dropped = {}
          /\ InHand \cap held = {} /\ InHand \cap OnItsWay = {} /\ InHand \cap dropped = {}
          /\ held \cap OnItsWay = {} /\ held \cap dropped = {} /\ OnItsWay \cap dropped = {}
    <2>1. \A i \in 1 .. 5 : i = 1 \/ i = 2 \/ i = 3 \/ i = 4 \/ i = 5
        OBVIOUS
    <2>2. QED
        BY <1>1, <2>1
<1>4. QED
    BY <1>2, <1>3 DEF BuffersConserved, Placed, places

LEMMA PlacedThen == BuffersConserved' <=> (mInputBuffers' # {} => Placed')
<1>1. BuffersConserved <=> (mInputBuffers # {} => Placed)
    BY PlacedIsConserved
<1>2. (BuffersConserved <=> (mInputBuffers # {} => Placed))'
    BY <1>1, PTL
<1>3. QED
    BY <1>2

\* The pool and the queue of events as FIFOs, and what is in them.
LEMMA AppendOne ==
    ASSUME NEW S, NEW s \in Seq(S), NEW b \in S
    PROVE  /\ Append(s, b) \in Seq(S)
           /\ ToSet(Append(s, b)) = ToSet(s) \cup {b}
           /\ IsInjective(s) /\ b \notin ToSet(s) => IsInjective(Append(s, b))
<1> DEFINE t == Append(s, b)
<1>1. /\ t \in Seq(S) /\ Len(t) = Len(s) + 1 /\ t[Len(s) + 1] = b
      /\ \A i \in 1 .. Len(s) : t[i] = s[i]
    OBVIOUS
<1>2. Len(s) \in Nat /\ DOMAIN s = 1 .. Len(s) /\ DOMAIN t = 1 .. Len(s) + 1
    BY <1>1
<1>3. \A i \in 1 .. Len(s) + 1 : i \in 1 .. Len(s) \/ i = Len(s) + 1
    BY <1>2
<1> HIDE DEF t
<1>4. ToSet(t) = ToSet(s) \cup {b}
    <2>1. ASSUME NEW x \in ToSet(t) PROVE x \in ToSet(s) \cup {b}
        BY <1>1, <1>2, <1>3, <2>1 DEF ToSet
    <2>2. ASSUME NEW x \in ToSet(s) PROVE x \in ToSet(t)
        <3>1. PICK i \in 1 .. Len(s) : x = s[i]
            BY <1>2, <2>2 DEF ToSet
        <3>2. i \in 1 .. Len(s) + 1 /\ x = t[i]
            BY <1>1, <1>2, <3>1
        <3>3. QED
            BY <1>2, <3>2 DEF ToSet
    <2>3. b \in ToSet(t)
        <3>1. Len(s) + 1 \in 1 .. Len(s) + 1
            BY <1>2
        <3>2. QED
            BY <1>1, <1>2, <3>1 DEF ToSet
    <2>4. QED
        BY <2>1, <2>2, <2>3
<1>5. ASSUME IsInjective(s), b \notin ToSet(s) PROVE IsInjective(t)
    <2>1. \A i \in 1 .. Len(s) : s[i] # b
        BY <1>2, <1>5 DEF ToSet
    <2>2. \A i, j \in 1 .. Len(s) : s[i] = s[j] => i = j
        BY <1>2, <1>5 DEF IsInjective
    <2>3. QED
        BY <1>1, <1>2, <1>3, <2>1, <2>2 DEF IsInjective
<1>6. QED
    BY <1>1, <1>4, <1>5 DEF t

LEMMA TakePool ==
    ASSUME NEW s \in Seq(Buffer), s # << >>, IsInjective(s)
    PROVE  /\ Head(s) \in Buffer /\ Tail(s) \in Seq(Buffer) /\ IsInjective(Tail(s))
           /\ ToSet(Tail(s)) = ToSet(s) \ {Head(s)} /\ Head(s) \in ToSet(s)
<1> DEFINE t == Tail(s)
<1>1. /\ t \in Seq(Buffer) /\ Len(t) = Len(s) - 1
      /\ \A i \in 1 .. Len(t) : t[i] = s[i + 1]
    OBVIOUS
<1>2. /\ Len(s) \in Nat \ {0} /\ DOMAIN s = 1 .. Len(s) /\ DOMAIN t = 1 .. Len(t)
      /\ Len(t) \in Nat /\ Head(s) = s[1]
    BY <1>1
<1> HIDE DEF t
<1>3. 1 \in 1 .. Len(s) /\ \A i \in 1 .. Len(t) : i + 1 \in 1 .. Len(s) /\ i + 1 # 1
    BY <1>1, <1>2
<1>4. \A i \in 1 .. Len(s) : i = 1 \/ (i - 1 \in 1 .. Len(t) /\ s[i] = t[i - 1])
    <2>1. \A i \in 1 .. Len(s) : i # 1 => i - 1 \in 1 .. Len(t) /\ (i - 1) + 1 = i
        BY <1>1, <1>2
    <2>2. QED
        BY <1>1, <2>1
<1>5. \A i, j \in 1 .. Len(s) : s[i] = s[j] => i = j
    BY <1>2 DEF IsInjective
<1>6. ToSet(t) = ToSet(s) \ {Head(s)}
    <2>1. ASSUME NEW x \in ToSet(t) PROVE x \in ToSet(s) \ {Head(s)}
        <3>1. PICK i \in 1 .. Len(t) : x = t[i]
            BY <1>2, <2>1 DEF ToSet
        <3>2. i + 1 \in 1 .. Len(s) /\ i + 1 # 1 /\ x = s[i + 1]
            BY <1>1, <1>3, <3>1
        <3>3. x # s[1]
            BY <1>3, <1>5, <3>2
        <3>4. QED
            BY <1>2, <3>2, <3>3 DEF ToSet
    <2>2. ASSUME NEW x \in ToSet(s), x # Head(s) PROVE x \in ToSet(t)
        <3>1. PICK i \in 1 .. Len(s) : x = s[i]
            BY <1>2, <2>2 DEF ToSet
        <3>2. QED
            BY <1>2, <1>4, <2>2, <3>1 DEF ToSet
    <2>3. QED
        BY <2>1, <2>2
<1>7. IsInjective(t)
    <2>1. ASSUME NEW i \in 1 .. Len(t), NEW j \in 1 .. Len(t), t[i] = t[j] PROVE i = j
        <3>1. i + 1 = j + 1
            BY <1>1, <1>3, <1>5, <2>1
        <3>2. QED
            BY <3>1
    <2>2. QED
        BY <1>2, <2>1 DEF IsInjective
<1>8. Head(s) \in Buffer /\ Head(s) \in ToSet(s)
    BY <1>2, <1>3 DEF ToSet
<1>9. QED
    BY <1>1, <1>6, <1>7, <1>8 DEF t

-------------------------------------------------------------------------------
(* The steps that move a buffer                                             *)

MovesBuffer ==
    GetBuffer \/ EmptyThisBuffer \/ EmptyRejected \/ EmptyBufferDone \/ ReturnBuffer \/ ForgetBuffers

LEMMA StepMoves == CoreInv /\ MovesBuffer => CoreInv'
<1> SUFFICES ASSUME CoreInv, MovesBuffer PROVE CoreInv'
    OBVIOUS
<1> USE DEF CoreInv
<1>1. CASE GetBuffer
    <2>1. mInputAvaliable # << >> /\ hand' = Head(mInputAvaliable) /\ mInputAvaliable' = Tail(mInputAvaliable)
          /\ UNCHANGED <<mInputBuffers, held, dropped, returning, room>>
        BY <1>1 DEF GetBuffer, pool, lent, callback
    <2>2. hand = NoBuffer /\ todo # << >>
        BY <1>1, EmptyHanded DEF GetBuffer
    <2>3. Head(mInputAvaliable) \in Buffer /\ Tail(mInputAvaliable) \in Seq(Buffer)
        BY <2>1 DEF Types
    <2>4. Types'
        BY <2>1, <2>3 DEF Types
    <2>5. Script'
        <3>1. hand' # NoBuffer /\ Calling("get") /\ Proceed
            BY <1>1, <2>1, <2>3, BufferAssumption DEF GetBuffer
        <3>2. QED
            BY <2>2, <3>1, ProceedScript
    <2>6. ASSUME Placed PROVE Placed'
        <3>1. /\ IsInjective(Tail(mInputAvaliable))
              /\ ToSet(Tail(mInputAvaliable)) = Available \ {Head(mInputAvaliable)}
              /\ Head(mInputAvaliable) \in Available
            BY <2>1, <2>6, TakePool DEF Types, Placed, Available
        <3>2. /\ Available' = Available \ {Head(mInputAvaliable)}
              /\ InHand = {} /\ InHand' = {Head(mInputAvaliable)} /\ OnItsWay' = OnItsWay
            BY <2>1, <2>2, <2>3, <3>1, BufferAssumption DEF Available, InHand, OnItsWay
        <3>3. QED
            BY <2>1, <2>6, <3>1, <3>2 DEF Placed
    <2>7. QED
        BY <2>1, <2>4, <2>5, <2>6, PlacedIsConserved, PlacedThen
<1>2. CASE EmptyThisBuffer
    <2>1. hand' = NoBuffer /\ held' = held \cup {hand} /\ Calling("empty") /\ Proceed
          /\ UNCHANGED <<mInputAvaliable, mInputBuffers, dropped, returning, room>>
        BY <1>2 DEF EmptyThisBuffer, pool, callback
    <2>2. hand \in Buffer /\ hand # NoBuffer
        BY <2>1, BufferAssumption DEF Types, Script
    <2>3. Types'
        BY <2>1, <2>2 DEF Types
    <2>4. Script'
        <3>1. ~Calling("get") /\ todo # << >>
            BY <2>1 DEF Calling
        <3>2. QED
            BY <2>1, <3>1, ProceedScript
    <2>5. ASSUME Placed PROVE Placed'
        <3>1. /\ Available' = Available /\ OnItsWay' = OnItsWay
              /\ InHand = {hand} /\ InHand' = {}
            BY <2>1, <2>2 DEF Available, InHand, OnItsWay
        <3>2. QED
            BY <2>1, <2>5, <3>1 DEF Placed
    <2>6. QED
        BY <2>1, <2>3, <2>4, <2>5, PlacedIsConserved, PlacedThen
<1>3. CASE EmptyRejected
    <2>1. hand' = NoBuffer /\ mInputAvaliable' = Append(mInputAvaliable, hand) /\ Calling("empty") /\ GiveUp
          /\ UNCHANGED <<mInputBuffers, held, dropped, returning, room>>
        BY <1>3 DEF EmptyRejected, Return, lent, callback
    <2>2. hand \in Buffer /\ hand # NoBuffer
        BY <2>1, BufferAssumption DEF Types, Script
    <2>3. Types'
        BY <2>1, <2>2, AppendOne DEF Types
    <2>4. Script'
        BY <2>1, GiveUpScript
    <2>5. ASSUME Placed PROVE Placed'
        <3>1. InHand = {hand} /\ InHand' = {} /\ OnItsWay' = OnItsWay /\ hand \notin Available
            BY <2>1, <2>2, <2>5 DEF InHand, OnItsWay, Placed
        <3>2. Available' = Available \cup {hand} /\ IsInjective(mInputAvaliable')
            BY <2>1, <2>2, <2>5, <3>1, AppendOne DEF Available, Placed, Types
        <3>3. QED
            BY <2>1, <2>5, <3>1, <3>2 DEF Placed
    <2>6. QED
        BY <2>1, <2>3, <2>4, <2>5, PlacedIsConserved, PlacedThen
<1>4. CASE EmptyBufferDone
    <2>1. PICK b \in held :
              /\ held' = held \ {b} /\ returning = NoBuffer
              /\ \/ dropped' = dropped \cup {b} /\ returning' = NoBuffer
                 \/ returning' = b /\ dropped' = dropped
              /\ UNCHANGED <<mInputAvaliable, mInputBuffers, todo, hand, room>>
        BY <1>4 DEF EmptyBufferDone, Quiet, pool, client
    <2>2. b \in Buffer /\ b # NoBuffer
        BY BufferAssumption DEF Types
    <2>3. Types'
        BY <2>1, <2>2 DEF Types
    <2>4. Script'
        BY <2>1 DEF Script, Calling
    <2>5. ASSUME Placed PROVE Placed'
        <3>1. /\ Available' = Available /\ InHand' = InHand /\ OnItsWay = {}
              /\ \/ dropped' = dropped \cup {b} /\ OnItsWay' = {}
                 \/ dropped' = dropped /\ OnItsWay' = {b}
            BY <2>1, <2>2 DEF Available, InHand, OnItsWay
        <3>2. QED
            BY <2>1, <2>5, <3>1 DEF Placed
    <2>6. QED
        BY <2>1, <2>3, <2>4, <2>5, PlacedIsConserved, PlacedThen
<1>5. CASE ReturnBuffer
    <2>1. returning # NoBuffer /\ returning' = NoBuffer
          /\ mInputAvaliable' = Append(mInputAvaliable, returning)
          /\ UNCHANGED <<mInputBuffers, held, dropped, todo, hand, room>>
        BY <1>5 DEF ReturnBuffer, Return, lent
    <2>2. returning \in Buffer
        BY <2>1 DEF Types
    <2>3. Types'
        BY <2>1, <2>2, AppendOne DEF Types
    <2>4. Script'
        BY <2>1 DEF Script, Calling
    <2>5. ASSUME Placed PROVE Placed'
        <3>1. /\ InHand' = InHand /\ OnItsWay = {returning} /\ OnItsWay' = {}
              /\ returning \notin Available
            BY <2>1, <2>2, <2>5 DEF InHand, OnItsWay, Placed
        <3>2. Available' = Available \cup {returning} /\ IsInjective(mInputAvaliable')
            BY <2>1, <2>2, <2>5, <3>1, AppendOne DEF Available, Placed, Types
        <3>3. QED
            BY <2>1, <2>5, <3>1, <3>2 DEF Placed
    <2>6. QED
        BY <2>1, <2>3, <2>4, <2>5, PlacedIsConserved, PlacedThen
<1>6. CASE ForgetBuffers
    <2>1. mInputBuffers' = {} /\ mInputAvaliable' = << >> /\ Calling("forget") /\ Proceed
          /\ UNCHANGED <<held, dropped, returning, hand, room>>
        BY <1>6 DEF ForgetBuffers, lent, callback
    <2>2. Types'
        BY <2>1 DEF Types
    <2>3. Script'
        <3>1. ~Calling("get") /\ todo # << >> /\ hand = NoBuffer
            BY <2>1, EmptyHanded DEF Calling
        <3>2. QED
            BY <2>1, <3>1, ProceedScript
    <2>4. BuffersConserved'
        BY <2>1 DEF BuffersConserved
    <2>5. QED
        BY <2>2, <2>3, <2>4
<1>7. QED
    BY <1>1, <1>2, <1>3, <1>4, <1>5, <1>6 DEF MovesBuffer
-------------------------------------------------------------------------------
(* The steps that move none                                                 *)

StaysPut == UNCHANGED <<mInputAvaliable, mInputBuffers, hand, returning, held, dropped>>

LEMMA StepStays ==
    ASSUME CoreInv, StaysPut, room' \in Nat, Script'
    PROVE  CoreInv'
<1>1. Types'
    BY DEF CoreInv, Types, StaysPut
<1>2. BuffersConserved'
    BY DEF CoreInv, BuffersConserved, StaysPut, Available, InHand, OnItsWay
<1>3. QED
    BY <1>1, <1>2 DEF CoreInv

LEMMA StepMethod == CoreInv /\ (SeeRoom \/ Decode \/ SubmitEOS \/ Reset \/ Close) => CoreInv'
<1> SUFFICES ASSUME CoreInv, SeeRoom \/ Decode \/ SubmitEOS \/ Reset \/ Close PROVE CoreInv'
    OBVIOUS
<1>1. Script /\ room \in Nat
    BY DEF CoreInv, Types
<1>2. CASE SeeRoom
    <2>1. room' \in Nat /\ StaysPut /\ Script'
        BY <1>1, <1>2 DEF SeeRoom, StaysPut, Script, Calling, pool, lent, callback
    <2>2. QED
        BY <2>1, StepStays
<1>3. CASE Decode
    <2> DEFINE calls == [i \in 1 .. 4 * room |-> SendPart[1 + ((i - 1) % 4)]]
    <2>1. todo = << >> /\ todo' = calls /\ StaysPut /\ room' \in Nat
        BY <1>3 DEF Decode, Idle, Start, StaysPut, pool, lent, callback
    <2>2. /\ calls \in Seq(CallRecord) /\ Paired(calls)
          /\ calls # << >> => Head(calls).do # "empty"
        BY <1>1, DecodeScript
    <2> HIDE DEF calls
    <2>3. Script'
        BY <1>1, <2>1, <2>2, StartScript DEF StaysPut
    <2>4. QED
        BY <2>1, <2>3, StepStays
<1>4. CASE SubmitEOS
    <2>1. todo = << >> /\ todo' = SendBuffer /\ StaysPut /\ room' = room
        BY <1>4 DEF SubmitEOS, Idle, Start, StaysPut, pool, lent, callback
    <2>2. /\ Call("get") \in CallRecord /\ Call("get").do = "get"
          /\ Call("empty") \in CallRecord /\ Call("empty").do = "empty"
        BY CallTypes DEF CallNames
    <2>3. /\ SendBuffer \in Seq(CallRecord) /\ Paired(SendBuffer)
          /\ SendBuffer # << >> => Head(SendBuffer).do # "empty"
        BY <2>2 DEF SendBuffer, Paired
    <2>4. Script'
        BY <1>1, <2>1, <2>3, StartScript DEF StaysPut
    <2>5. QED
        BY <1>1, <2>1, <2>4, StepStays
<1>5. CASE Reset \/ Close
    <2>1. PICK calls \in {<<Flush("flushIn")>>, CloseCalls} : todo' = calls
        BY <1>5 DEF Reset, Close, Start
    <2>2. todo = << >> /\ StaysPut /\ room' = room
        BY <1>5 DEF Reset, Close, Idle, Start, StaysPut, pool, lent, callback
    <2>3. calls \in Seq(CallRecord) /\ Plain(calls)
        <3>1. <<Flush("flushIn")>> \in Seq(CallRecord) /\ Plain(<<Flush("flushIn")>>)
            BY CallTypes DEF Plain, Event, Command
        <3>2. QED
            BY <3>1, CloseScript
    <2>4. Paired(calls) /\ (calls # << >> => Head(calls).do # "empty")
        BY <2>3, PlainPaired
    <2>5. Script'
        BY <1>1, <2>1, <2>2, <2>3, <2>4, StartScript DEF StaysPut
    <2>6. QED
        BY <1>1, <2>2, <2>5, StepStays
<1>6. QED
    BY <1>2, <1>3, <1>4, <1>5

\* The client's calls other than those of StepMoves, each of which is made with empty
\* hands, and either the next call follows or the method gives up.
LEMMA StepCall ==
    ASSUME CoreInv, StaysPut, room' = room, NEW name, name # "empty", Calling(name),
           (name # "get" /\ Proceed) \/ GiveUp \/ (name \in {"flush", "setState"} /\ ThenAwait(On))
    PROVE  CoreInv'
<1>1. Script /\ room \in Nat
    BY DEF CoreInv, Types
<1>2. hand = NoBuffer /\ todo # << >> /\ Head(todo).do = name /\ hand' = hand
    BY <1>1, EmptyHanded DEF StaysPut
<1>3. Script'
    <2>1. CASE name # "get" /\ Proceed
        <3>1. ~Calling("get")
            BY <1>2, <2>1 DEF Calling
        <3>2. QED
            BY <1>1, <1>2, <2>1, <3>1, ProceedScript
    <2>2. CASE GiveUp
        BY <1>2, <2>2, GiveUpScript
    <2>3. CASE name \in {"flush", "setState"} /\ ThenAwait(On)
        BY <1>1, <1>2, <2>3, ThenAwaitScript
    <2>4. QED
        BY <2>1, <2>2, <2>3
<1>4. QED
    BY <1>1, <1>3, StepStays
\* Only these calls wait.
Waiting == waiting # "no" => todo # << >> /\ Head(todo).do \in {"get", "await", "inputDone"}

LEMMA StepWaiting == Waiting /\ [Next]_vars => Waiting'
<1> SUFFICES ASSUME Waiting, [Next]_vars PROVE Waiting'
    OBVIOUS
<1> USE DEF Waiting, Calling, pool, flags, client, lent, component, callback
<1>1. CASE ClientContinues
    <2>1. CASE GetBuffer \/ GetNothing \/ AwaitAnswered \/ AwaitNothing \/ InputDone
        BY <2>1 DEF GetBuffer, GetNothing, AwaitAnswered, AwaitNothing, InputDone
    <2>2. CASE EmptyThisBuffer \/ EmptyRejected
        BY <2>2 DEF EmptyThisBuffer, EmptyRejected
    <2>3. CASE FlushSend \/ SetStateSend \/ DisableSend
        BY <2>3 DEF FlushSend, SetStateSend, DisableSend
    <2>4. CASE Exit \/ FreeBuffers \/ ForgetBuffers \/ FreeHandle
        BY <2>4 DEF Exit, FreeBuffers, ForgetBuffers, FreeHandle
    <2>5. CASE Hold \/ Block
        BY <2>5 DEF Hold, Block, MustWait
    <2>6. QED
        BY <1>1, <2>1, <2>2, <2>3, <2>4, <2>5 DEF ClientContinues
<1>2. CASE SeeRoom \/ Decode \/ SubmitEOS \/ Reset \/ Close
    BY <1>2 DEF SeeRoom, Decode, SubmitEOS, Reset, Close, Idle, Start
<1>3. CASE SpuriousWakeup \/ Expire
    BY <1>3 DEF SpuriousWakeup, Expire
<1>4. CASE EmptyBufferDone \/ HandleError
    BY <1>4 DEF EmptyBufferDone, HandleError
<1>5. CASE ReturnBuffer
    BY <1>5 DEF ReturnBuffer, WakeInput
<1>6. CASE Complete \/ SignalChange \/ RaiseError
    BY <1>6 DEF Complete, SignalChange, RaiseError, AddEvent, WakeEvent
<1>7. CASE UNCHANGED vars
    BY <1>7 DEF vars
<1>8. QED
    BY <1>1, <1>2, <1>3, <1>4, <1>5, <1>6, <1>7 DEF Next, Client, Component, Terminated

LEMMA StepClient ==
    CoreInv /\ Waiting /\ (ClientContinues \/ SpuriousWakeup \/ Expire) /\ ~MovesBuffer => CoreInv'
<1> SUFFICES ASSUME CoreInv, Waiting, ClientContinues \/ SpuriousWakeup \/ Expire, ~MovesBuffer
             PROVE  CoreInv'
    OBVIOUS
<1> USE DEF StaysPut, pool, lent, callback, client, component, flags
<1>1. CASE GetNothing
    <2>1. Calling("get") /\ StaysPut /\ room' = room /\ GiveUp
        BY <1>1 DEF GetNothing
    <2>2. QED
        BY <2>1, StepCall
<1>2. CASE FlushSend
    <2>1. /\ Calling("flush") /\ StaysPut /\ room' = room
          /\ Proceed \/ ThenAwait(On)
        BY <1>2 DEF FlushSend
    <2>2. QED
        BY <2>1, StepCall
<1>3. CASE SetStateSend
    <2>1. /\ Calling("setState") /\ StaysPut /\ room' = room
          /\ Proceed \/ ThenAwait(On)
        BY <1>3 DEF SetStateSend
    <2>2. QED
        BY <2>1, StepCall
<1>4. CASE DisableSend
    <2>1. Calling("disable") /\ StaysPut /\ room' = room /\ Proceed
        BY <1>4 DEF DisableSend
    <2>2. QED
        BY <2>1, StepCall
<1>5. CASE AwaitAnswered
    <2>1. Calling("await") /\ StaysPut /\ room' = room /\ (Proceed \/ GiveUp)
        BY <1>5 DEF AwaitAnswered, AwaitReturns
    <2>2. QED
        BY <2>1, StepCall
<1>6. CASE AwaitNothing
    <2>1. Calling("await") /\ StaysPut /\ room' = room /\ (Proceed \/ GiveUp)
        BY <1>6 DEF AwaitNothing, AwaitReturns
    <2>2. QED
        BY <2>1, StepCall
<1>7. CASE InputDone
    <2>1. Calling("inputDone") /\ StaysPut /\ room' = room /\ Proceed
        BY <1>7 DEF InputDone
    <2>2. QED
        BY <2>1, StepCall
<1>8. CASE Exit
    <2>1. Calling("exit") /\ StaysPut /\ room' = room /\ Proceed
        BY <1>8 DEF Exit
    <2>2. QED
        BY <2>1, StepCall
<1>9. CASE FreeBuffers
    <2>1. Calling("free") /\ StaysPut /\ room' = room /\ Proceed
        BY <1>9 DEF FreeBuffers
    <2>2. QED
        BY <2>1, StepCall
<1>10. CASE FreeHandle
    <2>1. Calling("freeHandle") /\ StaysPut /\ room' = room /\ Proceed
        BY <1>10 DEF FreeHandle
    <2>2. QED
        BY <2>1, StepCall
<1>11. CASE Hold \/ Block \/ SpuriousWakeup
    <2>1. StaysPut /\ room' = room /\ todo' = todo
        BY <1>11 DEF Hold, Block, SpuriousWakeup
    <2>2. QED
        BY <2>1, StepStays DEF CoreInv, Types, Script, Calling
<1>12. CASE Expire
    <2>1. StaysPut /\ room' = room /\ (IF Calling("get") THEN GiveUp ELSE Proceed)
        BY <1>12 DEF Expire, Expiry
    <2>2. PICK name : /\ name # "empty" /\ Calling(name)
                      /\ (name # "get" /\ Proceed) \/ GiveUp
        <3>1. PICK name : /\ name # "empty" /\ Calling(name)
            BY <1>12 DEF Expire, Calling, Waiting
        <3>2. QED
            BY <2>1, <3>1 DEF Calling
    <2>3. QED
        BY <2>1, <2>2, StepCall
<1>13. QED
    BY <1>1, <1>2, <1>3, <1>4, <1>5, <1>6, <1>7, <1>8, <1>9, <1>10, <1>11, <1>12
    DEF ClientContinues, MovesBuffer

LEMMA StepComponent ==
    CoreInv /\ (Complete \/ SignalChange \/ RaiseError \/ HandleError) => CoreInv'
<1> SUFFICES ASSUME CoreInv, Complete \/ SignalChange \/ RaiseError \/ HandleError PROVE CoreInv'
    OBVIOUS
<1>1. StaysPut /\ room' = room /\ todo' = todo
    BY DEF Complete, SignalChange, RaiseError, HandleError, StaysPut, pool, lent, callback
<1>2. QED
    BY <1>1, StepStays DEF CoreInv, Types, Script, Calling, StaysPut

LEMMA StepNothing == CoreInv /\ UNCHANGED vars => CoreInv'
<1> SUFFICES ASSUME CoreInv, UNCHANGED vars PROVE CoreInv'
    OBVIOUS
<1>1. StaysPut /\ room' = room /\ todo' = todo
    BY DEF vars, StaysPut, pool, client, lent, callback
<1>2. QED
    BY <1>1, StepStays DEF CoreInv, Types, Script, Calling, StaysPut

LEMMA StepCore == CoreInv /\ Waiting /\ [Next]_vars => CoreInv'
<1> SUFFICES ASSUME CoreInv, Waiting, [Next]_vars PROVE CoreInv'
    OBVIOUS
<1>1. CASE MovesBuffer
    BY <1>1, StepMoves
<1>2. CASE (SeeRoom \/ Decode \/ SubmitEOS \/ Reset \/ Close)
    BY <1>2, StepMethod
<1>3. CASE (ClientContinues \/ SpuriousWakeup \/ Expire) /\ ~MovesBuffer
    BY <1>3, StepClient
<1>4. CASE Complete \/ SignalChange \/ RaiseError \/ HandleError
    BY <1>4, StepComponent
<1>5. CASE UNCHANGED vars
    BY <1>5, StepNothing
<1>6. QED
    BY <1>1, <1>2, <1>3, <1>4, <1>5 DEF Next, Client, Component, Terminated, MovesBuffer

\* Whatever calls fail, waits expire and errors are raised, each input buffer is in one place
\* at a time until the pool is forgotten (cOmxCore::getInputBuffer, emptyThisBuffer,
\* decoderEmptyBufferDone, freeInputBuffers).
THEOREM NoBufferLost == Spec => []BuffersConserved
<1>1. CoreInv => BuffersConserved
    BY DEF CoreInv
<1>2. Init => Waiting
    BY DEF Init, Waiting
<1>3. QED
    BY <1>1, <1>2, InitCore, StepCore, StepWaiting, PTL DEF Spec

-------------------------------------------------------------------------------
(* The queue of events *)

LEMMA LeastOf == ASSUME NEW S \in SUBSET Nat, S # {} PROVE Min(S) \in S
<1>1. PICK x \in S : \A y \in S : ~(<<y, x>> \in OpToRel(<, Nat))
    BY NatLessThanWellFounded, WFMin
<1>2. ASSUME NEW y \in S PROVE x <= y
    <2>1. x \in Nat /\ y \in Nat
        OBVIOUS
    <2>2. ~(y < x)
        BY <1>1, <2>1 DEF OpToRel
    <2>3. QED
        BY <2>1, <2>2
<1>3. QED
    BY <1>1, <1>2 DEF Min

LEMMA RemovedEvent ==
    ASSUME NEW s \in Seq(Event), IsInjective(s), NEW i \in DOMAIN s
    PROVE  /\ RemoveAt(s, i) \in Seq(Event) /\ IsInjective(RemoveAt(s, i))
           /\ ToSet(RemoveAt(s, i)) = ToSet(s) \ {s[i]}
<1> DEFINE t == RemoveAt(s, i)
           From(j) == IF j < i THEN j ELSE j + 1
<1>1. /\ Len(s) \in Nat \ {0} /\ DOMAIN s = 1 .. Len(s) /\ i \in 1 .. Len(s)
    OBVIOUS
<1>2. /\ t \in Seq(Event) /\ Len(t) = Len(s) - 1
      /\ \A j \in 1 .. Len(s) - 1 : t[j] = s[From(j)]
    <2> DEFINE u == SubSeq(s, 1, i - 1)  v == SubSeq(s, i + 1, Len(s))
    <2>1. /\ u \in Seq(Event) /\ Len(u) = i - 1 /\ \A j \in 1 .. i - 1 : u[j] = s[j]
        BY <1>1
    <2>2. /\ v \in Seq(Event) /\ Len(v) = Len(s) - i
          /\ \A j \in 1 .. Len(s) - i : v[j] = s[j + i]
        BY <1>1
    <2>3. t = u \o v
        BY DEF RemoveAt
    <2> HIDE DEF t, u, v
    <2>4. /\ t \in Seq(Event) /\ Len(t) = Len(u) + Len(v)
          /\ \A j \in 1 .. Len(u) + Len(v) : t[j] = IF j <= Len(u) THEN u[j] ELSE v[j - Len(u)]
        <3>1. u \in Seq(Event) /\ v \in Seq(Event)
            BY <2>1, <2>2
        <3>2. QED
            BY <2>3, <3>1, ConcatProperties
    <2>5. ASSUME NEW j \in 1 .. Len(s) - 1 PROVE t[j] = s[From(j)]
        <3>1. CASE j < i
            <4>1. j \in 1 .. i - 1 /\ j <= Len(u) /\ j \in 1 .. Len(u) + Len(v)
                BY <1>1, <2>1, <2>2, <3>1
            <4>2. QED
                BY <2>1, <2>4, <3>1, <4>1
        <3>2. CASE ~(j < i)
            <4>1. j - (i - 1) \in 1 .. Len(s) - i /\ (j - (i - 1)) + i = j + 1
                  /\ ~(j <= Len(u)) /\ j \in 1 .. Len(u) + Len(v)
                BY <1>1, <2>1, <2>2, <3>2
            <4>2. t[j] = v[j - (i - 1)]
                BY <2>1, <2>4, <4>1
            <4>3. v[j - (i - 1)] = s[(j - (i - 1)) + i]
                BY <2>2, <4>1
            <4>4. QED
                BY <3>2, <4>1, <4>2, <4>3
        <3>3. QED
            BY <3>1, <3>2
    <2>6. QED
        BY <1>1, <2>1, <2>2, <2>4, <2>5
<1>3. DOMAIN t = 1 .. Len(s) - 1
    BY <1>1, <1>2
<1> HIDE DEF t
<1>4. /\ \A j \in 1 .. Len(s) - 1 : From(j) \in 1 .. Len(s) /\ From(j) # i
      /\ \A j, k \in 1 .. Len(s) - 1 : From(j) = From(k) => j = k
      /\ \A k \in 1 .. Len(s) : k # i => \E j \in 1 .. Len(s) - 1 : From(j) = k
    <2>1. ASSUME NEW k \in 1 .. Len(s), k # i
          PROVE  \E j \in 1 .. Len(s) - 1 : From(j) = k
        <3>1. CASE k < i
            <4>1. k \in 1 .. Len(s) - 1 /\ From(k) = k
                BY <1>1, <3>1
            <4>2. QED
                BY <4>1
        <3>2. CASE k > i
            <4>1. k - 1 \in 1 .. Len(s) - 1 /\ From(k - 1) = k
                BY <1>1, <3>2
            <4>2. QED
                BY <4>1
        <3>3. QED
            BY <1>1, <2>1, <3>1, <3>2
    <2>2. QED
        BY <1>1, <2>1
<1> HIDE DEF From
<1>5. \A j, k \in 1 .. Len(s) : s[j] = s[k] => j = k
    BY <1>1 DEF IsInjective
<1>6. IsInjective(t)
    <2>1. ASSUME NEW j \in 1 .. Len(s) - 1, NEW k \in 1 .. Len(s) - 1, t[j] = t[k]
          PROVE  j = k
        <3>1. From(j) \in 1 .. Len(s) /\ From(k) \in 1 .. Len(s) /\ s[From(j)] = s[From(k)]
            BY <1>2, <1>4, <2>1
        <3>2. From(j) = From(k)
            BY <1>5, <3>1
        <3>3. QED
            BY <1>4, <3>2
    <2>2. QED
        BY <1>3, <2>1 DEF IsInjective
<1>7. ToSet(t) = ToSet(s) \ {s[i]}
    <2>1. ASSUME NEW x \in ToSet(t) PROVE x \in ToSet(s) \ {s[i]}
        <3>1. PICK j \in 1 .. Len(s) - 1 : x = t[j]
            BY <1>3, <2>1 DEF ToSet
        <3>2. From(j) \in 1 .. Len(s) /\ x = s[From(j)] /\ From(j) # i
            BY <1>2, <1>4, <3>1
        <3>3. QED
            BY <1>1, <1>5, <3>2 DEF ToSet
    <2>2. ASSUME NEW x \in ToSet(s), x # s[i] PROVE x \in ToSet(t)
        <3>1. PICK k \in 1 .. Len(s) : x = s[k]
            BY <1>1, <2>2 DEF ToSet
        <3>2. PICK j \in 1 .. Len(s) - 1 : From(j) = k
            BY <1>4, <2>2, <3>1
        <3>3. QED
            BY <1>2, <1>3, <3>1, <3>2 DEF ToSet
    <2>3. QED
        BY <2>1, <2>2
<1>8. QED
    BY <1>2, <1>6, <1>7 DEF t

\* addEvent: the event is in the queue afterwards, once, and no other has gone.
LEMMA AddedEvent ==
    ASSUME mEvents \in Seq(Event), IsInjective(mEvents), NEW e \in Event, Added(e)
    PROVE  /\ mEvents' \in Seq(Event) /\ IsInjective(mEvents')
           /\ ToSet(mEvents') = ToSet(mEvents) \cup {e}
<1> DEFINE s == RemoveFirst(mEvents, e)
<1>1. s \in Seq(Event) /\ IsInjective(s) /\ ToSet(s) = ToSet(mEvents) \ {e}
    <2>1. CASE \E i \in 1 .. Len(mEvents) : mEvents[i] = e
        <3> DEFINE I == {i \in 1 .. Len(mEvents) : mEvents[i] = e}
        <3>1. s = RemoveAt(mEvents, Min(I))
            BY <2>1 DEF RemoveFirst, SelectInSeq
        <3>2. I \in SUBSET Nat /\ I # {}
            BY <2>1
        <3>3. Min(I) \in I
            <4> HIDE DEF I
            <4>1. QED
                BY <3>2, LeastOf
        <3>4. Min(I) \in DOMAIN mEvents /\ mEvents[Min(I)] = e
            BY <3>3
        <3> HIDE DEF I, s
        <3>5. QED
            BY <3>1, <3>4, RemovedEvent
    <2>2. CASE ~ \E i \in 1 .. Len(mEvents) : mEvents[i] = e
        <3>1. s = mEvents
            BY <2>2 DEF RemoveFirst
        <3>2. e \notin ToSet(mEvents)
            BY <2>2 DEF ToSet
        <3>3. QED
            BY <3>1, <3>2
    <2>3. QED
        BY <2>1, <2>2
<1>2. mEvents' = Append(s, e)
    BY DEF Added
<1> HIDE DEF s
<1>3. mEvents' \in Seq(Event) /\ ToSet(mEvents') = ToSet(s) \cup {e} /\ IsInjective(mEvents')
    BY <1>1, <1>2, AppendOne
<1>4. QED
    BY <1>1, <1>3

\* waitCommand, waitEvent: the first of the answers is taken out of the queue.
LEMMA FirstAnswer ==
    ASSUME mEvents \in Seq(Event), IsInjective(mEvents), NEW e, Answers(e) # {}
    PROVE  /\ Min(Answers(e)) \in DOMAIN mEvents
           /\ mEvents[Min(Answers(e))] \in ErrorEvent \cup {e}
           /\ RemoveAt(mEvents, Min(Answers(e))) \in Seq(Event)
           /\ IsInjective(RemoveAt(mEvents, Min(Answers(e))))
           /\ ToSet(RemoveAt(mEvents, Min(Answers(e)))) = ToSet(mEvents) \ {mEvents[Min(Answers(e))]}
<1>1. Answers(e) \in SUBSET Nat
    BY DEF Answers
<1>2. Min(Answers(e)) \in Answers(e)
    BY <1>1, LeastOf
<1>3. Min(Answers(e)) \in DOMAIN mEvents /\ mEvents[Min(Answers(e))] \in ErrorEvent \cup {e}
    BY <1>2 DEF Answers
<1>4. QED
    BY <1>3, RemovedEvent

-------------------------------------------------------------------------------
(* The calls of close, one by one                                           *)

LEMMA Joined ==
    ASSUME NEW s \in Seq(CallRecord), NEW t \in Seq(CallRecord),
           NEW m \in Nat, NEW n \in Nat, Len(s) = m, Len(t) = n
    PROVE  /\ s \o t \in Seq(CallRecord) /\ Len(s \o t) = m + n
           /\ \A i \in 1 .. m + n : (s \o t)[i] = IF i <= m THEN s[i] ELSE t[i - m]
BY ConcatProperties

LEMMA CloseIs ==
    /\ CloseCalls \in Seq(CallRecord) /\ Len(CloseCalls) = 12
    /\ CloseCalls[1] = Flush("flushIn") /\ CloseCalls[2] = Call("exit")
    /\ CloseCalls[3] = Flush("flushIn") /\ CloseCalls[4] = Flush("flushOut")
    /\ CloseCalls[5] = Call("disable") /\ CloseCalls[6] = Call("free")
    /\ CloseCalls[7] = Await("disable") /\ CloseCalls[8] = Call("inputDone")
    /\ CloseCalls[9] = Call("forget") /\ CloseCalls[10] = SetState("idle")
    /\ CloseCalls[11] = SetState("loaded") /\ CloseCalls[12] = Call("freeHandle")
<1> DEFINE flush == <<Flush("flushIn")>>
           start == <<Call("exit"), Flush("flushIn"), Flush("flushOut")>>
           free == <<Call("disable"), Call("free"), Await("disable"), Call("inputDone"), Call("forget")>>
           down == <<SetState("idle"), SetState("loaded"), Call("freeHandle")>>
<1>1. /\ start \in Seq(CallRecord) /\ Len(start) = 3
      /\ start[1] = Call("exit") /\ start[2] = Flush("flushIn") /\ start[3] = Flush("flushOut")
    BY CallTypes DEF CallNames, Event, Command
<1>2. /\ free \in Seq(CallRecord) /\ Len(free) = 5
      /\ free[1] = Call("disable") /\ free[2] = Call("free") /\ free[3] = Await("disable")
      /\ free[4] = Call("inputDone") /\ free[5] = Call("forget")
    BY CallTypes DEF CallNames, Event, Command
<1>3. /\ down \in Seq(CallRecord) /\ Len(down) = 3
      /\ down[1] = SetState("idle") /\ down[2] = SetState("loaded") /\ down[3] = Call("freeHandle")
    BY CallTypes DEF CallNames, Event, Command
<1>4. flush \in Seq(CallRecord) /\ Len(flush) = 1 /\ flush[1] = Flush("flushIn")
    BY CallTypes DEF Event, Command
<1>5. CloseCalls = flush \o ((start \o free) \o down)
    BY DEF CloseCalls, DeInit, FreeInputBuffers
<1> HIDE DEF flush, start, free, down
<1> DEFINE a == start \o free  b == a \o down  c == flush \o b
<1>6. /\ a \in Seq(CallRecord) /\ Len(a) = 8
      /\ \A i \in 1 .. 8 : a[i] = IF i <= 3 THEN start[i] ELSE free[i - 3]
    <2>1. /\ start \o free \in Seq(CallRecord) /\ Len(start \o free) = 3 + 5
          /\ \A i \in 1 .. 3 + 5 : (start \o free)[i] = IF i <= 3 THEN start[i] ELSE free[i - 3]
        <3>1. 3 \in Nat /\ 5 \in Nat
            OBVIOUS
        <3>2. QED
            BY <1>1, <1>2, <3>1, Joined
    <2>2. 3 + 5 = 8 /\ 1 .. 3 + 5 = 1 .. 8
        OBVIOUS
    <2>3. QED
        BY <2>1, <2>2
<1> HIDE DEF a
<1>7. /\ b \in Seq(CallRecord) /\ Len(b) = 11
      /\ \A i \in 1 .. 11 : b[i] = IF i <= 8 THEN a[i] ELSE down[i - 8]
    <2>1. /\ a \o down \in Seq(CallRecord) /\ Len(a \o down) = 8 + 3
          /\ \A i \in 1 .. 8 + 3 : (a \o down)[i] = IF i <= 8 THEN a[i] ELSE down[i - 8]
        <3>1. 8 \in Nat /\ 3 \in Nat
            OBVIOUS
        <3>2. QED
            BY <1>3, <1>6, <3>1, Joined
    <2>2. 8 + 3 = 11 /\ 1 .. 8 + 3 = 1 .. 11
        OBVIOUS
    <2>3. QED
        BY <2>1, <2>2
<1> HIDE DEF b
<1>8. /\ c \in Seq(CallRecord) /\ Len(c) = 12
      /\ \A i \in 1 .. 12 : c[i] = IF i <= 1 THEN flush[i] ELSE b[i - 1]
    <2>1. /\ flush \o b \in Seq(CallRecord) /\ Len(flush \o b) = 1 + 11
          /\ \A i \in 1 .. 1 + 11 : (flush \o b)[i] = IF i <= 1 THEN flush[i] ELSE b[i - 1]
        <3>1. 1 \in Nat /\ 11 \in Nat
            OBVIOUS
        <3>2. QED
            BY <1>4, <1>7, <3>1, Joined
    <2>2. 1 + 11 = 12 /\ 1 .. 1 + 11 = 1 .. 12
        OBVIOUS
    <2>3. QED
        BY <2>1, <2>2
<1>9. CloseCalls = c
    BY <1>5 DEF a, b
<1> HIDE DEF c
<1>10. /\ a[1] = Call("exit") /\ a[2] = Flush("flushIn") /\ a[3] = Flush("flushOut")
       /\ a[4] = Call("disable") /\ a[5] = Call("free") /\ a[6] = Await("disable")
       /\ a[7] = Call("inputDone") /\ a[8] = Call("forget")
    BY <1>1, <1>2, <1>6
<1>11. /\ \A i \in 1 .. 8 : b[i] = a[i]
       /\ b[9] = SetState("idle") /\ b[10] = SetState("loaded") /\ b[11] = Call("freeHandle")
    BY <1>3, <1>7
<1>12. c[1] = Flush("flushIn") /\ \A i \in 1 .. 11 : c[i + 1] = b[i]
    BY <1>4, <1>8
<1>13. /\ c[2] = b[1] /\ c[3] = b[2] /\ c[4] = b[3] /\ c[5] = b[4] /\ c[6] = b[5] /\ c[7] = b[6]
       /\ c[8] = b[7] /\ c[9] = b[8] /\ c[10] = b[9] /\ c[11] = b[10] /\ c[12] = b[11]
    BY <1>12
<1>14. QED
    BY <1>8, <1>9, <1>10, <1>11, <1>12, <1>13

\* What is left of close from its k-th call on.
Rest(k) == SubSeq(CloseCalls, k, 12)

LEMMA RestParts ==
    /\ CloseCalls = Rest(1) /\ Rest(13) = << >>
    /\ \A k \in 1 .. 12 : /\ Rest(k) # << >> /\ Head(Rest(k)) = CloseCalls[k]
                          /\ Tail(Rest(k)) = Rest(k + 1)
    /\ \A k \in 1 .. 13 : Rest(k) \in Seq(CallRecord)
    /\ \A k \in 1 .. 13 : \A x : x \in ToSet(Rest(k)) <=> \E i \in k .. 12 : x = CloseCalls[i]
<1>1. CloseCalls \in Seq(CallRecord) /\ Len(CloseCalls) = 12
    BY CloseIs
<1>2. \A k \in 1 .. 13 : /\ Rest(k) \in Seq(CallRecord) /\ Len(Rest(k)) = 13 - k
                         /\ \A i \in 1 .. 13 - k : Rest(k)[i] = CloseCalls[k + i - 1]
    <2>1. ASSUME NEW k \in 1 .. 13
          PROVE  /\ SubSeq(CloseCalls, k, 12) \in Seq(CallRecord)
                 /\ Len(SubSeq(CloseCalls, k, 12)) = 13 - k
                 /\ \A i \in 1 .. 13 - k : SubSeq(CloseCalls, k, 12)[i] = CloseCalls[k + i - 1]
        <3>1. \A i \in k .. 12 : CloseCalls[i] \in CallRecord
            <4>1. \A i \in k .. 12 : i \in 1 .. 12
                OBVIOUS
            <4>2. QED
                BY <1>1, <4>1
        <3>2. /\ k \in Int /\ 12 \in Int /\ 12 - k + 1 = 13 - k
              /\ (IF k <= 12 THEN 12 - k + 1 ELSE 0) = 13 - k
            OBVIOUS
        <3>3. /\ SubSeq(CloseCalls, k, 12) \in Seq(CallRecord)
              /\ Len(SubSeq(CloseCalls, k, 12)) = IF k <= 12 THEN 12 - k + 1 ELSE 0
              /\ \A i \in 1 .. 12 - k + 1 : SubSeq(CloseCalls, k, 12)[i] = CloseCalls[k + i - 1]
            BY <3>1, <3>2, SubSeqProperties
        <3>4. QED
            BY <3>2, <3>3
    <2>2. QED
        BY <2>1 DEF Rest
<1>3. CloseCalls = Rest(1) /\ Rest(13) = << >>
    <2>1. /\ Rest(1) \in Seq(CallRecord) /\ Len(Rest(1)) = 12
          /\ \A i \in 1 .. 12 : Rest(1)[i] = CloseCalls[i]
        <3>1. /\ Rest(1) \in Seq(CallRecord) /\ Len(Rest(1)) = 13 - 1
              /\ \A i \in 1 .. 13 - 1 : Rest(1)[i] = CloseCalls[1 + i - 1]
            <4>1. 1 \in 1 .. 13
                OBVIOUS
            <4>2. QED
                BY <1>2, <4>1
        <3>2. 13 - 1 = 12 /\ \A i \in 1 .. 12 : 1 + i - 1 = i
            OBVIOUS
        <3>3. QED
            BY <3>1, <3>2
    <2>2. CloseCalls = Rest(1)
        BY <1>1, <2>1, SeqEqual
    <2>3. Rest(13) \in Seq(CallRecord) /\ Len(Rest(13)) = 0
        BY <1>2
    <2>4. QED
        BY <2>2, <2>3, EmptySeq
<1>4. ASSUME NEW k \in 1 .. 12
      PROVE  Rest(k) # << >> /\ Head(Rest(k)) = CloseCalls[k] /\ Tail(Rest(k)) = Rest(k + 1)
    <2>1. /\ Rest(k) \in Seq(CallRecord) /\ Len(Rest(k)) = 13 - k
          /\ \A i \in 1 .. 13 - k : Rest(k)[i] = CloseCalls[k + i - 1]
        <3>1. k \in 1 .. 13
            OBVIOUS
        <3>2. QED
            BY <1>2, <3>1
    <2>2. /\ Rest(k + 1) \in Seq(CallRecord) /\ Len(Rest(k + 1)) = 12 - k
          /\ \A i \in 1 .. 12 - k : Rest(k + 1)[i] = CloseCalls[(k + 1) + i - 1]
        <3>1. k + 1 \in 1 .. 13 /\ 13 - (k + 1) = 12 - k
            OBVIOUS
        <3>2. QED
            BY <1>2, <3>1
    <2>3. 1 \in 1 .. 13 - k /\ k + 1 - 1 = k
        OBVIOUS
    <2>4. Rest(k) # << >> /\ Head(Rest(k)) = CloseCalls[k]
        BY <2>1, <2>3
    <2>5. /\ Tail(Rest(k)) \in Seq(CallRecord) /\ Len(Tail(Rest(k))) = 12 - k
          /\ \A i \in 1 .. 12 - k : Tail(Rest(k))[i] = CloseCalls[k + (i + 1) - 1]
        BY <2>1, <2>4
    <2>6. ASSUME NEW i \in 1 .. 12 - k PROVE Tail(Rest(k))[i] = Rest(k + 1)[i]
        <3>1. k + (i + 1) - 1 = (k + 1) + i - 1
            OBVIOUS
        <3>2. Tail(Rest(k))[i] = CloseCalls[k + (i + 1) - 1]
            BY <2>5
        <3>3. Rest(k + 1)[i] = CloseCalls[(k + 1) + i - 1]
            BY <2>2
        <3>4. QED
            BY <3>1, <3>2, <3>3
    <2>7. Tail(Rest(k)) = Rest(k + 1)
        <3>1. /\ Len(Tail(Rest(k))) = Len(Rest(k + 1))
              /\ \A i \in 1 .. Len(Tail(Rest(k))) : Tail(Rest(k))[i] = Rest(k + 1)[i]
            BY <2>2, <2>5, <2>6
        <3>2. QED
            BY <2>2, <2>5, <3>1, SeqEqual
    <2>8. QED
        BY <2>4, <2>7
<1>5. ASSUME NEW k \in 1 .. 13, NEW x
      PROVE  x \in ToSet(Rest(k)) <=> \E i \in k .. 12 : x = CloseCalls[i]
    <2>1. /\ DOMAIN Rest(k) = 1 .. 13 - k
          /\ \A i \in 1 .. 13 - k : Rest(k)[i] = CloseCalls[k + i - 1]
        <3>1. QED
            <4>1. /\ Rest(k) \in Seq(CallRecord) /\ Len(Rest(k)) = 13 - k
                  /\ \A i \in 1 .. 13 - k : Rest(k)[i] = CloseCalls[k + i - 1]
                BY <1>2
            <4>2. DOMAIN Rest(k) = 1 .. Len(Rest(k))
                BY <4>1
            <4>3. QED
                BY <4>1, <4>2
    <2>2. ASSUME NEW i \in 1 .. 13 - k PROVE k + i - 1 \in k .. 12
        OBVIOUS
    <2>3. ASSUME NEW i \in k .. 12 PROVE (i - k) + 1 \in 1 .. 13 - k /\ k + ((i - k) + 1) - 1 = i
        OBVIOUS
    <2>4. ASSUME x \in ToSet(Rest(k)) PROVE \E i \in k .. 12 : x = CloseCalls[i]
        <3>1. PICK i \in 1 .. 13 - k : x = Rest(k)[i]
            BY <2>1, <2>4 DEF ToSet
        <3>2. QED
            BY <2>1, <2>2, <3>1
    <2>5. ASSUME NEW i \in k .. 12, x = CloseCalls[i] PROVE x \in ToSet(Rest(k))
        <3>1. Rest(k)[(i - k) + 1] = CloseCalls[i]
            BY <2>1, <2>3
        <3>2. QED
            BY <2>1, <2>3, <2>5, <3>1 DEF ToSet
    <2>6. QED
        BY <2>4, <2>5
<1>6. QED
    BY <1>2, <1>3, <1>4, <1>5

-------------------------------------------------------------------------------
(* Types                                                                    *)

\* A command is sent for a flush or a state only.
Commanding(s) == \A i \in DOMAIN s : s[i].do \in {"flush", "setState"} => s[i].on \in Command
EventTypes ==
    /\ mEvents \in Seq(Event) /\ IsInjective(mEvents)
    /\ commands \in Seq(Command) /\ state \in {"executing", "idle", "loaded"}
    /\ Commanding(todo)
OtherTypes ==
    /\ mResourceError \in BOOLEAN /\ mFlushInput \in BOOLEAN /\ mExit \in BOOLEAN
    /\ mHandle \in {"open", "freed"}
    /\ waiting \in {"no", "holding", "blocked"} /\ room \in 0 .. MaxFrame
    /\ freed \subseteq Buffer /\ raising \in ErrorEvent \cup {"none"} /\ calm \in BOOLEAN

LEMMA CommandingTail ==
    ASSUME NEW s \in Seq(CallRecord), Commanding(s), s # << >>
    PROVE  Commanding(Tail(s))
<1>1. /\ Len(s) \in Nat /\ DOMAIN s = 1 .. Len(s)
      /\ DOMAIN Tail(s) = 1 .. Len(s) - 1 /\ \A i \in 1 .. Len(s) - 1 : Tail(s)[i] = s[i + 1]
    OBVIOUS
<1>2. \A i \in 1 .. Len(s) - 1 : i + 1 \in 1 .. Len(s)
    BY <1>1
<1>3. QED
    BY <1>1, <1>2 DEF Commanding

LEMMA CommandingAwait ==
    ASSUME NEW s \in Seq(CallRecord), Commanding(s), NEW e \in Event
    PROVE  Commanding(<<Await(e)>> \o s)
<1> DEFINE a == <<Await(e)>>
<1>1. a \in Seq(CallRecord) /\ Len(a) = 1 /\ a[1].do = "await"
    BY CallTypes
<1> HIDE DEF a
<1>2. /\ a \o s \in Seq(CallRecord) /\ Len(a \o s) = 1 + Len(s)
      /\ \A i \in 1 .. 1 + Len(s) : (a \o s)[i] = IF i <= 1 THEN a[i] ELSE s[i - 1]
    <2>1. 1 \in Nat /\ Len(s) \in Nat
        OBVIOUS
    <2>2. QED
        BY <1>1, <2>1, Joined
<1>3. /\ Len(s) \in Nat /\ DOMAIN s = 1 .. Len(s) /\ DOMAIN (a \o s) = 1 .. 1 + Len(s)
    BY <1>2
<1>4. ASSUME NEW i \in 1 .. 1 + Len(s), (a \o s)[i].do \in {"flush", "setState"}
      PROVE  (a \o s)[i].on \in Command
    <2>1. CASE i = 1
        BY <1>1, <1>2, <1>4, <2>1
    <2>2. CASE i # 1
        <3>1. i - 1 \in 1 .. Len(s) /\ (a \o s)[i] = s[i - 1]
            BY <1>2, <1>3, <2>2
        <3>2. QED
            BY <1>3, <1>4, <3>1 DEF Commanding
    <2>3. QED
        BY <2>1, <2>2
<1>5. QED
    BY <1>3, <1>4 DEF Commanding, a

LEMMA CommandingMethods ==
    /\ \A n \in Nat : Commanding([i \in 1 .. 4 * n |-> SendPart[1 + ((i - 1) % 4)]])
    /\ Commanding(SendBuffer) /\ Commanding(<<Flush("flushIn")>>) /\ Commanding(CloseCalls)
<1>1. \A name \in CallNames : Call(name).do = name
    BY CallTypes
<1>2. ASSUME NEW n \in Nat PROVE Commanding([i \in 1 .. 4 * n |-> SendPart[1 + ((i - 1) % 4)]])
    <2>1. \A k \in 1 .. 4 : SendPart[k].do \notin {"flush", "setState"}
        BY <1>1 DEF SendPart, CallNames, Await
    <2>2. \A i \in 1 .. 4 * n : 1 + ((i - 1) % 4) \in 1 .. 4
        OBVIOUS
    <2>3. QED
        BY <2>1, <2>2 DEF Commanding
<1>3. Commanding(SendBuffer) /\ Commanding(<<Flush("flushIn")>>)
    BY <1>1 DEF Commanding, SendBuffer, CallNames, Flush, Command
<1>4. Commanding(CloseCalls)
    <2>1. DOMAIN CloseCalls = 1 .. 12
        BY CloseIs
    <2>2. /\ Flush("flushIn").on \in Command /\ Flush("flushOut").on \in Command
          /\ SetState("idle").on \in Command /\ SetState("loaded").on \in Command
          /\ Await("disable").do = "await"
        BY DEF Flush, SetState, Await, Command
    <2>3. ASSUME NEW i \in 1 .. 12, CloseCalls[i].do \in {"flush", "setState"}
          PROVE  CloseCalls[i].on \in Command
        <3>1. \/ i = 1 \/ i = 2 \/ i = 3 \/ i = 4 \/ i = 5 \/ i = 6 \/ i = 7 \/ i = 8
              \/ i = 9 \/ i = 10 \/ i = 11 \/ i = 12
            OBVIOUS
        <3>2. QED
            BY <2>2, <2>3, <3>1, CloseIs, <1>1 DEF CallNames
    <2>4. QED
        BY <2>1, <2>3 DEF Commanding
<1>5. QED
    BY <1>2, <1>3, <1>4

LEMMA InitEvents == Init => EventTypes /\ OtherTypes
<1>1. << >> \in Seq(Event) /\ << >> \in Seq(Command)
    OBVIOUS
<1>2. 0 \in 0 .. MaxFrame
    BY BufferAssumption, FS_CardinalityType
<1>3. Init => OtherTypes
    BY <1>2 DEF Init, OtherTypes
<1>4. Init => EventTypes
    <2>1. IsInjective(<< >>) /\ Commanding(<< >>)
        BY DEF IsInjective, Commanding
    <2>2. QED
        BY <1>1, <2>1 DEF Init, EventTypes
<1>5. QED
    BY <1>3, <1>4

LEMMA StepOther == CoreInv /\ OtherTypes /\ [Next]_vars => OtherTypes'
<1> SUFFICES ASSUME CoreInv, OtherTypes, [Next]_vars PROVE OtherTypes'
    OBVIOUS
<1>a. mInputBuffers \subseteq Buffer
    BY DEF CoreInv, Types
<1> USE <1>a DEF OtherTypes, pool, flags, client, lent, component, callback
<1>1. CASE SeeRoom
    BY <1>1 DEF SeeRoom
<1>2. CASE Decode
    <2>1. 0 \in 0 .. MaxFrame
        BY BufferAssumption, FS_CardinalityType
    <2>2. QED
        BY <1>2, <2>1 DEF Decode, Start
<1>3. CASE SubmitEOS \/ Reset \/ Close
    BY <1>3 DEF SubmitEOS, Reset, Close, Start
<1>4. CASE GetBuffer \/ GetNothing \/ EmptyThisBuffer \/ EmptyRejected
    BY <1>4 DEF GetBuffer, GetNothing, EmptyThisBuffer, EmptyRejected
<1>5. CASE FlushSend \/ SetStateSend \/ DisableSend
    BY <1>5 DEF FlushSend, SetStateSend, DisableSend, Send
<1>6. CASE AwaitAnswered \/ AwaitNothing \/ InputDone \/ Hold \/ Block \/ SpuriousWakeup
    BY <1>6 DEF AwaitAnswered, AwaitNothing, InputDone, Hold, Block, SpuriousWakeup
<1>7. CASE Exit \/ FreeBuffers \/ ForgetBuffers \/ FreeHandle
    BY <1>7 DEF Exit, FreeBuffers, ForgetBuffers, FreeHandle
<1>8. CASE Expire
    BY <1>8 DEF Expire
<1>9. CASE EmptyBufferDone \/ ReturnBuffer
    BY <1>9 DEF EmptyBufferDone, ReturnBuffer, WakeInput
<1>10. CASE Complete \/ SignalChange
    BY <1>10 DEF Complete, SignalChange, AddEvent, WakeEvent
<1>11. CASE RaiseError
    BY <1>11, ComponentAssumption DEF RaiseError, AddEvent, WakeEvent
<1>12. CASE HandleError
    BY <1>12 DEF HandleError
<1>13. CASE UNCHANGED vars
    BY <1>13 DEF vars
<1>14. QED
    BY <1>1, <1>2, <1>3, <1>4, <1>5, <1>6, <1>7, <1>8, <1>9, <1>10, <1>11, <1>12, <1>13
    DEF Next, Client, ClientContinues, Component, Terminated

\* A step of the client that makes the next call, gives up, or leaves todo alone.
LEMMA CommandingNext ==
    ASSUME todo \in Seq(CallRecord), Commanding(todo),
           (todo # << >> /\ Proceed) \/ GiveUp \/ UNCHANGED todo
    PROVE  Commanding(todo')
<1>1. CASE todo # << >> /\ Proceed
    BY <1>1, CommandingTail DEF Proceed
<1>2. CASE GiveUp
    BY <1>2 DEF GiveUp, Commanding
<1>3. QED
    BY <1>1, <1>2

LEMMA StepEvents == CoreInv /\ Waiting /\ EventTypes /\ [Next]_vars => EventTypes'
<1> SUFFICES ASSUME CoreInv, Waiting, EventTypes, [Next]_vars PROVE EventTypes'
    OBVIOUS
<1>a. todo \in Seq(CallRecord) /\ Commanding(todo) /\ room \in Nat
    BY DEF CoreInv, Script, Types, EventTypes
<1>b. mEvents \in Seq(Event) /\ IsInjective(mEvents) /\ commands \in Seq(Command)
      /\ state \in {"executing", "idle", "loaded"}
    BY DEF EventTypes
<1>c. ASSUME UNCHANGED <<mEvents, commands, state>>,
             (todo # << >> /\ Proceed) \/ GiveUp \/ UNCHANGED todo
      PROVE  EventTypes'
    BY <1>a, <1>b, <1>c, CommandingNext DEF EventTypes
<1> USE DEF pool, flags, client, lent, component, callback
<1>1. CASE SeeRoom \/ Hold \/ Block \/ SpuriousWakeup
    BY <1>1, <1>c DEF SeeRoom, Hold, Block, SpuriousWakeup
<1>2. CASE Decode \/ SubmitEOS \/ Reset \/ Close
    <2>1. UNCHANGED <<mEvents, commands, state>>
        BY <1>2 DEF Decode, SubmitEOS, Reset, Close, Start
    <2>2. Commanding(todo')
        <3>1. CASE Decode
            BY <1>a, <3>1, CommandingMethods DEF Decode, Start
        <3>2. CASE SubmitEOS \/ Reset \/ Close
            BY <3>2, CommandingMethods DEF SubmitEOS, Reset, Close, Start
        <3>3. QED
            BY <1>2, <3>1, <3>2
    <2>3. QED
        BY <1>b, <2>1, <2>2 DEF EventTypes
<1>3. CASE GetBuffer \/ GetNothing \/ EmptyThisBuffer \/ EmptyRejected
    BY <1>3, <1>c DEF GetBuffer, GetNothing, EmptyThisBuffer, EmptyRejected, Calling
<1>4. CASE AwaitNothing \/ InputDone
    BY <1>4, <1>c DEF AwaitNothing, InputDone, AwaitReturns, Calling
<1>5. CASE Exit \/ FreeBuffers \/ ForgetBuffers \/ FreeHandle
    BY <1>5, <1>c DEF Exit, FreeBuffers, ForgetBuffers, FreeHandle, Calling
<1>6. CASE Expire
    BY <1>6, <1>c DEF Expire, Expiry, Waiting
<1>7. CASE FlushSend \/ SetStateSend
    <2>1. /\ UNCHANGED <<mEvents, state>> /\ (Calling("flush") \/ Calling("setState"))
          /\ \/ UNCHANGED commands /\ (Proceed \/ ThenAwait(On))
             \/ commands' = Append(commands, On) /\ ThenAwait(On)
        BY <1>7 DEF FlushSend, SetStateSend, Send
    <2>2. On \in Command /\ todo # << >>
        <3>1. todo # << >> /\ Head(todo) = todo[1] /\ 1 \in DOMAIN todo
            BY <1>a, <2>1 DEF Calling
        <3>2. QED
            BY <1>a, <2>1, <3>1 DEF Commanding, Calling, On
    <2>3. commands' \in Seq(Command)
        BY <1>b, <2>1, <2>2
    <2>4. Commanding(todo')
        <3>1. CASE Proceed
            BY <1>a, <2>2, <3>1, CommandingNext
        <3>2. CASE ThenAwait(On)
            <4>1. Commanding(Tail(todo)) /\ Tail(todo) \in Seq(CallRecord)
                BY <1>a, <2>2, CommandingTail
            <4>2. On \in Event
                BY <2>2 DEF Event
            <4>3. QED
                BY <3>2, <4>1, <4>2, CommandingAwait DEF ThenAwait
        <3>3. QED
            BY <2>1, <3>1, <3>2
    <2>5. QED
        BY <1>b, <2>1, <2>3, <2>4 DEF EventTypes
<1>8. CASE DisableSend
    <2>1. /\ UNCHANGED <<mEvents, state>> /\ todo # << >> /\ Proceed
          /\ commands' \in {commands, Append(commands, "disable")}
        BY <1>8 DEF DisableSend, Send, Calling
    <2>2. commands' \in Seq(Command)
        BY <1>b, <2>1 DEF Command
    <2>3. QED
        BY <1>a, <1>b, <2>1, <2>2, CommandingNext DEF EventTypes
<1>9. CASE AwaitAnswered
    <2>1. /\ UNCHANGED <<commands, state>> /\ todo # << >> /\ (Proceed \/ GiveUp)
          /\ Answers(On) # {} /\ mEvents' = RemoveAt(mEvents, Min(Answers(On)))
        BY <1>9 DEF AwaitAnswered, AwaitReturns, Calling
    <2>2. mEvents' \in Seq(Event) /\ IsInjective(mEvents')
        BY <1>b, <2>1, FirstAnswer
    <2>3. QED
        BY <1>a, <1>b, <2>1, <2>2, CommandingNext DEF EventTypes
<1>10. CASE Complete
    <2>1. /\ commands # << >> /\ Added(Head(commands)) /\ commands' = Tail(commands)
          /\ state' \in {"idle", "loaded", state} /\ UNCHANGED todo
        BY <1>10 DEF Complete, AddEvent
    <2>2. Head(commands) \in Event /\ commands' \in Seq(Command)
        BY <1>b, <2>1 DEF Event
    <2>3. mEvents' \in Seq(Event) /\ IsInjective(mEvents')
        BY <1>b, <2>1, <2>2, AddedEvent
    <2>4. QED
        BY <1>a, <1>b, <2>1, <2>2, <2>3 DEF EventTypes
<1>11. CASE SignalChange \/ RaiseError
    <2>1. PICK e \in Event : Added(e)
        BY <1>11, ComponentAssumption DEF SignalChange, RaiseError, AddEvent, Event
    <2>2. UNCHANGED <<todo, commands, state>>
        BY <1>11 DEF SignalChange, RaiseError
    <2>3. mEvents' \in Seq(Event) /\ IsInjective(mEvents')
        BY <1>b, <2>1, AddedEvent
    <2>4. QED
        BY <1>a, <1>b, <2>2, <2>3 DEF EventTypes
<1>12. CASE EmptyBufferDone \/ ReturnBuffer \/ HandleError
    BY <1>12, <1>c DEF EmptyBufferDone, ReturnBuffer, HandleError
<1>13. CASE UNCHANGED vars
    BY <1>13, <1>c DEF vars
<1>14. QED
    BY <1>1, <1>2, <1>3, <1>4, <1>5, <1>6, <1>7, <1>8, <1>9, <1>10, <1>11, <1>12, <1>13
    DEF Next, Client, ClientContinues, Component, Terminated

-------------------------------------------------------------------------------
(* As long as the component is calm                                         *)

Seen == ToSet(mEvents)

\* The command c ("none": no command) is the only one that is still to be carried out or
\* that was announced, and it is one of the two.
Matched(c) ==
    /\ \A d \in Command : d \in Seen => d = c
    /\ commands = IF c \in Command /\ c \notin Seen THEN <<c>> ELSE << >>

Sane ==
    /\ ~mResourceError /\ raising = "none" /\ dropped = {}
    /\ Seen \cap ErrorEvent = {}
Drained == held = {} /\ returning = NoBuffer
Untouched == mHandle = "open" /\ ~mExit /\ freed = {} /\ state = "executing" /\ mInputBuffers = Buffer

\* decode and submitEOS, or no method at all.
FeedCall(call) == call.do \in {"get", "empty"} \/ (call.do = "await" /\ call.on \in Change)
Feeding == Untouched /\ Matched("none") /\ \A i \in DOMAIN todo : FeedCall(todo[i])

Resetting(sent) ==
    /\ Untouched
    /\ todo = IF sent THEN <<Await("flushIn")>> ELSE <<Flush("flushIn")>>
    /\ Matched(IF sent THEN "flushIn" ELSE "none")

\* close, at its k-th call; if sent is true, that call has sent its command.
Left(k, sent) == IF sent THEN <<Await(CloseCalls[k].on)>> \o Rest(k + 1) ELSE Rest(k)
Due(k, sent) == IF sent THEN CloseCalls[k].on ELSE IF k \in {6, 7} THEN "disable" ELSE "none"
StateAt(k) ==
    IF k <= 10 THEN (IF "idle" \in Seen THEN "idle" ELSE "executing")
               ELSE (IF k > 11 \/ "loaded" \in Seen THEN "loaded" ELSE "idle")
Closing(k, sent) ==
    /\ sent => k \in {1, 3, 4, 10, 11}
    /\ todo = Left(k, sent) /\ Matched(Due(k, sent))
    /\ mExit => k >= 3
    /\ mHandle = IF k = 13 THEN "freed" ELSE "open"
    /\ freed = IF k <= 6 THEN {} ELSE Buffer
    /\ k <= 9 => mInputBuffers = Buffer
    /\ state = StateAt(k)
    /\ k >= 2 \/ "flushIn" \in Seen => Drained

CalmInv ==
    calm => Sane /\ \/ Feeding
                    \/ \E sent \in BOOLEAN : Resetting(sent)
                    \/ \E k \in 1 .. 13, sent \in BOOLEAN : Closing(k, sent)

LEMMA CallAt ==
    /\ \A k \in 1 .. 12 : /\ CloseCalls[k].do \in CallNames \ {"get", "empty"}
                          /\ CloseCalls[k].do = "flush" => k \in {1, 3, 4}
                          /\ CloseCalls[k].do = "exit" => k = 2
                          /\ CloseCalls[k].do = "disable" => k = 5
                          /\ CloseCalls[k].do = "free" => k = 6
                          /\ CloseCalls[k].do = "await" => k = 7
                          /\ CloseCalls[k].do = "inputDone" => k = 8
                          /\ CloseCalls[k].do = "forget" => k = 9
                          /\ CloseCalls[k].do = "setState" => k \in {10, 11}
                          /\ CloseCalls[k].do = "freeHandle" => k = 12
    /\ CloseCalls[1].on = "flushIn" /\ CloseCalls[3].on = "flushIn" /\ CloseCalls[4].on = "flushOut"
    /\ CloseCalls[7].on = "disable" /\ CloseCalls[10].on = "idle" /\ CloseCalls[11].on = "loaded"
<1>1. \A k \in 1 .. 12 : \/ k = 1 \/ k = 2 \/ k = 3 \/ k = 4 \/ k = 5 \/ k = 6 \/ k = 7 \/ k = 8
                         \/ k = 9 \/ k = 10 \/ k = 11 \/ k = 12
    OBVIOUS
<1>2. /\ CloseCalls[1].do = "flush" /\ CloseCalls[2].do = "exit" /\ CloseCalls[3].do = "flush"
      /\ CloseCalls[4].do = "flush" /\ CloseCalls[5].do = "disable" /\ CloseCalls[6].do = "free"
      /\ CloseCalls[7].do = "await" /\ CloseCalls[8].do = "inputDone" /\ CloseCalls[9].do = "forget"
      /\ CloseCalls[10].do = "setState" /\ CloseCalls[11].do = "setState" /\ CloseCalls[12].do = "freeHandle"
    BY CloseIs DEF Call, Flush, SetState, Await
<1>3. /\ CloseCalls[1].on = "flushIn" /\ CloseCalls[3].on = "flushIn" /\ CloseCalls[4].on = "flushOut"
      /\ CloseCalls[7].on = "disable" /\ CloseCalls[10].on = "idle" /\ CloseCalls[11].on = "loaded"
    BY CloseIs DEF Call, Flush, SetState, Await
<1>4. ASSUME NEW k \in 1 .. 12
      PROVE  /\ CloseCalls[k].do \in CallNames \ {"get", "empty"}
             /\ CloseCalls[k].do = "flush" => k \in {1, 3, 4}
             /\ CloseCalls[k].do = "exit" => k = 2
             /\ CloseCalls[k].do = "disable" => k = 5
             /\ CloseCalls[k].do = "free" => k = 6
             /\ CloseCalls[k].do = "await" => k = 7
             /\ CloseCalls[k].do = "inputDone" => k = 8
             /\ CloseCalls[k].do = "forget" => k = 9
             /\ CloseCalls[k].do = "setState" => k \in {10, 11}
             /\ CloseCalls[k].do = "freeHandle" => k = 12
    BY <1>1, <1>2 DEF CallNames
<1>5. QED
    BY <1>3, <1>4

LEMMA LeftParts ==
    ASSUME NEW k \in 1 .. 12, NEW sent \in BOOLEAN
    PROVE  /\ Left(k, sent) # << >>
           /\ Head(Left(k, sent)) = IF sent THEN Await(CloseCalls[k].on) ELSE CloseCalls[k]
           /\ Tail(Left(k, sent)) = Left(k + 1, FALSE)
           /\ <<Await(CloseCalls[k].on)>> \o Tail(Left(k, FALSE)) = Left(k, TRUE)
<1>1. k + 1 \in 1 .. 13
    OBVIOUS
<1>2. /\ Rest(k) # << >> /\ Head(Rest(k)) = CloseCalls[k] /\ Tail(Rest(k)) = Rest(k + 1)
      /\ Rest(k + 1) \in Seq(CallRecord)
    BY <1>1, RestParts
<1>3. ASSUME NEW r \in Seq(CallRecord), NEW a
      PROVE  <<a>> \o r # << >> /\ Head(<<a>> \o r) = a /\ Tail(<<a>> \o r) = r
    OBVIOUS
<1>4. QED
    BY <1>2, <1>3 DEF Left

-------------------------------------------------------------------------------
(* Which method the client is in                                            *)

LEMMA WhereInMethod ==
    ASSUME CalmInv, calm, todo \in Seq(CallRecord), todo # << >>
    PROVE  \/ Feeding /\ FeedCall(Head(todo))
           \/ \E sent \in BOOLEAN :
                 /\ Resetting(sent) /\ Tail(todo) = << >>
                 /\ Head(todo) = IF sent THEN Await("flushIn") ELSE Flush("flushIn")
           \/ \E k \in 1 .. 12, sent \in BOOLEAN :
                 /\ Closing(k, sent) /\ Tail(todo) = Left(k + 1, FALSE)
                 /\ Head(todo) = IF sent THEN Await(CloseCalls[k].on) ELSE CloseCalls[k]
<1>1. ASSUME Feeding PROVE FeedCall(Head(todo))
    <2>1. Head(todo) = todo[1] /\ 1 \in DOMAIN todo
        OBVIOUS
    <2>2. QED
        BY <1>1, <2>1 DEF Feeding
<1>2. ASSUME NEW sent \in BOOLEAN, Resetting(sent)
      PROVE  /\ Tail(todo) = << >>
             /\ Head(todo) = IF sent THEN Await("flushIn") ELSE Flush("flushIn")
    BY <1>2 DEF Resetting
<1>3. ASSUME NEW k \in 1 .. 13, NEW sent \in BOOLEAN, Closing(k, sent)
      PROVE  /\ k \in 1 .. 12 /\ Tail(todo) = Left(k + 1, FALSE)
             /\ Head(todo) = IF sent THEN Await(CloseCalls[k].on) ELSE CloseCalls[k]
    <2>1. k # 13
        BY <1>3, RestParts DEF Closing, Left
    <2>2. k \in 1 .. 12
        BY <2>1
    <2>3. QED
        BY <1>3, <2>2, LeftParts DEF Closing
<1>4. QED
    BY <1>1, <1>2, <1>3 DEF CalmInv

\* The calls that only close makes.
LEMMA WhereInClose ==
    ASSUME CalmInv, calm, todo \in Seq(CallRecord),
           NEW name, Calling(name), name \notin {"get", "empty", "await", "flush"}
    PROVE  \E k \in 1 .. 12 : /\ Closing(k, FALSE) /\ Tail(todo) = Left(k + 1, FALSE)
                              /\ Head(todo) = CloseCalls[k] /\ CloseCalls[k].do = name
<1>1. todo # << >> /\ Head(todo).do = name
    BY DEF Calling
<1>2. ~FeedCall(Head(todo))
    BY <1>1 DEF FeedCall
<1>3. \A e : Await(e).do = "await" /\ Flush(e).do = "flush"
    BY DEF Await, Flush
<1>4. QED
    BY <1>1, <1>2, <1>3, WhereInMethod

LEMMA WhereInFeed ==
    ASSUME CalmInv, calm, todo \in Seq(CallRecord), Calling("get") \/ Calling("empty")
    PROVE  Feeding
<1>1. todo # << >> /\ Head(todo).do \in {"get", "empty"}
    BY DEF Calling
<1>2. \A e : Await(e).do = "await" /\ Flush(e).do = "flush"
    BY DEF Await, Flush
<1>3. QED
    BY <1>1, <1>2, WhereInMethod, CallAt

-------------------------------------------------------------------------------
(* Its steps                                                                *)

SeenAlike == \A e \in Command \cup ErrorEvent : e \in Seen' <=> e \in Seen
SamePlace == UNCHANGED <<commands, mExit, mHandle, freed, state, mInputBuffers,
                         mResourceError, raising, dropped>>

LEMMA SameParts ==
    ASSUME SeenAlike, SamePlace, Drained => Drained'
    PROVE  /\ \A c : Matched(c) => Matched(c)'
           /\ Sane => Sane'
           /\ Untouched => Untouched'
           /\ \A k \in 1 .. 13, sent \in BOOLEAN :
                 Closing(k, sent) /\ UNCHANGED todo => Closing(k, sent)'
<1>1. \A c : Matched(c) => Matched(c)'
    BY DEF SeenAlike, SamePlace, Matched
<1>2. Sane => Sane'
    BY DEF SeenAlike, SamePlace, Sane
<1>3. Untouched => Untouched'
    BY DEF SamePlace, Untouched
<1>4. ASSUME NEW k \in 1 .. 13, NEW sent \in BOOLEAN, Closing(k, sent), UNCHANGED todo
      PROVE  Closing(k, sent)'
    <2>1. Matched(Due(k, sent))'
        BY <1>1, <1>4 DEF Closing
    <2>2. /\ "flushIn" \in Seen' <=> "flushIn" \in Seen
          /\ "idle" \in Seen' <=> "idle" \in Seen
          /\ "loaded" \in Seen' <=> "loaded" \in Seen
        BY DEF SeenAlike, Command
    <2>3. StateAt(k)' = StateAt(k)
        BY <2>2 DEF StateAt
    <2>4. QED
        BY <1>4, <2>1, <2>2, <2>3 DEF Closing, SamePlace
<1>5. QED
    BY <1>1, <1>2, <1>3, <1>4

\* Steps after which the method is where it was.
LEMMA CalmSame ==
    ASSUME CalmInv, SeenAlike, SamePlace, UNCHANGED <<todo, calm>>, Drained => Drained'
    PROVE  CalmInv'
<1> SUFFICES ASSUME calm' PROVE CalmInv'
    BY DEF CalmInv
<1>1. Sane /\ calm
    BY DEF CalmInv
<1>2. Sane'
    BY <1>1, SameParts
<1>3. CASE Feeding
    <2>1. Feeding'
        BY <1>3, SameParts DEF Feeding
    <2>2. QED
        BY <1>2, <2>1 DEF CalmInv
<1>4. ASSUME NEW sent \in BOOLEAN, Resetting(sent) PROVE CalmInv'
    <2>1. Resetting(sent)'
        BY <1>4, SameParts DEF Resetting
    <2>2. QED
        BY <1>2, <2>1 DEF CalmInv
<1>5. ASSUME NEW k \in 1 .. 13, NEW sent \in BOOLEAN, Closing(k, sent) PROVE CalmInv'
    <2>1. Closing(k, sent)'
        BY <1>5, SameParts
    <2>2. QED
        BY <1>2, <2>1 DEF CalmInv
<1>6. QED
    BY <1>1, <1>3, <1>4, <1>5 DEF CalmInv

\* Steps of decode and submitEOS.
LEMMA CalmFeeds ==
    ASSUME Feeding, Sane, todo \in Seq(CallRecord), SeenAlike, SamePlace,
           (todo # << >> /\ Proceed) \/ GiveUp
    PROVE  CalmInv'
<1>1. Sane' /\ Untouched' /\ Matched("none")'
    BY DEF Feeding, SeenAlike, SamePlace, Sane, Untouched, Matched
<1>2. \A i \in DOMAIN todo' : FeedCall(todo'[i])
    <2>1. CASE todo # << >> /\ Proceed
        <3>1. /\ Len(todo) \in Nat /\ DOMAIN todo = 1 .. Len(todo) /\ DOMAIN todo' = 1 .. Len(todo) - 1
              /\ \A i \in 1 .. Len(todo) - 1 : todo'[i] = todo[i + 1]
            BY <2>1 DEF Proceed
        <3>2. \A i \in 1 .. Len(todo) - 1 : i + 1 \in 1 .. Len(todo)
            BY <3>1
        <3>3. QED
            BY <3>1, <3>2 DEF Feeding
    <2>2. CASE GiveUp
        BY <2>2 DEF GiveUp
    <2>3. QED
        BY <2>1, <2>2
<1>3. Feeding'
    BY <1>1, <1>2 DEF Feeding
<1>4. QED
    BY <1>1, <1>3 DEF CalmInv

LEMMA FeedMethods ==
    /\ \A n \in Nat : LET s == [i \in 1 .. 4 * n |-> SendPart[1 + ((i - 1) % 4)]] IN
         \A i \in DOMAIN s : FeedCall(s[i])
    /\ \A i \in DOMAIN SendBuffer : FeedCall(SendBuffer[i])
<1>1. /\ FeedCall(Call("get")) /\ FeedCall(Call("empty"))
      /\ FeedCall(Await("settings")) /\ FeedCall(Await("param"))
    BY DEF FeedCall, Call, Await, Change
<1>2. \A i \in DOMAIN SendBuffer : FeedCall(SendBuffer[i])
    BY <1>1 DEF SendBuffer
<1>3. \A k \in 1 .. 4 : FeedCall(SendPart[k])
    BY <1>1 DEF SendPart
<1>4. ASSUME NEW n \in Nat, NEW i \in 1 .. 4 * n PROVE 1 + ((i - 1) % 4) \in 1 .. 4
    OBVIOUS
<1>5. QED
    BY <1>2, <1>3, <1>4

LEMMA CalmStart ==
    ASSUME CalmInv, todo \in Seq(CallRecord), room \in Nat, Decode \/ SubmitEOS \/ Reset \/ Close
    PROVE  CalmInv'
<1> SUFFICES ASSUME calm' PROVE CalmInv'
    BY DEF CalmInv
<1> USE DEF pool, flags, lent, component, callback
<1>1. /\ calm /\ todo = << >> /\ mHandle = "open"
      /\ SamePlace /\ UNCHANGED <<mEvents, held, returning>>
    BY DEF Decode, SubmitEOS, Reset, Close, Idle, Start, SamePlace
<1>2. SeenAlike /\ (Drained => Drained')
    BY <1>1 DEF SeenAlike, Seen, Drained
<1>3. Sane /\ Feeding
    <2>1. ASSUME NEW k \in 1 .. 13, NEW sent \in BOOLEAN, Closing(k, sent) PROVE FALSE
        <3>1. k = 13
            <4>1. k # 13 => k \in 1 .. 12
                OBVIOUS
            <4>2. QED
                BY <1>1, <2>1, <4>1, LeftParts DEF Closing
        <3>2. QED
            BY <1>1, <2>1, <3>1 DEF Closing
    <2>2. ASSUME NEW sent \in BOOLEAN, Resetting(sent) PROVE FALSE
        BY <1>1, <2>2 DEF Resetting
    <2>3. QED
        BY <1>1, <2>1, <2>2 DEF CalmInv
<1>4. Sane' /\ Untouched' /\ Matched("none")'
    BY <1>1, <1>2, <1>3, SameParts DEF Feeding
<1>5. CASE Decode \/ SubmitEOS
    <2>1. \A i \in DOMAIN todo' : FeedCall(todo'[i])
        BY <1>5, FeedMethods DEF Decode, SubmitEOS, Start
    <2>2. Feeding'
        BY <1>4, <2>1 DEF Feeding
    <2>3. QED
        BY <1>4, <2>2 DEF CalmInv
<1>6. CASE Reset
    <2>1. Resetting(FALSE)'
        BY <1>4, <1>6 DEF Reset, Start, Resetting
    <2>2. QED
        BY <1>4, <2>1 DEF CalmInv
<1>7. CASE Close
    <2>1. todo' = Left(1, FALSE)
        BY <1>7, RestParts DEF Close, Start, Left
    <2>2. "flushIn" \notin Seen' /\ "idle" \notin Seen'
        BY <1>4 DEF Matched, Command
    <2>3. Closing(1, FALSE)'
        BY <1>4, <2>1, <2>2 DEF Closing, Untouched, Due, StateAt
    <2>4. 1 \in 1 .. 13
        OBVIOUS
    <2>5. QED
        BY <1>4, <2>3, <2>4 DEF CalmInv
<1>8. QED
    BY <1>5, <1>6, <1>7

LEMMA CalmStays ==
    ASSUME CalmInv, EventTypes, Types,
           \/ SeeRoom \/ Hold \/ Block \/ SpuriousWakeup \/ SignalChange \/ ReturnBuffer
           \/ EmptyBufferDone \/ UNCHANGED vars
    PROVE  CalmInv'
<1> SUFFICES ASSUME calm' PROVE CalmInv'
    BY DEF CalmInv
<1> USE DEF pool, flags, client, lent, component, callback
<1>1. CASE SeeRoom \/ Hold \/ Block \/ SpuriousWakeup \/ UNCHANGED vars
    <2>1. SamePlace /\ UNCHANGED <<mEvents, held, returning, todo, calm>>
        BY <1>1 DEF SeeRoom, Hold, Block, SpuriousWakeup, vars, SamePlace
    <2>2. SeenAlike /\ (Drained => Drained')
        BY <2>1 DEF SeenAlike, Seen, Drained
    <2>3. QED
        BY <2>1, <2>2, CalmSame
<1>2. CASE SignalChange
    <2>1. PICK e \in Change : Added(e)
        BY <1>2 DEF SignalChange, AddEvent
    <2>2. SamePlace /\ UNCHANGED <<held, returning, todo, calm>>
        BY <1>2 DEF SignalChange, SamePlace
    <2>3. Seen' = Seen \cup {e}
        BY <2>1, AddedEvent DEF EventTypes, Seen, Event
    <2>4. SeenAlike /\ (Drained => Drained')
        BY <2>2, <2>3 DEF SeenAlike, Drained, Command, ErrorEvent, Change
    <2>5. QED
        BY <2>2, <2>4, CalmSame
<1>3. CASE ReturnBuffer
    <2>1. SamePlace /\ UNCHANGED <<mEvents, held, todo, calm>> /\ returning' = NoBuffer
        BY <1>3 DEF ReturnBuffer, SamePlace
    <2>2. SeenAlike /\ (Drained => Drained')
        BY <2>1 DEF SeenAlike, Seen, Drained
    <2>3. QED
        BY <2>1, <2>2, CalmSame
<1>4. CASE EmptyBufferDone
    <2>1. calm /\ ~Drained /\ UNCHANGED <<mEvents, todo, calm>>
        BY <1>4 DEF EmptyBufferDone, Drained
    <2>2. ~mExit
        BY <2>1 DEF CalmInv, Resetting, Feeding, Untouched, Closing
    <2>3. SamePlace
        BY <1>4, <2>2 DEF EmptyBufferDone, SamePlace
    <2>4. SeenAlike
        BY <2>1 DEF SeenAlike, Seen
    <2>5. QED
        BY <2>1, <2>3, <2>4, CalmSame
<1>5. QED
    BY <1>1, <1>2, <1>3, <1>4

LEMMA CalmGet ==
    ASSUME CalmInv, todo \in Seq(CallRecord),
           GetBuffer \/ GetNothing \/ EmptyThisBuffer \/ EmptyRejected
    PROVE  CalmInv'
<1> SUFFICES ASSUME calm' PROVE CalmInv'
    BY DEF CalmInv
<1>1. /\ calm /\ (Calling("get") \/ Calling("empty")) /\ (Proceed \/ GiveUp)
      /\ SamePlace /\ UNCHANGED mEvents
    BY DEF GetBuffer, GetNothing, EmptyThisBuffer, EmptyRejected, SamePlace, pool, flags, lent,
           component, callback
<1>2. Feeding /\ Sane /\ todo # << >>
    BY <1>1, WhereInFeed DEF CalmInv, Calling
<1>3. SeenAlike
    BY <1>1 DEF SeenAlike, Seen
<1>4. QED
    BY <1>1, <1>2, <1>3, CalmFeeds

\* A command is sent when no other is under way.
LEMMA MatchedSent ==
    ASSUME NEW c \in Command, Matched("none"), commands' = Append(commands, c), UNCHANGED mEvents
    PROVE  Matched(c)'
<1>1. commands = << >> /\ \A d \in Command : d \notin Seen
    BY DEF Matched, Command
<1>2. Seen' = Seen /\ commands' = <<c>>
    BY <1>1 DEF Seen
<1>3. QED
    BY <1>1, <1>2 DEF Matched

LEMMA CalmSends ==
    ASSUME CalmInv, todo \in Seq(CallRecord), FlushSend \/ SetStateSend \/ DisableSend
    PROVE  CalmInv'
<1> SUFFICES ASSUME calm' PROVE CalmInv'
    BY DEF CalmInv
<1> USE DEF pool, flags, client, lent, component, callback
<1>1. calm
    BY DEF FlushSend, SetStateSend, DisableSend, Send
<1>2. Sane
    BY <1>1 DEF CalmInv
<1>3. UNCHANGED <<mEvents, mExit, mHandle, freed, state, mInputBuffers, held, returning,
                  mResourceError, raising, dropped>>
    BY DEF FlushSend, SetStateSend, DisableSend
<1>4. Sane' /\ Seen' = Seen /\ Drained' = Drained
    BY <1>2, <1>3 DEF Sane, Seen, Drained
<1>5. \A e : /\ Await(e).do = "await" /\ Flush(e).do = "flush" /\ SetState(e).do = "setState"
             /\ Await(e).on = e /\ Flush(e).on = e /\ SetState(e).on = e
    BY DEF Await, Flush, SetState
\* The k-th call of close has sent its command.
<1>6. ASSUME NEW k \in {1, 3, 4, 10, 11}, Closing(k, FALSE), Tail(todo) = Left(k + 1, FALSE),
             On = CloseCalls[k].on, commands' = Append(commands, On), ThenAwait(On)
      PROVE  CalmInv'
    <2>1. k \in 1 .. 12 /\ k \in 1 .. 13
        BY <1>6
    <2>2. CloseCalls[k].on \in Command
        BY <1>6, CallAt DEF Command
    <2>3. Matched(CloseCalls[k].on)'
        <3>1. Matched("none")
            BY <1>6 DEF Closing, Due
        <3>2. QED
            BY <1>3, <1>6, <2>2, <3>1, MatchedSent
    <2>4. todo' = Left(k, TRUE)
        <3>1. todo = Left(k, FALSE)
            BY <1>6 DEF Closing
        <3>2. QED
            BY <1>6, <2>1, <3>1, LeftParts DEF ThenAwait
    <2>5. StateAt(k)' = StateAt(k)
        BY <1>4 DEF StateAt
    <2>6. Closing(k, TRUE)'
        BY <1>3, <1>4, <1>6, <2>3, <2>4, <2>5 DEF Closing, Due
    <2>7. QED
        BY <1>4, <2>1, <2>6 DEF CalmInv
<1>7. CASE FlushSend
    <2>1. /\ Calling("flush") /\ commands' = Append(commands, On) /\ ThenAwait(On)
        BY <1>2, <1>7 DEF FlushSend, Send, Sane
    <2>2. \/ Resetting(FALSE) /\ Head(todo) = Flush("flushIn") /\ Tail(todo) = << >>
          \/ \E k \in {1, 3, 4} : /\ Closing(k, FALSE) /\ Tail(todo) = Left(k + 1, FALSE)
                                  /\ Head(todo) = CloseCalls[k]
        <3>1. todo # << >> /\ Head(todo).do = "flush"
            BY <2>1 DEF Calling
        <3>2. ~FeedCall(Head(todo))
            BY <3>1 DEF FeedCall
        <3>3. QED
            BY <1>1, <1>5, <3>1, <3>2, WhereInMethod, CallAt
    <2>3. CASE Resetting(FALSE) /\ Head(todo) = Flush("flushIn") /\ Tail(todo) = << >>
        <3>1. On = "flushIn" /\ todo' = <<Await("flushIn")>>
            <4>1. On = "flushIn"
                BY <1>5, <2>3 DEF On
            <4>2. todo' = <<Await("flushIn")>> \o << >>
                BY <2>1, <2>3, <4>1 DEF ThenAwait
            <4>3. QED
                BY <4>1, <4>2
        <3>2. Matched("flushIn")'
            BY <1>3, <2>1, <2>3, <3>1, MatchedSent DEF Resetting, Command
        <3>3. Untouched'
            BY <1>3, <2>3 DEF Resetting, Untouched
        <3>4. Resetting(TRUE)'
            BY <3>1, <3>2, <3>3 DEF Resetting
        <3>5. QED
            BY <1>4, <3>4 DEF CalmInv
    <2>4. CASE \E k \in {1, 3, 4} : /\ Closing(k, FALSE) /\ Tail(todo) = Left(k + 1, FALSE)
                                    /\ Head(todo) = CloseCalls[k]
        BY <1>6, <2>1, <2>4 DEF On
    <2>5. QED
        BY <2>2, <2>3, <2>4
<1>8. CASE SetStateSend
    <2>1. Calling("setState")
        BY <1>8 DEF SetStateSend
    <2>2. PICK k \in {10, 11} : /\ Closing(k, FALSE) /\ Tail(todo) = Left(k + 1, FALSE)
                                /\ Head(todo) = CloseCalls[k]
        <3>1. PICK k \in 1 .. 12 : /\ Closing(k, FALSE) /\ Tail(todo) = Left(k + 1, FALSE)
                                   /\ Head(todo) = CloseCalls[k] /\ CloseCalls[k].do = "setState"
            BY <1>1, <2>1, WhereInClose
        <3>2. QED
            BY <3>1, CallAt
    <2>3. On = CloseCalls[k].on
        BY <2>2 DEF On
    <2>4. state \notin {On, "loaded"}
        <3>1. "idle" \notin Seen /\ "loaded" \notin Seen
            BY <2>2 DEF Closing, Due, Matched, Command
        <3>2. QED
            BY <2>2, <2>3, <3>1, CallAt DEF Closing, StateAt
    <2>5. commands' = Append(commands, On) /\ ThenAwait(On)
        BY <1>8, <2>4 DEF SetStateSend
    <2>6. QED
        BY <1>6, <2>2, <2>3, <2>5
<1>9. CASE DisableSend
    <2>1. Calling("disable") /\ Proceed /\ commands' = Append(commands, "disable")
        BY <1>9 DEF DisableSend, Send
    <2>2. Closing(5, FALSE) /\ Tail(todo) = Left(6, FALSE)
        <3>1. PICK k \in 1 .. 12 : /\ Closing(k, FALSE) /\ Tail(todo) = Left(k + 1, FALSE)
                                   /\ CloseCalls[k].do = "disable"
            BY <1>1, <2>1, WhereInClose
        <3>2. k = 5 /\ k + 1 = 6
            BY <3>1, CallAt
        <3>3. QED
            BY <3>1, <3>2
    <2>3. Matched("disable")'
        BY <1>3, <2>1, <2>2, MatchedSent DEF Closing, Due, Command
    <2>4. StateAt(6)' = StateAt(5)
        BY <1>4 DEF StateAt
    <2>5. Closing(6, FALSE)'
        <3>1. /\ Drained /\ mHandle = "open" /\ freed = {} /\ mInputBuffers = Buffer
              /\ state = StateAt(5)
            BY <2>2 DEF Closing
        <3>2. /\ Drained' /\ mHandle' = "open" /\ freed' = {} /\ mInputBuffers' = Buffer
              /\ state' = StateAt(6)' /\ todo' = Left(6, FALSE)
            BY <1>3, <1>4, <2>1, <2>2, <2>4, <3>1 DEF Proceed
        <3>3. QED
            BY <2>3, <3>2 DEF Closing, Due
    <2>6. 6 \in 1 .. 13
        OBVIOUS
    <2>7. QED
        BY <1>4, <2>5, <2>6 DEF CalmInv
<1>10. QED
    BY <1>7, <1>8, <1>9

\* close goes on with its next call.
LEMMA CalmAdvances ==
    ASSUME NEW k \in 1 .. 12, Sane', todo' = Left(k + 1, FALSE), Matched(Due(k + 1, FALSE))',
           mExit' => k + 1 >= 3, mHandle' = IF k + 1 = 13 THEN "freed" ELSE "open",
           freed' = IF k + 1 <= 6 THEN {} ELSE Buffer, k + 1 <= 9 => mInputBuffers' = Buffer,
           state' = StateAt(k + 1)', Drained'
    PROVE  CalmInv'
<1>1. k + 1 \in 1 .. 13
    OBVIOUS
<1>2. Closing(k + 1, FALSE)'
    BY DEF Closing
<1>3. QED
    BY <1>1, <1>2 DEF CalmInv

LEMMA MatchedTaken ==
    ASSUME NEW c \in Command, Matched(c), c \in Seen, Seen' = Seen \ {c}, UNCHANGED commands
    PROVE  Matched("none")'
<1>1. commands = << >> /\ \A d \in Command : d \in Seen => d = c
    BY DEF Matched
<1>2. "none" \notin Command
    BY DEF Command
<1>3. QED
    BY <1>1, <1>2 DEF Matched

\* An answer is the completion that is waited for.
LEMMA CalmAnswered ==
    ASSUME CalmInv, EventTypes, todo \in Seq(CallRecord), AwaitAnswered
    PROVE  CalmInv'
<1> SUFFICES ASSUME calm' PROVE CalmInv'
    BY DEF CalmInv
<1> USE DEF pool, flags, client, lent, component, callback
<1>1. /\ calm /\ SamePlace /\ UNCHANGED <<held, returning>>
      /\ Calling("await") /\ Answers(On) # {} /\ mEvents' = RemoveAt(mEvents, Min(Answers(On)))
    BY DEF AwaitAnswered, SamePlace
<1>2. Sane /\ todo # << >> /\ Head(todo).do = "await"
    BY <1>1 DEF CalmInv, Calling
<1>3. On \in Seen /\ Seen' = Seen \ {On}
    <2>1. /\ Min(Answers(On)) \in DOMAIN mEvents
          /\ mEvents[Min(Answers(On))] \in ErrorEvent \cup {On}
          /\ ToSet(mEvents') = ToSet(mEvents) \ {mEvents[Min(Answers(On))]}
        BY <1>1, FirstAnswer DEF EventTypes
    <2>2. mEvents[Min(Answers(On))] \in Seen
        BY <2>1 DEF Seen, ToSet
    <2>3. mEvents[Min(Answers(On))] = On
        BY <1>2, <2>1, <2>2 DEF Sane
    <2>4. QED
        BY <2>1, <2>2, <2>3 DEF Seen
<1>4. Sane' /\ Drained' = Drained
    BY <1>1, <1>2, <1>3 DEF Sane, SamePlace, Drained
<1>5. Proceed \/ (GiveUp /\ On = "settings")
    BY DEF AwaitAnswered, AwaitReturns
<1>6. \A e : /\ Await(e).do = "await" /\ Flush(e).do = "flush"
             /\ Await(e).on = e
    BY DEF Await, Flush
<1>7. CASE Feeding /\ FeedCall(Head(todo))
    <2>1. On \in Change
        BY <1>2, <1>7 DEF FeedCall, On
    <2>2. SeenAlike
        BY <1>3, <2>1 DEF SeenAlike, Command, ErrorEvent, Change
    <2>3. QED
        BY <1>1, <1>2, <1>5, <1>7, <2>2, CalmFeeds
<1>8. ASSUME NEW sent \in BOOLEAN, Resetting(sent), Tail(todo) = << >>,
             Head(todo) = IF sent THEN Await("flushIn") ELSE Flush("flushIn")
      PROVE  CalmInv'
    <2>1. sent /\ On = "flushIn"
        BY <1>2, <1>6, <1>8 DEF On
    <2>2. Matched("none")'
        <3>1. Matched("flushIn") /\ "flushIn" \in Command /\ "flushIn" \in Seen
            BY <1>3, <1>8, <2>1 DEF Resetting, Command
        <3>2. Seen' = Seen \ {"flushIn"} /\ UNCHANGED commands
            BY <1>1, <1>3, <2>1 DEF SamePlace
        <3>3. QED
            BY <3>1, <3>2, MatchedTaken
    <2>3. todo' = << >> /\ Untouched'
        BY <1>1, <1>5, <1>8, <2>1 DEF Proceed, Resetting, Untouched, SamePlace
    <2>4. Feeding'
        BY <2>2, <2>3 DEF Feeding
    <2>5. QED
        BY <1>4, <2>4 DEF CalmInv
<1>9. ASSUME NEW k \in 1 .. 12, NEW sent \in BOOLEAN, Closing(k, sent), Tail(todo) = Left(k + 1, FALSE),
             Head(todo) = IF sent THEN Await(CloseCalls[k].on) ELSE CloseCalls[k]
      PROVE  CalmInv'
    <2> DEFINE c == CloseCalls[k].on
    <2>1. k \in {1, 3, 4, 7, 10, 11} /\ On = c /\ c = Due(k, sent)
        <3>1. CASE sent
            BY <1>6, <1>9, <3>1 DEF On, Closing, Due
        <3>2. CASE ~sent
            <4>1. CloseCalls[k].do = "await" /\ On = c
                BY <1>2, <1>9, <3>2 DEF On
            <4>2. k = 7
                BY <4>1, CallAt
            <4>3. QED
                BY <3>2, <4>1, <4>2, CallAt DEF Due
        <3>3. QED
            BY <3>1, <3>2
    <2>2. /\ c \in Command
          /\ c = "idle" => k = 10
          /\ c = "loaded" => k = 11
          /\ k = 10 => c = "idle"
          /\ k = 11 => c = "loaded"
          /\ k = 1 => c = "flushIn"
        BY <2>1, CallAt DEF Command
    <2> HIDE DEF c
    <2>3. Matched(c) /\ c \in Seen /\ Seen' = Seen \ {c}
        BY <1>3, <1>9, <2>1 DEF Closing
    <2>4. Matched("none")'
        <3>1. UNCHANGED commands
            BY <1>1 DEF SamePlace
        <3>2. QED
            BY <2>2, <2>3, <3>1, MatchedTaken
    <2>5. todo' = Left(k + 1, FALSE) /\ Due(k + 1, FALSE) = "none"
        <3>1. todo' = Left(k + 1, FALSE)
            BY <1>5, <1>9, <2>1, <2>2 DEF Proceed, Command
        <3>2. k + 1 \notin {6, 7}
            BY <2>1
        <3>3. QED
            BY <3>1, <3>2 DEF Due
    <2>6. state' = StateAt(k + 1)'
        <3>1. state' = StateAt(k)
            BY <1>1, <1>9 DEF Closing, SamePlace
        <3>2. "loaded" \notin Seen' /\ "idle" \notin Seen'
            BY <2>4 DEF Matched, Command
        <3>3. ("idle" \in Seen => c = "idle") /\ ("loaded" \in Seen => c = "loaded")
            BY <2>3 DEF Matched, Command
        <3>4. CASE k = 10
            BY <2>2, <2>3, <3>1, <3>2, <3>4 DEF StateAt
        <3>5. CASE k = 11
            BY <2>2, <2>3, <3>1, <3>2, <3>5 DEF StateAt
        <3>6. CASE k \in {1, 3, 4, 7}
            <4>1. "idle" \notin Seen /\ k <= 10 /\ k + 1 <= 10
                BY <2>2, <3>3, <3>6
            <4>2. QED
                BY <3>1, <3>2, <4>1 DEF StateAt
        <3>7. QED
            BY <2>1, <3>4, <3>5, <3>6
    <2>7. Drained'
        BY <1>4, <1>9, <2>1, <2>2, <2>3 DEF Closing
    <2>8. /\ mExit' => k + 1 >= 3
          /\ mHandle' = IF k + 1 = 13 THEN "freed" ELSE "open"
          /\ freed' = IF k + 1 <= 6 THEN {} ELSE Buffer
          /\ k + 1 <= 9 => mInputBuffers' = Buffer
        BY <1>1, <1>9, <2>1 DEF Closing, SamePlace
    <2>9. QED
        BY <1>4, <2>4, <2>5, <2>6, <2>7, <2>8, CalmAdvances
<1>10. QED
    BY <1>1, <1>2, <1>7, <1>8, <1>9, WhereInMethod

\* The other calls of close, and a wait for its buffers that expires.
LEMMA CalmCloses ==
    ASSUME CalmInv, todo \in Seq(CallRecord), Proceed, NEW name, Calling(name),
           InputDone \/ Exit \/ FreeBuffers \/ ForgetBuffers \/ FreeHandle \/ Expire,
           name \in {"inputDone", "exit", "free", "forget", "freeHandle"}
    PROVE  CalmInv'
<1> SUFFICES ASSUME calm' PROVE CalmInv'
    BY DEF CalmInv
<1> USE DEF pool, flags, client, lent, component, callback
<1>1. /\ calm /\ UNCHANGED <<mEvents, commands, state, held, returning, raising, dropped>>
      /\ (mResourceError' => mResourceError) /\ Head(todo).do = name
    <2>1. CASE FreeHandle
        BY <2>1 DEF FreeHandle, Calling
    <2>2. CASE InputDone
        BY <2>2 DEF InputDone, Calling
    <2>3. CASE Exit
        BY <2>3 DEF Exit, Calling
    <2>4. CASE FreeBuffers
        BY <2>4 DEF FreeBuffers, Calling
    <2>5. CASE ForgetBuffers
        BY <2>5 DEF ForgetBuffers, Calling
    <2>6. CASE Expire
        BY <2>6 DEF Expire, Calling
    <2>7. QED
        BY <2>1, <2>2, <2>3, <2>4, <2>5, <2>6
<1>2. Seen' = Seen /\ Drained' = Drained /\ \A c : Matched(c)' <=> Matched(c)
    BY <1>1 DEF Seen, Drained, Matched
<1>3. Sane'
    BY <1>1, <1>2 DEF CalmInv, Sane
<1>4. PICK k \in 1 .. 12 : /\ Closing(k, FALSE) /\ Tail(todo) = Left(k + 1, FALSE)
                           /\ CloseCalls[k].do = name
    BY <1>1, WhereInClose
<1>5. /\ name = "exit" => k = 2
      /\ name = "free" => k = 6
      /\ name = "inputDone" => k = 8
      /\ name = "forget" => k = 9
      /\ name = "freeHandle" => k = 12
    BY <1>4, CallAt
<1>6. k \in {2, 6, 8, 9, 12}
    BY <1>5
<1>7. Drained'
    BY <1>2, <1>4, <1>6 DEF Closing
<1>8. Matched(Due(k + 1, FALSE))'
    <2>1. Due(k + 1, FALSE) = Due(k, FALSE)
        BY <1>6 DEF Due
    <2>2. Matched(Due(k + 1, FALSE))
        BY <1>4, <2>1 DEF Closing
    <2>3. QED
        BY <1>2, <2>2
<1>9. state' = StateAt(k + 1)'
    <2>1. StateAt(k + 1) = StateAt(k)
        BY <1>6 DEF StateAt
    <2>2. StateAt(k + 1)' = StateAt(k + 1)
        BY <1>2 DEF StateAt
    <2>3. QED
        BY <1>1, <1>4, <2>1, <2>2 DEF Closing
<1>10. /\ mHandle = "open" /\ freed = (IF k <= 6 THEN {} ELSE Buffer)
       /\ (k <= 9 => mInputBuffers = Buffer) /\ (mExit => k >= 3)
    BY <1>4 DEF Closing
<1>11. todo' = Left(k + 1, FALSE)
    BY <1>4 DEF Proceed
<1>12. /\ mExit' => k + 1 >= 3
       /\ mHandle' = IF k + 1 = 13 THEN "freed" ELSE "open"
       /\ freed' = IF k + 1 <= 6 THEN {} ELSE Buffer
       /\ k + 1 <= 9 => mInputBuffers' = Buffer
    <2>1. CASE InputDone \/ Expire
        <3>1. /\ name = "inputDone"
              /\ UNCHANGED <<mExit, mHandle, freed, mInputBuffers>>
            BY <1>1, <2>1, ComponentAssumption DEF InputDone, Expire, Calling
        <3>2. k = 8 /\ k + 1 = 9
            BY <1>5, <3>1
        <3>3. QED
            BY <1>10, <3>1, <3>2
    <2>2. CASE Exit
        BY <1>1, <1>5, <1>10, <2>2 DEF Exit, Calling
    <2>3. CASE FreeBuffers
        BY <1>1, <1>5, <1>10, <2>3 DEF FreeBuffers, Calling
    <2>4. CASE ForgetBuffers
        BY <1>1, <1>5, <1>10, <2>4 DEF ForgetBuffers, Calling
    <2>5. CASE FreeHandle
        BY <1>1, <1>5, <1>10, <2>5 DEF FreeHandle, Calling
    <2>6. QED
        BY <2>1, <2>2, <2>3, <2>4, <2>5
<1>13. QED
    BY <1>3, <1>7, <1>8, <1>9, <1>11, <1>12, CalmAdvances

\* A wait that expires is for a buffer, for a change or for the buffers of close.
LEMMA CalmExpires ==
    ASSUME CalmInv, Waiting, todo \in Seq(CallRecord), Expire
    PROVE  CalmInv'
<1> SUFFICES ASSUME calm' PROVE CalmInv'
    BY DEF CalmInv
<1> USE DEF pool, flags, client, lent, component, callback
<1>1. /\ calm /\ ~(Calling("await") /\ On \in Command) /\ SamePlace /\ UNCHANGED mEvents
      /\ todo # << >> /\ Head(todo).do \in {"get", "await", "inputDone"}
      /\ IF Calling("get") THEN GiveUp ELSE Proceed
    BY DEF Expire, Expiry, SamePlace, Waiting
<1>2. Sane /\ SeenAlike
    BY <1>1 DEF CalmInv, SeenAlike, Seen
<1>3. CASE Calling("get")
    BY <1>1, <1>2, <1>3, WhereInFeed, CalmFeeds
<1>4. CASE Calling("inputDone")
    <2>1. ~Calling("get")
        BY <1>4 DEF Calling
    <2>2. QED
        BY <1>1, <1>4, <2>1, CalmCloses
<1>5. CASE Calling("await")
    <2>1. Feeding
        <3>1. \A e : Await(e).on = e /\ Await(e).do = "await" /\ Flush(e).do = "flush"
            BY DEF Await, Flush
        <3>2. ASSUME NEW sent \in BOOLEAN,
                     Head(todo) = IF sent THEN Await("flushIn") ELSE Flush("flushIn")
              PROVE  FALSE
            BY <1>1, <1>5, <3>1, <3>2 DEF On, Command, Calling
        <3>3. ASSUME NEW k \in 1 .. 12, NEW sent \in BOOLEAN, Closing(k, sent),
                     Head(todo) = IF sent THEN Await(CloseCalls[k].on) ELSE CloseCalls[k]
              PROVE  FALSE
            <4>1. CASE sent
                <5>1. k \in {1, 3, 4, 10, 11} /\ On = CloseCalls[k].on
                    BY <3>1, <3>3, <4>1 DEF Closing, On
                <5>2. QED
                    BY <1>1, <1>5, <5>1, CallAt DEF Command
            <4>2. CASE ~sent
                <5>1. CloseCalls[k].do = "await" /\ On = CloseCalls[k].on
                    BY <1>5, <3>3, <4>2 DEF On, Calling
                <5>2. k = 7
                    BY <5>1, CallAt
                <5>3. QED
                    BY <1>1, <1>5, <5>1, <5>2, CallAt DEF Command
            <4>3. QED
                BY <4>1, <4>2
        <3>4. QED
            BY <1>1, <3>2, <3>3, WhereInMethod
    <2>2. ~Calling("get")
        BY <1>5 DEF Calling
    <2>3. QED
        BY <1>1, <1>2, <2>1, <2>2, CalmFeeds
<1>6. QED
    BY <1>1, <1>3, <1>4, <1>5 DEF Calling

\* The component carries out the command that is under way.
LEMMA MatchedDone ==
    ASSUME NEW c, Matched(c), commands # << >>
    PROVE  /\ Head(commands) = c /\ Tail(commands) = << >> /\ c \in Command /\ c \notin Seen
           /\ Seen' = Seen \cup {c} /\ commands' = Tail(commands) => Matched(c)'
<1>1. commands = <<c>> /\ c \in Command /\ c \notin Seen
    BY DEF Matched
<1>2. Head(commands) = c /\ Tail(commands) = << >>
    BY <1>1
<1>3. ASSUME Seen' = Seen \cup {c}, commands' = Tail(commands) PROVE Matched(c)'
    BY <1>2, <1>3 DEF Matched
<1>4. QED
    BY <1>1, <1>2, <1>3

LEMMA CalmCompletes ==
    ASSUME CalmInv, EventTypes, Complete
    PROVE  CalmInv'
<1> SUFFICES ASSUME calm' PROVE CalmInv'
    BY DEF CalmInv
<1> USE DEF pool, flags, client, lent, component, callback
<1>1. /\ calm /\ commands # << >> /\ Added(Head(commands)) /\ commands' = Tail(commands)
      /\ state' = (IF Head(commands) \in {"idle", "loaded"} THEN Head(commands) ELSE state)
      /\ Head(commands) = "flushIn" => Drained
      /\ UNCHANGED <<todo, mExit, mHandle, freed, mInputBuffers, mResourceError, raising, dropped,
                     held, returning>>
    BY DEF Complete, AddEvent, CanComplete, Quiet, Drained
<1>2. Head(commands) \in Command /\ Seen' = Seen \cup {Head(commands)}
    <2>1. Head(commands) \in Command
        BY <1>1 DEF EventTypes
    <2>2. QED
        BY <1>1, <2>1, AddedEvent DEF EventTypes, Seen, Event
<1>3. Sane' /\ Drained' = Drained
    BY <1>1, <1>2 DEF CalmInv, Sane, Drained, Command, ErrorEvent
<1>4. ~Feeding
    BY <1>1, MatchedDone DEF Feeding, Command
<1>5. ASSUME NEW sent \in BOOLEAN, Resetting(sent) PROVE CalmInv'
    <2>1. sent /\ Head(commands) = "flushIn" /\ Matched("flushIn")'
        <3>1. CASE sent
            BY <1>1, <1>2, <1>5, <3>1, MatchedDone DEF Resetting
        <3>2. CASE ~sent
            BY <1>1, <1>5, <3>2, MatchedDone DEF Resetting, Command
        <3>3. QED
            BY <3>1, <3>2
    <2>2. Resetting(TRUE)'
        BY <1>1, <1>5, <2>1 DEF Resetting, Untouched
    <2>3. QED
        BY <1>3, <2>2 DEF CalmInv
<1>6. ASSUME NEW k \in 1 .. 13, NEW sent \in BOOLEAN, Closing(k, sent) PROVE CalmInv'
    <2> DEFINE c == Due(k, sent)
    <2>1. Matched(c)
        BY <1>6 DEF Closing
    <2>2. /\ c = "idle" => k = 10
          /\ c = "loaded" => k = 11
          /\ k = 10 /\ c \in Command => c = "idle"
          /\ k = 11 /\ c \in Command => c = "loaded"
          /\ k >= 12 => c \notin Command
        <3>1. CASE sent
            <4>1. k \in {1, 3, 4, 10, 11} /\ c = CloseCalls[k].on
                BY <1>6, <3>1 DEF Closing, Due
            <4>2. QED
                BY <4>1, CallAt
        <3>2. CASE ~sent
            BY <3>2 DEF Due, Command
        <3>3. QED
            BY <3>1, <3>2
    <2> HIDE DEF c
    <2>3. Head(commands) = c /\ c \in Command /\ c \notin Seen
        BY <1>1, <2>1, MatchedDone
    <2>4. Matched(c)'
        BY <1>1, <1>2, <2>1, <2>3, MatchedDone
    <2>5. state' = StateAt(k)'
        <3>1. state = StateAt(k) /\ Seen' = Seen \cup {c}
            BY <1>2, <1>6, <2>3 DEF Closing
        <3>2. ("idle" \in Seen => c = "idle") /\ ("loaded" \in Seen => c = "loaded")
            BY <2>1 DEF Matched, Command
        <3>3. CASE k = 10
            BY <1>1, <2>2, <2>3, <3>1, <3>3 DEF StateAt
        <3>4. CASE k = 11
            BY <1>1, <2>2, <2>3, <3>1, <3>4 DEF StateAt
        <3>5. CASE k < 10
            <4>1. state' = state /\ c # "idle"
                BY <1>1, <2>2, <2>3, <3>5
            <4>2. QED
                BY <3>1, <3>5, <4>1 DEF StateAt
        <3>6. k < 10 \/ k = 10 \/ k = 11 \/ k >= 12
            OBVIOUS
        <3>7. QED
            BY <2>2, <2>3, <3>3, <3>4, <3>5, <3>6
    <2>6. k >= 2 \/ "flushIn" \in Seen' => Drained'
        BY <1>1, <1>2, <1>3, <1>6 DEF Closing
    <2>7. Closing(k, sent)'
        BY <1>1, <1>6, <2>4, <2>5, <2>6 DEF Closing, c
    <2>8. QED
        BY <1>3, <2>7 DEF CalmInv
<1>7. QED
    BY <1>1, <1>4, <1>5, <1>6 DEF CalmInv

LEMMA InitCalm == Init => CalmInv
<1> SUFFICES ASSUME Init PROVE CalmInv
    OBVIOUS
<1>1. Seen = {} /\ "none" \notin Command
    BY DEF Init, Seen, ToSet, Command
<1>2. Sane /\ Feeding
    BY <1>1 DEF Init, Sane, Feeding, Untouched, Matched
<1>3. QED
    BY <1>2 DEF CalmInv

LEMMA StepCalm == CoreInv /\ Waiting /\ EventTypes /\ CalmInv /\ [Next]_vars => CalmInv'
<1> SUFFICES ASSUME CoreInv, Waiting, EventTypes, CalmInv, [Next]_vars PROVE CalmInv'
    OBVIOUS
<1>1. todo \in Seq(CallRecord) /\ room \in Nat /\ Types
    BY DEF CoreInv, Script, Types
<1>2. CASE \/ SeeRoom \/ Hold \/ Block \/ SpuriousWakeup \/ SignalChange \/ ReturnBuffer
           \/ EmptyBufferDone \/ UNCHANGED vars
    BY <1>1, <1>2, CalmStays
<1>3. CASE Decode \/ SubmitEOS \/ Reset \/ Close
    BY <1>1, <1>3, CalmStart
<1>4. CASE GetBuffer \/ GetNothing \/ EmptyThisBuffer \/ EmptyRejected
    BY <1>1, <1>4, CalmGet
<1>5. CASE FlushSend \/ SetStateSend \/ DisableSend
    BY <1>1, <1>5, CalmSends
<1>6. CASE AwaitAnswered
    BY <1>1, <1>6, CalmAnswered
<1>7. CASE AwaitNothing
    BY <1>7 DEF AwaitNothing, CalmInv, Sane
<1>8. CASE InputDone \/ Exit \/ FreeBuffers \/ ForgetBuffers \/ FreeHandle
    <2>1. PICK name \in {"inputDone", "exit", "free", "forget", "freeHandle"} : Calling(name)
        BY <1>8 DEF InputDone, Exit, FreeBuffers, ForgetBuffers, FreeHandle
    <2>2. Proceed
        BY <1>8 DEF InputDone, Exit, FreeBuffers, ForgetBuffers, FreeHandle
    <2>3. QED
        BY <1>1, <1>8, <2>1, <2>2, CalmCloses
<1>9. CASE Expire
    BY <1>1, <1>9, CalmExpires
<1>10. CASE Complete
    BY <1>10, CalmCompletes
<1>11. CASE RaiseError
    BY <1>11 DEF RaiseError, CalmInv
<1>12. CASE HandleError
    BY <1>12 DEF HandleError, CalmInv, Sane
<1>13. QED
    BY <1>2, <1>3, <1>4, <1>5, <1>6, <1>7, <1>8, <1>9, <1>10, <1>11, <1>12
    DEF Next, Client, ClientContinues, Component, Terminated

-------------------------------------------------------------------------------
(* What follows                                                             *)

\* The command that is waited for, or will be.
LEMMA IssuedIs ==
    ASSUME CalmInv, calm, todo \in Seq(CallRecord)
    PROVE  \E c : Matched(c) /\ \A d \in Command : Issued(d) <=> d = c
<1>1. \A e : /\ Await(e).do = "await" /\ Flush(e).do = "flush"
             /\ Await(e).on = e /\ Call(e).do = e
    BY DEF Await, Flush, Call
<1>2. CASE Feeding
    <2>1. ASSUME NEW d \in Command, Issued(d) PROVE FALSE
        <3>1. CASE Calling("await") /\ On = d
            <4>1. FeedCall(Head(todo)) /\ Head(todo).do = "await"
                <5>1. todo # << >> /\ Head(todo) = todo[1] /\ 1 \in DOMAIN todo
                    BY <3>1 DEF Calling
                <5>2. QED
                    BY <1>2, <3>1, <5>1 DEF Feeding, Calling
            <4>2. QED
                BY <3>1, <4>1 DEF FeedCall, On, Change, Command
        <3>2. CASE d = "disable" /\ Await(d) \in ToSet(todo)
            BY <1>1, <1>2, <3>2 DEF Feeding, ToSet, FeedCall, Change
        <3>3. QED
            BY <2>1, <3>1, <3>2 DEF Issued
    <2>2. Matched("none") /\ "none" \notin Command
        BY <1>2 DEF Feeding, Command
    <2>3. QED
        BY <2>1, <2>2
<1>3. ASSUME NEW sent \in BOOLEAN, Resetting(sent)
      PROVE  \E c : Matched(c) /\ \A d \in Command : Issued(d) <=> d = c
    <2>1. ToSet(todo) = {Head(todo)} /\ todo # << >>
          /\ Head(todo) = IF sent THEN Await("flushIn") ELSE Flush("flushIn")
        BY <1>3 DEF Resetting, ToSet
    <2>2. Await("disable") \notin ToSet(todo)
        BY <1>1, <2>1
    <2>3. CASE sent
        BY <1>1, <1>3, <2>1, <2>2, <2>3 DEF Resetting, Issued, Calling, On
    <2>4. CASE ~sent
        BY <1>1, <1>3, <2>1, <2>2, <2>4 DEF Resetting, Issued, Calling, On, Command
    <2>5. QED
        BY <2>3, <2>4
<1>4. ASSUME NEW k \in 1 .. 13, NEW sent \in BOOLEAN, Closing(k, sent)
      PROVE  \E c : Matched(c) /\ \A d \in Command : Issued(d) <=> d = c
    <2>1. \A i \in 1 .. 12 : /\ CloseCalls[i] = Await("disable") <=> i = 7
                             /\ CloseCalls[i] = Call("disable") <=> i = 5
        BY <1>1, CloseIs, CallAt
    <2>2. ASSUME NEW m \in 1 .. 13
          PROVE  /\ Await("disable") \in ToSet(Rest(m)) <=> m <= 7
                 /\ Call("disable") \in ToSet(Rest(m)) <=> m <= 5
        <3>1. \A i \in m .. 12 : i \in 1 .. 12 /\ i >= m
            OBVIOUS
        <3>2. (m <= 7 => 7 \in m .. 12) /\ (m <= 5 => 5 \in m .. 12)
            OBVIOUS
        <3>3. QED
            <4>1. \A x : x \in ToSet(Rest(m)) <=> \E i \in m .. 12 : x = CloseCalls[i]
                BY RestParts
            <4>2. m <= 7 <=> \E i \in m .. 12 : Await("disable") = CloseCalls[i]
                BY <2>1, <3>1, <3>2
            <4>3. m <= 5 <=> \E i \in m .. 12 : Call("disable") = CloseCalls[i]
                BY <2>1, <3>1, <3>2
            <4>4. QED
                BY <4>1, <4>2, <4>3
    <2>3. CASE sent
        <3>1. /\ k \in {1, 3, 4, 10, 11} /\ k \in 1 .. 12 /\ k + 1 \in 1 .. 13
              /\ todo = <<Await(CloseCalls[k].on)>> \o Rest(k + 1)
            BY <1>4, <2>3 DEF Closing, Left
        <3>2. Calling("await") /\ On = CloseCalls[k].on
            <4>1. todo # << >> /\ Head(todo) = Await(CloseCalls[k].on)
                BY <1>4, <2>3, <3>1, LeftParts DEF Closing
            <4>2. QED
                BY <1>1, <4>1 DEF Calling, On
        <3>3. \A x : x \in ToSet(todo) <=> x = Await(CloseCalls[k].on) \/ x \in ToSet(Rest(k + 1))
            <4>1. ASSUME NEW a, NEW r \in Seq(CallRecord), NEW x
                  PROVE  x \in ToSet(<<a>> \o r) <=> x = a \/ x \in ToSet(r)
                <5> DEFINE s == <<a>> \o r
                <5>1. /\ DOMAIN s = 1 .. Len(r) + 1 /\ s[1] = a
                      /\ \A i \in 1 .. Len(r) : s[i + 1] = r[i]
                      /\ DOMAIN r = 1 .. Len(r) /\ Len(r) \in Nat
                    OBVIOUS
                <5> HIDE DEF s
                <5>2. /\ 1 \in 1 .. Len(r) + 1 /\ \A i \in 1 .. Len(r) : i + 1 \in 1 .. Len(r) + 1
                      /\ \A i \in 1 .. Len(r) + 1 : i # 1 => i - 1 \in 1 .. Len(r) /\ (i - 1) + 1 = i
                    BY <5>1
                <5>3. ASSUME x \in ToSet(s) PROVE x = a \/ x \in ToSet(r)
                    <6>1. PICK i \in 1 .. Len(r) + 1 : x = s[i]
                        BY <5>1, <5>3 DEF ToSet
                    <6>2. CASE i # 1
                        <7>1. i - 1 \in 1 .. Len(r) /\ s[i] = r[i - 1]
                            BY <5>1, <5>2, <6>2
                        <7>2. QED
                            BY <5>1, <6>1, <7>1 DEF ToSet
                    <6>3. QED
                        BY <5>1, <6>1, <6>2
                <5>4. ASSUME x = a \/ x \in ToSet(r) PROVE x \in ToSet(s)
                    BY <5>1, <5>2, <5>4 DEF ToSet
                <5>5. QED
                    BY <5>3, <5>4 DEF s
            <4>2. QED
                <5>1. Rest(k + 1) \in Seq(CallRecord)
                    BY <3>1, RestParts
                <5>2. QED
                    BY <3>1, <4>1, <5>1
        <3>4. ~(Await("disable") \in ToSet(todo) /\ Call("disable") \notin ToSet(todo))
            <4>1. CloseCalls[k].on # "disable"
                BY <3>1, CallAt
            <4>2. k <= 4 \/ k >= 10
                BY <3>1
            <4>3. QED
                <5>1. Await("disable") # Await(CloseCalls[k].on)
                    BY <1>1, <4>1
                <5>2. CASE k <= 4
                    BY <2>2, <3>1, <3>3, <5>2
                <5>3. CASE k >= 10
                    <6>1. ~(k + 1 <= 7)
                        BY <3>1, <5>3
                    <6>2. QED
                        BY <2>2, <3>1, <3>3, <5>1, <6>1
                <5>4. QED
                    BY <4>2, <5>2, <5>3
        <3>5. Matched(CloseCalls[k].on)
            BY <1>4, <2>3 DEF Closing, Due
        <3>6. QED
            BY <3>2, <3>4, <3>5 DEF Issued
    <2>4. CASE ~sent
        <3>1. todo = Rest(k)
            BY <1>4, <2>4 DEF Closing, Left
        <3>2. Await("disable") \in ToSet(todo) /\ Call("disable") \notin ToSet(todo) <=> k \in {6, 7}
            BY <2>2, <3>1
        <3>3. Calling("await") => k = 7 /\ On = "disable"
            <4>1. ASSUME Calling("await") PROVE k = 7 /\ On = "disable"
                <5>1. k # 13
                    BY <3>1, <4>1, RestParts DEF Calling
                <5>2. k \in 1 .. 12
                    BY <5>1
                <5>3. Head(todo) = CloseCalls[k] /\ CloseCalls[k].do = "await"
                    BY <3>1, <4>1, <5>2, RestParts DEF Calling
                <5>4. k = 7
                    BY <5>2, <5>3, CallAt
                <5>5. QED
                    BY <5>3, <5>4, CallAt DEF On
            <4>2. QED
                BY <4>1
        <3>4. Matched(Due(k, FALSE))
            BY <1>4, <2>4 DEF Closing
        <3>5. CASE k \in {6, 7}
            <4>1. Due(k, FALSE) = "disable"
                BY <3>5 DEF Due
            <4>2. QED
                BY <3>2, <3>3, <3>4, <3>5, <4>1 DEF Issued
        <3>6. CASE k \notin {6, 7}
            <4>1. Due(k, FALSE) = "none" /\ "none" \notin Command
                BY <3>6 DEF Due, Command
            <4>2. QED
                BY <3>2, <3>3, <3>4, <3>6, <4>1 DEF Issued
        <3>7. QED
            BY <3>5, <3>6
    <2>5. QED
        BY <2>3, <2>4
<1>5. QED
    BY <1>2, <1>3, <1>4 DEF CalmInv

LEMMA TypesHold == CoreInv /\ Waiting /\ EventTypes /\ OtherTypes => TypeOK
<1> SUFFICES ASSUME CoreInv, Waiting, EventTypes, OtherTypes PROVE TypeOK
    OBVIOUS
<1>1. /\ mInputAvaliable \in Seq(Buffer) /\ mInputBuffers \subseteq Buffer
      /\ hand \in Buffer \cup {NoBuffer} /\ returning \in Buffer \cup {NoBuffer}
      /\ held \subseteq Buffer /\ dropped \subseteq Buffer
    BY DEF CoreInv, Types
<1>2. todo \in Seq([do : CallNames, on : Event \cup {"none"}])
    BY DEF CoreInv, Script, CallRecord
<1>3. waiting # "no" => todo # << >>
    BY DEF Waiting
<1>4. QED
    BY <1>1, <1>2, <1>3 DEF EventTypes, OtherTypes, TypeOK

LEMMA MatchedOnce ==
    ASSUME EventTypes, NEW c, Matched(c), NEW d \in Command
    PROVE  LET known == mEvents \o commands IN
             Cardinality({i \in DOMAIN known : known[i] = d}) = IF d = c THEN 1 ELSE 0
<1> DEFINE known == mEvents \o commands
           at == {i \in DOMAIN known : known[i] = d}
<1>1. /\ mEvents \in Seq(Event) /\ commands \in Seq(Event) /\ Len(mEvents) \in Nat
      /\ DOMAIN mEvents = 1 .. Len(mEvents)
      /\ \A i, j \in 1 .. Len(mEvents) : mEvents[i] = mEvents[j] => i = j
    BY DEF EventTypes, IsInjective, Event
<1>2. /\ DOMAIN known = 1 .. Len(mEvents) + Len(commands)
      /\ \A i \in 1 .. Len(mEvents) + Len(commands) :
            known[i] = IF i <= Len(mEvents) THEN mEvents[i] ELSE commands[i - Len(mEvents)]
    <2>1. /\ known \in Seq(Event) /\ Len(known) = Len(mEvents) + Len(commands)
          /\ \A i \in 1 .. Len(mEvents) + Len(commands) :
                known[i] = IF i <= Len(mEvents) THEN mEvents[i] ELSE commands[i - Len(mEvents)]
        BY <1>1, ConcatProperties
    <2> HIDE DEF known
    <2>2. QED
        BY <2>1
<1> HIDE DEF known
<1>3. d \in Seen <=> \E i \in 1 .. Len(mEvents) : mEvents[i] = d
    BY <1>1 DEF Seen, ToSet
<1>4. \/ at = {} /\ d # c
      \/ d = c /\ \E i : at = {i}
    <2>1. CASE commands = << >>
        <3>1. /\ DOMAIN known = 1 .. Len(mEvents)
              /\ \A i \in 1 .. Len(mEvents) : known[i] = mEvents[i]
            <4>1. Len(mEvents) + Len(commands) = Len(mEvents)
                BY <1>1, <2>1
            <4>2. QED
                BY <1>2, <4>1
        <3>2. CASE d = c
            <4>1. PICK i \in 1 .. Len(mEvents) : mEvents[i] = d
                BY <1>3, <2>1, <3>2 DEF Matched
            <4>2. at = {i}
                BY <1>1, <3>1, <4>1
            <4>3. QED
                BY <3>2, <4>2
        <3>3. CASE d # c
            <4>1. d \notin Seen
                BY <3>3 DEF Matched
            <4>2. at = {}
                BY <1>3, <3>1, <4>1
            <4>3. QED
                BY <3>3, <4>2
        <3>4. QED
            BY <3>2, <3>3
    <2>2. CASE commands # << >>
        <3>1. commands = <<c>> /\ c \in Command /\ c \notin Seen /\ d \notin Seen
            BY <2>2 DEF Matched
        <3> DEFINE n == Len(mEvents) + 1
        <3>2. Len(commands) = 1 /\ commands[1] = c
            BY <3>1
        <3>3. n \in 1 .. n /\ n \notin 1 .. Len(mEvents) /\ n - Len(mEvents) = 1 /\ ~(n <= Len(mEvents))
              /\ \A i \in 1 .. n : i = n \/ i \in 1 .. Len(mEvents)
            BY <1>1
        <3>4. DOMAIN known = 1 .. n /\ known[n] = c
            BY <1>2, <3>2, <3>3
        <3>5. \A i \in 1 .. Len(mEvents) : i \in 1 .. n /\ known[i] = mEvents[i]
            BY <1>1, <1>2, <3>2
        <3> HIDE DEF n
        <3>6. at = IF d = c THEN {n} ELSE {}
            BY <1>3, <3>1, <3>3, <3>4, <3>5
        <3>7. QED
            BY <3>6
    <2>3. QED
        BY <2>1, <2>2
<1>5. Cardinality(at) = IF d = c THEN 1 ELSE 0
    <2> HIDE DEF at
    <2>1. QED
        BY <1>4, FS_EmptySet, FS_Singleton
<1>6. QED
    BY <1>5 DEF known

LEMMA EventsFollow == CoreInv /\ Waiting /\ EventTypes /\ OtherTypes /\ CalmInv => EventsMatched
<1> SUFFICES ASSUME CoreInv, Waiting, EventTypes, OtherTypes, CalmInv PROVE EventsMatched
    OBVIOUS
<1>1. TypeOK /\ IsInjective(mEvents)
    BY TypesHold DEF EventTypes
<1>2. ASSUME calm, NEW d \in Command
      PROVE  LET known == mEvents \o commands IN
               Cardinality({i \in DOMAIN known : known[i] = d}) = IF Issued(d) THEN 1 ELSE 0
    <2>1. todo \in Seq(CallRecord)
        BY DEF CoreInv, Script
    <2>2. PICK c : Matched(c) /\ \A e \in Command : Issued(e) <=> e = c
        BY <1>2, <2>1, IssuedIs
    <2>3. QED
        BY <1>2, <2>2, MatchedOnce
<1>3. QED
    BY <1>1, <1>2 DEF EventsMatched

\* When close asserts that every buffer is back, every buffer is.
LEMMA AllAreBack ==
    ASSUME Types, Placed, Drained, dropped = {}, hand = NoBuffer, mInputBuffers = Buffer
    PROVE  AllBack
<1>1. Available = Buffer /\ IsInjective(mInputAvaliable) /\ mInputAvaliable \in Seq(Buffer)
    BY DEF Types, Placed, Drained, InHand, OnItsWay
<1> DEFINE D == 1 .. Len(mInputAvaliable)
<1>2. /\ Len(mInputAvaliable) \in Nat /\ DOMAIN mInputAvaliable = D
      /\ IsFiniteSet(D) /\ Cardinality(D) = Len(mInputAvaliable)
    <2>1. Len(mInputAvaliable) \in Nat /\ DOMAIN mInputAvaliable = D
        BY <1>1
    <2>2. IsFiniteSet(D) /\ Cardinality(D) = Len(mInputAvaliable)
        <3>1. 1 \in Int /\ Len(mInputAvaliable) \in Int
            BY <2>1
        <3>2. /\ IsFiniteSet(D)
              /\ Cardinality(D) = IF 1 > Len(mInputAvaliable) THEN 0 ELSE Len(mInputAvaliable) - 1 + 1
            BY <3>1, FS_Interval
        <3>3. QED
            BY <2>1, <3>2
    <2>3. QED
        BY <2>1, <2>2
<1> HIDE DEF D
<1>3. mInputAvaliable \in Bijection(D, Buffer)
    <2>1. mInputAvaliable \in [D -> Buffer]
        <3>1. mInputAvaliable \in [1 .. Len(mInputAvaliable) -> Buffer]
            BY <1>1
        <3>2. QED
            BY <3>1 DEF D
    <2>2. \A b \in Buffer : \E i \in D : mInputAvaliable[i] = b
        BY <1>1, <1>2 DEF Available, ToSet
    <2>3. QED
        BY <1>1, <2>1, <2>2 DEF Bijection, Injection, Surjection
<1>4. Cardinality(D) = Cardinality(Buffer)
    BY <1>2, <1>3, FS_Bijection, BufferAssumption DEF ExistsBijection
<1>5. QED
    BY <1>2, <1>4 DEF AllBack

LEMMA TeardownFollows == CoreInv /\ CalmInv => TeardownClean
<1> SUFFICES ASSUME CoreInv, CalmInv, calm PROVE TeardownClean
    BY DEF TeardownClean
<1>1. todo \in Seq(CallRecord) /\ Types /\ Script
    BY DEF CoreInv, Script
<1>2. Sane
    BY DEF CalmInv
<1>3. freed \cap (held \cup OnItsWay) = {}
    BY DEF CalmInv, Feeding, Resetting, Untouched, Closing, Drained, OnItsWay
<1>4. ASSUME Calling("forget") PROVE AllBack
    <2>1. PICK k \in 1 .. 12 : Closing(k, FALSE) /\ CloseCalls[k].do = "forget"
        BY <1>1, <1>4, WhereInClose
    <2>2. k = 9
        BY <2>1, CallAt
    <2>3. Drained /\ mInputBuffers = Buffer
        BY <2>1, <2>2 DEF Closing
    <2>4. hand = NoBuffer /\ dropped = {}
        BY <1>1, <1>2, <1>4, EmptyHanded DEF Sane
    <2>5. Buffer # {}
        BY BufferAssumption, FS_EmptySet
    <2>6. Placed
        BY <2>3, <2>5, PlacedIsConserved DEF CoreInv
    <2>7. QED
        BY <1>1, <2>3, <2>4, <2>6, AllAreBack
<1>5. ASSUME Calling("freeHandle") PROVE state = "loaded" /\ commands = << >>
    <2>1. PICK k \in 1 .. 12 : Closing(k, FALSE) /\ CloseCalls[k].do = "freeHandle"
        BY <1>1, <1>5, WhereInClose
    <2>2. k = 12
        BY <2>1, CallAt
    <2>3. "none" \notin Command
        BY DEF Command
    <2>4. QED
        BY <2>1, <2>2, <2>3 DEF Closing, StateAt, Due, Matched
<1>6. QED
    BY <1>3, <1>4, <1>5 DEF TeardownClean

CalmCoreInv == CoreInv /\ Waiting /\ EventTypes /\ OtherTypes /\ CalmInv

LEMMA CalmCoreHolds == Spec => []CalmCoreInv
<1>1. Init => CalmCoreInv
    <2>1. Init => Waiting
        BY DEF Init, Waiting
    <2>2. QED
        BY <2>1, InitCore, InitEvents, InitCalm DEF CalmCoreInv
<1>2. CalmCoreInv /\ [Next]_vars => CalmCoreInv'
    BY StepCore, StepWaiting, StepEvents, StepOther, StepCalm DEF CalmCoreInv
<1>3. QED
    BY <1>1, <1>2, PTL DEF Spec

\* No event is announced twice, and as long as the component is calm every command is answered
\* once, to the wait that it is for (addEvent, waitCommand, flushInput, disableInputPort,
\* setState); the state is well typed.
THEOREM EventsAreMatched == Spec => []EventsMatched
<1>1. CalmCoreInv => EventsMatched
    BY EventsFollow DEF CalmCoreInv
<1>2. QED
    BY <1>1, CalmCoreHolds, PTL

\* As long as the component is calm, the teardown frees nothing it has, the assert of
\* freeInputBuffers holds, and OMX_FreeHandle finds it loaded and idle (deInit).
THEOREM TeardownIsClean == Spec => []TeardownClean
<1>1. CalmCoreInv => TeardownClean
    BY TeardownFollows DEF CalmCoreInv
<1>2. QED
    BY <1>1, CalmCoreHolds, PTL

-------------------------------------------------------------------------------
(* The core is a buffer pool.  Unlike the above this holds whatever the    *)
(* component does, and needs of the client only where in its methods it    *)
(* is: it hands out and lends before exit, and forgets after it.           *)

InUse == mHandle = "open" /\ ~mExit /\ mInputBuffers = Buffer
Fills == InUse /\ \A i \in DOMAIN todo : FeedCall(todo[i])
Flushes == InUse /\ todo \in {<<Flush("flushIn")>>, <<Await("flushIn")>>}
TearsDown(k, sent) ==
    /\ sent => k \in {1, 3, 4, 10, 11}
    /\ todo = Left(k, sent)
    /\ mExit <=> k >= 3
    /\ mHandle = IF k = 13 THEN "freed" ELSE "open"
    /\ mInputBuffers = IF k <= 9 THEN Buffer ELSE {}
StageInv == Fills \/ Flushes \/ \E k \in 1 .. 13, sent \in BOOLEAN : TearsDown(k, sent)

\* The call in progress, by the method it belongs to.
LEMMA WhereInStage ==
    ASSUME StageInv, todo \in Seq(CallRecord), todo # << >>
    PROVE  \/ Fills /\ FeedCall(Head(todo))
           \/ /\ InUse /\ Tail(todo) = << >>
              /\ Head(todo) \in {Await("flushIn"), Flush("flushIn")}
           \/ \E k \in 1 .. 12, sent \in BOOLEAN :
                 /\ TearsDown(k, sent) /\ Tail(todo) = Left(k + 1, FALSE)
                 /\ Head(todo) = IF sent THEN Await(CloseCalls[k].on) ELSE CloseCalls[k]
<1>1. ASSUME Fills PROVE FeedCall(Head(todo))
    <2>1. Head(todo) = todo[1] /\ 1 \in DOMAIN todo
        OBVIOUS
    <2>2. QED
        BY <1>1, <2>1 DEF Fills
<1>2. ASSUME Flushes
      PROVE  Tail(todo) = << >> /\ Head(todo) \in {Await("flushIn"), Flush("flushIn")}
    <2>1. ASSUME NEW a PROVE Tail(<<a>>) = << >> /\ Head(<<a>>) = a
        OBVIOUS
    <2>2. PICK a \in {Await("flushIn"), Flush("flushIn")} : todo = <<a>>
        BY <1>2 DEF Flushes
    <2>3. QED
        BY <2>1, <2>2
<1>3. ASSUME NEW k \in 1 .. 13, NEW sent \in BOOLEAN, TearsDown(k, sent)
      PROVE  /\ k \in 1 .. 12 /\ Tail(todo) = Left(k + 1, FALSE)
             /\ Head(todo) = IF sent THEN Await(CloseCalls[k].on) ELSE CloseCalls[k]
    <2>1. k # 13
        BY <1>3, RestParts DEF TearsDown, Left
    <2>2. k \in 1 .. 12
        BY <2>1
    <2>3. QED
        BY <1>3, <2>2, LeftParts DEF TearsDown
<1>4. QED
    BY <1>1, <1>2, <1>3 DEF StageInv, Flushes

\* A call that only decode and submitEOS make.
LEMMA FeedsInStage ==
    ASSUME StageInv, todo \in Seq(CallRecord), todo # << >>, FeedCall(Head(todo))
    PROVE  Fills
<1>1. \A e \in Command : ~FeedCall(Await(e)) /\ ~FeedCall(Flush(e))
    BY DEF FeedCall, Await, Flush, Command, Change
<1>2. \A k \in 1 .. 12 : ~FeedCall(CloseCalls[k])
    BY CallAt DEF FeedCall, Change
<1>3. \A k \in {1, 3, 4, 10, 11} : CloseCalls[k].on \in Command
    BY CallAt DEF Command
<1>4. "flushIn" \in Command
    BY DEF Command
<1>5. QED
    BY <1>1, <1>2, <1>3, <1>4, WhereInStage DEF TearsDown

\* A call of close, other than the waits for the completion of a command.
LEMMA ClosesInStage ==
    ASSUME StageInv, todo \in Seq(CallRecord), NEW name, Calling(name),
           name \notin {"get", "empty", "await", "flush"}
    PROVE  \E k \in 1 .. 12 : /\ TearsDown(k, FALSE) /\ Tail(todo) = Left(k + 1, FALSE)
                              /\ CloseCalls[k].do = name
<1>1. todo # << >> /\ Head(todo).do = name
    BY DEF Calling
<1>2. ~FeedCall(Head(todo))
    BY <1>1 DEF FeedCall
<1>3. \A e : Await(e).do = "await" /\ Flush(e).do = "flush"
    BY DEF Await, Flush
<1>4. QED
    BY <1>1, <1>2, <1>3, WhereInStage

SameStage == UNCHANGED <<mExit, mHandle, mInputBuffers>>

\* What is not part of a method leaves the client where it is.
LEMMA StageStays == ASSUME StageInv, SameStage, UNCHANGED todo PROVE StageInv'
<1>1. InUse' = InUse
    BY DEF SameStage, InUse
<1>2. Fills => Fills'
    BY <1>1 DEF Fills
<1>3. Flushes => Flushes'
    BY <1>1 DEF Flushes
<1>4. \A k \in 1 .. 13, sent \in BOOLEAN : TearsDown(k, sent) => TearsDown(k, sent)'
    BY DEF TearsDown, SameStage
<1>5. QED
    BY <1>2, <1>3, <1>4 DEF StageInv

LEMMA StageGivesUp == ASSUME InUse, SameStage, GiveUp PROVE StageInv'
BY DEF InUse, SameStage, GiveUp, StageInv, Fills

\* The method goes on with its next call.
LEMMA StageProceeds ==
    ASSUME StageInv, todo \in Seq(CallRecord), todo # << >>, Proceed, SameStage,
           Head(todo).do \notin {"exit", "forget", "freeHandle"}
    PROVE  StageInv'
<1>1. CASE Fills
    <2>1. /\ Len(todo) \in Nat /\ DOMAIN todo = 1 .. Len(todo) /\ DOMAIN todo' = 1 .. Len(todo) - 1
          /\ \A i \in 1 .. Len(todo) - 1 : todo'[i] = todo[i + 1]
        BY DEF Proceed
    <2>2. \A i \in 1 .. Len(todo) - 1 : i + 1 \in 1 .. Len(todo)
        BY <2>1
    <2>3. QED
        BY <1>1, <2>1, <2>2 DEF Fills, InUse, SameStage, StageInv
<1>2. CASE InUse /\ Tail(todo) = << >>
    BY <1>2 DEF Proceed, InUse, SameStage, StageInv, Fills
<1>3. ASSUME NEW k \in 1 .. 12, NEW sent \in BOOLEAN,
             TearsDown(k, sent), Tail(todo) = Left(k + 1, FALSE),
             Head(todo) = IF sent THEN Await(CloseCalls[k].on) ELSE CloseCalls[k]
      PROVE  StageInv'
    <2>1. k \notin {2, 9, 12}
        <3>1. sent => k \notin {2, 9, 12}
            BY <1>3 DEF TearsDown
        <3>2. ~sent => CloseCalls[k].do \notin {"exit", "forget", "freeHandle"}
            BY <1>3
        <3>3. CloseCalls[2].do = "exit" /\ CloseCalls[9].do = "forget" /\ CloseCalls[12].do = "freeHandle"
            BY CloseIs DEF Call
        <3>4. QED
            BY <3>1, <3>2, <3>3
    <2>2. k + 1 \in 1 .. 13
        OBVIOUS
    <2>3. todo' = Left(k + 1, FALSE)
        BY <1>3 DEF Proceed
    <2>4. TearsDown(k + 1, FALSE)'
        BY <1>3, <2>1, <2>3 DEF TearsDown, SameStage
    <2>5. QED
        BY <2>2, <2>4 DEF StageInv
<1>4. QED
    BY <1>1, <1>2, <1>3, WhereInStage

\* A command has been sent and its completion is waited for.
LEMMA StageSends ==
    ASSUME StageInv, todo \in Seq(CallRecord), NEW name \in {"flush", "setState"}, Calling(name),
           ThenAwait(On), SameStage
    PROVE  StageInv'
<1>1. todo # << >> /\ Head(todo).do = name
    BY DEF Calling
<1>2. ~FeedCall(Head(todo))
    BY <1>1 DEF FeedCall
<1>3. \A e : Await(e).do = "await" /\ Await(e).on = e /\ Flush(e).on = e
    BY DEF Await, Flush
<1>4. CASE InUse /\ Tail(todo) = << >> /\ Head(todo) = Flush("flushIn")
    <2>1. todo' = <<Await("flushIn")>>
        <3>1. ASSUME NEW a PROVE <<a>> \o << >> = <<a>>
            OBVIOUS
        <3>2. QED
            BY <1>3, <1>4, <3>1 DEF ThenAwait, On
    <2>2. QED
        BY <1>4, <2>1 DEF StageInv, Flushes, InUse, SameStage
<1>5. ASSUME NEW k \in 1 .. 12, NEW sent \in BOOLEAN,
             TearsDown(k, sent), Tail(todo) = Left(k + 1, FALSE),
             Head(todo) = IF sent THEN Await(CloseCalls[k].on) ELSE CloseCalls[k]
      PROVE  StageInv'
    <2>1. sent = FALSE
        BY <1>1, <1>3, <1>5
    <2>2. k \in {1, 3, 4, 10, 11} /\ On = CloseCalls[k].on
        BY <1>1, <1>5, <2>1, CallAt DEF On
    <2>3. todo' = Left(k, TRUE)
        BY <1>5, <2>1, <2>2, LeftParts DEF ThenAwait, TearsDown
    <2>4. k \in 1 .. 13 /\ TearsDown(k, TRUE)'
        BY <1>5, <2>2, <2>3 DEF TearsDown, SameStage
    <2>5. QED
        BY <2>4 DEF StageInv
<1>6. QED
    BY <1>1, <1>2, <1>3, <1>4, <1>5, WhereInStage

LEMMA StepStage == CoreInv /\ Waiting /\ StageInv /\ [Next]_vars => StageInv'
<1> SUFFICES ASSUME CoreInv, Waiting, StageInv, [Next]_vars PROVE StageInv'
    OBVIOUS
<1> USE DEF pool, flags, client, lent, component, callback
<1>1. todo \in Seq(CallRecord) /\ room \in Nat
    BY DEF CoreInv, Script, Types
<1>2. ASSUME NEW name, Calling(name) PROVE todo # << >> /\ Head(todo).do = name
    BY <1>2 DEF Calling
\* What gives up is decode or submitEOS.
<1>3. ASSUME todo # << >>, FeedCall(Head(todo)), GiveUp, SameStage PROVE StageInv'
    BY <1>1, <1>3, FeedsInStage, StageGivesUp DEF Fills
<1>4. CASE \/ SeeRoom \/ Hold \/ Block \/ SpuriousWakeup \/ EmptyBufferDone \/ ReturnBuffer
           \/ HandleError \/ UNCHANGED vars
    BY <1>4, StageStays DEF SeeRoom, Hold, Block, SpuriousWakeup, EmptyBufferDone, ReturnBuffer,
       HandleError, vars, SameStage
<1>5. CASE Complete \/ SignalChange \/ RaiseError
    BY <1>5, StageStays DEF Complete, SignalChange, RaiseError, SameStage
<1>6. CASE Decode \/ SubmitEOS \/ Reset \/ Close
  <2>1. todo = << >> /\ mHandle = "open" /\ SameStage
    BY <1>6 DEF Decode, SubmitEOS, Reset, Close, Idle, Start, SameStage
  <2>2. ASSUME NEW k \in 1 .. 13, NEW sent \in BOOLEAN, TearsDown(k, sent) PROVE FALSE
    <3>1. k # 13 => k \in 1 .. 12
        OBVIOUS
    <3>2. QED
        BY <2>1, <2>2, <3>1, LeftParts DEF TearsDown
  <2>3. InUse /\ InUse'
    BY <2>1, <2>2 DEF StageInv, Fills, Flushes, InUse, SameStage
  <2>4. CASE Decode \/ SubmitEOS
    <3>1. \A i \in DOMAIN todo' : FeedCall(todo'[i])
        BY <1>1, <2>4, FeedMethods DEF Decode, SubmitEOS, Start
    <3>2. QED
        BY <2>3, <3>1 DEF Fills, StageInv
  <2>5. CASE Reset
    <3>1. todo' = <<Flush("flushIn")>>
        BY <2>5 DEF Reset, Start
    <3>2. QED
        BY <2>3, <3>1 DEF Flushes, StageInv
  <2>6. CASE Close
    <3>1. todo' = Left(1, FALSE) /\ 1 \in 1 .. 13
        BY <2>6, RestParts DEF Close, Start, Left
    <3>2. TearsDown(1, FALSE)'
        BY <2>3, <3>1 DEF TearsDown, InUse
    <3>3. QED
        BY <3>1, <3>2 DEF StageInv
  <2>7. QED
    BY <1>6, <2>4, <2>5, <2>6
<1>7. CASE GetBuffer \/ GetNothing \/ EmptyThisBuffer \/ EmptyRejected
  <2>1. /\ Calling("get") \/ Calling("empty")
        /\ SameStage /\ (Proceed \/ GiveUp)
    BY <1>7 DEF GetBuffer, GetNothing, EmptyThisBuffer, EmptyRejected, SameStage
  <2>2. /\ todo # << >> /\ FeedCall(Head(todo))
        /\ Head(todo).do \notin {"exit", "forget", "freeHandle"}
    BY <1>2, <2>1 DEF FeedCall
  <2>3. QED
    BY <1>1, <1>3, <2>1, <2>2, StageProceeds
<1>8. CASE FlushSend \/ SetStateSend \/ DisableSend \/ InputDone \/ FreeBuffers
  <2>1. PICK name \in {"flush", "setState", "disable", "inputDone", "free"} :
           /\ Calling(name)
           /\ Proceed \/ (name \in {"flush", "setState"} /\ ThenAwait(On))
    <3>1. CASE FlushSend
        BY <3>1 DEF FlushSend
    <3>2. CASE SetStateSend
        BY <3>2 DEF SetStateSend
    <3>3. CASE DisableSend
        BY <3>3 DEF DisableSend
    <3>4. CASE InputDone \/ FreeBuffers
        BY <3>4 DEF InputDone, FreeBuffers
    <3>5. QED
        BY <1>8, <3>1, <3>2, <3>3, <3>4
  <2>2. SameStage
    BY <1>8 DEF FlushSend, SetStateSend, DisableSend, InputDone, FreeBuffers, SameStage
  <2>3. Head(todo).do \notin {"exit", "forget", "freeHandle"} /\ todo # << >>
    BY <1>2, <2>1
  <2>4. QED
    BY <1>1, <2>1, <2>2, <2>3, StageProceeds, StageSends
<1>9. CASE AwaitAnswered \/ AwaitNothing
  <2>1. Calling("await") /\ SameStage /\ (Proceed \/ (On = "settings" /\ GiveUp))
    BY <1>9 DEF AwaitAnswered, AwaitNothing, AwaitReturns, SameStage
  <2>2. Head(todo).do = "await" /\ todo # << >>
    BY <1>2, <2>1
  <2>3. On = "settings" => FeedCall(Head(todo))
    BY <2>2 DEF On, FeedCall, Change
  <2>4. QED
    BY <1>1, <1>3, <2>1, <2>2, <2>3, StageProceeds
<1>10. CASE Expire
  <2>1. /\ SameStage /\ todo # << >> /\ Head(todo).do \in {"get", "await", "inputDone"}
        /\ (Calling("get") /\ GiveUp) \/ Proceed
    BY <1>10 DEF Expire, Expiry, Waiting, SameStage
  <2>2. Calling("get") => FeedCall(Head(todo))
    BY <1>2 DEF FeedCall
  <2>3. QED
    BY <1>1, <1>3, <2>1, <2>2, StageProceeds
<1>11. CASE Exit \/ ForgetBuffers \/ FreeHandle
  <2>1. PICK name \in {"exit", "forget", "freeHandle"} : Calling(name)
    BY <1>11 DEF Exit, ForgetBuffers, FreeHandle
  <2>2. PICK k \in 1 .. 12 : /\ TearsDown(k, FALSE) /\ Tail(todo) = Left(k + 1, FALSE)
                             /\ CloseCalls[k].do = name
    BY <1>1, <2>1, ClosesInStage
  <2>3. /\ name = "exit" => k = 2
        /\ name = "forget" => k = 9
        /\ name = "freeHandle" => k = 12
    BY <2>2, CallAt
  <2>4. /\ mExit <=> k >= 3
        /\ mHandle = "open"
        /\ mInputBuffers = IF k <= 9 THEN Buffer ELSE {}
    BY <2>2 DEF TearsDown
  <2>5. todo' = Left(k + 1, FALSE)
    BY <1>11, <2>2 DEF Exit, ForgetBuffers, FreeHandle, Proceed
  <2>6. k + 1 \in 1 .. 13
    OBVIOUS
  <2>7. /\ mExit' <=> k + 1 >= 3
        /\ mHandle' = IF k + 1 = 13 THEN "freed" ELSE "open"
        /\ mInputBuffers' = IF k + 1 <= 9 THEN Buffer ELSE {}
    <3>1. CASE Exit
      <4>1. name = "exit" /\ k = 2
        BY <1>2, <2>1, <2>3, <3>1 DEF Exit
      <4>2. QED
        BY <2>4, <3>1, <4>1 DEF Exit
    <3>2. CASE ForgetBuffers
      <4>1. name = "forget" /\ k = 9
        BY <1>2, <2>1, <2>3, <3>2 DEF ForgetBuffers
      <4>2. QED
        BY <2>4, <3>2, <4>1 DEF ForgetBuffers
    <3>3. CASE FreeHandle
      <4>1. name = "freeHandle" /\ k = 12
        BY <1>2, <2>1, <2>3, <3>3 DEF FreeHandle
      <4>2. QED
        BY <2>4, <3>3, <4>1 DEF FreeHandle
    <3>4. QED
        BY <1>11, <3>1, <3>2, <3>3
  <2>8. TearsDown(k + 1, FALSE)'
    BY <2>5, <2>7 DEF TearsDown
  <2>9. QED
    BY <2>6, <2>8 DEF StageInv
<1>12. QED
  BY <1>4, <1>5, <1>6, <1>7, <1>8, <1>9, <1>10, <1>11
  DEF Next, Client, ClientContinues, Component, Terminated

\* A buffer on its way back has left the component, also when the pool has been forgotten.
Apart == returning = NoBuffer \/ returning \notin held

LEMMA FeedsInUse == ASSUME CoreInv, StageInv, Calling("get") \/ Calling("empty") PROVE InUse
<1>1. todo # << >> /\ FeedCall(Head(todo)) /\ todo \in Seq(CallRecord)
    BY DEF Calling, FeedCall, CoreInv, Script
<1>2. QED
    BY <1>1, FeedsInStage DEF Fills

LEMMA StepApart == CoreInv /\ StageInv /\ Apart /\ [Next]_vars => Apart'
<1> SUFFICES ASSUME CoreInv, StageInv, Apart, [Next]_vars PROVE Apart'
    OBVIOUS
<1> USE DEF pool, flags, client, lent, component, callback
<1>1. CASE EmptyThisBuffer
  <2>1. InUse /\ hand # NoBuffer /\ held' = held \cup {hand} /\ returning' = returning
    BY <1>1, FeedsInUse DEF EmptyThisBuffer, CoreInv, Script
  <2>2. Buffer # {}
    BY BufferAssumption, FS_EmptySet
  <2>3. Placed
    BY <2>1, <2>2, PlacedIsConserved DEF CoreInv, InUse
  <2>4. QED
    BY <2>1, <2>3 DEF Placed, InHand, OnItsWay, Apart
<1>2. CASE EmptyBufferDone
    BY <1>2 DEF EmptyBufferDone, Quiet, Apart
<1>3. CASE ReturnBuffer
    BY <1>3 DEF ReturnBuffer, Apart
<1>4. CASE Client /\ ~EmptyThisBuffer
  <2>1. UNCHANGED <<held, returning>>
    BY <1>4 DEF Client, ClientContinues, SeeRoom, Decode, SubmitEOS, Reset, Close, Start, GetBuffer,
       GetNothing, EmptyRejected, FlushSend, SetStateSend, DisableSend, AwaitAnswered, AwaitNothing,
       InputDone, Hold, Block, Exit, FreeBuffers, ForgetBuffers, FreeHandle, SpuriousWakeup, Expire
  <2>2. QED
    BY <2>1 DEF Apart
<1>5. CASE Complete \/ SignalChange \/ RaiseError \/ HandleError \/ UNCHANGED vars
    BY <1>5 DEF Complete, SignalChange, RaiseError, HandleError, vars, Apart
<1>6. QED
    BY <1>1, <1>2, <1>3, <1>4, <1>5 DEF Next, Component, Terminated

PoolInv == CoreInv /\ Waiting /\ StageInv /\ Apart

LEMMA PoolInvariant == Spec => []PoolInv
<1>1. Init => Waiting /\ StageInv /\ Apart
    BY DEF Init, Waiting, StageInv, Fills, InUse, Apart
<1>2. PoolInv /\ [Next]_vars => PoolInv'
    BY StepCore, StepWaiting, StepStage, StepApart DEF PoolInv
<1>3. QED
    BY <1>1, <1>2, InitCore, PTL DEF Spec, PoolInv

\* Every step of the core is one of the pool or leaves it alone.
LEMMA PoolStep == PoolInv /\ [Next]_vars => [Pool!Next]_(Pool!vars)
<1> SUFFICES ASSUME PoolInv, [Next]_vars PROVE Pool!Next \/ UNCHANGED Pool!vars
    OBVIOUS
<1> USE DEF pool, flags, client, lent, component, callback
<1>a. /\ CoreInv /\ StageInv /\ Apart /\ todo \in Seq(CallRecord)
      /\ hand \in Buffer \cup {NoBuffer} /\ returning \in Buffer \cup {NoBuffer}
      /\ held \subseteq Buffer /\ NoBuffer \notin Buffer
    BY BufferAssumption DEF PoolInv, CoreInv, Script, Types
<1>b. Buffer # {}
    BY BufferAssumption, FS_EmptySet
<1>c. UNCHANGED returning => UNCHANGED OnItsWay
    BY DEF OnItsWay
<1>d. UNCHANGED <<mExit, mInputBuffers>> => UNCHANGED PoolPhase
    BY DEF PoolPhase
<1>1. CASE GetBuffer
  <2>1. InUse /\ hand = NoBuffer
    <3>1. Calling("get")
      BY <1>1 DEF GetBuffer
    <3>2. QED
      BY <1>a, <3>1, FeedsInUse, EmptyHanded DEF CoreInv
  <2>2. PoolPhase = "open"
    BY <2>1 DEF InUse, PoolPhase
  <2>3. Pool!HandOut
    BY <1>1, <1>c, <1>d, <2>1, <2>2 DEF GetBuffer, Pool!HandOut
  <2>4. QED
    BY <2>3 DEF Pool!Next
<1>2. CASE EmptyThisBuffer
  <2>1. InUse /\ hand \in Buffer
    BY <1>2, <1>a, FeedsInUse DEF EmptyThisBuffer, CoreInv, Script
  <2>2. PoolPhase = "open"
    BY <2>1 DEF InUse, PoolPhase
  <2>3. Placed
    BY <1>a, <1>b, <2>1, PlacedIsConserved DEF CoreInv, InUse
  <2>4. hand \notin held \cup OnItsWay
    BY <1>a, <2>1, <2>3 DEF Placed, InHand
  <2>5. Pool!Lend
    BY <1>2, <1>c, <1>d, <2>1, <2>2, <2>4 DEF EmptyThisBuffer, Pool!Lend
  <2>6. QED
    BY <2>5 DEF Pool!Next
<1>3. CASE EmptyRejected
  <2>1. InUse /\ hand \in Buffer
    BY <1>3, <1>a, FeedsInUse DEF EmptyRejected, CoreInv, Script
  <2>2. PoolPhase = "open"
    BY <2>1 DEF InUse, PoolPhase
  <2>3. Pool!PutBack
    BY <1>3, <1>c, <1>d, <2>1, <2>2 DEF EmptyRejected, Return, Pool!PutBack
  <2>4. QED
    BY <2>3 DEF Pool!Next
<1>4. CASE EmptyBufferDone
  <2>1. PICK b \in held :
           /\ held' = held \ {b}
           /\ IF mExit THEN dropped' = dropped \cup {b} /\ UNCHANGED returning
                       ELSE returning' = b /\ UNCHANGED dropped
    BY <1>4 DEF EmptyBufferDone
  <2>2. /\ OnItsWay = {} /\ b \in Buffer
        /\ UNCHANGED <<mInputAvaliable, hand, PoolPhase>>
    BY <1>4, <1>a, <1>d DEF EmptyBufferDone, Quiet, OnItsWay
  <2>3. CASE mExit
    <3>1. held' \cup OnItsWay' = (held \cup OnItsWay) \ {b} /\ b \in held \cup OnItsWay
      BY <1>c, <2>1, <2>2, <2>3
    <3>2. PoolPhase # "open"
      BY <2>3 DEF PoolPhase
    <3>3. QED
      BY <2>1, <2>2, <2>3, <3>1, <3>2 DEF Pool!Drop, Pool!Next
  <2>4. CASE ~mExit
    <3>1. OnItsWay' = {b}
      BY <1>a, <2>1, <2>2, <2>4 DEF OnItsWay
    <3>2. held' \cup OnItsWay' = held \cup OnItsWay
      BY <2>1, <2>2, <3>1
    <3>3. QED
      BY <2>1, <2>2, <2>4, <3>2 DEF Pool!vars
  <2>5. QED
    BY <2>3, <2>4
<1>5. CASE ReturnBuffer
  <2>1. /\ OnItsWay = {returning} /\ OnItsWay' = {} /\ returning \notin held
        /\ UNCHANGED <<held, dropped, hand, PoolPhase>>
    BY <1>5, <1>a, <1>d DEF ReturnBuffer, OnItsWay, Apart
  <2>2. /\ held' \cup OnItsWay' = (held \cup OnItsWay) \ {returning}
        /\ returning \in held \cup OnItsWay
    BY <2>1
  <2>3. Pool!Return
    BY <1>5, <2>1, <2>2 DEF ReturnBuffer, Return, Pool!Return
  <2>4. QED
    BY <2>3 DEF Pool!Next
<1>6. CASE Exit
  <2>1. Calling("exit")
    BY <1>6 DEF Exit
  <2>2. hand = NoBuffer
    BY <1>a, <2>1, EmptyHanded DEF CoreInv
  <2>3. PICK k \in 1 .. 12 : TearsDown(k, FALSE) /\ CloseCalls[k].do = "exit"
    BY <1>a, <2>1, ClosesInStage
  <2>4. k = 2
    BY <2>3, CallAt
  <2>5. ~mExit /\ mInputBuffers # {}
    BY <1>b, <2>3, <2>4 DEF TearsDown
  <2>6. PoolPhase = "open" /\ PoolPhase' = "closing"
    BY <1>6, <2>5 DEF Exit, PoolPhase
  <2>7. Pool!Close
    BY <1>6, <1>c, <2>2, <2>6 DEF Exit, Pool!Close
  <2>8. QED
    BY <2>7 DEF Pool!Next
<1>7. CASE ForgetBuffers
  <2>1. Calling("forget")
    BY <1>7 DEF ForgetBuffers
  <2>2. PICK k \in 1 .. 12 : TearsDown(k, FALSE) /\ CloseCalls[k].do = "forget"
    BY <1>a, <2>1, ClosesInStage
  <2>3. k = 9
    BY <2>2, CallAt
  <2>4. mExit /\ mInputBuffers # {}
    BY <1>b, <2>2, <2>3 DEF TearsDown
  <2>5. PoolPhase = "closing" /\ PoolPhase' = "closed"
    BY <1>7, <2>4 DEF ForgetBuffers, PoolPhase
  <2>6. Pool!Forget
    BY <1>7, <1>c, <2>5 DEF ForgetBuffers, Pool!Forget
  <2>7. QED
    BY <2>6 DEF Pool!Next
\* All other steps move no buffer.
<1>8. CASE \/ SeeRoom \/ Decode \/ SubmitEOS \/ Reset \/ Close
           \/ GetNothing \/ FlushSend \/ SetStateSend \/ DisableSend \/ AwaitAnswered
           \/ AwaitNothing \/ InputDone \/ Hold \/ Block \/ FreeBuffers \/ FreeHandle
           \/ SpuriousWakeup \/ Expire
  <2>1. UNCHANGED <<mInputAvaliable, mInputBuffers, mExit, hand, held, dropped, returning>>
    BY <1>8 DEF SeeRoom, Decode, SubmitEOS, Reset, Close, Start, GetNothing, FlushSend,
       SetStateSend, DisableSend, AwaitAnswered, AwaitNothing, InputDone, Hold, Block, FreeBuffers,
       FreeHandle, SpuriousWakeup, Expire
  <2>2. QED
    BY <1>c, <1>d, <2>1 DEF Pool!vars
<1>9. CASE Complete \/ SignalChange \/ RaiseError \/ HandleError \/ UNCHANGED vars
  <2>1. UNCHANGED <<mInputAvaliable, mInputBuffers, mExit, hand, held, dropped, returning>>
    BY <1>9 DEF Complete, SignalChange, RaiseError, HandleError, vars
  <2>2. QED
    BY <1>c, <1>d, <2>1 DEF Pool!vars
<1>10. QED
  BY <1>1, <1>2, <1>3, <1>4, <1>5, <1>6, <1>7, <1>8, <1>9
  DEF Next, Client, ClientContinues, Component, Terminated

\* For any number of buffers and frames of any size, and whatever the component answers,
\* refuses, raises or leaves unanswered, the core implements the buffer pool: what is handed
\* out was available longest, what is lent is not handed out, and closing comes before
\* forgetting (getInputBuffer, emptyThisBuffer, decoderEmptyBufferDone, deInit).
THEOREM CoreIsPool == Spec => ImplementsPool
<1>1. Init => Pool!Init
    <2> SUFFICES ASSUME Init PROVE Pool!Init
        OBVIOUS
    <2>1. OnItsWay = {} /\ held = {} /\ held \cup OnItsWay = {}
        BY DEF Init, OnItsWay
    <2>2. PoolPhase = "open"
        BY DEF Init, PoolPhase
    <2>3. hand = NoBuffer /\ dropped = {}
        BY DEF Init
    <2>4. Types /\ BuffersConserved /\ mInputBuffers = Buffer
        BY InitCore DEF CoreInv, Init
    <2>5. mInputBuffers # {} => Placed
        BY <2>4, PlacedIsConserved
    <2>6. InHand = {} /\ mInputBuffers # {}
        <3>1. Buffer # {}
            BY BufferAssumption, FS_EmptySet
        <3> QED BY <2>3, <2>4, <3>1 DEF InHand
    <2>7. /\ mInputAvaliable \in Seq(Buffer) /\ IsInjective(mInputAvaliable)
          /\ ToSet(mInputAvaliable) = Buffer
        BY <2>1, <2>3, <2>4, <2>5, <2>6 DEF Types, Placed, Available
    <2>8. Pool!IsInjective(mInputAvaliable) /\ Pool!ToSet(mInputAvaliable) = Buffer
        BY <2>7 DEF IsInjective, Pool!IsInjective, ToSet, Pool!ToSet
    <2> QED BY <2>1, <2>2, <2>3, <2>7, <2>8 DEF Pool!Init
<1>2. QED
    BY PoolInvariant, PoolStep, <1>1, PTL DEF Spec, ImplementsPool, Pool!Spec

-----------------------------------------------------------------------------
(* The deadline of every wait of a cOmxCore: addTimeSpec, for every value of *)
(* the clock, every timeout and every choice of units.                       *)

\* The loop invariant: what has been carried and what is left add up.
LoopInv ==
    /\ tv_sec \in Nat /\ tv_nsec \in Nat /\ nSec \in Int /\ now \in Nat /\ mSecs \in Nat
    /\ done \in BOOLEAN
    /\ tv_sec * Second + nSec = now + mSecs * MilliSecond
    /\ nSec >= 0
    /\ done => tv_nsec = nSec /\ nSec <= Second

\* The clock and the timeout establish the loop invariant.
LEMMA LoopInvInit == AddInit => LoopInv
<1> SUFFICES ASSUME AddInit PROVE LoopInv
    OBVIOUS
<1> USE UnitsAssumption, ClockAssumption DEF UnitsAssumption, ClockAssumption
<1>1. tv_sec \in Nat /\ tv_nsec \in Nat /\ mSecs \in Nat
    BY DEF AddInit
<1>2. mSecs * MilliSecond \in Nat /\ tv_sec * Second \in Nat
    BY <1>1
<1>3. nSec = tv_nsec + mSecs * MilliSecond /\ now = tv_sec * Second + tv_nsec /\ done = FALSE
    BY DEF AddInit
<1>4. /\ nSec \in Int /\ now \in Nat /\ nSec >= 0
      /\ tv_sec * Second + nSec = now + mSecs * MilliSecond
    <2> DEFINE ahead == mSecs * MilliSecond
               carried == tv_sec * Second
    <2>1. ahead \in Nat /\ carried \in Nat
        BY <1>2
    <2>2. nSec = tv_nsec + ahead /\ now = carried + tv_nsec
        BY <1>3
    <2> HIDE DEF ahead, carried
    <2>3. nSec \in Int /\ now \in Nat /\ nSec >= 0 /\ carried + nSec = now + ahead
        BY <1>1, <2>1, <2>2
    <2> QED BY <2>3 DEF ahead, carried
<1> QED BY <1>1, <1>3, <1>4 DEF LoopInv

\* Carrying a second keeps the sum and never makes nSec negative.
LEMMA LoopInvStep == LoopInv /\ [AddNext]_timeVars => LoopInv'
<1> SUFFICES ASSUME LoopInv, [AddNext]_timeVars PROVE LoopInv'
    OBVIOUS
<1> USE UnitsAssumption DEF UnitsAssumption, LoopInv
<1>1. CASE Carry
    <2>1. (tv_sec + 1) * Second = tv_sec * Second + Second
        OBVIOUS
    <2> QED BY <1>1, <2>1 DEF Carry, CarryOne, Exceeds
<1>2. CASE Store
    BY <1>2 DEF Store, Exceeds
<1>3. CASE UNCHANGED timeVars
    BY <1>3 DEF timeVars
<1> QED BY <1>1, <1>2, <1>3 DEF AddNext, Stored

\* addTimeSpec carries correctly: the deadline of every wait of cOmxCore lies exactly
\* the timeout ahead of the clock, whatever the units.
THEOREM DeadlineIsExact == AddTimeSpec => []DeadlineExact
<1>1. LoopInv => DeadlineExact
    BY DEF LoopInv, DeadlineExact
<1> QED BY <1>1, LoopInvInit, LoopInvStep, PTL DEF AddTimeSpec

\* The carry leaves at most one second in tv_nsec (one nanosecond too much: the bound
\* is reached, which pthread_cond_timedwait does not accept).
THEOREM DeadlineIsCarried == AddTimeSpec => []DeadlineCarried
<1>1. LoopInv => DeadlineCarried
    BY DEF LoopInv, DeadlineCarried
<1> QED BY <1>1, LoopInvInit, LoopInvStep, PTL DEF AddTimeSpec
===============================================================================
