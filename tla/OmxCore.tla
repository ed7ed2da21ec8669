-------------------------------- MODULE OmxCore -------------------------------
(***************************************************************************)
(* cOmxCore (cOmxCore.cpp), the wrapper of one OMX IL component, as        *)
(* cOmxVideo uses its mDecoder: the pool of input buffers, the queue of    *)
(* component events, the timed waits on both, and the teardown.            *)
(*                                                                         *)
(* Two threads meet here.  The client is whoever holds cOmxVideo::mMutex   *)
(* (the run thread of the player in decode, the playback loop in submitEOS, *)
(* reset and close); it works through the calls still to be made in todo,  *)
(* and a call that must wait goes through waiting = "holding" (it has      *)
(* found nothing and still holds the mutex), "blocked" (in                 *)
(* pthread_cond_timedwait) and back.  The component, which is not part of  *)
(* the repository, answers commands in order and calls back from a single  *)
(* thread; what it may do is the section "The component".                  *)
(***************************************************************************)
EXTENDS Integers, SequencesExt

CONSTANTS Buffer,      \* the input port's buffers
          NoBuffer,    \* nullptr
          MaxFrame,    \* bound: buffers that one packet fills
          MaxPending,  \* bound: unanswered commands with which reset is still called
          Errors,      \* the error events that the component may raise
          Late,        \* the calls whose waits may expire before their answer
          Rejects      \* whether OMX_EmptyThisBuffer and OMX_SendCommand may fail

ErrorEvent == {"corrupt", "other", "sameState"}
Command == {"flushIn", "flushOut", "disable", "idle", "loaded"}
Change == {"settings", "param"}
Event == ErrorEvent \cup Command \cup Change \* a command's name: its CmdComplete

ASSUME BufferAssumption ==
    /\ IsFiniteSet(Buffer) /\ NoBuffer \notin Buffer
    /\ MaxFrame \in 1 .. Cardinality(Buffer) /\ MaxPending \in Nat
ASSUME ComponentAssumption ==
    /\ Errors \subseteq ErrorEvent
    /\ Late \subseteq {"get", "await", "inputDone"} /\ Rejects \in BOOLEAN

VARIABLES
    mInputAvaliable, \* buffers ready to be filled, a FIFO
    mInputBuffers,   \* buffers allocated and not yet forgotten
    mEvents,
    mResourceError,
    mFlushInput,
    mExit,
    mHandle,         \* "open", or "freed" after OMX_FreeHandle
    todo,            \* what the client's method has still to call
    waiting,         \* "no", "holding" or "blocked"
    hand,            \* the buffer the client is filling
    room,            \* buffers that decode found free before it took mMutex
    held,            \* buffers the component has
    freed,           \* buffers given back with OMX_FreeBuffer
    dropped,         \* buffers returned to a core that was exiting
    commands,        \* commands the component has still to carry out
    state,           \* the component's state
    returning,       \* the buffer whose EmptyBufferDone callback is running
    raising,         \* the error whose event handler is running, or "none"
    calm             \* history: no error event, no refused call, no command unanswered in time

pool      == <<mInputAvaliable, mInputBuffers>>
flags     == <<mFlushInput, mExit, mHandle>>
client    == <<todo, waiting, hand, room>>
lent      == <<held, freed, dropped>>
component == <<commands, state>>
callback  == <<returning, raising>>
vars == <<pool, mEvents, mResourceError, flags, client, lent, component, callback, calm>>

\* allocInputBuffers has allocated the pool and the component is executing.
Init ==
    /\ mInputAvaliable \in SetToSeqs(Buffer)
    /\ mInputBuffers = Buffer
    /\ mEvents = << >>
    /\ mResourceError = FALSE /\ mFlushInput = FALSE /\ mExit = FALSE
    /\ mHandle = "open"
    /\ todo = << >> /\ waiting = "no" /\ hand = NoBuffer /\ room = 0
    /\ held = {} /\ freed = {} /\ dropped = {}
    /\ commands = << >> /\ state = "executing"
    /\ returning = NoBuffer /\ raising = "none"
    /\ calm = TRUE

-------------------------------------------------------------------------------
(* The methods of cOmxVideo, as the calls they make on mDecoder.            *)

Call(name) == [do |-> name, on |-> "none"]
Flush(port) == [do |-> "flush", on |-> port]
SetState(s) == [do |-> "setState", on |-> s]
Await(event) == [do |-> "await", on |-> event]

SendBuffer == <<Call("get"), Call("empty")>>
SendPart == <<Call("get"), Call("empty"), Await("settings"), Await("param")>>

FreeInputBuffers ==
    <<Call("disable"), Call("free"), Await("disable"), Call("inputDone"),
      Call("forget")>>
DeInitFreesFirst ==
    FreeInputBuffers \o <<Call("exit"), Flush("flushIn"), Flush("flushOut")>>
      \o <<SetState("idle"), SetState("loaded"), Call("freeHandle")>>
DeInit ==
    <<Call("exit"), Flush("flushIn"), Flush("flushOut")>> \o FreeInputBuffers
      \o <<SetState("idle"), SetState("loaded"), Call("freeHandle")>>

CloseUnflushed == DeInit
CloseCalls == <<Flush("flushIn")>> \o DeInit

Idle == todo = << >> /\ mHandle = "open"
Start(calls) ==
    /\ todo' = calls
    /\ UNCHANGED <<pool, mEvents, mResourceError, flags, waiting, hand, lent,
                   component, callback, calm>>

\* decode looks for room before it takes mMutex, so before its turn comes.
SeeRoom ==
    /\ room = 0 /\ mHandle = "open"
    /\ \E n \in 1 .. MaxFrame : n <= Len(mInputAvaliable) /\ room' = n
    /\ UNCHANGED <<pool, mEvents, mResourceError, flags, todo, waiting, hand, lent,
                   component, callback, calm>>

Decode ==
    /\ Idle /\ room > 0
    /\ room' = 0
    /\ Start([i \in 1 .. 4 * room |-> SendPart[1 + ((i - 1) % 4)]])

SubmitEOS ==
    /\ Idle
    /\ Start(SendBuffer)
    /\ UNCHANGED room

\* The playback loop resets and closes only while the run thread is not in decode.
Reset ==
    /\ Idle /\ room = 0
    /\ Len(commands) <= MaxPending
    /\ Start(<<Flush("flushIn")>>)
    /\ UNCHANGED room

Close ==
    /\ Idle /\ room = 0
    /\ Start(CloseCalls)
    /\ UNCHANGED room

-------------------------------------------------------------------------------
(* The calls.                                                               *)

Calling(name) == todo # << >> /\ Head(todo).do = name
On == Head(todo).on
Proceed == todo' = Tail(todo)
GiveUp == todo' = << >>

InputWait == {"get", "inputDone"}
HoldsInputMutex == waiting = "holding" /\ Head(todo).do \in InputWait
HoldsEventMutex == waiting = "holding" /\ Head(todo).do = "await"

\* pthread_cond_broadcast on mInputBufferCond and on mEventCond.
WakeInput == waiting' = IF waiting = "blocked" /\ Head(todo).do \in InputWait
                          THEN "no" ELSE waiting
WakeEvent == waiting' = IF waiting = "blocked" /\ Head(todo).do = "await"
                          THEN "no" ELSE waiting

GetBuffer ==
    /\ Calling("get") /\ waiting = "no"
    /\ ~mFlushInput /\ ~mResourceError
    /\ mInputAvaliable # << >>
    /\ hand' = Head(mInputAvaliable)
    /\ mInputAvaliable' = Tail(mInputAvaliable)
    /\ Proceed
    /\ UNCHANGED <<mInputBuffers, mEvents, mResourceError, flags, waiting, room, lent,
                   component, callback, calm>>

GetNothing ==
    /\ Calling("get") /\ waiting = "no"
    /\ mFlushInput \/ mResourceError
    /\ GiveUp
    /\ UNCHANGED <<pool, mEvents, mResourceError, flags, waiting, hand, room, lent,
                   component, callback, calm>>

EmptyThisBuffer ==
    /\ Calling("empty")
    /\ held' = held \cup {hand}
    /\ hand' = NoBuffer
    /\ Proceed
    /\ UNCHANGED <<pool, mEvents, mResourceError, flags, waiting, room, freed, dropped,
                   component, callback, calm>>

Forget(b) == mInputAvaliable' = mInputAvaliable
Return(b) == mInputAvaliable' = Append(mInputAvaliable, b)

\* The component refuses the buffer: decode and submitEOS put it back themselves.
EmptyRejected ==
    /\ Calling("empty") /\ Rejects
    /\ Return(hand)
    /\ hand' = NoBuffer
    /\ GiveUp
    /\ UNCHANGED <<mInputBuffers, mEvents, mResourceError, flags, waiting, room, lent,
                   component, callback, calm>>

Send(command) ==
    \/ commands' = Append(commands, command) /\ UNCHANGED calm
    \/ Rejects /\ calm' = FALSE /\ UNCHANGED commands

ThenAwait(event) == todo' = <<Await(event)>> \o Tail(todo)

\* flushInput and flushOutput do nothing after a resource error.
FlushSend ==
    /\ Calling("flush")
    /\ IF mResourceError
         THEN Proceed /\ UNCHANGED <<commands, calm>>
         ELSE Send(On) /\ ThenAwait(On)
    /\ UNCHANGED <<pool, mEvents, mResourceError, flags, waiting, hand, room, lent, state,
                   callback>>

\* transitionToStateLoaded asks for the state before each of its two setState.
SetStateSend ==
    /\ Calling("setState")
    /\ IF state \in {On, "loaded"}
         THEN Proceed /\ UNCHANGED <<commands, calm>>
         ELSE \/ commands' = Append(commands, On) /\ ThenAwait(On) /\ UNCHANGED calm
              \/ Rejects /\ Proceed /\ calm' = FALSE /\ UNCHANGED commands
    /\ UNCHANGED <<pool, mEvents, mResourceError, flags, waiting, hand, room, lent, state,
                   callback>>

DisableSend ==
    /\ Calling("disable")
    /\ mFlushInput' = TRUE
    /\ Send("disable")
    /\ Proceed
    /\ UNCHANGED <<pool, mEvents, mResourceError, mExit, mHandle, waiting, hand, room, lent,
                   state, callback>>

\* waitCommand and waitEvent look for the first event that is an error or theirs.
AnyAnswers(event) == DOMAIN mEvents
Answers(event) == {i \in DOMAIN mEvents : mEvents[i] \in ErrorEvent \cup {event}}

\* What the caller does with the result: a decode that sees the settings change
\* calls srcChanged, and gives up if that fails; all other results are only logged.
AwaitReturns(succeeded) ==
    \/ Proceed
    \/ succeeded /\ On = "settings" /\ GiveUp

AwaitAnswered ==
    /\ Calling("await") /\ waiting = "no"
    /\ Answers(On) # {}
    /\ LET first == Min(Answers(On)) IN
         /\ mEvents' = RemoveAt(mEvents, first)
         /\ AwaitReturns(mEvents[first] \in {On, "sameState"})
    /\ UNCHANGED <<pool, mResourceError, flags, waiting, hand, room, lent, component,
                   callback, calm>>

\* After a resource error a wait returns OMX_ErrorNone whatever it waited for.
AwaitNothing ==
    /\ Calling("await") /\ waiting = "no"
    /\ Answers(On) = {} /\ mResourceError
    /\ AwaitReturns(TRUE)
    /\ UNCHANGED <<pool, mEvents, mResourceError, flags, waiting, hand, room, lent,
                   component, callback, calm>>

\* waitInputDone.
AllBack == Len(mInputAvaliable) = Cardinality(mInputBuffers)
InputDone ==
    /\ Calling("inputDone") /\ waiting = "no"
    /\ AllBack \/ mResourceError
    /\ Proceed
    /\ UNCHANGED <<pool, mEvents, mResourceError, flags, waiting, hand, room, lent,
                   component, callback, calm>>

\* None of the above: the client goes on to wait, with the mutex in its hands.
MustWait ==
    /\ todo # << >> /\ ~mResourceError
    /\ \/ Calling("get") /\ ~mFlushInput /\ mInputAvaliable = << >>
       \/ Calling("await") /\ Answers(On) = {}
       \/ Calling("inputDone") /\ ~AllBack

Hold ==
    /\ waiting = "no" /\ MustWait
    /\ waiting' = "holding"
    /\ UNCHANGED <<pool, mEvents, mResourceError, flags, todo, hand, room, lent, component,
                   callback, calm>>

Block ==
    /\ waiting = "holding"
    /\ waiting' = "blocked"
    /\ UNCHANGED <<pool, mEvents, mResourceError, flags, todo, hand, room, lent, component,
                   callback, calm>>

\* pthread_cond_timedwait may return 0 without a broadcast.
SpuriousWakeup ==
    /\ waiting = "blocked"
    /\ waiting' = "no"
    /\ UNCHANGED <<pool, mEvents, mResourceError, flags, todo, hand, room, lent, component,
                   callback, calm>>

ExpiryIgnored == UNCHANGED todo
Expiry == IF Calling("get") THEN GiveUp ELSE Proceed

\* The deadline has passed: nothing is looked at again.  The two waits of decode
\* for a change have a timeout of 0.
Expire ==
    /\ waiting = "blocked"
    /\ Head(todo).do \in Late \/ (Calling("await") /\ On \in Change)
    /\ Expiry
    /\ waiting' = "no"
    /\ calm' = (calm /\ ~(Calling("await") /\ On \in Command))
    /\ UNCHANGED <<pool, mEvents, mResourceError, flags, hand, room, lent, component,
                   callback>>

-------------------------------------------------------------------------------
(* The teardown.                                                            *)

Exit ==
    /\ Calling("exit")
    /\ mExit' = TRUE /\ mFlushInput' = TRUE
    /\ Proceed
    /\ UNCHANGED <<pool, mEvents, mResourceError, mHandle, waiting, hand, room, lent,
                   component, callback, calm>>

\* freeInputBuffers frees every buffer, whoever has it, and forgets them later.
FreeBuffers ==
    /\ Calling("free")
    /\ freed' = mInputBuffers
    /\ Proceed
    /\ UNCHANGED <<pool, mEvents, mResourceError, flags, waiting, hand, room, held, dropped,
                   component, callback, calm>>

ForgetBuffers ==
    /\ Calling("forget")
    /\ mInputBuffers' = {} /\ mInputAvaliable' = << >>
    /\ Proceed
    /\ UNCHANGED <<mEvents, mResourceError, flags, waiting, hand, room, lent, component,
                   callback, calm>>

FreeHandle ==
    /\ Calling("freeHandle")
    /\ mHandle' = "freed" /\ mResourceError' = FALSE
    /\ Proceed
    /\ UNCHANGED <<pool, mEvents, mFlushInput, mExit, waiting, hand, room, lent, component,
                   callback, calm>>

-------------------------------------------------------------------------------
(* The component, and the callbacks that it makes one at a time.            *)

Quiet == returning = NoBuffer /\ raising = "none" /\ mHandle = "open"

\* A buffer has been consumed; decoderEmptyBufferDone begins, and looks at mExit.
EmptyBufferDone ==
    /\ Quiet
    /\ \E b \in held :
         /\ held' = held \ {b}
         /\ IF mExit THEN dropped' = dropped \cup {b} /\ UNCHANGED returning
                     ELSE returning' = b /\ UNCHANGED dropped
    /\ UNCHANGED <<pool, mEvents, mResourceError, flags, client, freed, component, raising, calm>>

ReturnBuffer ==
    /\ returning # NoBuffer /\ ~HoldsInputMutex
    /\ Return(returning)
    /\ WakeInput
    /\ returning' = NoBuffer
    /\ UNCHANGED <<mInputBuffers, mEvents, mResourceError, flags, todo, hand, room, lent,
                   component, raising, calm>>

\* addEvent erases every equal event first; there is at most one (EventsMatched).
Added(event) == mEvents' = Append(RemoveFirst(mEvents, event), event)
AddEvent(event) ==
    /\ ~HoldsEventMutex
    /\ Added(event)
    /\ WakeEvent

\* A flush or a disable of the port is complete when all its buffers have been
\* returned, a disable when they have been freed as well.
CanComplete(command) ==
    /\ command \in {"flushIn", "disable"} => held = {}
    /\ command = "disable" => freed = Buffer

Complete ==
    /\ Quiet
    /\ commands # << >> /\ CanComplete(Head(commands))
    /\ AddEvent(Head(commands))
    /\ commands' = Tail(commands)
    /\ state' = IF Head(commands) \in {"idle", "loaded"} THEN Head(commands) ELSE state
    /\ UNCHANGED <<pool, mResourceError, flags, todo, hand, room, lent, callback, calm>>

SignalChange ==
    /\ Quiet /\ held # {}
    /\ \E change \in Change : AddEvent(change)
    /\ UNCHANGED <<pool, mResourceError, flags, todo, hand, room, lent, component, callback, calm>>

RaiseError ==
    /\ Quiet
    /\ \E error \in Errors : AddEvent(error) /\ raising' = error
    /\ calm' = FALSE
    /\ UNCHANGED <<pool, mResourceError, flags, todo, hand, room, lent, component, returning>>

\* The rest of the error's event handler, which takes no mutex.
HandleError ==
    /\ raising # "none"
    /\ mResourceError' = (mResourceError \/ raising = "corrupt")
    /\ waiting' = IF mResourceError' /\ waiting = "blocked" THEN "no" ELSE waiting
    /\ raising' = "none"
    /\ UNCHANGED <<pool, mEvents, flags, todo, hand, room, lent, component, returning, calm>>

-------------------------------------------------------------------------------
\* The core has been closed and the component is gone.
Terminated ==
    /\ mHandle = "freed" /\ todo = << >> /\ returning = NoBuffer /\ raising = "none"
    /\ UNCHANGED vars

\* The steps that the client takes without anybody's help.
ClientContinues ==
    \/ GetBuffer \/ GetNothing \/ EmptyThisBuffer \/ EmptyRejected
    \/ FlushSend \/ SetStateSend \/ DisableSend
    \/ AwaitAnswered \/ AwaitNothing \/ InputDone \/ Hold \/ Block
    \/ Exit \/ FreeBuffers \/ ForgetBuffers \/ FreeHandle

Client ==
    \/ SeeRoom \/ Decode \/ SubmitEOS \/ Reset \/ Close
    \/ ClientContinues \/ SpuriousWakeup \/ Expire

Component ==
    \/ EmptyBufferDone \/ ReturnBuffer \/ Complete \/ SignalChange
    \/ RaiseError \/ HandleError

Next == Client \/ Component \/ Terminated

Spec == Init /\ [][Next]_vars

\* The client's thread runs, and its deadlines, which are computed once and then
\* absolute, pass however often it is woken before (strong fairness).  Nothing is
\* assumed of the component.
FairSpec == Spec /\ WF_vars(ClientContinues) /\ SF_vars(Expire)

-------------------------------------------------------------------------------
(* Properties.                                                              *)

CallNames == {"get", "empty", "disable", "free", "inputDone", "forget", "exit",
              "freeHandle", "flush", "setState", "await"}
TypeOK ==
    /\ mInputAvaliable \in Seq(Buffer) /\ mInputBuffers \subseteq Buffer
    /\ mEvents \in Seq(Event)
    /\ mResourceError \in BOOLEAN /\ mFlushInput \in BOOLEAN /\ mExit \in BOOLEAN
    /\ mHandle \in {"open", "freed"}
    /\ todo \in Seq([do : CallNames, on : Event \cup {"none"}])
    /\ waiting \in {"no", "holding", "blocked"} /\ (waiting # "no" => todo # << >>)
    /\ hand \in Buffer \cup {NoBuffer} /\ room \in 0 .. MaxFrame
    /\ held \subseteq Buffer /\ freed \subseteq Buffer /\ dropped \subseteq Buffer
    /\ commands \in Seq(Command) /\ state \in {"executing", "idle", "loaded"}
    /\ returning \in Buffer \cup {NoBuffer} /\ raising \in ErrorEvent \cup {"none"}
    /\ calm \in BOOLEAN

Available == ToSet(mInputAvaliable)
InHand == {hand} \ {NoBuffer}
OnItsWay == {returning} \ {NoBuffer}

\* A buffer is in one place at a time: available, being filled, with the component,
\* on its way back or dropped by an exiting core, whatever calls fail, waits expire
\* or errors are raised.  None is filled while the component has it, none leaks.
BuffersConserved ==
    mInputBuffers # {} =>
      LET places == <<Available, InHand, held, OnItsWay, dropped>> IN
        /\ IsInjective(mInputAvaliable)
        /\ \A i, j \in 1 .. 5 : i # j => places[i] \cap places[j] = {}
        /\ UNION {places[i] : i \in 1 .. 5} = mInputBuffers

\* Every event is in mEvents, from which many are never taken, at most once.  And as long as
\* the component has raised no error, taken every command and answered each in time, what it
\* still has to carry out and what it has announced is what is being waited for, once: no wait
\* is answered by an older command's completion, and none lacks its answer.
Issued(c) ==
    \/ Calling("await") /\ On = c
    \/ c = "disable" /\ Await(c) \in ToSet(todo) /\ Call(c) \notin ToSet(todo)
EventsMatched ==
    /\ TypeOK
    /\ IsInjective(mEvents)
    /\ calm => LET known == mEvents \o commands IN
         \A c \in Command : Cardinality({i \in DOMAIN known : known[i] = c}) = IF Issued(c) THEN 1 ELSE 0

\* As long as the component has raised no error, taken every command and answered each in
\* time, the teardown frees no buffer that the component has, the assert of freeInputBuffers,
\* mInputBuffers.size() == mInputAvaliable.size(), holds even if waitInputDone gives up, and
\* OMX_FreeHandle is called on a component that is loaded and has carried out every command.
TeardownClean ==
    calm => /\ freed \cap (held \cup OnItsWay) = {}
            /\ Calling("forget") => AllBack
            /\ Calling("freeHandle") => state = "loaded" /\ commands = << >>

\* The same assert whatever the component has done.
AssertHolds == Calling("forget") => AllBack

\* Whatever the component answers, refuses or raises, and whichever waits run out, the core
\* is a pool of buffers: none is handed out or lent while it closes, nothing that is lent is
\* available, and the pool is not forgotten before the callbacks know that the core is closing
\* (getInputBuffer, emptyThisBuffer, decoderEmptyBufferDone, deInit).
PoolPhase == IF ~mExit THEN "open" ELSE IF mInputBuffers # {} THEN "closing" ELSE "closed"
Pool == INSTANCE BufferPool WITH
            available <- mInputAvaliable, filling <- hand, lent <- held \cup OnItsWay,
            phase <- PoolPhase
ImplementsPool == Pool!Spec

\* A component that never answers hangs no caller: every method returns.
ClientReturns == todo # << >> ~> todo = << >>
===============================================================================
