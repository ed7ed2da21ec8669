------------------------------ MODULE BufferPool ------------------------------
(***************************************************************************)
(* What a cOmxCore promises whoever fills its input buffers, without its   *)
(* calls, waits, events and errors.  Buffers are handed out one at a time, *)
(* in the order in which they became available.  A buffer is available     *)
(* again only when the component has refused it or has returned it, at the *)
(* end of the queue.  Once the core is closing none is handed out or lent; *)
(* what comes back then is dropped, unless its return was under way.  The  *)
(* pool is forgotten only while the core is closing.                       *)
(***************************************************************************)
EXTENDS SequencesExt

CONSTANTS Buffer, NoBuffer

VARIABLES available, \* buffers that may be handed out, the next one first
          filling,   \* the buffer handed out and not yet sent or put back
          lent,      \* buffers the component has not finished returning
          dropped,   \* buffers that came back to a closing core
          phase      \* "open", then "closing", then "closed"

vars == <<available, filling, lent, dropped, phase>>

Init ==
    /\ available \in Seq(Buffer)
    /\ IsInjective(available) /\ ToSet(available) = Buffer
    /\ filling = NoBuffer
    /\ lent = {} /\ dropped = {}
    /\ phase = "open"

HandOut ==
    /\ phase = "open"
    /\ filling = NoBuffer /\ available # << >>
    /\ filling' = Head(available)
    /\ available' = Tail(available)
    /\ UNCHANGED <<lent, dropped, phase>>

Lend ==
    /\ phase = "open"
    /\ filling \in Buffer \ lent
    /\ lent' = lent \cup {filling}
    /\ filling' = NoBuffer
    /\ UNCHANGED <<available, dropped, phase>>

PutBack ==
    /\ phase = "open"
    /\ filling \in Buffer
    /\ available' = Append(available, filling)
    /\ filling' = NoBuffer
    /\ UNCHANGED <<lent, dropped, phase>>

\* A return that was under way when the core was closed still comes to its end.
Return ==
    /\ \E b \in lent :
         /\ lent' = lent \ {b}
         /\ available' = Append(available, b)
    /\ UNCHANGED <<filling, dropped, phase>>

Drop ==
    /\ phase # "open"
    /\ \E b \in lent :
         /\ lent' = lent \ {b}
         /\ dropped' = dropped \cup {b}
    /\ UNCHANGED <<available, filling, phase>>

Close ==
    /\ phase = "open" /\ filling = NoBuffer
    /\ phase' = "closing"
    /\ UNCHANGED <<available, filling, lent, dropped>>

Forget ==
    /\ phase = "closing"
    /\ available' = << >>
    /\ phase' = "closed"
    /\ UNCHANGED <<filling, lent, dropped>>

Next == HandOut \/ Lend \/ PutBack \/ Return \/ Drop \/ Close \/ Forget

Spec == Init /\ [][Next]_vars
===============================================================================
