------------------------------ MODULE PacketPipe ------------------------------
(***************************************************************************)
(* What a cOmxPlayer promises the playback loop, without its threads,      *)
(* mutexes and condition variable: a pipe of packets.  Packets leave the   *)
(* pipe at its head only, in the order they were accepted, and each is     *)
(* given to the decoder at most once.  While the pipe stays open a         *)
(* packet is discarded instead of given only if a flush is being           *)
(* requested, or by the single permission ("grant") that a completed flush *)
(* may leave behind.  A flush empties the pipe, except that the packet at  *)
(* its head may already be in the hands of the consuming thread and then   *)
(* outlives the flush; so does a close, after which nothing is given.      *)
(* The decoder finishes with what it has in that order, and a flush may    *)
(* take it all.  The end of the stream is given to the decoder past the    *)
(* pipe, whose packets it may overtake.                                    *)
(***************************************************************************)
EXTENDS Naturals, Sequences

CONSTANTS Packet, \* the packets a reader may hand over
          Mark    \* what the caller may give the decoder itself: the end of the stream

VARIABLES pipe,     \* packets accepted and neither given nor discarded
          given,    \* what the decoder was given and has not finished with, in order
          flushing, \* a flush has been requested and is not yet carried out
          grant,    \* the last flush still allows one packet to be discarded
          phase     \* "open", then "closing", then "closed"

vars == <<pipe, given, flushing, grant, phase>>

Init ==
    /\ pipe = << >>
    /\ given = << >>
    /\ flushing = FALSE
    /\ grant = FALSE
    /\ phase = "open"

Accept ==
    /\ phase = "open"
    /\ \E p \in Packet : pipe' = Append(pipe, p)
    /\ UNCHANGED <<given, flushing, grant, phase>>

Deliver ==
    /\ phase # "closed" /\ ~grant
    /\ pipe # << >>
    /\ given' = Append(given, Head(pipe))
    /\ pipe' = Tail(pipe)
    /\ UNCHANGED <<flushing, grant, phase>>

EndStream ==
    /\ phase = "open"
    /\ \E m \in Mark : given' = Append(given, m)
    /\ UNCHANGED <<pipe, flushing, grant, phase>>

Finish ==
    /\ given # << >>
    /\ given' = Tail(given)
    /\ UNCHANGED <<pipe, flushing, grant, phase>>

Discard ==
    /\ flushing \/ grant
    /\ pipe # << >>
    /\ pipe' = Tail(pipe)
    /\ grant' = FALSE
    /\ UNCHANGED <<given, flushing, phase>>

\* The consumer gives up the packet in its hands because the pipe is closing.
Abandon ==
    /\ phase # "open"
    /\ pipe # << >>
    /\ pipe' = Tail(pipe)
    /\ UNCHANGED <<given, flushing, grant, phase>>

RequestFlush ==
    /\ ~flushing
    /\ flushing' = TRUE
    /\ UNCHANGED <<pipe, given, grant, phase>>

\* The consumer has the packet at the head in its hands, or nothing is left.
Emptied == pipe' = << >> \/ (pipe # << >> /\ pipe' = <<Head(pipe)>>)

Flush ==
    /\ flushing /\ phase # "closed"
    /\ Emptied
    /\ flushing' = FALSE
    /\ grant' \in BOOLEAN
    /\ given' \in {given, << >>}
    /\ UNCHANGED phase

RevokeGrant ==
    /\ grant /\ phase = "open"
    /\ grant' = FALSE
    /\ UNCHANGED <<pipe, given, flushing, phase>>

RequestClose ==
    /\ phase = "open" /\ ~flushing
    /\ phase' = "closing"
    /\ UNCHANGED <<pipe, given, flushing, grant>>

Close ==
    /\ phase = "closing" /\ ~flushing
    /\ Emptied
    /\ phase' = "closed"
    /\ UNCHANGED <<given, flushing, grant>>

Next ==
    \/ Accept \/ Deliver \/ Discard \/ Abandon \/ EndStream \/ Finish
    \/ RequestFlush \/ Flush \/ RevokeGrant
    \/ RequestClose \/ Close

Spec == Init /\ [][Next]_vars
===============================================================================
