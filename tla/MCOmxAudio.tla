------------------------------ MODULE MCOmxAudio ------------------------------
(* Packets for OmxAudio: two frames in one packet, one that changes its channels, *)
(* a packet without a pts, packets out of order.                                  *)
EXTENDS OmxAudio

Frame(size, chans, format) == [size |-> size, chans |-> chans, format |-> format]
Two == [pts |-> 2, frames |-> <<Frame(1, 2, "flt"), Frame(1, 6, "flt")>>]
Early == [pts |-> 1, frames |-> <<Frame(1, 2, "s16")>>]
Untimed == [pts |-> 0, frames |-> <<Frame(1, 2, "out")>>]
Large == [pts |-> 3, frames |-> <<Frame(3, 2, "out")>>]

Speech == {Early}
Music == {Two, Early, Untimed, Large}
===============================================================================
