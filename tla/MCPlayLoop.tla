------------------------------ MODULE MCPlayLoop ------------------------------
(* Small files for PlayLoop. *)
EXTENDS PlayLoop

\* The sound ends early, and what follows it is more than a player and its decoder hold.
SoundEndsEarly == <<"aud", "none", "vid", "vid", "vid", "vid">>
===============================================================================
