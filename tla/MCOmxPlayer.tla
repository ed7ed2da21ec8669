----------------------------- MODULE MCOmxPlayer ------------------------------
(* Small instances of OmxPlayer: four packets of sizes 1 and 2 in a cache of 3. *)
EXTENDS OmxPlayer

MCSize == [n \in Packet |-> IF n % 2 = 0 THEN 2 ELSE 1]
===============================================================================
