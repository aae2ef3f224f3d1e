------------------------------ MODULE MCOscClient ------------------------------
(* Both clients, each with two addresses, one of which a listener uses too. *)
EXTENDS OscClient

CONSTANTS a1, a2
================================================================================
