------------------------------ MODULE MCOffboard ------------------------------
(***************************************************************************)
(* Ada has a key and a seat; a third identity can be granted.              *)
(***************************************************************************)
EXTENDS Offboard

CONSTANTS ada, bob, key, seat, late

MCOwnerOf == [i \in Identities |-> IF i = late THEN Nobody ELSE ada]
=============================================================================
