---------------------------- MODULE MCAttribution ----------------------------
(* Attribution with two people; the first identity carries Ann's address. *)
EXTENDS Attribution, TLC

CONSTANTS ann, bob, k1, k2, s1, s2, t1, roi, coding

AnnsKeys == [i \in Ids |-> ann]
OneAddress == [i \in Ids |-> IF i = k1 THEN ann ELSE None]
==============================================================================
