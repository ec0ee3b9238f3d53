------------------------------ MODULE MCDirectory ------------------------------
(***************************************************************************)
(* Ada and Gus are at Okta from the start, Gus in Google Workspace too;    *)
(* either may leave and be hired again. Rosters have one page. Two runs    *)
(* differ only by name.                                                    *)
(***************************************************************************)
EXTENDS Directory, TLC

CONSTANTS ada, gus, t1, t2

MCPages == <<{ada, gus}>>
Symmetry == Permutations(Ticks)
=============================================================================
