------------------------------ MODULE MCRollups ------------------------------
(***************************************************************************)
(* Four raw rows of two identities over two days: spend of both on day 1,  *)
(* an outcome of the first on day 1, spend of the first on day 2.          *)
(***************************************************************************)
EXTENDS Rollups

CONSTANTS i1, i2, ada, bob

MCRaw == {"a1", "b1", "o1", "a2"}
MCDayOf == [r \in MCRaw |-> IF r = "a2" THEN 2 ELSE 1]
MCTableOf == [r \in MCRaw |-> IF r = "o1" THEN "outcome" ELSE "spend"]
MCIdentityOf == [r \in MCRaw |-> IF r = "b1" THEN i2 ELSE i1]
MCNoRate == {"b1"}
=============================================================================
