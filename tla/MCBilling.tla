------------------------------ MODULE MCBilling ------------------------------
EXTENDS Billing
CONSTANTS j1, j2
March == 3
ThreeMonths == 1 .. 3
Row3(m, a) == [month |-> m, amount |-> a]
CSVs == {<<Row3(1, 3), Row3(2, 2)>>, <<Row3(2, 2), Row3(1, 2)>>}
Forms == {[amount |-> 1, first |-> 2, last |-> None], [amount |-> 2, first |-> 1, last |-> 2]}
JobSymmetry == Permutations({j1, j2})
=============================================================================
