------------------------------ MODULE MCBudget ------------------------------
(* Budget for TLC: three calls of two users, of whom one may spend more    *)
(* than the application as a whole; answers that cost less and more than   *)
(* was reserved; the turn of a month.                                      *)
EXTENDS Budget

CONSTANTS c1, c2, c3, rich, poor

MCCalls == {c1, c2, c3}
MCAllowance == [u \in Users |-> IF u = rich THEN 5 ELSE 2]
=============================================================================
