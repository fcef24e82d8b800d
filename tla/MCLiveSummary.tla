--------------------------- MODULE MCLiveSummary ----------------------------
(* LiveSummary for TLC: two connections, a Live session and another one,   *)
(* and the two slots of the worker.                                        *)
EXTENDS LiveSummary

CONSTANTS c1, c2, w1, w2

MCConns == {c1, c2}
MCWorkers == {w1, w2}
=============================================================================
