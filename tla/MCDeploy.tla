------------------------------- MODULE MCDeploy -------------------------------
(* Deploy for TLC: three runs, the last of which repeats the release of    *)
(* the first, after what the second left; the port of the database moves   *)
(* with each of them and back, so that each replaces it.                   *)
EXTENDS Deploy, TLC

MCReleaseOf == [r \in Runs |-> IF r = 2 THEN "b" ELSE "a"]
MCPortOf == [r \in Runs |-> IF r = 2 THEN "p1" ELSE "p2"]
MCRuns == 1..3
=============================================================================
