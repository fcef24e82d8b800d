---------------------------- MODULE MCDailyMeet ----------------------------
(* DailyMeet for TLC: two texts that share a sentence and have as many of  *)
(* them, one of which a model cuts in two; two recordings, two analyses.   *)
EXTENDS DailyMeet, TLC

CONSTANTS long, short, half, rest, other, t1, t2, j1, j2, p1, p2

MCPlain == t1 :> <<long, short>> @@ t2 :> <<short, other>>
MCSplits == t1 :> {<<half, rest, short>>, <<long, short>>} @@ t2 :> {<<short, other>>}
MCJobs == {j1, j2}
MCSpeakers == {p1, p2}
Symmetry == Permutations(MCJobs) \cup Permutations(MCSpeakers)
=============================================================================
