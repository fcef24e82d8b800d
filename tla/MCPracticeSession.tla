------------------------- MODULE MCPracticeSession --------------------------
(* PracticeSession for TLC: two handlers on two sessions, of which none,   *)
(* one or both are old enough to have no lesson_flow and the others are    *)
(* what the learner starts: the lesson, or a placement.                    *)
EXTENDS PracticeSession, TLC

CONSTANTS h1, h2, s1, s2, l1, r1, r2

MCHandlers == {h1, h2}
MCSessions == {s1, s2}
MCLessons == {l1}
MCRequests == {r1, r2}
MCLegacyLesson == [s \in MCSessions |-> l1]

Symmetry == Permutations(MCHandlers) \cup Permutations(MCSessions) \cup Permutations(MCRequests)
=============================================================================
