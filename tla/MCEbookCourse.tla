--------------------------- MODULE MCEbookCourse ----------------------------
(* EbookCourse for TLC: two handlers, two practice sessions, one quiz item *)
(* and one listening item, for a learner with or without a unit learned    *)
(* under an earlier version.                                               *)
EXTENDS EbookCourse, TLC

CONSTANTS h1, h2, s1, s2, c1, c2, a1, a2

MCHandlers == {h1, h2}
MCSessions == {s1, s2}
MCChecks == {c1, c2}
MCAnswers == {a1, a2}
MCReading == {"understand"}
NewOrLearned == {None, MCReading \cup {"quiz", "shadowing", "speaking"}}

Symmetry == Permutations(MCHandlers) \cup Permutations(MCSessions)
              \cup Permutations(MCChecks) \cup Permutations(MCAnswers)
=============================================================================
