--------------------------- MODULE MCPracticeAudit --------------------------
(* PracticeAudit for TLC: one lesson, guided or old, two handlers, hints   *)
(* without a request_id.                                                   *)
EXTENDS PracticeAudit

CONSTANTS s1, l1

OldLesson == [s \in {s1} |-> l1]
=============================================================================
