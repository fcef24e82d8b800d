---------------------------- MODULE LessonLedger ----------------------------
(***************************************************************************)
(* What a learner may rely on, whatever requests race, fail or are         *)
(* repeated: a session is started, collects each speaking round at most    *)
(* once while it is active, is completed once, and is never written again  *)
(* unless the learner erases everything.  A lesson is never started while  *)
(* a session of it is active.  PracticeSession implements this module.     *)
(***************************************************************************)
CONSTANTS Sessions, Lessons,
          NoLesson,      \* a session that follows no lesson of its own
          Steps          \* conversation rounds

VARIABLES phase,         \* "absent", "active", "completed" or "gone"
          course,        \* the lesson of a lesson session, or NoLesson
          won            \* the rounds credited as independent speech

ledger == <<phase, course, won>>

Init ==
  /\ phase \in [Sessions -> {"absent", "active"}]
  /\ course \in [Sessions -> Lessons \cup {NoLesson}]
  /\ \A s \in Sessions : phase[s] = "absent" => course[s] = NoLesson
  /\ won = [s \in Sessions |-> {}]

Open(s, l) ==
  /\ phase[s] = "absent"
  /\ l # NoLesson => \A t \in Sessions : phase[t] = "active" => course[t] # l
  /\ phase' = [phase EXCEPT ![s] = "active"]
  /\ course' = [course EXCEPT ![s] = l]
  /\ UNCHANGED won

Win(s, k) ==
  /\ phase[s] = "active"
  /\ k \notin won[s]
  /\ won' = [won EXCEPT ![s] = @ \cup {k}]
  /\ UNCHANGED <<phase, course>>

Complete(s) ==
  /\ phase[s] = "active"
  /\ phase' = [phase EXCEPT ![s] = "completed"]
  /\ UNCHANGED <<course, won>>

Erase ==
  /\ phase' = [s \in Sessions |-> IF phase[s] = "absent" THEN "absent" ELSE "gone"]
  /\ course' = [s \in Sessions |-> NoLesson]
  /\ won' = [s \in Sessions |-> {}]

Step ==
  \/ \E s \in Sessions, l \in Lessons \cup {NoLesson} : Open(s, l)
  \/ \E s \in Sessions, k \in Steps : Win(s, k)
  \/ \E s \in Sessions : Complete(s)
  \/ Erase

(* Erasing nothing is no step. *)
Next == ledger' # ledger /\ Step

Spec == Init /\ [][Next]_ledger
=============================================================================
