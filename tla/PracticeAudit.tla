---------------------------- MODULE PracticeAudit ---------------------------
(***************************************************************************)
(* PracticeSession with a record of what has happened, for the promises    *)
(* about a session's past: which rounds were helped, and which sessions    *)
(* lost the handler that would have completed them, or met Live.  And with *)
(* fairness: what ends, unless the handlers hang.                          *)
(***************************************************************************)
EXTENDS PracticeSession

VARIABLES aided,      \* <<session, round>> for which a hint was given
          cut,        \* sessions that met Live or lost a handler
          hung        \* some wait will never end

audit == <<aided, cut, hung>>

HintedNow ==
  {s \in Sessions :
     /\ sess'[s].status = "active"
     /\ sess'[s].last_hint # sess[s].last_hint \/ sess'[s].hint > sess[s].hint}

Observe ==
  aided' = aided \cup {<<s, sess[s].step>> :
                         s \in {t \in HintedNow : sess[t].stage = "conversation"}}

(* A handler has taken up the completion of the session (again). *)
TakenUp ==
  {s \in Sessions :
     \E h \in Handlers :
       hand[h] = Idle /\ hand'[h].op \in {"finish", "counted"} /\ hand'[h].session = s}

AuditInit == Init /\ aided = {} /\ cut = {} /\ hung = FALSE

Work ==
  /\ \/ \E h \in Handlers : Begin(h) \/ Continue(h) \/ CallFails(h)
     \/ AtOnce
  /\ Observe
  /\ cut' = (cut \ TakenUp) \cup {s \in Sessions : sess'[s].live}
  /\ UNCHANGED hung

Lose(h) ==
  /\ Crash(h)
  /\ Observe
  /\ cut' = IF hand[h].op = "create" THEN cut ELSE cut \cup {hand[h].session}
  /\ UNCHANGED hung

(* reserve waits on the request's own context, with no time limit, for a   *)
(* connection, for the lock of the learner's budget and, at its INSERT,    *)
(* for the learner's row; with the locks other handlers have (those of     *)
(* this module, Live, the worker, other parts of the app) the wait can be  *)
(* for ever.  HandlerLocks has these locks and names every such hang.      *)
Hang == hung' = TRUE /\ UNCHANGED <<vars, aided, cut>>

(* What the others do after that they may do as well without it: the       *)
(* module follows a hang no further.                                       *)
AuditNext == ~hung /\ (Work \/ (\E h \in Handlers : Lose(h)) \/ Hang)

(* A turn and a start that wait for each other's row. *)
Deadlocked(g, c) ==
  /\ hand[g].op = "turn"
  /\ hand[c].op = "create" /\ hand[c].prior = hand[g].session /\ hand[c].audio

(* What a handler does when nobody has what it needs.  A call of a model   *)
(* ends, at the latest after its 30 seconds; but only the call has a time  *)
(* limit: the INSERT of an answered turn that waits for a start is not     *)
(* ended by it.                                                            *)
GoesOn(h) ==
  \/ CreateResume(h) \/ CreateLesson(h)
  \/ hand[h].op = "hint" /\ (HintAnswered(h) \/ CallFails(h))
  \/ /\ hand[h].op = "turn" /\ NobodyStarts
     /\ CallFails(h) \/ \E verdict \in Verdicts : TurnGraded(h, verdict)
  \/ FinishTurn(h)
  \/ CompleteCommit(h) \/ CompleteRefused(h)

(* Until something hangs, PostgreSQL serves those who wait for a row in    *)
(* order, and fails one of two transactions that wait for each other.      *)
Fairness ==
  \A h \in Handlers :
    /\ SF_vars(~hung /\ GoesOn(h))
    /\ \A c \in Handlers \ {h} :
         WF_vars(~hung /\ Deadlocked(h, c) /\ (CallFails(h) \/ CallFails(c)))

AuditSpec == AuditInit /\ [][AuditNext]_<<vars, audit>> /\ Fairness
-----------------------------------------------------------------------------
(* "Assisted answers and corrected retries are separate from independent   *)
(* successes" (README 24): a round for which any hint was given is never   *)
(* credited afterwards, also not by an answer that was being graded or     *)
(* repeated when the hint came; only the next round starts afresh.         *)
NoCreditAfterHelp ==
  [][\A s \in Sessions :
       \A k \in sess'[s].independent_steps \ sess[s].independent_steps :
         <<s, k>> \notin aided]_<<vars, audit>>

(* "The second successful independent round completes the lesson"          *)
(* (docs/new-features.md 49): a lesson with two credited rounds on which   *)
(* nobody is at work is no longer active, unless Live was on or the        *)
(* handler that would complete it was lost (sessions.go 470: the process   *)
(* dies after the commit of the answer); and once the answer is repeated   *)
(* or the completion asked for again, it is completed after all.           *)
SecondRoundCompletes ==
  \A s \in Sessions \ cut :
    Ready(sess[s]) /\ sess[s].status = "active" =>
      \E h \in Handlers : hand[h].op \in {"turn", "finish", "counted"} /\ hand[h].session = s

(* Every handler ends: no early return, failed call or lost process leaves *)
(* a row locked that others need.  The only exceptions are the hangs that  *)
(* HandlerLocks names (OnlyTheseHangs there).                              *)
EveryHandlerEnds ==
  \A h \in Handlers : hand[h] # Idle ~> (hand[h] = Idle \/ hung)
=============================================================================
