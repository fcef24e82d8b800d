---------------------------- MODULE EbookCourse -----------------------------
(***************************************************************************)
(* One learner and one lesson of the Learn Ebook course: the row of        *)
(* ebook_progress that five kinds of request write (checks of answers,     *)
(* progress reports, reveals, shadowing answers and completed speaking     *)
(* sessions), the learner's practice sessions of the lesson, the review    *)
(* items they feed, and the resets.  Source: ebook.go, ebook_check.go,     *)
(* sessions.go (shadowing and completion) and reset.go of                  *)
(* src/internal/app.                                                       *)
(*                                                                         *)
(* A check and a shadowing answer hold a row lock while a model works for  *)
(* up to 40 and 30 seconds; everything else is a short transaction.        *)
(***************************************************************************)
EXTENDS Integers, FiniteSets

CONSTANTS Handlers,        \* HTTP handlers
          Sessions,        \* ids of practice sessions
          Quiz,            \* quiz items of the lesson
          Listening,       \* listen-first items
          Reading,         \* self-paced steps (understand, examples)
          Lines,           \* shadowing lines
          Checks,          \* request ids of checks
          Answers,         \* request ids of shadowing answers
          OldProgress,     \* what earlier course versions may have left
          None

Assessed == {"quiz", "shadowing", "speaking"}
Steps == Reading \cup Assessed

(* What an earlier version left is None, or the steps that are carried     *)
(* over: all for a unit learned in an earlier release, none for an         *)
(* unfinished one, those its exercises and sessions earned for a unit of   *)
(* the book that came before the course.                                   *)
ASSUME ConstantsAssumption ==
  /\ IsFiniteSet(Answers) /\ IsFiniteSet(Checks)
  /\ Quiz \cap Listening = {} /\ Reading \cap Assessed = {}
  /\ Lines \in Nat \ {0}
  /\ \A o \in OldProgress : o = None \/ o \subseteq Steps
  /\ None \notin Handlers /\ \A o \in (SUBSET Steps) \cup (SUBSET Quiz) : o # None
  /\ \A s \in Sessions, b \in BOOLEAN : [session |-> s, passed |-> b] # None

VARIABLES row,       \* ebook_progress of the current version, or None
          rowLock,   \* handler that holds the row, or its uncommitted INSERT
          old,       \* progress under earlier versions (never rewritten)
          events,    \* ebook_events: check request -> quiz items marked wrong
          failures,  \* review_items.failures of each quiz item
          prompts,   \* the unit's own review prompts in review_items
          sess,      \* learning_sessions of the lesson
          lock,      \* handler that holds each session's row
          answers,   \* attempts: shadowing request -> session and verdict
          hand       \* what each handler is in the middle of

progress == <<row, rowLock, old, events, failures, prompts>>
practice == <<sess, lock, answers>>
vars == <<progress, practice, hand>>

(* ebook_progress.state; given: the steps it began with, carried over *)
Row == [steps : SUBSET Steps, right : SUBSET Quiz, heard : SUBSET Listening,
        revealed : BOOLEAN, enrolled : BOOLEAN, given : SUBSET Steps]

Blank == [steps |-> {}, right |-> {}, heard |-> {}, revealed |-> FALSE,
          enrolled |-> FALSE, given |-> {}]

(* ebookCourseSeedState: what a first row of this version begins with *)
Seed == IF old = None THEN Blank ELSE [Blank EXCEPT !.steps = old, !.given = old]

(* The row an INSERT ... ON CONFLICT DO NOTHING leaves *)
RowOr(seed) == IF row = None THEN seed ELSE row

Session == [status : {"absent", "active", "completed", "gone"},
            skill : {"shadowing", "speaking"}, index : 0 .. Lines, credits : 0 .. 2]

NewSession(skill) == [status |-> "active", skill |-> skill, index |-> 0, credits |-> 0]
NoSession == [NewSession("speaking") EXCEPT !.status = "absent"]

Idle == [op |-> "idle"]

HandlerState ==
  {Idle}
  \cup [op : {"seeded"}, seed : Row]
  \cup [op : {"check"}, request : Checks, state : Row]
  \cup [op : {"gated"}]
  \cup [op : {"line"}, session : Sessions, request : Answers, index : 0 .. Lines - 1]
  \cup [op : {"upsert"}, session : Sessions, state : Row]

Stop(h) == hand' = [hand EXCEPT ![h] = Idle]
Goto(h, state) == hand' = [hand EXCEPT ![h] = state]
Free(s) == lock[s] = None
RowFree == rowLock = None

Init ==
  /\ row = None /\ rowLock = None
  /\ old \in OldProgress
  /\ events = [c \in Checks |-> None]
  /\ failures = [q \in Quiz |-> 0]
  /\ prompts = "none"
  /\ sess = [s \in Sessions |-> NoSession]
  /\ lock = [s \in Sessions |-> None]
  /\ answers = [r \in Answers |-> None]
  /\ hand = [h \in Handlers |-> Idle]
-----------------------------------------------------------------------------
(* ebookCourseAllSteps and ebookCourseMarkLearned *)

(* A passed quiz settles the reading steps. *)
Implied(steps) == IF "quiz" \in steps THEN steps \cup Reading ELSE steps

Finished(x) == Implied(x.steps) = Steps

(* A finished unit is enrolled in review. *)
Settled(x) == [x EXCEPT !.steps = Implied(@), !.enrolled = @ \/ Finished(x)]

Enrol(x) == prompts' = IF Finished(x) /\ ~x.enrolled THEN "scheduled" ELSE prompts

Plus(x, step) == [x EXCEPT !.steps = @ \cup {step}]
Minus(x, step) == [x EXCEPT !.steps = @ \ {step}]
-----------------------------------------------------------------------------
(* Checks, progress reports and reveals read the seed before they begin a  *)
(* transaction.                                                            *)
ReadSeed(h) ==
  /\ hand[h] = Idle
  /\ Goto(h, [op |-> "seeded", seed |-> Seed])
  /\ UNCHANGED <<progress, practice>>

(* revealEbookCourse: one statement *)
Reveal(h) ==
  /\ hand[h].op = "seeded" /\ RowFree
  /\ row' = [RowOr(hand[h].seed) EXCEPT !.revealed = TRUE]
  /\ Stop(h)
  /\ UNCHANGED <<rowLock, old, events, failures, prompts, practice>>

(* ebookCourseProgress: of the steps a client reports, only the self-paced *)
(* ones count, as done or as not done.                                     *)
Report(h, done, undone) ==
  LET x == [RowOr(hand[h].seed) EXCEPT !.steps = (@ \cup done) \ undone]
  IN /\ hand[h].op = "seeded" /\ RowFree
     /\ row' = Settled(x) /\ Enrol(x)
     /\ Stop(h)
     /\ UNCHANGED <<rowLock, old, events, failures, practice>>
-----------------------------------------------------------------------------
(* checkEbookCourse *)

CheckBegin_NoLock(h, c) ==
  /\ hand[h].op = "seeded" /\ events[c] = None
  /\ Goto(h, [op |-> "check", request |-> c, state |-> RowOr(hand[h].seed)])
  /\ UNCHANGED <<progress, practice>>

(* INSERT ... DO NOTHING and SELECT ... FOR UPDATE, then the replay check *)
CheckBegin(h, c) ==
  /\ hand[h].op = "seeded" /\ RowFree /\ events[c] = None
  /\ rowLock' = h
  /\ Goto(h, [op |-> "check", request |-> c, state |-> RowOr(hand[h].seed)])
  /\ UNCHANGED <<row, old, events, failures, prompts, practice>>

(* An answered request is replied to from its event; an INSERT of a first  *)
(* row is rolled back.                                                     *)
CheckReplay(h, c) ==
  /\ hand[h].op = "seeded" /\ RowFree /\ events[c] # None
  /\ Stop(h)
  /\ UNCHANGED <<progress, practice>>

(* Which of the answers are right: the answer key says so of listening, of *)
(* choices and of gaps, a tutor of what has many good answers.  Any        *)
(* outcome is possible.                                                    *)
Marks(asked) == SUBSET asked

AllRight_Submitted(x, asked, right) == asked \cap Quiz \subseteq right

(* allCorrect: over the whole quiz, not over what was submitted *)
AllRight(x, asked, right) == (x.right \ asked) \cup (right \cap Quiz) = Quiz

(* A quiz item takes its latest mark; a listening item stays right. *)
Marked(x, asked, right) ==
  [x EXCEPT !.right = (@ \ asked) \cup (right \cap Quiz),
            !.heard = @ \cup (right \cap Listening),
            !.steps = IF AllRight(x, asked, right) THEN @ \cup {"quiz"} ELSE @ \ {"quiz"}]

CheckCommit(h) ==
  /\ hand[h].op = "check"
  /\ events[hand[h].request] = None
  /\ \E asked \in SUBSET (Quiz \cup Listening) \ {{}} : \E right \in Marks(asked) :
       LET x == Marked(hand[h].state, asked, right)
           wrong == (asked \ right) \cap Quiz
       IN /\ row' = Settled(x) /\ Enrol(x)
          /\ events' = [events EXCEPT ![hand[h].request] = wrong]
          /\ failures' = [q \in Quiz |-> failures[q] + (IF q \in wrong THEN 1 ELSE 0)]
  /\ rowLock' = None
  /\ Stop(h)
  /\ UNCHANGED <<old, practice>>

(* Nothing of the handler's transaction remains. *)
Rollback(h) ==
  /\ rowLock' = IF rowLock = h THEN None ELSE rowLock
  /\ lock' = [s \in Sessions |-> IF lock[s] = h THEN None ELSE lock[s]]
  /\ Stop(h)
  /\ UNCHANGED <<row, old, events, failures, prompts, sess, answers>>

(* An answer does not fit the lesson, the budget refuses, the tutor fails, *)
(* is late or leaves a mark out, or the request was recorded meanwhile.    *)
CheckFails(h) == hand[h].op = "check" /\ Rollback(h)
-----------------------------------------------------------------------------
(* ebookCourseSession *)

ActiveOf(skill) == {s \in Sessions : sess[s].status = "active" /\ sess[s].skill = skill}

(* The learner's row is locked: an active session is resumed, else a new   *)
(* one is written (bound: as long as an id is left).                       *)
Open(skill) ==
  IF ActiveOf(skill) # {} THEN UNCHANGED sess
  ELSE \E s \in Sessions :
         /\ sess[s].status = "absent"
         /\ sess' = [sess EXCEPT ![s] = NewSession(skill)]

OpenSpeaking ==
  /\ Open("speaking")
  /\ UNCHANGED <<progress, lock, answers, hand>>

(* Listen first: looked at before the transaction. *)
ListeningDone == Listening \subseteq (IF row = None THEN {} ELSE row.heard)

Gate(h) ==
  /\ hand[h] = Idle /\ ListeningDone
  /\ Goto(h, [op |-> "gated"])
  /\ UNCHANGED <<progress, practice>>

OpenShadowing(h) ==
  /\ hand[h].op = "gated"
  /\ Open("shadowing")
  /\ Stop(h)
  /\ UNCHANGED <<progress, lock, answers>>
-----------------------------------------------------------------------------
(* submitEbookShadowing: a spoken line (a typed one, and a request_id that *)
(* was answered, change nothing)                                           *)

Saying(s, r) == sess[s].status = "active" /\ sess[s].skill = "shadowing" /\ answers[r] = None

LineBegin(h, s, r) ==
  /\ hand[h] = Idle /\ Free(s) /\ Saying(s, r)
  /\ lock' = [lock EXCEPT ![s] = h]
  /\ Goto(h, [op |-> "line", session |-> s, request |-> r, index |-> sess[s].index])
  /\ UNCHANGED <<progress, sess, answers>>

Answered(h, passed) ==
  /\ hand[h].op = "line" /\ answers[hand[h].request] = None
  /\ answers' = [answers EXCEPT ![hand[h].request] =
                   [session |-> hand[h].session, passed |-> passed]]
  /\ lock' = [lock EXCEPT ![hand[h].session] = None]
  /\ Stop(h)
  /\ UNCHANGED <<rowLock, old, events, failures>>

LineMissed(h) == Answered(h, FALSE) /\ UNCHANGED <<row, prompts, sess>>

SaidIn(s, i) ==
  [sess EXCEPT ![s].index = i, ![s].status = IF i < Lines THEN @ ELSE "completed"]

(* A line that is not the last un-completes the step; the last one         *)
(* completes it and the session.  The seed is read in the transaction.     *)
LineSaid(h) ==
  LET i == hand[h].index + 1
      done == Plus(RowOr(Seed), "shadowing")
  IN /\ Answered(h, TRUE) /\ RowFree
     /\ sess' = SaidIn(hand[h].session, i)
     /\ IF i < Lines
          THEN row' = Minus(RowOr(Seed), "shadowing") /\ UNCHANGED prompts
          ELSE row' = Settled(done) /\ Enrol(done)

LineFails(h) == hand[h].op = "line" /\ Rollback(h)
-----------------------------------------------------------------------------
(* submitTurn on a speaking session, as far as it matters here: one more   *)
(* independent round (two are needed; more are not told apart).            *)
RoundWon(s) ==
  /\ Free(s) /\ sess[s].status = "active" /\ sess[s].skill = "speaking"
  /\ sess[s].credits < 2
  /\ sess' = [sess EXCEPT ![s].credits = @ + 1]
  /\ UNCHANGED <<progress, lock, answers, hand>>

(* completeSession: asked for, or by finishTurn once a session is ready *)

Ready(s) == sess[s].skill = "speaking" /\ sess[s].credits >= 2

Close(s) == sess' = [sess EXCEPT ![s].status = "completed"]

CompleteUnready(s) ==
  /\ Free(s) /\ sess[s].status = "active" /\ ~Ready(s)
  /\ Close(s)
  /\ UNCHANGED <<progress, lock, answers, hand>>

CompleteMerged_NoReview(s) ==
  /\ Free(s) /\ sess[s].status = "active" /\ Ready(s)
  /\ row # None /\ RowFree
  /\ row' = Plus(row, "speaking")
  /\ Close(s)
  /\ UNCHANGED <<rowLock, old, events, failures, prompts, lock, answers, hand>>

CompleteMerged(s) ==
  /\ Free(s) /\ sess[s].status = "active" /\ Ready(s)
  /\ row # None /\ RowFree
  /\ row' = Settled(Plus(row, "speaking")) /\ Enrol(Plus(row, "speaking"))
  /\ Close(s)
  /\ UNCHANGED <<rowLock, old, events, failures, lock, answers, hand>>

(* There is no row to lock, or it is an uncommitted INSERT of another      *)
(* handler that the SELECT does not see: the state is made from the seed.  *)
CompleteFindsNone(h, s) ==
  /\ hand[h] = Idle
  /\ Free(s) /\ sess[s].status = "active" /\ Ready(s)
  /\ row = None
  /\ lock' = [lock EXCEPT ![s] = h]
  /\ Goto(h, [op |-> "upsert", session |-> s, state |-> Plus(Seed, "speaking")])
  /\ UNCHANGED <<progress, sess, answers>>

(* INSERT ... DO UPDATE SET state = excluded.state: waits for the other    *)
(* handler and then replaces what it wrote.                                *)
CompleteUpsert(h) ==
  /\ hand[h].op = "upsert" /\ RowFree
  /\ row' = Settled(hand[h].state) /\ Enrol(hand[h].state)
  /\ Close(hand[h].session)
  /\ lock' = [lock EXCEPT ![hand[h].session] = None]
  /\ Stop(h)
  /\ UNCHANGED <<rowLock, old, events, failures, answers>>

(* The process dies or loses the database between two steps. *)
Crash(h) == hand[h] # Idle /\ Rollback(h)
-----------------------------------------------------------------------------
(* resetLearning: it waits for the rows it deletes. *)

ResetLibrary ==
  /\ failures' = [q \in Quiz |-> 0]
  /\ prompts' = IF prompts = "scheduled" THEN "cleared" ELSE prompts
  /\ UNCHANGED <<row, rowLock, old, events, practice, hand>>

ResetAll ==
  /\ RowFree /\ \A s \in Sessions : Free(s)
  /\ row' = None /\ old' = None
  /\ events' = [c \in Checks |-> None]
  /\ failures' = [q \in Quiz |-> 0]
  /\ prompts' = "none"
  /\ sess' = [s \in Sessions |->
                IF sess[s].status = "absent" THEN sess[s]
                ELSE [NoSession EXCEPT !.status = "gone"]]
  /\ answers' = [r \in Answers |-> None]
  /\ UNCHANGED <<rowLock, lock, hand>>
-----------------------------------------------------------------------------
(* What the code does next, once a handler has started *)
Continue(h) ==
  \/ Reveal(h)
  \/ \E done, undone \in SUBSET Reading : done \cap undone = {} /\ Report(h, done, undone)
  \/ \E c \in Checks : CheckBegin(h, c) \/ CheckReplay(h, c)
  \/ CheckCommit(h)
  \/ OpenShadowing(h)
  \/ LineSaid(h)
  \/ LineMissed(h)
  \/ CompleteUpsert(h)

Begin(h) ==
  \/ ReadSeed(h)
  \/ Gate(h)
  \/ \E s \in Sessions, r \in Answers : LineBegin(h, s, r)
  \/ \E s \in Sessions : CompleteFindsNone(h, s)

AtOnce ==
  \/ OpenSpeaking
  \/ \E s \in Sessions : RoundWon(s)
  \/ \E s \in Sessions : CompleteUnready(s)
  \/ \E s \in Sessions : CompleteMerged(s)
  \/ ResetLibrary
  \/ ResetAll

Next ==
  \/ \E h \in Handlers : Begin(h) \/ Continue(h) \/ CheckFails(h) \/ LineFails(h) \/ Crash(h)
  \/ AtOnce

Spec == Init /\ [][Next]_vars
-----------------------------------------------------------------------------
(* Properties *)

TypeOK ==
  /\ row \in {None} \cup Row /\ rowLock \in Handlers \cup {None}
  /\ old \in {None} \cup SUBSET Steps
  /\ events \in [Checks -> {None} \cup SUBSET Quiz]
  /\ failures \in [Quiz -> Nat]
  /\ prompts \in {"none", "scheduled", "cleared"}
  /\ sess \in [Sessions -> Session] /\ lock \in [Sessions -> Handlers \cup {None}]
  /\ \A s \in Sessions : sess[s].status = "active" => sess[s].index < Lines
  /\ answers \in [Answers -> {None} \cup [session : Sessions, passed : BOOLEAN]]
  /\ hand \in [Handlers -> HandlerState]

StepsHaveEvidence ==
  row # None =>
    LET earned == row.steps \ row.given IN
      /\ "quiz" \in earned => row.right = Quiz
      /\ "shadowing" \in earned =>
           \E s \in Sessions : sess[s].status = "completed" /\ sess[s].index = Lines
      /\ "speaking" \in earned =>
           \E s \in Sessions : sess[s].status = "completed" /\ Ready(s)

FailuresHaveChecks ==
  \A q \in Quiz :
    failures[q] <= Cardinality({c \in Checks : events[c] # None /\ q \in events[c]})

LinesHavePasses ==
  \A s \in Sessions :
    sess[s].index =
      Cardinality({r \in Answers : answers[r] = [session |-> s, passed |-> TRUE]})

(* Progress is earned, whatever order, race, repetition, failure or reset  *)
(* came between.  An assessed step that was not carried over from an       *)
(* earlier version has its evidence: every quiz item right, a practice     *)
(* with every line said, a completed speaking session with two independent *)
(* rounds (ebook_check.go 377-384, sessions.go 671 and 726-753).  A wrong  *)
(* mark is counted once as a failure of its review item and never without  *)
(* the recorded check that gave it (ebook_check.go 358-405).  shadow_index *)
(* is the number of stored answers that passed: no line is skipped or lost *)
(* (sessions.go 538-645).  Every row and handler has its type, and a       *)
(* practice whose lines are all said is over.                              *)
ProgressIsEarned == TypeOK /\ StepsHaveEvidence /\ FailuresHaveChecks /\ LinesHavePasses

(* "When all five steps are complete the unit always enters spaced review" *)
(* (README.md 66): whichever of the five kinds of request finishes it, and *)
(* in whatever order.  A reset of the library may take the prompts away    *)
(* again; a unit finished under an earlier version is left out here.       *)
FinishedIsInReview ==
  row # None /\ row.given = {} /\ Finished(row) => prompts # "none"

(* How progress may be lost while nothing is reset: a quiz by a wrong or,  *)
(* when carried over, an incomplete re-check; the shadowing step by        *)
(* practising its first lines again; a reading step by the client while    *)
(* the quiz is not passed; and anything by the completion of a speaking    *)
(* session that had found no row.  No other order of requests loses any.   *)
Rechecked ==
  \E c \in Checks : events[c] = None /\ events'[c] # None /\ events'[c] # {}

OnlyTheseLoseProgress ==
  [][row # None /\ row' # None =>
       \/ \E h \in Handlers : hand[h].op = "upsert" /\ hand'[h] = Idle
       \/ LET lost == row.steps \ row'.steps IN
            /\ row.heard \subseteq row'.heard
            /\ row.revealed => row'.revealed
            /\ row.right \subseteq row'.right \/ Rechecked
            /\ "speaking" \notin lost
            /\ "quiz" \in lost => Rechecked \/ "quiz" \in row.given
            /\ "shadowing" \in lost =>
                 \E s \in Sessions : sess'[s].index > sess[s].index /\ sess'[s].index < Lines
            /\ lost \cap Reading # {} => "quiz" \notin row'.steps]_vars

=============================================================================
