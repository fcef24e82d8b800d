-------------------------- MODULE PracticeSession ---------------------------
(***************************************************************************)
(* The turn-by-turn practice of one learner: concurrent HTTP handlers      *)
(* (internal/app/sessions.go, hints.go, session_features.go) over the rows *)
(* of learning_sessions, attempts and mastery.                             *)
(*                                                                         *)
(* A handler that assesses speech keeps the row of its session locked      *)
(* ("FOR NO KEY UPDATE") across the call of the AI, so it takes two steps: *)
(* one that locks and checks, one that has the answer and commits.  After  *)
(* the commit it may go on to complete the session, in two more steps that *)
(* hold no lock between them.  Any handler can be cut off between steps    *)
(* (crash, lost connection to the database); PostgreSQL then drops its     *)
(* locks and its uncommitted work.                                         *)
(***************************************************************************)
EXTENDS Integers, FiniteSets

CONSTANTS Handlers,        \* HTTP requests being served at one time
          Sessions,        \* ids of learning_sessions
          Lessons,         \* ids of lessons
          Modes,           \* modes other than "lesson" the learner starts
          Requests,        \* request_id of answers (idempotency keys)
          HintRequests,    \* request_id of hints (optional: may be empty)
          Legacy,          \* lesson sessions there may be from before lesson_flow
          LegacyLesson,    \* the lesson each of them follows
          Drills,          \* drills of a legacy lesson (4 in the code)
          MaxHint,         \* highest hint level (4 in the code)
          PlacementMin,    \* answers a placement needs (5 in the code)
          Verdicts,        \* what the tutor says of an answer
          MaxStep,         \* bound: rounds the learner advances to
          None             \* no session, request, handler or lesson

ASSUME ConstantsAssumption ==
  /\ Drills \in Nat \ {0} /\ MaxHint \in Nat \ {0}
  /\ PlacementMin \in Nat /\ MaxStep \in Nat
  /\ IsFiniteSet(Requests) /\ IsFiniteSet(Sessions)
  /\ Legacy \subseteq Sessions /\ LegacyLesson \in [Legacy -> Lessons]
  /\ Modes \subseteq {"free", "placement"}
  /\ Verdicts \subseteq {"pass", "off_task", "wrong", "unclear"}
  /\ None \notin Handlers \cup Sessions \cup Lessons \cup Requests \cup HintRequests

(* None is not a stored answer either. *)
ASSUME AnswerAssumption ==
  \A s \in Sessions, spoken, unaided \in BOOLEAN, v \in Verdicts :
    [session |-> s, spoken |-> spoken, unaided |-> unaided, verdict |-> v] # None

VARIABLES sess,       \* learning_sessions: status, mode and state
          attempts,   \* attempts, by request_id (UNIQUE with the user)
          mastery,    \* mastery rows of the learner
          hand,       \* what each handler is doing
          lock,       \* row lock of each session
          userLock    \* users row locked FOR UPDATE by a session start

vars == <<sess, attempts, mastery, hand, lock, userLock>>
-----------------------------------------------------------------------------
(* Rows *)

Steps == 0 .. MaxStep

(* "pass" is correct and goal_met, "off_task" is correct only, "unclear"   *)
(* is audio nobody can make out (Validate clears its other verdicts).      *)
VerdictsOn(spoken) == IF spoken THEN Verdicts ELSE Verdicts \ {"unclear"}

SessionRow ==
  [status : {"absent", "active", "completed", "gone"},
   mode : {"lesson"} \cup Modes,
   flow : {"guided-v2", "legacy"},
   lesson : Lessons \cup {None},
   stage : {"pattern", "drill", "conversation"},
   step : Steps, hint : 0 .. MaxHint, last_pass : BOOLEAN,
   independent : Nat, independent_steps : SUBSET Steps, progress_drills : 0 .. Drills,
   live : BOOLEAN, last_hint : HintRequests \cup {None},
   summary : [attempts : Nat, independent : Nat, mastered : BOOLEAN]]

NoSummary == [attempts |-> 0, independent |-> 0, mastered |-> FALSE]

(* The state createSession writes. *)
NewSession(mode, lesson) ==
  [status |-> "active", mode |-> mode, flow |-> "guided-v2", lesson |-> lesson,
   stage |-> IF mode = "lesson" THEN "pattern" ELSE "conversation",
   step |-> 0, hint |-> 0, last_pass |-> FALSE,
   independent |-> 0, independent_steps |-> {}, progress_drills |-> 0,
   live |-> FALSE, last_hint |-> None, summary |-> NoSummary]

NoSession == [NewSession("lesson", None) EXCEPT !.status = "absent"]

AttemptRow == [session : Sessions, spoken : BOOLEAN, unaided : BOOLEAN, verdict : Verdicts]

AttemptsOf(s) == {r \in Requests : attempts[r] # None /\ attempts[r].session = s}
ClearAudioOf(s) ==
  {r \in AttemptsOf(s) : attempts[r].spoken /\ attempts[r].verdict # "unclear"}

(* lessonProgress: ready to complete, and the rounds the percentage counts *)
AtMost(n, m) == IF n <= m THEN n ELSE m
AtLeast(n, m) == IF n >= m THEN n ELSE m

Ready(x) ==
  /\ x.mode = "lesson"
  /\ x.flow = "guided-v2" \/ x.stage = "conversation"
  /\ x.independent >= 2

CompletedDrills(x) ==
  LET now == CASE x.stage = "conversation" -> Drills
               [] x.stage = "drill" -> AtMost(x.step + (IF x.last_pass THEN 1 ELSE 0), Drills)
               [] OTHER -> 0
  IN AtLeast(now, x.progress_drills)

Progress(x) ==
  AtMost(x.independent, 2) + (IF x.flow = "legacy" THEN CompletedDrills(x) ELSE 0)
CourseOf(x) == IF x.mode = "lesson" THEN x.lesson ELSE None
-----------------------------------------------------------------------------
(* Handlers.  A definition Name_Fault is Name with a plausible fault in    *)
(* it: the properties must tell the two apart.                             *)

Idle == [op |-> "idle"]

HandlerState ==
  {Idle}
  \cup [op : {"create"}, lesson : Lessons, prior : Sessions \cup {None}, audio : BOOLEAN]
  \cup [op : {"hint"}, session : Sessions, request : HintRequests \cup {None}]
  \cup [op : {"turn"}, session : Sessions, request : Requests, spoken : BOOLEAN, retry : BOOLEAN]
  \cup [op : {"finish"}, session : Sessions, ready : BOOLEAN]
  \cup [op : {"counted"}, session : Sessions, count : Nat]

Free(s) == lock[s] = None
NobodyStarts == userLock = None

Stop(h) == hand' = [hand EXCEPT ![h] = Idle]
Goto(h, state) == hand' = [hand EXCEPT ![h] = state]

Init ==
  /\ \E old \in SUBSET Legacy :
       sess = [s \in Sessions |->
                 IF s \in old
                   THEN [NewSession("lesson", LegacyLesson[s]) EXCEPT !.flow = "legacy"]
                   ELSE NoSession]
  /\ attempts = [r \in Requests |-> None]
  /\ mastery = [l \in Lessons |-> [independent |-> 0, assisted |-> 0, completed |-> FALSE]]
  /\ hand = [h \in Handlers |-> Idle]
  /\ lock = [s \in Sessions |-> None]
  /\ userLock = None
-----------------------------------------------------------------------------
(* createSession *)

OpenLessons(l) ==
  {s \in Sessions : sess[s].status = "active" /\ sess[s].mode = "lesson" /\ sess[s].lesson = l}

CreateBegin_NoLock(h, l) ==
  /\ hand[h] = Idle
  /\ \E prior \in (IF OpenLessons(l) = {} THEN {None} ELSE OpenLessons(l)), audio \in BOOLEAN :
       Goto(h, [op |-> "create", lesson |-> l, prior |-> prior, audio |-> audio])
  /\ UNCHANGED <<sess, attempts, mastery, lock, userLock>>

(* A lesson: lock the learner's row, look for a session to resume (bound:  *)
(* a new one is started only while an id of Sessions is left).  The        *)
(* request may also set auto_audio.                                        *)
CreateBegin(h, l) ==
  /\ hand[h] = Idle /\ NobodyStarts
  /\ \E prior \in (IF OpenLessons(l) = {} THEN {None} ELSE OpenLessons(l)), audio \in BOOLEAN :
       /\ prior = None => \E s \in Sessions : sess[s].status = "absent"
       /\ Goto(h, [op |-> "create", lesson |-> l, prior |-> prior, audio |-> audio])
  /\ userLock' = h
  /\ UNCHANGED <<sess, attempts, mastery, lock>>

(* Setting auto_audio is an UPDATE of the resumed session: it waits for    *)
(* whoever has that row, with the learner's row locked all the while.      *)
CreateResume(h) ==
  /\ hand[h].op = "create" /\ hand[h].prior # None
  /\ hand[h].audio => Free(hand[h].prior)
  /\ userLock' = None
  /\ Stop(h)
  /\ UNCHANGED <<sess, attempts, mastery, lock>>

CreateLesson(h) ==
  /\ hand[h].op = "create" /\ hand[h].prior = None
  /\ \E s \in Sessions :
       /\ sess[s].status = "absent"
       /\ sess' = [sess EXCEPT ![s] = NewSession("lesson", hand[h].lesson)]
  /\ userLock' = None
  /\ Stop(h)
  /\ UNCHANGED <<attempts, mastery, lock>>

(* Any other mode takes no lock of its own; its INSERT waits for the row   *)
(* of the learner that a lesson start has locked.                          *)
CreateOther(mode, l) ==
  /\ NobodyStarts
  /\ \E s \in Sessions :
       /\ sess[s].status = "absent"
       /\ sess' = [sess EXCEPT ![s] = NewSession(mode, l)]
  /\ UNCHANGED <<attempts, mastery, hand, lock, userLock>>
-----------------------------------------------------------------------------
(* advance: its pre-read is repeated under the lock, so it is one step. *)

Advanced(x) ==
  LET fresh == [x EXCEPT !.hint = 0, !.last_pass = FALSE]
  IN CASE x.stage = "pattern" ->
            [fresh EXCEPT !.step = 0,
                          !.stage = IF x.flow = "guided-v2" THEN "conversation" ELSE "drill"]
       [] x.stage = "drill" /\ x.step + 1 >= Drills ->
            [fresh EXCEPT !.stage = "conversation", !.step = 0]
       [] OTHER -> [fresh EXCEPT !.step = @ + 1]

Advance(s) ==
  /\ Free(s)
  /\ sess[s].status = "active"
  /\ sess[s].stage # "pattern" => sess[s].last_pass
  /\ Advanced(sess[s]).step <= MaxStep
  /\ sess' = [sess EXCEPT ![s] = Advanced(@)]
  /\ UNCHANGED <<attempts, mastery, hand, lock, userLock>>
-----------------------------------------------------------------------------
(* hint *)

Hinted(x, q) == [x EXCEPT !.hint = AtMost(MaxHint, @ + 1), !.last_hint = q]

(* The saved result answers a repeated request_id (also when the session   *)
(* is over); an answered request changes nothing.                          *)
HintReplayed(s, q) == q # None /\ sess[s].last_hint = q

(* A hint taken from the lesson or from hint_cache needs no call. *)
HintAtOnce(s, q) ==
  /\ Free(s)
  /\ ~HintReplayed(s, q)
  /\ sess[s].status = "active"
  /\ sess' = [sess EXCEPT ![s] = Hinted(@, q)]
  /\ UNCHANGED <<attempts, mastery, hand, lock, userLock>>

(* Otherwise the row stays locked while the helper model answers. *)
HintBegin(h, s, q) ==
  /\ hand[h] = Idle /\ Free(s)
  /\ ~HintReplayed(s, q)
  /\ sess[s].status = "active"
  /\ lock' = [lock EXCEPT ![s] = h]
  /\ Goto(h, [op |-> "hint", session |-> s, request |-> q])
  /\ UNCHANGED <<sess, attempts, mastery, userLock>>

HintAnswered(h) ==
  /\ hand[h].op = "hint"
  /\ sess' = [sess EXCEPT ![hand[h].session] = Hinted(@, hand[h].request)]
  /\ lock' = [lock EXCEPT ![hand[h].session] = None]
  /\ Stop(h)
  /\ UNCHANGED <<attempts, mastery, userLock>>
-----------------------------------------------------------------------------
(* submitTurn *)

TurnReplay_RepliesOnly(h, s, r) ==
  /\ hand[h] = Idle /\ Free(s)
  /\ sess[s].status \in {"active", "completed"}
  /\ r \in AttemptsOf(s)
  /\ Goto(h, [op |-> "finish", session |-> s, ready |-> FALSE])
  /\ UNCHANGED <<sess, attempts, mastery, lock, userLock>>

(* The row is locked before anything is looked at.  A known request_id is  *)
(* answered from the stored attempt; its session may still have to be      *)
(* completed.                                                              *)
TurnReplay(h, s, r) ==
  /\ hand[h] = Idle /\ Free(s)
  /\ sess[s].status \in {"active", "completed"}
  /\ r \in AttemptsOf(s)
  /\ Goto(h, [op |-> "finish", session |-> s,
              ready |-> Ready(sess[s]) /\ sess[s].status = "active"])
  /\ UNCHANGED <<sess, attempts, mastery, lock, userLock>>

(* A corrected retry names the latest answer of the session. *)
TurnBegin(h, s, r, spoken, retry) ==
  /\ hand[h] = Idle /\ Free(s)
  /\ r \notin AttemptsOf(s)
  /\ sess[s].status = "active" /\ ~sess[s].live /\ sess[s].stage # "pattern"
  /\ retry => AttemptsOf(s) # {}
  /\ lock' = [lock EXCEPT ![s] = h]
  /\ Goto(h, [op |-> "turn", session |-> s, request |-> r, spoken |-> spoken, retry |-> retry])
  /\ UNCHANGED <<sess, attempts, mastery, userLock>>

(* learning.Independent: clear speech, correct, on task, with no help. *)
Independent(x, t, verdict) ==
  t.spoken /\ verdict = "pass" /\ x.hint = 0 /\ ~t.retry

Counted_EveryTime(x, t, verdict) ==
  Independent(x, t, verdict) /\ x.stage = "conversation"

(* A round of a lesson counts once; a session without a lesson counts all. *)
Counted(x, t, verdict) ==
  /\ Independent(x, t, verdict)
  /\ x.stage = "conversation"
  /\ x.lesson = None \/ x.step \notin x.independent_steps

Graded_ResetsHint(x, t, verdict) ==
  [x EXCEPT
     !.independent_steps = IF Counted(x, t, verdict) THEN @ \cup {x.step} ELSE @,
     !.independent = IF Counted(x, t, verdict) THEN @ + 1 ELSE @,
     !.last_pass = verdict = "pass", !.hint = 0]

Graded(x, t, verdict) ==
  LET passed == verdict = "pass"
  IN [x EXCEPT
        !.independent_steps = IF Independent(x, t, verdict) /\ x.stage = "conversation"
                                THEN @ \cup {x.step} ELSE @,
        !.independent = IF Counted(x, t, verdict) THEN @ + 1 ELSE @,
        !.last_pass = passed,
        !.progress_drills = IF x.stage = "drill" /\ passed
                              THEN AtLeast(@, AtMost(Drills, x.step + 1)) ELSE @]

Mastered_BeforeDedup(m, x, t, verdict) ==
  IF Independent(x, t, verdict) THEN [m EXCEPT !.independent = @ + 1] ELSE m

Mastered(m, x, t, verdict) ==
  CASE Counted(x, t, verdict) -> [m EXCEPT !.independent = @ + 1]
    [] ~Counted(x, t, verdict) /\ t.spoken /\ verdict \in {"pass", "off_task"} ->
         [m EXCEPT !.assisted = @ + 1]
    [] OTHER -> m

(* The tutor answered: the attempt, the state and mastery are committed    *)
(* together.  A request_id that was meanwhile used for another session     *)
(* violates UNIQUE(user_id, request_id) and the handler fails (CallFails). *)
(* The INSERT waits for a lesson start that has the learner's row.         *)
TurnGraded(h, verdict) ==
  LET t == hand[h]
      x == sess[t.session]
  IN /\ t.op = "turn"
     /\ verdict \in VerdictsOn(t.spoken)
     /\ attempts[t.request] = None
     /\ NobodyStarts
     /\ attempts' = [attempts EXCEPT ![t.request] =
                       [session |-> t.session, spoken |-> t.spoken,
                        unaided |-> x.hint = 0 /\ ~t.retry, verdict |-> verdict]]
     /\ sess' = [sess EXCEPT ![t.session] = Graded(x, t, verdict)]
     /\ mastery' = IF x.lesson = None THEN mastery
                   ELSE [mastery EXCEPT ![x.lesson] = Mastered(@, x, t, verdict)]
     /\ lock' = [lock EXCEPT ![t.session] = None]
     /\ Goto(h, [op |-> "finish", session |-> t.session,
                 ready |-> Ready(Graded(x, t, verdict))])
     /\ UNCHANGED userLock

Rollback_KeepsRow(h) == Stop(h) /\ UNCHANGED <<sess, attempts, mastery, lock, userLock>>

(* The transaction is rolled back: nothing of the handler remains. *)
Rollback(h) ==
  /\ lock' = [s \in Sessions |-> IF lock[s] = h THEN None ELSE lock[s]]
  /\ userLock' = IF userLock = h THEN None ELSE userLock
  /\ Stop(h)
  /\ UNCHANGED <<sess, attempts, mastery>>

(* The budget refuses, the model fails or runs into its 30 seconds, its    *)
(* answer does not parse, the request_id was taken by another session, or  *)
(* PostgreSQL fails a statement of one of two transactions that wait for   *)
(* each other (a start sets auto_audio in a row that an answered turn has, *)
(* which inserts for the learner's row that the start has).                *)
CallFails(h) == hand[h].op \in {"turn", "hint", "create"} /\ Rollback(h)

(* The process dies, or loses its transaction or the database, at any      *)
(* point.                                                                  *)
Crash(h) == hand[h] # Idle /\ Rollback(h)
-----------------------------------------------------------------------------
(* completeSession *)

EnoughAnswers_None(x, n) == TRUE

EnoughAnswers(x, n) ==
  /\ x.mode = "lesson" => n > 0
  /\ x.mode = "placement" => n >= PlacementMin

MayComplete(s) ==
  /\ sess[s].status = "active" /\ ~sess[s].live
  /\ EnoughAnswers(sess[s], Cardinality(AttemptsOf(s)))

(* The attempts are counted before the row is locked. *)
CompleteCount(h, s) ==
  Goto(h, [op |-> "counted", session |-> s, count |-> Cardinality(AttemptsOf(s))])

(* The learner asks for it. *)
CompleteRequest(h, s) ==
  /\ hand[h] = Idle
  /\ MayComplete(s) /\ CompleteCount(h, s)
  /\ UNCHANGED <<sess, attempts, mastery, lock, userLock>>

(* finishTurn: a lesson that has become ready is completed before the      *)
(* reply; otherwise, and when completeSession refuses, the reply follows.  *)
FinishTurn(h) ==
  /\ hand[h].op = "finish"
  /\ IF hand[h].ready /\ MayComplete(hand[h].session)
       THEN CompleteCount(h, hand[h].session)
       ELSE Stop(h)
  /\ UNCHANGED <<sess, attempts, mastery, lock, userLock>>

Completable_NotRechecked(s) == sess[s].status \in {"active", "completed"}

Completable(s) ==
  /\ sess[s].status = "active" /\ ~sess[s].live
  /\ sess[s].mode = "placement" => Cardinality(ClearAudioOf(s)) >= PlacementMin

IsMastered(x) == x.mode = "lesson" /\ x.lesson # None /\ x.independent >= 2

(* The first completion of a lesson and a placement also wait for a lesson *)
(* start (their review item and profile are the learner's); leaving that   *)
(* wait out only adds orders.                                              *)
CompleteCommit(h) ==
  LET s == hand[h].session
      x == sess[s]
  IN /\ hand[h].op = "counted" /\ Free(s)
     /\ Completable(s)
     /\ sess' = [sess EXCEPT ![s].status = "completed",
                             ![s].summary = [attempts |-> hand[h].count,
                                             independent |-> x.independent,
                                             mastered |-> IsMastered(x)]]
     /\ mastery' = IF IsMastered(x) THEN [mastery EXCEPT ![x.lesson].completed = TRUE]
                   ELSE mastery
     /\ Stop(h)
     /\ UNCHANGED <<attempts, lock, userLock>>

(* Completed by another handler, Live, too little clear audio, or erased. *)
CompleteRefused(h) ==
  /\ hand[h].op = "counted" /\ Free(hand[h].session)
  /\ ~Completable(hand[h].session)
  /\ Stop(h)
  /\ UNCHANGED <<sess, attempts, mastery, lock, userLock>>
-----------------------------------------------------------------------------
(* Other writers of the same rows *)

(* liveRoute: one Live connection per learner, on a session still active.  *)
LiveStart(s) ==
  /\ NobodyStarts /\ Free(s)
  /\ \A t \in Sessions : ~sess[t].live
  /\ sess[s].status = "active"
  /\ sess' = [sess EXCEPT ![s].live = TRUE]
  /\ UNCHANGED <<attempts, mastery, hand, lock, userLock>>

(* The connection's deferred update, or the worker's sweep of stale flags. *)
LiveEnd(s) ==
  /\ Free(s)
  /\ sess[s].live
  /\ sess' = [sess EXCEPT ![s].live = FALSE]
  /\ UNCHANGED <<attempts, mastery, hand, lock, userLock>>

(* resetLearning with scope "all" deletes every row under the learner's    *)
(* lock; a deleted session id is never used again.                         *)
ResetAll ==
  /\ NobodyStarts
  /\ \A s \in Sessions : Free(s) /\ ~(sess[s].status = "active" /\ sess[s].live)
  /\ sess' = [s \in Sessions |->
                IF sess[s].status = "absent" THEN sess[s]
                ELSE [NoSession EXCEPT !.status = "gone"]]
  /\ attempts' = [r \in Requests |-> None]
  /\ mastery' = [l \in Lessons |-> [independent |-> 0, assisted |-> 0, completed |-> FALSE]]
  /\ UNCHANGED <<hand, lock, userLock>>
-----------------------------------------------------------------------------
(* What the code does next, once a handler has started *)
Continue(h) ==
  \/ CreateResume(h)
  \/ CreateLesson(h)
  \/ HintAnswered(h)
  \/ \E verdict \in Verdicts : TurnGraded(h, verdict)
  \/ FinishTurn(h)
  \/ CompleteCommit(h)
  \/ CompleteRefused(h)

Begin(h) ==
  \/ \E l \in Lessons : CreateBegin(h, l)
  \/ \E s \in Sessions, q \in HintRequests \cup {None} : HintBegin(h, s, q)
  \/ \E s \in Sessions, r \in Requests : TurnReplay(h, s, r)
  \/ \E s \in Sessions, r \in Requests, spoken, retry \in BOOLEAN :
       TurnBegin(h, s, r, spoken, retry)
  \/ \E s \in Sessions : CompleteRequest(h, s)

AtOnce ==
  \/ \E mode \in Modes, l \in Lessons \cup {None} : CreateOther(mode, l)
  \/ \E s \in Sessions : Advance(s)
  \/ \E s \in Sessions, q \in HintRequests \cup {None} : HintAtOnce(s, q)
  \/ \E s \in Sessions : LiveStart(s)
  \/ \E s \in Sessions : LiveEnd(s)
  \/ ResetAll

Next ==
  \/ \E h \in Handlers : Begin(h) \/ Continue(h) \/ CallFails(h) \/ Crash(h)
  \/ AtOnce

Spec == Init /\ [][Next]_vars
-----------------------------------------------------------------------------
(* Properties *)

(* Every row and every handler has its type. *)
TypeOK ==
  /\ sess \in [Sessions -> SessionRow]
  /\ attempts \in [Requests -> AttemptRow \cup {None}]
  /\ mastery \in [Lessons -> [independent : Nat, assisted : Nat, completed : BOOLEAN]]
  /\ hand \in [Handlers -> HandlerState]
  /\ lock \in [Sessions -> Handlers \cup {None}]
  /\ userLock \in Handlers \cup {None}

(* A session that follows a lesson credits each conversation round at most *)
(* once, whatever is repeated, retried or replayed (sessions.go 387-406;   *)
(* the integration test's "same conversation step counted twice").         *)
CreditsAreDistinctRounds ==
  \A s \in Sessions :
    sess[s].lesson # None => sess[s].independent = Cardinality(sess[s].independent_steps)

(* Mastery is earned: behind every credit is a stored answer of its own,   *)
(* spoken, unaided and passed (state and attempt commit together,          *)
(* sessions.go 373-470); mastery.independent_successes and the rounds the  *)
(* lesson's sessions have credited are two records of one fact and never   *)
(* drift apart, however many sessions there were (404-437);                *)
(* and a lesson is mastered only if a completed session of it has two      *)
(* credited rounds ("Mastery still requires independent speech",           *)
(* resume.go 10) - across concurrent answers, failed calls, replays,       *)
(* crashes and a reset.                                                    *)
CreditsHaveEvidence ==
  \A s \in Sessions :
    sess[s].independent <=
      Cardinality({r \in AttemptsOf(s) :
                     /\ attempts[r].spoken /\ attempts[r].unaided
                     /\ attempts[r].verdict = "pass"})

CreditedRounds(l) ==
  {round \in Sessions \X Steps :
     sess[round[1]].lesson = l /\ round[2] \in sess[round[1]].independent_steps}

MasteryAgreesWithSessions ==
  \A l \in Lessons : mastery[l].independent = Cardinality(CreditedRounds(l))

MasteredOnlyByTwoRounds ==
  \A l \in Lessons :
    mastery[l].completed =>
      \E s \in Sessions :
        /\ sess[s].status = "completed" /\ sess[s].lesson = l
        /\ Cardinality(sess[s].independent_steps) >= 2

MasteryIsEarned == CreditsHaveEvidence /\ MasteryAgreesWithSessions /\ MasteredOnlyByTwoRounds

(* Two sessions the app has started are never active for one lesson        *)
(* (createSession locks the learner and resumes, sessions.go 92-111);      *)
(* only sessions older than that rule may be parallel.                     *)
OneActivePerLesson ==
  \A s, t \in Sessions :
    /\ s # t
    /\ sess[s].status = "active" /\ sess[s].mode = "lesson"
    /\ sess[t].status = "active" /\ sess[t].mode = "lesson"
    /\ sess[s].lesson = sess[t].lesson
    => sess[s].flow = "legacy" /\ sess[t].flow = "legacy"

(* What was summarised is what the session ended with: its own count of    *)
(* credits, never more answers than are stored, at least one for a lesson, *)
(* and enough clear speech for a placement, though the answers are counted *)
(* before the row is locked (sessions.go 700-792).                         *)
SummaryIsSound ==
  \A s \in Sessions :
    sess[s].status = "completed" =>
      /\ sess[s].summary.independent = sess[s].independent
      /\ sess[s].summary.attempts <= Cardinality(AttemptsOf(s))
      /\ sess[s].mode = "lesson" => sess[s].summary.attempts > 0
      /\ sess[s].mode = "placement" => Cardinality(ClearAudioOf(s)) >= PlacementMin
      /\ sess[s].summary.mastered <=> IsMastered(sess[s])

(* A completed session is immutable: no late answer, hint, advance or      *)
(* second completion changes its state, its summary or its answers.  Only  *)
(* the Live flag may be cleared, and a reset may erase it.                 *)
CompletedIsFinal ==
  [][\A s \in Sessions :
       sess[s].status = "completed" =>
         \/ sess'[s].status = "gone"
         \/ /\ [sess'[s] EXCEPT !.live = FALSE] = [sess[s] EXCEPT !.live = FALSE]
            /\ AttemptsOf(s)' = AttemptsOf(s)]_vars

(* What LessonLedger promises is kept.                                     *)
Ledger == INSTANCE LessonLedger WITH
  NoLesson <- None,
  phase <- [s \in Sessions |-> sess[s].status],
  course <- [s \in Sessions |-> CourseOf(sess[s])],
  won <- [s \in Sessions |-> sess[s].independent_steps]

KeepsLedger == Ledger!Spec
=============================================================================
