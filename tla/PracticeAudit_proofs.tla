------------------------ MODULE PracticeAudit_proofs ------------------------
(***************************************************************************)
(* Proofs about PracticeSession, and about PracticeAudit, which watches    *)
(* it, for any number of handlers, sessions, lessons, requests and rounds. *)
(***************************************************************************)
EXTENDS PracticeAudit, FiniteSetTheorems, TLAPS
-----------------------------------------------------------------------------
(* The rows a handler writes are well typed, and keep what a session is. *)

(* A new session row has the type of one. *)
LEMMA NewSessionType ==
  ASSUME NEW mode \in {"lesson"} \cup Modes, NEW l \in Lessons \cup {None}
  PROVE  NewSession(mode, l) \in SessionRow
BY ConstantsAssumption DEF NewSession, SessionRow, NoSummary, Steps

(* A change of status alone keeps the type. *)
LEMMA StatusType ==
  ASSUME NEW x \in SessionRow, NEW st \in {"absent", "active", "completed", "gone"}
  PROVE  [x EXCEPT !.status = st] \in SessionRow
BY DEF SessionRow

(* So do the rows that stand for "not there" and "erased". *)
LEMMA NoSessionType ==
  /\ NoSession \in SessionRow
  /\ [NoSession EXCEPT !.status = "gone"] \in SessionRow
<1>1. NewSession("lesson", None) \in SessionRow
  BY NewSessionType
<1>2. NoSession \in SessionRow
  BY <1>1, StatusType DEF NoSession
<1> QED BY <1>2, StatusType

(* And a change of last_pass. *)
LEMMA PassType ==
  ASSUME NEW x \in SessionRow, NEW b \in BOOLEAN
  PROVE  [x EXCEPT !.last_pass = b] \in SessionRow
BY DEF SessionRow

(* And of the Live flag. *)
LEMMA LiveType ==
  ASSUME NEW x \in SessionRow, NEW b \in BOOLEAN
  PROVE  [x EXCEPT !.live = b] \in SessionRow
BY DEF SessionRow

(* The same session: only its progress differs. *)
SameSession(x, y) ==
  /\ y.status = x.status /\ y.mode = x.mode /\ y.flow = x.flow
  /\ y.lesson = x.lesson /\ y.live = x.live

(* hint: one level up, never above the highest. *)
LEMMA HintedType ==
  ASSUME NEW x \in SessionRow, NEW q \in HintRequests \cup {None}
  PROVE  /\ Hinted(x, q) \in SessionRow
         /\ SameSession(x, Hinted(x, q))
         /\ Hinted(x, q).independent = x.independent
         /\ Hinted(x, q).independent_steps = x.independent_steps
<1>1. AtMost(MaxHint, x.hint + 1) \in 0 .. MaxHint
  BY ConstantsAssumption DEF SessionRow, AtMost
<1>2. Hinted(x, q) \in SessionRow
  BY <1>1 DEF Hinted, SessionRow
<1>3. /\ SameSession(x, Hinted(x, q))
      /\ Hinted(x, q).independent = x.independent
      /\ Hinted(x, q).independent_steps = x.independent_steps
  BY DEF Hinted, SessionRow, SameSession
<1> QED BY <1>2, <1>3

(* advance: within the bound on rounds the row keeps its type. *)
LEMMA AdvancedType ==
  ASSUME NEW x \in SessionRow, Advanced(x).step <= MaxStep
  PROVE  /\ Advanced(x) \in SessionRow
         /\ SameSession(x, Advanced(x))
         /\ Advanced(x).independent = x.independent
         /\ Advanced(x).independent_steps = x.independent_steps
<1> DEFINE fresh == [x EXCEPT !.hint = 0, !.last_pass = FALSE]
           Keeps(y) == /\ SameSession(x, y)
                       /\ y.independent = x.independent
                       /\ y.independent_steps = x.independent_steps
<1>1. fresh \in SessionRow
  <2>1. [x EXCEPT !.hint = 0] \in SessionRow
    BY ConstantsAssumption DEF SessionRow
  <2> QED BY <2>1, PassType
<1>2. fresh.step = x.step /\ Keeps(fresh)
  BY DEF SessionRow, SameSession
<1>3. 0 \in Steps
  BY ConstantsAssumption DEF Steps
<1>4. ASSUME NEW stage \in {"pattern", "drill", "conversation"}
      PROVE  LET y == [fresh EXCEPT !.step = 0, !.stage = stage]
             IN y \in SessionRow /\ Keeps(y)
  <2> HIDE DEF fresh
  <2>1. [fresh EXCEPT !.step = 0] \in SessionRow
    BY <1>1, <1>3 DEF SessionRow
  <2>2. [[fresh EXCEPT !.step = 0] EXCEPT !.stage = stage] \in SessionRow
    BY ZenonT(60), <2>1 DEF SessionRow
  <2> QED BY <2>2, <1>1, <1>2 DEF SessionRow, SameSession
<1>5. CASE x.stage = "pattern" \/ (x.stage = "drill" /\ x.step + 1 >= Drills)
  <2>1. PICK stage \in {"pattern", "drill", "conversation"} :
          Advanced(x) = [fresh EXCEPT !.step = 0, !.stage = stage]
    <3>1. CASE x.stage = "pattern"
      BY <3>1 DEF Advanced
    <3>2. CASE x.stage = "drill" /\ x.step + 1 >= Drills
      <4>1. Advanced(x) = [fresh EXCEPT !.stage = "conversation", !.step = 0]
        BY <3>2 DEF Advanced
      <4>2. @ = [fresh EXCEPT !.step = 0, !.stage = "conversation"]
        BY <1>1 DEF SessionRow
      <4> QED BY <4>1, <4>2
    <3> QED BY <1>5, <3>1, <3>2
  <2> QED BY <2>1, <1>4
<1>6. CASE x.stage # "pattern" /\ ~(x.stage = "drill" /\ x.step + 1 >= Drills)
  <2>1. Advanced(x) = [fresh EXCEPT !.step = fresh.step + 1]
    BY <1>6 DEF Advanced
  <2> HIDE DEF fresh
  <2>2. fresh.step + 1 \in Steps
    BY <2>1, <1>1, ConstantsAssumption DEF SessionRow, Steps
  <2> QED BY <2>1, <2>2, <1>1, <1>2 DEF SessionRow, SameSession
<1> QED BY <1>5, <1>6

(* A graded answer leaves the row well typed. *)
LEMMA GradedType ==
  ASSUME NEW x \in SessionRow, NEW t, NEW verdict
  PROVE  /\ Graded(x, t, verdict) \in SessionRow
         /\ SameSession(x, Graded(x, t, verdict))
<1> DEFINE steps == IF Independent(x, t, verdict) /\ x.stage = "conversation"
                      THEN x.independent_steps \cup {x.step} ELSE x.independent_steps
           n == IF Counted(x, t, verdict) THEN x.independent + 1 ELSE x.independent
           passed == verdict = "pass"
           drills == IF x.stage = "drill" /\ passed
                       THEN AtLeast(x.progress_drills, AtMost(Drills, x.step + 1))
                       ELSE x.progress_drills
           y == [x EXCEPT !.independent_steps = steps, !.independent = n]
           z == [y EXCEPT !.last_pass = passed]
<1>1. steps \in SUBSET Steps
  BY DEF SessionRow
<1>2. n \in Nat
  BY DEF SessionRow
<1>3. passed \in BOOLEAN
  OBVIOUS
<1>4. drills \in 0 .. Drills
  BY ConstantsAssumption DEF SessionRow, AtLeast, AtMost, Steps
<1>5. Graded(x, t, verdict) = [z EXCEPT !.progress_drills = drills]
  BY DEF Graded
<1> HIDE DEF steps, n, passed, drills
<1>6. y \in SessionRow
  BY <1>1, <1>2 DEF SessionRow
<1>7. z \in SessionRow
  BY <1>6, <1>3, PassType
<1>8. [z EXCEPT !.progress_drills = drills] \in SessionRow
  BY <1>7, <1>4 DEF SessionRow
<1>9. SameSession(x, [z EXCEPT !.progress_drills = drills])
  BY DEF SessionRow, SameSession
<1> QED BY <1>5, <1>8, <1>9

(* A mastery row stays one. *)
LEMMA MasteredType ==
  ASSUME NEW m \in [independent : Nat, assisted : Nat, completed : BOOLEAN],
         NEW x, NEW t, NEW verdict
  PROVE  Mastered(m, x, t, verdict) \in [independent : Nat, assisted : Nat, completed : BOOLEAN]
BY DEF Mastered
-----------------------------------------------------------------------------
(* The type invariant *)

(* What a handler carries, by what it is doing. *)
LEMMA HandlerFields ==
  ASSUME hand \in [Handlers -> HandlerState], NEW h \in Handlers
  PROVE  /\ hand[h].op = "create" => hand[h].lesson \in Lessons /\ hand[h].prior \in Sessions \cup {None}
         /\ hand[h].op = "hint" => hand[h].session \in Sessions /\ hand[h].request \in HintRequests \cup {None}
         /\ hand[h].op = "turn" =>
              /\ hand[h].session \in Sessions /\ hand[h].request \in Requests
              /\ hand[h].spoken \in BOOLEAN /\ hand[h].retry \in BOOLEAN
         /\ hand[h].op = "finish" => hand[h].session \in Sessions /\ hand[h].ready \in BOOLEAN
         /\ hand[h].op = "counted" => hand[h].session \in Sessions /\ hand[h].count \in Nat
BY DEF HandlerState, Idle

(* Going on, or stopping, keeps the handlers' type. *)
LEMMA GotoType ==
  ASSUME hand \in [Handlers -> HandlerState], NEW h \in Handlers, NEW st \in HandlerState, Goto(h, st)
  PROVE  hand' \in [Handlers -> HandlerState]
BY DEF Goto

(* Stopping too. *)
LEMMA StopType ==
  ASSUME hand \in [Handlers -> HandlerState], NEW h \in Handlers, Stop(h)
  PROVE  hand' \in [Handlers -> HandlerState]
BY DEF Stop, HandlerState

(* A row lock is given to a handler or given up. *)
LEMMA RollbackType ==
  ASSUME TypeOK, NEW h \in Handlers, Rollback(h)
  PROVE  TypeOK'
<1>1. hand' \in [Handlers -> HandlerState]
  BY StopType DEF Rollback, TypeOK
<1>2. lock' \in [Sessions -> Handlers \cup {None}] /\ userLock' \in Handlers \cup {None}
  BY DEF Rollback, TypeOK
<1> QED BY <1>1, <1>2 DEF Rollback, TypeOK

(* The number of answers a completion carries is a number. *)
LEMMA CountType ==
  ASSUME TypeOK, NEW h \in Handlers, NEW s \in Sessions, CompleteCount(h, s)
  PROVE  hand' \in [Handlers -> HandlerState]
<1>1. Cardinality(AttemptsOf(s)) \in Nat
  BY FS_Subset, FS_CardinalityType, ConstantsAssumption DEF AttemptsOf
<1>2. [op |-> "counted", session |-> s, count |-> Cardinality(AttemptsOf(s))] \in HandlerState
  BY <1>1 DEF HandlerState
<1> QED BY <1>2, GotoType DEF CompleteCount, TypeOK

(* The initial rows have their types. *)
LEMMA InitType == Init => TypeOK
<1> SUFFICES ASSUME Init PROVE TypeOK
  OBVIOUS
<1>0. PICK old \in SUBSET Legacy :
       sess = [s \in Sessions |->
                 IF s \in old
                   THEN [NewSession("lesson", LegacyLesson[s]) EXCEPT !.flow = "legacy"]
                   ELSE NoSession]
  BY DEF Init
<1>1. sess \in [Sessions -> SessionRow]
  <2> SUFFICES ASSUME NEW s \in Sessions PROVE sess[s] \in SessionRow
    BY <1>0
  <2>1. CASE s \in old
    <3>1. NewSession("lesson", LegacyLesson[s]) \in SessionRow
      BY <2>1, NewSessionType, ConstantsAssumption
    <3>2. [NewSession("lesson", LegacyLesson[s]) EXCEPT !.flow = "legacy"] \in SessionRow
      BY <3>1 DEF SessionRow
    <3> QED BY <2>1, <3>2, <1>0
  <2>2. CASE s \notin old
    BY <2>2, NoSessionType, <1>0
  <2> QED BY <2>1, <2>2
<1>2. hand \in [Handlers -> HandlerState]
  BY DEF Init, HandlerState
<1> QED BY <1>1, <1>2 DEF Init, TypeOK

(* Every step keeps the types, one action at a time. *)
LEMMA NextType == TypeOK /\ [Next]_vars => TypeOK'
<1> SUFFICES ASSUME TypeOK, [Next]_vars PROVE TypeOK'
  OBVIOUS
<1> USE DEF TypeOK
<1>1. ASSUME NEW h \in Handlers, NEW l \in Lessons, CreateBegin(h, l) PROVE TypeOK'
  <2>1. PICK prior \in Sessions \cup {None}, audio \in BOOLEAN :
          Goto(h, [op |-> "create", lesson |-> l, prior |-> prior, audio |-> audio])
    BY <1>1 DEF CreateBegin, OpenLessons
  <2>2. [op |-> "create", lesson |-> l, prior |-> prior, audio |-> audio] \in HandlerState
    BY DEF HandlerState
  <2>3. hand' \in [Handlers -> HandlerState]
    BY <2>1, <2>2, GotoType
  <2> QED BY <1>1, <2>3 DEF CreateBegin
<1>2. ASSUME NEW h \in Handlers, NEW s \in Sessions, NEW q \in HintRequests \cup {None}, HintBegin(h, s, q)
      PROVE TypeOK'
  <2>1. [op |-> "hint", session |-> s, request |-> q] \in HandlerState
    BY DEF HandlerState
  <2>2. hand' \in [Handlers -> HandlerState]
    BY <1>2, <2>1, GotoType DEF HintBegin
  <2> QED BY <1>2, <2>2 DEF HintBegin
<1>3. ASSUME NEW h \in Handlers, NEW s \in Sessions, NEW r \in Requests, TurnReplay(h, s, r) PROVE TypeOK'
  <2>1. (Ready(sess[s]) /\ sess[s].status = "active") \in BOOLEAN
    OBVIOUS
  <2> DEFINE ready == Ready(sess[s]) /\ sess[s].status = "active"
  <2> HIDE DEF ready
  <2>2. [op |-> "finish", session |-> s, ready |-> ready] \in HandlerState
    BY <2>1 DEF HandlerState, ready
  <2>3. Goto(h, [op |-> "finish", session |-> s, ready |-> ready])
    BY <1>3 DEF TurnReplay, ready
  <2>4. hand' \in [Handlers -> HandlerState]
    BY <2>2, <2>3, GotoType
  <2> QED BY <1>3, <2>4 DEF TurnReplay
<1>4. ASSUME NEW h \in Handlers, NEW s \in Sessions, NEW r \in Requests,
             NEW spoken \in BOOLEAN, NEW retry \in BOOLEAN, TurnBegin(h, s, r, spoken, retry)
      PROVE TypeOK'
  <2>1. [op |-> "turn", session |-> s, request |-> r, spoken |-> spoken, retry |-> retry] \in HandlerState
    BY DEF HandlerState
  <2>2. hand' \in [Handlers -> HandlerState]
    BY <1>4, <2>1, GotoType DEF TurnBegin
  <2> QED BY <1>4, <2>2 DEF TurnBegin
<1>5. ASSUME NEW h \in Handlers, NEW s \in Sessions, CompleteRequest(h, s) PROVE TypeOK'
  BY <1>5, CountType DEF CompleteRequest
<1>6. ASSUME NEW h \in Handlers, CreateResume(h) PROVE TypeOK'
  BY <1>6, StopType DEF CreateResume
<1>7. ASSUME NEW h \in Handlers, CreateLesson(h) PROVE TypeOK'
  <2>1. hand[h].lesson \in Lessons
    BY <1>7, HandlerFields DEF CreateLesson
  <2>2. NewSession("lesson", hand[h].lesson) \in SessionRow
    BY <2>1, NewSessionType
  <2>3. sess' \in [Sessions -> SessionRow]
    BY <1>7, <2>2 DEF CreateLesson
  <2> QED BY <1>7, <2>3, StopType DEF CreateLesson
<1>8. ASSUME NEW h \in Handlers, HintAnswered(h) PROVE TypeOK'
  <2>1. hand[h].session \in Sessions /\ hand[h].request \in HintRequests \cup {None}
    BY <1>8, HandlerFields DEF HintAnswered
  <2>2. sess' \in [Sessions -> SessionRow]
    BY <1>8, <2>1, HintedType DEF HintAnswered
  <2> QED BY <1>8, <2>1, <2>2, StopType DEF HintAnswered
<1>9. ASSUME NEW h \in Handlers, NEW verdict \in Verdicts, TurnGraded(h, verdict) PROVE TypeOK'
  <2> DEFINE t == hand[h]
             x == sess[t.session]
             row == [session |-> t.session, spoken |-> t.spoken,
                     unaided |-> x.hint = 0 /\ ~t.retry, verdict |-> verdict]
             ready == Ready(Graded(x, t, verdict))
  <2>1. t.session \in Sessions /\ t.request \in Requests /\ t.spoken \in BOOLEAN
    BY <1>9, HandlerFields DEF TurnGraded
  <2>2. row \in AttemptRow
    BY <2>1, ConstantsAssumption DEF AttemptRow
  <2>3. attempts' = [attempts EXCEPT ![t.request] = row]
    BY <1>9 DEF TurnGraded
  <2>4. sess' = [sess EXCEPT ![t.session] = Graded(x, t, verdict)]
    BY <1>9 DEF TurnGraded
  <2>5. sess' \in [Sessions -> SessionRow]
    BY <2>1, <2>4, GradedType
  <2>6. mastery' \in [Lessons -> [independent : Nat, assisted : Nat, completed : BOOLEAN]]
    <3>1. CASE x.lesson = None
      BY <1>9, <3>1 DEF TurnGraded
    <3>2. CASE x.lesson # None
      <4>1. x.lesson \in Lessons
        BY <2>1, <3>2 DEF SessionRow
      <4>2. mastery' = [mastery EXCEPT ![x.lesson] = Mastered(mastery[x.lesson], x, t, verdict)]
        BY <1>9, <3>2 DEF TurnGraded
      <4> QED BY <4>1, <4>2, MasteredType
    <3> QED BY <3>1, <3>2
  <2>7. ready \in BOOLEAN
    BY DEF Ready
  <2>8. Goto(h, [op |-> "finish", session |-> t.session, ready |-> ready])
    BY <1>9 DEF TurnGraded
  <2>9. hand' \in [Handlers -> HandlerState]
    <3> HIDE DEF ready
    <3>1. [op |-> "finish", session |-> t.session, ready |-> ready] \in HandlerState
      BY <2>1, <2>7 DEF HandlerState
    <3> QED BY <2>8, <3>1, GotoType
  <2>10. lock' \in [Sessions -> Handlers \cup {None}] /\ userLock' = userLock
    BY <1>9, <2>1 DEF TurnGraded
  <2> QED BY <2>1, <2>2, <2>3, <2>5, <2>6, <2>9, <2>10
<1>10. ASSUME NEW h \in Handlers, FinishTurn(h) PROVE TypeOK'
  <2>1. hand[h].session \in Sessions
    BY <1>10, HandlerFields DEF FinishTurn
  <2>2. hand' \in [Handlers -> HandlerState]
    BY <1>10, <2>1, CountType, StopType DEF FinishTurn
  <2> QED BY <1>10, <2>2 DEF FinishTurn
<1>11. ASSUME NEW h \in Handlers, CompleteCommit(h) PROVE TypeOK'
  <2> DEFINE s == hand[h].session
             x == sess[s]
             mastered == IsMastered(x)
             sum == [attempts |-> hand[h].count, independent |-> x.independent, mastered |-> mastered]
  <2>1. s \in Sessions /\ hand[h].count \in Nat
    BY <1>11, HandlerFields DEF CompleteCommit
  <2>2. mastered \in BOOLEAN
    BY DEF IsMastered
  <2>3. sess' = [sess EXCEPT ![s] = [x EXCEPT !.status = "completed", !.summary = sum]]
    BY <1>11 DEF CompleteCommit
  <2>4. [x EXCEPT !.status = "completed", !.summary = sum] \in SessionRow
    <3> HIDE DEF mastered
    <3>1. sum \in [attempts : Nat, independent : Nat, mastered : BOOLEAN]
      BY <2>1, <2>2 DEF SessionRow
    <3> HIDE DEF sum
    <3>2. [x EXCEPT !.status = "completed"] \in SessionRow
      BY <2>1, StatusType
    <3>3. [[x EXCEPT !.status = "completed"] EXCEPT !.summary = sum] \in SessionRow
      BY <3>1, <3>2 DEF SessionRow
    <3> QED BY <3>3
  <2>5. sess' \in [Sessions -> SessionRow]
    BY <2>1, <2>3, <2>4
  <2>6. mastery' \in [Lessons -> [independent : Nat, assisted : Nat, completed : BOOLEAN]]
    <3>1. PICK l : mastery' = mastery \/ mastery' = [mastery EXCEPT ![l].completed = TRUE]
      BY <1>11 DEF CompleteCommit
    <3>2. mastery \in [Lessons -> [independent : Nat, assisted : Nat, completed : BOOLEAN]]
      BY DEF TypeOK
    <3> QED BY ZenonT(60), <3>1, <3>2
  <2>7. hand' \in [Handlers -> HandlerState]
    BY <1>11, StopType DEF CompleteCommit
  <2> QED BY <1>11, <2>5, <2>6, <2>7 DEF CompleteCommit
<1>12. ASSUME NEW h \in Handlers, CompleteRefused(h) PROVE TypeOK'
  BY <1>12, StopType DEF CompleteRefused
<1>13. ASSUME NEW h \in Handlers, CallFails(h) \/ Crash(h) PROVE TypeOK'
  BY <1>13, RollbackType DEF CallFails, Crash
<1>14. ASSUME NEW mode \in Modes, NEW l \in Lessons \cup {None}, CreateOther(mode, l) PROVE TypeOK'
  <2>1. NewSession(mode, l) \in SessionRow
    BY NewSessionType
  <2> QED BY <1>14, <2>1 DEF CreateOther
<1>15. ASSUME NEW s \in Sessions, Advance(s) PROVE TypeOK'
  BY <1>15, AdvancedType DEF Advance
<1>16. ASSUME NEW s \in Sessions, NEW q \in HintRequests \cup {None}, HintAtOnce(s, q) PROVE TypeOK'
  BY <1>16, HintedType DEF HintAtOnce
<1>17. ASSUME NEW s \in Sessions, LiveStart(s) \/ LiveEnd(s) PROVE TypeOK'
  <2>1. PICK live \in BOOLEAN : sess' = [sess EXCEPT ![s].live = live]
    BY <1>17 DEF LiveStart, LiveEnd
  <2>2. [sess[s] EXCEPT !.live = live] \in SessionRow
    BY LiveType
  <2>3. sess' \in [Sessions -> SessionRow]
    BY <2>1, <2>2
  <2> QED BY <1>17, <2>3 DEF LiveStart, LiveEnd
<1>18. CASE ResetAll
  BY <1>18, NoSessionType DEF ResetAll
<1>19. CASE UNCHANGED vars
  BY <1>19 DEF vars
<1> QED
  BY <1>1, <1>2, <1>3, <1>4, <1>5, <1>6, <1>7, <1>8, <1>9, <1>10, <1>11, <1>12,
     <1>13, <1>14, <1>15, <1>16, <1>17, <1>18, <1>19
     DEF Next, Begin, Continue, AtOnce

(* Every reachable state is well typed. *)
THEOREM TypeCorrect == Spec => []TypeOK
<1> QED BY InitType, NextType, PTL DEF Spec
-----------------------------------------------------------------------------
(* The inductive invariant.  What makes concurrent handlers safe is who    *)
(* holds which row: a handler that grades or hints has the lock of a       *)
(* session that is active, and stays so; one that starts a lesson has the  *)
(* learner's row, and what it saw of the lesson's sessions stays true.     *)

GradersHoldRow ==
  \A h \in Handlers :
    hand[h].op \in {"turn", "hint"} =>
      lock[hand[h].session] = h /\ sess[hand[h].session].status = "active"

StartersHoldLearner ==
  \A h \in Handlers : hand[h].op = "create" => userLock = h

StartersSawNothing ==
  \A h \in Handlers :
    hand[h].op = "create" /\ hand[h].prior = None => OpenLessons(hand[h].lesson) = {}

IInv ==
  /\ TypeOK
  /\ GradersHoldRow
  /\ StartersHoldLearner
  /\ StartersSawNothing
  /\ OneActivePerLesson

(* A step that starts no session: what is active was so, and is the same.  *)
NothingStarts ==
  \A s \in Sessions :
    sess'[s].status = "active" =>
      /\ sess[s].status = "active" /\ sess'[s].mode = sess[s].mode
      /\ sess'[s].flow = sess[s].flow /\ sess'[s].lesson = sess[s].lesson

(* Then no lesson comes to have a second open session, nor its first. *)
LEMMA NothingStartsKeeps ==
  ASSUME NothingStarts, OneActivePerLesson
  PROVE  /\ OneActivePerLesson'
         /\ \A l \in Lessons : OpenLessons(l)' \subseteq OpenLessons(l)
BY DEF NothingStarts, OneActivePerLesson, OpenLessons

(* Which steps start a session, and what the others do to the rows. *)
LEMMA StepsOnRows ==
  ASSUME TypeOK, GradersHoldRow, [Next]_vars
  PROVE  \/ \E h \in Handlers : CreateLesson(h)
         \/ \E mode \in Modes, l \in Lessons \cup {None} : CreateOther(mode, l)
         \/ NothingStarts
<1> USE DEF TypeOK
<1>1. ASSUME UNCHANGED sess PROVE NothingStarts
  BY <1>1 DEF NothingStarts
<1>2. ASSUME NEW s \in Sessions, NEW y, SameSession(sess[s], y), sess' = [sess EXCEPT ![s] = y]
      PROVE NothingStarts
  BY <1>2 DEF NothingStarts, SameSession
<1>3. ASSUME NEW h \in Handlers, Begin(h) PROVE UNCHANGED sess
  BY <1>3 DEF Begin, CreateBegin, HintBegin, TurnReplay, TurnBegin, CompleteRequest
<1>4. ASSUME NEW h \in Handlers, HintAnswered(h) PROVE NothingStarts
  <2>1. hand[h].session \in Sessions /\ hand[h].request \in HintRequests \cup {None}
    BY <1>4, HandlerFields DEF HintAnswered
  <2>2. SameSession(sess[hand[h].session], Hinted(sess[hand[h].session], hand[h].request))
    BY <2>1, HintedType
  <2> QED BY <1>4, <1>2, <2>1, <2>2 DEF HintAnswered
<1>5. ASSUME NEW h \in Handlers, NEW verdict \in Verdicts, TurnGraded(h, verdict) PROVE NothingStarts
  <2>1. hand[h].session \in Sessions
    BY <1>5, HandlerFields DEF TurnGraded
  <2>2. SameSession(sess[hand[h].session], Graded(sess[hand[h].session], hand[h], verdict))
    BY <2>1, GradedType
  <2> QED BY <1>5, <1>2, <2>1, <2>2 DEF TurnGraded
<1>6. ASSUME NEW h \in Handlers, CompleteCommit(h) PROVE NothingStarts
  <2>1. hand[h].session \in Sessions
    BY <1>6, HandlerFields DEF CompleteCommit
  <2>2. PICK sum : sess' = [sess EXCEPT ![hand[h].session] =
                              [sess[hand[h].session] EXCEPT !.status = "completed", !.summary = sum]]
    BY <1>6 DEF CompleteCommit
  <2> QED BY <2>1, <2>2 DEF NothingStarts, SessionRow
<1>7. ASSUME NEW h \in Handlers, CreateResume(h) \/ FinishTurn(h) \/ CompleteRefused(h)
                                  \/ CallFails(h) \/ Crash(h)
      PROVE UNCHANGED sess
  BY <1>7 DEF CreateResume, FinishTurn, CompleteRefused, CallFails, Crash, Rollback
<1>8. ASSUME NEW s \in Sessions, Advance(s) PROVE NothingStarts
  BY <1>8, <1>2, AdvancedType DEF Advance
<1>9. ASSUME NEW s \in Sessions, NEW q \in HintRequests \cup {None}, HintAtOnce(s, q) PROVE NothingStarts
  BY <1>9, <1>2, HintedType DEF HintAtOnce
<1>10. ASSUME NEW s \in Sessions, LiveStart(s) \/ LiveEnd(s) PROVE NothingStarts
  <2>1. PICK live \in BOOLEAN : sess' = [sess EXCEPT ![s] = [sess[s] EXCEPT !.live = live]]
    BY <1>10 DEF LiveStart, LiveEnd
  <2> QED BY <2>1 DEF NothingStarts, SessionRow
<1>11. CASE ResetAll
  <2> SUFFICES ASSUME NEW s \in Sessions PROVE sess'[s].status # "active"
    BY DEF NothingStarts
  <2>1. CASE sess[s].status = "absent"
    BY <1>11, <2>1 DEF ResetAll
  <2>2. CASE sess[s].status # "absent"
    <3>1. sess'[s] = [NoSession EXCEPT !.status = "gone"]
      BY <1>11, <2>2 DEF ResetAll
    <3> QED BY <3>1, NoSessionType DEF SessionRow
  <2> QED BY <2>1, <2>2
<1>12. CASE UNCHANGED vars
  BY <1>12, <1>1 DEF vars
<1> QED
  BY <1>1, <1>3, <1>4, <1>5, <1>6, <1>7, <1>8, <1>9, <1>10, <1>11, <1>12 DEF Next, Continue, AtOnce

(* The invariant holds initially: nobody holds a row, and only sessions    *)
(* older than the rule are active.                                         *)
LEMMA InitIInv == Init => IInv
<1> SUFFICES ASSUME Init PROVE IInv
  OBVIOUS
<1>1. TypeOK
  BY InitType
<1>2. GradersHoldRow /\ StartersHoldLearner /\ StartersSawNothing
  BY DEF Init, Idle, GradersHoldRow, StartersHoldLearner, StartersSawNothing
<1>3. OneActivePerLesson
  <2>1. \A s \in Sessions : sess[s].status = "active" => s \in Legacy /\ sess[s].flow = "legacy"
    BY DEF Init, NoSession, NewSession
  <2> QED BY <2>1 DEF OneActivePerLesson
<1> QED BY <1>1, <1>2, <1>3 DEF IInv

(* A handler only ever moves itself, and what follows a transaction that   *)
(* held a lock holds none.                                                 *)
LEMMA HandMoves ==
  ASSUME TypeOK, NEW h \in Handlers, Continue(h) \/ CallFails(h) \/ Crash(h)
  PROVE  /\ \A g \in Handlers \ {h} : hand'[g] = hand[g]
         /\ hand'[h].op \in {"idle", "finish", "counted"}
<1> USE DEF TypeOK
<1> DEFINE Moves == /\ \A g \in Handlers \ {h} : hand'[g] = hand[g]
                    /\ hand'[h].op \in {"idle", "finish", "counted"}
<1>1. ASSUME NEW state, state.op \in {"idle", "finish", "counted"}, Goto(h, state) PROVE Moves
  BY <1>1 DEF Goto
<1>2. ASSUME Stop(h) PROVE Moves
  BY <1>2 DEF Stop, Idle
<1>3. CASE CreateResume(h)
  BY <1>2, <1>3 DEF CreateResume
<1>4. CASE CreateLesson(h)
  BY <1>2, <1>4 DEF CreateLesson
<1>5. CASE HintAnswered(h)
  BY <1>2, <1>5 DEF HintAnswered
<1>6. ASSUME NEW verdict \in Verdicts, TurnGraded(h, verdict) PROVE Moves
  <2>1. PICK ready : Goto(h, [op |-> "finish", session |-> hand[h].session, ready |-> ready])
    BY <1>6 DEF TurnGraded
  <2> QED BY <2>1, <1>1
<1>7. CASE FinishTurn(h)
  <2>1. CASE Stop(h)
    BY <2>1, <1>2
  <2>2. CASE CompleteCount(h, hand[h].session)
    BY <2>2, <1>1 DEF CompleteCount
  <2> QED BY <1>7, <2>1, <2>2 DEF FinishTurn
<1>8. CASE CompleteCommit(h)
  BY <1>2, <1>8 DEF CompleteCommit
<1>9. CASE CompleteRefused(h)
  BY <1>2, <1>9 DEF CompleteRefused
<1>10. CASE CallFails(h) \/ Crash(h)
  BY <1>2, <1>10 DEF CallFails, Crash, Rollback
<1> QED BY <1>3, <1>4, <1>5, <1>6, <1>7, <1>8, <1>9, <1>10 DEF Continue

(* Who has a row keeps it, and the session stays active under the lock.    *)
LEMMA GradersKeepRow ==
  ASSUME IInv, [Next]_vars
  PROVE  GradersHoldRow'
<1> USE DEF IInv, TypeOK
<1> SUFFICES ASSUME NEW g \in Handlers, hand'[g].op \in {"turn", "hint"}
             PROVE  lock'[hand'[g].session] = g /\ sess'[hand'[g].session].status = "active"
  BY DEF GradersHoldRow
<1> DEFINE Held == hand'[g] = hand[g] /\ lock[hand[g].session] = g
                   /\ sess[hand[g].session].status = "active" /\ hand[g].session \in Sessions
<1>0. hand[g].op \in {"turn", "hint"} =>
        /\ lock[hand[g].session] = g /\ sess[hand[g].session].status = "active"
        /\ hand[g].session \in Sessions /\ lock[hand[g].session] # None
  BY HandlerFields, ConstantsAssumption DEF GradersHoldRow
<1>1. ASSUME NEW h \in Handlers, Begin(h) PROVE lock'[hand'[g].session] = g /\ sess'[hand'[g].session].status = "active"
  <2>1. CASE g # h
    <3>1. hand'[g] = hand[g] /\ UNCHANGED sess
      BY <1>1, <2>1 DEF Begin, CreateBegin, HintBegin, TurnReplay, TurnBegin, CompleteRequest, CompleteCount, Goto
    <3>2. \A s \in Sessions : lock[s] # None => lock'[s] = lock[s]
      BY <1>1 DEF Begin, CreateBegin, HintBegin, TurnReplay, TurnBegin, CompleteRequest, Free
    <3> QED BY <1>0, <3>1, <3>2
  <2>2. CASE g = h
    BY <1>1, <2>2 DEF Begin, CreateBegin, HintBegin, TurnReplay, TurnBegin, CompleteRequest, CompleteCount, Goto
  <2> QED BY <2>1, <2>2
<1>2. ASSUME NEW h \in Handlers, HintAnswered(h) \/ \E verdict \in Verdicts : TurnGraded(h, verdict)
      PROVE  lock'[hand'[g].session] = g /\ sess'[hand'[g].session].status = "active"
  <2>1. g # h /\ hand'[g] = hand[g]
    BY <1>2, HandMoves DEF Continue
  <2>2. hand[h].session \in Sessions /\ lock[hand[h].session] = h
    BY <1>2, HandlerFields DEF HintAnswered, TurnGraded, GradersHoldRow
  <2>3. hand[g].session # hand[h].session
    BY <1>0, <2>1, <2>2
  <2>4. PICK y : sess' = [sess EXCEPT ![hand[h].session] = y]
    BY <1>2 DEF HintAnswered, TurnGraded
  <2>5. lock' = [lock EXCEPT ![hand[h].session] = None]
    BY <1>2 DEF HintAnswered, TurnGraded
  <2>6. hand[g].session \in Sessions /\ sess'[hand[g].session] = sess[hand[g].session]
        /\ lock'[hand[g].session] = lock[hand[g].session]
    BY <1>0, <2>1, <2>3, <2>4, <2>5
  <2> QED BY <1>0, <2>1, <2>6
<1>3. ASSUME NEW h \in Handlers, CreateResume(h) \/ CreateLesson(h) \/ FinishTurn(h) \/ CompleteRefused(h)
      PROVE  lock'[hand'[g].session] = g /\ sess'[hand'[g].session].status = "active"
  <2>0. g # h /\ hand'[g] = hand[g]
    BY <1>3, HandMoves DEF Continue
  <2>1. lock' = lock
    BY <1>3 DEF CreateResume, CreateLesson, FinishTurn, CompleteRefused
  <2>2. sess'[hand[g].session] = sess[hand[g].session]
    <3>1. CASE CreateLesson(h)
      <4>1. PICK s \in Sessions : sess[s].status = "absent"
                                  /\ sess' = [sess EXCEPT ![s] = NewSession("lesson", hand[h].lesson)]
        BY <3>1 DEF CreateLesson
      <4>2. s # hand[g].session
        BY <4>1, <1>0, <2>0
      <4> QED BY <4>1, <4>2, <1>0, <2>0
    <3>2. CASE CreateResume(h) \/ FinishTurn(h) \/ CompleteRefused(h)
      BY <3>2 DEF CreateResume, FinishTurn, CompleteRefused
    <3> QED BY <1>3, <3>1, <3>2
  <2> QED BY <1>0, <2>0, <2>1, <2>2
<1>4. ASSUME NEW h \in Handlers, CompleteCommit(h)
      PROVE  lock'[hand'[g].session] = g /\ sess'[hand'[g].session].status = "active"
  <2>1. g # h /\ hand'[g] = hand[g] /\ UNCHANGED lock
    BY <1>4 DEF CompleteCommit, Stop, Idle
  <2>2. hand[h].session # hand[g].session
    BY <1>4, <1>0, <2>1 DEF CompleteCommit, Free
  <2>3. sess'[hand[g].session] = sess[hand[g].session]
    BY <1>4, <1>0, <2>1, <2>2 DEF CompleteCommit
  <2> QED BY <1>0, <2>1, <2>3
<1>5. ASSUME NEW h \in Handlers, Rollback(h)
      PROVE  lock'[hand'[g].session] = g /\ sess'[hand'[g].session].status = "active"
  BY <1>5, <1>0 DEF Rollback, Stop, Idle
<1>6. ASSUME NEW mode \in Modes, NEW l \in Lessons \cup {None}, CreateOther(mode, l)
      PROVE  lock'[hand'[g].session] = g /\ sess'[hand'[g].session].status = "active"
  <2>1. hand' = hand /\ lock' = lock
    BY <1>6 DEF CreateOther
  <2>2. sess'[hand[g].session] = sess[hand[g].session]
    BY <1>6, <1>0, <2>1 DEF CreateOther
  <2> QED BY <1>0, <2>1, <2>2
<1>7. ASSUME NEW s \in Sessions,
             Advance(s) \/ LiveStart(s) \/ LiveEnd(s) \/ \E q \in HintRequests \cup {None} : HintAtOnce(s, q)
      PROVE  lock'[hand'[g].session] = g /\ sess'[hand'[g].session].status = "active"
  <2>1. hand' = hand /\ lock' = lock /\ lock[s] = None
    BY <1>7 DEF Advance, LiveStart, LiveEnd, HintAtOnce, Free
  <2>2. sess'[hand[g].session] = sess[hand[g].session]
    BY <1>7, <1>0, <2>1 DEF Advance, LiveStart, LiveEnd, HintAtOnce
  <2> QED BY <1>0, <2>1, <2>2
<1>8. CASE ResetAll
  BY <1>8, <1>0 DEF ResetAll, Free
<1>9. CASE UNCHANGED vars
  BY <1>9, <1>0 DEF vars
<1> QED
  BY <1>1, <1>2, <1>3, <1>4, <1>5, <1>6, <1>7, <1>8, <1>9 DEF Next, Continue, CallFails, Crash, AtOnce

(* One handler at a time starts a lesson. *)
LEMMA StartersKeepLearner ==
  ASSUME IInv, [Next]_vars
  PROVE  StartersHoldLearner'
<1> USE DEF IInv, TypeOK
<1> SUFFICES ASSUME NEW g \in Handlers, hand'[g].op = "create" PROVE userLock' = g
  BY DEF StartersHoldLearner
<1>0. hand[g].op = "create" => userLock = g /\ userLock # None
  BY ConstantsAssumption DEF StartersHoldLearner
<1>1. ASSUME NEW h \in Handlers, Begin(h) PROVE userLock' = g
  BY <1>1, <1>0 DEF Begin, CreateBegin, HintBegin, TurnReplay, TurnBegin, CompleteRequest, CompleteCount, Goto, NobodyStarts
<1>2. ASSUME NEW h \in Handlers, Continue(h) \/ CallFails(h) \/ Crash(h) PROVE userLock' = g
  <2>1. g # h /\ hand[g].op = "create"
    BY <1>2, HandMoves
  <2>2. hand[h].op # "create" /\ userLock # h
    BY <1>0, <2>1 DEF StartersHoldLearner
  <2> QED BY <1>2, <1>0, <2>1, <2>2
          DEF Continue, CreateResume, CreateLesson, HintAnswered, TurnGraded, FinishTurn,
              CompleteCommit, CompleteRefused, CallFails, Crash, Rollback
<1>3. ASSUME AtOnce \/ UNCHANGED vars PROVE userLock' = g
  BY <1>3, <1>0 DEF AtOnce, CreateOther, Advance, HintAtOnce, LiveStart, LiveEnd, ResetAll, vars
<1> QED BY <1>1, <1>2, <1>3 DEF Next

(* What a lesson start saw stays true until it has committed: no other     *)
(* start commits meanwhile, and sessions of other modes do not count.      *)
LEMMA StartersStayRight ==
  ASSUME IInv, [Next]_vars
  PROVE  StartersSawNothing' /\ OneActivePerLesson'
<1> USE DEF IInv, TypeOK
<1>1. CASE NothingStarts
  <2>1. OneActivePerLesson' /\ \A l \in Lessons : OpenLessons(l)' \subseteq OpenLessons(l)
    BY <1>1, NothingStartsKeeps
  <2>2. SUFFICES ASSUME NEW g \in Handlers, hand'[g].op = "create", hand'[g].prior = None,
                        NEW k, hand'[g].lesson = k
                 PROVE  OpenLessons(k)' = {}
    BY <2>1 DEF StartersSawNothing
  <2>3. CASE hand'[g] = hand[g]
    <3>1. hand[g].lesson \in Lessons /\ OpenLessons(hand[g].lesson) = {}
      BY <2>2, <2>3, HandlerFields DEF StartersSawNothing
    <3> QED BY <2>1, <2>2, <2>3, <3>1
  <2>4. CASE hand'[g] # hand[g]
    <3>1. PICK h \in Handlers : Begin(h)
      BY <2>2, <2>4, HandMoves DEF Next, AtOnce, CreateOther, Advance, HintAtOnce, LiveStart, LiveEnd, ResetAll, vars
    <3>2. PICK l \in Lessons : CreateBegin(h, l) /\ g = h
      BY <3>1, <2>2, <2>4 DEF Begin, HintBegin, TurnReplay, TurnBegin, CompleteRequest, CompleteCount, CreateBegin, Goto
    <3>3. hand'[g].lesson = l /\ OpenLessons(l) = {}
      BY <3>2, <2>2, ConstantsAssumption DEF CreateBegin, Goto, OpenLessons
    <3> QED BY <2>1, <2>2, <3>2, <3>3
  <2> QED BY <2>3, <2>4
<1>2. ASSUME NEW h \in Handlers, CreateLesson(h) PROVE StartersSawNothing' /\ OneActivePerLesson'
  <2>1. hand[h].lesson \in Lessons /\ OpenLessons(hand[h].lesson) = {} /\ userLock = h
    BY <1>2, HandlerFields DEF CreateLesson, StartersSawNothing, StartersHoldLearner
  <2>2. PICK s \in Sessions : sess' = [sess EXCEPT ![s] = NewSession("lesson", hand[h].lesson)]
    BY <1>2 DEF CreateLesson
  <2>3. StartersSawNothing'
    <3>1. \A g \in Handlers : hand'[g].op # "create"
      BY <1>2, <2>1, HandMoves DEF Continue, StartersHoldLearner
    <3> QED BY <3>1 DEF StartersSawNothing
  <2>4. OneActivePerLesson'
    <3>1. sess'[s].lesson = hand[h].lesson
      BY <2>2 DEF NewSession
    <3>2. \A t \in Sessions : t # s => sess'[t] = sess[t]
      BY <2>2
    <3>3. \A t \in Sessions :
            t # s /\ sess'[t].status = "active" /\ sess'[t].mode = "lesson" => sess'[t].lesson # hand[h].lesson
      BY <2>1, <3>2 DEF OpenLessons
    <3> QED BY <3>1, <3>2, <3>3 DEF OneActivePerLesson
  <2> QED BY <2>3, <2>4
<1>3. ASSUME NEW mode \in Modes, NEW l \in Lessons \cup {None}, CreateOther(mode, l)
      PROVE  StartersSawNothing' /\ OneActivePerLesson'
  <2>1. PICK s \in Sessions : sess' = [sess EXCEPT ![s] = NewSession(mode, l)]
    BY <1>3 DEF CreateOther
  <2>2. sess'[s].mode # "lesson" /\ \A t \in Sessions : t # s => sess'[t] = sess[t]
    BY <2>1, ConstantsAssumption DEF NewSession
  <2>3. \A k \in Lessons : OpenLessons(k)' \subseteq OpenLessons(k)
    BY <2>2 DEF OpenLessons
  <2>4. StartersSawNothing'
    BY <1>3, <2>3, HandlerFields DEF CreateOther, StartersSawNothing
  <2>5. OneActivePerLesson'
    BY <2>2 DEF OneActivePerLesson
  <2> QED BY <2>4, <2>5
<1> QED BY <1>1, <1>2, <1>3, StepsOnRows

(* The inductive invariant holds in every reachable state. *)
THEOREM LocksProtect == Spec => []IInv
<1>1. ASSUME IInv, [Next]_vars PROVE IInv'
  <2>1. TypeOK'
    BY <1>1, NextType DEF IInv
  <2> QED BY <1>1, <2>1, GradersKeepRow, StartersKeepLearner, StartersStayRight DEF IInv
<1> QED BY InitIInv, <1>1, PTL DEF Spec

(* Two sessions the app started are never active for one lesson, however   *)
(* many starts, resumes, completions and resets overlap (sessions.go       *)
(* 92-111).                                                                *)
THEOREM OneActive == Spec => []OneActivePerLesson
<1>1. IInv => OneActivePerLesson
  BY DEF IInv
<1> QED BY LocksProtect, <1>1, PTL
-----------------------------------------------------------------------------
(* What one step may do to one row. *)

SameCredits(x, y) == y.independent = x.independent /\ y.independent_steps = x.independent_steps

(* Writes, apart from erasing. *)
RowWrites(x, y) ==
  \/ y = x
  \/ (x.status = "active" \/ x.live) /\ \E b \in BOOLEAN : y = [x EXCEPT !.live = b]
  \/ /\ x.status = "active"
     /\ \/ SameSession(x, y) /\ SameCredits(x, y)
        \/ \E t, verdict : y = Graded(x, t, verdict)
        \/ y.status = "completed" /\ y.mode = x.mode /\ y.lesson = x.lesson /\ SameCredits(x, y)
  \/ x.status = "absent" /\ \E mode \in {"lesson"} \cup Modes, l \in Lessons \cup {None} : y = NewSession(mode, l)

RowMoves(x, y) ==
  \/ RowWrites(x, y)
  \/ x.status # "absent" /\ y = [NoSession EXCEPT !.status = "gone"]

(* A lesson is started where no session of it is open. *)
StartsAlone(x, y) ==
  x.status = "absent" /\ y.status = "active" /\ y.mode = "lesson" => OpenLessons(y.lesson) = {}

Moves ==
  \/ sess' = sess
  \/ ResetAll
  \/ \E u \in Sessions : \E y :
       RowWrites(sess[u], y) /\ StartsAlone(sess[u], y) /\ sess' = [sess EXCEPT ![u] = y]

(* A step changes one row, or is a reset. *)
LEMMA OneRowMoves ==
  ASSUME IInv, [Next]_vars
  PROVE  Moves
<1> USE DEF IInv, TypeOK
<1>1. ASSUME sess' = sess PROVE Moves
  BY <1>1 DEF Moves
<1>2. ASSUME NEW u \in Sessions, NEW y, RowWrites(sess[u], y), StartsAlone(sess[u], y),
             sess' = [sess EXCEPT ![u] = y]
      PROVE  Moves
  BY <1>2 DEF Moves
<1>3. ASSUME NEW h \in Handlers, Begin(h) PROVE Moves
  BY <1>1, <1>3 DEF Begin, CreateBegin, HintBegin, TurnReplay, TurnBegin, CompleteRequest
<1>4. ASSUME NEW h \in Handlers, CreateLesson(h) PROVE Moves
  <2>1. PICK u \in Sessions : sess[u].status = "absent"
                              /\ sess' = [sess EXCEPT ![u] = NewSession("lesson", hand[h].lesson)]
    BY <1>4 DEF CreateLesson
  <2>2. hand[h].lesson \in Lessons \cup {None} /\ OpenLessons(hand[h].lesson) = {}
    BY <1>4, HandlerFields DEF CreateLesson, StartersSawNothing
  <2>3. StartsAlone(sess[u], NewSession("lesson", hand[h].lesson))
    BY <2>2 DEF StartsAlone, NewSession
  <2>4. RowWrites(sess[u], NewSession("lesson", hand[h].lesson))
    BY <2>1, <2>2 DEF RowWrites
  <2> QED BY <2>1, <2>3, <2>4, <1>2
<1>5. ASSUME NEW h \in Handlers, HintAnswered(h) PROVE Moves
  <2>1. hand[h].session \in Sessions /\ hand[h].request \in HintRequests \cup {None}
        /\ sess[hand[h].session].status = "active"
    BY <1>5, HandlerFields DEF HintAnswered, GradersHoldRow
  <2>2. RowWrites(sess[hand[h].session], Hinted(sess[hand[h].session], hand[h].request))
    BY <2>1, HintedType DEF RowWrites, SameCredits
  <2> QED BY <1>5, <1>2, <2>1, <2>2 DEF HintAnswered, StartsAlone
<1>6. ASSUME NEW h \in Handlers, NEW verdict \in Verdicts, TurnGraded(h, verdict) PROVE Moves
  <2>1. hand[h].session \in Sessions /\ sess[hand[h].session].status = "active"
    BY <1>6, HandlerFields DEF TurnGraded, GradersHoldRow
  <2>2. RowWrites(sess[hand[h].session], Graded(sess[hand[h].session], hand[h], verdict))
    BY <2>1 DEF RowWrites
  <2> QED BY <1>6, <1>2, <2>1, <2>2 DEF TurnGraded, StartsAlone
<1>7. ASSUME NEW h \in Handlers, CompleteCommit(h) PROVE Moves
  <2> DEFINE x == sess[hand[h].session]
  <2>1. hand[h].session \in Sessions /\ x.status = "active" /\ x \in SessionRow
    BY <1>7, HandlerFields DEF CompleteCommit, Completable
  <2>2. PICK sum : sess' = [sess EXCEPT ![hand[h].session] =
                              [x EXCEPT !.status = "completed", !.summary = sum]]
    BY <1>7 DEF CompleteCommit
  <2>3. RowWrites(x, [x EXCEPT !.status = "completed", !.summary = sum])
    BY <2>1 DEF RowWrites, SessionRow, SameCredits
  <2> QED BY <2>1, <2>2, <2>3, <1>2 DEF StartsAlone
<1>8. ASSUME NEW h \in Handlers, CreateResume(h) \/ FinishTurn(h) \/ CompleteRefused(h) \/ CallFails(h) \/ Crash(h)
      PROVE Moves
  BY <1>1, <1>8 DEF CreateResume, FinishTurn, CompleteRefused, CallFails, Crash, Rollback
<1>9. ASSUME NEW mode \in Modes, NEW l \in Lessons \cup {None}, CreateOther(mode, l) PROVE Moves
  <2>1. PICK u \in Sessions : sess[u].status = "absent" /\ sess' = [sess EXCEPT ![u] = NewSession(mode, l)]
    BY <1>9 DEF CreateOther
  <2>2. StartsAlone(sess[u], NewSession(mode, l))
    BY ConstantsAssumption DEF StartsAlone, NewSession
  <2>3. RowWrites(sess[u], NewSession(mode, l))
    BY <2>1 DEF RowWrites
  <2> QED BY <2>1, <2>2, <2>3, <1>2
<1>10. ASSUME NEW u \in Sessions, Advance(u) PROVE Moves
  <2>1. RowWrites(sess[u], Advanced(sess[u]))
    BY <1>10, AdvancedType DEF Advance, RowWrites, SameCredits
  <2> QED BY <1>10, <2>1, <1>2 DEF Advance, StartsAlone
<1>11. ASSUME NEW u \in Sessions, NEW q \in HintRequests \cup {None}, HintAtOnce(u, q) PROVE Moves
  <2>1. RowWrites(sess[u], Hinted(sess[u], q))
    BY <1>11, HintedType DEF HintAtOnce, RowWrites, SameCredits
  <2> QED BY <1>11, <2>1, <1>2 DEF HintAtOnce, StartsAlone
<1>12. ASSUME NEW u \in Sessions, LiveStart(u) \/ LiveEnd(u) PROVE Moves
  <2>1. PICK b \in BOOLEAN : sess' = [sess EXCEPT ![u] = [sess[u] EXCEPT !.live = b]]
    BY <1>12 DEF LiveStart, LiveEnd
  <2>2. sess[u].status = "active" \/ sess[u].live
    BY <1>12 DEF LiveStart, LiveEnd
  <2>3. [sess[u] EXCEPT !.live = b].status = sess[u].status
    BY DEF SessionRow
  <2>4. RowWrites(sess[u], [sess[u] EXCEPT !.live = b])
    BY <2>2 DEF RowWrites
  <2> QED BY <2>1, <2>3, <2>4, <1>2 DEF StartsAlone
<1>13. ASSUME ResetAll PROVE Moves
  BY <1>13 DEF Moves
<1>14. ASSUME UNCHANGED vars PROVE Moves
  <2>1. sess' = sess
    BY <1>14 DEF vars
  <2> QED BY <1>1, <2>1
<1>15. ASSUME NEW h \in Handlers, Continue(h) PROVE Moves
  BY <1>4, <1>5, <1>6, <1>7, <1>8, <1>15 DEF Continue
<1>16. ASSUME AtOnce PROVE Moves
  BY <1>9, <1>10, <1>11, <1>12, <1>13, <1>16 DEF AtOnce
<1> QED
  <2>1. CASE Next
    BY <2>1, <1>3, <1>8, <1>15, <1>16 DEF Next
  <2> QED BY <2>1, <1>14

(* So every row moves as RowMoves says. *)
LEMMA RowsMove ==
  ASSUME IInv, [Next]_vars, NEW s \in Sessions
  PROVE  RowMoves(sess[s], sess'[s])
<1>1. CASE ResetAll
  BY <1>1 DEF ResetAll, RowMoves, RowWrites
<1>2. CASE sess' = sess
  BY <1>2 DEF RowMoves, RowWrites
<1>3. ASSUME NEW u \in Sessions, NEW y, RowWrites(sess[u], y), sess' = [sess EXCEPT ![u] = y]
      PROVE  RowMoves(sess[s], sess'[s])
  <2>1. CASE s = u
    BY <1>3, <2>1 DEF IInv, TypeOK, RowMoves
  <2>2. CASE s # u
    BY <1>3, <2>2 DEF IInv, TypeOK, RowMoves, RowWrites
  <2> QED BY <2>1, <2>2
<1> QED BY <1>1, <1>2, <1>3, OneRowMoves DEF Moves
-----------------------------------------------------------------------------
(* Credits *)

(* One row's part of CreditsAreDistinctRounds. *)
Distinct(x) == x.lesson # None => x.independent = Cardinality(x.independent_steps)

(* Grading keeps it: the round of a credit is a new one. *)
LEMMA GradedDistinct ==
  ASSUME NEW x \in SessionRow, NEW t, NEW verdict, Distinct(x)
  PROVE  Distinct(Graded(x, t, verdict))
<1> DEFINE y == Graded(x, t, verdict)
<1>1. IsFiniteSet(x.independent_steps)
  <2>1. IsFiniteSet(Steps)
    BY FS_Interval, ConstantsAssumption DEF Steps
  <2>2. x.independent_steps \subseteq Steps
    BY DEF SessionRow
  <2> QED BY <2>1, <2>2, FS_Subset
<1>2. y.lesson = x.lesson
  BY GradedType DEF SameSession
<1>3. CASE Counted(x, t, verdict)
  <2>1. y.independent = x.independent + 1 /\ y.independent_steps = x.independent_steps \cup {x.step}
    BY <1>3 DEF Graded, Counted, SessionRow
  <2>2. x.lesson # None => x.step \notin x.independent_steps
    BY <1>3 DEF Counted
  <2> HIDE DEF y
  <2>3. x.lesson # None => Cardinality(y.independent_steps) = Cardinality(x.independent_steps) + 1
    BY <1>1, <2>1, <2>2, FS_AddElement
  <2>4. Distinct(y)
    BY <1>2, <2>1, <2>3 DEF Distinct
  <2> QED BY <2>4 DEF y
<1>4. CASE ~Counted(x, t, verdict)
  <2>1. y.independent = x.independent
    BY <1>4 DEF Graded, SessionRow
  <2>2. x.lesson # None => y.independent_steps = x.independent_steps
    BY <1>4 DEF Graded, Counted, SessionRow
  <2> HIDE DEF y
  <2>3. Distinct(y)
    BY <1>2, <2>1, <2>2 DEF Distinct
  <2> QED BY <2>3 DEF y
<1> QED BY <1>3, <1>4

(* A session that follows a lesson credits each conversation round once,   *)
(* whatever is repeated, retried, replayed or cut off (sessions.go         *)
(* 387-406).                                                               *)
THEOREM DistinctRounds == Spec => []CreditsAreDistinctRounds
<1>1. Init => CreditsAreDistinctRounds
  <2> SUFFICES ASSUME Init, NEW s \in Sessions
               PROVE  sess[s].independent = Cardinality(sess[s].independent_steps)
    BY DEF CreditsAreDistinctRounds
  <2> QED BY FS_EmptySet DEF Init, NoSession, NewSession
<1>2. ASSUME IInv, CreditsAreDistinctRounds, [Next]_vars PROVE CreditsAreDistinctRounds'
  <2> SUFFICES ASSUME NEW s \in Sessions PROVE Distinct(sess'[s])
    BY DEF CreditsAreDistinctRounds, Distinct
  <2> DEFINE x == sess[s]  y == sess'[s]
  <2>1. RowMoves(x, y) /\ x \in SessionRow /\ Distinct(x)
    BY <1>2, RowsMove DEF IInv, TypeOK, CreditsAreDistinctRounds, Distinct
  <2> HIDE DEF x, y
  <2>2. ASSUME y = x \/ (SameSession(x, y) /\ SameCredits(x, y))
               \/ (y.lesson = x.lesson /\ SameCredits(x, y))
        PROVE  Distinct(y)
    BY <2>1, <2>2 DEF Distinct, SameSession, SameCredits
  <2>3. ASSUME NEW b \in BOOLEAN, y = [x EXCEPT !.live = b] PROVE Distinct(y)
    BY <2>1, <2>3 DEF Distinct, SessionRow
  <2>4. ASSUME NEW t, NEW verdict, y = Graded(x, t, verdict) PROVE Distinct(y)
    BY <2>1, <2>4, GradedDistinct
  <2>5. ASSUME NEW mode, NEW l, y = NewSession(mode, l) PROVE Distinct(y)
    BY <2>5, FS_EmptySet DEF Distinct, NewSession
  <2>6. ASSUME y = [NoSession EXCEPT !.status = "gone"] PROVE Distinct(y)
    BY <2>6, FS_EmptySet DEF Distinct, NoSession, NewSession
  <2>7. Distinct(y)
    BY <2>1, <2>2, <2>3, <2>4, <2>5, <2>6 DEF RowMoves, RowWrites
  <2> QED BY <2>7 DEF y
<1> QED BY <1>1, <1>2, LocksProtect, PTL DEF Spec
-----------------------------------------------------------------------------
(* Completion *)

(* Answers are stored only for a session that is active. *)
LEMMA AnswersOfActive ==
  ASSUME IInv, [Next]_vars, NEW s \in Sessions, sess[s].status # "active"
  PROVE  ResetAll \/ AttemptsOf(s)' = AttemptsOf(s)
<1> USE DEF IInv, TypeOK
<1>1. ASSUME attempts' = attempts PROVE AttemptsOf(s)' = AttemptsOf(s)
  BY <1>1 DEF AttemptsOf
<1>2. ASSUME NEW h \in Handlers, NEW verdict \in Verdicts, TurnGraded(h, verdict)
      PROVE  AttemptsOf(s)' = AttemptsOf(s)
  <2>1. hand[h].session \in Sessions /\ hand[h].session # s /\ hand[h].request \in Requests
    BY <1>2, HandlerFields DEF TurnGraded, GradersHoldRow
  <2>2. PICK a : a.session = hand[h].session /\ attempts' = [attempts EXCEPT ![hand[h].request] = a]
    BY <1>2 DEF TurnGraded
  <2>3. attempts[hand[h].request] = None
    BY <1>2 DEF TurnGraded
  <2> QED BY <2>1, <2>2, <2>3 DEF AttemptsOf
<1>3. ASSUME NEW h \in Handlers, Begin(h) PROVE attempts' = attempts
  BY <1>3 DEF Begin, CreateBegin, HintBegin, TurnReplay, TurnBegin, CompleteRequest
<1>4. ASSUME NEW h \in Handlers, CallFails(h) \/ Crash(h) \/ CreateResume(h) \/ CreateLesson(h) \/ HintAnswered(h)
                                  \/ FinishTurn(h) \/ CompleteCommit(h) \/ CompleteRefused(h)
      PROVE  attempts' = attempts
  BY <1>4 DEF CallFails, Crash, Rollback, CreateResume, CreateLesson, HintAnswered, FinishTurn, CompleteCommit, CompleteRefused
<1>5. ASSUME AtOnce \/ UNCHANGED vars PROVE ResetAll \/ attempts' = attempts
  BY <1>5 DEF AtOnce, CreateOther, Advance, HintAtOnce, LiveStart, LiveEnd, vars
<1> QED BY <1>1, <1>2, <1>3, <1>4, <1>5 DEF Next, Continue

(* A completed session is never written again: no late answer, hint,       *)
(* advance or second completion changes its state, its summary or its      *)
(* answers; a reset may erase it (sessions.go 716-725, 802).               *)
THEOREM Final == Spec => CompletedIsFinal
<1>1. ASSUME IInv, [Next]_vars
      PROVE  \A s \in Sessions :
               sess[s].status = "completed" =>
                 \/ sess'[s].status = "gone"
                 \/ /\ [sess'[s] EXCEPT !.live = FALSE] = [sess[s] EXCEPT !.live = FALSE]
                    /\ AttemptsOf(s)' = AttemptsOf(s)
  <2> SUFFICES ASSUME NEW s \in Sessions, sess[s].status = "completed"
               PROVE  \/ sess'[s].status = "gone"
                      \/ /\ [sess'[s] EXCEPT !.live = FALSE] = [sess[s] EXCEPT !.live = FALSE]
                         /\ AttemptsOf(s)' = AttemptsOf(s)
    OBVIOUS
  <2>1. [NoSession EXCEPT !.status = "gone"].status = "gone"
    BY NoSessionType DEF SessionRow
  <2>2. CASE ResetAll
    BY <2>1, <2>2 DEF ResetAll
  <2>3. CASE ~ResetAll
    <3>1. AttemptsOf(s)' = AttemptsOf(s)
      BY <1>1, <2>3, AnswersOfActive
    <3>2. RowMoves(sess[s], sess'[s]) /\ sess[s] \in SessionRow
      BY <1>1, RowsMove DEF IInv, TypeOK
    <3>3. \/ sess'[s] = sess[s]
          \/ \E b \in BOOLEAN : sess'[s] = [sess[s] EXCEPT !.live = b]
          \/ sess'[s] = [NoSession EXCEPT !.status = "gone"]
      BY <3>2 DEF RowMoves, RowWrites
    <3>4. ASSUME NEW b \in BOOLEAN, sess'[s] = [sess[s] EXCEPT !.live = b]
          PROVE  [sess'[s] EXCEPT !.live = FALSE] = [sess[s] EXCEPT !.live = FALSE]
      BY <3>2, <3>4 DEF SessionRow
    <3> QED BY <2>1, <3>1, <3>3, <3>4
  <2> QED BY <2>2, <2>3
<1>2. IInv /\ [Next]_vars =>
        [\A s \in Sessions :
           sess[s].status = "completed" =>
             \/ sess'[s].status = "gone"
             \/ /\ [sess'[s] EXCEPT !.live = FALSE] = [sess[s] EXCEPT !.live = FALSE]
                /\ AttemptsOf(s)' = AttemptsOf(s)]_vars
  BY <1>1
<1> QED BY <1>2, LocksProtect, PTL DEF Spec, CompletedIsFinal
-----------------------------------------------------------------------------
(* Refinement *)

(* A session not yet started is a blank row. *)
AbsentIsBlank ==
  \A s \in Sessions : sess[s].status = "absent" => sess[s] = NoSession

(* What the ledger sees of a blank and of an erased row. *)
LEMMA BlankRow ==
  /\ NoSession.status = "absent" /\ NoSession.live = FALSE
  /\ NoSession.independent_steps = {} /\ CourseOf(NoSession) = None
  /\ [NoSession EXCEPT !.status = "gone"].status = "gone"
  /\ [NoSession EXCEPT !.status = "gone"].independent_steps = {}
  /\ CourseOf([NoSession EXCEPT !.status = "gone"]) = None
BY DEF NoSession, NewSession, CourseOf

(* Nothing is written to a row before its session starts. *)
LEMMA BlankUntilStarted == Spec => []AbsentIsBlank
<1>1. Init => AbsentIsBlank
  BY DEF Init, AbsentIsBlank, NewSession
<1>2. ASSUME IInv, AbsentIsBlank, [Next]_vars PROVE AbsentIsBlank'
  <2> SUFFICES ASSUME NEW s \in Sessions, sess'[s].status = "absent" PROVE sess'[s] = NoSession
    BY DEF AbsentIsBlank
  <2> DEFINE x == sess[s]  y == sess'[s]
  <2>1. RowMoves(x, y) /\ x \in SessionRow /\ (x.status = "absent" => x = NoSession) /\ y.status = "absent"
    BY <1>2, RowsMove DEF IInv, TypeOK, AbsentIsBlank
  <2> HIDE DEF x, y
  <2>2. ASSUME NEW t, NEW verdict, y = Graded(x, t, verdict) PROVE y.status = x.status
    BY <2>1, <2>2, GradedType DEF SameSession
  <2>3. ASSUME NEW mode, NEW l, y = NewSession(mode, l) PROVE y.status = "active"
    BY <2>3 DEF NewSession
  <2>4. ASSUME NEW b \in BOOLEAN, y = [x EXCEPT !.live = b] PROVE y.status = x.status
    BY <2>1, <2>4 DEF SessionRow
  <2>5. y = x
    BY <2>1, <2>2, <2>3, <2>4, BlankRow DEF RowMoves, RowWrites, SameSession
  <2> QED BY <2>1, <2>5 DEF x, y
<1> QED BY <1>1, <1>2, LocksProtect, PTL DEF Spec

(* One row that moves is one step of the ledger, or none. *)
LEMMA RowIsLedgerStep ==
  ASSUME IInv, AbsentIsBlank, NEW u \in Sessions, NEW y,
         RowWrites(sess[u], y), StartsAlone(sess[u], y), sess' = [sess EXCEPT ![u] = y]
  PROVE  Ledger!Step \/ UNCHANGED Ledger!ledger
<1> DEFINE x == sess[u]
           phase == [s \in Sessions |-> sess[s].status]
           course == [s \in Sessions |-> CourseOf(sess[s])]
           won == [s \in Sessions |-> sess[s].independent_steps]
<1>1. x \in SessionRow
  BY DEF IInv, TypeOK
<1>2. /\ phase' = [phase EXCEPT ![u] = y.status]
      /\ course' = [course EXCEPT ![u] = CourseOf(y)]
      /\ won' = [won EXCEPT ![u] = y.independent_steps]
  BY DEF IInv, TypeOK
<1>3. ASSUME y.status = x.status, CourseOf(y) = CourseOf(x), y.independent_steps = x.independent_steps
      PROVE  UNCHANGED Ledger!ledger
  BY <1>2, <1>3 DEF Ledger!ledger
<1>4. CASE y = x
  BY <1>3, <1>4
<1>5. ASSUME NEW b \in BOOLEAN, y = [x EXCEPT !.live = b] PROVE UNCHANGED Ledger!ledger
  <2>1. y.status = x.status /\ CourseOf(y) = CourseOf(x) /\ y.independent_steps = x.independent_steps
    BY <1>1, <1>5 DEF SessionRow, CourseOf
  <2> QED BY <2>1, <1>3
<1>6. CASE SameSession(x, y) /\ SameCredits(x, y)
  BY <1>3, <1>6 DEF SameSession, SameCredits, CourseOf
<1>7. ASSUME NEW t, NEW verdict, x.status = "active", y = Graded(x, t, verdict)
      PROVE  Ledger!Step \/ UNCHANGED Ledger!ledger
  <2>1. SameSession(x, y)
    BY <1>1, <1>7, GradedType
  <2>2. y.independent_steps = x.independent_steps \/ y.independent_steps = x.independent_steps \cup {x.step}
    BY <1>1, <1>7 DEF Graded, SessionRow
  <2>3. CASE y.independent_steps = x.independent_steps
    BY <2>1, <2>3, <1>3 DEF SameSession, CourseOf
  <2>4. CASE y.independent_steps = x.independent_steps \cup {x.step} /\ x.step \notin x.independent_steps
    <3>1. PICK k \in Steps : k = x.step
      BY <1>1 DEF SessionRow
    <3>2. phase[u] = "active" /\ k \notin won[u]
      BY <1>7, <2>4, <3>1
    <3>3. phase' = phase /\ course' = course
      BY <1>2, <2>1 DEF SameSession, CourseOf
    <3>4. won' = [won EXCEPT ![u] = @ \cup {k}]
      BY <1>2, <2>4, <3>1
    <3>5. Ledger!Win(u, k)
      BY <3>2, <3>3, <3>4 DEF Ledger!Win
    <3> QED BY <3>5 DEF Ledger!Step
  <2> QED BY <2>2, <2>3, <2>4
<1>8. ASSUME x.status = "active", y.status = "completed", y.mode = x.mode, y.lesson = x.lesson, SameCredits(x, y)
      PROVE  Ledger!Step
  <2>1. phase[u] = "active" /\ phase' = [phase EXCEPT ![u] = "completed"] /\ course' = course /\ won' = won
    BY <1>2, <1>8 DEF SameCredits, CourseOf
  <2>2. Ledger!Complete(u)
    BY <2>1 DEF Ledger!Complete
  <2> QED BY <2>2 DEF Ledger!Step
<1>9. ASSUME NEW mode \in {"lesson"} \cup Modes, NEW l \in Lessons \cup {None}, x.status = "absent",
             y = NewSession(mode, l)
      PROVE  Ledger!Step
  <2>1. y.status = "active" /\ y.independent_steps = {} /\ y.mode = mode /\ y.lesson = l
    BY <1>9 DEF NewSession
  <2>2. CourseOf(y) \in Lessons \cup {None}
    BY <2>1, <1>9 DEF CourseOf
  <2>3. phase[u] = "absent" /\ won[u] = {}
    BY <1>9, BlankRow DEF AbsentIsBlank
  <2>4. ASSUME CourseOf(y) # None, NEW s \in Sessions, phase[s] = "active" PROVE course[s] # CourseOf(y)
    <3>1. mode = "lesson" /\ CourseOf(y) = l /\ OpenLessons(l) = {}
      BY <1>9, <2>1, <2>4 DEF CourseOf, StartsAlone
    <3> QED BY <3>1, <2>4 DEF OpenLessons, CourseOf
  <2>5. phase' = [phase EXCEPT ![u] = "active"] /\ course' = [course EXCEPT ![u] = CourseOf(y)] /\ won' = won
    <3>1. phase' = [phase EXCEPT ![u] = "active"] /\ course' = [course EXCEPT ![u] = CourseOf(y)]
      BY <1>2, <2>1
    <3>2. won = [won EXCEPT ![u] = won[u]]
      OBVIOUS
    <3>3. won' = [won EXCEPT ![u] = {}]
      BY <1>2, <2>1
    <3>4. won' = won
      BY <2>3, <3>2, <3>3
    <3> QED BY <3>1, <3>4
  <2>6. Ledger!Open(u, CourseOf(y))
    BY <2>3, <2>4, <2>5 DEF Ledger!Open
  <2> QED BY <2>2, <2>6 DEF Ledger!Step
<1> QED BY <1>4, <1>5, <1>6, <1>7, <1>8, <1>9 DEF RowWrites

(* An erasing step is the ledger's. *)
LEMMA ResetIsErase ==
  ASSUME AbsentIsBlank, ResetAll
  PROVE  Ledger!Erase
<1> SUFFICES ASSUME NEW s \in Sessions
             PROVE  /\ sess'[s].status = IF sess[s].status = "absent" THEN "absent" ELSE "gone"
                    /\ CourseOf(sess'[s]) = None
                    /\ sess'[s].independent_steps = {}
  BY DEF Ledger!Erase
<1>1. CASE sess[s].status = "absent"
  BY <1>1, BlankRow DEF ResetAll, AbsentIsBlank
<1>2. CASE sess[s].status # "absent"
  BY <1>2, BlankRow DEF ResetAll
<1> QED BY <1>1, <1>2

(* It starts where the ledger starts. *)
LEMMA InitIsLedgerInit == Init => Ledger!Init
<1> SUFFICES ASSUME Init PROVE Ledger!Init
  OBVIOUS
<1>0. PICK old \in SUBSET Legacy :
       sess = [s \in Sessions |->
                 IF s \in old
                   THEN [NewSession("lesson", LegacyLesson[s]) EXCEPT !.flow = "legacy"]
                   ELSE NoSession]
  BY DEF Init
<1>1. ASSUME NEW s \in Sessions
      PROVE  /\ sess[s].status \in {"absent", "active"}
             /\ CourseOf(sess[s]) \in Lessons \cup {None}
             /\ sess[s].status = "absent" => CourseOf(sess[s]) = None
             /\ sess[s].independent_steps = {}
  <2>1. CASE s \in old
    <3>1. LegacyLesson[s] \in Lessons
      BY <2>1, ConstantsAssumption
    <3>2. sess[s] = [NewSession("lesson", LegacyLesson[s]) EXCEPT !.flow = "legacy"]
      BY <2>1, <1>0
    <3> QED BY <3>1, <3>2 DEF NewSession, CourseOf
  <2>2. CASE s \notin old
    <3>1. sess[s] = NoSession
      BY <2>2, <1>0
    <3> QED BY <3>1, BlankRow
  <2> QED BY <2>1, <2>2
<1> QED BY <1>1 DEF Ledger!Init

(* PracticeSession implements LessonLedger: whatever requests race, fail   *)
(* or are repeated, the sessions only move as the ledger promises.         *)
THEOREM LedgerKept == Spec => KeepsLedger
<1>1. ASSUME IInv, AbsentIsBlank, [Next]_vars PROVE [Ledger!Next]_(Ledger!ledger)
  <2>1. CASE sess' = sess
    BY <2>1 DEF Ledger!ledger
  <2>2. CASE ResetAll
    BY <2>2, <1>1, ResetIsErase DEF Ledger!Next, Ledger!Step
  <2>3. ASSUME NEW u \in Sessions, NEW y, RowWrites(sess[u], y), StartsAlone(sess[u], y),
               sess' = [sess EXCEPT ![u] = y]
        PROVE  [Ledger!Next]_(Ledger!ledger)
    BY <2>3, <1>1, RowIsLedgerStep DEF Ledger!Next
  <2> QED BY <1>1, <2>1, <2>2, <2>3, OneRowMoves DEF Moves
<1> QED BY <1>1, InitIsLedgerInit, LocksProtect, BlankUntilStarted, PTL DEF Spec, KeepsLedger, Ledger!Spec
-----------------------------------------------------------------------------
(* Steps, told apart by the tables they write *)

(* A row that is left alone, apart from what counts for nobody. *)
Quiet(x, y) ==
  \/ y = x
  \/ \E b \in BOOLEAN : y = [x EXCEPT !.live = b]
  \/ x.status = "active" /\ SameSession(x, y) /\ SameCredits(x, y)
  \/ x.status = "absent" /\ \E mode \in {"lesson"} \cup Modes, l \in Lessons \cup {None} : y = NewSession(mode, l)

QuietStep ==
  /\ attempts' = attempts /\ mastery' = mastery
  /\ \A s \in Sessions : Quiet(sess[s], sess'[s])

(* Only a graded answer, a completion and a reset write attempts, mastery, *)
(* credits or summaries.                                                   *)
LEMMA WhoCounts ==
  ASSUME IInv, [Next]_vars
  PROVE  \/ ResetAll
         \/ \E h \in Handlers, verdict \in Verdicts : TurnGraded(h, verdict)
         \/ \E h \in Handlers : CompleteCommit(h)
         \/ QuietStep
<1> USE DEF IInv, TypeOK
<1>1. ASSUME UNCHANGED <<sess, attempts, mastery>> PROVE QuietStep
  BY <1>1 DEF QuietStep, Quiet
<1>2. ASSUME NEW u \in Sessions, NEW y, Quiet(sess[u], y), sess' = [sess EXCEPT ![u] = y],
             UNCHANGED <<attempts, mastery>>
      PROVE  QuietStep
  <2>1. sess'[u] = y /\ \A s \in Sessions \ {u} : sess'[s] = sess[s]
    BY <1>2
  <2>2. \A s \in Sessions \ {u} : Quiet(sess[s], sess'[s])
    BY <2>1 DEF Quiet
  <2> QED BY <1>2, <2>1, <2>2 DEF QuietStep
<1>3. ASSUME NEW h \in Handlers, Begin(h) PROVE QuietStep
  BY <1>1, <1>3 DEF Begin, CreateBegin, HintBegin, TurnReplay, TurnBegin, CompleteRequest
<1>4. ASSUME NEW h \in Handlers,
             CreateResume(h) \/ FinishTurn(h) \/ CompleteRefused(h) \/ CallFails(h) \/ Crash(h)
      PROVE  QuietStep
  BY <1>1, <1>4 DEF CreateResume, FinishTurn, CompleteRefused, CallFails, Crash, Rollback
<1>5. ASSUME NEW h \in Handlers, CreateLesson(h) PROVE QuietStep
  <2>1. PICK u \in Sessions : sess[u].status = "absent"
                              /\ sess' = [sess EXCEPT ![u] = NewSession("lesson", hand[h].lesson)]
    BY <1>5 DEF CreateLesson
  <2>2. hand[h].lesson \in Lessons
    BY <1>5, HandlerFields DEF CreateLesson
  <2>3. Quiet(sess[u], NewSession("lesson", hand[h].lesson))
    BY <2>1, <2>2 DEF Quiet
  <2> QED BY <1>2, <1>5, <2>1, <2>3 DEF CreateLesson
<1>6. ASSUME NEW h \in Handlers, HintAnswered(h) PROVE QuietStep
  <2>1. /\ hand[h].session \in Sessions /\ hand[h].request \in HintRequests \cup {None}
        /\ sess[hand[h].session].status = "active"
    BY <1>6, HandlerFields DEF HintAnswered, GradersHoldRow
  <2>2. Quiet(sess[hand[h].session], Hinted(sess[hand[h].session], hand[h].request))
    BY <2>1, HintedType DEF Quiet, SameCredits
  <2> QED BY <1>2, <1>6, <2>1, <2>2 DEF HintAnswered
<1>7. ASSUME NEW mode \in Modes, NEW l \in Lessons \cup {None}, CreateOther(mode, l) PROVE QuietStep
  <2>1. PICK u \in Sessions : sess[u].status = "absent" /\ sess' = [sess EXCEPT ![u] = NewSession(mode, l)]
    BY <1>7 DEF CreateOther
  <2>2. Quiet(sess[u], NewSession(mode, l))
    BY <2>1 DEF Quiet
  <2> QED BY <1>2, <1>7, <2>1, <2>2 DEF CreateOther
<1>8. ASSUME NEW u \in Sessions, Advance(u) PROVE QuietStep
  <2>1. Quiet(sess[u], Advanced(sess[u]))
    BY <1>8, AdvancedType DEF Advance, Quiet, SameCredits
  <2> QED BY <1>2, <1>8, <2>1 DEF Advance
<1>9. ASSUME NEW u \in Sessions, NEW q \in HintRequests \cup {None}, HintAtOnce(u, q) PROVE QuietStep
  <2>1. Quiet(sess[u], Hinted(sess[u], q))
    BY <1>9, HintedType DEF HintAtOnce, Quiet, SameCredits
  <2> QED BY <1>2, <1>9, <2>1 DEF HintAtOnce
<1>10. ASSUME NEW u \in Sessions, LiveStart(u) \/ LiveEnd(u) PROVE QuietStep
  <2>1. PICK b \in BOOLEAN : sess' = [sess EXCEPT ![u] = [sess[u] EXCEPT !.live = b]]
    BY <1>10 DEF LiveStart, LiveEnd
  <2>2. Quiet(sess[u], [sess[u] EXCEPT !.live = b])
    BY DEF Quiet
  <2> QED BY <1>2, <1>10, <2>1, <2>2 DEF LiveStart, LiveEnd
<1>11. ASSUME UNCHANGED vars PROVE QuietStep
  BY <1>1, <1>11 DEF vars
<1> QED
  BY <1>3, <1>4, <1>5, <1>6, <1>7, <1>8, <1>9, <1>10, <1>11 DEF Next, Continue, AtOnce

(* What a quiet row keeps. *)
LEMMA QuietKeeps ==
  ASSUME NEW x \in SessionRow, NEW y, Quiet(x, y), x.status = "absent" => x = NoSession
  PROVE  /\ SameCredits(x, y)
         /\ x.status = "absent" \/ (y.lesson = x.lesson /\ y.mode = x.mode /\ y.status = x.status)
         /\ x.status \notin {"absent", "active"} =>
              y.summary = x.summary /\ y.mode = x.mode /\ y.lesson = x.lesson
         /\ y.status = "completed" => x.status = "completed"
<1>1. CASE y = x
  BY <1>1 DEF SameCredits
<1>2. ASSUME NEW b \in BOOLEAN, y = [x EXCEPT !.live = b]
      PROVE  /\ SameCredits(x, y) /\ y.status = x.status /\ y.lesson = x.lesson
             /\ y.mode = x.mode /\ y.summary = x.summary
  BY <1>2 DEF SessionRow, SameCredits
<1>3. CASE x.status = "active" /\ SameSession(x, y) /\ SameCredits(x, y)
  BY <1>3 DEF SameSession
<1>4. ASSUME x.status = "absent", NEW mode, NEW l, y = NewSession(mode, l)
      PROVE  SameCredits(x, y) /\ y.status = "active"
  BY <1>4 DEF NoSession, NewSession, SameCredits
<1> QED BY <1>1, <1>2, <1>3, <1>4 DEF Quiet

(* What a graded answer does to the credits of its session. *)
LEMMA GradedCredits ==
  ASSUME NEW x \in SessionRow, NEW t, NEW verdict
  PROVE  /\ Counted(x, t, verdict) =>
              /\ Graded(x, t, verdict).independent = x.independent + 1
              /\ Graded(x, t, verdict).independent_steps = x.independent_steps \cup {x.step}
              /\ x.lesson # None => x.step \notin x.independent_steps
         /\ ~Counted(x, t, verdict) =>
              /\ Graded(x, t, verdict).independent = x.independent
              /\ x.lesson # None => Graded(x, t, verdict).independent_steps = x.independent_steps
<1> DEFINE y == Graded(x, t, verdict)
<1>1. CASE Counted(x, t, verdict)
  <2>1. y.independent = x.independent + 1 /\ y.independent_steps = x.independent_steps \cup {x.step}
    BY <1>1 DEF Graded, Counted, SessionRow
  <2>2. x.lesson # None => x.step \notin x.independent_steps
    BY <1>1 DEF Counted
  <2> QED BY <1>1, <2>1, <2>2
<1>2. CASE ~Counted(x, t, verdict)
  <2>1. y.independent = x.independent
    BY <1>2 DEF Graded, SessionRow
  <2>2. x.lesson # None => y.independent_steps = x.independent_steps
    BY <1>2 DEF Graded, Counted, SessionRow
  <2> QED BY <1>2, <2>1, <2>2
<1> QED BY <1>1, <1>2

(* Grading, told by the row, the attempt and the mastery it writes. *)
LEMMA GradingWrites ==
  ASSUME IInv, NEW h \in Handlers, NEW verdict \in Verdicts, TurnGraded(h, verdict)
  PROVE  LET t == hand[h]
             x == sess[hand[h].session]
         IN /\ t.session \in Sessions /\ t.request \in Requests
            /\ x \in SessionRow /\ x.status = "active"
            /\ attempts[t.request] = None
            /\ attempts' = [attempts EXCEPT ![t.request] =
                              [session |-> t.session, spoken |-> t.spoken,
                               unaided |-> x.hint = 0 /\ ~t.retry, verdict |-> verdict]]
            /\ sess'[t.session] = Graded(x, t, verdict)
            /\ \A s \in Sessions \ {t.session} : sess'[s] = sess[s]
            /\ mastery' = IF x.lesson = None THEN mastery
                          ELSE [mastery EXCEPT ![x.lesson] = Mastered(mastery[x.lesson], x, t, verdict)]
<1>1. hand[h].op = "turn"
  BY DEF TurnGraded
<1>2. /\ hand[h].session \in Sessions /\ hand[h].request \in Requests
      /\ sess[hand[h].session].status = "active"
  BY <1>1, HandlerFields DEF IInv, TypeOK, GradersHoldRow
<1>3. sess[hand[h].session] \in SessionRow
  BY <1>2 DEF IInv, TypeOK
<1>4. sess' = [sess EXCEPT ![hand[h].session] = Graded(sess[hand[h].session], hand[h], verdict)]
  BY DEF TurnGraded
<1>5. /\ sess'[hand[h].session] = Graded(sess[hand[h].session], hand[h], verdict)
      /\ \A s \in Sessions \ {hand[h].session} : sess'[s] = sess[s]
  BY <1>2, <1>4 DEF IInv, TypeOK
<1> QED BY <1>2, <1>3, <1>5 DEF TurnGraded

(* Completing, told by the row and the mastery it writes. *)
LEMMA CompletionWrites ==
  ASSUME IInv, NEW h \in Handlers, CompleteCommit(h)
  PROVE  LET s == hand[h].session
             x == sess[hand[h].session]
         IN /\ s \in Sessions /\ hand[h].count \in Nat /\ hand[h].op = "counted"
            /\ x \in SessionRow /\ x.status = "active" /\ Completable(s)
            /\ sess'[s].status = "completed" /\ sess'[s].lesson = x.lesson
            /\ sess'[s].mode = x.mode /\ SameCredits(x, sess'[s])
            /\ sess'[s].summary = [attempts |-> hand[h].count, independent |-> x.independent,
                                   mastered |-> IsMastered(x)]
            /\ \A u \in Sessions \ {s} : sess'[u] = sess[u]
            /\ attempts' = attempts
            /\ mastery' = IF IsMastered(x) THEN [mastery EXCEPT ![x.lesson].completed = TRUE] ELSE mastery
<1> DEFINE x == sess[hand[h].session]
           sum == [attempts |-> hand[h].count, independent |-> x.independent,
                   mastered |-> IsMastered(x)]
           y == [x EXCEPT !.status = "completed", !.summary = sum]
<1>1. hand[h].session \in Sessions /\ hand[h].count \in Nat /\ hand[h].op = "counted"
  BY HandlerFields DEF CompleteCommit, IInv, TypeOK
<1>2. x \in SessionRow /\ Completable(hand[h].session) /\ x.status = "active"
  BY <1>1 DEF CompleteCommit, Completable, IInv, TypeOK
<1>3. sess' = [sess EXCEPT ![hand[h].session] = y]
  BY DEF CompleteCommit
<1>4. /\ y.status = "completed" /\ y.lesson = x.lesson /\ y.mode = x.mode /\ SameCredits(x, y)
      /\ y.summary = sum
  BY <1>2 DEF SessionRow, SameCredits
<1> HIDE DEF y
<1>5. sess'[hand[h].session] = y /\ \A u \in Sessions \ {hand[h].session} : sess'[u] = sess[u]
  BY <1>1, <1>3 DEF IInv, TypeOK
<1> QED BY <1>1, <1>2, <1>4, <1>5 DEF CompleteCommit
-----------------------------------------------------------------------------
(* Mastery *)

(* The stored answers a credit of a session may rest on. *)
EvidenceOf(s, table) ==
  {r \in Requests : /\ table[r] # None /\ table[r].session = s
                    /\ table[r].spoken /\ table[r].unaided /\ table[r].verdict = "pass"}

(* An answer takes the request_id it came with, and no other changes.      *)
LEMMA EvidenceGrows ==
  ASSUME IInv, NEW h \in Handlers, NEW verdict \in Verdicts, TurnGraded(h, verdict), NEW s \in Sessions
  PROVE  /\ EvidenceOf(s, attempts) \subseteq EvidenceOf(s, attempts')
         /\ s = hand[h].session /\ Counted(sess[s], hand[h], verdict) =>
              /\ hand[h].request \notin EvidenceOf(s, attempts)
              /\ EvidenceOf(s, attempts') = EvidenceOf(s, attempts) \cup {hand[h].request}
<1> DEFINE t == hand[h]
           new == [session |-> t.session, spoken |-> t.spoken,
                   unaided |-> sess[t.session].hint = 0 /\ ~t.retry, verdict |-> verdict]
<1>1. /\ t.request \in Requests /\ attempts[t.request] = None
      /\ attempts' = [attempts EXCEPT ![t.request] = new]
  BY GradingWrites
<1>2. /\ attempts'[t.request] = new
      /\ \A r \in Requests \ {t.request} : attempts'[r] = attempts[r]
  BY <1>1 DEF IInv, TypeOK
<1>3. t.request \notin EvidenceOf(s, attempts)
  BY <1>1 DEF EvidenceOf
<1>4. EvidenceOf(s, attempts) \subseteq EvidenceOf(s, attempts')
  <2> HIDE DEF t
  <2> QED BY <1>2, <1>3 DEF EvidenceOf
<1>5. ASSUME s = t.session, Counted(sess[s], t, verdict)
      PROVE  EvidenceOf(s, attempts') = EvidenceOf(s, attempts) \cup {t.request}
  <2>1. new.session = s /\ new.spoken /\ new.unaided /\ new.verdict = "pass"
    BY <1>5 DEF Counted, Independent
  <2>2. new # None
    <3>1. t.session \in Sessions /\ t.spoken \in BOOLEAN
      BY HandlerFields DEF IInv, TypeOK, TurnGraded
    <3> QED BY <3>1, AnswerAssumption
  <2> HIDE DEF t, new
  <2> QED BY <1>1, <1>2, <1>3, <2>1, <2>2 DEF EvidenceOf
<1> QED BY <1>3, <1>4, <1>5

(* What an erased or an unstarted row carries. *)
LEMMA ErasedRows ==
  ASSUME AbsentIsBlank, ResetAll, NEW s \in Sessions
  PROVE  sess'[s].independent = 0 /\ sess'[s].independent_steps = {} /\ sess'[s].status \in {"absent", "gone"}
<1>1. /\ NoSession.independent = 0 /\ NoSession.independent_steps = {}
      /\ [NoSession EXCEPT !.status = "gone"].independent = 0
      /\ [NoSession EXCEPT !.status = "gone"].independent_steps = {}
      /\ [NoSession EXCEPT !.status = "gone"].status = "gone"
  BY DEF NoSession, NewSession
<1>2. CASE sess[s].status = "absent"
  BY <1>1, <1>2 DEF ResetAll, AbsentIsBlank
<1>3. CASE sess[s].status # "absent"
  <2>1. sess'[s] = [NoSession EXCEPT !.status = "gone"]
    BY <1>3 DEF ResetAll
  <2> QED BY <1>1, <2>1
<1> QED BY <1>2, <1>3

(* Every credit keeps an answer of its own behind it. *)
LEMMA EvidenceKeeps ==
  ASSUME IInv, AbsentIsBlank, CreditsHaveEvidence, [Next]_vars
  PROVE  CreditsHaveEvidence'
<1> SUFFICES ASSUME NEW s \in Sessions
             PROVE  sess'[s].independent <= Cardinality(EvidenceOf(s, attempts'))
  BY DEF CreditsHaveEvidence, AttemptsOf, EvidenceOf
<1>1. sess[s].independent <= Cardinality(EvidenceOf(s, attempts)) /\ sess[s] \in SessionRow
  <2>1. EvidenceOf(s, attempts) =
          {r \in AttemptsOf(s) : /\ attempts[r].spoken /\ attempts[r].unaided
                                 /\ attempts[r].verdict = "pass"}
    BY DEF AttemptsOf, EvidenceOf
  <2> QED BY <2>1 DEF CreditsHaveEvidence, IInv, TypeOK
<1>2. \A table : IsFiniteSet(EvidenceOf(s, table)) /\ Cardinality(EvidenceOf(s, table)) \in Nat
  BY FS_Subset, FS_CardinalityType, ConstantsAssumption DEF EvidenceOf
<1>3. CASE ResetAll
  BY <1>2, <1>3, ErasedRows
<1>4. ASSUME NEW h \in Handlers, NEW verdict \in Verdicts, TurnGraded(h, verdict)
      PROVE  sess'[s].independent <= Cardinality(EvidenceOf(s, attempts'))
  <2>1. EvidenceOf(s, attempts) \subseteq EvidenceOf(s, attempts')
    BY <1>4, EvidenceGrows
  <2>2. Cardinality(EvidenceOf(s, attempts)) <= Cardinality(EvidenceOf(s, attempts'))
    BY <1>2, <2>1, FS_Subset
  <2>3. CASE s = hand[h].session /\ Counted(sess[s], hand[h], verdict)
    <3>1. sess'[s].independent = sess[s].independent + 1
      <4>1. sess'[s] = Graded(sess[s], hand[h], verdict)
        BY <1>4, <2>3, GradingWrites
      <4>2. Graded(sess[s], hand[h], verdict).independent = sess[s].independent + 1
        BY <1>1, <2>3, GradedCredits
      <4> QED BY <4>1, <4>2
    <3>2. /\ hand[h].request \notin EvidenceOf(s, attempts)
          /\ EvidenceOf(s, attempts') = EvidenceOf(s, attempts) \cup {hand[h].request}
      BY <1>4, <2>3, EvidenceGrows
    <3>3. Cardinality(EvidenceOf(s, attempts')) = Cardinality(EvidenceOf(s, attempts)) + 1
      BY <1>2, <3>2, FS_AddElement
    <3>4. sess[s].independent \in Nat
      BY <1>1 DEF SessionRow
    <3> QED BY <1>1, <1>2, <3>1, <3>3, <3>4
  <2>4. CASE ~(s = hand[h].session /\ Counted(sess[s], hand[h], verdict))
    <3>1. sess'[s].independent = sess[s].independent
      <4>1. CASE s # hand[h].session
        BY <1>4, <4>1, GradingWrites
      <4>2. CASE s = hand[h].session
        <5>1. sess'[s] = Graded(sess[s], hand[h], verdict)
          BY <1>4, <4>2, GradingWrites
        <5>2. Graded(sess[s], hand[h], verdict).independent = sess[s].independent
          BY <1>1, <2>4, <4>2, GradedCredits
        <5> QED BY <5>1, <5>2
      <4> QED BY <4>1, <4>2
    <3>2. sess[s].independent \in Nat
      BY <1>1 DEF SessionRow
    <3> QED BY <1>1, <1>2, <2>2, <3>1, <3>2
  <2> QED BY <2>3, <2>4
<1>5. ASSUME NEW h \in Handlers, CompleteCommit(h)
      PROVE  sess'[s].independent <= Cardinality(EvidenceOf(s, attempts'))
  BY <1>1, <1>5, CompletionWrites DEF SameCredits
<1>6. CASE QuietStep
  <2>1. SameCredits(sess[s], sess'[s]) /\ attempts' = attempts
    BY <1>1, <1>6, QuietKeeps DEF QuietStep, AbsentIsBlank
  <2> QED BY <1>1, <2>1 DEF SameCredits
<1> QED BY <1>3, <1>4, <1>5, <1>6, WhoCounts

(* The rounds the sessions of a lesson have credited. *)
RoundsIn(l, rows) ==
  {round \in Sessions \X Steps :
     rows[round[1]].lesson = l /\ round[2] \in rows[round[1]].independent_steps}

(* Of finitely many sessions there are finitely many. *)
LEMMA RoundsFinite ==
  ASSUME NEW l, NEW rows
  PROVE  IsFiniteSet(RoundsIn(l, rows))
<1>1. IsFiniteSet(Steps)
  BY FS_Interval, ConstantsAssumption DEF Steps
<1>2. IsFiniteSet(Sessions \X Steps)
  BY <1>1, FS_Product, ConstantsAssumption
<1>3. RoundsIn(l, rows) \subseteq Sessions \X Steps
  BY DEF RoundsIn
<1> QED BY <1>2, <1>3, FS_Subset

(* Rows that keep their lesson and their credits, or have none yet, leave  *)
(* the rounds of every lesson as they were.                                *)
LEMMA RoundsStay ==
  ASSUME NEW l, NEW rows, NEW after,
         \A s \in Sessions :
           /\ after[s].independent_steps = rows[s].independent_steps
           /\ rows[s].independent_steps = {} \/ after[s].lesson = rows[s].lesson
  PROVE  RoundsIn(l, after) = RoundsIn(l, rows)
BY DEF RoundsIn

(* Mastery and the sessions of a lesson keep the same number of credits.   *)
LEMMA AgreementKeeps ==
  ASSUME IInv, AbsentIsBlank, MasteryAgreesWithSessions, [Next]_vars
  PROVE  MasteryAgreesWithSessions'
<1> SUFFICES ASSUME NEW l \in Lessons
             PROVE  mastery'[l].independent = Cardinality(RoundsIn(l, sess'))
  BY DEF MasteryAgreesWithSessions, CreditedRounds, RoundsIn
<1>1. mastery[l].independent = Cardinality(RoundsIn(l, sess))
  BY DEF MasteryAgreesWithSessions, CreditedRounds, RoundsIn
<1>2. /\ mastery \in [Lessons -> [independent : Nat, assisted : Nat, completed : BOOLEAN]]
      /\ l # None /\ \A s \in Sessions : sess[s] \in SessionRow
  BY ConstantsAssumption DEF IInv, TypeOK
<1>3. CASE ResetAll
  <2>1. RoundsIn(l, sess') = {}
    BY <1>3, ErasedRows DEF RoundsIn
  <2>2. mastery'[l].independent = 0
    BY <1>3 DEF ResetAll
  <2> QED BY <2>1, <2>2, FS_EmptySet
<1>4. ASSUME NEW h \in Handlers, NEW verdict \in Verdicts, TurnGraded(h, verdict)
      PROVE  mastery'[l].independent = Cardinality(RoundsIn(l, sess'))
  <2> DEFINE t == hand[h]  s == hand[h].session  x == sess[hand[h].session]
  <2>1. /\ s \in Sessions /\ x \in SessionRow
        /\ sess'[s] = Graded(x, t, verdict)
        /\ \A u \in Sessions \ {s} : sess'[u] = sess[u]
        /\ mastery' = IF x.lesson = None THEN mastery
                      ELSE [mastery EXCEPT ![x.lesson] = Mastered(mastery[x.lesson], x, t, verdict)]
    BY <1>4, GradingWrites
  <2>2. sess'[s].lesson = x.lesson
    BY <2>1, GradedType DEF SameSession
  <2>3. CASE x.lesson = l /\ Counted(x, t, verdict)
    <3>1. /\ sess'[s].independent_steps = x.independent_steps \cup {x.step}
          /\ x.step \notin x.independent_steps
      BY <1>2, <2>1, <2>3, GradedCredits
    <3>2. x.step \in Steps
      BY <2>1 DEF SessionRow
    <3>3. /\ RoundsIn(l, sess') = RoundsIn(l, sess) \cup {<<s, x.step>>}
          /\ <<s, x.step>> \notin RoundsIn(l, sess)
      <4>1. \A u \in Sessions \ {s}, k \in Steps :
              <<u, k>> \in RoundsIn(l, sess') <=> <<u, k>> \in RoundsIn(l, sess)
        BY <2>1 DEF RoundsIn
      <4>2. \A k \in Steps : /\ <<s, k>> \in RoundsIn(l, sess') <=> k \in x.independent_steps \cup {x.step}
                             /\ <<s, k>> \in RoundsIn(l, sess) <=> k \in x.independent_steps
        BY <2>1, <2>2, <2>3, <3>1 DEF RoundsIn
      <4>3. /\ RoundsIn(l, sess') \subseteq Sessions \X Steps
            /\ RoundsIn(l, sess) \subseteq Sessions \X Steps
        BY DEF RoundsIn
      <4> HIDE DEF s, x
      <4> QED BY <2>1, <3>1, <3>2, <4>1, <4>2, <4>3
    <3>4. Cardinality(RoundsIn(l, sess')) = Cardinality(RoundsIn(l, sess)) + 1
      BY <3>3, RoundsFinite, FS_AddElement
    <3>5. Mastered(mastery[l], x, t, verdict).independent = mastery[l].independent + 1
      BY <1>2, <2>3 DEF Mastered
    <3>6. mastery'[l] = Mastered(mastery[l], x, t, verdict)
      BY <1>2, <2>1, <2>3
    <3> QED BY <1>1, <3>4, <3>5, <3>6
  <2>4. CASE x.lesson = l /\ ~Counted(x, t, verdict)
    <3>1. sess'[s].independent_steps = x.independent_steps
      BY <1>2, <2>1, <2>4, GradedCredits
    <3>2. RoundsIn(l, sess') = RoundsIn(l, sess)
      BY <2>1, <2>2, <3>1, RoundsStay
    <3>3. Mastered(mastery[l], x, t, verdict).independent = mastery[l].independent
      BY <1>2, <2>4 DEF Mastered
    <3>4. mastery'[l] = Mastered(mastery[l], x, t, verdict)
      BY <1>2, <2>1, <2>4
    <3> QED BY <1>1, <3>2, <3>3, <3>4
  <2>5. CASE x.lesson # l
    <3>1. RoundsIn(l, sess') = RoundsIn(l, sess)
      <4>1. \A u \in Sessions : sess'[u] = sess[u] \/ (sess[u].lesson # l /\ sess'[u].lesson # l)
        BY <2>1, <2>2, <2>5
      <4> QED BY <4>1 DEF RoundsIn
    <3>2. mastery'[l] = mastery[l]
      BY <1>2, <2>1, <2>5
    <3> QED BY <1>1, <3>1, <3>2
  <2> QED BY <2>3, <2>4, <2>5
<1>5. ASSUME NEW h \in Handlers, CompleteCommit(h)
      PROVE  mastery'[l].independent = Cardinality(RoundsIn(l, sess'))
  <2>1. \A u \in Sessions : /\ sess'[u].independent_steps = sess[u].independent_steps
                            /\ sess'[u].lesson = sess[u].lesson
    BY <1>5, CompletionWrites DEF SameCredits
  <2>2. RoundsIn(l, sess') = RoundsIn(l, sess)
    BY <2>1, RoundsStay
  <2>3. mastery'[l].independent = mastery[l].independent
    <3> DEFINE x == sess[hand[h].session]
    <3>1. mastery' = IF IsMastered(x) THEN [mastery EXCEPT ![x.lesson].completed = TRUE] ELSE mastery
      BY <1>5, CompletionWrites
    <3> HIDE DEF x
    <3>2. CASE ~IsMastered(x) \/ x.lesson # l
      BY <1>2, <3>1, <3>2
    <3>3. CASE IsMastered(x) /\ x.lesson = l
      <4>1. mastery'[l] = [mastery[l] EXCEPT !.completed = TRUE]
        BY <1>2, <3>1, <3>3
      <4> QED BY <1>2, <4>1
    <3> QED BY <3>2, <3>3
  <2> QED BY <1>1, <2>2, <2>3
<1>6. CASE QuietStep
  <2>1. \A u \in Sessions : /\ sess'[u].independent_steps = sess[u].independent_steps
                            /\ sess[u].independent_steps = {} \/ sess'[u].lesson = sess[u].lesson
    <3> SUFFICES ASSUME NEW u \in Sessions
                 PROVE  /\ sess'[u].independent_steps = sess[u].independent_steps
                        /\ sess[u].independent_steps = {} \/ sess'[u].lesson = sess[u].lesson
      OBVIOUS
    <3>1. /\ SameCredits(sess[u], sess'[u])
          /\ sess[u].status = "absent" \/ sess'[u].lesson = sess[u].lesson
      BY <1>2, <1>6, QuietKeeps DEF QuietStep, AbsentIsBlank
    <3>2. NoSession.independent_steps = {}
      BY BlankRow
    <3> QED BY <3>1, <3>2 DEF SameCredits, AbsentIsBlank
  <2>2. RoundsIn(l, sess') = RoundsIn(l, sess)
    BY <2>1, RoundsStay
  <2> QED BY <1>1, <1>6, <2>2 DEF QuietStep
<1> QED BY <1>3, <1>4, <1>5, <1>6, WhoCounts

(* A lesson is marked as mastered with the session that mastered it.       *)
LEMMA TwoRoundsKeep ==
  ASSUME IInv, CreditsAreDistinctRounds, AbsentIsBlank, MasteredOnlyByTwoRounds, [Next]_vars
  PROVE  MasteredOnlyByTwoRounds'
<1> DEFINE Shown(l, rows) ==
             \E s \in Sessions : /\ rows[s].status = "completed" /\ rows[s].lesson = l
                                 /\ Cardinality(rows[s].independent_steps) >= 2
<1> SUFFICES ASSUME NEW l \in Lessons, mastery'[l].completed PROVE Shown(l, sess')
  BY DEF MasteredOnlyByTwoRounds
<1>1. mastery[l].completed => Shown(l, sess)
  BY DEF MasteredOnlyByTwoRounds
<1>2. /\ mastery \in [Lessons -> [independent : Nat, assisted : Nat, completed : BOOLEAN]]
      /\ l # None /\ \A s \in Sessions : sess[s] \in SessionRow
  BY ConstantsAssumption DEF IInv, TypeOK
<1>3. ASSUME Shown(l, sess), \A s \in Sessions : sess[s].status = "completed" =>
               /\ sess'[s].status = "completed" /\ sess'[s].lesson = sess[s].lesson
               /\ sess'[s].independent_steps = sess[s].independent_steps
      PROVE  Shown(l, sess')
  BY <1>3
<1> HIDE DEF Shown
<1>4. CASE ResetAll
  BY <1>4 DEF ResetAll
<1>5. ASSUME NEW h \in Handlers, NEW verdict \in Verdicts, TurnGraded(h, verdict)
      PROVE  Shown(l, sess')
  <2>1. \A s \in Sessions : sess[s].status = "completed" => sess'[s] = sess[s]
    BY <1>5, GradingWrites
  <2>2. mastery[l].completed
    <3> DEFINE x == sess[hand[h].session]
    <3>1. \A m \in [independent : Nat, assisted : Nat, completed : BOOLEAN] :
            Mastered(m, x, hand[h], verdict).completed = m.completed
      BY DEF Mastered
    <3>2. mastery' = IF x.lesson = None THEN mastery
                     ELSE [mastery EXCEPT ![x.lesson] = Mastered(mastery[x.lesson], x, hand[h], verdict)]
      BY <1>5, GradingWrites
    <3> HIDE DEF x
    <3>3. CASE x.lesson = l
      <4>1. mastery'[l] = Mastered(mastery[l], x, hand[h], verdict)
        BY <1>2, <3>2, <3>3
      <4> QED BY <1>2, <3>1, <4>1
    <3>4. CASE x.lesson # l
      BY <1>2, <3>2, <3>4
    <3> QED BY <3>3, <3>4
  <2> QED BY <1>1, <1>3, <2>1, <2>2
<1>6. ASSUME NEW h \in Handlers, CompleteCommit(h) PROVE Shown(l, sess')
  <2> DEFINE s == hand[h].session  x == sess[hand[h].session]
  <2>1. /\ s \in Sessions /\ x.status = "active" /\ x \in SessionRow
        /\ sess'[s].status = "completed" /\ sess'[s].lesson = x.lesson /\ SameCredits(x, sess'[s])
        /\ \A u \in Sessions \ {s} : sess'[u] = sess[u]
        /\ mastery' = IF IsMastered(x) THEN [mastery EXCEPT ![x.lesson].completed = TRUE] ELSE mastery
    BY <1>6, CompletionWrites
  <2>2. CASE mastery[l].completed
    <3>1. \A u \in Sessions : sess[u].status = "completed" => sess'[u] = sess[u]
      BY <2>1
    <3> QED BY <1>1, <1>3, <2>2, <3>1
  <2>3. CASE ~mastery[l].completed
    <3>1. IsMastered(x) /\ x.lesson = l
      BY <1>2, <2>1, <2>3
    <3>2. Cardinality(x.independent_steps) >= 2
      BY <2>1, <3>1 DEF IsMastered, CreditsAreDistinctRounds
    <3> QED BY <2>1, <3>1, <3>2 DEF Shown, SameCredits
  <2> QED BY <2>2, <2>3
<1>7. CASE QuietStep
  <2>1. \A s \in Sessions : sess[s].status = "completed" =>
          /\ sess'[s].status = "completed" /\ sess'[s].lesson = sess[s].lesson
          /\ sess'[s].independent_steps = sess[s].independent_steps
    BY <1>2, <1>7, QuietKeeps DEF QuietStep, AbsentIsBlank, SameCredits
  <2> QED BY <1>1, <1>3, <1>7, <2>1 DEF QuietStep
<1> QED BY <1>4, <1>5, <1>6, <1>7, WhoCounts

(* Mastery is earned: a credit has a spoken, unaided and passed answer of  *)
(* its own, mastery counts the rounds the lesson's sessions credited, and  *)
(* a mastered lesson has a completed session with two of them (sessions.go *)
(* 373-470, 700-792).                                                      *)
THEOREM Earned == Spec => []MasteryIsEarned
<1>1. Init => MasteryIsEarned
  <2> SUFFICES ASSUME Init PROVE MasteryIsEarned
    OBVIOUS
  <2>1. \A s \in Sessions : sess[s].independent = 0 /\ sess[s].independent_steps = {}
    <3>1. PICK old \in SUBSET Legacy :
            sess = [s \in Sessions |->
                      IF s \in old
                        THEN [NewSession("lesson", LegacyLesson[s]) EXCEPT !.flow = "legacy"]
                        ELSE NoSession]
      BY DEF Init
    <3>2. \A l : LET x == [NewSession("lesson", l) EXCEPT !.flow = "legacy"]
                 IN x.independent = 0 /\ x.independent_steps = {}
      BY DEF NewSession
    <3>3. NoSession.independent = 0 /\ NoSession.independent_steps = {}
      BY DEF NoSession, NewSession
    <3> QED BY <3>1, <3>2, <3>3
  <2>2. CreditsHaveEvidence
    <3> SUFFICES ASSUME NEW s \in Sessions
                 PROVE  sess[s].independent <=
                          Cardinality({r \in AttemptsOf(s) : /\ attempts[r].spoken /\ attempts[r].unaided
                                                             /\ attempts[r].verdict = "pass"})
      BY DEF CreditsHaveEvidence
    <3>1. {r \in AttemptsOf(s) : /\ attempts[r].spoken /\ attempts[r].unaided
                                 /\ attempts[r].verdict = "pass"} = {}
      BY DEF Init, AttemptsOf
    <3>2. Cardinality({}) = 0
      BY FS_EmptySet
    <3>3. sess[s].independent = 0
      BY <2>1
    <3> QED BY <3>1, <3>2, <3>3
  <2>3. MasteryAgreesWithSessions
    <3>1. \A l \in Lessons : CreditedRounds(l) = {}
      BY <2>1 DEF CreditedRounds
    <3>2. \A l \in Lessons : mastery[l].independent = 0
      BY DEF Init
    <3>3. Cardinality({}) = 0
      BY FS_EmptySet
    <3> QED BY <3>1, <3>2, <3>3 DEF MasteryAgreesWithSessions
  <2>4. MasteredOnlyByTwoRounds
    BY DEF Init, MasteredOnlyByTwoRounds
  <2> QED BY <2>2, <2>3, <2>4 DEF MasteryIsEarned
<1>2. IInv /\ CreditsAreDistinctRounds /\ AbsentIsBlank /\ MasteryIsEarned /\ [Next]_vars => MasteryIsEarned'
  BY EvidenceKeeps, AgreementKeeps, TwoRoundsKeep DEF MasteryIsEarned
<1> QED BY <1>1, <1>2, LocksProtect, DistinctRounds, BlankUntilStarted, PTL DEF Spec
-----------------------------------------------------------------------------
(* Summaries *)

AnswersIn(s, table) == {r \in Requests : table[r] # None /\ table[r].session = s}
ClearIn(s, table) == {r \in AnswersIn(s, table) : table[r].spoken /\ table[r].verdict # "unclear"}

(* Answers are finite in number, and only a reset takes any away. *)
LEMMA SizesGrow ==
  ASSUME IInv, [Next]_vars, NEW s \in Sessions
  PROVE  /\ Cardinality(AnswersIn(s, attempts)) \in Nat /\ Cardinality(ClearIn(s, attempts)) \in Nat
         /\ ~ResetAll => /\ Cardinality(AnswersIn(s, attempts)) <= Cardinality(AnswersIn(s, attempts'))
                         /\ Cardinality(ClearIn(s, attempts)) <= Cardinality(ClearIn(s, attempts'))
<1>1. \A table : IsFiniteSet(AnswersIn(s, table)) /\ Cardinality(AnswersIn(s, table)) \in Nat
  BY FS_Subset, FS_CardinalityType, ConstantsAssumption DEF AnswersIn
<1>2. \A table : IsFiniteSet(ClearIn(s, table)) /\ Cardinality(ClearIn(s, table)) \in Nat
  BY <1>1, FS_Subset, FS_CardinalityType DEF ClearIn
<1>3. ASSUME AnswersIn(s, attempts) \subseteq AnswersIn(s, attempts'),
             ClearIn(s, attempts) \subseteq ClearIn(s, attempts')
      PROVE  /\ Cardinality(AnswersIn(s, attempts)) <= Cardinality(AnswersIn(s, attempts'))
             /\ Cardinality(ClearIn(s, attempts)) <= Cardinality(ClearIn(s, attempts'))
  BY <1>1, <1>2, <1>3, FS_Subset
<1>4. ASSUME \A r \in Requests : attempts[r] # None => attempts'[r] = attempts[r]
      PROVE  /\ AnswersIn(s, attempts) \subseteq AnswersIn(s, attempts')
             /\ ClearIn(s, attempts) \subseteq ClearIn(s, attempts')
  BY <1>4 DEF AnswersIn, ClearIn
<1>5. ASSUME NEW h \in Handlers, NEW verdict \in Verdicts, TurnGraded(h, verdict)
      PROVE  \A r \in Requests : attempts[r] # None => attempts'[r] = attempts[r]
  <2>1. PICK a : attempts' = [attempts EXCEPT ![hand[h].request] = a]
    BY <1>5 DEF TurnGraded
  <2>2. attempts[hand[h].request] = None
    BY <1>5 DEF TurnGraded
  <2> QED BY <2>1, <2>2 DEF IInv, TypeOK
<1>6. ASSUME NEW h \in Handlers, CompleteCommit(h)
      PROVE  attempts' = attempts
  BY <1>6 DEF CompleteCommit
<1>7. ~ResetAll => \A r \in Requests : attempts[r] # None => attempts'[r] = attempts[r]
  BY <1>5, <1>6, WhoCounts DEF QuietStep
<1> QED BY <1>1, <1>2, <1>3, <1>4, <1>7

(* A handler that has counted either had, or counts with this step, which  *)
(* writes nothing.                                                         *)
LEMMA CountTaken ==
  ASSUME IInv, [Next]_vars, NEW g \in Handlers, hand'[g].op = "counted"
  PROVE  \/ hand'[g] = hand[g]
         \/ /\ sess' = sess /\ attempts' = attempts
            /\ \E s \in Sessions : MayComplete(s) /\ hand'[g] =
                 [op |-> "counted", session |-> s, count |-> Cardinality(AttemptsOf(s))]
<1> USE DEF IInv, TypeOK
<1> DEFINE Taken == \/ hand'[g] = hand[g]
                    \/ /\ sess' = sess /\ attempts' = attempts
                       /\ \E s \in Sessions : MayComplete(s) /\ hand'[g] =
                            [op |-> "counted", session |-> s, count |-> Cardinality(AttemptsOf(s))]
<1>1. ASSUME NEW h \in Handlers, NEW state, state.op # "counted", Goto(h, state) PROVE hand'[g] = hand[g]
  BY <1>1 DEF Goto
<1>2. ASSUME NEW h \in Handlers, Stop(h) PROVE hand'[g] = hand[g]
  BY <1>2 DEF Stop, Idle
<1>3. ASSUME NEW h \in Handlers, NEW s \in Sessions, MayComplete(s), CompleteCount(h, s),
             sess' = sess, attempts' = attempts
      PROVE  Taken
  BY <1>3 DEF CompleteCount, Goto
<1>4. ASSUME NEW h \in Handlers, Begin(h) PROVE Taken
  <2>1. ASSUME NEW l \in Lessons, CreateBegin(h, l) PROVE Taken
    <3>1. PICK prior, audio : Goto(h, [op |-> "create", lesson |-> l, prior |-> prior, audio |-> audio])
      BY <2>1 DEF CreateBegin
    <3> QED BY <3>1, <1>1
  <2>2. ASSUME NEW s \in Sessions, NEW q, HintBegin(h, s, q) PROVE Taken
    BY <2>2, <1>1 DEF HintBegin
  <2>3. ASSUME NEW s \in Sessions, NEW r, TurnReplay(h, s, r) PROVE Taken
    <3>1. PICK ready : Goto(h, [op |-> "finish", session |-> s, ready |-> ready])
      BY <2>3 DEF TurnReplay
    <3> QED BY <3>1, <1>1
  <2>4. ASSUME NEW s \in Sessions, NEW r, NEW spoken, NEW retry, TurnBegin(h, s, r, spoken, retry) PROVE Taken
    BY <2>4, <1>1 DEF TurnBegin
  <2>5. ASSUME NEW s \in Sessions, CompleteRequest(h, s) PROVE Taken
    BY <2>5, <1>3 DEF CompleteRequest
  <2> QED BY <1>4, <2>1, <2>2, <2>3, <2>4, <2>5 DEF Begin
<1>5. ASSUME NEW h \in Handlers, FinishTurn(h) PROVE Taken
  <2>1. hand[h].session \in Sessions /\ sess' = sess /\ attempts' = attempts
    BY <1>5, HandlerFields DEF FinishTurn
  <2>2. Stop(h) \/ (MayComplete(hand[h].session) /\ CompleteCount(h, hand[h].session))
    BY <1>5 DEF FinishTurn
  <2> QED BY <1>2, <1>3, <2>1, <2>2
<1>6. ASSUME NEW h \in Handlers, NEW verdict \in Verdicts, TurnGraded(h, verdict) PROVE Taken
  <2>1. PICK ready : Goto(h, [op |-> "finish", session |-> hand[h].session, ready |-> ready])
    BY <1>6 DEF TurnGraded
  <2> QED BY <2>1, <1>1
<1>7. ASSUME NEW h \in Handlers, CreateResume(h) \/ CreateLesson(h) \/ HintAnswered(h) \/ CompleteCommit(h)
                                 \/ CompleteRefused(h) \/ CallFails(h) \/ Crash(h)
      PROVE  Taken
  <2>1. Stop(h)
    BY <1>7 DEF CreateResume, CreateLesson, HintAnswered, CompleteCommit, CompleteRefused,
                CallFails, Crash, Rollback
  <2> QED BY <2>1, <1>2
<1>8. ASSUME AtOnce \/ UNCHANGED vars PROVE hand' = hand
  BY <1>8 DEF AtOnce, CreateOther, Advance, HintAtOnce, LiveStart, LiveEnd, ResetAll, vars
<1> QED BY <1>4, <1>5, <1>6, <1>7, <1>8 DEF Next, Continue

(* A row that has been started is not forgotten, and keeps its mode while  *)
(* it exists.                                                              *)
LEMMA StartedStays ==
  ASSUME NEW x \in SessionRow, NEW y, RowMoves(x, y), x.status # "absent"
  PROVE  /\ y.status # "absent"
         /\ y.status # "gone" => x.status # "gone" /\ y.mode = x.mode
<1>1. ASSUME NEW b \in BOOLEAN, y = [x EXCEPT !.live = b]
      PROVE  y.status = x.status /\ y.mode = x.mode
  BY <1>1 DEF SessionRow
<1>2. ASSUME NEW t, NEW verdict, y = Graded(x, t, verdict)
      PROVE  y.status = x.status /\ y.mode = x.mode
  BY <1>2, GradedType DEF SameSession
<1>3. ASSUME y = [NoSession EXCEPT !.status = "gone"]
      PROVE  y.status = "gone"
  BY <1>3, BlankRow
<1> QED BY <1>1, <1>2, <1>3 DEF RowMoves, RowWrites, SameSession

(* What a handler has counted is still no more than what is stored. *)
CountHolds(count, x, n) ==
  /\ x.status # "absent"
  /\ x.status # "gone" => count <= n /\ (x.mode = "lesson" => count > 0)

CountedKnown ==
  \A h \in Handlers :
    hand[h].op = "counted" =>
      CountHolds(hand[h].count, sess[hand[h].session], Cardinality(AnswersIn(hand[h].session, attempts)))

(* And stays so until the handler locks the row. *)
LEMMA CountedKeeps ==
  ASSUME IInv, CountedKnown, [Next]_vars
  PROVE  CountedKnown'
<1> SUFFICES ASSUME NEW h \in Handlers, hand'[h].op = "counted"
             PROVE  CountHolds(hand'[h].count, sess'[hand'[h].session],
                               Cardinality(AnswersIn(hand'[h].session, attempts')))
  BY DEF CountedKnown, AnswersIn
<1>1. CASE hand'[h] = hand[h]
  <2> DEFINE t == hand[h]  x == sess[hand[h].session]  y == sess'[hand[h].session]
             n == Cardinality(AnswersIn(hand[h].session, attempts))
             m == Cardinality(AnswersIn(hand[h].session, attempts'))
  <2>1. t.session \in Sessions /\ t.count \in Nat
    BY <1>1, HandlerFields DEF IInv, TypeOK
  <2>2. x \in SessionRow /\ RowMoves(x, y)
    BY <2>1, RowsMove DEF IInv, TypeOK
  <2>3. CountHolds(t.count, x, n)
    BY <1>1 DEF CountedKnown
  <2>4. y.status # "absent" /\ (y.status # "gone" => x.status # "gone" /\ y.mode = x.mode)
    BY <2>2, <2>3, StartedStays DEF CountHolds
  <2>5. CASE ResetAll
    <3>1. y.status = "gone"
      BY <2>1, <2>3, <2>5, BlankRow DEF ResetAll, CountHolds
    <3>2. CountHolds(t.count, y, m)
      BY <3>1 DEF CountHolds
    <3> QED BY <1>1, <3>2
  <2>6. CASE ~ResetAll
    <3>1. n \in Nat /\ n <= m
      BY <2>1, <2>6, SizesGrow
    <3>2. m \in Nat
      BY <2>1, FS_Subset, FS_CardinalityType, ConstantsAssumption DEF AnswersIn
    <3>3. t.count \in Nat
      BY <2>1
    <3> HIDE DEF n, m, x, y
    <3>4. CountHolds(t.count, y, m)
      BY <2>3, <2>4, <3>1, <3>2, <3>3 DEF CountHolds
    <3> QED BY <1>1, <3>4 DEF y, m
  <2> QED BY <2>5, <2>6
<1>2. ASSUME NEW s \in Sessions, MayComplete(s), sess' = sess, attempts' = attempts,
             hand'[h] = [op |-> "counted", session |-> s, count |-> Cardinality(AttemptsOf(s))]
      PROVE  CountHolds(hand'[h].count, sess'[hand'[h].session],
                        Cardinality(AnswersIn(hand'[h].session, attempts')))
  <2>1. AttemptsOf(s) = AnswersIn(s, attempts)
    BY DEF AttemptsOf, AnswersIn
  <2>2. Cardinality(AnswersIn(s, attempts)) \in Nat
    BY SizesGrow
  <2>3. sess[s].status = "active" /\ (sess[s].mode = "lesson" => Cardinality(AnswersIn(s, attempts)) > 0)
    BY <1>2, <2>1 DEF MayComplete, EnoughAnswers
  <2>4. hand'[h].session = s /\ hand'[h].count = Cardinality(AnswersIn(s, attempts))
    BY <1>2, <2>1
  <2> QED BY <1>2, <2>2, <2>3, <2>4 DEF CountHolds
<1> QED BY <1>1, <1>2, CountTaken

(* One row's part of SummaryIsSound. *)
Summed(x, answers, clear) ==
  x.status = "completed" =>
    /\ x.summary.independent = x.independent
    /\ x.summary.attempts <= answers
    /\ x.mode = "lesson" => x.summary.attempts > 0
    /\ x.mode = "placement" => clear >= PlacementMin
    /\ x.summary.mastered <=> IsMastered(x)

(* A row that keeps what a summary is about stays summed up. *)
LEMMA SummedStays ==
  ASSUME NEW x \in SessionRow, NEW y,
         NEW a \in Nat, NEW c \in Nat, NEW a2 \in Nat, NEW c2 \in Nat, a <= a2, c <= c2,
         Summed(x, a, c),
         y.status = "completed" =>
           /\ x.status = "completed" /\ y.summary = x.summary
           /\ y.mode = x.mode /\ y.lesson = x.lesson /\ y.independent = x.independent
  PROVE  Summed(y, a2, c2)
<1> SUFFICES ASSUME y.status = "completed" PROVE Summed(y, a2, c2)
  BY DEF Summed
<1>1. /\ x.summary.attempts \in Nat
      /\ PlacementMin \in Nat
  BY ConstantsAssumption DEF SessionRow
<1>2. IsMastered(y) <=> IsMastered(x)
  BY DEF IsMastered
<1> QED BY <1>1, <1>2 DEF Summed

(* A summary is written once, with the row locked, and stays true. *)
LEMMA SummariesKeep ==
  ASSUME IInv, AbsentIsBlank, CountedKnown, SummaryIsSound, [Next]_vars
  PROVE  SummaryIsSound'
<1> SUFFICES ASSUME NEW s \in Sessions
             PROVE  Summed(sess'[s], Cardinality(AnswersIn(s, attempts')), Cardinality(ClearIn(s, attempts')))
  BY DEF SummaryIsSound, Summed, AttemptsOf, ClearAudioOf, AnswersIn, ClearIn, IsMastered
<1> DEFINE x == sess[s]  y == sess'[s]
           a == Cardinality(AnswersIn(s, attempts))   c == Cardinality(ClearIn(s, attempts))
           a2 == Cardinality(AnswersIn(s, attempts')) c2 == Cardinality(ClearIn(s, attempts'))
<1>1. Summed(x, a, c)
  BY DEF SummaryIsSound, Summed, AttemptsOf, ClearAudioOf, AnswersIn, ClearIn
<1>2. x \in SessionRow
  BY DEF IInv, TypeOK
<1>3. a \in Nat /\ c \in Nat /\ (~ResetAll => a <= a2 /\ c <= c2)
  BY SizesGrow
<1>4. a2 \in Nat /\ c2 \in Nat
  <2>1. IsFiniteSet(AnswersIn(s, attempts')) /\ IsFiniteSet(ClearIn(s, attempts'))
    BY FS_Subset, ConstantsAssumption DEF AnswersIn, ClearIn
  <2> QED BY <2>1, FS_CardinalityType
<1>5. ASSUME ~ResetAll,
             y.status = "completed" =>
               /\ x.status = "completed" /\ y.summary = x.summary
               /\ y.mode = x.mode /\ y.lesson = x.lesson /\ y.independent = x.independent
      PROVE  Summed(y, a2, c2)
  <2> HIDE DEF x, y, a, c, a2, c2
  <2> QED BY <1>1, <1>2, <1>3, <1>4, <1>5, SummedStays
<1>6. CASE ResetAll
  <2>1. y.status # "completed"
    BY <1>6, ErasedRows
  <2> QED BY <2>1 DEF Summed
<1>7. ASSUME ~ResetAll, NEW h \in Handlers, NEW verdict \in Verdicts, TurnGraded(h, verdict)
      PROVE  Summed(y, a2, c2)
  <2>1. CASE s = hand[h].session
    <3>1. x.status = "active" /\ y = Graded(x, hand[h], verdict)
      BY <1>7, <2>1, GradingWrites
    <3>2. y.status = "active"
      BY <1>2, <3>1, GradedType DEF SameSession
    <3> QED BY <3>2 DEF Summed
  <2>2. CASE s # hand[h].session
    <3>1. y = x
      BY <1>7, <2>2, GradingWrites
    <3> QED BY <1>5, <1>7, <3>1
  <2> QED BY <2>1, <2>2
<1>8. ASSUME ~ResetAll, NEW h \in Handlers, CompleteCommit(h)
      PROVE  Summed(y, a2, c2)
  <2>1. CASE s # hand[h].session
    <3>1. y = x
      BY <1>8, <2>1, CompletionWrites
    <3> QED BY <1>5, <1>8, <3>1
  <2>2. CASE s = hand[h].session
    <3> DEFINE n == hand[h].count
    <3>1. /\ n \in Nat /\ hand[h].op = "counted" /\ x.status = "active" /\ Completable(s)
          /\ y.lesson = x.lesson /\ y.mode = x.mode /\ SameCredits(x, y)
          /\ y.summary = [attempts |-> n, independent |-> x.independent, mastered |-> IsMastered(x)]
          /\ attempts' = attempts
      BY <1>8, <2>2, CompletionWrites
    <3>2. CountHolds(n, x, a)
      BY <2>2, <3>1 DEF CountedKnown
    <3>3. n <= a /\ (x.mode = "lesson" => n > 0)
      BY <3>1, <3>2 DEF CountHolds
    <3>4. x.mode = "placement" => c >= PlacementMin
      BY <3>1 DEF Completable, ClearAudioOf, AttemptsOf, ClearIn, AnswersIn
    <3>5. a2 = a /\ c2 = c
      BY <3>1
    <3>6. IsMastered(y) <=> IsMastered(x)
      BY <3>1 DEF IsMastered, SameCredits
    <3>7. /\ y.summary.attempts = n /\ y.summary.independent = x.independent
          /\ y.summary.mastered <=> IsMastered(x)
      BY <3>1
    <3> HIDE DEF x, y, a, c, a2, c2, n
    <3> QED BY <3>1, <3>3, <3>4, <3>5, <3>6, <3>7 DEF Summed, SameCredits
  <2> QED BY <2>1, <2>2
<1>9. ASSUME ~ResetAll, QuietStep
      PROVE  Summed(y, a2, c2)
  <2>1. x.status = "absent" => x = NoSession
    BY DEF AbsentIsBlank
  <2>2. Quiet(x, y)
    BY <1>9 DEF QuietStep
  <2>3. /\ SameCredits(x, y) /\ (y.status = "completed" => x.status = "completed")
        /\ x.status = "completed" => y.summary = x.summary /\ y.mode = x.mode /\ y.lesson = x.lesson
    <3> HIDE DEF x, y
    <3> QED BY <1>2, <2>1, <2>2, QuietKeeps
  <2> QED BY <1>5, <1>9, <2>3 DEF SameCredits
<1> QED BY <1>6, <1>7, <1>8, <1>9, WhoCounts

(* What was summarised is what the session ended with, though its answers  *)
(* are counted before the row is locked: the count can only have become    *)
(* too low, never too high, and a session that a reset erased in between   *)
(* is not completed (sessions.go 700-792).                                 *)
THEOREM Summaries == Spec => []SummaryIsSound
<1>1. Init => CountedKnown /\ SummaryIsSound
  <2> SUFFICES ASSUME Init PROVE CountedKnown /\ SummaryIsSound
    OBVIOUS
  <2>1. CountedKnown
    BY DEF Init, CountedKnown, Idle
  <2>2. \A s \in Sessions : sess[s].status # "completed"
    BY DEF Init, NoSession, NewSession
  <2> QED BY <2>1, <2>2 DEF SummaryIsSound
<1>2. IInv /\ AbsentIsBlank /\ CountedKnown /\ SummaryIsSound /\ [Next]_vars => (CountedKnown /\ SummaryIsSound)'
  BY CountedKeeps, SummariesKeep
<1> QED BY <1>1, <1>2, LocksProtect, BlankUntilStarted, PTL DEF Spec

-----------------------------------------------------------------------------
(* PracticeAudit only watches PracticeSession. *)

(* Its steps are steps of PracticeSession. *)
LEMMA AuditWatches ==
  /\ AuditInit => Init
  /\ [AuditNext]_<<vars, audit>> => [Next]_vars
BY DEF AuditInit, AuditNext, Work, Lose, Hang, Next, vars

(* So it has the invariants that are proved of PracticeSession. *)
LEMMA AuditKeeps == AuditSpec => [](IInv /\ AbsentIsBlank /\ MasteryIsEarned)
BY AuditWatches, LocksProtect, BlankUntilStarted, Earned, PTL DEF AuditSpec, Spec
-----------------------------------------------------------------------------
(* What a step does to one row *)

RowStep(x, y) ==
  \/ y = x
  \/ \E b \in BOOLEAN : y = [x EXCEPT !.live = b]
  \/ x.status = "active" /\ \E q \in HintRequests \cup {None} : y = Hinted(x, q)
  \/ x.status = "active" /\ Advanced(x).step <= MaxStep /\ y = Advanced(x)
  \/ x.status = "active" /\ \E t, verdict : y = Graded(x, t, verdict)
  \/ x.status = "active" /\ y.status = "completed" /\ SameCredits(x, y)
  \/ x.status = "absent" /\ \E mode, l : y = NewSession(mode, l)
  \/ y = [NoSession EXCEPT !.status = "gone"]

(* One row is written, in one of these ways, or all are erased. *)
LEMMA RowSteps ==
  ASSUME IInv, [Next]_vars, NEW s \in Sessions
  PROVE  RowStep(sess[s], sess'[s])
<1> USE DEF IInv, TypeOK
<1>1. ASSUME sess' = sess PROVE RowStep(sess[s], sess'[s])
  BY <1>1 DEF RowStep
<1>2. ASSUME NEW u \in Sessions, NEW y, RowStep(sess[u], y), sess' = [sess EXCEPT ![u] = y]
      PROVE  RowStep(sess[s], sess'[s])
  <2>1. CASE s = u
    BY <1>2, <2>1
  <2>2. CASE s # u
    BY <1>2, <2>2 DEF RowStep
  <2> QED BY <2>1, <2>2
<1>3. ASSUME NEW h \in Handlers, Begin(h) PROVE sess' = sess
  BY <1>3 DEF Begin, CreateBegin, HintBegin, TurnReplay, TurnBegin, CompleteRequest
<1>4. ASSUME NEW h \in Handlers,
             CreateResume(h) \/ FinishTurn(h) \/ CompleteRefused(h) \/ CallFails(h) \/ Crash(h)
      PROVE  sess' = sess
  BY <1>4 DEF CreateResume, FinishTurn, CompleteRefused, CallFails, Crash, Rollback
<1>5. ASSUME NEW h \in Handlers, CreateLesson(h) PROVE RowStep(sess[s], sess'[s])
  <2>1. PICK u \in Sessions : sess[u].status = "absent"
                              /\ sess' = [sess EXCEPT ![u] = NewSession("lesson", hand[h].lesson)]
    BY <1>5 DEF CreateLesson
  <2>2. RowStep(sess[u], NewSession("lesson", hand[h].lesson))
    BY <2>1 DEF RowStep
  <2> QED BY <1>2, <2>1, <2>2
<1>6. ASSUME NEW h \in Handlers, HintAnswered(h) PROVE RowStep(sess[s], sess'[s])
  <2>1. /\ hand[h].session \in Sessions /\ hand[h].request \in HintRequests \cup {None}
        /\ sess[hand[h].session].status = "active"
    BY <1>6, HandlerFields DEF HintAnswered, GradersHoldRow
  <2>2. RowStep(sess[hand[h].session], Hinted(sess[hand[h].session], hand[h].request))
    BY <2>1 DEF RowStep
  <2> QED BY <1>2, <1>6, <2>1, <2>2 DEF HintAnswered
<1>7. ASSUME NEW h \in Handlers, NEW verdict \in Verdicts, TurnGraded(h, verdict)
      PROVE  RowStep(sess[s], sess'[s])
  <2>1. CASE s = hand[h].session
    <3>1. sess[s].status = "active" /\ sess'[s] = Graded(sess[s], hand[h], verdict)
      BY <1>7, <2>1, GradingWrites
    <3> QED BY <3>1 DEF RowStep
  <2>2. CASE s # hand[h].session
    <3>1. sess'[s] = sess[s]
      BY <1>7, <2>2, GradingWrites
    <3> QED BY <3>1 DEF RowStep
  <2> QED BY <2>1, <2>2
<1>8. ASSUME NEW h \in Handlers, CompleteCommit(h) PROVE RowStep(sess[s], sess'[s])
  <2>1. CASE s = hand[h].session
    <3>1. sess[s].status = "active" /\ sess'[s].status = "completed" /\ SameCredits(sess[s], sess'[s])
      BY <1>8, <2>1, CompletionWrites
    <3> QED BY <3>1 DEF RowStep
  <2>2. CASE s # hand[h].session
    <3>1. sess'[s] = sess[s]
      BY <1>8, <2>2, CompletionWrites
    <3> QED BY <3>1 DEF RowStep
  <2> QED BY <2>1, <2>2
<1>9. ASSUME NEW mode \in Modes, NEW l \in Lessons \cup {None}, CreateOther(mode, l)
      PROVE  RowStep(sess[s], sess'[s])
  <2>1. PICK u \in Sessions : sess[u].status = "absent" /\ sess' = [sess EXCEPT ![u] = NewSession(mode, l)]
    BY <1>9 DEF CreateOther
  <2>2. RowStep(sess[u], NewSession(mode, l))
    BY <2>1 DEF RowStep
  <2> QED BY <1>2, <2>1, <2>2
<1>10. ASSUME NEW u \in Sessions, Advance(u) PROVE RowStep(sess[s], sess'[s])
  <2>1. RowStep(sess[u], Advanced(sess[u]))
    BY <1>10 DEF Advance, RowStep
  <2> QED BY <1>2, <1>10, <2>1 DEF Advance
<1>11. ASSUME NEW u \in Sessions, NEW q \in HintRequests \cup {None}, HintAtOnce(u, q)
       PROVE  RowStep(sess[s], sess'[s])
  <2>1. RowStep(sess[u], Hinted(sess[u], q))
    BY <1>11 DEF HintAtOnce, RowStep
  <2> QED BY <1>2, <1>11, <2>1 DEF HintAtOnce
<1>12. ASSUME NEW u \in Sessions, LiveStart(u) \/ LiveEnd(u) PROVE RowStep(sess[s], sess'[s])
  <2>1. PICK b \in BOOLEAN : sess' = [sess EXCEPT ![u] = [sess[u] EXCEPT !.live = b]]
    BY <1>12 DEF LiveStart, LiveEnd
  <2>2. RowStep(sess[u], [sess[u] EXCEPT !.live = b])
    BY DEF RowStep
  <2> QED BY <1>2, <2>1, <2>2
<1>13. CASE ResetAll
  BY <1>13 DEF ResetAll, RowStep
<1>14. CASE UNCHANGED vars
  BY <1>1, <1>14 DEF vars
<1> QED
  BY <1>1, <1>3, <1>4, <1>5, <1>6, <1>7, <1>8, <1>9, <1>10, <1>11, <1>12, <1>13, <1>14
     DEF Next, Continue, AtOnce

(* What the two promises ask of such a step: a credit is for the round the *)
(* session is in, reached without a hint; a hint leaves its level behind;  *)
(* a conversation goes from round to round and never back.                 *)
CreditIsUnaided(x, y) ==
  \A k \in y.independent_steps \ x.independent_steps :
    x.status = "active" /\ x.stage = "conversation" /\ x.hint = 0 /\ k = x.step

HintStays(x, y) ==
  y.status = "active" /\ (y.last_hint # x.last_hint \/ y.hint > x.hint) =>
    x.status = "active" /\ y.hint > 0 /\ y.stage = x.stage /\ y.step = x.step

GoesForward(x, y) ==
  /\ x.status # "absent" => y.status # "absent" /\ (y.status = "active" => x.status = "active")
  /\ y.status = "active" /\ x.status = "active" /\ x.stage = "conversation" =>
       /\ y.stage = "conversation"
       /\ (y.step = x.step /\ y.hint >= x.hint) \/ y.step = x.step + 1

(* Each way to write a row does what they ask. *)
LEMMA RowEffects ==
  ASSUME NEW x \in SessionRow, NEW y, RowStep(x, y), x.status = "absent" => x = NoSession
  PROVE  CreditIsUnaided(x, y) /\ HintStays(x, y) /\ GoesForward(x, y)
<1> DEFINE Good == CreditIsUnaided(x, y) /\ HintStays(x, y) /\ GoesForward(x, y)
<1> USE DEF CreditIsUnaided, HintStays, GoesForward
<1>0. x.hint \in 0 .. MaxHint /\ x.step \in Steps /\ MaxHint \in Nat \ {0}
  BY ConstantsAssumption DEF SessionRow
<1>1. ASSUME y = x PROVE Good
  BY <1>0, <1>1
<1>2. ASSUME NEW b \in BOOLEAN, y = [x EXCEPT !.live = b] PROVE Good
  <2>1. /\ y.status = x.status /\ y.stage = x.stage /\ y.step = x.step /\ y.hint = x.hint
        /\ y.last_hint = x.last_hint /\ y.independent_steps = x.independent_steps
    BY <1>2 DEF SessionRow
  <2> QED BY <1>0, <2>1
<1>3. ASSUME x.status = "active", NEW q \in HintRequests \cup {None}, y = Hinted(x, q) PROVE Good
  <2>1. /\ y.status = x.status /\ y.stage = x.stage /\ y.step = x.step
        /\ y.independent_steps = x.independent_steps /\ y.hint = AtMost(MaxHint, x.hint + 1)
    BY <1>3 DEF Hinted, SessionRow
  <2>2. y.hint > 0 /\ y.hint >= x.hint
    BY <1>0, <2>1 DEF AtMost
  <2> QED BY <1>0, <1>3, <2>1, <2>2
<1>4. ASSUME x.status = "active", Advanced(x).step <= MaxStep, y = Advanced(x) PROVE Good
  <2>1. y.status = "active" /\ y.independent_steps = x.independent_steps
    BY <1>4, AdvancedType DEF SameSession
  <2>2. y.hint = 0 /\ y.last_hint = x.last_hint
    BY <1>4 DEF Advanced, SessionRow
  <2>3. x.stage = "conversation" => y.stage = "conversation" /\ y.step = x.step + 1
    BY <1>4 DEF Advanced, SessionRow
  <2> QED BY <1>0, <1>4, <2>1, <2>2, <2>3
<1>5. ASSUME x.status = "active", NEW t, NEW verdict, y = Graded(x, t, verdict) PROVE Good
  <2>1. /\ y.status = x.status /\ y.stage = x.stage /\ y.step = x.step /\ y.hint = x.hint
        /\ y.last_hint = x.last_hint
    BY <1>5 DEF Graded, SessionRow
  <2>2. y.independent_steps = IF Independent(x, t, verdict) /\ x.stage = "conversation"
                                THEN x.independent_steps \cup {x.step} ELSE x.independent_steps
    BY <1>5 DEF Graded, SessionRow
  <2>3. Independent(x, t, verdict) => x.hint = 0
    BY DEF Independent
  <2>4. CreditIsUnaided(x, y)
    BY <1>5, <2>2, <2>3
  <2> QED BY <1>0, <1>5, <2>1, <2>4
<1>6. ASSUME x.status = "active", y.status = "completed", SameCredits(x, y) PROVE Good
  BY <1>6 DEF SameCredits
<1>7. ASSUME x.status = "absent", NEW mode, NEW l, y = NewSession(mode, l) PROVE Good
  <2>1. /\ x.last_hint = None /\ x.hint = 0
    BY <1>7 DEF NoSession, NewSession
  <2>2. y.last_hint = None /\ y.hint = 0 /\ y.independent_steps = {}
    BY <1>7 DEF NewSession
  <2> QED BY <1>7, <2>1, <2>2
<1>8. ASSUME y = [NoSession EXCEPT !.status = "gone"] PROVE Good
  <2>1. y.status = "gone" /\ y.independent_steps = {}
    BY <1>8, BlankRow
  <2> QED BY <2>1
<1> QED BY <1>1, <1>2, <1>3, <1>4, <1>5, <1>6, <1>7, <1>8 DEF RowStep
-----------------------------------------------------------------------------
(* What was helped *)

(* A round somebody was helped in is a round of a conversation that has    *)
(* started; while its session is still in that round the level shows it.   *)
HelpShows ==
  \A s \in Sessions, k \in Int :
    <<s, k>> \in aided =>
      /\ sess[s].status # "absent"
      /\ sess[s].status = "active" =>
           /\ sess[s].stage = "conversation" /\ k <= sess[s].step
           /\ k = sess[s].step => sess[s].hint > 0

(* The rows a step leaves are rows. *)
LEMMA RowsTyped ==
  ASSUME IInv, [AuditNext]_<<vars, audit>>, NEW s \in Sessions
  PROVE  sess'[s] \in SessionRow
BY AuditWatches, NextType DEF IInv, TypeOK

(* A hint is noted for the round it was given in. *)
LEMMA HelpKeeps ==
  ASSUME IInv, AbsentIsBlank, HelpShows, [AuditNext]_<<vars, audit>>
  PROVE  HelpShows'
<1> SUFFICES ASSUME NEW s \in Sessions, NEW k \in Int, <<s, k>> \in aided'
             PROVE  /\ sess'[s].status # "absent"
                    /\ sess'[s].status = "active" =>
                         /\ sess'[s].stage = "conversation" /\ k <= sess'[s].step
                         /\ k = sess'[s].step => sess'[s].hint > 0
  BY DEF HelpShows
<1> DEFINE x == sess[s]  y == sess'[s]
<1>1. x \in SessionRow /\ RowStep(x, y) /\ (x.status = "absent" => x = NoSession)
  BY AuditWatches, RowSteps DEF IInv, TypeOK, AbsentIsBlank
<1>2. HintStays(x, y) /\ GoesForward(x, y)
  BY <1>1, RowEffects
<1>3. x.step \in Nat /\ x.hint \in Nat /\ MaxHint \in Nat
  BY <1>1, ConstantsAssumption DEF SessionRow, Steps
<1>4. <<s, k>> \in aided
      \/ (y.status = "active" /\ (y.last_hint # x.last_hint \/ y.hint > x.hint)
          /\ x.stage = "conversation" /\ k = x.step)
  BY DEF AuditNext, Work, Lose, Hang, Observe, HintedNow, vars, audit
<1> HIDE DEF x, y
<1>5. CASE <<s, k>> \in aided
  <2>1. /\ x.status # "absent"
        /\ x.status = "active" =>
             x.stage = "conversation" /\ k <= x.step /\ (k = x.step => x.hint > 0)
    BY <1>5 DEF HelpShows, x
  <2>2. CASE y.status = "active"
    <3>1. /\ x.stage = "conversation" /\ k <= x.step /\ (k = x.step => x.hint > 0)
          /\ y.stage = "conversation"
          /\ (y.step = x.step /\ y.hint >= x.hint) \/ y.step = x.step + 1
      BY <1>2, <2>1, <2>2 DEF GoesForward
    <3>2. CASE y.step = x.step + 1
      BY <1>2, <1>3, <2>1, <3>1, <3>2 DEF GoesForward, y
    <3>3. CASE y.step = x.step /\ y.hint >= x.hint
      <4>1. y.hint \in Int
        BY RowsTyped DEF SessionRow, y
      <4> QED BY <1>2, <1>3, <2>1, <3>1, <3>3, <4>1 DEF GoesForward, y
    <3> QED BY <3>1, <3>2, <3>3
  <2>3. CASE y.status # "active"
    BY <1>2, <2>1, <2>3 DEF GoesForward, y
  <2> QED BY <2>2, <2>3
<1>6. CASE /\ y.status = "active" /\ (y.last_hint # x.last_hint \/ y.hint > x.hint)
           /\ x.stage = "conversation" /\ k = x.step
  <2>1. x.status = "active" /\ y.hint > 0 /\ y.stage = x.stage /\ y.step = x.step
    BY <1>2, <1>6 DEF HintStays
  <2> QED BY <1>3, <1>6, <2>1 DEF y
<1> QED BY <1>4, <1>5, <1>6

(* "Assisted answers and corrected retries are separate from independent   *)
(* successes" (README 24): a round for which any hint was given is never   *)
(* credited afterwards, also not by an answer that was being graded or     *)
(* repeated when the hint came.                                            *)
THEOREM HelpIsNotCredited == AuditSpec => NoCreditAfterHelp
<1>1. AuditInit => HelpShows
  BY DEF AuditInit, HelpShows
<1>2. ASSUME IInv, AbsentIsBlank, HelpShows, [AuditNext]_<<vars, audit>>
      PROVE  \A s \in Sessions : \A k \in sess'[s].independent_steps \ sess[s].independent_steps :
               <<s, k>> \notin aided
  <2> SUFFICES ASSUME NEW s \in Sessions,
                      NEW k \in sess'[s].independent_steps \ sess[s].independent_steps
               PROVE  <<s, k>> \notin aided
    OBVIOUS
  <2>1. /\ sess[s] \in SessionRow /\ RowStep(sess[s], sess'[s])
        /\ sess[s].status = "absent" => sess[s] = NoSession
    BY <1>2, AuditWatches, RowSteps DEF IInv, TypeOK, AbsentIsBlank
  <2>2. /\ sess[s].status = "active" /\ sess[s].stage = "conversation"
        /\ sess[s].hint = 0 /\ k = sess[s].step
    BY <2>1, RowEffects DEF CreditIsUnaided
  <2>3. k \in Int
    BY <2>1, <2>2 DEF SessionRow, Steps
  <2> QED BY <1>2, <2>2, <2>3 DEF HelpShows
<1>3. IInv /\ AbsentIsBlank /\ HelpShows /\ [AuditNext]_<<vars, audit>> => HelpShows'
  BY HelpKeeps
<1>4. IInv /\ AbsentIsBlank /\ HelpShows /\ [AuditNext]_<<vars, audit>> =>
        [\A s \in Sessions : \A k \in sess'[s].independent_steps \ sess[s].independent_steps :
           <<s, k>> \notin aided]_<<vars, audit>>
  BY <1>2
<1> QED BY <1>1, <1>3, <1>4, AuditKeeps, PTL DEF AuditSpec, NoCreditAfterHelp
-----------------------------------------------------------------------------
(* Who completes *)

(* A handler that will complete the session, if it is let. *)
Completing(t, s) ==
  ((t.op = "finish" /\ t.ready) \/ t.op = "counted") /\ t.session = s

(* Sessions that met Live are set apart; credits come from conversations;  *)
(* a session with two of them that is still active is being completed.     *)
LiveIsCut == \A s \in Sessions : sess[s].live => s \in cut

CreditsAreTalk ==
  \A s \in Sessions :
    sess[s].status = "active" /\ sess[s].independent > 0 => sess[s].stage = "conversation"

Attended ==
  \A s \in Sessions \ cut :
    Ready(sess[s]) /\ sess[s].status = "active" => \E h \in Handlers : Completing(hand[h], s)

(* A session that has a credit is in its conversation: nothing leads back. *)
LEMMA TalkKeeps ==
  ASSUME IInv, AbsentIsBlank, CreditsAreTalk, [AuditNext]_<<vars, audit>>
  PROVE  CreditsAreTalk'
<1> SUFFICES ASSUME NEW s \in Sessions, sess'[s].status = "active", sess'[s].independent > 0
             PROVE  sess'[s].stage = "conversation"
  BY DEF CreditsAreTalk
<1> DEFINE x == sess[s]  y == sess'[s]
<1>1. x \in SessionRow /\ RowStep(x, y) /\ (x.status = "absent" => x = NoSession)
  BY AuditWatches, RowSteps DEF IInv, TypeOK, AbsentIsBlank
<1>2. GoesForward(x, y)
  BY <1>1, RowEffects
<1>3. x.status = "active" /\ x.independent > 0 => x.stage = "conversation"
  BY DEF CreditsAreTalk
<1>4. x.independent \in Nat /\ y.status = "active" /\ y.independent > 0
  BY <1>1 DEF SessionRow
<1> HIDE DEF x, y
<1>5. ASSUME x.status = "active", y.independent = x.independent PROVE y.stage = "conversation"
  BY <1>2, <1>3, <1>4, <1>5 DEF GoesForward
<1>6. ASSUME y = x PROVE y.stage = "conversation"
  BY <1>4, <1>5, <1>6
<1>7. ASSUME NEW b \in BOOLEAN, y = [x EXCEPT !.live = b] PROVE y.stage = "conversation"
  <2>1. y.status = x.status /\ y.independent = x.independent
    BY <1>1, <1>7 DEF SessionRow
  <2> QED BY <1>4, <1>5, <2>1
<1>8. ASSUME x.status = "active", NEW q \in HintRequests \cup {None}, y = Hinted(x, q)
      PROVE  y.stage = "conversation"
  <2>1. y.independent = x.independent
    BY <1>1, <1>8, HintedType
  <2> QED BY <1>5, <1>8, <2>1
<1>9. ASSUME x.status = "active", Advanced(x).step <= MaxStep, y = Advanced(x) PROVE y.stage = "conversation"
  <2>1. y.independent = x.independent
    BY <1>1, <1>9, AdvancedType
  <2> QED BY <1>5, <1>9, <2>1
<1>10. ASSUME x.status = "active", NEW t, NEW verdict, y = Graded(x, t, verdict) PROVE y.stage = "conversation"
  <2>1. CASE Counted(x, t, verdict)
    <3>1. x.stage = "conversation"
      BY <2>1 DEF Counted
    <3> QED BY <1>2, <1>4, <1>10, <3>1 DEF GoesForward
  <2>2. CASE ~Counted(x, t, verdict)
    <3>1. y.independent = x.independent
      BY <1>1, <1>10, <2>2, GradedCredits
    <3> QED BY <1>5, <1>10, <3>1
  <2> QED BY <2>1, <2>2
<1>11. ASSUME NEW mode, NEW l, y = NewSession(mode, l) PROVE y.stage = "conversation"
  <2>1. y.independent = 0
    BY <1>11 DEF NewSession
  <2> QED BY <1>4, <2>1
<1>12. ASSUME y = [NoSession EXCEPT !.status = "gone"] PROVE y.stage = "conversation"
  BY <1>4, <1>12, BlankRow
<1>13. y.stage = "conversation"
  BY <1>1, <1>4, <1>6, <1>7, <1>8, <1>9, <1>10, <1>11, <1>12 DEF RowStep
<1> QED BY <1>13 DEF y

(* A lesson becomes ready by an answer, and its handler sees it.           *)
LEMMA ReadyHasHandler ==
  ASSUME IInv, AbsentIsBlank, CreditsAreTalk, [Next]_vars, NEW s \in Sessions,
         Ready(sess'[s]), sess'[s].status = "active"
  PROVE  \/ Ready(sess[s]) /\ sess[s].status = "active"
         \/ \E h \in Handlers : Completing(hand'[h], s)
<1> DEFINE x == sess[s]  y == sess'[s]
<1>1. x \in SessionRow /\ (x.status = "absent" => x = NoSession)
  BY DEF IInv, TypeOK, AbsentIsBlank
<1>2. CASE ResetAll
  BY <1>2, ErasedRows
<1>3. ASSUME y = x PROVE Ready(x) /\ x.status = "active"
  BY <1>3
<1>4. ASSUME NEW h \in Handlers, NEW verdict \in Verdicts, TurnGraded(h, verdict), s = hand[h].session
      PROVE  Completing(hand'[h], s)
  <2>1. y = Graded(x, hand[h], verdict)
    BY <1>4, GradingWrites
  <2>2. hand'[h] = [op |-> "finish", session |-> s, ready |-> Ready(Graded(x, hand[h], verdict))]
    BY <1>4 DEF TurnGraded, Goto, IInv, TypeOK
  <2> DEFINE ready == Ready(Graded(x, hand[h], verdict))
  <2>3. ready
    BY <2>1
  <2> HIDE DEF ready
  <2>4. hand'[h].op = "finish" /\ hand'[h].session = s /\ hand'[h].ready = ready
    BY <2>2 DEF ready
  <2> QED BY <2>3, <2>4 DEF Completing
<1>5. ASSUME NEW h \in Handlers, NEW verdict \in Verdicts, TurnGraded(h, verdict), s # hand[h].session
      PROVE  y = x
  BY <1>5, GradingWrites
<1>6. ASSUME NEW h \in Handlers, CompleteCommit(h)
      PROVE  y = x
  BY <1>6, CompletionWrites
<1>7. ASSUME Quiet(x, y) PROVE Ready(x) /\ x.status = "active"
  <2>1. y.status = "active" /\ y.mode = "lesson" /\ y.independent >= 2
    BY DEF Ready
  <2>2. ASSUME NEW b \in BOOLEAN, y = [x EXCEPT !.live = b] PROVE Ready(x) /\ x.status = "active"
    <3>1. /\ y.status = x.status /\ y.mode = x.mode /\ y.flow = x.flow /\ y.stage = x.stage
          /\ y.independent = x.independent
      BY <1>1, <2>2 DEF SessionRow
    <3> QED BY <3>1 DEF Ready
  <2>3. ASSUME x.status = "active", SameSession(x, y), SameCredits(x, y) PROVE Ready(x)
    <3>1. x.stage = "conversation"
      <4>1. x.independent \in Nat /\ x.independent >= 2
        BY <1>1, <2>1, <2>3 DEF SameCredits, SessionRow
      <4> QED BY <2>3, <4>1 DEF CreditsAreTalk
    <3> QED BY <2>1, <2>3, <3>1 DEF Ready, SameSession, SameCredits
  <2>4. ASSUME NEW mode, NEW l, y = NewSession(mode, l) PROVE FALSE
    BY <2>1, <2>4 DEF NewSession
  <2> HIDE DEF x, y
  <2> QED BY <1>3, <1>7, <2>2, <2>3, <2>4 DEF Quiet
<1> QED BY <1>2, <1>3, <1>4, <1>5, <1>6, <1>7, WhoCounts DEF QuietStep

(* A handler that completes goes on to do so unless it is lost: with two   *)
(* credits there are answers to count, and nobody has Live on.             *)
LEMMA CompleterGoesOn ==
  ASSUME IInv, MasteryIsEarned, LiveIsCut, [AuditNext]_<<vars, audit>>,
         NEW s \in Sessions, s \notin cut \cup cut', Ready(sess[s]), sess[s].status = "active",
         NEW h \in Handlers, Completing(hand[h], s)
  PROVE  Completing(hand'[h], s) \/ sess'[s].status # "active"
<1> USE DEF IInv, TypeOK
<1>1. s \notin cut /\ ~sess[s].live /\ sess[s].mode = "lesson" /\ sess[s].independent >= 2
  BY DEF LiveIsCut, Ready
<1>2. Completable(s) /\ MayComplete(s)
  <2>1. sess[s].independent <= Cardinality(EvidenceOf(s, attempts)) /\ sess[s].independent \in Nat
    <3>1. EvidenceOf(s, attempts) =
            {r \in AttemptsOf(s) : /\ attempts[r].spoken /\ attempts[r].unaided
                                   /\ attempts[r].verdict = "pass"}
      BY DEF AttemptsOf, EvidenceOf
    <3> QED BY <3>1 DEF MasteryIsEarned, CreditsHaveEvidence, SessionRow
  <2>2. /\ EvidenceOf(s, attempts) \subseteq AttemptsOf(s)
        /\ IsFiniteSet(AttemptsOf(s))
    BY FS_Subset, ConstantsAssumption DEF EvidenceOf, AttemptsOf
  <2>3. /\ Cardinality(EvidenceOf(s, attempts)) \in Nat /\ Cardinality(AttemptsOf(s)) \in Nat
        /\ Cardinality(EvidenceOf(s, attempts)) <= Cardinality(AttemptsOf(s))
    BY <2>2, FS_Subset, FS_CardinalityType
  <2>4. Cardinality(AttemptsOf(s)) > 0
    BY <1>1, <2>1, <2>3
  <2> QED BY <1>1, <2>4 DEF Completable, MayComplete, EnoughAnswers
<1>3. hand[h].op \in {"finish", "counted"} /\ hand[h].session = s /\ hand[h] # Idle
  BY DEF Completing, Idle
<1>4. ASSUME hand'[h] = hand[h] PROVE Completing(hand'[h], s)
  BY <1>4
<1>5. ASSUME NEW g \in Handlers, Begin(g) PROVE hand'[h] = hand[h]
  <2>1. g # h
    BY <1>3, <1>5 DEF Begin, CreateBegin, HintBegin, TurnReplay, TurnBegin, CompleteRequest
  <2>2. \E st : Goto(g, st)
    BY <1>5 DEF Begin, CreateBegin, HintBegin, TurnReplay, TurnBegin, CompleteRequest, CompleteCount
  <2> QED BY <2>1, <2>2 DEF Goto
<1>6. ASSUME NEW g \in Handlers, g # h, Continue(g) \/ CallFails(g) \/ Crash(g) PROVE hand'[h] = hand[h]
  BY <1>6, HandMoves
<1>7. ASSUME Continue(h) PROVE Completing(hand'[h], s) \/ sess'[s].status # "active"
  <2>1. CASE FinishTurn(h)
    <3>1. hand[h].ready
      BY <2>1 DEF FinishTurn, Completing
    <3>2. CompleteCount(h, s)
      BY <1>2, <1>3, <2>1, <3>1 DEF FinishTurn
    <3>3. hand'[h] = [op |-> "counted", session |-> s, count |-> Cardinality(AttemptsOf(s))]
      BY <3>2 DEF CompleteCount, Goto
    <3> QED BY <3>3 DEF Completing
  <2>2. CASE CompleteCommit(h)
    BY <1>3, <2>2, CompletionWrites
  <2>3. CASE CompleteRefused(h)
    BY <1>2, <1>3, <2>3 DEF CompleteRefused
  <2>4. CASE CreateResume(h) \/ CreateLesson(h) \/ HintAnswered(h)
    BY <1>3, <2>4 DEF CreateResume, CreateLesson, HintAnswered
  <2>5. ASSUME NEW verdict \in Verdicts, TurnGraded(h, verdict) PROVE FALSE
    BY <1>3, <2>5 DEF TurnGraded
  <2> QED BY <1>7, <2>1, <2>2, <2>3, <2>4, <2>5 DEF Continue
<1>8. ~CallFails(h)
  BY <1>3 DEF CallFails
<1>9. ASSUME Crash(h), cut' = IF hand[h].op = "create" THEN cut ELSE cut \cup {hand[h].session} PROVE FALSE
  BY <1>3, <1>9
<1>10. ASSUME AtOnce \/ Hang \/ UNCHANGED <<vars, audit>> PROVE hand'[h] = hand[h]
  BY <1>10 DEF Hang, AtOnce, CreateOther, Advance, HintAtOnce, LiveStart, LiveEnd, ResetAll, vars
<1> QED BY <1>4, <1>5, <1>6, <1>7, <1>8, <1>9, <1>10 DEF AuditNext, Work, Lose

(* A session whose completion is taken up again has its handler again.     *)
LEMMA TakenUpIsAttended ==
  ASSUME IInv, Work, NEW s \in TakenUp, Ready(sess'[s]), sess'[s].status = "active"
  PROVE  \E h \in Handlers : Completing(hand'[h], s)
<1> USE DEF IInv, TypeOK
<1>1. PICK h \in Handlers : hand[h] = Idle /\ hand'[h].op \in {"finish", "counted"}
                            /\ hand'[h].session = s
  BY DEF TakenUp
<1>2. hand'[h] # hand[h] /\ hand[h].op = "idle"
  BY <1>1 DEF Idle
<1>3. ASSUME AtOnce PROVE FALSE
  BY <1>2, <1>3 DEF AtOnce, CreateOther, Advance, HintAtOnce, LiveStart, LiveEnd, ResetAll
<1>4. ASSUME NEW g \in Handlers, Continue(g) \/ CallFails(g) PROVE FALSE
  <2>1. g = h
    BY <1>2, <1>4, HandMoves
  <2> QED BY <1>2, <1>4, <2>1
          DEF Continue, CreateResume, CreateLesson, HintAnswered, TurnGraded, FinishTurn,
              CompleteCommit, CompleteRefused, CallFails
<1>5. PICK g \in Handlers : Begin(g)
  BY <1>3, <1>4 DEF Work
<1>6. ASSUME NEW state, Goto(g, state) PROVE g = h /\ hand'[h] = state
  BY <1>2, <1>6 DEF Goto
<1>7. ASSUME NEW l \in Lessons, CreateBegin(g, l) PROVE FALSE
  <2>1. PICK prior, audio : Goto(g, [op |-> "create", lesson |-> l, prior |-> prior, audio |-> audio])
    BY <1>7 DEF CreateBegin
  <2> QED BY <1>1, <1>6, <2>1
<1>8. ASSUME NEW u \in Sessions, NEW q, HintBegin(g, u, q) PROVE FALSE
  BY <1>1, <1>6, <1>8 DEF HintBegin
<1>9. ASSUME NEW u \in Sessions, NEW r, NEW spoken, NEW retry, TurnBegin(g, u, r, spoken, retry) PROVE FALSE
  BY <1>1, <1>6, <1>9 DEF TurnBegin
<1>10. ASSUME NEW u \in Sessions, NEW r, TurnReplay(g, u, r) PROVE Completing(hand'[h], s)
  <2> DEFINE ready == Ready(sess[u]) /\ sess[u].status = "active"
  <2> HIDE DEF ready
  <2>1. Goto(g, [op |-> "finish", session |-> u, ready |-> ready]) /\ sess' = sess
    BY <1>10 DEF TurnReplay, ready
  <2>2. hand'[h] = [op |-> "finish", session |-> u, ready |-> ready]
    BY <1>6, <2>1
  <2>3. u = s
    BY <1>1, <2>2
  <2>4. ready
    BY <2>1, <2>3 DEF ready
  <2> QED BY <2>2, <2>3, <2>4 DEF Completing
<1>11. ASSUME NEW u \in Sessions, CompleteRequest(g, u) PROVE Completing(hand'[h], s)
  <2>1. hand'[h] = [op |-> "counted", session |-> u, count |-> Cardinality(AttemptsOf(u))]
    BY <1>6, <1>11 DEF CompleteRequest, CompleteCount
  <2> QED BY <1>1, <2>1 DEF Completing
<1> QED BY <1>5, <1>7, <1>8, <1>9, <1>10, <1>11 DEF Begin

(* "The second successful independent round completes the lesson"          *)
(* (docs/new-features.md 49): a lesson with two credited rounds on which   *)
(* nobody is at work is no longer active, unless Live was on or the        *)
(* handler that would complete it was lost; and once the completion is     *)
(* taken up again, it is completed after all.                              *)
THEOREM SecondRound == AuditSpec => []SecondRoundCompletes
<1>1. AuditInit => LiveIsCut /\ CreditsAreTalk /\ Attended
  <2> SUFFICES ASSUME AuditInit, NEW s \in Sessions
               PROVE  ~sess[s].live /\ sess[s].independent = 0
    BY DEF LiveIsCut, CreditsAreTalk, Attended, Ready
  <2> QED BY DEF AuditInit, Init, NoSession, NewSession
<1>2. ASSUME IInv, AbsentIsBlank, MasteryIsEarned, LiveIsCut, CreditsAreTalk, Attended,
             [AuditNext]_<<vars, audit>>
      PROVE  LiveIsCut' /\ CreditsAreTalk' /\ Attended'
  <2>1. [Next]_vars
    BY <1>2, AuditWatches
  <2>2. cut \subseteq cut' \/ (Work /\ cut \ cut' \subseteq TakenUp)
    BY <1>2 DEF AuditNext, Work, Lose, Hang, audit
  <2>3. LiveIsCut'
    <3>1. CASE UNCHANGED <<vars, audit>>
      BY <1>2, <3>1 DEF LiveIsCut, vars, audit
    <3>2. ASSUME NEW h \in Handlers, Lose(h) PROVE LiveIsCut'
      BY <1>2, <3>2 DEF Lose, Crash, Rollback, LiveIsCut
    <3>3. CASE Work
      BY <3>3 DEF Work, LiveIsCut
    <3>4. CASE Hang
      BY <1>2, <3>4 DEF Hang, LiveIsCut, vars
    <3> QED BY <1>2, <3>1, <3>2, <3>3, <3>4 DEF AuditNext
  <2>4. CreditsAreTalk'
    BY <1>2, TalkKeeps
  <2>5. Attended'
    <3> SUFFICES ASSUME NEW s \in Sessions \ cut', Ready(sess'[s]), sess'[s].status = "active"
                 PROVE  \E h \in Handlers : Completing(hand'[h], s)
      BY DEF Attended, Ready, Completing
    <3>1. CASE Ready(sess[s]) /\ sess[s].status = "active" /\ s \notin cut
      <4>1. PICK h \in Handlers : Completing(hand[h], s)
        BY <1>2, <3>1 DEF Attended
      <4>2. Completing(hand'[h], s)
        BY <1>2, <3>1, <4>1, CompleterGoesOn
      <4> QED BY <4>2
    <3>2. CASE s \in cut
      <4>1. Work /\ s \in TakenUp
        BY <2>2, <3>2
      <4> QED BY <1>2, <4>1, TakenUpIsAttended
    <3> QED BY <1>2, <2>1, <3>1, <3>2, ReadyHasHandler
  <2> QED BY <2>3, <2>4, <2>5
<1>3. Attended => SecondRoundCompletes
  BY DEF Attended, SecondRoundCompletes, Completing
<1>4. IInv /\ AbsentIsBlank /\ MasteryIsEarned /\ (LiveIsCut /\ CreditsAreTalk /\ Attended)
        /\ [AuditNext]_<<vars, audit>> => (LiveIsCut /\ CreditsAreTalk /\ Attended)'
  BY <1>2
<1> QED BY <1>1, <1>3, <1>4, AuditKeeps, PTL DEF AuditSpec
=============================================================================
