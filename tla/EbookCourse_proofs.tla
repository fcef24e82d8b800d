------------------------- MODULE EbookCourse_proofs -------------------------
(***************************************************************************)
(* Proofs about EbookCourse, for any number of handlers, practice sessions,*)
(* quiz items, lines and requests, and any progress an earlier version of  *)
(* the course may have left.                                               *)
(***************************************************************************)
EXTENDS EbookCourse, FiniteSetTheorems, TLAPS
-----------------------------------------------------------------------------
(* The rows a request may write have the type of one. *)

(* A quiz that counts settles the reading steps and nothing else. *)
LEMMA ImpliedType ==
  ASSUME NEW steps \in SUBSET Steps
  PROVE  /\ Implied(steps) \in SUBSET Steps /\ steps \subseteq Implied(steps)
         /\ Implied(steps) \ Reading = steps \ Reading
         /\ "quiz" \in steps => Reading \subseteq Implied(steps)
         /\ \A a \in Assessed : a \in Implied(steps) <=> a \in steps
BY ConstantsAssumption DEF Implied, Steps

(* Settling changes the steps and the enrolment only. *)
LEMMA SettledType ==
  ASSUME NEW x \in Row
  PROVE  /\ Settled(x) \in Row
         /\ Settled(x).steps = Implied(x.steps)
         /\ Settled(x).enrolled = (x.enrolled \/ Finished(x))
         /\ Settled(x).right = x.right /\ Settled(x).heard = x.heard
         /\ Settled(x).revealed = x.revealed /\ Settled(x).given = x.given
<1>1. x.steps \in SUBSET Steps
  BY DEF Row
<1>2. Implied(x.steps) \in SUBSET Steps
  BY <1>1, ImpliedType
<1>3. (x.enrolled \/ Finished(x)) \in BOOLEAN
  OBVIOUS
<1> QED BY <1>2, <1>3 DEF Settled, Row

(* Adding and taking away a step changes nothing else. *)
LEMMA StepType ==
  ASSUME NEW x \in Row, NEW step \in Steps
  PROVE  /\ Plus(x, step) \in Row /\ Minus(x, step) \in Row
         /\ Plus(x, step) = [x EXCEPT !.steps = x.steps \cup {step}]
         /\ Minus(x, step) = [x EXCEPT !.steps = x.steps \ {step}]
BY DEF Row, Plus, Minus

(* Marking an answer changes what is right, heard and passed. *)
LEMMA MarkedType ==
  ASSUME NEW x \in Row, NEW asked \in SUBSET (Quiz \cup Listening), NEW right \in SUBSET asked
  PROVE  /\ Marked(x, asked, right) \in Row
         /\ Marked(x, asked, right).right = (x.right \ asked) \cup (right \cap Quiz)
         /\ Marked(x, asked, right).heard = x.heard \cup (right \cap Listening)
         /\ (x.right \ asked) \cup (right \cap Quiz) = Quiz =>
              Marked(x, asked, right).steps = x.steps \cup {"quiz"}
         /\ (x.right \ asked) \cup (right \cap Quiz) # Quiz =>
              Marked(x, asked, right).steps = x.steps \ {"quiz"}
         /\ Marked(x, asked, right).enrolled = x.enrolled
         /\ Marked(x, asked, right).revealed = x.revealed
         /\ Marked(x, asked, right).given = x.given
BY DEF Row, Marked, AllRight, Steps, Assessed

(* A row that has just been begun: nothing but what was carried over. *)
Fresh(x) == x.steps = x.given /\ ~x.enrolled

(* The seed is such a row. *)
LEMMA SeedType ==
  ASSUME TypeOK
  PROVE  Seed \in Row /\ Fresh(Seed)
BY ConstantsAssumption DEF TypeOK, Seed, Blank, Row, Fresh

(* What an insertion leaves is the row there is, or the seed. *)
LEMMA RowOrType ==
  ASSUME TypeOK, NEW seed \in Row
  PROVE  RowOr(seed) \in Row /\ (row # None => RowOr(seed) = row) /\ (row = None => RowOr(seed) = seed)
BY DEF TypeOK, RowOr
-----------------------------------------------------------------------------
(* What handlers hold has its type *)

(* What a handler works on, by what it does. *)
LEMMA HandlerFields ==
  ASSUME TypeOK, NEW h \in Handlers
  PROVE  /\ hand[h].op \in {"idle", "seeded", "check", "gated", "line", "upsert"}
         /\ hand[h].op = "idle" <=> hand[h] = Idle
         /\ hand[h].op = "seeded" => hand[h].seed \in Row
         /\ hand[h].op = "check" => hand[h].request \in Checks /\ hand[h].state \in Row
         /\ hand[h].op = "line" => /\ hand[h].session \in Sessions /\ hand[h].request \in Answers
                                   /\ hand[h].index \in 0 .. Lines - 1
         /\ hand[h].op = "upsert" => hand[h].session \in Sessions /\ hand[h].state \in Row
<1>1. hand[h] \in HandlerState
  BY DEF TypeOK
<1> QED BY <1>1 DEF HandlerState, Idle

(* A handler that goes on to a state of its type keeps the type. *)
LEMMA GotoType ==
  ASSUME TypeOK, NEW h \in Handlers, NEW st \in HandlerState, Goto(h, st)
  PROVE  hand' \in [Handlers -> HandlerState] /\ hand'[h] = st
         /\ \A g \in Handlers \ {h} : hand'[g] = hand[g]
BY DEF Goto, TypeOK

(* So does one that stops. *)
LEMMA StopType ==
  ASSUME TypeOK, NEW h \in Handlers, Stop(h)
  PROVE  hand' \in [Handlers -> HandlerState] /\ hand'[h] = Idle
         /\ \A g \in Handlers \ {h} : hand'[g] = hand[g]
BY DEF Stop, TypeOK, HandlerState

(* The rows of sessions that are written have their type. *)
LEMMA SessionType ==
  ASSUME NEW x \in Session, NEW skill \in {"shadowing", "speaking"}
  PROVE  /\ NewSession(skill) \in Session /\ NoSession \in Session
         /\ [NoSession EXCEPT !.status = "gone"] \in Session
         /\ [x EXCEPT !.status = "completed"] \in Session
         /\ x.credits < 2 => [x EXCEPT !.credits = x.credits + 1] \in Session
<1>1. NewSession(skill) \in Session /\ NewSession("speaking") \in Session
  BY ConstantsAssumption DEF Session, NewSession
<1>2. \A y \in Session, st \in {"absent", "active", "completed", "gone"} : [y EXCEPT !.status = st] \in Session
  BY DEF Session
<1>3. NoSession \in Session
  BY <1>1, <1>2 DEF NoSession
<1>4. x.credits < 2 => [x EXCEPT !.credits = x.credits + 1] \in Session
  BY DEF Session
<1> QED BY <1>1, <1>2, <1>3, <1>4
-----------------------------------------------------------------------------
(* The steps *)

(* Every step is one of these. *)
LEMMA Steps_Cases ==
  ASSUME [Next]_vars
  PROVE  \/ \E h \in Handlers : ReadSeed(h) \/ Gate(h) \/ Reveal(h) \/ OpenShadowing(h)
         \/ \E h \in Handlers, done \in SUBSET Reading, undone \in SUBSET Reading : Report(h, done, undone)
         \/ \E h \in Handlers, c \in Checks : CheckBegin(h, c) \/ CheckReplay(h, c)
         \/ \E h \in Handlers : CheckCommit(h)
         \/ \E h \in Handlers, s \in Sessions, r \in Answers : LineBegin(h, s, r)
         \/ \E h \in Handlers : LineMissed(h) \/ LineSaid(h)
         \/ \E h \in Handlers, s \in Sessions : CompleteFindsNone(h, s)
         \/ \E h \in Handlers : CompleteUpsert(h)
         \/ \E h \in Handlers : Rollback(h) /\ hand[h] # Idle
         \/ OpenSpeaking
         \/ \E s \in Sessions : RoundWon(s) \/ CompleteUnready(s) \/ CompleteMerged(s)
         \/ ResetLibrary \/ ResetAll
         \/ UNCHANGED vars
<1>1. \A h \in Handlers : CheckFails(h) \/ LineFails(h) \/ Crash(h) => Rollback(h) /\ hand[h] # Idle
  BY DEF CheckFails, LineFails, Crash, Idle
<1>2. CASE \E h \in Handlers : Begin(h)
  BY <1>2 DEF Begin
<1>3. CASE \E h \in Handlers : Continue(h)
  BY <1>3 DEF Continue
<1>4. CASE AtOnce
  BY <1>4 DEF AtOnce
<1> QED BY <1>1, <1>2, <1>3, <1>4 DEF Next
-----------------------------------------------------------------------------
(* Type correctness *)

(* Initially every table and handler is empty. *)
LEMMA InitType == Init => TypeOK
<1> SUFFICES ASSUME Init PROVE TypeOK
  OBVIOUS
<1>1. NoSession \in Session /\ NoSession.status = "absent"
  <2>1. NewSession("speaking") \in Session
    BY ConstantsAssumption DEF NewSession, Session
  <2> QED BY <2>1 DEF NoSession, Session
<1>2. old \in {None} \cup SUBSET Steps
  BY ConstantsAssumption DEF Init
<1>3. Idle \in HandlerState
  BY DEF HandlerState
<1> QED BY <1>1, <1>2, <1>3 DEF Init, TypeOK

(* A settled row has its type, and the prompts have theirs. *)
LEMMA WriteType ==
  ASSUME TypeOK, NEW x \in Row, row' = Settled(x), Enrol(x)
  PROVE  row' \in Row /\ prompts' \in {"none", "scheduled", "cleared"}
BY SettledType DEF Enrol, TypeOK

(* A session is opened with its type, and with its lines before it. *)
LEMMA OpenType ==
  ASSUME TypeOK, NEW skill \in {"shadowing", "speaking"}, Open(skill)
  PROVE  /\ sess' \in [Sessions -> Session]
         /\ \A s \in Sessions : \/ sess'[s] = sess[s]
                                \/ sess[s].status = "absent" /\ sess'[s] = NewSession(skill)
<1>1. CASE sess' = sess
  BY <1>1 DEF TypeOK
<1>2. CASE \E s \in Sessions : sess[s].status = "absent" /\ sess' = [sess EXCEPT ![s] = NewSession(skill)]
  <2>1. PICK s \in Sessions : sess[s].status = "absent" /\ sess' = [sess EXCEPT ![s] = NewSession(skill)]
    BY <1>2
  <2>2. NewSession(skill) \in Session
    BY ConstantsAssumption DEF Session, NewSession
  <2> QED BY <2>1, <2>2 DEF TypeOK
<1> QED BY <1>1, <1>2 DEF Open

(* A line said moves its session, and completes it if it was the last. *)
LEMMA SaidType ==
  ASSUME TypeOK, NEW s \in Sessions, NEW i \in 1 .. Lines, sess' = SaidIn(s, i)
  PROVE  /\ sess' \in [Sessions -> Session]
         /\ sess'[s].index = i /\ sess'[s].skill = sess[s].skill /\ sess'[s].credits = sess[s].credits
         /\ sess'[s].status = IF i < Lines THEN sess[s].status ELSE "completed"
         /\ \A u \in Sessions \ {s} : sess'[u] = sess[u]
<1>1. /\ sess[s] \in Session /\ sess \in [Sessions -> Session]
      /\ i \in 0 .. Lines
  BY ConstantsAssumption DEF TypeOK
<1>2. sess' = [sess EXCEPT ![s] = [sess[s] EXCEPT !.index = i,
                                     !.status = IF i < Lines THEN sess[s].status ELSE "completed"]]
  BY <1>1 DEF SaidIn, Session
<1> DEFINE new == [sess[s] EXCEPT !.index = i,
                                  !.status = IF i < Lines THEN sess[s].status ELSE "completed"]
<1>3. /\ new \in Session /\ new.index = i /\ new.skill = sess[s].skill /\ new.credits = sess[s].credits
      /\ new.status = IF i < Lines THEN sess[s].status ELSE "completed"
  BY <1>1 DEF Session
<1>4. sess' = [sess EXCEPT ![s] = new]
  BY <1>2
<1> HIDE DEF new
<1> QED BY <1>1, <1>3, <1>4

(* One session's row is changed as a completion or a round changes it. *)
LEMMA CloseType ==
  ASSUME TypeOK, NEW s \in Sessions, Close(s)
  PROVE  /\ sess' \in [Sessions -> Session]
         /\ sess'[s].status = "completed" /\ sess'[s].index = sess[s].index
         /\ sess'[s].skill = sess[s].skill /\ sess'[s].credits = sess[s].credits
         /\ \A u \in Sessions \ {s} : sess'[u] = sess[u]
<1>1. sess[s] \in Session /\ sess \in [Sessions -> Session]
  BY DEF TypeOK
<1> DEFINE new == [sess[s] EXCEPT !.status = "completed"]
<1>2. /\ new \in Session /\ new.status = "completed" /\ new.index = sess[s].index
      /\ new.skill = sess[s].skill /\ new.credits = sess[s].credits
  BY <1>1 DEF Session
<1>3. sess' = [sess EXCEPT ![s] = new]
  BY <1>1 DEF Close, Session
<1> HIDE DEF new
<1> QED BY <1>1, <1>2, <1>3

(* A round won is one credit more. *)
LEMMA RoundType ==
  ASSUME TypeOK, NEW s \in Sessions, RoundWon(s)
  PROVE  /\ sess' \in [Sessions -> Session]
         /\ sess'[s].status = sess[s].status /\ sess'[s].index = sess[s].index
         /\ sess'[s].skill = sess[s].skill
         /\ \A u \in Sessions \ {s} : sess'[u] = sess[u]
<1>1. sess[s] \in Session /\ sess \in [Sessions -> Session] /\ sess[s].credits < 2
  BY DEF TypeOK, RoundWon
<1> DEFINE new == [sess[s] EXCEPT !.credits = sess[s].credits + 1]
<1>2. /\ new \in Session /\ new.status = sess[s].status /\ new.index = sess[s].index
      /\ new.skill = sess[s].skill
  BY <1>1 DEF Session
<1>3. sess' = [sess EXCEPT ![s] = new]
  BY <1>1 DEF RoundWon, Session
<1> HIDE DEF new
<1> QED BY <1>1, <1>2, <1>3

(* Nothing of a transaction that is rolled back remains. *)
LEMMA RollbackType ==
  ASSUME TypeOK, NEW h \in Handlers, Rollback(h)
  PROVE  /\ TypeOK' /\ hand'[h] = Idle /\ \A g \in Handlers \ {h} : hand'[g] = hand[g]
         /\ rowLock' # rowLock => rowLock = h
         /\ \A s \in Sessions : lock'[s] # lock[s] => lock[s] = h
<1>1. hand' \in [Handlers -> HandlerState] /\ hand'[h] = Idle /\ \A g \in Handlers \ {h} : hand'[g] = hand[g]
  BY StopType DEF Rollback
<1> QED BY <1>1 DEF Rollback, TypeOK

(* Every step keeps the types. *)
LEMMA NextType == TypeOK /\ [Next]_vars => TypeOK'
<1> SUFFICES ASSUME TypeOK, [Next]_vars PROVE TypeOK'
  OBVIOUS
<1> USE DEF progress, practice
<1>1. ASSUME NEW h \in Handlers, ReadSeed(h) \/ Gate(h) \/ Reveal(h) \/ OpenShadowing(h)
      PROVE  TypeOK'
  <2>1. CASE ReadSeed(h)
    <3>1. [op |-> "seeded", seed |-> Seed] \in HandlerState
      BY SeedType DEF HandlerState
    <3>2. hand' \in [Handlers -> HandlerState]
      BY <2>1, <3>1, GotoType DEF ReadSeed
    <3> QED BY <2>1, <3>2 DEF ReadSeed, TypeOK
  <2>2. CASE Gate(h)
    <3>1. [op |-> "gated"] \in HandlerState
      BY DEF HandlerState
    <3>2. hand' \in [Handlers -> HandlerState]
      BY <2>2, <3>1, GotoType DEF Gate
    <3> QED BY <2>2, <3>2 DEF Gate, TypeOK
  <2>3. CASE Reveal(h)
    <3>1. hand' \in [Handlers -> HandlerState]
      BY <2>3, StopType DEF Reveal
    <3>2. RowOr(hand[h].seed) \in Row
      BY <2>3, HandlerFields, RowOrType DEF Reveal
    <3>3. row' \in Row
      BY <2>3, <3>2 DEF Reveal, Row
    <3> QED BY <2>3, <3>1, <3>3 DEF Reveal, TypeOK
  <2>4. CASE OpenShadowing(h)
    <3>1. hand' \in [Handlers -> HandlerState]
      BY <2>4, StopType DEF OpenShadowing
    <3>2. /\ sess' \in [Sessions -> Session]
          /\ \A s \in Sessions : \/ sess'[s] = sess[s]
                                 \/ sess'[s] = NewSession("shadowing")
      BY <2>4, OpenType DEF OpenShadowing
    <3>3. NewSession("shadowing").index < Lines
      BY ConstantsAssumption DEF NewSession
    <3> QED BY <2>4, <3>1, <3>2, <3>3 DEF OpenShadowing, TypeOK
  <2> QED BY <1>1, <2>1, <2>2, <2>3, <2>4
<1>2. ASSUME NEW h \in Handlers, NEW done \in SUBSET Reading, NEW undone \in SUBSET Reading,
             Report(h, done, undone)
      PROVE  TypeOK'
  <2> DEFINE x == [RowOr(hand[h].seed) EXCEPT !.steps = (@ \cup done) \ undone]
  <2>1. hand' \in [Handlers -> HandlerState]
    BY <1>2, StopType DEF Report
  <2>2. RowOr(hand[h].seed) \in Row
    BY <1>2, HandlerFields, RowOrType DEF Report
  <2>3. x \in Row
    BY <2>2 DEF Row, Steps
  <2>4. row' = Settled(x) /\ Enrol(x)
    BY <1>2 DEF Report
  <2> HIDE DEF x
  <2>5. row' \in Row /\ prompts' \in {"none", "scheduled", "cleared"}
    BY <2>3, <2>4, WriteType
  <2> QED BY <1>2, <2>1, <2>5 DEF Report, TypeOK
<1>3. ASSUME NEW h \in Handlers, NEW c \in Checks, CheckBegin(h, c) \/ CheckReplay(h, c)
      PROVE  TypeOK'
  <2>1. CASE CheckBegin(h, c)
    <3>1. RowOr(hand[h].seed) \in Row
      BY <2>1, HandlerFields, RowOrType DEF CheckBegin
    <3>2. [op |-> "check", request |-> c, state |-> RowOr(hand[h].seed)] \in HandlerState
      BY <3>1 DEF HandlerState
    <3>3. hand' \in [Handlers -> HandlerState]
      BY <2>1, <3>2, GotoType DEF CheckBegin
    <3> QED BY <2>1, <3>3 DEF CheckBegin, TypeOK
  <2>2. CASE CheckReplay(h, c)
    <3>1. hand' \in [Handlers -> HandlerState]
      BY <2>2, StopType DEF CheckReplay
    <3> QED BY <2>2, <3>1 DEF CheckReplay, TypeOK
  <2> QED BY <1>3, <2>1, <2>2
<1>4. ASSUME NEW h \in Handlers, CheckCommit(h) PROVE TypeOK'
  <2>1. PICK asked \in SUBSET (Quiz \cup Listening) \ {{}} : \E right \in Marks(asked) :
          LET x == Marked(hand[h].state, asked, right)
              wrong == (asked \ right) \cap Quiz
          IN /\ row' = Settled(x) /\ Enrol(x)
             /\ events' = [events EXCEPT ![hand[h].request] = wrong]
             /\ failures' = [q \in Quiz |-> failures[q] + (IF q \in wrong THEN 1 ELSE 0)]
    BY <1>4 DEF CheckCommit
  <2>2. PICK right \in SUBSET asked :
          LET x == Marked(hand[h].state, asked, right)
              wrong == (asked \ right) \cap Quiz
          IN /\ row' = Settled(x) /\ Enrol(x)
             /\ events' = [events EXCEPT ![hand[h].request] = wrong]
             /\ failures' = [q \in Quiz |-> failures[q] + (IF q \in wrong THEN 1 ELSE 0)]
    BY <2>1 DEF Marks
  <2>3. hand[h].op = "check" /\ hand[h].state \in Row
    BY <1>4, HandlerFields DEF CheckCommit
  <2>4. Marked(hand[h].state, asked, right) \in Row
    BY <2>3, MarkedType
  <2>5. row' \in Row /\ prompts' \in {"none", "scheduled", "cleared"}
    BY <2>2, <2>4, WriteType
  <2>6. hand' \in [Handlers -> HandlerState]
    BY <1>4, StopType DEF CheckCommit
  <2>7. events' \in [Checks -> {None} \cup SUBSET Quiz] /\ failures' \in [Quiz -> Nat]
    <3> DEFINE wrong == (asked \ right) \cap Quiz
    <3>1. /\ events' = [events EXCEPT ![hand[h].request] = wrong]
          /\ failures' = [q \in Quiz |-> failures[q] + (IF q \in wrong THEN 1 ELSE 0)]
      BY <2>2
    <3>2. wrong \in SUBSET Quiz
      OBVIOUS
    <3> HIDE DEF wrong
    <3>3. events' \in [Checks -> {None} \cup SUBSET Quiz]
      BY <3>1, <3>2 DEF TypeOK
    <3>4. \A q \in Quiz : failures[q] + (IF q \in wrong THEN 1 ELSE 0) \in Nat
      BY DEF TypeOK
    <3> QED BY <3>1, <3>3, <3>4
  <2>8. rowLock' = None /\ UNCHANGED <<old, sess, lock, answers>>
    BY <1>4 DEF CheckCommit
  <2> QED BY <2>5, <2>6, <2>7, <2>8 DEF TypeOK
<1>5. ASSUME NEW h \in Handlers, NEW s \in Sessions, NEW r \in Answers, LineBegin(h, s, r) PROVE TypeOK'
  <2>1. sess[s].index \in 0 .. Lines - 1
    BY <1>5, ConstantsAssumption DEF LineBegin, Saying, TypeOK, Session
  <2>2. [op |-> "line", session |-> s, request |-> r, index |-> sess[s].index] \in HandlerState
    BY <2>1 DEF HandlerState
  <2>3. hand' \in [Handlers -> HandlerState]
    BY <1>5, <2>2, GotoType DEF LineBegin
  <2> QED BY <1>5, <2>3 DEF LineBegin, TypeOK
<1>6. ASSUME NEW h \in Handlers, LineMissed(h) \/ LineSaid(h) PROVE TypeOK'
  <2>1. /\ hand[h].session \in Sessions /\ hand[h].request \in Answers
        /\ hand[h].index \in 0 .. Lines - 1
    BY <1>6, HandlerFields DEF LineMissed, LineSaid, Answered
  <2>2. hand' \in [Handlers -> HandlerState]
    BY <1>6, StopType DEF LineMissed, LineSaid, Answered
  <2>3. /\ answers' \in [Answers -> {None} \cup [session : Sessions, passed : BOOLEAN]]
        /\ lock' \in [Sessions -> Handlers \cup {None}]
        /\ rowLock' = rowLock /\ old' = old /\ events' = events /\ failures' = failures
    <3>1. PICK b \in BOOLEAN : Answered(h, b)
      BY <1>6 DEF LineMissed, LineSaid
    <3>2. [session |-> hand[h].session, passed |-> b] \in [session : Sessions, passed : BOOLEAN]
      BY <2>1
    <3>3. answers' \in [Answers -> {None} \cup [session : Sessions, passed : BOOLEAN]]
      BY <2>1, <3>1, <3>2 DEF Answered, TypeOK
    <3> QED BY <2>1, <3>1, <3>3 DEF Answered, TypeOK
  <2>4. CASE LineMissed(h)
    BY <2>2, <2>3, <2>4 DEF LineMissed, TypeOK
  <2>5. CASE LineSaid(h)
    <3> DEFINE i == hand[h].index + 1  done == Plus(RowOr(Seed), "shadowing")
    <3>1. sess' = SaidIn(hand[h].session, i) /\ i \in 1 .. Lines
      BY <2>1, <2>5, ConstantsAssumption DEF LineSaid
    <3>2. RowOr(Seed) \in Row /\ "shadowing" \in Steps
      BY SeedType, RowOrType DEF Steps, Assessed
    <3>3. done \in Row /\ Minus(RowOr(Seed), "shadowing") \in Row
      BY <3>2, StepType
    <3>4. \/ i < Lines /\ row' = Minus(RowOr(Seed), "shadowing") /\ prompts' = prompts
          \/ i = Lines /\ row' = Settled(done) /\ Enrol(done)
      BY <2>5, <3>1, ConstantsAssumption DEF LineSaid
    <3> HIDE DEF i, done
    <3>5. row' \in Row /\ prompts' \in {"none", "scheduled", "cleared"}
      BY <3>3, <3>4, WriteType DEF TypeOK
    <3>6. /\ sess' \in [Sessions -> Session]
          /\ \A s \in Sessions : sess'[s].status = "active" => sess'[s].index < Lines
      BY <2>1, <3>1, SaidType, ConstantsAssumption DEF TypeOK
    <3> QED BY <2>2, <2>3, <3>5, <3>6 DEF TypeOK
  <2> QED BY <1>6, <2>4, <2>5
<1>7. ASSUME NEW h \in Handlers, NEW s \in Sessions, CompleteFindsNone(h, s) PROVE TypeOK'
  <2>1. Plus(Seed, "speaking") \in Row
    BY SeedType, StepType DEF Steps, Assessed
  <2>2. [op |-> "upsert", session |-> s, state |-> Plus(Seed, "speaking")] \in HandlerState
    BY <2>1 DEF HandlerState
  <2>3. hand' \in [Handlers -> HandlerState]
    BY <1>7, <2>2, GotoType DEF CompleteFindsNone
  <2> QED BY <1>7, <2>3 DEF CompleteFindsNone, TypeOK
<1>8. ASSUME NEW h \in Handlers, CompleteUpsert(h) PROVE TypeOK'
  <2>1. hand[h].session \in Sessions /\ hand[h].state \in Row
    BY <1>8, HandlerFields DEF CompleteUpsert
  <2>2. row' \in Row /\ prompts' \in {"none", "scheduled", "cleared"}
    BY <1>8, <2>1, WriteType DEF CompleteUpsert
  <2>3. hand' \in [Handlers -> HandlerState]
    BY <1>8, StopType DEF CompleteUpsert
  <2>4. /\ sess' \in [Sessions -> Session]
        /\ \A s \in Sessions : sess'[s].status = "active" => sess'[s] = sess[s]
    BY <1>8, <2>1, CloseType DEF CompleteUpsert
  <2> QED BY <1>8, <2>1, <2>2, <2>3, <2>4 DEF CompleteUpsert, TypeOK
<1>9. ASSUME NEW h \in Handlers, Rollback(h) PROVE TypeOK'
  BY <1>9, RollbackType
<1>10. CASE OpenSpeaking
  <2>1. /\ sess' \in [Sessions -> Session]
        /\ \A s \in Sessions : \/ sess'[s] = sess[s]
                               \/ sess'[s] = NewSession("speaking")
    BY <1>10, OpenType DEF OpenSpeaking
  <2>2. NewSession("speaking").index < Lines
    BY ConstantsAssumption DEF NewSession
  <2> QED BY <1>10, <2>1, <2>2 DEF OpenSpeaking, TypeOK
<1>11. ASSUME NEW s \in Sessions, RoundWon(s) \/ CompleteUnready(s) \/ CompleteMerged(s) PROVE TypeOK'
  <2>1. CASE RoundWon(s)
    BY <2>1, RoundType DEF RoundWon, TypeOK
  <2>2. CASE CompleteUnready(s)
    BY <2>2, CloseType DEF CompleteUnready, TypeOK
  <2>3. CASE CompleteMerged(s)
    <3>1. Plus(row, "speaking") \in Row
      BY <2>3, StepType DEF CompleteMerged, TypeOK, Steps, Assessed
    <3>2. row' \in Row /\ prompts' \in {"none", "scheduled", "cleared"}
      BY <2>3, <3>1, WriteType DEF CompleteMerged
    <3>3. /\ sess' \in [Sessions -> Session]
          /\ \A u \in Sessions : sess'[u].status = "active" => sess'[u] = sess[u]
      BY <2>3, CloseType DEF CompleteMerged
    <3> QED BY <2>3, <3>2, <3>3 DEF CompleteMerged, TypeOK
  <2> QED BY <1>11, <2>1, <2>2, <2>3
<1>12. CASE ResetLibrary
  BY <1>12 DEF ResetLibrary, TypeOK
<1>13. CASE ResetAll
  <2>1. NoSession \in Session /\ [NoSession EXCEPT !.status = "gone"] \in Session
        /\ [NoSession EXCEPT !.status = "gone"].status = "gone"
    <3>1. NewSession("speaking") \in Session
      BY ConstantsAssumption DEF Session, NewSession
    <3> QED BY <3>1 DEF NoSession, Session
  <2>2. /\ sess' \in [Sessions -> Session]
        /\ \A s \in Sessions : sess'[s].status \in {"absent", "gone"}
    BY <1>13, <2>1 DEF ResetAll, TypeOK
  <2> QED BY <1>13, <2>2 DEF ResetAll, TypeOK
<1>14. CASE UNCHANGED vars
  BY <1>14 DEF vars, TypeOK
<1> QED BY <1>1, <1>2, <1>3, <1>4, <1>5, <1>6, <1>7, <1>8, <1>9, <1>10, <1>11, <1>12, <1>13, <1>14, Steps_Cases

(* Rows and handlers always have their types, and a practice whose lines   *)
(* are all said is over.                                                   *)
THEOREM TypeCorrect == Spec => []TypeOK
<1> QED BY InitType, NextType, PTL DEF Spec
-----------------------------------------------------------------------------
(* The inductive invariant *)

(* The evidence for the assessed steps a row did not begin with. *)
Evidence(x, sessions) ==
  LET earned == x.steps \ x.given IN
    /\ "quiz" \in earned => x.right = Quiz
    /\ "shadowing" \in earned =>
         \E s \in Sessions : sessions[s].status = "completed" /\ sessions[s].index = Lines
    /\ "speaking" \in earned =>
         \E s \in Sessions : /\ sessions[s].status = "completed"
                             /\ sessions[s].skill = "speaking" /\ sessions[s].credits >= 2

(* A unit that this version finished from nothing is marked as enrolled,   *)
(* and what is enrolled has its prompts.                                   *)
InReview ==
  row # None /\ row.given = {} =>
    /\ Finished(row) => row.enrolled
    /\ row.enrolled => prompts # "none"

(* What a handler relies on while it waits: a check holds the row it       *)
(* marks, a line and a completion hold the session they change, and what   *)
(* was read as a first row is one.                                         *)
Holding(h) ==
  LET work == hand[h] IN
  /\ work.op = "seeded" => Fresh(work.seed)
  /\ work.op = "check" =>
       /\ rowLock = h
       /\ IF row = None THEN Fresh(work.state) ELSE work.state = row
  /\ work.op = "line" =>
       /\ lock[work.session] = h /\ sess[work.session].status = "active"
       /\ sess[work.session].skill = "shadowing" /\ sess[work.session].index = work.index
  /\ work.op = "upsert" =>
       /\ lock[work.session] = h /\ sess[work.session].status = "active"
       /\ Ready(work.session)
       /\ work.state.steps \subseteq work.state.given \cup {"speaking"}
       /\ ~work.state.enrolled

(* An id that is not used yet stands for a session without lines or rounds. *)
Unused == \A s \in Sessions : sess[s].status = "absent" => sess[s] = NoSession

IInv ==
  /\ TypeOK
  /\ row # None => Evidence(row, sess)
  /\ FailuresHaveChecks /\ LinesHavePasses
  /\ InReview
  /\ \A h \in Handlers : Holding(h)
  /\ Unused

(* It says what the run checks. *)
LEMMA IInvImplies == IInv => ProgressIsEarned /\ FinishedIsInReview
BY DEF IInv, ProgressIsEarned, StepsHaveEvidence, Evidence, Ready, FinishedIsInReview, InReview
-----------------------------------------------------------------------------
(* Who may change what *)

(* A handler changes its own work only: it stops, or goes on. *)
LEMMA Movers ==
  ASSUME TypeOK, [Next]_vars, NEW g \in Handlers
  PROVE  \/ hand'[g] = hand[g]
         \/ hand'[g] = Idle
         \/ ReadSeed(g) \/ Gate(g)
         \/ \E c \in Checks : CheckBegin(g, c)
         \/ \E s \in Sessions, r \in Answers : LineBegin(g, s, r)
         \/ \E s \in Sessions : CompleteFindsNone(g, s)
<1>1. ASSUME NEW h \in Handlers, Stop(h) PROVE hand'[g] = hand[g] \/ hand'[g] = Idle
  BY <1>1, StopType
<1>2. ASSUME NEW h \in Handlers, h # g, NEW st, Goto(h, st) PROVE hand'[g] = hand[g]
  BY <1>2 DEF Goto, TypeOK
<1>3. ASSUME NEW h \in Handlers, ReadSeed(h) \/ Gate(h) \/ Reveal(h) \/ OpenShadowing(h)
      PROVE  hand'[g] = hand[g] \/ hand'[g] = Idle \/ ReadSeed(g) \/ Gate(g)
  BY <1>1, <1>2, <1>3 DEF ReadSeed, Gate, Reveal, OpenShadowing
<1>4. ASSUME NEW h \in Handlers, NEW c \in Checks, CheckBegin(h, c) \/ CheckReplay(h, c)
      PROVE  hand'[g] = hand[g] \/ hand'[g] = Idle \/ CheckBegin(g, c)
  BY <1>1, <1>2, <1>4 DEF CheckBegin, CheckReplay
<1>5. ASSUME NEW h \in Handlers, NEW s \in Sessions, NEW r \in Answers, LineBegin(h, s, r)
      PROVE  hand'[g] = hand[g] \/ LineBegin(g, s, r)
  BY <1>2, <1>5 DEF LineBegin
<1>6. ASSUME NEW h \in Handlers, NEW s \in Sessions, CompleteFindsNone(h, s)
      PROVE  hand'[g] = hand[g] \/ CompleteFindsNone(g, s)
  BY <1>2, <1>6 DEF CompleteFindsNone
<1>7. ASSUME NEW h \in Handlers, NEW done \in SUBSET Reading, NEW undone \in SUBSET Reading,
             Report(h, done, undone)
      PROVE  hand'[g] = hand[g] \/ hand'[g] = Idle
  BY <1>1, <1>7 DEF Report
<1>8. ASSUME NEW h \in Handlers,
             CheckCommit(h) \/ LineMissed(h) \/ LineSaid(h) \/ CompleteUpsert(h) \/ Rollback(h)
      PROVE  hand'[g] = hand[g] \/ hand'[g] = Idle
  BY <1>1, <1>8 DEF CheckCommit, LineMissed, LineSaid, Answered, CompleteUpsert, Rollback
<1>9. ASSUME OpenSpeaking \/ ResetLibrary \/ ResetAll \/ UNCHANGED vars \/
             \E s \in Sessions : RoundWon(s) \/ CompleteUnready(s) \/ CompleteMerged(s)
      PROVE  hand'[g] = hand[g]
  BY <1>9 DEF OpenSpeaking, ResetLibrary, ResetAll, RoundWon, CompleteUnready, CompleteMerged,
              vars, practice
<1> QED BY <1>3, <1>4, <1>5, <1>6, <1>7, <1>8, <1>9, Steps_Cases

(* While a handler waits, nobody else writes the row or the session it     *)
(* holds.                                                                  *)
LEMMA HeldStays ==
  ASSUME IInv, [Next]_vars, NEW g \in Handlers, hand'[g] = hand[g]
  PROVE  /\ hand[g].op = "check" => rowLock' = g /\ row' = row
         /\ hand[g].op \in {"line", "upsert"} =>
              /\ lock'[hand[g].session] = g
              /\ sess'[hand[g].session] = sess[hand[g].session]
<1> DEFINE RowStays == hand[g].op = "check" => rowLock' = g /\ row' = row
           SessionStays == hand[g].op \in {"line", "upsert"} =>
                             /\ lock'[hand[g].session] = g
                             /\ sess'[hand[g].session] = sess[hand[g].session]
<1> USE DEF progress, practice
<1>1. /\ hand[g].op = "check" => rowLock = g /\ g # None
      /\ hand[g].op \in {"line", "upsert"} =>
           /\ hand[g].session \in Sessions
           /\ lock[hand[g].session] = g /\ g # None
           /\ sess[hand[g].session].status = "active"
  BY HandlerFields, ConstantsAssumption DEF IInv, Holding
<1>2. ASSUME UNCHANGED <<row, rowLock>> PROVE RowStays
  BY <1>1, <1>2
<1>3. ASSUME RowFree PROVE RowStays
  BY <1>1, <1>3 DEF RowFree
<1>4. ASSUME UNCHANGED <<sess, lock>> PROVE SessionStays
  BY <1>1, <1>4
<1>5. ASSUME NEW s \in Sessions, Free(s) \/ lock[s] # g, lock' = lock,
             \A u \in Sessions \ {s} : sess'[u] = sess[u]
      PROVE  SessionStays
  BY <1>1, <1>5 DEF Free
<1>6. ASSUME NEW h \in Handlers, Stop(h), hand[h].op # "idle" PROVE h # g
  BY <1>6, StopType DEF IInv, Idle
<1>7. TypeOK
  BY DEF IInv
<1> HIDE DEF RowStays, SessionStays
<1>8. ASSUME NEW h \in Handlers, ReadSeed(h) \/ Gate(h) \/ Reveal(h) \/ OpenShadowing(h)
      PROVE  RowStays /\ SessionStays
  <2>1. CASE ReadSeed(h) \/ Gate(h)
    BY <2>1, <1>2, <1>4 DEF ReadSeed, Gate
  <2>2. CASE Reveal(h)
    BY <2>2, <1>3, <1>4 DEF Reveal
  <2>3. CASE OpenShadowing(h)
    <3>1. \A s \in Sessions : sess'[s] = sess[s] \/ sess[s].status = "absent"
      BY <2>3, <1>7, OpenType DEF OpenShadowing
    <3>2. SessionStays
      BY <3>1, <2>3, <1>1 DEF OpenShadowing, SessionStays
    <3> QED BY <2>3, <3>2, <1>2 DEF OpenShadowing
  <2> QED BY <1>8, <2>1, <2>2, <2>3
<1>9. ASSUME NEW h \in Handlers, NEW done \in SUBSET Reading, NEW undone \in SUBSET Reading,
             Report(h, done, undone)
      PROVE  RowStays /\ SessionStays
  BY <1>9, <1>3, <1>4 DEF Report
<1>10. ASSUME NEW h \in Handlers, NEW c \in Checks, CheckBegin(h, c) \/ CheckReplay(h, c)
       PROVE  RowStays /\ SessionStays
  BY <1>10, <1>3, <1>4 DEF CheckBegin, CheckReplay
<1>11. ASSUME NEW h \in Handlers, CheckCommit(h) PROVE RowStays /\ SessionStays
  <2>1. rowLock = h /\ h # g
    <3>1. rowLock = h
      BY <1>11 DEF CheckCommit, IInv, Holding
    <3> QED BY <3>1, <1>11, <1>6 DEF CheckCommit
  <2>2. RowStays
    BY <2>1, <1>1 DEF RowStays
  <2> QED BY <1>11, <2>2, <1>4 DEF CheckCommit
<1>12. ASSUME NEW h \in Handlers, NEW s \in Sessions, NEW r \in Answers, LineBegin(h, s, r)
       PROVE  RowStays /\ SessionStays
  <2>1. Free(s) /\ lock' = [lock EXCEPT ![s] = h] /\ sess' = sess
    BY <1>12 DEF LineBegin
  <2>2. SessionStays
    BY <2>1, <1>1, <1>7 DEF Free, TypeOK, SessionStays
  <2> QED BY <2>2, <1>12, <1>2 DEF LineBegin
<1>13. ASSUME NEW h \in Handlers, NEW s \in Sessions, CompleteFindsNone(h, s)
       PROVE  RowStays /\ SessionStays
  <2>1. Free(s) /\ lock' = [lock EXCEPT ![s] = h] /\ sess' = sess
    BY <1>13 DEF CompleteFindsNone
  <2>2. SessionStays
    BY <2>1, <1>1, <1>7 DEF Free, TypeOK, SessionStays
  <2> QED BY <2>2, <1>13, <1>2 DEF CompleteFindsNone
<1>14. ASSUME NEW h \in Handlers, h # g, NEW s \in Sessions, lock[s] = h,
              lock' = [lock EXCEPT ![s] = None], \A u \in Sessions \ {s} : sess'[u] = sess[u]
       PROVE  SessionStays
  BY <1>14, <1>1, <1>7 DEF TypeOK, SessionStays
<1>15. ASSUME NEW h \in Handlers, LineMissed(h) \/ LineSaid(h) PROVE RowStays /\ SessionStays
  <2>1. /\ hand[h].op = "line" /\ Stop(h)
        /\ lock' = [lock EXCEPT ![hand[h].session] = None] /\ rowLock' = rowLock
    BY <1>15 DEF LineMissed, LineSaid, Answered
  <2>2. h # g
    BY <2>1, <1>6
  <2>3. /\ hand[h].session \in Sessions /\ hand[h].index \in 0 .. Lines - 1
        /\ lock[hand[h].session] = h
    BY <2>1, <1>7, HandlerFields DEF IInv, Holding
  <2>4. CASE LineMissed(h)
    <3>1. sess' = sess /\ row' = row
      BY <2>4 DEF LineMissed
    <3> QED BY <2>1, <2>2, <2>3, <3>1, <1>2, <1>14
  <2>5. CASE LineSaid(h)
    <3>1. sess' = SaidIn(hand[h].session, hand[h].index + 1) /\ RowFree
      BY <2>5 DEF LineSaid
    <3>2. hand[h].index + 1 \in 1 .. Lines
      BY <2>3, ConstantsAssumption
    <3>3. \A u \in Sessions \ {hand[h].session} : sess'[u] = sess[u]
      BY <3>1, <3>2, <2>3, <1>7, SaidType
    <3> QED BY <2>1, <2>2, <2>3, <3>1, <3>3, <1>3, <1>14
  <2> QED BY <1>15, <2>4, <2>5
<1>16. ASSUME NEW h \in Handlers, CompleteUpsert(h) PROVE RowStays /\ SessionStays
  <2>1. /\ hand[h].op = "upsert" /\ Stop(h) /\ RowFree /\ Close(hand[h].session)
        /\ lock' = [lock EXCEPT ![hand[h].session] = None]
    BY <1>16 DEF CompleteUpsert
  <2>2. h # g
    BY <2>1, <1>6
  <2>3. hand[h].session \in Sessions /\ lock[hand[h].session] = h
    BY <2>1, <1>7, HandlerFields DEF IInv, Holding
  <2>4. \A u \in Sessions \ {hand[h].session} : sess'[u] = sess[u]
    BY <2>1, <2>3, <1>7, CloseType
  <2> QED BY <2>1, <2>2, <2>3, <2>4, <1>3, <1>14
<1>17. ASSUME NEW h \in Handlers, Rollback(h), hand[h] # Idle PROVE RowStays /\ SessionStays
  <2>1. h # g
    BY <1>17, <1>7, RollbackType
  <2>2. /\ rowLock' # rowLock => rowLock = h
        /\ \A s \in Sessions : lock'[s] # lock[s] => lock[s] = h
        /\ UNCHANGED <<row, sess>>
    BY <1>17, <1>7, RollbackType DEF Rollback
  <2> QED BY <2>1, <2>2, <1>1 DEF RowStays, SessionStays
<1>18. ASSUME OpenSpeaking PROVE RowStays /\ SessionStays
  <2>1. \A s \in Sessions : sess'[s] = sess[s] \/ sess[s].status = "absent"
    BY <1>18, <1>7, OpenType DEF OpenSpeaking
  <2>2. SessionStays
    BY <2>1, <1>18, <1>1 DEF OpenSpeaking, SessionStays
  <2> QED BY <1>18, <2>2, <1>2 DEF OpenSpeaking
<1>19. ASSUME NEW s \in Sessions, RoundWon(s) \/ CompleteUnready(s) \/ CompleteMerged(s)
       PROVE  RowStays /\ SessionStays
  <2>1. /\ Free(s) /\ lock' = lock /\ \A u \in Sessions \ {s} : sess'[u] = sess[u]
    BY <1>19, <1>7, RoundType, CloseType DEF RoundWon, CompleteUnready, CompleteMerged
  <2>2. RowStays
    BY <1>19, <1>2, <1>3 DEF RoundWon, CompleteUnready, CompleteMerged
  <2> QED BY <2>1, <2>2, <1>5
<1>20. ASSUME ResetLibrary \/ UNCHANGED vars PROVE RowStays /\ SessionStays
  BY <1>20, <1>2, <1>4 DEF ResetLibrary, vars
<1>21. ASSUME ResetAll PROVE RowStays /\ SessionStays
  <2>1. SessionStays
    BY <1>21, <1>1 DEF ResetAll, Free, SessionStays
  <2> QED BY <1>21, <2>1, <1>3 DEF ResetAll
<1>22. RowStays /\ SessionStays
  BY <1>8, <1>9, <1>10, <1>11, <1>12, <1>13, <1>15, <1>16, <1>17, <1>18, <1>19, <1>20, <1>21,
     Steps_Cases
<1> QED BY <1>22 DEF RowStays, SessionStays

(* So what a handler relies on stays true until it goes on. *)
LEMMA HoldingKeeps ==
  ASSUME IInv, [Next]_vars, NEW g \in Handlers
  PROVE  Holding(g)'
<1> USE DEF IInv
<1>1. CASE hand'[g] = hand[g]
  <2>1. /\ hand[g].op = "check" => rowLock' = g /\ row' = row
        /\ hand[g].op \in {"line", "upsert"} =>
             /\ lock'[hand[g].session] = g
             /\ sess'[hand[g].session] = sess[hand[g].session]
    BY <1>1, HeldStays
  <2> QED BY <1>1, <2>1 DEF Holding, Fresh, Ready
<1>2. CASE hand'[g] = Idle
  BY <1>2 DEF Holding, Idle
<1>3. CASE ReadSeed(g)
  <2>1. hand'[g] = [op |-> "seeded", seed |-> Seed] /\ Fresh(Seed)
    BY <1>3, SeedType DEF ReadSeed, Goto, TypeOK
  <2> QED BY <2>1 DEF Holding, Fresh
<1>4. CASE Gate(g)
  <2>1. hand'[g] = [op |-> "gated"]
    BY <1>4 DEF Gate, Goto, TypeOK
  <2> QED BY <2>1 DEF Holding
<1>5. ASSUME NEW c \in Checks, CheckBegin(g, c) PROVE Holding(g)'
  <2>1. /\ hand'[g] = [op |-> "check", request |-> c, state |-> RowOr(hand[g].seed)]
        /\ rowLock' = g /\ row' = row
    BY <1>5 DEF CheckBegin, Goto, TypeOK
  <2>2. Fresh(hand[g].seed)
    BY <1>5 DEF CheckBegin, Holding
  <2> DEFINE y == RowOr(hand[g].seed)
  <2>3. IF row = None THEN Fresh(y) ELSE y = row
    <3>1. hand[g].seed \in Row
      BY <1>5, HandlerFields DEF CheckBegin
    <3>2. (row # None => y = row) /\ (row = None => y = hand[g].seed)
      BY <3>1, RowOrType
    <3> HIDE DEF y
    <3> QED BY <2>2, <3>2 DEF Fresh
  <2>4. hand'[g].op = "check" /\ hand'[g].state = y
    BY <2>1
  <2> HIDE DEF y
  <2> QED BY <2>1, <2>3, <2>4 DEF Holding, Fresh
<1>6. ASSUME NEW s \in Sessions, NEW r \in Answers, LineBegin(g, s, r) PROVE Holding(g)'
  <2>1. /\ hand'[g] = [op |-> "line", session |-> s, request |-> r, index |-> sess[s].index]
        /\ lock'[s] = g /\ sess' = sess
        /\ sess[s].status = "active" /\ sess[s].skill = "shadowing"
    BY <1>6 DEF LineBegin, Goto, TypeOK, Saying, practice
  <2> QED BY <2>1 DEF Holding
<1>7. ASSUME NEW s \in Sessions, CompleteFindsNone(g, s) PROVE Holding(g)'
  <2>1. /\ hand'[g] = [op |-> "upsert", session |-> s, state |-> Plus(Seed, "speaking")]
        /\ lock'[s] = g /\ sess' = sess
        /\ sess[s].status = "active" /\ Ready(s)
    BY <1>7 DEF CompleteFindsNone, Goto, TypeOK, practice
  <2>2. Seed \in Row /\ Fresh(Seed) /\ "speaking" \in Steps
    BY SeedType DEF Steps, Assessed
  <2>3. Plus(Seed, "speaking") = [Seed EXCEPT !.steps = Seed.steps \cup {"speaking"}]
    BY <2>2, StepType
  <2> DEFINE y == Plus(Seed, "speaking")
  <2>4. y.steps \subseteq y.given \cup {"speaking"} /\ ~y.enrolled
    BY <2>2, <2>3 DEF Fresh, Row
  <2>5. hand'[g].op = "upsert" /\ hand'[g].session = s /\ hand'[g].state = y
    BY <2>1
  <2> HIDE DEF y
  <2> QED BY <2>1, <2>4, <2>5 DEF Holding, Ready
<1> QED BY <1>1, <1>2, <1>3, <1>4, <1>5, <1>6, <1>7, Movers
-----------------------------------------------------------------------------
(* Sessions *)

(* How the row of a practice session moves. *)
LEMMA SessionMoves ==
  ASSUME IInv, [Next]_vars, NEW s \in Sessions
  PROVE  \/ ResetAll
         \/ sess'[s] = sess[s]
         \/ /\ sess[s].status = "absent"
            /\ \E skill \in {"shadowing", "speaking"} : sess'[s] = NewSession(skill)
         \/ /\ sess[s].status = "active"
            /\ sess'[s].index = sess[s].index /\ sess'[s].status \in {"active", "completed"}
         \/ \E h \in Handlers : LineSaid(h) /\ hand[h].session = s
<1> USE DEF progress, practice
<1>1. TypeOK
  BY DEF IInv
<1>2. ASSUME NEW h \in Handlers, OpenShadowing(h)
      PROVE  sess'[s] = sess[s] \/ (sess[s].status = "absent" /\ sess'[s] = NewSession("shadowing"))
  BY <1>1, <1>2, OpenType DEF OpenShadowing
<1>3. ASSUME OpenSpeaking
      PROVE  sess'[s] = sess[s] \/ (sess[s].status = "absent" /\ sess'[s] = NewSession("speaking"))
  BY <1>1, <1>3, OpenType DEF OpenSpeaking
<1>4. ASSUME NEW h \in Handlers, CompleteUpsert(h)
      PROVE  \/ sess'[s] = sess[s]
             \/ /\ sess[s].status = "active"
                /\ sess'[s].index = sess[s].index /\ sess'[s].status = "completed"
  <2>1. hand[h].session \in Sessions /\ Close(hand[h].session) /\ sess[hand[h].session].status = "active"
    BY <1>1, <1>4, HandlerFields DEF CompleteUpsert, IInv, Holding
  <2> QED BY <1>1, <2>1, CloseType
<1>5. ASSUME NEW u \in Sessions, RoundWon(u) \/ CompleteUnready(u) \/ CompleteMerged(u)
      PROVE  \/ sess'[s] = sess[s]
             \/ /\ sess[s].status = "active"
                /\ sess'[s].index = sess[s].index /\ sess'[s].status \in {"active", "completed"}
  BY <1>1, <1>5, RoundType, CloseType DEF RoundWon, CompleteUnready, CompleteMerged
<1>6. ASSUME NEW h \in Handlers, LineSaid(h)
      PROVE  sess'[s] = sess[s] \/ hand[h].session = s
  <2>1. /\ hand[h].session \in Sessions /\ hand[h].index \in 0 .. Lines - 1
        /\ sess' = SaidIn(hand[h].session, hand[h].index + 1)
    BY <1>1, <1>6, HandlerFields DEF LineSaid, Answered
  <2>2. hand[h].index + 1 \in 1 .. Lines
    BY <2>1, ConstantsAssumption
  <2> QED BY <1>1, <2>1, <2>2, SaidType
<1>7. ASSUME NEW h \in Handlers, ReadSeed(h) \/ Gate(h) \/ Reveal(h) \/ Rollback(h)
      PROVE  sess' = sess
  BY <1>7 DEF ReadSeed, Gate, Reveal, Rollback
<1>8. ASSUME NEW h \in Handlers, NEW done \in SUBSET Reading, NEW undone \in SUBSET Reading,
             Report(h, done, undone)
      PROVE  sess' = sess
  BY <1>8 DEF Report
<1>9. ASSUME NEW h \in Handlers, NEW c \in Checks, CheckBegin(h, c) \/ CheckReplay(h, c)
      PROVE  sess' = sess
  BY <1>9 DEF CheckBegin, CheckReplay
<1>10. ASSUME NEW h \in Handlers, CheckCommit(h) \/ LineMissed(h) PROVE sess' = sess
  BY <1>10 DEF CheckCommit, LineMissed
<1>11. ASSUME NEW h \in Handlers, NEW u \in Sessions, NEW r \in Answers, LineBegin(h, u, r)
       PROVE  sess' = sess
  BY <1>11 DEF LineBegin
<1>12. ASSUME NEW h \in Handlers, NEW u \in Sessions, CompleteFindsNone(h, u) PROVE sess' = sess
  BY <1>12 DEF CompleteFindsNone
<1>13. ASSUME ResetLibrary \/ UNCHANGED vars PROVE sess' = sess
  BY <1>13 DEF ResetLibrary, vars
<1> QED BY <1>2, <1>3, <1>4, <1>5, <1>6, <1>7, <1>8, <1>9, <1>10, <1>11, <1>12, <1>13, Steps_Cases

(* A line that counts was the next one of the session its handler holds. *)
LEMMA SaidMoves ==
  ASSUME IInv, NEW h \in Handlers, LineSaid(h)
  PROVE  /\ hand[h].session \in Sessions /\ hand[h].request \in Answers
         /\ hand[h].index \in 0 .. Lines - 1
         /\ sess[hand[h].session].status = "active"
         /\ sess[hand[h].session].index = hand[h].index
         /\ sess'[hand[h].session].index = hand[h].index + 1
         /\ sess'[hand[h].session].status = IF hand[h].index + 1 < Lines THEN "active" ELSE "completed"
<1>1. /\ hand[h].session \in Sessions /\ hand[h].request \in Answers
      /\ hand[h].index \in 0 .. Lines - 1
      /\ sess[hand[h].session].status = "active"
      /\ sess[hand[h].session].index = hand[h].index
      /\ sess' = SaidIn(hand[h].session, hand[h].index + 1)
  BY HandlerFields DEF IInv, Holding, LineSaid, Answered
<1>2. hand[h].index + 1 \in 1 .. Lines
  BY <1>1, ConstantsAssumption
<1> QED BY <1>1, <1>2, SaidType DEF IInv

(* Unless everything is reset, what is completed stays as it is. *)
LEMMA CompletedStays ==
  ASSUME IInv, [Next]_vars, ~ResetAll, NEW s \in Sessions, sess[s].status = "completed"
  PROVE  sess'[s] = sess[s]
BY SessionMoves, SaidMoves

(* An unused id stays without lines and rounds. *)
LEMMA UnusedKeeps ==
  ASSUME IInv, [Next]_vars
  PROVE  Unused'
<1> SUFFICES ASSUME NEW s \in Sessions, sess'[s].status = "absent" PROVE sess'[s] = NoSession
  BY DEF Unused
<1>1. CASE ResetAll
  <2>1. [NoSession EXCEPT !.status = "gone"].status = "gone"
    BY DEF NoSession, NewSession
  <2> QED BY <1>1, <2>1 DEF ResetAll, IInv, Unused
<1>2. \A skill : NewSession(skill).status = "active"
  BY DEF NewSession
<1> QED BY <1>1, <1>2, SessionMoves, SaidMoves DEF IInv, Unused
-----------------------------------------------------------------------------
(* Evidence *)

(* Settling a row asks for no more evidence. *)
LEMMA EvidenceSettled ==
  ASSUME NEW x \in Row, NEW sessions, Evidence(x, sessions)
  PROVE  Evidence(Settled(x), sessions)
<1> DEFINE y == Settled(x)
<1>1. /\ y.right = x.right /\ y.given = x.given
      /\ \A a \in Assessed : a \in y.steps <=> a \in x.steps
  <2>1. x.steps \in SUBSET Steps
    BY DEF Row
  <2> QED BY <2>1, SettledType, ImpliedType
<1> HIDE DEF y
<1>2. Evidence(y, sessions)
  BY <1>1 DEF Evidence, Assessed
<1> QED BY <1>2 DEF y

(* Completed sessions that stay keep the evidence they are. *)
LEMMA EvidenceStays ==
  ASSUME NEW x, NEW before, NEW after, Evidence(x, before),
         \A s \in Sessions : before[s].status = "completed" => after[s] = before[s]
  PROVE  Evidence(x, after)
BY DEF Evidence

(* A first row needs none. *)
LEMMA EvidenceFresh ==
  ASSUME NEW x, Fresh(x), NEW sessions
  PROVE  Evidence(x, sessions)
BY DEF Evidence, Fresh

(* Nor does a row that differs only in reading steps. *)
LEMMA EvidenceSame ==
  ASSUME NEW x, NEW y, NEW sessions, Evidence(x, sessions),
         y.right = x.right, y.given = x.given,
         \A a \in Assessed : a \in y.steps => a \in x.steps
  PROVE  Evidence(y, sessions)
BY DEF Evidence, Assessed

(* The row a request begins with has its evidence. *)
LEMMA EvidenceRowOr ==
  ASSUME IInv, NEW seed \in Row, Fresh(seed)
  PROVE  RowOr(seed) \in Row /\ Evidence(RowOr(seed), sess)
BY RowOrType, EvidenceFresh DEF IInv

(* Marking an answer sets the quiz step exactly when all of it is right. *)
LEMMA EvidenceMarked ==
  ASSUME NEW x \in Row, NEW asked \in SUBSET (Quiz \cup Listening), NEW right \in SUBSET asked,
         NEW sessions, Evidence(x, sessions)
  PROVE  Evidence(Marked(x, asked, right), sessions)
<1> DEFINE y == Marked(x, asked, right)
<1>1. y.right = (x.right \ asked) \cup (right \cap Quiz) /\ y.given = x.given
  BY DEF Marked, Row
<1>2. /\ y.right = Quiz => y.steps = x.steps \cup {"quiz"}
      /\ y.right # Quiz => y.steps = x.steps \ {"quiz"}
  BY DEF Marked, AllRight, Row
<1>3. /\ "quiz" \in y.steps => y.right = Quiz
      /\ \A a \in Assessed \ {"quiz"} : a \in y.steps <=> a \in x.steps
  <2> HIDE DEF y
  <2> QED BY <1>2
<1> HIDE DEF y
<1>4. Evidence(y, sessions)
  BY <1>1, <1>3 DEF Evidence, Assessed
<1> QED BY <1>4 DEF y

(* The marks a check writes. *)
LEMMA CheckWrites ==
  ASSUME IInv, NEW h \in Handlers, CheckCommit(h)
  PROVE  \E asked \in SUBSET (Quiz \cup Listening), right \in SUBSET (Quiz \cup Listening) :
           /\ right \subseteq asked
           /\ row' = Settled(Marked(hand[h].state, asked, right))
           /\ Enrol(Marked(hand[h].state, asked, right))
           /\ events' = [events EXCEPT ![hand[h].request] = (asked \ right) \cap Quiz]
           /\ failures' = [q \in Quiz |->
                             failures[q] + (IF q \in (asked \ right) \cap Quiz THEN 1 ELSE 0)]
BY DEF CheckCommit, Marks

(* Who writes the rows of the course, and who leaves them alone. *)
LEMMA RowWriters ==
  ASSUME [Next]_vars
  PROVE  \/ row' = row /\ prompts' = prompts
         \/ ResetLibrary \/ ResetAll
         \/ \E h \in Handlers : Reveal(h)
         \/ \E h \in Handlers, done \in SUBSET Reading, undone \in SUBSET Reading : Report(h, done, undone)
         \/ \E h \in Handlers : CheckCommit(h) \/ LineSaid(h) \/ CompleteUpsert(h)
         \/ \E s \in Sessions : CompleteMerged(s)
<1> USE DEF progress
<1>1. ASSUME NEW h \in Handlers,
             ReadSeed(h) \/ Gate(h) \/ OpenShadowing(h) \/ LineMissed(h) \/ Rollback(h)
      PROVE  row' = row /\ prompts' = prompts
  BY <1>1 DEF ReadSeed, Gate, OpenShadowing, LineMissed, Rollback
<1>2. ASSUME NEW h \in Handlers, NEW c \in Checks, CheckBegin(h, c) \/ CheckReplay(h, c)
      PROVE  row' = row /\ prompts' = prompts
  BY <1>2 DEF CheckBegin, CheckReplay
<1>3. ASSUME NEW h \in Handlers, NEW u \in Sessions, NEW r \in Answers, LineBegin(h, u, r)
      PROVE  row' = row /\ prompts' = prompts
  BY <1>3 DEF LineBegin
<1>4. ASSUME NEW h \in Handlers, NEW u \in Sessions, CompleteFindsNone(h, u)
      PROVE  row' = row /\ prompts' = prompts
  BY <1>4 DEF CompleteFindsNone
<1>5. ASSUME NEW s \in Sessions, RoundWon(s) \/ CompleteUnready(s)
      PROVE  row' = row /\ prompts' = prompts
  BY <1>5 DEF RoundWon, CompleteUnready
<1>6. ASSUME OpenSpeaking \/ UNCHANGED vars PROVE row' = row /\ prompts' = prompts
  BY <1>6 DEF OpenSpeaking, vars
<1> QED BY <1>1, <1>2, <1>3, <1>4, <1>5, <1>6, Steps_Cases

(* Every row that is written has the evidence for its steps. *)
LEMMA EvidenceKeeps ==
  ASSUME IInv, [Next]_vars, row' # None
  PROVE  Evidence(row', sess')
<1> USE DEF progress, practice
<1>1. TypeOK /\ ~ResetAll
  BY DEF IInv, ResetAll
<1>2. \A s \in Sessions : sess[s].status = "completed" => sess'[s] = sess[s]
  BY <1>1, CompletedStays
<1>3. ASSUME Evidence(row', sess) PROVE Evidence(row', sess')
  BY <1>2, <1>3, EvidenceStays
<1>4. ASSUME row' = row PROVE Evidence(row', sess')
  BY <1>3, <1>4 DEF IInv
<1>5. ASSUME NEW h \in Handlers, Reveal(h) PROVE Evidence(row', sess')
  <2> DEFINE x == RowOr(hand[h].seed)
  <2>1. x \in Row /\ Evidence(x, sess) /\ row' = [x EXCEPT !.revealed = TRUE]
    BY <1>1, <1>5, HandlerFields, EvidenceRowOr DEF Reveal, IInv, Holding
  <2> HIDE DEF x
  <2>2. row'.steps = x.steps /\ row'.right = x.right /\ row'.given = x.given
    BY <2>1 DEF Row
  <2> QED BY <1>3, <2>1, <2>2, EvidenceSame
<1>6. ASSUME NEW h \in Handlers, NEW done \in SUBSET Reading, NEW undone \in SUBSET Reading,
             Report(h, done, undone)
      PROVE  Evidence(row', sess')
  <2> DEFINE x == RowOr(hand[h].seed)
             y == [x EXCEPT !.steps = (x.steps \cup done) \ undone]
  <2>1. x \in Row /\ Evidence(x, sess) /\ row' = Settled(y)
    BY <1>1, <1>6, HandlerFields, EvidenceRowOr DEF Report, IInv, Holding
  <2> HIDE DEF x
  <2>2. /\ y \in Row /\ y.right = x.right /\ y.given = x.given
        /\ \A a \in Assessed : a \in y.steps => a \in x.steps
    BY <2>1, ConstantsAssumption DEF Row, Steps
  <2> HIDE DEF y
  <2>3. Evidence(y, sess)
    BY <2>1, <2>2, EvidenceSame
  <2> QED BY <1>3, <2>1, <2>2, <2>3, EvidenceSettled
<1>7. ASSUME NEW h \in Handlers, CheckCommit(h) PROVE Evidence(row', sess')
  <2> DEFINE x == hand[h].state
  <2>1. x \in Row /\ (IF row = None THEN Fresh(x) ELSE x = row)
    BY <1>1, <1>7, HandlerFields DEF CheckCommit, IInv, Holding
  <2>2. Evidence(x, sess)
    <3>1. CASE row # None
      BY <2>1, <3>1 DEF IInv, Fresh
    <3>2. CASE row = None
      BY <2>1, <3>2, EvidenceFresh, ConstantsAssumption DEF IInv
    <3> QED BY <3>1, <3>2
  <2>3. PICK asked \in SUBSET (Quiz \cup Listening), right \in SUBSET (Quiz \cup Listening) :
          right \subseteq asked /\ row' = Settled(Marked(x, asked, right))
    BY <1>7, CheckWrites
  <2> HIDE DEF x
  <2>4. Marked(x, asked, right) \in Row /\ Evidence(Marked(x, asked, right), sess)
    BY <2>1, <2>2, <2>3, MarkedType, EvidenceMarked
  <2> QED BY <1>3, <2>3, <2>4, EvidenceSettled
<1>8. ASSUME NEW h \in Handlers, LineSaid(h) PROVE Evidence(row', sess')
  <2> DEFINE x == RowOr(Seed)  s == hand[h].session
  <2>1. x \in Row /\ Evidence(x, sess')
    BY <1>1, <1>2, SeedType, EvidenceRowOr, EvidenceStays
  <2>2. "shadowing" \in Steps /\ "shadowing" \in Assessed
    BY DEF Steps, Assessed
  <2> HIDE DEF x
  <2>3. CASE hand[h].index + 1 < Lines
    <3>1. row' = Minus(x, "shadowing")
      BY <1>8, <2>3 DEF LineSaid, x
    <3>2. row' = [x EXCEPT !.steps = x.steps \ {"shadowing"}]
      BY <2>1, <2>2, <3>1, StepType
    <3>3. row'.steps = x.steps \ {"shadowing"} /\ row'.right = x.right /\ row'.given = x.given
      BY <2>1, <3>2 DEF Row
    <3> QED BY <2>1, <3>3, EvidenceSame
  <2>4. CASE ~(hand[h].index + 1 < Lines)
    <3> DEFINE y == Plus(x, "shadowing")
    <3>1. row' = Settled(y)
      BY <1>8, <2>4 DEF LineSaid, x
    <3>2. y \in Row /\ y = [x EXCEPT !.steps = x.steps \cup {"shadowing"}]
      BY <2>1, <2>2, StepType
    <3>3. y.steps = x.steps \cup {"shadowing"} /\ y.right = x.right /\ y.given = x.given
      BY <2>1, <3>2 DEF Row
    <3>4. s \in Sessions /\ sess'[s].status = "completed" /\ sess'[s].index = Lines
      BY <1>8, <2>4, SaidMoves, ConstantsAssumption
    <3> HIDE DEF y, s
    <3>5. Evidence(y, sess')
      BY <2>1, <3>3, <3>4 DEF Evidence
    <3> QED BY <3>1, <3>2, <3>5, EvidenceSettled
  <2> QED BY <2>3, <2>4
<1>9. ASSUME NEW s \in Sessions, CompleteMerged(s) PROVE Evidence(row', sess')
  <2> DEFINE y == Plus(row, "speaking")
  <2>1. row # None /\ row \in Row /\ "speaking" \in Steps /\ row' = Settled(y)
    BY <1>1, <1>9 DEF CompleteMerged, TypeOK, Steps, Assessed
  <2>2. y \in Row /\ y = [row EXCEPT !.steps = row.steps \cup {"speaking"}]
    BY <2>1, StepType
  <2>3. y.steps = row.steps \cup {"speaking"} /\ y.right = row.right /\ y.given = row.given
    BY <2>1, <2>2 DEF Row
  <2>4. sess'[s].status = "completed" /\ sess'[s].skill = "speaking" /\ sess'[s].credits >= 2
    BY <1>1, <1>9, CloseType DEF CompleteMerged, Ready
  <2>5. Evidence(row, sess')
    BY <1>2, <2>1, EvidenceStays DEF IInv
  <2> HIDE DEF y
  <2>6. Evidence(y, sess')
    BY <2>3, <2>4, <2>5 DEF Evidence
  <2> QED BY <2>1, <2>2, <2>6, EvidenceSettled
<1>10. ASSUME NEW h \in Handlers, CompleteUpsert(h) PROVE Evidence(row', sess')
  <2> DEFINE y == hand[h].state  s == hand[h].session
  <2>1. /\ y \in Row /\ row' = Settled(y) /\ y.steps \subseteq y.given \cup {"speaking"}
        /\ s \in Sessions /\ Close(s) /\ Ready(s)
    BY <1>1, <1>10, HandlerFields DEF CompleteUpsert, IInv, Holding
  <2> HIDE DEF y, s
  <2>2. sess'[s].status = "completed" /\ sess'[s].skill = "speaking" /\ sess'[s].credits >= 2
    BY <1>1, <2>1, CloseType DEF Ready
  <2>3. Evidence(y, sess')
    BY <2>1, <2>2 DEF Evidence
  <2> QED BY <2>1, <2>3, EvidenceSettled
<1>11. ASSUME ResetLibrary PROVE row' = row
  BY <1>11 DEF ResetLibrary
<1> QED BY <1>1, <1>4, <1>5, <1>6, <1>7, <1>8, <1>9, <1>10, <1>11, RowWriters
-----------------------------------------------------------------------------
(* Counts *)

(* Who writes events, failures and answers. *)
LEMMA TableWriters ==
  ASSUME [Next]_vars
  PROVE  /\ \/ UNCHANGED <<events, failures>>
            \/ ResetLibrary \/ ResetAll
            \/ \E h \in Handlers : CheckCommit(h)
         /\ \/ answers' = answers
            \/ ResetAll
            \/ \E h \in Handlers : LineMissed(h) \/ LineSaid(h)
<1> DEFINE Same == UNCHANGED <<events, failures, answers>>
<1> USE DEF progress, practice
<1>1. ASSUME NEW h \in Handlers,
             ReadSeed(h) \/ Gate(h) \/ Reveal(h) \/ OpenShadowing(h) \/ CompleteUpsert(h) \/ Rollback(h)
      PROVE  Same
  BY <1>1 DEF ReadSeed, Gate, Reveal, OpenShadowing, CompleteUpsert, Rollback
<1>2. ASSUME NEW h \in Handlers, NEW c \in Checks, CheckBegin(h, c) \/ CheckReplay(h, c)
      PROVE  Same
  BY <1>2 DEF CheckBegin, CheckReplay
<1>3. ASSUME NEW h \in Handlers, NEW u \in Sessions, NEW r \in Answers, LineBegin(h, u, r)
      PROVE  Same
  BY <1>3 DEF LineBegin
<1>4. ASSUME NEW h \in Handlers, NEW u \in Sessions, CompleteFindsNone(h, u)
      PROVE  Same
  BY <1>4 DEF CompleteFindsNone
<1>5. ASSUME NEW s \in Sessions, RoundWon(s) \/ CompleteUnready(s) \/ CompleteMerged(s)
      PROVE  Same
  BY <1>5 DEF RoundWon, CompleteUnready, CompleteMerged
<1>6. ASSUME OpenSpeaking \/ UNCHANGED vars PROVE Same
  BY <1>6 DEF OpenSpeaking, vars
<1>7. ASSUME NEW h \in Handlers, NEW done \in SUBSET Reading, NEW undone \in SUBSET Reading,
             Report(h, done, undone)
      PROVE  Same
  BY <1>7 DEF Report
<1>8. ASSUME NEW h \in Handlers, LineMissed(h) \/ LineSaid(h) PROVE UNCHANGED <<events, failures>>
  BY <1>8 DEF LineMissed, LineSaid, Answered
<1>9. ASSUME NEW h \in Handlers, CheckCommit(h) PROVE answers' = answers
  BY <1>9 DEF CheckCommit
<1>10. ASSUME ResetLibrary PROVE answers' = answers
  BY <1>10 DEF ResetLibrary
<1> QED BY <1>1, <1>2, <1>3, <1>4, <1>5, <1>6, <1>7, <1>8, <1>9, <1>10, Steps_Cases

(* The checks that marked a quiz item wrong. *)
WrongIn(q, log) == {c \in Checks : log[c] # None /\ q \in log[c]}

(* A failure is counted only with the check that gave it. *)
LEMMA FailuresKeep ==
  ASSUME IInv, [Next]_vars
  PROVE  FailuresHaveChecks'
<1> SUFFICES ASSUME NEW q \in Quiz PROVE failures'[q] <= Cardinality(WrongIn(q, events'))
  BY DEF FailuresHaveChecks, WrongIn
<1> USE DEF IInv
<1>1. failures[q] <= Cardinality(WrongIn(q, events)) /\ failures[q] \in Nat
  BY DEF FailuresHaveChecks, WrongIn, TypeOK
<1>2. \A log : IsFiniteSet(WrongIn(q, log)) /\ Cardinality(WrongIn(q, log)) \in Nat
  BY FS_Subset, FS_CardinalityType, ConstantsAssumption DEF WrongIn
<1>3. CASE UNCHANGED <<events, failures>>
  BY <1>1, <1>3
<1>4. CASE ResetLibrary \/ ResetAll
  BY <1>2, <1>4 DEF ResetLibrary, ResetAll
<1>5. ASSUME NEW h \in Handlers, CheckCommit(h)
      PROVE  failures'[q] <= Cardinality(WrongIn(q, events'))
  <2>1. PICK asked \in SUBSET (Quiz \cup Listening), right \in SUBSET (Quiz \cup Listening) :
          /\ events' = [events EXCEPT ![hand[h].request] = (asked \ right) \cap Quiz]
          /\ failures' = [p \in Quiz |->
                            failures[p] + (IF p \in (asked \ right) \cap Quiz THEN 1 ELSE 0)]
    BY <1>5, CheckWrites
  <2> DEFINE wrong == (asked \ right) \cap Quiz
             c == hand[h].request
  <2>2. c \in Checks /\ events[c] = None /\ wrong \in SUBSET Quiz /\ wrong # None
    BY <1>5, HandlerFields, ConstantsAssumption DEF CheckCommit
  <2>3. /\ events' = [events EXCEPT ![c] = wrong]
        /\ failures'[q] = failures[q] + (IF q \in wrong THEN 1 ELSE 0)
    BY <2>1
  <2> HIDE DEF wrong, c
  <2>4. events'[c] = wrong /\ \A d \in Checks \ {c} : events'[d] = events[d]
    BY <2>2, <2>3 DEF TypeOK
  <2>5. CASE q \in wrong
    <3>1. WrongIn(q, events') = WrongIn(q, events) \cup {c} /\ c \notin WrongIn(q, events)
      BY <2>2, <2>4, <2>5 DEF WrongIn
    <3>2. Cardinality(WrongIn(q, events')) = Cardinality(WrongIn(q, events)) + 1
      BY <1>2, <3>1, FS_AddElement
    <3> QED BY <1>1, <1>2, <2>3, <2>5, <3>2
  <2>6. CASE q \notin wrong
    <3>1. WrongIn(q, events') = WrongIn(q, events)
      BY <2>2, <2>4, <2>6 DEF WrongIn
    <3> QED BY <1>1, <2>3, <2>6, <3>1
  <2> QED BY <2>5, <2>6
<1> QED BY <1>3, <1>4, <1>5, TableWriters

(* The stored answers of a session that passed. *)
Passed(s) == [session |-> s, passed |-> TRUE]
PassesOf(s, table) == {r \in Answers : table[r] = Passed(s)}

(* shadow_index counts them. *)
LEMMA LinesKeep ==
  ASSUME IInv, [Next]_vars
  PROVE  LinesHavePasses'
<1> SUFFICES ASSUME NEW s \in Sessions PROVE sess'[s].index = Cardinality(PassesOf(s, answers'))
  BY DEF LinesHavePasses, PassesOf, Passed
<1> USE DEF IInv
<1>1. sess[s].index = Cardinality(PassesOf(s, answers))
  BY DEF LinesHavePasses, PassesOf, Passed
<1>2. IsFiniteSet(PassesOf(s, answers))
  BY FS_Subset, ConstantsAssumption DEF PassesOf
<1>3. NoSession.index = 0 /\ \A skill : NewSession(skill).index = 0
  BY DEF NoSession, NewSession
<1>4. CASE ResetAll
  <2>1. [NoSession EXCEPT !.status = "gone"].index = 0
    BY DEF NoSession, NewSession
  <2>2. sess'[s].index = 0
    BY <1>3, <1>4, <2>1 DEF ResetAll, Unused
  <2>3. PassesOf(s, answers') = {}
    BY <1>4, ConstantsAssumption DEF ResetAll, PassesOf, Passed
  <2> QED BY <2>2, <2>3, FS_EmptySet
<1>5. ASSUME NEW h \in Handlers, LineMissed(h)
      PROVE  sess'[s].index = Cardinality(PassesOf(s, answers'))
  <2>1. /\ hand[h].request \in Answers /\ answers[hand[h].request] = None
        /\ answers' = [answers EXCEPT ![hand[h].request] =
                         [session |-> hand[h].session, passed |-> FALSE]]
        /\ sess' = sess
    BY <1>5, HandlerFields DEF LineMissed, Answered
  <2>2. None # Passed(s) /\ [session |-> hand[h].session, passed |-> FALSE] # Passed(s)
    BY ConstantsAssumption DEF Passed
  <2>3. PassesOf(s, answers') = PassesOf(s, answers)
    BY <2>1, <2>2 DEF PassesOf, TypeOK
  <2> QED BY <1>1, <2>1, <2>3
<1>6. ASSUME NEW h \in Handlers, LineSaid(h)
      PROVE  sess'[s].index = Cardinality(PassesOf(s, answers'))
  <2> DEFINE r == hand[h].request  u == hand[h].session
  <2>1. /\ r \in Answers /\ answers[r] = None /\ u \in Sessions
        /\ answers' = [answers EXCEPT ![r] = Passed(u)]
    BY <1>6, HandlerFields DEF LineSaid, Answered, Passed
  <2>2. answers'[r] = Passed(u) /\ \A x \in Answers \ {r} : answers'[x] = answers[x]
    BY <2>1 DEF TypeOK
  <2>3. None # Passed(s)
    BY ConstantsAssumption DEF Passed
  <2>4. CASE s = u
    <3>1. sess'[s].index = sess[s].index + 1 /\ sess[s].index \in Nat
      BY <1>6, <2>4, SaidMoves DEF TypeOK, Session
    <3> HIDE DEF r, u
    <3>2. PassesOf(s, answers') = PassesOf(s, answers) \cup {r} /\ r \notin PassesOf(s, answers)
      BY <2>1, <2>2, <2>3, <2>4 DEF PassesOf
    <3>3. Cardinality(PassesOf(s, answers')) = Cardinality(PassesOf(s, answers)) + 1
      BY <1>2, <3>2, FS_AddElement
    <3> QED BY <1>1, <3>1, <3>3
  <2>5. CASE s # u
    <3>1. sess'[s] = sess[s]
      <4>1. hand[h].index + 1 \in 1 .. Lines
        <5>1. hand[h].index \in 0 .. Lines - 1
          BY <1>6, SaidMoves
        <5> QED BY <5>1, ConstantsAssumption
      <4>2. sess' = SaidIn(u, hand[h].index + 1)
        BY <1>6 DEF LineSaid
      <4> QED BY <2>1, <2>5, <4>1, <4>2, SaidType
    <3>2. Passed(u) # Passed(s)
      BY <2>5 DEF Passed
    <3> HIDE DEF r, u
    <3>3. PassesOf(s, answers') = PassesOf(s, answers)
      BY <2>1, <2>2, <2>3, <3>2 DEF PassesOf
    <3> QED BY <1>1, <3>1, <3>3
  <2> QED BY <2>4, <2>5
<1>7. ASSUME answers' = answers, ~ResetAll, \A h \in Handlers : ~LineSaid(h)
      PROVE  sess'[s].index = Cardinality(PassesOf(s, answers'))
  BY <1>1, <1>3, <1>7, SessionMoves DEF Unused
<1> QED BY <1>4, <1>5, <1>6, <1>7, TableWriters
-----------------------------------------------------------------------------
(* Review *)

(* What a request begins with is enrolled when it is finished, unless it   *)
(* was finished before, and has its prompts when it is enrolled.           *)
Reviewed(x, p) ==
  x.given = {} =>
    /\ Finished(x) => x.enrolled
    /\ x.enrolled => p # "none"

(* A first row that begins with nothing is not finished. *)
LEMMA FreshReviewed ==
  ASSUME NEW x, Fresh(x), NEW p
  PROVE  Reviewed(x, p)
<1>1. x.given = {} => ~Finished(x)
  BY DEF Fresh, Finished, Implied, Steps, Assessed
<1> QED BY <1>1 DEF Fresh, Reviewed

(* A row that is settled as its unit is enrolled is in review. *)
LEMMA SettledReviewed ==
  ASSUME NEW x \in Row, x.given = {} /\ x.enrolled => prompts # "none",
         row' = Settled(x), Enrol(x)
  PROVE  Reviewed(row', prompts')
<1> DEFINE y == Settled(x)
<1>1. /\ y.steps = Implied(x.steps) /\ y.given = x.given
      /\ y.enrolled = (x.enrolled \/ Finished(x))
  BY SettledType
<1>2. Implied(Implied(x.steps)) = Implied(x.steps)
  BY DEF Implied
<1>3. prompts' = IF Finished(x) /\ ~x.enrolled THEN "scheduled" ELSE prompts
  BY DEF Enrol
<1>4. row' = y
  OBVIOUS
<1> HIDE DEF y
<1>5. Finished(y) = Finished(x)
  BY <1>1, <1>2 DEF Finished
<1> QED BY <1>1, <1>3, <1>4, <1>5 DEF Reviewed

(* The row a request begins with is in review, as the current one is.      *)
LEMMA RowOrReviewed ==
  ASSUME IInv, NEW seed \in Row, Fresh(seed)
  PROVE  RowOr(seed) \in Row /\ Reviewed(RowOr(seed), prompts)
<1>1. RowOr(seed) \in Row /\ (row # None => RowOr(seed) = row) /\ (row = None => RowOr(seed) = seed)
  BY RowOrType DEF IInv
<1>2. Reviewed(seed, prompts)
  BY FreshReviewed
<1>3. row # None => Reviewed(row, prompts)
  BY DEF IInv, InReview, Reviewed
<1> DEFINE y == RowOr(seed)
<1> HIDE DEF y
<1>4. (row # None => y = row) /\ (row = None => y = seed)
  BY <1>1 DEF y
<1>5. Reviewed(y, prompts)
  BY <1>2, <1>3, <1>4 DEF Reviewed
<1> QED BY <1>1, <1>5 DEF y

(* Whichever request finishes a unit, its prompts are scheduled.           *)
LEMMA InReviewKeeps ==
  ASSUME IInv, [Next]_vars
  PROVE  InReview'
<1> SUFFICES ASSUME row' # None PROVE Reviewed(row', prompts')
  BY DEF InReview, Reviewed
<1>1. TypeOK /\ (row # None => Reviewed(row, prompts))
  BY DEF IInv, InReview, Reviewed
<1>2. CASE row' = row /\ prompts' = prompts
  BY <1>1, <1>2
<1>3. CASE ResetLibrary
  BY <1>1, <1>3 DEF ResetLibrary, Reviewed
<1>4. ASSUME NEW h \in Handlers, Reveal(h) PROVE Reviewed(row', prompts')
  <2> DEFINE x == RowOr(hand[h].seed)
  <2>1. x \in Row /\ Reviewed(x, prompts) /\ row' = [x EXCEPT !.revealed = TRUE] /\ prompts' = prompts
    BY <1>1, <1>4, HandlerFields, RowOrReviewed DEF Reveal, IInv, Holding
  <2> HIDE DEF x
  <2>2. row'.steps = x.steps /\ row'.enrolled = x.enrolled /\ row'.given = x.given
    BY <2>1 DEF Row
  <2> QED BY <2>1, <2>2 DEF Reviewed, Finished
<1>5. ASSUME NEW h \in Handlers, NEW done \in SUBSET Reading, NEW undone \in SUBSET Reading,
             Report(h, done, undone)
      PROVE  Reviewed(row', prompts')
  <2> DEFINE x == RowOr(hand[h].seed)
             y == [x EXCEPT !.steps = (x.steps \cup done) \ undone]
  <2>1. x \in Row /\ Reviewed(x, prompts) /\ row' = Settled(y) /\ Enrol(y)
    BY <1>1, <1>5, HandlerFields, RowOrReviewed DEF Report, IInv, Holding
  <2> HIDE DEF x
  <2>2. y \in Row /\ y.enrolled = x.enrolled /\ y.given = x.given
    BY <2>1 DEF Row, Steps
  <2> HIDE DEF y
  <2> QED BY <2>1, <2>2, SettledReviewed DEF Reviewed
<1>6. ASSUME NEW h \in Handlers, CheckCommit(h) PROVE Reviewed(row', prompts')
  <2> DEFINE x == hand[h].state
  <2>1. x \in Row /\ (IF row = None THEN Fresh(x) ELSE x = row)
    BY <1>1, <1>6, HandlerFields DEF CheckCommit, IInv, Holding
  <2>2. PICK asked \in SUBSET (Quiz \cup Listening), right \in SUBSET (Quiz \cup Listening) :
          /\ right \subseteq asked
          /\ row' = Settled(Marked(x, asked, right)) /\ Enrol(Marked(x, asked, right))
    BY <1>6, CheckWrites
  <2> HIDE DEF x
  <2>3. x.given = {} /\ x.enrolled => prompts # "none"
    BY <1>1, <2>1 DEF Reviewed, Fresh
  <2> DEFINE y == Marked(x, asked, right)
  <2>4. y \in Row
    BY <2>1, <2>2, MarkedType
  <2>5. y.enrolled = x.enrolled /\ y.given = x.given
    BY <2>1 DEF Marked, Row
  <2>6. row' = Settled(y) /\ Enrol(y)
    BY <2>2
  <2> HIDE DEF y
  <2> QED BY <2>3, <2>4, <2>5, <2>6, SettledReviewed
<1>7. ASSUME NEW h \in Handlers, LineSaid(h) PROVE Reviewed(row', prompts')
  <2> DEFINE x == RowOr(Seed)
  <2>1. x \in Row /\ Reviewed(x, prompts) /\ "shadowing" \in Steps
    BY <1>1, SeedType, RowOrReviewed DEF Steps, Assessed
  <2>2. CASE hand[h].index + 1 < Lines
    <3>1. row' = Minus(x, "shadowing") /\ prompts' = prompts
      BY <1>7, <2>2 DEF LineSaid
    <3> HIDE DEF x
    <3>2. row' = [x EXCEPT !.steps = x.steps \ {"shadowing"}]
      BY <2>1, <3>1, StepType
    <3>3. row'.steps = x.steps \ {"shadowing"} /\ row'.enrolled = x.enrolled /\ row'.given = x.given
      BY <2>1, <3>2 DEF Row
    <3>4. ~Finished(row')
      BY <3>3, ConstantsAssumption DEF Finished, Implied, Steps, Assessed
    <3> QED BY <2>1, <3>1, <3>3, <3>4 DEF Reviewed
  <2>3. CASE ~(hand[h].index + 1 < Lines)
    <3> DEFINE y == Plus(x, "shadowing")
    <3>1. row' = Settled(y) /\ Enrol(y)
      BY <1>7, <2>3 DEF LineSaid
    <3> HIDE DEF x
    <3>2. y \in Row /\ y = [x EXCEPT !.steps = x.steps \cup {"shadowing"}]
      BY <2>1, StepType
    <3>3. y.enrolled = x.enrolled /\ y.given = x.given
      BY <2>1, <3>2 DEF Row
    <3> HIDE DEF y
    <3> QED BY <2>1, <3>1, <3>2, <3>3, SettledReviewed DEF Reviewed
  <2> QED BY <2>2, <2>3
<1>8. ASSUME NEW h \in Handlers, CompleteUpsert(h) PROVE Reviewed(row', prompts')
  <2>1. /\ hand[h].state \in Row /\ ~hand[h].state.enrolled
        /\ row' = Settled(hand[h].state) /\ Enrol(hand[h].state)
    BY <1>1, <1>8, HandlerFields DEF CompleteUpsert, IInv, Holding
  <2> QED BY <2>1, SettledReviewed
<1>9. ASSUME NEW s \in Sessions, CompleteMerged(s) PROVE Reviewed(row', prompts')
  <2> DEFINE y == Plus(row, "speaking")
  <2>1. row # None /\ row \in Row /\ "speaking" \in Steps /\ row' = Settled(y) /\ Enrol(y)
    BY <1>1, <1>9 DEF CompleteMerged, TypeOK, Steps, Assessed
  <2>2. y \in Row /\ y = [row EXCEPT !.steps = row.steps \cup {"speaking"}]
    BY <2>1, StepType
  <2>3. y.enrolled = row.enrolled /\ y.given = row.given
    BY <2>1, <2>2 DEF Row
  <2> HIDE DEF y
  <2> QED BY <1>1, <2>1, <2>2, <2>3, SettledReviewed DEF Reviewed
<1>10. CASE ResetAll
  BY <1>10 DEF ResetAll
<1> QED BY <1>2, <1>3, <1>4, <1>5, <1>6, <1>7, <1>8, <1>9, <1>10, RowWriters
-----------------------------------------------------------------------------
(* The invariants *)

(* The invariant holds at first: there is nothing yet. *)
LEMMA InitIInv == Init => IInv
<1> SUFFICES ASSUME Init PROVE IInv
  OBVIOUS
<1>1. TypeOK
  BY InitType
<1>2. FailuresHaveChecks
  <2> SUFFICES ASSUME NEW q \in Quiz PROVE failures[q] <= Cardinality(WrongIn(q, events))
    BY DEF FailuresHaveChecks, WrongIn
  <2>1. WrongIn(q, events) = {}
    BY DEF Init, WrongIn
  <2> QED BY <2>1, FS_EmptySet DEF Init
<1>3. LinesHavePasses
  <2> SUFFICES ASSUME NEW s \in Sessions PROVE sess[s].index = Cardinality(PassesOf(s, answers))
    BY DEF LinesHavePasses, PassesOf, Passed
  <2>1. PassesOf(s, answers) = {}
    BY ConstantsAssumption DEF Init, PassesOf, Passed
  <2>2. sess[s].index = 0
    BY DEF Init, NoSession, NewSession
  <2> QED BY <2>1, <2>2, FS_EmptySet
<1>4. \A h \in Handlers : Holding(h)
  BY DEF Init, Holding, Idle
<1> QED BY <1>1, <1>2, <1>3, <1>4 DEF Init, IInv, InReview, Unused

(* And every step keeps it. *)
LEMMA NextIInv == IInv /\ [Next]_vars => IInv'
<1> SUFFICES ASSUME IInv, [Next]_vars PROVE IInv'
  OBVIOUS
<1>1. TypeOK'
  BY NextType DEF IInv
<1>2. row' # None => Evidence(row', sess')
  BY EvidenceKeeps
<1> QED BY <1>1, <1>2, FailuresKeep, LinesKeep, InReviewKeeps, HoldingKeeps, UnusedKeeps DEF IInv

(* Progress is earned: an assessed step that was not carried over has its  *)
(* evidence, a failure has the check that counted it, and shadow_index is  *)
(* the number of lines that were said, whatever checks, lines, sessions    *)
(* and resets ran at the same time or were cut off (ebook_check.go         *)
(* 358-405, sessions.go 538-645 and 726-753).                              *)
THEOREM Earned == Spec => []ProgressIsEarned
<1> QED BY InitIInv, NextIInv, IInvImplies, PTL DEF Spec

(* A unit that was begun under this version and is finished has been put   *)
(* in review (README.md 66).                                               *)
THEOREM AlwaysInReview == Spec => []FinishedIsInReview
<1> QED BY InitIInv, NextIInv, IInvImplies, PTL DEF Spec
-----------------------------------------------------------------------------
(* How progress may be lost *)

(* The losses OnlyTheseLoseProgress allows a step from the row x to y. *)
Kept(x, y) ==
  LET lost == x.steps \ y.steps IN
    /\ x.heard \subseteq y.heard
    /\ x.revealed => y.revealed
    /\ x.right \subseteq y.right \/ Rechecked
    /\ "speaking" \notin lost
    /\ "quiz" \in lost => Rechecked \/ "quiz" \in x.given
    /\ "shadowing" \in lost =>
         \E s \in Sessions : sess'[s].index > sess[s].index /\ sess'[s].index < Lines
    /\ lost \cap Reading # {} => "quiz" \notin y.steps

(* A request that only adds to a row loses nothing when it settles it. *)
LEMMA SettledKept ==
  ASSUME NEW x \in Row, NEW y \in Row, x.heard \subseteq y.heard, x.right \subseteq y.right,
         x.revealed => y.revealed, x.steps \subseteq y.steps
  PROVE  Kept(x, Settled(y))
<1> DEFINE z == Settled(y)
<1>1. z.steps = Implied(y.steps) /\ z.heard = y.heard /\ z.right = y.right /\ z.revealed = y.revealed
  BY SettledType
<1>2. y.steps \subseteq Implied(y.steps)
  BY ImpliedType DEF Row
<1> HIDE DEF z
<1>3. Kept(x, z)
  BY <1>1, <1>2 DEF Kept
<1> QED BY <1>3 DEF z

(* A report loses reading steps only, and none under a passed quiz. *)
LEMMA ReportKept ==
  ASSUME IInv, NEW h \in Handlers, NEW done \in SUBSET Reading, NEW undone \in SUBSET Reading,
         Report(h, done, undone), row # None
  PROVE  Kept(row, row')
<1> DEFINE y == [row EXCEPT !.steps = (row.steps \cup done) \ undone]
<1>1. row \in Row /\ row' = Settled(y)
  BY HandlerFields, RowOrType DEF IInv, TypeOK, Report
<1>2. /\ y \in Row /\ y.heard = row.heard /\ y.right = row.right /\ y.revealed = row.revealed
      /\ y.steps = (row.steps \cup done) \ undone
  BY <1>1 DEF Row, Steps
<1> HIDE DEF y
<1>3. /\ row'.steps = Implied(y.steps) /\ row'.heard = y.heard
      /\ row'.right = y.right /\ row'.revealed = y.revealed
  BY <1>1, <1>2, SettledType
<1>4. /\ y.steps \subseteq Implied(y.steps)
      /\ "quiz" \in Implied(y.steps) => Reading \subseteq Implied(y.steps)
  BY <1>2, ImpliedType DEF Row, Implied
<1>5. \A a \in Assessed : a \in row.steps => a \in y.steps
  BY <1>2, ConstantsAssumption
<1> QED BY <1>2, <1>3, <1>4, <1>5 DEF Kept, Assessed

(* A check loses the quiz, and only by a wrong mark or when the quiz had   *)
(* been carried over.                                                      *)
LEMMA CheckKept ==
  ASSUME IInv, NEW h \in Handlers, CheckCommit(h), row # None
  PROVE  Kept(row, row')
<1>1. /\ row \in Row /\ hand[h].state = row /\ hand[h].request \in Checks
      /\ events[hand[h].request] = None /\ Evidence(row, sess)
  BY HandlerFields DEF IInv, TypeOK, Holding, CheckCommit
<1>2. PICK asked \in SUBSET (Quiz \cup Listening), right \in SUBSET (Quiz \cup Listening) :
        /\ right \subseteq asked
        /\ row' = Settled(Marked(row, asked, right))
        /\ events' = [events EXCEPT ![hand[h].request] = (asked \ right) \cap Quiz]
  BY <1>1, CheckWrites
<1> DEFINE y == Marked(row, asked, right)
<1>3. y \in Row
  BY <1>1, <1>2, MarkedType
<1>4. /\ y.right = (row.right \ asked) \cup (right \cap Quiz)
      /\ y.heard = row.heard \cup (right \cap Listening) /\ y.revealed = row.revealed
  BY <1>1 DEF Marked, Row
<1>5. /\ y.right = Quiz => y.steps = row.steps \cup {"quiz"}
      /\ y.right # Quiz => y.steps = row.steps \ {"quiz"}
  BY <1>1 DEF Marked, AllRight, Row
<1>6. row' = Settled(y)
  BY <1>2
<1> HIDE DEF y
<1>7. /\ row'.steps = Implied(y.steps) /\ row'.heard = y.heard
      /\ row'.right = y.right /\ row'.revealed = y.revealed
  BY <1>3, <1>6, SettledType
<1>8. y.steps \subseteq Implied(y.steps)
  BY <1>3, ImpliedType DEF Row
<1>9. row.steps \ row'.steps \subseteq {"quiz"}
  BY <1>5, <1>7, <1>8
<1>10. "quiz" \notin Reading
  BY ConstantsAssumption DEF Assessed
<1>11. CASE (asked \ right) \cap Quiz # {}
  <2> DEFINE wrong == (asked \ right) \cap Quiz
  <2>1. events' = [events EXCEPT ![hand[h].request] = wrong]
    BY <1>2
  <2>2. wrong # {} /\ wrong # None
    BY <1>11, ConstantsAssumption
  <2> HIDE DEF wrong
  <2>3. events'[hand[h].request] = wrong
    BY <1>1, <2>1 DEF IInv, TypeOK
  <2>4. Rechecked
    BY <1>1, <2>2, <2>3 DEF Rechecked
  <2> QED BY <1>4, <1>7, <1>9, <1>10, <2>4 DEF Kept
<1>12. CASE (asked \ right) \cap Quiz = {}
  <2>1. row.right \subseteq y.right /\ y.right \subseteq Quiz
    BY <1>1, <1>3, <1>4, <1>12 DEF Row
  <2>2. "quiz" \in row.steps \ row'.steps => "quiz" \in row.given
    <3> SUFFICES ASSUME "quiz" \in row.steps, "quiz" \notin row.given PROVE "quiz" \in row'.steps
      OBVIOUS
    <3>1. row.right = Quiz
      BY <1>1 DEF Evidence
    <3>2. y.right = Quiz
      BY <2>1, <3>1
    <3> QED BY <1>5, <1>7, <1>8, <3>2
  <2> QED BY <1>4, <1>7, <1>9, <1>10, <2>1, <2>2 DEF Kept
<1> QED BY <1>11, <1>12

(* A line loses the shadowing step, when it is not the last. *)
LEMMA LineKept ==
  ASSUME IInv, NEW h \in Handlers, LineSaid(h), row # None
  PROVE  Kept(row, row')
<1>1. row \in Row /\ RowOr(Seed) = row /\ "shadowing" \in Steps /\ "shadowing" \notin Reading
  BY SeedType, RowOrType, ConstantsAssumption DEF IInv, TypeOK, Steps, Assessed
<1>2. CASE hand[h].index + 1 < Lines
  <2>1. row' = [row EXCEPT !.steps = row.steps \ {"shadowing"}]
    BY <1>1, <1>2, StepType DEF LineSaid
  <2>2. /\ row'.steps = row.steps \ {"shadowing"} /\ row'.heard = row.heard
        /\ row'.right = row.right /\ row'.revealed = row.revealed
    BY <1>1, <2>1 DEF Row
  <2>3. \E s \in Sessions : sess'[s].index > sess[s].index /\ sess'[s].index < Lines
    <3>1. /\ hand[h].session \in Sessions /\ hand[h].index \in 0 .. Lines - 1
          /\ sess[hand[h].session].index = hand[h].index
          /\ sess'[hand[h].session].index = hand[h].index + 1
      BY SaidMoves
    <3> QED BY <1>2, <3>1
  <2> QED BY <1>1, <2>2, <2>3 DEF Kept
<1>3. CASE ~(hand[h].index + 1 < Lines)
  <2> DEFINE y == Plus(row, "shadowing")
  <2>1. row' = Settled(y)
    BY <1>1, <1>3 DEF LineSaid
  <2>2. y \in Row /\ y = [row EXCEPT !.steps = row.steps \cup {"shadowing"}]
    BY <1>1, StepType
  <2>3. /\ y.steps = row.steps \cup {"shadowing"} /\ y.heard = row.heard
        /\ y.right = row.right /\ y.revealed = row.revealed
    BY <1>1, <2>2 DEF Row
  <2> HIDE DEF y
  <2> QED BY <1>1, <2>1, <2>2, <2>3, SettledKept
<1> QED BY <1>2, <1>3

(* Progress is lost in these ways only (the comment of                     *)
(* OnlyTheseLoseProgress, ebook_check.go 358-405, sessions.go 612-645 and  *)
(* 726-753), whatever runs at the same time.                               *)
THEOREM LossesAreThese == Spec => OnlyTheseLoseProgress
<1>1. ASSUME IInv, [Next]_vars, row # None, row' # None
      PROVE  \/ \E h \in Handlers : hand[h].op = "upsert" /\ hand'[h] = Idle
             \/ Kept(row, row')
  <2>1. TypeOK /\ row \in Row
    BY <1>1 DEF IInv, TypeOK
  <2>2. CASE row' = row
    BY <2>2 DEF Kept
  <2>3. ASSUME NEW h \in Handlers, Reveal(h) PROVE Kept(row, row')
    <3>1. row' = [row EXCEPT !.revealed = TRUE]
      BY <1>1, <2>1, <2>3, HandlerFields, RowOrType DEF Reveal
    <3>2. /\ row'.steps = row.steps /\ row'.heard = row.heard
          /\ row'.right = row.right /\ row'.revealed
      BY <2>1, <3>1 DEF Row
    <3> QED BY <3>2 DEF Kept
  <2>4. ASSUME NEW h \in Handlers, CompleteUpsert(h)
        PROVE  hand[h].op = "upsert" /\ hand'[h] = Idle
    BY <2>1, <2>4, StopType DEF CompleteUpsert
  <2>5. ASSUME NEW s \in Sessions, CompleteMerged(s) PROVE Kept(row, row')
    <3> DEFINE y == Plus(row, "speaking")
    <3>1. "speaking" \in Steps /\ row' = Settled(y)
      BY <2>5 DEF CompleteMerged, Steps, Assessed
    <3>2. y \in Row /\ y = [row EXCEPT !.steps = row.steps \cup {"speaking"}]
      BY <2>1, <3>1, StepType
    <3>3. /\ y.steps = row.steps \cup {"speaking"} /\ y.heard = row.heard
          /\ y.right = row.right /\ y.revealed = row.revealed
      BY <2>1, <3>2 DEF Row
    <3> HIDE DEF y
    <3> QED BY <2>1, <3>1, <3>2, <3>3, SettledKept
  <2>6. CASE ResetLibrary
    BY <2>2, <2>6 DEF ResetLibrary
  <2>7. ~ResetAll
    BY <1>1 DEF ResetAll
  <2> QED BY <1>1, <2>2, <2>3, <2>4, <2>5, <2>6, <2>7, ReportKept, CheckKept, LineKept, RowWriters
<1>2. IInv /\ [Next]_vars =>
        [row # None /\ row' # None =>
           \/ \E h \in Handlers : hand[h].op = "upsert" /\ hand'[h] = Idle
           \/ Kept(row, row')]_vars
  BY <1>1
<1> QED BY <1>2, InitIInv, NextIInv, PTL DEF Spec, OnlyTheseLoseProgress, Kept
=============================================================================
