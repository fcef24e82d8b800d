----------------------------- MODULE CourseUnits -----------------------------
(***************************************************************************)
(* The scripts that write the Learn Ebook course, over files that a rerun  *)
(* trusts: units_run writes the lessons that are missing, solve_run and    *)
(* review_run judge the lessons whose judgement is older than their text,  *)
(* repair_run rewrites the lessons with a finding, build_course audits     *)
(* them into the course the application embeds, and takes them back out of *)
(* it.  Each runs a pool of Workers threads; every lesson is read, given   *)
(* to a model for minutes, and only then written.                          *)
(*                                                                         *)
(* A lesson is an id, Lesson[id] its text.  Of a judgement it only matters *)
(* whether it is newer than the text (a stale one is never read), whether  *)
(* it is of that text, and what it says.  Between the scripts a person     *)
(* edits or deletes lessons, or starts from a fresh clone; a script may be *)
(* killed, also half-way through a file.                                   *)
(***************************************************************************)
EXTENDS UnitRules

CONSTANTS N,          \* lessons 1 .. N
          Lesson,     \* id -> text
          Drafts,     \* lesson number -> ids its writer may return
          Edits,      \* lesson number -> ids a person may put there
          Answers,    \* id -> sets of answers a second model may give
          Terms,      \* lesson number -> the target words of the syllabus
          Theme,      \* lesson number -> the theme of the syllabus
          Workers,
          Attempts,   \* calls of the writer (4) and of a judge (3)
          MaxEdits, MaxKills    \* bounds

ASSUME CourseAssumption ==
  /\ N \in Nat \ {0} /\ Workers \in Nat \ {0}
  /\ Attempts \in [{"write", "judge"} -> Nat \ {0}]

Units == 1 .. N
None == "none"
Torn == "torn"
Ids == DOMAIN Lesson

(* What the scripts read has its shape: the model answers by a schema, and *)
(* a script does not get past a file that has another.  A lesson is no     *)
(* mark of a file that is missing or cut short.                            *)
ASSUME LessonAssumption ==
  /\ {None, Torn} \cap Ids = {}
  /\ \A id \in Ids : LessonRead(Lesson[id]) /\ \A r \in Answers[id] : SolutionRead(Lesson[id], r)
  /\ \A o \in Units : Drafts[o] \cup Edits[o] \subseteq Ids

(* syllabus_run takes a batch only with ten terms a lesson, and replaces   *)
(* terms one by one; it looks at no theme.                                 *)
ASSUME SyllabusAssumption ==
  \A o \in Units : Terms[o] \in Seq(Texts) /\ Len(Terms[o]) = 10 /\ Theme[o] \in Themes

VARIABLES units,    \* units/ebook-NNN.json: an id, None or Torn
          solves, reviews,   \* solves/ and reviews/: a judgement each
          course,   \* learn_ebook_v2.json: lesson number -> id, None or Torn
          script,   \* the script that runs, or None
          job,      \* what its thread for each lesson is doing
          raced,    \* ghost: lessons a person changed while a thread worked on them
          spoiled,  \* ghost: lessons cut short by a kill or put there by a person
          edits, kills
vars == <<units, solves, reviews, course, script, job, raced, spoiled, edits, kills>>
files == <<units, solves, reviews, course>>
people == <<raced, spoiled, edits, kills>>

Todo == [at |-> "todo", text |-> None, tries |-> 0]
Asking(text) == [at |-> "asking", text |-> text, tries |-> 0]
Done(result) == [at |-> result, text |-> None, tries |-> 0]
Idle == [o \in Units |-> Done("ok")]
Open == {"todo", "asking"}
Pools == {"units_run", "solve_run", "review_run", "repair_run"}

(* A judgement on disk: none, also one older than its lesson, which nobody *)
(* reads; torn; or whole, and then what it says, whether it is of the text *)
(* on disk, and of a solve without a mismatch the answers.                 *)
NoAnswers == [quiz |-> <<>>, listening |-> <<>>]
Judgement(state) == [state |-> state, ok |-> FALSE, right |-> FALSE, answers |-> NoAnswers]
Verdict(ok, right, answers) ==
  [state |-> "whole", ok |-> ok, right |-> right, answers |-> IF ok /\ right THEN answers ELSE NoAnswers]
Unread(j) == j.state = "none"
Unjudged == Judgement("none")

(* What the rules say of every text, computed once. *)
Sound == [o \in Units |-> {id \in Ids : validate_unit(normalize_unit(Lesson[id]), Terms[o])}]
Agreeing == [id \in Ids |-> {r \in Answers[id] : compare(Lesson[id], r)}]
Valid(o, id) == id \in Sound[o]

NoCourse(file) == [o \in Units |-> file]

PutUnit_TimesIgnored(o, file) ==
  /\ units' = [units EXCEPT ![o] = file]
  /\ solves' = [solves EXCEPT ![o] = [@ EXCEPT !.right = FALSE, !.answers = NoAnswers]]
  /\ reviews' = [reviews EXCEPT ![o] = [@ EXCEPT !.right = FALSE]]

PutUnit(o, file) ==
  /\ units' = [units EXCEPT ![o] = file]
  /\ solves' = [solves EXCEPT ![o] = Unjudged]
  /\ reviews' = [reviews EXCEPT ![o] = Unjudged]

Init ==
  /\ units = [o \in Units |-> None]
  /\ solves = [o \in Units |-> Unjudged] /\ reviews = solves
  /\ course = NoCourse(None)
  /\ script = None /\ job = Idle
  /\ raced = {} /\ spoiled = {} /\ edits = 0 /\ kills = 0

-----------------------------------------------------------------------------
(* A script is started over all lessons; its threads take them in order.   *)
Run(name) ==
  /\ script = None
  /\ script' = name /\ job' = [o \in Units |-> Todo]
  /\ UNCHANGED <<files, people>>

Busy == {o \in Units : job[o].at = "asking"}

(* The main thread reads the results in order, and has come to one that a  *)
(* thread has not returned but raised.                                     *)
Raised == \E o \in Units : job[o].at = "crash" /\ \A p \in Units : p < o => job[p].at \notin Open

(* The pool hands out the next lesson. *)
Take(o, name) ==
  /\ script = name /\ job[o].at = "todo"
  /\ \A p \in Units : p < o => job[p].at # "todo"
  /\ Cardinality(Busy) < Workers

Becomes(o, j) == job' = [job EXCEPT ![o] = j]
Left(o, result) == Becomes(o, Done(result)) /\ UNCHANGED <<files, script, people>>
Ask(o, text) == Becomes(o, Asking(text)) /\ UNCHANGED <<files, script, people>>

(* Then the lessons that no thread has begun are cancelled. *)
Cancel(o) ==
  /\ script \in Pools /\ Raised /\ job[o].at = "todo"
  /\ Left(o, "cancelled")

Finish ==
  /\ script \in Pools /\ \A o \in Units : job[o].at \notin Open
  /\ script' = None /\ job' = Idle
  /\ UNCHANGED <<files, people>>

(* A call that fails, or an answer that is rejected, costs an attempt. *)
Again(o, kind) ==
  /\ job[o].at = "asking"
  /\ IF job[o].tries + 1 < Attempts[kind]
     THEN Becomes(o, [job[o] EXCEPT !.tries = @ + 1])
     ELSE Becomes(o, Done("FAILED"))
  /\ UNCHANGED <<files, script, people>>

(* units_run.run *)
UnitsTake(o) ==
  /\ Take(o, "units_run")
  /\ IF units[o] # None THEN Left(o, "cached") ELSE Ask(o, None)

WriteUnit_LastDraft(o, id) ==
  /\ script \in {"units_run", "repair_run"} /\ job[o].at = "asking"
  /\ Valid(o, id) \/ job[o].tries + 1 = Attempts["write"]
  /\ PutUnit(o, id) /\ Becomes(o, Done("ok"))
  /\ UNCHANGED <<course, script, people>>

(* The writer of units_run and of repair_run, gated by validate_unit. *)
WriteUnit(o, id) ==
  /\ script \in {"units_run", "repair_run"} /\ job[o].at = "asking"
  /\ Valid(o, id)
  /\ PutUnit(o, id) /\ Becomes(o, Done("ok"))
  /\ UNCHANGED <<course, script, people>>

(* The call failed, or its lesson was rejected: both only cost an attempt. *)
WriterAgain(o) == script \in {"units_run", "repair_run"} /\ Again(o, "write")

(* What a judge does with a judgement that is not stale: a torn one cannot *)
(* be read.                                                                *)
Saved(j) == IF j.state = "torn" THEN "crash" ELSE IF j.ok THEN "ok" ELSE "fault"

(* solve_run.run *)
SolveTake(o) ==
  /\ Take(o, "solve_run")
  /\ IF units[o] = None THEN Left(o, "nounit")
     ELSE IF Unread(solves[o]) THEN IF units[o] = Torn THEN Left(o, "crash") ELSE Ask(o, units[o])
     ELSE Left(o, Saved(solves[o]))

Solve(o, r) ==
  /\ script = "solve_run" /\ job[o].at = "asking"
  /\ LET ok == r \in Agreeing[job[o].text]
     IN /\ solves' = [solves EXCEPT ![o] = Verdict(ok, job[o].text = units[o], r)]
        /\ Becomes(o, Done(IF ok THEN "ok" ELSE "fault"))
  /\ UNCHANGED <<units, reviews, course, script, people>>

(* review_run.run: the text goes to the editor as it is, torn or not. *)
ReviewTake(o) ==
  /\ Take(o, "review_run")
  /\ IF units[o] = None THEN Left(o, "nounit")
     ELSE IF Unread(reviews[o]) THEN Ask(o, units[o])
     ELSE Left(o, Saved(reviews[o]))

Review(o, ok) ==
  /\ script = "review_run" /\ job[o].at = "asking"
  /\ reviews' = [reviews EXCEPT ![o] = Verdict(ok, job[o].text = units[o], NoAnswers)]
  /\ Becomes(o, Done(IF ok THEN "ok" ELSE "fault"))
  /\ UNCHANGED <<units, solves, course, script, people>>

JudgeFails(o) == script \in {"solve_run", "review_run"} /\ Again(o, "judge")

(* repair_run.run: it wants a review, and adds a solve if there is one. *)
Read(o) == {reviews[o]} \cup {j \in {solves[o]} : ~Unread(j)}
RepairTake_Always(o) ==
  /\ Take(o, "repair_run")
  /\ IF units[o] = None \/ Unread(reviews[o]) THEN Left(o, "skip")
     ELSE IF \E j \in Read(o) : j.state = "torn" THEN Left(o, "crash")
     ELSE Ask(o, units[o])

RepairTake(o) ==
  /\ Take(o, "repair_run")
  /\ IF units[o] = None \/ Unread(reviews[o]) THEN Left(o, "skip")
     ELSE IF \E j \in Read(o) : j.state = "torn" THEN Left(o, "crash")
     ELSE IF \A j \in Read(o) : j.ok THEN Left(o, "pass")
     ELSE Ask(o, units[o])

-----------------------------------------------------------------------------
(* build_course.py: every lesson there and sound, and what no lesson can   *)
(* see of itself: terms, examples and explanations of their own.  path_order *)
(* is the plan's, which no script writes.                                  *)
Apart(u, w) ==
  /\ Norms(TermsOf(u)) \cap Norms(TermsOf(w)) = {}
  /\ Norms(Sentences(u)) \cap Norms(Sentences(w)) = {}
  /\ norm(u.explanation_th) # norm(w.explanation_th)
NoTermTwice(u) == Cardinality(Norms(TermsOf(u))) = Len(u.vocabulary)
audit ==
  /\ \A o \in Units : NoTermTwice(Lesson[units[o]])
  /\ \A o, p \in Units : o # p => Apart(Lesson[units[o]], Lesson[units[p]])

Buildable == (\A o \in Units : Valid(o, units[o])) /\ audit
Build ==
  /\ script = None /\ Buildable
  /\ course' = units
  /\ UNCHANGED <<units, solves, reviews, script, job, people>>

(* build_course.py --restore-units *)
RestoreUnits ==
  /\ script = None /\ \A o \in Units : course[o] \in Ids
  /\ \E o \in Units : units[o] = None
  /\ units' = [o \in Units |-> IF units[o] = None THEN course[o] ELSE units[o]]
  /\ solves' = [o \in Units |-> IF units[o] = None THEN Unjudged ELSE solves[o]]
  /\ reviews' = [o \in Units |-> IF units[o] = None THEN Unjudged ELSE reviews[o]]
  /\ UNCHANGED <<course, script, job, people>>

-----------------------------------------------------------------------------
(* A person, at any time; and a kill, with one file cut short or none.     *)
ByHand(o) ==
  /\ edits < MaxEdits /\ edits' = edits + 1
  /\ raced' = IF script # None /\ job[o].at # "todo" THEN raced \cup {o} ELSE raced
  /\ UNCHANGED <<course, script, job, kills>>

Edit(o, id) ==
  /\ units[o] # None /\ units[o] # id
  /\ ByHand(o) /\ PutUnit(o, id) /\ spoiled' = spoiled \cup {o}

DeleteUnit(o) ==
  /\ units[o] # None
  /\ ByHand(o) /\ PutUnit(o, None) /\ spoiled' = spoiled \ {o}

FreshClone ==
  /\ script = None /\ edits < MaxEdits /\ edits' = edits + 1
  /\ units' = [o \in Units |-> None]
  /\ solves' = [o \in Units |-> Unjudged] /\ reviews' = solves'
  /\ raced' = {} /\ spoiled' = {}
  /\ UNCHANGED <<course, script, job, kills>>

Cut(o) ==
  CASE script = "solve_run"  ->
         solves' = [solves EXCEPT ![o] = Judgement("torn")] /\ UNCHANGED <<units, reviews, spoiled>>
    [] script = "review_run" ->
         reviews' = [reviews EXCEPT ![o] = Judgement("torn")] /\ UNCHANGED <<units, solves, spoiled>>
    [] OTHER                 -> PutUnit(o, Torn) /\ spoiled' = spoiled \cup {o}

Kill ==
  /\ script # None /\ kills < MaxKills /\ kills' = kills + 1
  /\ script' = None /\ job' = Idle
  /\ UNCHANGED <<course, raced, edits>>
  /\ \/ UNCHANGED <<units, solves, reviews, spoiled>>
     \/ \E o \in Busy : Cut(o)

KillBuild ==
  /\ script = None /\ kills < MaxKills /\ kills' = kills + 1
  /\ Buildable /\ course' = NoCourse(Torn)
  /\ UNCHANGED <<units, solves, reviews, script, job, raced, spoiled, edits>>

-----------------------------------------------------------------------------
Thread(o) ==
  \/ UnitsTake(o) \/ SolveTake(o) \/ ReviewTake(o) \/ RepairTake(o) \/ Cancel(o)
  \/ \E id \in Drafts[o] : WriteUnit(o, id)
  \/ WriterAgain(o)
  \/ script = "solve_run" /\ job[o].at = "asking" /\ \E r \in Answers[job[o].text] : Solve(o, r)
  \/ \E ok \in BOOLEAN : Review(o, ok)
  \/ JudgeFails(o)

Person ==
  \/ \E name \in Pools : Run(name)
  \/ Build \/ RestoreUnits
  \/ \E o \in Units : DeleteUnit(o) \/ \E id \in Edits[o] : Edit(o, id)
  \/ FreshClone \/ Kill \/ KillBuild

Next == Finish \/ Person \/ \E o \in Units : Thread(o)

Spec == Init /\ [][Next]_vars

-----------------------------------------------------------------------------
(* A script over all lessons that reports no fault and no failure has      *)
(* judged every text that is on disk now, and found it right: README, "the *)
(* course was released with no open finding".  Not a lesson that a person  *)
(* changes while the script runs: the judgement is newer, of the old text. *)
Judged(j) == j.state = "whole" /\ j.ok /\ j.right
EndsClean(name) == script = name /\ script' = None /\ \A o \in Units : job[o].at = "ok"
CleanRunIsJudged ==
  [][\A o \in Units \ raced :
       /\ EndsClean("solve_run") => Judged(solves[o])
       /\ EndsClean("review_run") => Judged(reviews[o])]_vars

(* repair_run.py:7-12: a lesson is rewritten only for a finding about the  *)
(* very text that is replaced, and never one that was repaired since.      *)
Faulty(j) == j.state = "whole" /\ j.right /\ ~j.ok
Answered(o) == job[o].text = units[o] /\ (Faulty(reviews[o]) \/ Faulty(solves[o]))
Repaired(o) == script = "repair_run" /\ job[o].at = "asking" /\ job'[o].at = "ok"
RepairsAnswerFindings == [][\A o \in Units \ raced : Repaired(o) => Answered(o)]_vars

(* A units_run that reports no failure leaves every lesson there and sound *)
(* ("a rerun only does what is missing"), except what a person put there   *)
(* and a file that a kill cut short, which later runs take for finished.   *)
Delivered == script = "units_run" /\ script' = None /\ \A o \in Units : job[o].at \in {"ok", "cached"}
UnitsRunDelivers ==
  [][Delivered => \A o \in Units \ (spoiled \cup raced) : Valid(o, units[o])]_vars

(* The application starts with every course build_course writes, up to the *)
(* named gaps between the writer's rules and its own.                      *)
Startable ==
  [o \in Units |->
    {id \in Ids : LET u == normalize_unit(Lesson[id])
                  IN StartsWith(u, Theme[o]) \/ GapIn(u, Theme[o])}]
(* Course.Validate: no example twice and every explanation its own.  It    *)
(* wants 1,400 different terms of 1,450; apart in pairs they all differ.   *)
StartApart(u, w) ==
  /\ Exacts(TermsOf(u)) \cap Exacts(TermsOf(w)) = {}
  /\ Exacts(Sentences(u)) \cap Exacts(Sentences(w)) = {}
  /\ exact(u.explanation_th) # exact(w.explanation_th)
StartRefusesOnlyGaps ==
  (\A o \in Units : course[o] \in Ids) =>
    /\ \A o \in Units : course[o] \in Startable[o]
    /\ \A o, p \in Units : o # p => StartApart(Lesson[course[o]], Lesson[course[p]])

(* solve_run.py:3-5: where a second solver is found to agree with the key, *)
(* the application marks that answer right too, for the kinds it marks     *)
(* alone.  Only an answer without a word is let pass and would be marked   *)
(* wrong: an empty order, or such an answer that the key has itself.       *)
Wordless(q) == q.kind = "reorder" \/ <<>> \in AcceptedKeys(q)
RightFor(q, t) == courseAnswerAccepted(q, t) \/ (key(t) = <<>> /\ Wordless(q))
Accepted ==
  [id \in Ids |->
    {r \in Agreeing[id] :
       \A i \in DOMAIN Lesson[id].quiz :
         LET q == Lesson[id].quiz[i]
         IN q.kind \in {"choice", "fill", "reorder"} => \A t \in Each(r.quiz[i]) : RightFor(q, t)}]
SolvedMeansAccepted ==
  \A o \in Units : Judged(solves[o]) => solves[o].answers \in Accepted[units[o]]

=============================================================================
