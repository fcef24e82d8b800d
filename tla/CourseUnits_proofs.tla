------------------------- MODULE CourseUnits_proofs -------------------------
(***************************************************************************)
(* Proofs about the rules for a lesson and about the scripts that write    *)
(* the course, for any number of lessons, threads, calls, changes by hand  *)
(* and kills, and for lessons and answers of any content.                  *)
(***************************************************************************)
EXTENDS CourseUnits, FiniteSetTheorems, SequenceTheorems, TLAPS
-----------------------------------------------------------------------------
(* The rules: what the writer's let through, the application starts with   *)

(* Texts that differ for norm differ for exact, which sees more.  So where *)
(* norm finds as many texts as there are, exact does too.                  *)
LEMMA ExactlyAsMany ==
  ASSUME NEW S, NEW s \in Seq(S), Cardinality(Norms(s)) = Len(s)
  PROVE  Cardinality(Exacts(s)) = Len(s)
<1> DEFINE n == Len(s)
           f == [i \in 1 .. n |-> exact(s[i])]
           g == [e \in Exacts(s) |-> <<e[1], e[2]>>]
<1>1. n \in Nat /\ DOMAIN s = 1 .. n
  OBVIOUS
<1>2. IsFiniteSet(1 .. n) /\ Cardinality(1 .. n) = n
  <2> HIDE DEF n
  <2>1. /\ IsFiniteSet(1 .. n)
        /\ Cardinality(1 .. n) = IF 1 > n THEN 0 ELSE n - 1 + 1
    BY <1>1, FS_Interval
  <2> QED BY <1>1, <2>1
<1>3. f \in Surjection(1 .. n, Exacts(s))
  <2>1. \A i \in 1 .. n : f[i] \in Exacts(s)
    BY <1>1 DEF Exacts, Each
  <2>2. \A e \in Exacts(s) : \E i \in 1 .. n : f[i] = e
    BY <1>1 DEF Exacts, Each
  <2> QED BY <2>1, <2>2 DEF Surjection
<1>4. IsFiniteSet(Exacts(s)) /\ Cardinality(Exacts(s)) <= n
  <2> HIDE DEF f, n
  <2> QED BY <1>2, <1>3, FS_Surjection
<1>5. g \in Surjection(Exacts(s), Norms(s))
  <2>1. \A t : <<exact(t)[1], exact(t)[2]>> = norm(t)
    BY DEF exact, norm
  <2>2. \A e \in Exacts(s) : g[e] \in Norms(s)
    BY <2>1 DEF Exacts, Norms
  <2>3. \A m \in Norms(s) : \E e \in Exacts(s) : g[e] = m
    BY <2>1 DEF Exacts, Norms
  <2> QED BY <2>2, <2>3 DEF Surjection
<1>6. Cardinality(Norms(s)) <= Cardinality(Exacts(s))
  <2> HIDE DEF g
  <2> QED BY <1>4, <1>5, FS_Surjection
<1>7. Cardinality(Exacts(s)) \in Nat
  BY <1>4, FS_CardinalityType
<1> QED BY <1>1, <1>4, <1>6, <1>7

(* Of a lesson that is read, normalize_unit changes no text.               *)
LEMMA NormalizeKeepsTexts ==
  ASSUME NEW u, LessonRead(u)
  PROVE  LET v == normalize_unit(u)
         IN /\ v.examples = u.examples /\ v.vocabulary = u.vocabulary
            /\ \A q \in Each(v.quiz) : q.options \in Seq(Texts)
<1> DEFINE Q == [i \in DOMAIN u.quiz |->
                  IF u.quiz[i].kind = "reorder" /\ u.quiz[i].answers # <<>>
                  THEN [u.quiz[i] EXCEPT !.bank = IF u.quiz[i].alike THEN "in order" ELSE "shuffled"]
                  ELSE u.quiz[i]]
           v == [u EXCEPT !.quiz = Q]
<1>1. v = normalize_unit(u)
  BY DEF normalize_unit
<1>2. u \in Lessons
  BY DEF LessonRead
<1>3. \A i \in DOMAIN u.quiz : Q[i].options \in Seq(Texts)
  <2> TAKE i \in DOMAIN u.quiz
  <2>1. u.quiz[i] \in QuizItems
    BY <1>2 DEF Lessons
  <2>2. u.quiz[i].options \in Seq(Texts)
    BY <2>1 DEF QuizItems
  <2>3. \A b : [u.quiz[i] EXCEPT !.bank = b].options = u.quiz[i].options
    BY <2>1 DEF QuizItems
  <2> QED BY <2>2, <2>3
<1> HIDE DEF Q
<1>4. v.examples = u.examples /\ v.vocabulary = u.vocabulary /\ v.quiz = Q
  BY <1>2 DEF Lessons
<1>5. DOMAIN Q = DOMAIN u.quiz
  BY DEF Q
<1> HIDE DEF v
<1>6. \A q \in Each(v.quiz) : q.options \in Seq(Texts)
  BY <1>3, <1>4, <1>5 DEF Each
<1> QED BY <1>1, <1>4, <1>6

(* exact tells texts apart that norm tells apart. *)
LEMMA ExactSeesMore ==
  /\ \A t, w : exact(t) = exact(w) => norm(t) = norm(w)
  /\ \A s, t : norm(t) \notin Norms(s) => exact(t) \notin Exacts(s)
  /\ \A s, w : Norms(s) \cap Norms(w) = {} => Exacts(s) \cap Exacts(w) = {}
<1>1. \A t, w : exact(t) = exact(w) => norm(t) = norm(w)
  BY DEF exact, norm
<1> QED BY <1>1 DEF Exacts, Norms

(* The examples and the terms of a lesson that is read are texts, as many  *)
(* as there are entries.                                                   *)
LEMMA TextsOfLesson ==
  ASSUME NEW u, u.examples \in Seq([en : Texts, th : BOOLEAN]), u.vocabulary \in Seq(Vocabulary)
  PROVE  /\ Sentences(u) \in Seq(Texts) /\ Len(Sentences(u)) = Len(u.examples)
         /\ TermsOf(u) \in Seq(Texts) /\ Len(TermsOf(u)) = Len(u.vocabulary)
<1>1. ASSUME NEW S, NEW s \in Seq(S), NEW f, f = [i \in DOMAIN s |-> f[i]], \A i \in DOMAIN s : f[i] \in Texts
      PROVE  f \in Seq(Texts) /\ Len(f) = Len(s)
  <2>1. Len(s) \in Nat /\ DOMAIN s = 1 .. Len(s)
    OBVIOUS
  <2>2. f \in [1 .. Len(s) -> Texts]
    BY <1>1, <2>1
  <2> QED BY <2>1, <2>2
<1>2. \A S : \A s \in Seq(S) : \A i \in DOMAIN s : s[i] \in S
  OBVIOUS
<1>3. \A i \in DOMAIN u.examples : u.examples[i].en \in Texts
  <2> TAKE i \in DOMAIN u.examples
  <2>1. u.examples[i] \in [en : Texts, th : BOOLEAN]
    BY <1>2
  <2> QED BY <2>1
<1>4. \A i \in DOMAIN u.vocabulary : u.vocabulary[i].term \in Texts
  <2> TAKE i \in DOMAIN u.vocabulary
  <2>1. u.vocabulary[i] \in Vocabulary
    BY <1>2
  <2> QED BY <2>1 DEF Vocabulary
<1>5. Sentences(u) \in Seq(Texts) /\ Len(Sentences(u)) = Len(u.examples)
  BY <1>1, <1>3 DEF Sentences
<1>6. TermsOf(u) \in Seq(Texts) /\ Len(TermsOf(u)) = Len(u.vocabulary)
  BY <1>1, <1>4 DEF TermsOf
<1> QED BY <1>5, <1>6

(* An item that the writer's rules let through, with a prompt and without  *)
(* a blank option, is one the application takes.                           *)
LEMMA ItemSuffices ==
  ASSUME NEW u, NEW q, q.options \in Seq(Texts), ItemSound(u, q), ~Blank(q.prompt),
         q.kind = "choice" => \A x \in Each(q.options) : ~Blank(x)
  PROVE  ItemStarts(q)
<1>1. ASSUME q.kind = "choice"
      PROVE  Cardinality(Exacts(q.options)) = 3 /\ exact(q.answers[1]) \in Exacts(q.options)
  <2>1. Cardinality(Norms(q.options)) = Len(q.options) /\ Len(q.options) = 3
    BY <1>1 DEF ItemSound
  <2>2. Cardinality(Exacts(q.options)) = 3
    BY <2>1, ExactlyAsMany
  <2>3. q.answers[1] \in Each(q.options)
    BY <1>1 DEF ItemSound
  <2> QED BY <2>2, <2>3 DEF Exacts
<1>2. q.kind = "reorder" => q.tokens >= 4
  BY DEF ItemSound
<1> QED BY <1>1, <1>2 DEF ItemSound, ItemStarts

(* A lesson that the writer's rules and the audit let through is one the   *)
(* application starts with, but for the gaps that are named.               *)
LEMMA RulesSuffice ==
  ASSUME NEW u, LessonRead(u), NoTermTwice(u), NEW theme,
         NEW terms \in Seq(Texts), Len(terms) = 10, validate_unit(normalize_unit(u), terms)
  PROVE  StartsWith(normalize_unit(u), theme) \/ GapIn(normalize_unit(u), theme)
<1> SUFFICES ASSUME ~GapIn(normalize_unit(u), theme) PROVE StartsWith(normalize_unit(u), theme)
  OBVIOUS
<1>1. PICK v : v = normalize_unit(u)
  OBVIOUS
<1>2. /\ FieldsSound(v) /\ MistakesSound(v) /\ ExamplesSound(v) /\ VocabularySound(v, terms)
      /\ QuizSound(v) /\ ListeningSound(v) /\ ReviewSound(v) /\ ~GapIn(v, theme)
  BY <1>1 DEF validate_unit
<1>3. /\ v.examples = u.examples /\ v.vocabulary = u.vocabulary
      /\ \A q \in Each(v.quiz) : q.options \in Seq(Texts)
  BY <1>1, NormalizeKeepsTexts
<1>4. /\ v.examples \in Seq([en : Texts, th : BOOLEAN]) /\ v.vocabulary \in Seq(Vocabulary)
      /\ \A w \in Each(v.vocabulary) : \A t \in {w.term, w.example} : t.words # {} => t.said # <<>>
  BY <1>3 DEF LessonRead, Lessons
<1>5. TeachingStarts(v, theme)
  <2>1. v.length >= 220 => v.length >= 200
    <3>1. v.length = u.length
      BY <1>1 DEF normalize_unit, LessonRead, Lessons
    <3>2. u.length \in Nat
      BY DEF LessonRead, Lessons
    <3> QED BY <3>1, <3>2
  <2>2. ~Blank(theme.en) /\ theme.th /\ \A m \in Each(v.mistakes) : ~Blank(m.wrong)
    BY <1>2 DEF GapIn
  <2> QED BY <1>2, <2>1, <2>2 DEF FieldsSound, MistakesSound, TeachingStarts
<1>6. ExamplesStart(v)
  <2>1. Cardinality(Norms(Sentences(v))) = Len(Sentences(v))
    BY <1>2, <1>4, TextsOfLesson DEF ExamplesSound
  <2>2. Cardinality(Exacts(Sentences(v))) = Len(v.examples)
    BY <1>4, <2>1, TextsOfLesson, ExactlyAsMany
  <2> QED BY <1>2, <2>2 DEF ExamplesSound, ExamplesStart
<1>7. VocabularyStarts(v)
  <2>1. Cardinality(Norms(TermsOf(v))) = Len(TermsOf(v))
    <3>1. TermsOf(v) = TermsOf(u)
      BY <1>3 DEF TermsOf
    <3> QED BY <1>3, <1>4, <3>1, TextsOfLesson DEF NoTermTwice
  <2>2. Cardinality(Exacts(TermsOf(v))) = Len(v.vocabulary)
    BY <1>4, <2>1, TextsOfLesson, ExactlyAsMany
  <2>3. ASSUME NEW w \in Each(v.vocabulary)
        PROVE  ~Blank(w.term) /\ w.meaning_th /\ ~Blank(w.example) /\ w.example_th
    <3>1. w.meaning_th /\ w.example_th /\ has_term(w.term, w.example.words)
      BY <1>2 DEF VocabularySound
    <3>2. w.term.words # {} /\ w.example.words # {}
      BY <3>1 DEF has_term
    <3>3. w.term.said # <<>> /\ w.example.said # <<>>
      BY <1>4, <3>2
    <3> QED BY <3>1, <3>3 DEF Blank
  <2>4. Len(v.vocabulary) = 10
    BY <1>2 DEF VocabularySound
  <2> QED BY <2>2, <2>3, <2>4 DEF VocabularyStarts
<1>8. QuizStarts(v)
  <2>1. ASSUME NEW q \in Each(v.quiz) PROVE ItemStarts(q)
    <3>1. ItemSound(v, q)
      BY <1>2 DEF QuizSound
    <3>2. ~Blank(q.prompt) /\ (q.kind = "choice" => \A x \in Each(q.options) : ~Blank(x))
      BY <1>2 DEF GapIn
    <3> QED BY <1>3, <3>1, <3>2, ItemSuffices
  <2> QED BY <1>2, <2>1 DEF QuizSound, QuizStarts
<1>9. ListeningStarts(v)
  BY <1>2, ExactSeesMore DEF ListeningSound, ListeningStarts, GapIn, Copied
<1>10. ReviewStarts(v)
  BY <1>2, ExactSeesMore DEF ReviewSound, ReviewStarts, Copied
<1>11. SpeakingStarts(v)
  BY <1>2 DEF FieldsSound, SpeakingStarts
<1>12. \A t \in Proofread(v, theme) : ~t.slip
  BY <1>2 DEF GapIn
<1>13. StartsWith(v, theme)
  BY <1>5, <1>6, <1>7, <1>8, <1>9, <1>10, <1>11, <1>12 DEF StartsWith
<1> QED BY <1>1, <1>13

-----------------------------------------------------------------------------
(* The rules: what the solver lets pass, the application marks right       *)

(* The marks of one item: the learner who answers as the second model did  *)
(* is marked right, unless there is no word in the answer.                 *)
LEMMA AgreedIsRight ==
  ASSUME NEW q \in QuizItems, q.kind \in {"choice", "fill", "reorder"}, NEW a \in Seq(Texts),
         q.kind = "choice" => q.answers # <<>>,
         q.kind # "reorder" => Len(a) = 1,
         Agrees(q, a), NEW t \in Each(a)
  PROVE  RightFor(q, t)
<1>1. q.kind # "reorder" => t = a[1]
  BY DEF Each
<1>2. q.prompt \in Texts /\ q.answers \in Seq(Texts) /\ t \in Texts
  BY DEF QuizItems, Each
<1>3. CASE q.kind = "choice"
  <2>1. a[1] = q.answers[1]
    BY <1>3 DEF Agrees
  <2>2. q.answers[1] \in Each(q.answers)
    BY <1>2, <1>3 DEF Each
  <2>3. key(t) \in AcceptedKeys(q)
    BY <1>1, <1>3, <2>1, <2>2 DEF AcceptedKeys
  <2> QED BY <2>3 DEF RightFor, courseAnswerAccepted, Wordless
<1>4. CASE q.kind = "fill"
  <2>1. key(t) \in AcceptedKeys(q) \cup FilledKeys(q)
    BY <1>1, <1>4 DEF Agrees
  <2>2. ASSUME key(t) = <<>>, key(t) \in FilledKeys(q) PROVE <<>> \in AcceptedKeys(q)
    <3>1. PICK x \in Each(q.answers) : key(Filled(q, x)) = <<>>
      BY <2>2 DEF FilledKeys
    <3>2. x \in Texts
      BY <1>2 DEF Each
    <3>3. x.said \in Seq(STRING) /\ q.prompt.said \in Seq(STRING)
      BY <1>2, <3>2 DEF Texts
    <3>4. Filled(q, x).said = q.prompt.said \o x.said
      BY <3>2 DEF Filled, Texts
    <3>5. x.said = <<>>
      <4>1. q.prompt.said \o x.said = <<>>
        BY <3>1, <3>4 DEF key
      <4> QED BY <3>3, <4>1, ConcatEqualIffEmpty
    <3> QED BY <3>5 DEF AcceptedKeys, key
  <2> QED BY <1>4, <2>1, <2>2 DEF RightFor, courseAnswerAccepted, Wordless, Blanked
<1>5. CASE q.kind = "reorder"
  <2>1. key(t) # <<>> => key(t) \in AcceptedKeys(q)
    BY <1>5 DEF Agrees
  <2> QED BY <1>5, <2>1 DEF RightFor, courseAnswerAccepted, Wordless
<1> QED BY <1>3, <1>4, <1>5

-----------------------------------------------------------------------------
(* What is always so *)

Marked == Ids \cup {None, Torn}
Judgements == [state : {"none", "torn", "whole"}, ok : BOOLEAN, right : BOOLEAN, answers : Solutions]
Places == Open \cup {"ok", "cached", "nounit", "crash", "cancelled", "skip", "pass", "fault", "FAILED"}
Jobs == [at : Places, text : Marked, tries : Nat]

TypeOK ==
  /\ units \in [Units -> Marked] /\ course \in [Units -> Marked]
  /\ solves \in [Units -> Judgements] /\ reviews \in [Units -> Judgements]
  /\ script \in Pools \cup {None} /\ job \in [Units -> Jobs]
  /\ raced \subseteq Units /\ spoiled \subseteq Units

(* The files of a lesson.  Left to the scripts, a judgement is of the text *)
(* that is there, and the text is sound; where a solve without a mismatch  *)
(* is of the text, it has answers that agree with it.                      *)
Right(o) ==
  /\ o \notin raced /\ solves[o].state = "whole" => solves[o].right
  /\ o \notin raced /\ reviews[o].state = "whole" => reviews[o].right
  /\ Judged(solves[o]) => units[o] \in Ids /\ solves[o].answers \in Agreeing[units[o]]
  /\ o \notin spoiled => units[o] = None \/ Valid(o, units[o])

(* What a thread knows that is at j: the text it asks about is the one on  *)
(* disk, a repair has its finding, and what it reports is there.           *)
Knows(o, j) ==
  /\ script = "solve_run" /\ j.at = "asking" => j.text \in Ids
  /\ o \notin raced =>
       /\ script \in {"solve_run", "review_run", "repair_run"} /\ j.at = "asking" => j.text = units[o]
       /\ script = "repair_run" /\ j.at = "asking" => Faulty(reviews[o]) \/ Faulty(solves[o])
       /\ script = "solve_run" /\ j.at = "ok" => Judged(solves[o])
       /\ script = "review_run" /\ j.at = "ok" => Judged(reviews[o])
       /\ script = "units_run" /\ j.at \in {"ok", "cached"} => units[o] # None

(* What is built was audited. *)
CourseSound ==
  (\A o \in Units : course[o] \in Ids) =>
    /\ \A o \in Units : Valid(o, course[o]) /\ NoTermTwice(Lesson[course[o]])
    /\ \A o, p \in Units : o # p => Apart(Lesson[course[o]], Lesson[course[p]])

IInv == TypeOK /\ CourseSound /\ \A o \in Units : Right(o) /\ Knows(o, job[o])

(* The jobs and the judgements that the scripts write have their types.    *)
LEMMA RowsTyped ==
  /\ Todo \in Jobs
  /\ \A text \in Marked : Asking(text) \in Jobs
  /\ \A place \in Places : Done(place) \in Jobs
  /\ \A state \in {"none", "torn", "whole"} : Judgement(state) \in Judgements
  /\ \A ok, right \in BOOLEAN : \A r \in Solutions : Verdict(ok, right, r) \in Judgements
<1>1. NoAnswers \in Solutions
  <2>1. <<>> \in Seq(Seq(Texts)) /\ <<>> \in Seq(STRING)
    OBVIOUS
  <2> QED BY <2>1 DEF NoAnswers, Solutions
<1>2. None \in Marked
  BY DEF Marked
<1>3. Todo \in Jobs /\ \A text \in Marked : Asking(text) \in Jobs
  BY <1>2 DEF Todo, Asking, Jobs, Places, Open
<1>4. \A place \in Places : Done(place) \in Jobs
  BY <1>2 DEF Done, Jobs
<1>5. \A state \in {"none", "torn", "whole"} : Judgement(state) \in Judgements
  BY <1>1 DEF Judgement, Judgements
<1>6. ASSUME NEW ok \in BOOLEAN, NEW right \in BOOLEAN, NEW r \in Solutions
      PROVE  Verdict(ok, right, r) \in Judgements
  BY <1>1, <1>6 DEF Verdict, Judgements
<1> QED BY <1>3, <1>4, <1>5, <1>6

(* A sound id is one, and no mark. *)
LEMMA SoundIds ==
  /\ \A o \in Units : \A id : Valid(o, id) => id \in Ids
  /\ None \in Marked \ Ids /\ Torn \in Marked \ Ids /\ Ids \subseteq Marked /\ None # Torn
BY LessonAssumption DEF Valid, Sound, Marked, None, Torn

(* A step of one lesson's files and of its thread. *)
LEMMA OneLesson ==
  ASSUME IInv, NEW o \in Units, script' = script, course' = course, TypeOK',
         \A p \in Units \ {o} :
           /\ units'[p] = units[p] /\ solves'[p] = solves[p] /\ reviews'[p] = reviews[p]
           /\ job'[p] = job[p] /\ (p \in raced' <=> p \in raced) /\ (p \in spoiled' <=> p \in spoiled),
         Right(o)', NEW j, job'[o] = j, Knows(o, j)'
  PROVE  IInv'
<1>1. CourseSound'
  BY DEF IInv, CourseSound
<1>2. ASSUME NEW p \in Units \ {o} PROVE Right(p)' /\ Knows(p, job[p])'
  <2>1. Right(p)'
    BY <1>2 DEF IInv, Right, Judged
  <2>2. Knows(p, job[p])'
    BY <1>2 DEF IInv, Knows, Judged, Faulty
  <2> QED BY <2>1, <2>2
<1>3. Knows(o, job[o])'
  OBVIOUS
<1> QED BY <1>1, <1>2, <1>3 DEF IInv

(* A step of a thread alone. *)
LEMMA ThreadStep ==
  ASSUME IInv, NEW o \in Units, NEW j \in Jobs, Becomes(o, j), Knows(o, j), UNCHANGED <<files, script, people>>
  PROVE  IInv'
<1>1. job'[o] = j /\ (\A p \in Units \ {o} : job'[p] = job[p]) /\ job' \in [Units -> Jobs]
  BY DEF Becomes, IInv, TypeOK
<1>2. /\ units' = units /\ solves' = solves /\ reviews' = reviews /\ course' = course /\ script' = script
      /\ raced' = raced /\ spoiled' = spoiled
  BY DEF files, people
<1>3. TypeOK'
  BY <1>1, <1>2 DEF IInv, TypeOK
<1>4. Right(o)' /\ Knows(o, j)'
  BY <1>2 DEF IInv, Right, Knows, Judged, Faulty
<1> QED BY <1>1, <1>2, <1>3, <1>4, OneLesson

(* A step after which no script runs. *)
LEMMA ScriptOver ==
  ASSUME script' = None, TypeOK', CourseSound', \A o \in Units : Right(o)'
  PROVE  IInv'
<1>1. \A o \in Units : Knows(o, job[o])'
  BY DEF Knows, None
<1> QED BY <1>1 DEF IInv

-----------------------------------------------------------------------------
(* The threads *)

(* What a saved judgement lets a thread report. *)
LEMMA SavedPlace ==
  ASSUME NEW j
  PROVE  /\ Saved(j) \in Places \ (Open \cup {"cached"})
         /\ Saved(j) = "ok" /\ ~Unread(j) /\ j \in Judgements => j.state = "whole" /\ j.ok
BY DEF Saved, Places, Open, Unread, Judgements

(* A thread takes a lesson. *)
LEMMA TakeKeeps ==
  ASSUME IInv, NEW o \in Units,
         UnitsTake(o) \/ SolveTake(o) \/ ReviewTake(o) \/ RepairTake(o) \/ Cancel(o)
  PROVE  IInv'
<1>1. units[o] \in Marked /\ solves[o] \in Judgements /\ reviews[o] \in Judgements /\ Right(o)
  BY DEF IInv, TypeOK
<1>2. ASSUME NEW place \in Places, Left(o, place), Knows(o, Done(place)) PROVE IInv'
  <2>1. Done(place) \in Jobs
    BY RowsTyped
  <2> QED BY <1>2, <2>1, ThreadStep DEF Left
<1>3. ASSUME NEW text \in Marked, Ask(o, text), Knows(o, Asking(text)) PROVE IInv'
  <2>1. Asking(text) \in Jobs
    BY RowsTyped
  <2> QED BY <1>3, <2>1, ThreadStep DEF Ask
<1>4. \A place \in Places \ {"ok", "cached", "asking"} : Knows(o, Done(place))
  BY DEF Knows, Done
<1>5. {"cached", "nounit", "crash", "cancelled", "skip", "pass"} \subseteq Places
  BY DEF Places
<1>6. CASE UnitsTake(o)
  <2>1. script = "units_run"
    BY <1>6 DEF UnitsTake, Take
  <2>2. CASE units[o] # None /\ Left(o, "cached")
    <3>1. Knows(o, Done("cached"))
      BY <2>1, <2>2 DEF Knows, Done
    <3> QED BY <1>2, <1>5, <2>2, <3>1
  <2>3. CASE Ask(o, None)
    <3>1. Knows(o, Asking(None))
      BY <2>1 DEF Knows, Asking
    <3> QED BY <1>3, <2>3, <3>1, SoundIds
  <2> QED BY <1>6, <2>2, <2>3 DEF UnitsTake
<1>7. CASE SolveTake(o)
  <2>1. script = "solve_run"
    BY <1>7 DEF SolveTake, Take
  <2>2. CASE Left(o, "nounit") \/ Left(o, "crash")
    BY <1>2, <1>4, <1>5, <2>2
  <2>3. CASE units[o] # None /\ units[o] # Torn /\ Ask(o, units[o])
    <3>1. Knows(o, Asking(units[o]))
      BY <1>1, <2>1, <2>3 DEF Knows, Asking, Marked
    <3> QED BY <1>1, <1>3, <2>3, <3>1
  <2>4. CASE ~Unread(solves[o]) /\ Left(o, Saved(solves[o]))
    <3>1. Knows(o, Done(Saved(solves[o])))
      BY <1>1, <2>1, <2>4, SavedPlace DEF Knows, Done, Open, Right, Judged
    <3> QED BY <1>2, <2>4, <3>1, SavedPlace
  <2> QED BY <1>7, <2>2, <2>3, <2>4 DEF SolveTake
<1>8. CASE ReviewTake(o)
  <2>1. script = "review_run"
    BY <1>8 DEF ReviewTake, Take
  <2>2. CASE Left(o, "nounit")
    BY <1>2, <1>4, <1>5, <2>2
  <2>3. CASE Ask(o, units[o])
    <3>1. Knows(o, Asking(units[o]))
      BY <2>1 DEF Knows, Asking
    <3> QED BY <1>1, <1>3, <2>3, <3>1
  <2>4. CASE ~Unread(reviews[o]) /\ Left(o, Saved(reviews[o]))
    <3>1. Knows(o, Done(Saved(reviews[o])))
      BY <1>1, <2>1, <2>4, SavedPlace DEF Knows, Done, Open, Right, Judged
    <3> QED BY <1>2, <2>4, <3>1, SavedPlace
  <2> QED BY <1>8, <2>2, <2>3, <2>4 DEF ReviewTake
<1>9. CASE RepairTake(o)
  <2>1. script = "repair_run"
    BY <1>9 DEF RepairTake, Take
  <2>2. CASE Left(o, "skip") \/ Left(o, "crash") \/ Left(o, "pass")
    BY <1>2, <1>4, <1>5, <2>2
  <2>3. CASE /\ ~Unread(reviews[o]) /\ ~(\E j \in Read(o) : j.state = "torn") /\ ~(\A j \in Read(o) : j.ok)
             /\ Ask(o, units[o])
    <3>1. o \notin raced => Faulty(reviews[o]) \/ Faulty(solves[o])
      <4>1. PICK j \in Read(o) : ~j.ok
        BY <2>3
      <4>2. j \in {reviews[o], solves[o]} /\ ~Unread(j) /\ j.state # "torn" /\ j \in Judgements
        BY <1>1, <2>3 DEF Read
      <4>3. j.state = "whole"
        BY <4>2 DEF Unread, Judgements
      <4> QED BY <1>1, <4>1, <4>2, <4>3 DEF Right, Faulty
    <3>2. Knows(o, Asking(units[o]))
      BY <2>1, <3>1 DEF Knows, Asking
    <3> QED BY <1>1, <1>3, <2>3, <3>2
  <2> QED BY <1>9, <2>2, <2>3 DEF RepairTake
<1>10. CASE Cancel(o)
  <2>1. Left(o, "cancelled")
    BY <1>10 DEF Cancel
  <2> QED BY <1>2, <1>4, <1>5, <2>1
<1> QED BY <1>6, <1>7, <1>8, <1>9, <1>10

(* A failed call costs an attempt. *)
LEMMA AgainKeeps ==
  ASSUME IInv, NEW o \in Units, NEW kind \in {"write", "judge"}, Again(o, kind)
  PROVE  IInv'
<1>1. job[o] \in Jobs /\ Knows(o, job[o])
  BY DEF IInv, TypeOK
<1>2. CASE Becomes(o, [job[o] EXCEPT !.tries = @ + 1])
  <2>1. PICK j : j = [job[o] EXCEPT !.tries = @ + 1]
    OBVIOUS
  <2>2. j \in Jobs /\ j.at = job[o].at /\ j.text = job[o].text
    BY <1>1, <2>1 DEF Jobs
  <2>3. Knows(o, j)
    BY <1>1, <2>2 DEF Knows
  <2> QED BY <1>2, <2>1, <2>2, <2>3, ThreadStep DEF Again
<1>3. CASE Becomes(o, Done("FAILED"))
  <2>1. Done("FAILED") \in Jobs
    BY RowsTyped DEF Places
  <2>2. Knows(o, Done("FAILED"))
    BY DEF Knows, Done
  <2> QED BY <1>3, <2>1, <2>2, ThreadStep DEF Again
<1> QED BY <1>2, <1>3 DEF Again

(* A lesson that is put there takes its judgements away. *)
LEMMA PutChanges ==
  ASSUME IInv, NEW o \in Units, NEW file \in Marked, PutUnit(o, file)
  PROVE  /\ units' \in [Units -> Marked] /\ solves' \in [Units -> Judgements] /\ reviews' \in [Units -> Judgements]
         /\ units'[o] = file /\ solves'[o].state = "none" /\ reviews'[o].state = "none"
         /\ \A p \in Units \ {o} : units'[p] = units[p] /\ solves'[p] = solves[p] /\ reviews'[p] = reviews[p]
<1>1. Unjudged \in Judgements /\ Unjudged.state = "none"
  BY RowsTyped DEF Unjudged, Judgement
<1>2. PICK blank : blank = Unjudged
  OBVIOUS
<1>3. /\ units' = [units EXCEPT ![o] = file]
      /\ solves' = [solves EXCEPT ![o] = blank] /\ reviews' = [reviews EXCEPT ![o] = blank]
  BY <1>2 DEF PutUnit
<1>4. units \in [Units -> Marked] /\ solves \in [Units -> Judgements] /\ reviews \in [Units -> Judgements]
  BY DEF IInv, TypeOK
<1> QED BY <1>1, <1>2, <1>3, <1>4

(* The writer. *)
LEMMA WriteKeeps ==
  ASSUME IInv, NEW o \in Units, NEW id, WriteUnit(o, id)
  PROVE  IInv'
<1>1. PICK j : j = Done("ok")
  OBVIOUS
<1>2. j \in Jobs /\ j.at = "ok"
  BY <1>1, RowsTyped DEF Places, Done
<1>3. /\ Valid(o, id) /\ PutUnit(o, id) /\ Becomes(o, j) /\ script \in {"units_run", "repair_run"}
      /\ course' = course /\ script' = script /\ raced' = raced /\ spoiled' = spoiled
  BY <1>1 DEF WriteUnit, people
<1>4. id \in Ids /\ id \in Marked /\ id # None
  BY <1>3, SoundIds
<1>5. /\ units' \in [Units -> Marked] /\ solves' \in [Units -> Judgements] /\ reviews' \in [Units -> Judgements]
      /\ units'[o] = id /\ solves'[o].state = "none" /\ reviews'[o].state = "none"
      /\ \A p \in Units \ {o} : units'[p] = units[p] /\ solves'[p] = solves[p] /\ reviews'[p] = reviews[p]
  BY <1>3, <1>4, PutChanges
<1>6. job' \in [Units -> Jobs] /\ job'[o] = j /\ \A p \in Units \ {o} : job'[p] = job[p]
  BY <1>2, <1>3 DEF Becomes, IInv, TypeOK
<1>7. TypeOK'
  BY <1>3, <1>5, <1>6 DEF IInv, TypeOK
<1>8. Right(o)'
  BY <1>3, <1>5 DEF Right, Judged, Valid
<1>9. Knows(o, j)'
  BY <1>2, <1>3, <1>4, <1>5 DEF Knows
<1> QED BY <1>3, <1>5, <1>6, <1>7, <1>8, <1>9, OneLesson

(* What a verdict says. *)
LEMMA VerdictSays ==
  ASSUME NEW ok \in BOOLEAN, NEW right \in BOOLEAN, NEW r
  PROVE  LET j == Verdict(ok, right, r)
         IN /\ j.state = "whole" /\ j.ok = ok /\ j.right = right
            /\ Judged(j) => ok /\ right /\ j.answers = r
            /\ ok /\ right => Judged(j)
<1> DEFINE said == IF ok /\ right THEN r ELSE NoAnswers
           j == [state |-> "whole", ok |-> ok, right |-> right, answers |-> said]
<1>1. j = Verdict(ok, right, r)
  BY DEF Verdict
<1>2. ok /\ right => said = r
  OBVIOUS
<1> HIDE DEF said
<1>3. j.state = "whole" /\ j.ok = ok /\ j.right = right /\ j.answers = said
  OBVIOUS
<1> HIDE DEF j
<1>4. Judged(j) <=> ok /\ right
  BY <1>3 DEF Judged
<1> QED BY <1>1, <1>2, <1>3, <1>4

(* The solver. *)
LEMMA SolveKeeps ==
  ASSUME IInv, NEW o \in Units, NEW r \in Answers[job[o].text], Solve(o, r)
  PROVE  IInv'
<1>1. PICK text : text = job[o].text
  OBVIOUS
<1>2. PICK ok \in BOOLEAN : ok = (r \in Agreeing[text])
  <2>1. (r \in Agreeing[text]) \in BOOLEAN
    OBVIOUS
  <2> QED BY <2>1, Zenon
<1>3. PICK right \in BOOLEAN : right = (text = units[o])
  OBVIOUS
<1>4. PICK j : j = Done(IF ok THEN "ok" ELSE "fault")
  OBVIOUS
<1>5. PICK v : v = Verdict(ok, right, r)
  OBVIOUS
<1>6. /\ script = "solve_run" /\ job[o].at = "asking"
      /\ solves' = [solves EXCEPT ![o] = v] /\ Becomes(o, j)
      /\ units' = units /\ reviews' = reviews /\ course' = course /\ script' = script
      /\ raced' = raced /\ spoiled' = spoiled
  <2>1. /\ script = "solve_run" /\ job[o].at = "asking"
        /\ units' = units /\ reviews' = reviews /\ course' = course /\ script' = script
        /\ raced' = raced /\ spoiled' = spoiled
    BY DEF Solve, people
  <2>2. LET agreed == r \in Agreeing[text]
        IN /\ solves' = [solves EXCEPT ![o] = Verdict(agreed, text = units[o], r)]
           /\ Becomes(o, Done(IF agreed THEN "ok" ELSE "fault"))
    BY <1>1 DEF Solve
  <2>3. solves' = [solves EXCEPT ![o] = v]
    BY <1>2, <1>3, <1>5, <2>2 DEF Verdict
  <2>4. Becomes(o, j)
    BY <1>2, <1>4, <2>2
  <2> QED BY <2>1, <2>3, <2>4
<1>7. Right(o) /\ Knows(o, job[o])
  BY DEF IInv
<1>8. text \in Ids
  BY <1>1, <1>6, <1>7 DEF Knows
<1>9. r \in Solutions /\ v \in Judgements
  BY <1>1, <1>5, <1>8, LessonAssumption, RowsTyped DEF SolutionRead
<1>10. j \in Jobs /\ (j.at = "ok" => ok) /\ j.at \in {"ok", "fault"}
  BY <1>4, RowsTyped DEF Places, Done
<1>11. solves' \in [Units -> Judgements] /\ solves'[o] = v /\ \A p \in Units \ {o} : solves'[p] = solves[p]
  BY <1>6, <1>9 DEF IInv, TypeOK
<1>12. job' \in [Units -> Jobs] /\ job'[o] = j /\ \A p \in Units \ {o} : job'[p] = job[p]
  BY <1>6, <1>10 DEF Becomes, IInv, TypeOK
<1>13. TypeOK'
  BY <1>6, <1>11, <1>12 DEF IInv, TypeOK
<1>14. o \notin raced => right
  BY <1>1, <1>3, <1>6, <1>7 DEF Knows
<1>15. v.state = "whole" /\ v.right = right /\ (Judged(v) => ok /\ right /\ v.answers = r) /\ (ok /\ right => Judged(v))
  BY <1>5, VerdictSays
<1>16. Right(o)'
  <2>1. Judged(v) => units[o] \in Ids /\ v.answers \in Agreeing[units[o]]
    BY <1>2, <1>3, <1>8, <1>15
  <2> QED BY <1>6, <1>7, <1>11, <1>14, <1>15, <2>1 DEF Right, Judged, Valid
<1>17. Knows(o, j)'
  BY <1>6, <1>10, <1>11, <1>14, <1>15 DEF Knows, Judged
<1> QED BY <1>6, <1>11, <1>12, <1>13, <1>16, <1>17, OneLesson

(* The editor. *)
LEMMA ReviewKeeps ==
  ASSUME IInv, NEW o \in Units, NEW ok \in BOOLEAN, Review(o, ok)
  PROVE  IInv'
<1>1. PICK right \in BOOLEAN : right = (job[o].text = units[o])
  OBVIOUS
<1>2. PICK j : j = Done(IF ok THEN "ok" ELSE "fault")
  OBVIOUS
<1>3. PICK v : v = Verdict(ok, right, NoAnswers)
  OBVIOUS
<1>4. /\ script = "review_run" /\ job[o].at = "asking"
      /\ reviews' = [reviews EXCEPT ![o] = v] /\ Becomes(o, j)
      /\ units' = units /\ solves' = solves /\ course' = course /\ script' = script
      /\ raced' = raced /\ spoiled' = spoiled
  <2>1. reviews' = [reviews EXCEPT ![o] = v]
    BY <1>1, <1>3 DEF Review, Verdict
  <2> QED BY <1>2, <2>1 DEF Review, people
<1>5. Right(o) /\ Knows(o, job[o])
  BY DEF IInv
<1>6. v \in Judgements
  <2>1. NoAnswers \in Solutions
    BY RowsTyped DEF Judgement, Judgements
  <2> QED BY <1>3, <2>1, RowsTyped
<1>7. j \in Jobs /\ (j.at = "ok" => ok) /\ j.at \in {"ok", "fault"}
  BY <1>2, RowsTyped DEF Places, Done
<1>8. reviews' \in [Units -> Judgements] /\ reviews'[o] = v /\ \A p \in Units \ {o} : reviews'[p] = reviews[p]
  BY <1>4, <1>6 DEF IInv, TypeOK
<1>9. job' \in [Units -> Jobs] /\ job'[o] = j /\ \A p \in Units \ {o} : job'[p] = job[p]
  BY <1>4, <1>7 DEF Becomes, IInv, TypeOK
<1>10. TypeOK'
  BY <1>4, <1>8, <1>9 DEF IInv, TypeOK
<1>11. o \notin raced => right
  BY <1>1, <1>4, <1>5 DEF Knows
<1>12. v.state = "whole" /\ v.right = right /\ (ok /\ right => Judged(v))
  BY <1>3, VerdictSays
<1>13. Right(o)'
  BY <1>4, <1>5, <1>8, <1>11, <1>12 DEF Right, Judged, Valid
<1>14. Knows(o, j)'
  BY <1>4, <1>7, <1>8, <1>11, <1>12 DEF Knows, Judged
<1> QED BY <1>4, <1>8, <1>9, <1>10, <1>13, <1>14, OneLesson

(* Every step of a thread. *)
LEMMA ThreadKeeps ==
  ASSUME IInv, NEW o \in Units, Thread(o)
  PROVE  IInv'
<1>1. CASE UnitsTake(o) \/ SolveTake(o) \/ ReviewTake(o) \/ RepairTake(o) \/ Cancel(o)
  BY <1>1, TakeKeeps
<1>2. CASE \E id \in Drafts[o] : WriteUnit(o, id)
  BY <1>2, WriteKeeps
<1>3. CASE WriterAgain(o) \/ JudgeFails(o)
  BY <1>3, AgainKeeps DEF WriterAgain, JudgeFails
<1>4. CASE \E r \in Answers[job[o].text] : Solve(o, r)
  BY <1>4, SolveKeeps
<1>5. CASE \E ok \in BOOLEAN : Review(o, ok)
  BY <1>5, ReviewKeeps
<1> QED BY <1>1, <1>2, <1>3, <1>4, <1>5 DEF Thread

-----------------------------------------------------------------------------
(* The person, and a kill *)

(* A lesson changed by hand is spoiled or gone, and a thread at work on it *)
(* knows nothing of it any more.                                           *)
LEMMA HandKeeps ==
  ASSUME IInv, NEW o \in Units, NEW file \in Marked, ByHand(o), PutUnit(o, file),
         (file = None /\ spoiled' = spoiled \ {o}) \/ spoiled' = spoiled \cup {o}
  PROVE  IInv'
<1>1. /\ course' = course /\ script' = script /\ job' = job
      /\ raced' = IF script # None /\ job[o].at # "todo" THEN raced \cup {o} ELSE raced
  BY DEF ByHand
<1>2. /\ units' \in [Units -> Marked] /\ solves' \in [Units -> Judgements] /\ reviews' \in [Units -> Judgements]
      /\ units'[o] = file /\ solves'[o].state = "none" /\ reviews'[o].state = "none"
      /\ \A p \in Units \ {o} : units'[p] = units[p] /\ solves'[p] = solves[p] /\ reviews'[p] = reviews[p]
  BY PutChanges
<1>3. TypeOK'
  BY <1>1, <1>2 DEF IInv, TypeOK
<1>4. Right(o)'
  BY <1>2 DEF Right, Judged, Valid
<1>5. PICK j : j = job[o] /\ j = job'[o]
  BY <1>1
<1>6. Knows(o, j)'
  <2>1. Knows(o, j)
    BY <1>5 DEF IInv
  <2>2. CASE script = None
    BY <1>1, <2>2 DEF Knows, None
  <2>3. CASE script # None /\ j.at # "todo"
    BY <1>1, <1>5, <2>1, <2>3 DEF Knows
  <2>4. CASE j.at = "todo"
    BY <2>4 DEF Knows
  <2> QED BY <2>2, <2>3, <2>4
<1> QED BY <1>1, <1>2, <1>3, <1>4, <1>5, <1>6, OneLesson

(* Editing and deleting are such changes. *)
LEMMA EditKeeps ==
  ASSUME IInv, NEW o \in Units, DeleteUnit(o) \/ \E id \in Edits[o] : Edit(o, id)
  PROVE  IInv'
<1>1. CASE DeleteUnit(o)
  BY <1>1, HandKeeps, SoundIds DEF DeleteUnit
<1>2. ASSUME NEW id \in Edits[o], Edit(o, id) PROVE IInv'
  <2>1. id \in Marked
    BY LessonAssumption DEF Marked
  <2> QED BY <1>2, <2>1, HandKeeps DEF Edit
<1> QED BY <1>1, <1>2

(* A script is started, or ends. *)
LEMMA RunKeeps ==
  ASSUME IInv, (\E name \in Pools : Run(name)) \/ Finish
  PROVE  IInv'
<1>1. /\ units' = units /\ solves' = solves /\ reviews' = reviews /\ course' = course
      /\ raced' = raced /\ spoiled' = spoiled
  BY DEF Run, Finish, files, people
<1>2. CourseSound' /\ \A o \in Units : Right(o)'
  BY <1>1 DEF IInv, CourseSound, Right, Judged, Valid
<1>3. Todo \in Jobs /\ Done("ok") \in Jobs
  BY RowsTyped DEF Places
<1>4. CASE \E name \in Pools : Run(name)
  <2>1. PICK name \in Pools : script' = name /\ job' = [o \in Units |-> Todo]
    BY <1>4 DEF Run
  <2>2. TypeOK'
    BY <1>1, <1>3, <2>1 DEF IInv, TypeOK
  <2>3. Todo.at = "todo"
    BY DEF Todo
  <2>4. \A o \in Units : Knows(o, job[o])'
    BY <2>1, <2>3 DEF Knows
  <2> QED BY <1>2, <2>2, <2>4 DEF IInv
<1>5. CASE Finish
  <2>1. script' = None /\ job' = Idle
    BY <1>5 DEF Finish
  <2>2. TypeOK'
    BY <1>1, <1>3, <2>1 DEF IInv, TypeOK, Idle
  <2> QED BY <1>2, <2>1, <2>2, ScriptOver
<1> QED BY <1>4, <1>5

(* The course is built of lessons that were audited, and they are what is  *)
(* taken back out of it.                                                   *)
LEMMA BuildKeeps ==
  ASSUME IInv, Build \/ KillBuild
  PROVE  IInv'
<1>1. /\ units' = units /\ solves' = solves /\ reviews' = reviews /\ script' = script /\ job' = job
      /\ raced' = raced /\ spoiled' = spoiled /\ Buildable /\ course' \in {units, NoCourse(Torn)}
  BY DEF Build, KillBuild, people
<1>2. TypeOK'
  BY <1>1, SoundIds DEF IInv, TypeOK, NoCourse
<1>3. \A o \in Units : Right(o)' /\ Knows(o, job[o])'
  BY <1>1 DEF IInv, Right, Knows, Judged, Faulty, Valid
<1>4. CourseSound'
  <2>1. CASE course' = units
    BY <1>1, <2>1 DEF CourseSound, Buildable, audit
  <2>2. CASE course' = NoCourse(Torn)
    <3>1. 1 \in Units
      BY CourseAssumption DEF Units
    <3>2. course'[1] = Torn /\ Torn \notin Ids
      BY <2>2, <3>1, SoundIds DEF NoCourse
    <3> QED BY <3>1, <3>2 DEF CourseSound
  <2> QED BY <1>1, <2>1, <2>2
<1> QED BY <1>2, <1>3, <1>4 DEF IInv

(* The lessons that are missing are taken out of the course. *)
LEMMA RestoreKeeps ==
  ASSUME IInv, RestoreUnits
  PROVE  IInv'
<1>1. PICK blank : blank = Unjudged
  OBVIOUS
<1>2. /\ \A o \in Units : course[o] \in Ids
      /\ units' = [o \in Units |-> IF units[o] = None THEN course[o] ELSE units[o]]
      /\ solves' = [o \in Units |-> IF units[o] = None THEN blank ELSE solves[o]]
      /\ reviews' = [o \in Units |-> IF units[o] = None THEN blank ELSE reviews[o]]
      /\ course' = course /\ script' = script /\ script = None /\ job' = job /\ raced' = raced /\ spoiled' = spoiled
  BY <1>1 DEF RestoreUnits, people
<1>3. blank \in Judgements /\ blank.state = "none"
  BY <1>1, RowsTyped DEF Unjudged, Judgement
<1>4. TypeOK'
  BY <1>2, <1>3 DEF IInv, TypeOK
<1>5. CourseSound'
  BY <1>2 DEF IInv, CourseSound
<1>6. ASSUME NEW o \in Units PROVE Right(o)'
  <2>1. Valid(o, course[o])
    BY <1>2 DEF IInv, CourseSound
  <2>2. CASE units[o] = None
    <3>1. units'[o] = course[o] /\ solves'[o] = blank /\ reviews'[o] = blank
      BY <1>2, <2>2
    <3> QED BY <1>3, <2>1, <3>1 DEF Right, Judged, Valid
  <2>3. CASE units[o] # None
    <3>1. units'[o] = units[o] /\ solves'[o] = solves[o] /\ reviews'[o] = reviews[o] /\ Right(o)
      BY <1>2, <2>3 DEF IInv
    <3> QED BY <1>2, <3>1 DEF Right, Judged, Valid
  <2> QED BY <2>2, <2>3
<1> QED BY <1>2, <1>4, <1>5, <1>6, ScriptOver

(* A fresh clone has none of the files. *)
LEMMA CloneKeeps ==
  ASSUME IInv, FreshClone
  PROVE  IInv'
<1>1. PICK blank : blank = Unjudged
  OBVIOUS
<1>2. /\ units' = [o \in Units |-> None] /\ solves' = [o \in Units |-> blank] /\ reviews' = [o \in Units |-> blank]
      /\ course' = course /\ script' = script /\ script = None /\ job' = job /\ raced' = {} /\ spoiled' = {}
  BY <1>1 DEF FreshClone
<1>3. blank \in Judgements /\ blank.state = "none"
  BY <1>1, RowsTyped DEF Unjudged, Judgement
<1>4. TypeOK'
  BY <1>2, <1>3, SoundIds DEF IInv, TypeOK
<1>5. CourseSound'
  BY <1>2 DEF IInv, CourseSound
<1>6. \A o \in Units : Right(o)'
  BY <1>2, <1>3 DEF Right, Judged, Valid
<1> QED BY <1>2, <1>4, <1>5, <1>6, ScriptOver

(* A kill, with one file cut short or none. *)
LEMMA KillKeeps ==
  ASSUME IInv, Kill
  PROVE  IInv'
<1>1. script' = None /\ job' = Idle /\ course' = course /\ raced' = raced
  BY DEF Kill
<1>2. Done("ok") \in Jobs
  BY RowsTyped DEF Places
<1>3. job' \in [Units -> Jobs] /\ CourseSound'
  BY <1>1, <1>2 DEF IInv, CourseSound, Idle
<1>4. CASE UNCHANGED <<units, solves, reviews, spoiled>>
  <2>1. TypeOK'
    BY <1>1, <1>3, <1>4 DEF IInv, TypeOK
  <2>2. \A o \in Units : Right(o)'
    BY <1>1, <1>4 DEF IInv, Right, Judged, Valid
  <2> QED BY <1>1, <1>3, <2>1, <2>2, ScriptOver
<1>5. ASSUME NEW o \in Busy, Cut(o) PROVE IInv'
  <2>1. o \in Units
    BY DEF Busy
  <2>2. PICK torn : torn = Judgement("torn")
    OBVIOUS
  <2>3. torn \in Judgements /\ torn.state = "torn"
    BY <2>2, RowsTyped DEF Judgement
  <2>4. CASE solves' = [solves EXCEPT ![o] = torn] /\ UNCHANGED <<units, reviews, spoiled>>
    <3>1. /\ solves' \in [Units -> Judgements] /\ solves'[o] = torn
          /\ \A p \in Units \ {o} : solves'[p] = solves[p]
      BY <2>1, <2>3, <2>4 DEF IInv, TypeOK
    <3>2. TypeOK'
      BY <1>1, <1>3, <2>4, <3>1 DEF IInv, TypeOK
    <3>3. \A p \in Units : Right(p)'
      BY <1>1, <2>3, <2>4, <3>1 DEF IInv, Right, Judged, Valid
    <3> QED BY <1>1, <1>3, <3>2, <3>3, ScriptOver
  <2>5. CASE reviews' = [reviews EXCEPT ![o] = torn] /\ UNCHANGED <<units, solves, spoiled>>
    <3>1. /\ reviews' \in [Units -> Judgements] /\ reviews'[o] = torn
          /\ \A p \in Units \ {o} : reviews'[p] = reviews[p]
      BY <2>1, <2>3, <2>5 DEF IInv, TypeOK
    <3>2. TypeOK'
      BY <1>1, <1>3, <2>5, <3>1 DEF IInv, TypeOK
    <3>3. \A p \in Units : Right(p)'
      BY <1>1, <2>3, <2>5, <3>1 DEF IInv, Right, Judged, Valid
    <3> QED BY <1>1, <1>3, <3>2, <3>3, ScriptOver
  <2>6. CASE PutUnit(o, Torn) /\ spoiled' = spoiled \cup {o}
    <3>1. /\ units' \in [Units -> Marked] /\ solves' \in [Units -> Judgements] /\ reviews' \in [Units -> Judgements]
          /\ units'[o] = Torn /\ solves'[o].state = "none" /\ reviews'[o].state = "none"
          /\ \A p \in Units \ {o} : units'[p] = units[p] /\ solves'[p] = solves[p] /\ reviews'[p] = reviews[p]
      BY <2>1, <2>6, PutChanges, SoundIds
    <3>2. TypeOK'
      BY <1>1, <1>3, <2>1, <2>6, <3>1 DEF IInv, TypeOK
    <3>3. \A p \in Units : Right(p)'
      BY <1>1, <2>6, <3>1 DEF IInv, Right, Judged, Valid
    <3> QED BY <1>1, <1>3, <3>2, <3>3, ScriptOver
  <2>7. CASE script = "solve_run"
    <3>1. solves' = [solves EXCEPT ![o] = Judgement("torn")] /\ UNCHANGED <<units, reviews, spoiled>>
      BY <1>5, <2>7 DEF Cut
    <3> QED BY <2>2, <2>4, <3>1
  <2>8. CASE script = "review_run"
    <3>1. reviews' = [reviews EXCEPT ![o] = Judgement("torn")] /\ UNCHANGED <<units, solves, spoiled>>
      BY <1>5, <2>8 DEF Cut
    <3> QED BY <2>2, <2>5, <3>1
  <2>9. CASE script \notin {"solve_run", "review_run"}
    <3>1. PutUnit(o, Torn) /\ spoiled' = spoiled \cup {o}
      BY <1>5, <2>9 DEF Cut
    <3> QED BY <2>6, <3>1
  <2> QED BY <2>7, <2>8, <2>9
<1> QED BY <1>4, <1>5 DEF Kill

-----------------------------------------------------------------------------
(* It holds at the start. *)
LEMMA InitIInv == Init => IInv
<1> SUFFICES ASSUME Init PROVE IInv
  OBVIOUS
<1>1. PICK blank : blank = Unjudged
  OBVIOUS
<1>2. /\ units = [o \in Units |-> None] /\ course = [o \in Units |-> None]
      /\ solves = [o \in Units |-> blank] /\ reviews = [o \in Units |-> blank]
      /\ script = None /\ job = Idle /\ raced = {} /\ spoiled = {}
  BY <1>1 DEF Init, NoCourse
<1>3. blank \in Judgements /\ blank.state = "none" /\ Done("ok") \in Jobs
  BY <1>1, RowsTyped DEF Unjudged, Judgement, Places
<1>4. TypeOK
  BY <1>2, <1>3, SoundIds DEF TypeOK, Idle
<1>5. CourseSound
  <2>1. 1 \in Units
    BY CourseAssumption DEF Units
  <2>2. course[1] = None /\ None \notin Ids
    BY <1>2, <2>1, SoundIds
  <2> QED BY <2>1, <2>2 DEF CourseSound
<1>6. \A o \in Units : Right(o) /\ Knows(o, job[o])
  BY <1>2, <1>3 DEF Right, Knows, Judged, None
<1> QED BY <1>4, <1>5, <1>6 DEF IInv

(* And every step keeps it. *)
LEMMA NextIInv == IInv /\ [Next]_vars => IInv'
<1> SUFFICES ASSUME IInv, [Next]_vars PROVE IInv'
  OBVIOUS
<1>1. CASE Finish \/ \E name \in Pools : Run(name)
  BY <1>1, RunKeeps
<1>2. CASE \E o \in Units : Thread(o)
  BY <1>2, ThreadKeeps
<1>3. CASE \E o \in Units : DeleteUnit(o) \/ \E id \in Edits[o] : Edit(o, id)
  BY <1>3, EditKeeps
<1>4. CASE Build \/ KillBuild
  BY <1>4, BuildKeeps
<1>5. CASE RestoreUnits \/ FreshClone \/ Kill
  BY <1>5, RestoreKeeps, CloneKeeps, KillKeeps
<1>6. CASE UNCHANGED vars
  BY <1>6 DEF vars, IInv, TypeOK, CourseSound, Right, Knows, Judged, Faulty, Valid
<1> QED BY <1>1, <1>2, <1>3, <1>4, <1>5, <1>6 DEF Next, Person

(* The inductive invariant of the scripts: left alone, what is on disk is  *)
(* sound and judged as it says, and a thread knows what it works on.       *)
THEOREM FilesAreRight == Spec => []IInv
BY InitIInv, NextIInv, PTL DEF Spec

-----------------------------------------------------------------------------
(* What follows *)

(* build_course never writes a course that the application refuses, but    *)
(* for the gaps in the rules that are named (course.go, Lesson.validate).  *)
THEOREM ReleasedStarts == Spec => []StartRefusesOnlyGaps
<1>1. IInv => StartRefusesOnlyGaps
  <2> SUFFICES ASSUME IInv, \A o \in Units : course[o] \in Ids
               PROVE  /\ \A o \in Units : course[o] \in Startable[o]
                      /\ \A o, p \in Units : o # p => StartApart(Lesson[course[o]], Lesson[course[p]])
    BY DEF StartRefusesOnlyGaps
  <2>1. /\ \A o \in Units : Valid(o, course[o]) /\ NoTermTwice(Lesson[course[o]])
        /\ \A o, p \in Units : o # p => Apart(Lesson[course[o]], Lesson[course[p]])
    BY DEF IInv, CourseSound
  <2>2. ASSUME NEW o \in Units PROVE course[o] \in Startable[o]
    <3>1. PICK id \in Ids : id = course[o]
      OBVIOUS
    <3>2. validate_unit(normalize_unit(Lesson[id]), Terms[o]) /\ NoTermTwice(Lesson[id])
      BY <2>1, <3>1 DEF Valid, Sound
    <3>3. LessonRead(Lesson[id])
      BY LessonAssumption
    <3>4. Terms[o] \in Seq(Texts) /\ Len(Terms[o]) = 10
      BY SyllabusAssumption
    <3>5. StartsWith(normalize_unit(Lesson[id]), Theme[o]) \/ GapIn(normalize_unit(Lesson[id]), Theme[o])
      BY <3>2, <3>3, <3>4, RulesSuffice
    <3> QED BY <3>1, <3>5 DEF Startable
  <2>3. ASSUME NEW o \in Units, NEW p \in Units, o # p
        PROVE  StartApart(Lesson[course[o]], Lesson[course[p]])
    <3>1. Apart(Lesson[course[o]], Lesson[course[p]])
      BY <2>1, <2>3
    <3> QED BY <3>1, ExactSeesMore DEF Apart, StartApart
  <2> QED BY <2>2, <2>3
<1> QED BY <1>1, FilesAreRight, PTL

(* Where a second solver agreed with the key of the lesson on disk, the    *)
(* application marks that answer right (solve_run.py, ebook_check.go).     *)
THEOREM SolvedIsAccepted == Spec => []SolvedMeansAccepted
<1>1. IInv => SolvedMeansAccepted
  <2> SUFFICES ASSUME IInv, NEW o \in Units, Judged(solves[o])
               PROVE  solves[o].answers \in Accepted[units[o]]
    BY DEF SolvedMeansAccepted
  <2>1. PICK id, r : id = units[o] /\ r = solves[o].answers
    OBVIOUS
  <2>2. id \in Ids /\ r \in Agreeing[id] /\ r \in Answers[id] /\ compare(Lesson[id], r)
    BY <2>1 DEF IInv, Right, Agreeing
  <2>3. LessonRead(Lesson[id]) /\ SolutionRead(Lesson[id], r)
    BY <2>2, LessonAssumption
  <2>4. PICK quiz : quiz = Lesson[id].quiz
    OBVIOUS
  <2>5. quiz \in Seq(QuizItems) /\ r.quiz \in Seq(Seq(Texts)) /\ Len(r.quiz) = Len(quiz)
    BY <2>2, <2>3, <2>4 DEF LessonRead, Lessons, SolutionRead, Solutions, compare
  <2>6. ASSUME NEW i \in DOMAIN quiz, quiz[i].kind \in {"choice", "fill", "reorder"}, NEW t \in Each(r.quiz[i])
        PROVE  RightFor(quiz[i], t)
    <3>1. i \in DOMAIN r.quiz
      BY <2>5
    <3>2. PICK q, a : q = quiz[i] /\ a = r.quiz[i]
      OBVIOUS
    <3>3. q \in QuizItems /\ a \in Seq(Texts)
      BY <2>5, <3>1, <3>2
    <3>4. q.kind = "choice" => q.answers # <<>>
      BY <2>3, <2>4, <3>2 DEF LessonRead
    <3>5. q.kind # "reorder" => Len(a) = 1
      BY <2>3, <2>4, <3>1, <3>2 DEF SolutionRead
    <3>6. Agrees(q, a)
      BY <2>2, <2>4, <3>2 DEF compare
    <3>7. q.kind \in {"choice", "fill", "reorder"} /\ t \in Each(a)
      BY <2>6, <3>2
    <3>8. RightFor(q, t)
      BY <3>3, <3>4, <3>5, <3>6, <3>7, AgreedIsRight
    <3> QED BY <3>2, <3>8
  <2>7. r \in Accepted[id]
    BY <2>2, <2>4, <2>6 DEF Accepted
  <2> QED BY <2>1, <2>7
<1> QED BY <1>1, FilesAreRight, PTL

(* A script that reports every lesson well has judged the very text that   *)
(* is on disk (solve_run.py, review_run.py).                               *)
THEOREM CleanIsJudged == Spec => CleanRunIsJudged
<1>1. IInv => \A o \in Units \ raced :
                /\ EndsClean("solve_run") => Judged(solves[o])
                /\ EndsClean("review_run") => Judged(reviews[o])
  BY DEF IInv, Knows, EndsClean
<1> QED BY <1>1, FilesAreRight, PTL DEF CleanRunIsJudged

(* A repair has a finding about the text that it replaces (repair_run.py). *)
THEOREM RepairsAnswer == Spec => RepairsAnswerFindings
<1>1. IInv => \A o \in Units \ raced : Repaired(o) => Answered(o)
  BY DEF IInv, Knows, Repaired, Answered
<1> QED BY <1>1, FilesAreRight, PTL DEF RepairsAnswerFindings

(* A units_run that reports no failure has every lesson there, and sound,  *)
(* but for what was put or cut by others (units_run.py).                   *)
THEOREM Delivers == Spec => UnitsRunDelivers
<1>1. IInv => (Delivered => \A o \in Units \ (spoiled \cup raced) : Valid(o, units[o]))
  BY DEF IInv, Knows, Right, Delivered
<1> QED BY <1>1, FilesAreRight, PTL DEF UnitsRunDelivers
=============================================================================
