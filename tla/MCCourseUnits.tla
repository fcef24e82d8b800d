--------------------------- MODULE MCCourseUnits ---------------------------
(***************************************************************************)
(* Two lessons.  The writer of the first may return a sound lesson, one    *)
(* with the named gaps, one with an example of the second lesson, and the  *)
(* sound one with each of the defects; the writer of the second a sound    *)
(* one.  A person may put in a lesson with a fix item that has no mistake. *)
(* The theme of the second lesson has no Thai name.                        *)
(***************************************************************************)
EXTENDS CourseUnits, TLC

Named == <<"one", "two">>
Nth == <<"1", "2", "3", "4", "5", "6", "7", "8", "9", "10">>
Said(said) == [said |-> said, short |-> FALSE, marks |-> ".", thai |-> FALSE, words |-> {},
               long |-> FALSE, slip |-> FALSE]
Text(w, n) == Said(<<w, Named[n]>>)
Nothing == [Said(<<>>) EXCEPT !.marks = ""]

(* The first term has two parts, which two examples use. *)
Part(i, n) == ToString(<<i, n>>)
Parts(i, n) == IF i = 1 THEN {Part(1, n), "out"} ELSE {Part(i, n)}
Term(i, n) == [Said(<<"term", Nth[i], Named[n]>>) EXCEPT !.marks = "", !.words = Parts(i, n)]
Using(words, kind, i, n) == [Said(<<kind, Nth[i], Named[n]>>) EXCEPT !.words = words]

Item(kind, prompt, answers, options) ==
  [kind |-> kind, prompt |-> prompt, prompt_th |-> TRUE, explanation_th |-> TRUE,
   answers |-> answers, options |-> options,
   blanks |-> IF kind \in {"choice", "fill"} THEN 1 ELSE 0,
   bank |-> "in order", alike |-> FALSE, tokens |-> 5]
Heard(audio, answer) ==
  [audio |-> audio, meaning_th |-> TRUE, question_th |-> TRUE, options |-> <<"a", "b", "c">>, answer |-> answer]

Goes == Said(<<"goes">>)
Went == Said(<<"went">>)
Isnt == [Said(<<"is", "not">>) EXCEPT !.short = TRUE]

(* Six examples and two reviews use eight terms, no more than asked for. *)
Plain(n) ==
  [title |-> Text("title", n), title_th |-> TRUE, goal_th |-> TRUE, pattern |-> Text("pattern", n),
   explanation_th |-> [Text("explanation", n) EXCEPT !.thai = TRUE], length |-> 220, usage |-> 2, signals |-> 6,
   forms |-> [i \in 1 .. 2 |->
     [label |-> TRUE, pattern |-> Text("pattern", n), example |-> Text("form", n), example_th |-> TRUE]],
   mistakes |-> <<[wrong |-> Text("wrong", n), right |-> Text("right", n), why_th |-> TRUE],
                  [wrong |-> [Text("who", n) EXCEPT !.marks = ","], right |-> Text("who", n), why_th |-> TRUE]>>,
   examples |-> [i \in 1 .. 6 |->
     [en |-> Using(IF i = 1 THEN {Part(1, n)} ELSE IF i = 2 THEN {Part(2, n), "out"} ELSE Parts(i, n), "e", i, n),
      th |-> TRUE]],
   vocabulary |-> [i \in 1 .. 10 |->
     [term |-> Term(i, n), meaning_th |-> TRUE, example |-> Using(Parts(i, n), "v", i, n), example_th |-> TRUE]],
   quiz |-> <<Item("choice", Text("q1", n), <<Goes>>, <<Goes, Went, Said(<<"go">>)>>),
              Item("choice", Text("q2", n), <<Went>>, <<Went, Goes, Said(<<"go">>)>>),
              Item("fill", Text("q3", n), <<Isnt>>, <<>>),
              Item("fill", Text("q4", n), <<Goes>>, <<>>),
              Item("reorder", Text("q5", n), <<Text("o1", n), Text("o2", n)>>, <<>>),
              Item("fix", [Text("q6", n) EXCEPT !.marks = ""], <<Text("q6", n)>>, <<>>),
              Item("translate", Text("q7", n), <<Text("t1", n)>>, <<>>),
              Item("write", Text("q8", n), <<Text("w1", n)>>, <<>>)>>,
   listening |-> <<Heard(Text("l1", n), "a"), Heard(Text("l2", n), "b"), Heard(Text("l3", n), "a")>>,
   speaking |-> [prompt |-> Text("speak", n), prompt_th |-> TRUE, criteria |-> 3],
   review |-> [i \in 1 .. 2 |->
     [prompt_th |-> TRUE, target |-> Using(Parts(6 + i, n), "r", i, n), target_th |-> TRUE]]]

Good == Plain(1)
Copy == Good.examples[1].en
Defects ==
  [noTitle       |-> [Good EXCEPT !.title = Nothing],
   notThai       |-> [Good EXCEPT !.explanation_th.thai = FALSE],
   tooShort      |-> [Good EXCEPT !.length = 199],
   noForm        |-> [Good EXCEPT !.forms[2].example = Nothing],
   noWhy         |-> [Good EXCEPT !.mistakes[1].why_th = FALSE],
   sameMistake   |-> [Good EXCEPT !.mistakes[2].wrong = Good.mistakes[2].right],
   sameExamples  |-> [Good EXCEPT !.examples[2].en = [Copy EXCEPT !.marks = "?"]],
   wrongTerms    |-> [Good EXCEPT !.vocabulary[1].term = Term(3, 2)],
   nineTerms     |-> [Good EXCEPT !.vocabulary = SubSeq(@, 1, 9)],
   unusedTerm    |-> [Good EXCEPT !.vocabulary[1].example.words = {"out"}],
   unpractised   |-> [Good EXCEPT !.examples[2].en.words = {Part(2, 1)}],
   noAnswer      |-> [Good EXCEPT !.quiz[4].answers = <<>>],
   twoBlanks     |-> [Good EXCEPT !.quiz[4].blanks = 2],
   keyNotOption  |-> [Good EXCEPT !.quiz[1].answers = <<Isnt>>],
   sameOptions   |-> [Good EXCEPT !.quiz[1].options[2] = [Goes EXCEPT !.marks = ""]],
   noMistake     |-> [Good EXCEPT !.quiz[6].prompt = Good.quiz[6].answers[1]],
   alikeWords    |-> [Good EXCEPT !.quiz[5].alike = TRUE],
   threeWords    |-> [Good EXCEPT !.quiz[5].tokens = 3],
   copiedFix     |-> [Good EXCEPT !.quiz[6].answers = <<Copy>>],
   repeatedItem  |-> [Good EXCEPT !.quiz[7].answers = Good.quiz[5].answers],
   heardBefore   |-> [Good EXCEPT !.listening[1].audio = Good.review[1].target],
   heardExample  |-> [Good EXCEPT !.listening[1].audio = [Copy EXCEPT !.marks = "!"]],
   samePosition  |-> [Good EXCEPT !.listening[2].answer = "a"],
   noCriteria    |-> [Good EXCEPT !.speaking.criteria = 1],
   copiedReview  |-> [Good EXCEPT !.review[1].target = Copy]]

MCLesson ==
  Defects @@ [good |-> Good, second |-> Plain(2),
    gaps |-> [Good EXCEPT !.quiz[1].options[3] = Nothing, !.listening[1].audio = Nothing,
                          !.quiz[4].answers[1].slip = TRUE],
    clash |-> [Good EXCEPT !.examples[3].en.said = Plain(2).examples[3].en.said]]
MCDrafts == <<(DOMAIN Defects) \cup {"good", "gaps", "clash"}, {"second"}>>
MCEdits == <<{"noMistake"}, {}>>
MCTerms == [n \in 1 .. 2 |-> [i \in 1 .. 10 |-> Term(i, n)]]
MCTheme == [n \in 1 .. 2 |-> [en |-> Text("theme", n), th |-> n = 1]]

GivenTo(q) == IF q.kind = "reorder" THEN q.answers
              ELSE IF q.answers = <<>> THEN <<Nothing>> ELSE <<q.answers[1]>>
Key(u) == [quiz |-> [i \in DOMAIN u.quiz |-> GivenTo(u.quiz[i])],
           listening |-> [i \in DOMAIN u.listening |-> u.listening[i].answer]]
AnswersTo(u) ==
  LET r == Key(u) IN
  {[r EXCEPT !.quiz[3] = <<Said(<<"is", "not">>)>>, !.quiz[4] = <<Filled(u.quiz[4], Goes)>>,
            !.quiz[5] = <<Nothing>>],
   [r EXCEPT !.quiz[1] = <<Went>>],
   [r EXCEPT !.quiz[5] = <<Text("o1", 1), Text("o3", 1)>>],
   [r EXCEPT !.quiz[6] = <<Said(<<"no", "mistake">>)>>],
   [r EXCEPT !.listening[1] = "c"]}
MCAnswers == [id \in DOMAIN MCLesson |-> IF id = "good" THEN AnswersTo(Good) ELSE {Key(MCLesson[id])}]
MCAttempts == [write |-> 2, judge |-> 1]
=============================================================================
