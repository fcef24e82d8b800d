------------------------------ MODULE UnitRules ------------------------------
(***************************************************************************)
(* What is asked of one lesson of the Learn Ebook course, three times: by  *)
(* validate_unit in scripts/learn_ebook_v2/unit_rules.py, which gates the  *)
(* writer; by compare in solve_run.py, which marks the answers of a second *)
(* model; and by the Go application, which refuses to start with a bad     *)
(* lesson (course.go) and marks the learner (ebook_check.go).              *)
(*                                                                         *)
(* They compare texts in three ways, so a text is a record of what these   *)
(* tell apart: said, its words with contractions spelled out; short,       *)
(* whether it uses a contraction; marks, its punctuation; and besides      *)
(* thai, whether it has a Thai letter, words, the parts of target words    *)
(* found in it, long, whether it is longer than allowed (by its level, or  *)
(* as a title), and slip, whether it has a banned or doubled word.  Of     *)
(* what is asked to be Thai only whether it is, of lists that nobody looks *)
(* into only the length.  A lesson's number, level and place in the path   *)
(* are those of units_plan.json, which no script writes.                   *)
(***************************************************************************)
EXTENDS Naturals, Sequences, FiniteSets

KINDS == <<"choice", "choice", "fill", "fill", "reorder", "fix", "translate", "write">>
Blanked == {"choice", "fill"}

(* A lesson as it is read, after its schema.  A term has the parts that    *)
(* has_term looks for; a text with a part has something in it; the lesson  *)
(* asks its multiple choices with a key.                                   *)
Texts == [said : Seq(STRING), short : BOOLEAN, marks : STRING, thai : BOOLEAN,
          words : SUBSET STRING, long : BOOLEAN, slip : BOOLEAN]
Forms == [label : BOOLEAN, pattern : Texts, example : Texts, example_th : BOOLEAN]
Mistakes == [wrong : Texts, right : Texts, why_th : BOOLEAN]
Vocabulary == [term : Texts, meaning_th : BOOLEAN, example : Texts, example_th : BOOLEAN]
QuizItems == [kind : STRING, prompt : Texts, prompt_th : BOOLEAN, explanation_th : BOOLEAN,
              answers : Seq(Texts), options : Seq(Texts), blanks : Nat,
              bank : STRING, alike : BOOLEAN, tokens : Nat]
Listening == [audio : Texts, meaning_th : BOOLEAN, question_th : BOOLEAN,
              options : Seq(STRING), answer : STRING]
Lessons == [title : Texts, title_th : BOOLEAN, goal_th : BOOLEAN, pattern : Texts,
            explanation_th : Texts, length : Nat, usage : Nat, forms : Seq(Forms), signals : Nat,
            mistakes : Seq(Mistakes), examples : Seq([en : Texts, th : BOOLEAN]),
            vocabulary : Seq(Vocabulary), quiz : Seq(QuizItems), listening : Seq(Listening),
            speaking : [prompt : Texts, prompt_th : BOOLEAN, criteria : Nat],
            review : Seq([prompt_th : BOOLEAN, target : Texts, target_th : BOOLEAN])]
Each(s) == {s[i] : i \in DOMAIN s}
LessonRead(u) ==
  /\ u \in Lessons
  /\ \A v \in Each(u.vocabulary) : \A t \in {v.term, v.example} : t.words # {} => t.said # <<>>
  /\ \A i \in DOMAIN u.quiz : u.quiz[i].kind = "choice" => u.quiz[i].answers # <<>>

(* The theme that the syllabus gives a lesson. *)
Themes == [en : Texts, th : BOOLEAN]

(* What a second model answers to it: the orders found for a reorder item, *)
(* one text for the other kinds.                                           *)
Solutions == [quiz : Seq(Seq(Texts)), listening : Seq(STRING)]
SolutionRead(u, r) ==
  /\ r \in Solutions
  /\ \A i \in DOMAIN r.quiz \cap DOMAIN u.quiz : u.quiz[i].kind # "reorder" => Len(r.quiz[i]) = 1

Distinct(s) == Cardinality(Each(s)) = Len(s)
Sentences(u) == [i \in DOMAIN u.examples |-> u.examples[i].en]
TermsOf(u) == [i \in DOMAIN u.vocabulary |-> u.vocabulary[i].term]

norm(t) == <<t.said, t.short>>
exact(t) == <<t.said, t.short, t.marks>>
key(t) == t.said

Norms(s) == {norm(t) : t \in Each(s)}
Blank(t) == t.said = <<>> /\ t.marks = "" /\ ~t.thai
English(t) == ~t.thai
has_term(term, words) == term.words # {} /\ term.words \subseteq words

(* The prompt with the answer in its blank. *)
Filled(q, a) == [a EXCEPT !.said = q.prompt.said \o @, !.short = q.prompt.short \/ @]
Sentence(q) == IF q.kind \in Blanked THEN Filled(q, q.answers[1]) ELSE q.answers[1]

-----------------------------------------------------------------------------
(* validate_unit, by the part of the lesson it is about.  Its messages are *)
(* left out: what matters is whether there is one.                         *)

FieldsSound(u) ==
  /\ ~Blank(u.title) /\ ~u.title.long /\ English(u.title) /\ ~Blank(u.pattern)
  /\ u.title_th /\ u.goal_th /\ u.explanation_th.thai /\ u.length >= 220
  /\ u.usage \in 2 .. 4 /\ u.signals <= 6
  /\ Len(u.forms) \in 2 .. 4
  /\ \A f \in Each(u.forms) :
       f.label /\ ~Blank(f.pattern) /\ ~Blank(f.example) /\ English(f.example) /\ f.example_th
  /\ ~Blank(u.speaking.prompt) /\ English(u.speaking.prompt)
  /\ u.speaking.prompt_th /\ u.speaking.criteria = 3

MistakesSound(u) ==
  /\ Len(u.mistakes) \in 2 .. 3
  /\ \A m \in Each(u.mistakes) : exact(m.wrong) # exact(m.right) /\ m.why_th

(* An example ends with a full stop, so it is not blank. *)
ExamplesSound(u) ==
  /\ Len(u.examples) = 6
  /\ \A x \in Each(u.examples) : English(x.en) /\ x.th /\ ~Blank(x.en) /\ ~x.en.long
  /\ Cardinality(Norms(Sentences(u))) = Len(u.examples)

VocabularySound(u, terms) ==
  /\ Len(u.vocabulary) = Len(terms)
  /\ \A i \in DOMAIN terms : norm(u.vocabulary[i].term) = norm(terms[i])
  /\ \A v \in Each(u.vocabulary) :
       /\ v.meaning_th /\ v.example_th /\ English(v.example) /\ ~v.example.long
       /\ has_term(v.term, v.example.words)

(* The target words have to occur in the sentences of the lesson itself,   *)
(* which are searched as one text.                                         *)
Practice(u) == Each(Sentences(u)) \cup {x.audio : x \in Each(u.listening)}
               \cup {x.target : x \in Each(u.review)}
               \cup UNION {{q.prompt} \cup Each(q.answers) \cup Each(q.options) : q \in Each(u.quiz)}
TermsPractised(u, terms) ==
  LET body == UNION {t.words : t \in Practice(u)}
  IN Cardinality({i \in DOMAIN terms : has_term(terms[i], body)}) >= 8

Copied(u, t) == norm(t) \in Norms(Sentences(u))

ItemSound_NoMistakeAsked(u, q) ==
  /\ q.prompt_th /\ q.explanation_th
  /\ q.answers # <<>> /\ \A a \in Each(q.answers) : ~Blank(a) /\ English(a)
  /\ q.kind \in Blanked => q.blanks = 1
  /\ q.kind = "choice" =>
       /\ Len(q.options) = 3 /\ Cardinality(Norms(q.options)) = 3
       /\ Len(q.answers) = 1 /\ q.answers[1] \in Each(q.options)
  /\ q.kind \notin {"choice", "reorder"} => q.options = <<>>
  /\ q.kind = "reorder" => q.bank = "shuffled" /\ q.tokens \in 4 .. 10
  /\ q.kind # "write" => ~Copied(u, Sentence(q))

ItemSound(u, q) ==
  /\ q.prompt_th /\ q.explanation_th
  /\ q.answers # <<>> /\ \A a \in Each(q.answers) : ~Blank(a) /\ English(a)
  /\ q.kind \in Blanked => q.blanks = 1
  /\ q.kind = "choice" =>
       /\ Len(q.options) = 3 /\ Cardinality(Norms(q.options)) = 3
       /\ Len(q.answers) = 1 /\ q.answers[1] \in Each(q.options)
  /\ q.kind \notin {"choice", "reorder"} => q.options = <<>>
  /\ q.kind = "reorder" => q.bank = "shuffled" /\ q.tokens \in 4 .. 10
  /\ q.kind = "fix" => \A a \in Each(q.answers) : exact(q.prompt) # exact(a)
  /\ q.kind # "write" => ~Copied(u, Sentence(q))

QuizSound(u) ==
  /\ [i \in DOMAIN u.quiz |-> u.quiz[i].kind] = KINDS
  /\ \A q \in Each(u.quiz) : ItemSound(u, q)
  /\ \A i, j \in DOMAIN u.quiz :
       i # j /\ "write" \notin {u.quiz[i].kind, u.quiz[j].kind}
         => norm(Sentence(u.quiz[i])) # norm(Sentence(u.quiz[j]))

(* A listening line is heard first: it is nowhere else in the lesson. *)
Elsewhere(u) ==
  {norm(v.example) : v \in Each(u.vocabulary)} \cup {norm(x.target) : x \in Each(u.review)}
  \cup UNION {Norms(q.answers) : q \in Each(u.quiz)}
  \cup UNION {{norm(Filled(q, a)) : a \in Each(q.answers)} : q \in {x \in Each(u.quiz) : x.kind \in Blanked}}

ListeningSound(u) ==
  /\ Len(u.listening) = 3
  /\ \A x \in Each(u.listening) :
       /\ English(x.audio) /\ ~x.audio.long /\ x.meaning_th /\ x.question_th
       /\ norm(x.audio) \notin Elsewhere(u) /\ ~Copied(u, x.audio)
       /\ Len(x.options) = 3 /\ Distinct(x.options) /\ x.answer \in Each(x.options)
  /\ Cardinality({norm(x.audio) : x \in Each(u.listening)}) = Len(u.listening)
  /\ \E x, y \in Each(u.listening) : \E i \in 1..3 : x.answer = x.options[i] /\ y.answer # y.options[i]

ReviewSound(u) ==
  /\ Len(u.review) = 2
  /\ \A x \in Each(u.review) :
       /\ x.prompt_th /\ x.target_th /\ English(x.target) /\ ~Blank(x.target)
       /\ ~Copied(u, x.target)

validate_unit(u, terms) ==
  /\ FieldsSound(u) /\ MistakesSound(u) /\ ExamplesSound(u) /\ VocabularySound(u, terms)
  /\ TermsPractised(u, terms)
  /\ QuizSound(u) /\ ListeningSound(u) /\ ReviewSound(u)

(* normalize_unit: the word bank is made from the answer.  Twenty shuffles *)
(* of words that are all alike leave them as they are.                     *)
normalize_unit(u) ==
  [u EXCEPT !.quiz = [i \in DOMAIN u.quiz |->
     IF u.quiz[i].kind = "reorder" /\ u.quiz[i].answers # <<>>
     THEN [u.quiz[i] EXCEPT !.bank = IF u.quiz[i].alike THEN "in order" ELSE "shuffled"]
     ELSE u.quiz[i]]]

-----------------------------------------------------------------------------
(* compare of solve_run.py. *)
AcceptedKeys(q) == {key(a) : a \in Each(q.answers)}
FilledKeys(q) == {key(Filled(q, a)) : a \in Each(q.answers)}

Agrees_FirstOrder(q, a) ==
  CASE q.kind = "choice"  -> a[1] = q.answers[1]
    [] q.kind = "fill"    -> key(a[1]) \in AcceptedKeys(q) \cup FilledKeys(q)
    [] q.kind = "reorder" -> key(a[1]) # <<>> => key(a[1]) \in AcceptedKeys(q)
    [] q.kind = "fix"     -> key(a[1]) # <<"no", "mistake">>
    [] OTHER              -> TRUE

Agrees(q, a) ==
  CASE q.kind = "choice"  -> a[1] = q.answers[1]
    [] q.kind = "fill"    -> key(a[1]) \in AcceptedKeys(q) \cup FilledKeys(q)
    [] q.kind = "reorder" -> \A t \in Each(a) : key(t) # <<>> => key(t) \in AcceptedKeys(q)
    [] q.kind = "fix"     -> key(a[1]) # <<"no", "mistake">>
    [] OTHER              -> TRUE

compare(u, r) ==
  /\ Len(r.quiz) = Len(u.quiz) /\ Len(r.listening) = Len(u.listening)
  /\ \A i \in DOMAIN u.quiz : Agrees(u.quiz[i], r.quiz[i])
  /\ \A i \in DOMAIN u.listening : r.listening[i] = u.listening[i].answer

-----------------------------------------------------------------------------
(* The application: courseAnswerAccepted, which marks these kinds alone.   *)
courseAnswerAccepted(q, t) ==
  /\ key(t) # <<>>
  /\ key(t) \in AcceptedKeys(q) \/ (q.kind \in Blanked /\ key(t) \in FilledKeys(q))

-----------------------------------------------------------------------------
(* Lesson.validate of the application, by the part of the lesson it is     *)
(* about.  It compares as exact does, and tells even more texts apart, by  *)
(* the sign they have for an apostrophe.  The ids, the lines to shadow,    *)
(* the words to speak with and the tags are given by build_course.         *)
Exacts(s) == {exact(t) : t \in Each(s)}

TeachingStarts(u, theme) ==
  /\ ~Blank(u.title) /\ ~Blank(u.pattern) /\ ~Blank(theme.en)
  /\ u.title_th /\ u.goal_th /\ u.explanation_th.thai /\ theme.th
  /\ u.length >= 200
  /\ u.usage \in 2 .. 4
  /\ Len(u.forms) \in 2 .. 4
  /\ \A f \in Each(u.forms) : f.label /\ ~Blank(f.pattern) /\ ~Blank(f.example) /\ f.example_th
  /\ Len(u.mistakes) \in 2 .. 3
  /\ \A m \in Each(u.mistakes) : ~Blank(m.wrong) /\ exact(m.wrong) # exact(m.right) /\ m.why_th

ExamplesStart(u) ==
  /\ Len(u.examples) = 6
  /\ \A x \in Each(u.examples) : ~Blank(x.en) /\ English(x.en) /\ x.th
  /\ Cardinality(Exacts(Sentences(u))) = Len(u.examples)

VocabularyStarts(u) ==
  /\ Len(u.vocabulary) = 10
  /\ \A v \in Each(u.vocabulary) :
       ~Blank(v.term) /\ v.meaning_th /\ ~Blank(v.example) /\ v.example_th
  /\ Cardinality(Exacts(TermsOf(u))) = Len(u.vocabulary)

ItemStarts(q) ==
  /\ ~Blank(q.prompt) /\ q.prompt_th /\ q.explanation_th
  /\ q.answers # <<>> /\ \A a \in Each(q.answers) : ~Blank(a)
  /\ q.kind \in Blanked => q.blanks = 1
  /\ q.kind = "choice" =>
       /\ Len(q.options) = 3 /\ Cardinality(Exacts(q.options)) = 3
       /\ \A x \in Each(q.options) : ~Blank(x)
       /\ Len(q.answers) = 1 /\ exact(q.answers[1]) \in Exacts(q.options)
  /\ q.kind = "reorder" => q.bank = "shuffled" /\ q.tokens >= 4
  /\ q.kind = "fix" => \A a \in Each(q.answers) : exact(q.prompt) # exact(a)
  /\ q.kind \notin {"choice", "reorder"} => q.options = <<>>

QuizStarts(u) ==
  /\ [i \in DOMAIN u.quiz |-> u.quiz[i].kind] = KINDS
  /\ \A q \in Each(u.quiz) : ItemStarts(q)

ListeningStarts(u) ==
  /\ Len(u.listening) = 3
  /\ \A x \in Each(u.listening) :
       /\ ~Blank(x.audio) /\ English(x.audio) /\ x.meaning_th /\ x.question_th
       /\ exact(x.audio) \notin Exacts(Sentences(u))
       /\ Len(x.options) = 3 /\ Distinct(x.options) /\ "" \notin Each(x.options)
       /\ x.answer \in Each(x.options)

SpeakingStarts(u) ==
  ~Blank(u.speaking.prompt) /\ u.speaking.prompt_th /\ u.speaking.criteria >= 2

ReviewStarts(u) ==
  /\ Len(u.review) = 2
  /\ \A x \in Each(u.review) :
       /\ x.prompt_th /\ ~Blank(x.target) /\ English(x.target) /\ x.target_th
       /\ exact(x.target) \notin Exacts(Sentences(u))

(* validateLessonTextQuality *)
Proofread(u, theme) ==
  {u.title, u.pattern, theme.en, u.speaking.prompt} \cup Each(Sentences(u)) \cup Each(TermsOf(u))
  \cup {v.example : v \in Each(u.vocabulary)} \cup UNION {Each(q.answers) : q \in Each(u.quiz)}
  \cup {x.audio : x \in Each(u.listening)} \cup {x.target : x \in Each(u.review)}

StartsWith(u, theme) ==
  /\ TeachingStarts(u, theme) /\ ExamplesStart(u) /\ VocabularyStarts(u) /\ QuizStarts(u)
  /\ ListeningStarts(u) /\ SpeakingStarts(u) /\ ReviewStarts(u)
  /\ \A t \in Proofread(u, theme) : ~t.slip

(* What the writer's rules and the audit let through and the application   *)
(* refuses: a blank English theme and one without a Thai name; a blank     *)
(* wrong sentence, prompt, option or line to listen to; and a banned or    *)
(* doubled word.                                                           *)
GapIn(u, theme) ==
  \/ Blank(theme.en) \/ ~theme.th
  \/ \E m \in Each(u.mistakes) : Blank(m.wrong)
  \/ \E q \in Each(u.quiz) : Blank(q.prompt) \/ (q.kind = "choice" /\ \E x \in Each(q.options) : Blank(x))
  \/ \E x \in Each(u.listening) : Blank(x.audio) \/ "" \in Each(x.options)
  \/ \E t \in Proofread(u, theme) : t.slip
=============================================================================
