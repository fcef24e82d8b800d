-------------------------- MODULE DailyMeet_proofs --------------------------
(* Proofs about DailyMeet, for any number of texts, recordings and jobs.   *)
EXTENDS DailyMeet, TLAPS
-----------------------------------------------------------------------------
(* Sentences made from a cut have their type, whoever made them. *)
LEMMA FromCut ==
  ASSUME NEW cut \in Cuts, NEW made \in [DOMAIN cut -> Sentence]
  PROVE  made \in Sentences
<1>1. PICK n \in Index : cut \in [1 .. n -> Wordings]
  BY DEF Cuts
<1>2. DOMAIN cut = 1 .. n /\ n \in 0 .. MaxIndex
  BY <1>1, DailyAssumption DEF Index
<1> QED BY <1>2 DEF Sentences

(* The words of a cut are wordings, at no more than MaxIndex places. *)
LEMMA CutWords ==
  ASSUME NEW cut \in Cuts
  PROVE  DOMAIN cut \subseteq Index /\ \A i \in DOMAIN cut : cut[i] \in Wordings
<1>1. PICK n \in Index : cut \in [1 .. n -> Wordings]
  BY DEF Cuts
<1> QED BY <1>1, DailyAssumption DEF Index

(* dailyFinishSentences gives sentences, with the model's cut or without.  *)
LEMMA FinishedTyped ==
  ASSUME NEW t \in Texts
  PROVE  Untold(Plain[t]) \in Sentences /\ Finished(t) \subseteq Sentences
<1>1. Plain[t] \in Cuts /\ Splits[t] \subseteq Cuts
  BY DailyAssumption
<1>2. Untold(Plain[t]) \in Sentences
  <2>1. Untold(Plain[t]) \in [DOMAIN Plain[t] -> Sentence]
    BY <1>1, CutWords DEF Untold, Sentence
  <2> QED BY <1>1, <2>1, FromCut
<1>3. ASSUME NEW cut \in Splits[t], NEW told \in [Index -> BOOLEAN]
      PROVE  [i \in DOMAIN cut |-> [en |-> cut[i], told |-> told[i]]] \in Sentences
  <2>1. [i \in DOMAIN cut |-> [en |-> cut[i], told |-> told[i]]] \in [DOMAIN cut -> Sentence]
    BY <1>1, CutWords DEF Sentence
  <2> QED BY <1>1, <2>1, FromCut
<1> QED BY <1>2, <1>3 DEF Finished

(* So does dailyResplit. *)
LEMMA ResplitTyped ==
  ASSUME NEW old \in Sentences, NEW t \in Texts
  PROVE  Resplit(old, t) \in Sentences
<1>1. Plain[t] \in Cuts
  BY DailyAssumption
<1>2. Resplit(old, t) \in [DOMAIN Plain[t] -> Sentence]
  BY <1>1, CutWords DEF Resplit, Sentence
<1> QED BY <1>1, <1>2, FromCut

(* A drill that has not begun, and one that takes a pass, have their type. *)
LEMMA DrillTyped ==
  /\ NoDrill \in Drill
  /\ \A d \in Drill, target \in Target, level \in 1 .. MaxLevel : Passed(d, target, level) \in Drill
  /\ \A d \in Drill, q \in Requests : [d EXCEPT !.last = q] \in Drill
<1>1. NoDrill \in Drill
  BY DailyAssumption DEF NoDrill, Drill
<1>2. ASSUME NEW d \in Drill, NEW target \in Target, NEW level \in 1 .. MaxLevel
      PROVE  Passed(d, target, level) \in Drill
  <2>1. CASE target = Whole
    BY <2>1 DEF Passed, Drill
  <2>2. CASE target # Whole
    <3>1. target \in Index /\ d.levels \in [Index -> 0 .. MaxLevel]
      BY <2>2 DEF Target, Drill
    <3>2. Larger(d.levels[target], level) \in 0 .. MaxLevel
      BY <3>1, DailyAssumption DEF Larger
    <3>3. [d.levels EXCEPT ![target] = Larger(d.levels[target], level)] \in [Index -> 0 .. MaxLevel]
      BY <3>1, <3>2
    <3>4. Passed(d, target, level) =
            [d EXCEPT !.levels = [d.levels EXCEPT ![target] = Larger(d.levels[target], level)]]
      BY <2>2 DEF Passed, Drill
    <3> QED BY <3>3, <3>4 DEF Drill
  <2> QED BY <2>1, <2>2
<1>3. \A d \in Drill, q \in Requests : [d EXCEPT !.last = q] \in Drill
  BY DEF Drill
<1> QED BY <1>1, <1>2, <1>3
-----------------------------------------------------------------------------
(* The inductive invariant: the mark alone is not inductive, the edit and  *)
(* the analysis rely on what entries are made of.                          *)
IInv == TypeOK /\ AnalyzedIsTold

(* An edit keeps the entry's type and an honest mark. *)
LEMMA EditedSound ==
  ASSUME NEW e \in Entry, NEW t \in Texts, e.analyzed => AllTold(e.sentences)
  PROVE  /\ Edited(e, t) \in Entry
         /\ Edited(e, t).analyzed => AllTold(Edited(e, t).sentences)
<1> DEFINE new == Resplit(e.sentences, t)
<1>1. new \in Sentences
  BY ResplitTyped DEF Entry
<1>2. CASE Moved(e.sentences, new)
  <2>1. Edited(e, t) = [english |-> t, sentences |-> new, analyzed |-> AllTold(new), drill |-> NoDrill]
    BY <1>2 DEF Edited
  <2>2. AllTold(new) \in BOOLEAN
    BY DEF AllTold
  <2> HIDE DEF new
  <2> QED BY <1>1, <2>1, <2>2, DrillTyped DEF Entry
<1>3. CASE ~Moved(e.sentences, new)
  <2>1. Edited(e, t) = [e EXCEPT !.english = t]
    BY <1>3 DEF Edited
  <2> QED BY <2>1 DEF Entry
<1> QED BY <1>2, <1>3

(* At first every entry is as makeDailyMeet left it. *)
LEMMA InitIInv == Init => IInv
<1> SUFFICES ASSUME Init PROVE IInv
  OBVIOUS
<1>1. PICK t \in Texts, s \in Sentences :
        entry = [english |-> t, sentences |-> s, analyzed |-> AllTold(s), drill |-> NoDrill]
  BY DEF Init
<1>2. AllTold(s) \in BOOLEAN
  BY DEF AllTold
<1>3. entry \in Entry /\ AnalyzedIsTold
  BY <1>1, <1>2, DrillTyped DEF Entry, AnalyzedIsTold
<1>4. job \in [Jobs -> JobState] /\ speech \in [Speakers -> SpeechState]
  BY DEF Init, JobState, SpeechState
<1> QED BY <1>3, <1>4 DEF IInv, TypeOK

(* Every step keeps the invariant, one action at a time. *)
LEMMA NextIInv == IInv /\ [Next]_vars => IInv'
<1> SUFFICES ASSUME IInv, [Next]_vars PROVE IInv'
  OBVIOUS
<1> USE DEF IInv, TypeOK
<1>1. ASSUME NEW t \in Texts, Edit(t) PROVE IInv'
  <2>1. entry' \in Entry /\ (entry'.analyzed => AllTold(entry'.sentences))
    BY <1>1, EditedSound DEF Edit, AnalyzedIsTold
  <2> QED BY <1>1, <2>1 DEF Edit, AnalyzedIsTold
<1>2. ASSUME NEW j \in Jobs, Analyze(j) \/ JobSkips(j) \/ JobAsks(j) \/ JobFails(j) PROVE IInv'
  <2>1. PICK state \in JobState : job' = [job EXCEPT ![j] = state]
    <3>1. [at |-> "asked", text |-> entry.english] \in JobState
      BY DEF JobState, Entry
    <3>2. \A at \in {"queued", "done", "failed"} : [at |-> at] \in JobState
      BY DEF JobState
    <3> QED BY <1>2, <3>1, <3>2 DEF Analyze, JobSkips, JobAsks, JobFails
  <2>2. UNCHANGED <<entry, speech>>
    BY <1>2 DEF Analyze, JobSkips, JobAsks, JobFails
  <2> QED BY <2>1, <2>2 DEF AnalyzedIsTold
<1>3. ASSUME NEW j \in Jobs, JobWrites(j) PROVE IInv'
  <2>1. job[j] \in JobState /\ job[j].at = "asked"
    BY <1>3 DEF JobWrites
  <2>2. job[j].text \in Texts
    BY <2>1 DEF JobState
  <2>3. PICK s \in Sentences :
          entry' = [entry EXCEPT !.sentences = s, !.analyzed = AllTold(s), !.drill = NoDrill]
    BY <1>3, <2>2, FinishedTyped DEF JobWrites, Analysis
  <2>4. entry'.sentences = s /\ entry'.analyzed = AllTold(s) /\ entry' \in Entry
    <3>1. AllTold(s) \in BOOLEAN
      BY DEF AllTold
    <3> QED BY <2>3, <3>1, DrillTyped DEF Entry
  <2>5. job' \in [Jobs -> JobState] /\ UNCHANGED speech
    <3>1. [at |-> "done"] \in JobState
      BY DEF JobState
    <3> QED BY <1>3, <3>1 DEF JobWrites
  <2> QED BY <2>4, <2>5 DEF AnalyzedIsTold
<1>4. ASSUME NEW p \in Speakers, NEW state \in SpeechState,
             speech' = [speech EXCEPT ![p] = state], UNCHANGED <<entry, job>>
      PROVE  IInv'
  BY <1>4 DEF AnalyzedIsTold
<1>5. ASSUME NEW p \in Speakers, SpeakWrites(p) PROVE IInv'
  <2>1. speech[p] \in SpeechState /\ speech[p].at = "asked"
    BY <1>5 DEF SpeakWrites
  <2>2. speech[p].target \in Target /\ speech[p].level \in 1 .. MaxLevel /\ speech[p].request \in Requests
    BY <2>1 DEF SpeechState
  <2>3. entry.drill \in Drill
    BY DEF Entry
  <2>4. PICK d \in Drill : entry' = [entry EXCEPT !.drill = [d EXCEPT !.last = speech[p].request]]
    BY <1>5, <2>2, <2>3, DrillTyped DEF SpeakWrites
  <2>5. entry' \in Entry /\ entry'.analyzed = entry.analyzed /\ entry'.sentences = entry.sentences
    BY <2>2, <2>4, DrillTyped DEF Entry
  <2>6. speech' \in [Speakers -> SpeechState] /\ UNCHANGED job
    <3>1. [at |-> "answered"] \in SpeechState
      BY DEF SpeechState
    <3> QED BY <1>5, <3>1 DEF SpeakWrites
  <2> QED BY <2>5, <2>6 DEF AnalyzedIsTold
<1>6. CASE UNCHANGED vars
  BY <1>6 DEF vars, AnalyzedIsTold
<1>7. [at |-> "answered"] \in SpeechState
  BY DEF SpeechState
<1>8. ASSUME NEW p \in Speakers, NEW q \in Requests, SpeakReplays(p, q) PROVE IInv'
  BY <1>4, <1>7, <1>8 DEF SpeakReplays
<1>9. ASSUME NEW p \in Speakers, NEW q \in Requests, NEW target \in Target, NEW level \in 1 .. MaxLevel,
             SpeakAsks(p, q, target, level)
      PROVE  IInv'
  <2>1. [at |-> "asked", request |-> q, target |-> target, level |-> level] \in SpeechState
    BY DEF SpeechState
  <2> QED BY <1>4, <1>9, <2>1 DEF SpeakAsks
<1>10. ASSUME NEW p \in Speakers, SpeakFails(p) PROVE IInv'
  BY <1>4, <1>7, <1>10 DEF SpeakFails
<1> QED BY <1>1, <1>2, <1>3, <1>4, <1>5, <1>6, <1>8, <1>9, <1>10 DEF Next
-----------------------------------------------------------------------------
(* TypeOK: the entry, the jobs and the recordings keep their types.        *)
THEOREM TypeCorrect == Spec => []TypeOK
<1>1. IInv => TypeOK
  BY DEF IInv
<1> QED BY <1>1, InitIInv, NextIInv, PTL DEF Spec

(* AnalyzedIsTold: an entry is never marked as analysed while one of its   *)
(* sentences lacks its meaning or its reading aid.                         *)
THEOREM MarkIsHonest == Spec => []AnalyzedIsTold
<1>1. IInv => AnalyzedIsTold
  BY DEF IInv
<1> QED BY <1>1, InitIInv, NextIInv, PTL DEF Spec
-----------------------------------------------------------------------------
(* A pass never lowers a level and never forgets the retelling. *)
LEMMA PassedRises ==
  ASSUME NEW d \in Drill, NEW target \in Target, NEW level \in 1 .. MaxLevel
  PROVE  /\ \A i \in Index : Passed(d, target, level).levels[i] >= d.levels[i]
         /\ d.full => Passed(d, target, level).full
<1>1. d.levels \in [Index -> 0 .. MaxLevel]
  BY DEF Drill
<1>2. CASE target = Whole
  BY <1>1, <1>2, DailyAssumption DEF Passed, Drill
<1>3. CASE target # Whole
  <2>1. target \in Index
    BY <1>3 DEF Target
  <2>2. /\ Passed(d, target, level).levels = [d.levels EXCEPT ![target] = Larger(d.levels[target], level)]
        /\ Passed(d, target, level).full = d.full
    BY <1>3 DEF Passed, Drill
  <2>3. Larger(d.levels[target], level) >= d.levels[target]
    BY <1>1, <2>1, DailyAssumption DEF Larger
  <2>4. \A i \in Index : d.levels[i] >= d.levels[i]
    BY <1>1, DailyAssumption
  <2> QED BY <1>1, <2>1, <2>2, <2>3, <2>4
<1> QED BY <1>2, <1>3

(* PassedIsKept: what was passed stays until the sentences move or an      *)
(* analysis writes them, however many recordings are judged at a time.     *)
THEOREM PassesKept == Spec => PassedIsKept
<1> DEFINE Kept(d, e) == /\ \A i \in Index : e.levels[i] >= d.levels[i]
                         /\ d.full => e.full
           Step == \/ WordsOf(entry'.sentences) # WordsOf(entry.sentences)
                   \/ \E j \in Jobs : job[j].at = "asked" /\ job'[j].at = "done"
                   \/ Kept(entry.drill, entry'.drill)
<1>1. \A d \in Drill : Kept(d, d)
  BY DailyAssumption DEF Drill
<1>2. IInv /\ [Next]_vars => Step
  <2> SUFFICES ASSUME IInv, [Next]_vars PROVE Step
    OBVIOUS
  <2> USE DEF IInv, TypeOK
  <2>1. entry.drill \in Drill /\ entry.sentences \in Sentences
    BY DEF Entry
  <2>2. ASSUME UNCHANGED entry PROVE Step
    BY <1>1, <2>1, <2>2
  <2>3. ASSUME NEW t \in Texts, Edit(t) PROVE Step
    <3> DEFINE new == Resplit(entry.sentences, t)
    <3>1. CASE ~Moved(entry.sentences, new)
      <4>1. entry'.drill = entry.drill
        BY <2>3, <3>1 DEF Edit, Edited, Entry
      <4> QED BY <1>1, <2>1, <4>1
    <3>2. CASE Moved(entry.sentences, new)
      <4>1. entry'.sentences = new
        BY <2>3, <3>2 DEF Edit, Edited
      <4>2. DOMAIN new # {}
        <5>1. PICK n \in Index : Plain[t] \in [1 .. n -> Wordings]
          BY DailyAssumption DEF Cuts
        <5>2. 1 \in DOMAIN Plain[t]
          BY <5>1, DailyAssumption DEF Index
        <5>3. DOMAIN new = DOMAIN Plain[t]
          BY DEF Resplit
        <5> QED BY <5>2, <5>3
      <4>3. CASE entry.sentences = <<>>
        <5>1. DOMAIN WordsOf(entry.sentences) = {}
          BY <4>3 DEF WordsOf
        <5>2. DOMAIN WordsOf(new) # {}
          BY <4>2 DEF WordsOf
        <5> HIDE DEF new
        <5> QED BY <4>1, <5>1, <5>2
      <4>4. CASE WordsOf(entry.sentences) # WordsOf(new)
        BY <4>1, <4>4
      <4> QED BY <3>2, <4>3, <4>4 DEF Moved
    <3> QED BY <3>1, <3>2
  <2>4. ASSUME NEW j \in Jobs, JobWrites(j) PROVE Step
    BY <2>4 DEF JobWrites
  <2>5. ASSUME NEW p \in Speakers, SpeakWrites(p) PROVE Step
    <3>1. /\ speech[p].target \in Target /\ speech[p].level \in 1 .. MaxLevel
          /\ speech[p].request \in Requests
      BY <2>5 DEF SpeakWrites, SpeechState
    <3>2. PICK d \in {entry.drill, Passed(entry.drill, speech[p].target, speech[p].level)} :
            entry' = [entry EXCEPT !.drill = [d EXCEPT !.last = speech[p].request]]
      BY <2>5 DEF SpeakWrites
    <3>3. d \in Drill /\ Kept(entry.drill, d)
      BY <1>1, <2>1, <3>1, <3>2, PassedRises, DrillTyped
    <3>4. entry'.drill.levels = d.levels /\ entry'.drill.full = d.full
      BY <3>2, <3>3 DEF Entry, Drill
    <3> QED BY <3>3, <3>4
  <2>6. CASE UNCHANGED vars
    BY <2>2, <2>6 DEF vars
  <2> QED
    BY <2>2, <2>3, <2>4, <2>5, <2>6
    DEF Next, Analyze, JobSkips, JobAsks, JobFails, SpeakReplays, SpeakAsks, SpeakFails
<1> QED BY <1>2, InitIInv, NextIInv, PTL DEF Spec, PassedIsKept
-----------------------------------------------------------------------------
(* Sentences with a cut's words are those of the text, if they are shown.  *)
LEMMA CutSays ==
  ASSUME NEW e, NEW cut \in Splits[e.english] \cup {Plain[e.english]},
         e.english \in Texts, e.sentences = <<>> \/ WordsOf(e.sentences) = cut
  PROVE  SentencesSay(e)
<1>1. CASE e.sentences = <<>>
  <2>1. Plain[e.english] \in Cuts
    BY DailyAssumption
  <2>2. PICK n \in Index : Plain[e.english] \in [1 .. n -> Wordings]
    BY <2>1 DEF Cuts
  <2>3. WordsOf(Untold(Plain[e.english])) = Plain[e.english]
    BY <2>2 DEF WordsOf, Untold
  <2> QED BY <1>1, <2>3 DEF SentencesSay, Shown
<1>2. CASE e.sentences # <<>>
  BY <1>2 DEF SentencesSay, Shown
<1> QED BY <1>1, <1>2

(* dailyFinishSentences gives the plain cut, or one of the model's.        *)
LEMMA FinishedSays ==
  ASSUME NEW t \in Texts, NEW s \in Finished(t)
  PROVE  WordsOf(s) \in Splits[t] \cup {Plain[t]}
<1>1. ASSUME NEW cut \in Cuts, NEW told PROVE WordsOf([i \in DOMAIN cut |-> [en |-> cut[i], told |-> told[i]]]) = cut
  <2>1. PICK n \in Index : cut \in [1 .. n -> Wordings]
    BY DEF Cuts
  <2> QED BY <2>1 DEF WordsOf
<1>2. ASSUME NEW cut \in Cuts PROVE WordsOf(Untold(cut)) = cut
  <2>1. PICK n \in Index : cut \in [1 .. n -> Wordings]
    BY DEF Cuts
  <2> QED BY <2>1 DEF WordsOf, Untold
<1>3. Plain[t] \in Cuts /\ Splits[t] \subseteq Cuts
  BY DailyAssumption
<1>4. CASE s = Untold(Plain[t])
  BY <1>2, <1>3, <1>4
<1>5. ASSUME NEW cut \in Splits[t], NEW told, s = [i \in DOMAIN cut |-> [en |-> cut[i], told |-> told[i]]]
      PROVE  WordsOf(s) = cut
  BY <1>1, <1>3, <1>5
<1> QED BY <1>4, <1>5 DEF Finished

(* After an edit the words are the plain cut of the new text, whether the  *)
(* sentences were cut anew or said it already.                             *)
LEMMA EditSays ==
  ASSUME NEW e \in Entry, NEW t \in Texts
  PROVE  SentencesSay(Edited(e, t))
<1> DEFINE new == Resplit(e.sentences, t)
<1>1. WordsOf(new) = Plain[t]
  <2>1. PICK n \in Index : Plain[t] \in [1 .. n -> Wordings]
    BY DailyAssumption DEF Cuts
  <2> QED BY <2>1 DEF WordsOf, Resplit
<1>2. CASE Moved(e.sentences, new)
  <2>1. Edited(e, t) = [english |-> t, sentences |-> new, analyzed |-> AllTold(new), drill |-> NoDrill]
    BY <1>2 DEF Edited
  <2> HIDE DEF new
  <2>2. Edited(e, t).english = t /\ Edited(e, t).sentences = new
    BY <2>1
  <2> QED BY <1>1, <2>2, CutSays
<1>3. CASE ~Moved(e.sentences, new)
  <2>1. Edited(e, t) = [e EXCEPT !.english = t] /\ WordsOf(e.sentences) = Plain[t]
    BY <1>1, <1>3 DEF Edited, Moved
  <2>2. Edited(e, t).english = t /\ Edited(e, t).sentences = e.sentences
    BY <2>1 DEF Entry
  <2> QED BY <2>1, <2>2, CutSays
<1> QED BY <1>2, <1>3

(* OnlyLateAnalysisParts: sentences that say the text go on saying it,     *)
(* through every edit and recording; only an analysis that read an older   *)
(* text can part them.                                                     *)
THEOREM LateAnalysisParts == Spec => OnlyLateAnalysisParts
<1> DEFINE Late == \E j \in Jobs : job[j].at = "asked" /\ job[j].text # entry.english /\ job'[j].at = "done"
<1>1. IInv /\ [Next]_vars /\ SentencesSay(entry) => SentencesSay(entry') \/ Late
  <2> SUFFICES ASSUME IInv, [Next]_vars, SentencesSay(entry) PROVE SentencesSay(entry') \/ Late
    OBVIOUS
  <2> USE DEF IInv, TypeOK
  <2>1. ASSUME NEW t \in Texts, Edit(t) PROVE SentencesSay(entry')
    BY <2>1, EditSays DEF Edit
  <2>2. ASSUME NEW j \in Jobs, JobWrites(j) PROVE SentencesSay(entry') \/ Late
    <3>1. job[j].at = "asked" /\ job[j] \in JobState /\ job'[j].at = "done"
      BY <2>2 DEF JobWrites
    <3>2. job[j].text \in Texts
      BY <3>1 DEF JobState
    <3>3. PICK s \in Finished(job[j].text) : entry'.sentences = s /\ entry'.english = entry.english
      BY <2>2 DEF JobWrites, Entry
    <3>4. CASE job[j].text # entry.english
      BY <3>1, <3>4
    <3>5. CASE job[j].text = entry.english
      <4>1. WordsOf(s) \in Splits[entry.english] \cup {Plain[entry.english]}
        BY <3>2, <3>5, FinishedSays
      <4>2. SentencesSay(entry')
        BY <3>2, <3>3, <3>5, <4>1, CutSays
      <4> QED BY <4>2
    <3> QED BY <3>4, <3>5
  <2>3. ASSUME entry'.english = entry.english, entry'.sentences = entry.sentences PROVE SentencesSay(entry')
    BY <2>3 DEF SentencesSay, Shown
  <2>4. ASSUME NEW p \in Speakers, SpeakWrites(p) PROVE SentencesSay(entry')
    <3>1. PICK d : entry' = [entry EXCEPT !.drill = d]
      BY <2>4 DEF SpeakWrites
    <3> QED BY <2>3, <3>1 DEF Entry
  <2>5. CASE UNCHANGED vars
    BY <2>3, <2>5 DEF vars
  <2> QED
    BY <2>1, <2>2, <2>3, <2>4, <2>5
    DEF Next, Analyze, JobSkips, JobAsks, JobFails, SpeakReplays, SpeakAsks, SpeakFails
<1> QED BY <1>1, InitIInv, NextIInv, PTL DEF Spec, OnlyLateAnalysisParts
=============================================================================
