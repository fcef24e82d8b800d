----------------------------- MODULE DailyMeet -----------------------------
(***************************************************************************)
(* One diary entry (internal/app/daily_meets.go, daily_drill.go): its text *)
(* and the sentences cut from it, which three actors write.  The learner   *)
(* edits the text; a job of the worker asks a model for the sentences, and *)
(* writes them later; the learner speaks a sentence, and what the model    *)
(* makes of it is written later under the sentence's index.                *)
(***************************************************************************)
EXTENDS Integers, Sequences

CONSTANTS Texts,     \* texts of the entry
          Wordings,  \* sentences, up to case and spacing (dailySentenceKey)
          Plain,     \* the cut of each text at its full stops
          Splits,    \* the cuts of each text a model may return
          Speakers,  \* requests of the learner to judge a recording
          Jobs,      \* analysis jobs
          Requests,  \* request_id of recordings
          MaxIndex,  \* bound: sentences an entry has
          MaxLevel,  \* support levels (3 in the code)
          None       \* no request yet

Index == 1 .. MaxIndex
Cuts == UNION {[1 .. n -> Wordings] : n \in Index}

ASSUME DailyAssumption ==
  /\ MaxIndex \in Nat \ {0} /\ MaxLevel \in Nat \ {0}
  /\ Plain \in [Texts -> Cuts] /\ Splits \in [Texts -> SUBSET Cuts]
  /\ None \notin Requests

VARIABLES entry,   \* daily_meets.data
          job,     \* what each analysis job is doing
          speech   \* what each request to judge a recording is doing

vars == <<entry, job, speech>>

(* A sentence is "told" when it has its Thai meaning and its reading aid.  *)
Sentence == [en : Wordings, told : BOOLEAN]
Sentences == UNION {[1 .. n -> Sentence] : n \in 0 .. MaxIndex}

WordsOf(s) == [i \in DOMAIN s |-> s[i].en]
AllTold(s) == s # <<>> /\ \A i \in DOMAIN s : s[i].told

(* levels: hardest level passed, 0 for an index the map does not hold.     *)
NoDrill == [levels |-> [i \in Index |-> 0], full |-> FALSE, last |-> None]
Drill == [levels : [Index -> 0 .. MaxLevel], full : BOOLEAN, last : Requests \cup {None}]
Entry == [english : Texts, sentences : Sentences, analyzed : BOOLEAN, drill : Drill]

Untold(cut) == [i \in DOMAIN cut |-> [en |-> cut[i], told |-> FALSE]]

(* dailyFinishSentences: the model's cut, its meanings and reading aids    *)
(* present or not, or the plain cut when all its sentences were empty.     *)
Finished(t) ==
  {Untold(Plain[t])}
  \cup {[i \in DOMAIN cut |-> [en |-> cut[i], told |-> told[i]]] :
          cut \in Splits[t], told \in [Index -> BOOLEAN]}

(* What the learner is shown, and speaks: an entry from before sentences   *)
(* existed is cut when it is needed.                                       *)
Shown(e) == IF e.sentences = <<>> THEN Untold(Plain[e.english]) ELSE e.sentences

JobState == [at : {"idle", "queued", "done", "failed"}] \cup [at : {"asked"}, text : Texts]
Whole == 0   \* target "all": the entry told from memory
Target == {Whole} \cup Index
SpeechState ==
  [at : {"idle", "answered"}]
  \cup [at : {"asked"}, request : Requests, target : Target, level : 1 .. MaxLevel]

(* The entry as makeDailyMeet left it, or one that is older.               *)
Init ==
  /\ \E t \in Texts, s \in Sentences :
       /\ s = <<>> \/ s \in Finished(t)
       /\ entry = [english |-> t, sentences |-> s, analyzed |-> AllTold(s), drill |-> NoDrill]
  /\ job = [j \in Jobs |-> [at |-> "idle"]]
  /\ speech = [p \in Speakers |-> [at |-> "idle"]]
-----------------------------------------------------------------------------
(* updateDailyMeet, a transaction that holds the row *)

(* dailyResplit: the plain cut of the new text; a sentence that was there  *)
(* keeps what is known of it (of the last one with its wording).           *)
Resplit(old, t) ==
  [i \in DOMAIN Plain[t] |->
     [en   |-> Plain[t][i],
      told |-> \E k \in DOMAIN old :
                 /\ old[k].en = Plain[t][i] /\ old[k].told
                 /\ \A m \in DOMAIN old : m > k => old[m].en # old[k].en]]

Moved_ByLength(old, new) == Len(old) # Len(new)
Moved(old, new) == old = <<>> \/ WordsOf(old) # WordsOf(new)

Edited(e, t) ==
  LET new == Resplit(e.sentences, t)
  IN IF Moved(e.sentences, new)
     THEN [english |-> t, sentences |-> new, analyzed |-> AllTold(new), drill |-> NoDrill]
     ELSE [e EXCEPT !.english = t]

Edit(t) ==
  /\ entry' = Edited(entry, t)
  /\ UNCHANGED <<job, speech>>
-----------------------------------------------------------------------------
(* analyzeDailyMeet queues a job; makeDailySentences is its two halves *)

Analyze(j) ==
  /\ job[j].at = "idle"
  /\ job' = [job EXCEPT ![j] = [at |-> "queued"]]
  /\ UNCHANGED <<entry, speech>>

JobSkips(j) ==
  /\ job[j].at = "queued" /\ entry.analyzed /\ entry.sentences # <<>>
  /\ job' = [job EXCEPT ![j] = [at |-> "done"]]
  /\ UNCHANGED <<entry, speech>>

JobAsks(j) ==
  /\ job[j].at = "queued" /\ ~(entry.analyzed /\ entry.sentences # <<>>)
  /\ job' = [job EXCEPT ![j] = [at |-> "asked", text |-> entry.english]]
  /\ UNCHANGED <<entry, speech>>

Analysis_AlwaysTold(s) == s # <<>>
Analysis(s) == AllTold(s)

(* The patch is written whatever happened to the entry in the meantime.    *)
JobWrites(j) ==
  /\ job[j].at = "asked"
  /\ \E s \in Finished(job[j].text) :
       entry' = [entry EXCEPT !.sentences = s, !.analyzed = Analysis(s), !.drill = NoDrill]
  /\ job' = [job EXCEPT ![j] = [at |-> "done"]]
  /\ UNCHANGED speech

(* No budget, no answer or no sentences: runJob gives the job up, or       *)
(* queues it again when the model was busy.                                *)
JobFails(j) ==
  /\ job[j].at = "asked"
  /\ \E at \in {"failed", "queued"} : job' = [job EXCEPT ![j] = [at |-> at]]
  /\ UNCHANGED <<entry, speech>>
-----------------------------------------------------------------------------
(* speakDailyMeet: a read, the model, a transaction *)

SpeakReplays(p, q) ==
  /\ speech[p].at = "idle" /\ entry.drill.last = q
  /\ speech' = [speech EXCEPT ![p] = [at |-> "answered"]]
  /\ UNCHANGED <<entry, job>>

SpeakAsks(p, q, target, level) ==
  /\ speech[p].at = "idle" /\ entry.drill.last # q
  /\ target # Whole => target \in DOMAIN Shown(entry)
  /\ speech' = [speech EXCEPT ![p] = [at |-> "asked", request |-> q, target |-> target, level |-> level]]
  /\ UNCHANGED <<entry, job>>

Larger(n, m) == IF n >= m THEN n ELSE m

Passed_Latest(d, target, level) ==
  IF target = Whole THEN [d EXCEPT !.full = TRUE]
  ELSE [d EXCEPT !.levels[target] = level]

Passed(d, target, level) ==
  IF target = Whole THEN [d EXCEPT !.full = TRUE]
  ELSE [d EXCEPT !.levels[target] = Larger(@, level)]

(* The drill is read again under the row's lock; the sentences are not.    *)
SpeakWrites(p) ==
  /\ speech[p].at = "asked"
  /\ LET w == speech[p]
     IN \E d \in {entry.drill, Passed(entry.drill, w.target, w.level)} :
          entry' = [entry EXCEPT !.drill = [d EXCEPT !.last = w.request]]
  /\ speech' = [speech EXCEPT ![p] = [at |-> "answered"]]
  /\ UNCHANGED job

SpeakFails(p) ==
  /\ speech[p].at = "asked"
  /\ speech' = [speech EXCEPT ![p] = [at |-> "answered"]]
  /\ UNCHANGED <<entry, job>>
-----------------------------------------------------------------------------
Next ==
  \/ \E t \in Texts : Edit(t)
  \/ \E j \in Jobs :
       \/ Analyze(j)
       \/ JobSkips(j)
       \/ JobAsks(j)
       \/ JobWrites(j)
       \/ JobFails(j)
  \/ \E p \in Speakers :
       \/ \E q \in Requests : SpeakReplays(p, q)
       \/ \E q \in Requests, target \in Target, level \in 1 .. MaxLevel : SpeakAsks(p, q, target, level)
       \/ SpeakWrites(p)
       \/ SpeakFails(p)

Spec == Init /\ [][Next]_vars
-----------------------------------------------------------------------------
(* Properties *)

(* The entry, the jobs and the recordings have their types. *)
TypeOK ==
  /\ entry \in Entry
  /\ job \in [Jobs -> JobState]
  /\ speech \in [Speakers -> SpeechState]

(* "Analyzed is true when every sentence has its Thai meaning and reading  *)
(* aid" (daily_meets.go 26-27): an entry is never marked while one lacks   *)
(* them, for the analysis of a marked entry is skipped for good, however   *)
(* edits and analyses overlap.                                             *)
AnalyzedIsTold == entry.analyzed => AllTold(entry.sentences)

(* A level once passed, and the whole entry once retold, stay until the    *)
(* sentences move or an analysis writes them: of two recordings judged at  *)
(* a time neither undoes the other (daily_drill.go 352-369).               *)
PassedIsKept ==
  [][\/ WordsOf(entry'.sentences) # WordsOf(entry.sentences)
     \/ \E j \in Jobs : job[j].at = "asked" /\ job'[j].at = "done"
     \/ /\ \A i \in Index : entry'.drill.levels[i] >= entry.drill.levels[i]
        /\ entry.drill.full => entry'.drill.full]_vars

(* The sentences say what the text says: they are a cut of it.             *)
SentencesSay(e) ==
  WordsOf(Shown(e)) \in Splits[e.english] \cup {Plain[e.english]}

(* Sentences that say the text go on saying it, through every edit: only   *)
(* an analysis that read an older text can part them.                      *)
OnlyLateAnalysisParts ==
  [][SentencesSay(entry) =>
       \/ SentencesSay(entry')
       \/ \E j \in Jobs : job[j].at = "asked" /\ job[j].text # entry.english /\ job'[j].at = "done"]_vars

=============================================================================
