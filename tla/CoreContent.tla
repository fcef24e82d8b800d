----------------------------- MODULE CoreContent ------------------------------
(***************************************************************************)
(* The core lessons and the scenes: build_content.py writes both files     *)
(* from its tables, enrich_content.py adds the everyday scenes and makes   *)
(* the drills transferable, refine_content.py gives words, rubrics, roles  *)
(* and the criterion that bridges an assessment to the lessons before it.  *)
(* The last two read what they write, and any of the three may be run      *)
(* again, out of order, or be killed between its two files.                *)
(*                                                                         *)
(* A text is told apart by the script that worded it.  What scripts append *)
(* to is counted: the notes of an explanation, the bridges of a lesson,    *)
(* the roles that a scene's brief explains.                                *)
(***************************************************************************)
EXTENDS Integers, Sequences, FiniteSets, SequencesExt

CONSTANTS
  CoreUnits,       \* the table of units: [level, texts]
  WorkScenes,      \* the table of scenes: the category of each
  EverydayScenes,  \* rows of the table everyday
  PerUnit,         \* rows of a unit: 5
  UnitsPerLevel,   \* 4
  MaxScripts       \* bound: scripts run since the files were last rebuilt

(* Level and place tell the units apart: the table has UnitsPerLevel units  *)
(* of each level.  Everyday scenes are no row of the table of scenes.       *)
ASSUME ContentAssumption ==
  /\ PerUnit \in Nat \ {0} /\ UnitsPerLevel \in Nat \ {0} /\ EverydayScenes \in Nat
  /\ CoreUnits \in Seq(Range(CoreUnits)) /\ WorkScenes \in Seq(Range(WorkScenes))
  /\ \A u, v \in DOMAIN CoreUnits :
       /\ CoreUnits[u].level = CoreUnits[v].level
       /\ (u - 1) % UnitsPerLevel = (v - 1) % UnitsPerLevel
       => u = v
  /\ "Everyday" \notin Range(WorkScenes)

VARIABLES
  lessons, scenarios,  \* lessons.json, scenarios.json
  sequence,            \* ghost: scripts of build && enrich && refine run through
  scripts
content == <<lessons, scenarios, sequence, scripts>>

Cut == [whole |-> FALSE]
File(rows) == [whole |-> TRUE, rows |-> rows]

-----------------------------------------------------------------------------
(* build_content.py *)
build_lesson(n) ==
  LET ui == (n - 1) \div PerUnit
  IN [id |-> <<"lesson", n>>, ordinal |-> n, level |-> CoreUnits[ui + 1].level,
      unit |-> (ui % UnitsPerLevel) + 1, text |-> CoreUnits[ui + 1].texts[((n - 1) % PerUnit) + 1],
      empty |-> FALSE, words |-> 1, drills |-> 4, acceptance |-> 3, bridges |-> <<>>,
      assessment |-> {}, notes |-> 0, worded |-> "build", timed |-> FALSE, version |-> 1]
build_lessons == [n \in 1 .. PerUnit * Len(CoreUnits) |-> build_lesson(n)]

Scene(category, i) == [id |-> <<category, i>>, category |-> category, roles |-> 0]
OfCategory(category) == {j \in DOMAIN WorkScenes : WorkScenes[j] = category}
Place(i) == Cardinality(OfCategory(WorkScenes[i]) \cap 1 .. i)
build_scenes == [i \in DOMAIN WorkScenes |-> Scene(WorkScenes[i], Place(i))]

(* enrich_content.py.  Notes are added unless they are there already. *)
enrich_lesson(l) ==
  [l EXCEPT !.notes = IF @ = 0 THEN 1 ELSE @, !.worded = "enrich", !.timed = TRUE, !.version = 2,
            !.assessment = {l.unit * PerUnit = ((l.ordinal - 1) % (PerUnit * UnitsPerLevel)) + 1}]
enrich_lessons(ls) == [n \in DOMAIN ls |-> enrich_lesson(ls[n])]

everyday == [i \in 1 .. EverydayScenes |-> Scene("Everyday", i)]
enrich_scenes_Appends(ss) == ss \o everyday

Smallest(k, S) == CHOOSE i \in S : Cardinality(S \cap 1 .. i) = k
WorkOnly(ss) ==
  LET work == {i \in DOMAIN ss : ss[i].category # "Everyday"}
  IN [k \in 1 .. Cardinality(work) |-> ss[Smallest(k, work)]]
enrich_scenes(ss) == WorkOnly(ss) \o everyday

(* refine_content.py.  A lesson without the key assessment, {} here, stops it. *)
Earlier(ls, l) == {ls[n].text : n \in (l.ordinal - PerUnit + 1 .. l.ordinal - 1) \cap DOMAIN ls}
refine_lesson(ls, l) ==
  [l EXCEPT !.words = 2, !.worded = "refine", !.version = 3,
            !.bridges = IF l.assessment = {TRUE} THEN Append(@, Earlier(ls, l)) ELSE @,
            !.acceptance = IF l.assessment = {TRUE} THEN @ + 1 ELSE @]
refine_lessons(ls) == [n \in DOMAIN ls |-> refine_lesson(ls, ls[n])]
refine_scenes(ss) == [i \in DOMAIN ss |-> [ss[i] EXCEPT !.roles = @ + 1]]

Ids(ss) == {ss[i].id : i \in DOMAIN ss}
AllScenes == Len(build_scenes) + EverydayScenes
Refinable(ls, ss) ==
  (\A n \in DOMAIN ls : ls[n].assessment # {}) /\ Cardinality(Ids(ss)) = AllScenes

(* The files as the documented sequence makes and the repository has them. *)
Enriched == enrich_lessons(build_lessons)
Core == refine_lessons(Enriched)
CoreScenes == refine_scenes(enrich_scenes(build_scenes))

-----------------------------------------------------------------------------
ContentInit ==
  /\ lessons = File(Core) /\ scenarios = File(CoreScenes) /\ sequence = 3 /\ scripts = 0

(* write_text, lessons first: run through, or killed at either file.       *)
Write(ls, ss, place) ==
  \/ /\ lessons' = File(ls) /\ scenarios' = File(ss)
     /\ sequence' = IF sequence = place - 1 \/ place = 1 THEN place ELSE 0
  \/ lessons' = Cut /\ UNCHANGED scenarios /\ sequence' = 0
  \/ lessons' = File(ls) /\ scenarios' \in {Cut, scenarios} /\ sequence' = 0

Run == scripts < MaxScripts /\ scripts' = IF sequence' = 3 THEN 0 ELSE scripts + 1
Readable == lessons.whole /\ scenarios.whole

BuildContent == Write(build_lessons, build_scenes, 1) /\ Run
EnrichContent ==
  Readable /\ Write(enrich_lessons(lessons.rows), enrich_scenes(scenarios.rows), 2) /\ Run
RefineContent ==
  /\ Readable /\ Refinable(lessons.rows, scenarios.rows)
  /\ Write(refine_lessons(lessons.rows), refine_scenes(scenarios.rows), 3) /\ Run

(* json.loads, a key or an assertion fails before anything is written. *)
ScriptStops ==
  /\ ~(Readable /\ Refinable(lessons.rows, scenarios.rows))
  /\ sequence' = 0 /\ UNCHANGED <<lessons, scenarios>> /\ Run

ContentScript == BuildContent \/ EnrichContent \/ RefineContent \/ ScriptStops

-----------------------------------------------------------------------------
(* content_test.go, TestScenarioCoverage. *)
TestScenarioCoverage(ss) ==
  /\ Len(ss) = AllScenes
  /\ \A c \in Range(WorkScenes) \cup {"Everyday"} :
       Cardinality({i \in DOMAIN ss : ss[i].category = c})
         = IF c = "Everyday" THEN EverydayScenes ELSE Cardinality(OfCategory(c))

(* README.md:119, "Rebuild content deterministically": whatever was run or *)
(* killed before, the three scripts one after the other make the files the *)
(* repository has.                                                         *)
Rebuilt == sequence = 3 => lessons = File(Core) /\ scenarios = File(CoreScenes)

(* reports/curriculum-review.md:83: no order of scripts and kills gives a  *)
(* scene twice, and with everyday scenes the test of the scenes passes.    *)
ScenesOnce ==
  scenarios.whole =>
    /\ Cardinality(Ids(scenarios.rows)) = Len(scenarios.rows)
    /\ (\E i \in DOMAIN scenarios.rows : scenarios.rows[i].category = "Everyday")
         => TestScenarioCoverage(scenarios.rows)

(* A refined lesson was enriched, and once; the assessments are the last   *)
(* lessons of the units, and bridge to all the other lessons of theirs,    *)
(* though a second refinement without a rebuild says so twice.             *)
Closes(l) == l.ordinal % PerUnit = 0
Others(ls, l) ==
  {ls[n].text : n \in {m \in DOMAIN ls : ls[m].level = l.level /\ ls[m].unit = l.unit /\ m # l.ordinal}}
RefinedIsEnriched ==
  lessons.whole =>
    \A n \in DOMAIN lessons.rows :
      LET l == lessons.rows[n]
      IN l.version = 3 =>
           /\ l.timed /\ l.notes = 1 /\ l.worded = "refine" /\ l.assessment = {Closes(l)}
           /\ Len(l.bridges) > 0 <=> Closes(l)
           /\ \A b \in DOMAIN l.bridges : l.bridges[b] = Others(lessons.rows, l)

ContentSound == Rebuilt /\ ScenesOnce /\ RefinedIsEnriched
=============================================================================
