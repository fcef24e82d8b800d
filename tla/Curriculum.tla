------------------------------ MODULE Curriculum ------------------------------
(***************************************************************************)
(* From the tables of expand_curriculum.py to the lessons learners read:   *)
(* the script builds and validates expansion.json, the tests look at it, a *)
(* release embeds it, and each process of a release that starts, the       *)
(* candidate of a deployment too, writes the lessons it embeds into the    *)
(* one database, whose ordinals are UNIQUE.                                *)
(*                                                                         *)
(* An edition is what the script holds at one time: its two tables and the *)
(* counts its assertions (and those of the tests) expect.  A row has the   *)
(* number of its fields, whether a text among them is empty, its number of *)
(* words, its grammar focus and sources, and the text itself.              *)
(***************************************************************************)
EXTENDS CoreContent

CONSTANTS
  Editions,          \* [practical, grammar : Seq(unit), want : counts]
  Levels,            \* of LEVEL_SLUG
  PracticalLevels,   \* A2, B1 and B2
  LastSource,        \* units of the reference book: 145
  ORIGINAL_FOUNDATION_IDS,
  MaxImages          \* bound: releases built

(* Practical units are in the one table, grammar units in the other.        *)
ASSUME EditionsAssumption ==
  /\ LastSource \in Nat /\ MaxImages \in Nat
  /\ \A e \in Editions :
       /\ e.practical \in Seq({u \in Range(e.practical) : u.kind = "practical"})
       /\ e.grammar \in Seq({u \in Range(e.grammar) : u.kind = "grammar"})

VARIABLES
  expansion,  \* expansion.json, with the counts expected when it was made
  images,     \* what each release embeds
  rows,       \* the table lessons: id -> [ordinal, text]
  live,       \* the release of the app's container, 0 before the first
  previous,   \* the release of the container kept for a way back, 0 if none
  running,    \* that container runs
  trying,     \* release being deployed, 0 if none
  place,      \* how far: "idle", "candidate", "switch" or "restore"
  started,    \* ghost: releases whose start the database has accepted
  meddled     \* ghost: another release has started since the live process
vars == <<content, expansion, images, rows, live, previous, running, trying, place, started, meddled>>

None == [whole |-> FALSE, torn |-> FALSE]
Torn == [whole |-> FALSE, torn |-> TRUE]

-----------------------------------------------------------------------------
(* build: units and rows in the order of the tables, practical ones first; *)
(* the id is made of kind, level, unit and place, the ordinal by counting. *)
Units(e) == e.practical \o e.grammar
Fields(u) == IF u.kind = "practical" THEN 5 ELSE 7

parse_vocab(row) == row.words \in 2 .. 4
grammar_rows(u) == Len(u.rows) = PerUnit /\ \A k \in DOMAIN u.rows : u.rows[k].fields = Fields(u)
Parsed(e) ==
  \A j \in DOMAIN Units(e) :
    LET u == Units(e)[j]
    IN grammar_rows(u) /\ u.level \in Levels /\ \A k \in DOMAIN u.rows : parse_vocab(u.rows[k])

(* What a row gives is worded into four drills and three criteria.         *)
shared_fields(row) ==
  [text |-> row.text, empty |-> row.empty, words |-> row.words, drills |-> 4, acceptance |-> 3]

build(e) ==
  [i \in 1 .. PerUnit * Len(Units(e)) |->
    LET u  == Units(e)[(i - 1) \div PerUnit + 1]
        no == ((i - 1) % PerUnit) + 1
        shared == shared_fields(u.rows[no])
    IN [id |-> <<u.kind, u.level, u.unit, no>>, ordinal |-> Len(Core) + i, level |-> u.level,
        focus |-> u.rows[no].focus, sources |-> u.rows[no].sources, text |-> shared.text,
        empty |-> shared.empty, words |-> shared.words, drills |-> shared.drills,
        acceptance |-> shared.acceptance]]

Kind(l) == l.id[1]
Count(ls, level, kind) == Cardinality({i \in DOMAIN ls : ls[i].level = level /\ Kind(ls[i]) = kind})
Distinct(ls) == \A i, j \in DOMAIN ls : ls[i].id = ls[j].id => i = j

validate(ls, want) ==
  /\ Distinct(ls)
  /\ \A i \in DOMAIN ls :
       /\ ls[i].ordinal = Len(Core) + i /\ ~ls[i].empty /\ ls[i].words \in 2 .. 4
       /\ ls[i].drills = 4 /\ ls[i].acceptance >= 3
       /\ IF Kind(ls[i]) = "practical" THEN ls[i].level \in PracticalLevels
          ELSE /\ ls[i].focus
               /\ ls[i].sources # {} \/ ls[i].id \in ORIGINAL_FOUNDATION_IDS
               /\ ls[i].sources \subseteq 1 .. LastSource
  /\ \A level \in Levels, kind \in {"practical", "grammar"} :
       Count(ls, level, kind) = want[level, kind]

(* content_test.go, on the lessons of both files. *)
TestCompleteCurriculum(ls, want) ==
  /\ Distinct(ls)
  /\ \A i \in DOMAIN ls : ~ls[i].empty /\ ls[i].words > 0 /\ ls[i].drills = 4
  /\ \A level \in Levels :
       Cardinality({i \in DOMAIN ls : ls[i].level = level})
         = Cardinality({i \in DOMAIN Core : Core[i].level = level})
           + want[level, "practical"] + want[level, "grammar"]

-----------------------------------------------------------------------------
(* seed: one transaction under an advisory lock, one upsert a lesson; the  *)
(* first that meets its ordinal under another id undoes them all.          *)
Put(table, l) ==
  [id \in DOMAIN table \cup {l.id} |->
    IF id = l.id THEN [ordinal |-> l.ordinal, text |-> l.text] ELSE table[id]]
Taken(table, l) == \E id \in DOMAIN table \ {l.id} : table[id].ordinal = l.ordinal

Upsert_Keeps(s, l) ==
  IF ~s.ok \/ Taken(s.table, l) THEN [s EXCEPT !.ok = FALSE]
  ELSE IF l.id \in DOMAIN s.table THEN s
  ELSE [s EXCEPT !.table = Put(s.table, l)]

Upsert(s, l) ==
  IF ~s.ok \/ Taken(s.table, l) THEN [s EXCEPT !.ok = FALSE]
  ELSE [s EXCEPT !.table = Put(s.table, l)]

Lessons(n) == Core \o images[n].lessons

Seeded_Deferred(n) ==
  LET table == FoldLeft(Put, rows, Lessons(n))
  IN [ok    |-> \A a, b \in DOMAIN table : table[a].ordinal = table[b].ordinal => a = b,
      table |-> table]

Seeding(ls) ==
  LET after[k \in 0 .. Len(ls)] ==
        IF k = 0 THEN [ok |-> TRUE, table |-> rows] ELSE Upsert(after[k - 1], ls[k])
  IN after
Seeded(n) == Seeding(Lessons(n))[Len(Lessons(n))]

(* A file cut short does not parse: Lessons panics before the transaction. *)
Starts(n) == images[n].whole /\ Seeded(n).ok
Start(n) ==
  IF Starts(n) THEN rows' = Seeded(n).table /\ started' = started \cup {n}
  ELSE UNCHANGED <<rows, started>>

-----------------------------------------------------------------------------
Init ==
  /\ ContentInit /\ expansion = None /\ images = <<>> /\ rows = <<>>
  /\ live = 0 /\ previous = 0 /\ running = FALSE /\ trying = 0 /\ place = "idle"
  /\ started = {} /\ meddled = FALSE

files == <<content, expansion, images>>
host == <<live, previous, running, trying, place>>

(* The script run with an edition, or killed while it writes.  (After the  *)
(* last release of the bound nothing reads the file.)                      *)
Files == {[whole |-> TRUE, lessons |-> build(e), want |-> e.want] :
            e \in {x \in Editions : Parsed(x) /\ validate(build(x), x.want)}}
Expand ==
  /\ Len(images) < MaxImages
  /\ \E f \in Files \cup {Torn} : expansion' = f
  /\ UNCHANGED <<content, images, rows, host, started, meddled>>

(* deploy_local.sh: tests, unless TEST_RUN leaves these out, and the build. *)
(* (Bound: of the core as the three scripts make it.)                       *)
BuildImage ==
  /\ expansion # None /\ Len(images) < MaxImages /\ sequence = 3
  /\ images' = Append(images, expansion)
  /\ UNCHANGED <<content, expansion, rows, host, started, meddled>>

(* (Bound: before the first release.) *)
RunContentScript ==
  /\ images = <<>> /\ expansion = None /\ ContentScript
  /\ UNCHANGED <<expansion, images, rows, host, started, meddled>>

StartCandidate(n) ==
  /\ place = "idle" /\ n # live
  /\ place' = "candidate" /\ trying' = n
  /\ Start(n) /\ meddled' = (meddled \/ (live # 0 /\ Starts(n)))
  /\ UNCHANGED <<files, live, previous, running>>

(* Not ready, or learners stay busy: the old deployment is kept running.   *)
CandidateDismissed ==
  /\ place = "candidate" /\ place' = "idle" /\ trying' = 0
  /\ UNCHANGED <<files, rows, live, previous, running, started, meddled>>

StopOld ==
  /\ place = "candidate" /\ trying \in started
  /\ place' = "switch" /\ running' = FALSE
  /\ UNCHANGED <<files, rows, live, previous, trying, started, meddled>>

SwitchTo ==
  /\ place = "switch" /\ Starts(trying) /\ Start(trying)
  /\ \/ /\ place' = "idle" /\ live' = trying /\ previous' = live
        /\ trying' = 0 /\ running' = TRUE /\ meddled' = FALSE
     \/ place' = "restore" /\ UNCHANGED <<live, previous, trying, running, meddled>>
  /\ UNCHANGED files

SwitchFails ==
  /\ place = "switch" /\ place' = "restore"
  /\ UNCHANGED <<files, rows, live, previous, running, trying, started, meddled>>

(* A container's process starts: the old one's after a failed switch, the  *)
(* live one's again, or by hand that of an earlier release.                *)
Boot(n) == live' = n /\ running' = Starts(n) /\ Start(n) /\ meddled' = (meddled /\ ~Starts(n))

RestoreOld ==
  /\ place = "restore" /\ place' = "idle" /\ trying' = 0
  /\ IF live = 0 THEN UNCHANGED <<rows, live, running, started, meddled>> ELSE Boot(live)
  /\ UNCHANGED <<files, previous>>

Restart ==
  /\ place \in {"idle", "candidate"} /\ running /\ Boot(live)
  /\ UNCHANGED <<files, previous, trying, place>>

RollBack ==
  /\ place = "idle" /\ previous # 0 /\ Boot(previous) /\ previous' = 0
  /\ UNCHANGED <<files, trying, place>>

Next ==
  \/ RunContentScript \/ Expand \/ BuildImage \/ CandidateDismissed \/ StopOld \/ SwitchTo \/ SwitchFails
  \/ RestoreOld \/ Restart \/ RollBack
  \/ \E n \in DOMAIN images : StartCandidate(n)

Spec == Init /\ [][Next]_vars

-----------------------------------------------------------------------------
(* A release starts exactly if it gives no ordinal to another lesson than  *)
(* any release before it, the candidates that never went live included,    *)
(* has: a withdrawn lesson keeps its row and its ordinal for good.  So     *)
(* whatever was tried since, a release that once started starts again:     *)
(* the restart of the live process and the way back are never barred.      *)
Agrees(n) == \A i \in DOMAIN Lessons(n) : ~Taken(rows, Lessons(n)[i])
StartsIffOrdinalsAgree ==
  \A n \in DOMAIN images :
    images[n].whole => /\ Starts(n) <=> Agrees(n)
                       /\ n \in started => Agrees(n)

(* Learners are served the lessons of the release that runs, unless the    *)
(* candidate of another has started since: the database is shared, and a   *)
(* candidate that is dismissed leaves its texts to the old release.        *)
LearnersReadTheirRelease ==
  running /\ ~meddled =>
    \A i \in DOMAIN Lessons(live) :
      LET l == Lessons(live)[i]
      IN l.id \in DOMAIN rows /\ rows[l.id] = [ordinal |-> l.ordinal, text |-> l.text]

(* What the assertions of expand_curriculum.py let into its file passes    *)
(* the tests of the two files together, whatever the core's scripts left;  *)
(* and these leave it sound (CoreContent).                                 *)
ScriptsPassTests ==
  /\ expansion.whole /\ lessons.whole
       => TestCompleteCurriculum(lessons.rows \o expansion.lessons, expansion.want)
  /\ ContentSound

(* docs/curriculum-expansion.md:18, "Supplement ordinals are temporarily   *)
(* 101-525 ... ordinals do not replace the stable lesson IDs": a release   *)
(* that the tests accept starts, however its lessons are numbered.         *)
TestedStarts ==
  \A n \in DOMAIN images :
    images[n].whole /\ TestCompleteCurriculum(Lessons(n), images[n].want) => Starts(n)
=============================================================================
