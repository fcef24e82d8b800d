--------------------------- MODULE CourseSyllabus ---------------------------
(***************************************************************************)
(* syllabus_run.py: the target words of the Learn Ebook course, chunk by   *)
(* chunk along the learning path.  A chunk is generated once into a draft; *)
(* then only the terms that collide with an earlier unit are replaced, for *)
(* at most Rounds rounds, and the draft becomes the chunk's file.  A chunk *)
(* that has its file is loaded and not looked at again.                    *)
(*                                                                         *)
(* A chunk is a sequence of terms; UnitOf says which unit each belongs to. *)
(* A term stands for what norm leaves of it, Empty for nothing.            *)
(***************************************************************************)
EXTENDS Naturals, Sequences, FiniteSets, SequencesExt

CONSTANTS Chunks,      \* chunks 1 .. Chunks
          UnitOf,      \* chunk -> sequence: the unit of each term
          Terms,       \* the terms a model may answer with
          Empty,
          NoFile, CutFile,     \* no file, and one cut short
          Attempts, Rounds,    \* 5 and 25
          MaxKills, MaxDeletes \* bounds

ASSUME SyllabusAssumption ==
  /\ Chunks \in Nat \ {0} /\ Attempts \in Nat \ {0} /\ Rounds \in Nat \ {0}
  /\ UnitOf \in [1 .. Chunks -> Seq(Nat)] /\ Empty \in Terms
  /\ NoFile # CutFile
  /\ \A c \in 1 .. Chunks : {NoFile, CutFile} \cap [DOMAIN UnitOf[c] -> Terms] = {}

Drafts(c) == [DOMAIN UnitOf[c] -> Terms]

VARIABLES file, draft,   \* syllabus/chunk_NN.json and draft_NN.json
          at,            \* chunk the script is at, 0 if it does not run
          phase,         \* "load", "generate" or "replace"
          batch, used,   \* its variables
          tries,         \* calls of this chunk and phase so far
          redone,        \* ghost: a chunk was made anew under a later one
          kills, deletes
syllabus == <<file, draft, at, phase, batch, used, tries, redone, kills, deletes>>
disk == <<file, draft>>
people == <<kills, deletes>>

Each(s) == {s[k] : k \in DOMAIN s}

(* collisions: nothing left of it, taught before, or earlier in the batch. *)
collisions_InBatchOnly(b, taught) ==
  {k \in DOMAIN b : b[k] = Empty \/ \E j \in 1 .. k - 1 : b[j] = b[k]}

collisions(b, taught) ==
  {k \in DOMAIN b : b[k] = Empty \/ b[k] \in taught \/ \E j \in 1 .. k - 1 : b[j] = b[k]}

(* What may come of a round's answer: some of the colliding terms, of two  *)
(* alike in a unit the last, are replaced by terms that are new to all     *)
(* that was taught, drafted or replaced before; the rest is ignored.       *)
Replaceable(c, b, bad) ==
  {k \in bad : \A j \in bad : UnitOf[c][j] = UnitOf[c][k] /\ b[j] = b[k] => j <= k}
Replacements(c, b, taught) ==
  {n \in Drafts(c) : \A k \in DOMAIN b :
     \/ n[k] = b[k]
     \/ /\ k \in Replaceable(c, b, collisions(b, taught))
        /\ n[k] \notin taught \cup Each(b) \cup {Empty}
        /\ \A j \in DOMAIN b \ {k} : n[j] # n[k]}

SyllabusInit ==
  /\ file = [c \in 1 .. Chunks |-> NoFile] /\ draft = [c \in 1 .. Chunks |-> NoFile]
  /\ at = 0 /\ phase = "load" /\ batch = NoFile /\ used = {} /\ tries = 0
  /\ redone = FALSE /\ kills = 0 /\ deletes = 0

StartScript ==
  /\ at = 0
  /\ at' = 1 /\ phase' = "load" /\ batch' = NoFile /\ used' = {} /\ tries' = 0
  /\ UNCHANGED <<disk, redone, people>>

(* sys.exit, or an exception: the files stay. *)
Exit == at' = 0 /\ phase' = "load" /\ batch' = NoFile /\ used' = {} /\ tries' = 0

(* The terms of a chunk are taught; on to the next, or the script is done. *)
Taught(b) ==
  IF at = Chunks THEN Exit
  ELSE at' = at + 1 /\ phase' = "load" /\ batch' = NoFile /\ used' = used \cup Each(b) /\ tries' = 0

LoadChunk ==
  /\ at # 0 /\ phase = "load" /\ file[at] # NoFile
  /\ IF file[at] = CutFile THEN Exit ELSE Taught(file[at])
  /\ UNCHANGED <<disk, redone, people>>

LoadDraft ==
  /\ at # 0 /\ phase = "load" /\ file[at] = NoFile
  /\ CASE draft[at] = CutFile -> Exit
       [] draft[at] = NoFile -> phase' = "generate" /\ UNCHANGED <<at, batch, used, tries>>
       [] OTHER            -> phase' = "replace" /\ batch' = draft[at] /\ UNCHANGED <<at, used, tries>>
  /\ UNCHANGED <<disk, redone, people>>

Generate(b) ==
  /\ at # 0 /\ phase = "generate"
  /\ phase' = "replace" /\ batch' = b /\ tries' = 0
  /\ draft' = [draft EXCEPT ![at] = b]
  /\ UNCHANGED <<file, at, used, redone, people>>

(* The call fails, or leaves out a unit or a term. *)
GenerateFails ==
  /\ at # 0 /\ phase = "generate"
  /\ IF tries + 1 < Attempts THEN tries' = tries + 1 /\ UNCHANGED <<at, phase, batch, used>> ELSE Exit
  /\ UNCHANGED <<disk, redone, people>>

Bad == collisions(batch, used)
Round_StartsOver(b) ==
  /\ at # 0 /\ phase = "replace" /\ Bad # {}
  /\ tries' = (tries + 1) % Rounds /\ batch' = b /\ UNCHANGED <<at, phase, used>>

Round(b) ==
  /\ at # 0 /\ phase = "replace" /\ Bad # {}
  /\ IF tries + 1 < Rounds THEN tries' = tries + 1 /\ batch' = b /\ UNCHANGED <<at, phase, used>> ELSE Exit

Replace(b) == Round(b) /\ draft' = [draft EXCEPT ![at] = b] /\ UNCHANGED <<file, redone, people>>

ReplaceFails == Round(batch) /\ UNCHANGED <<disk, redone, people>>

(* The file is written and then the draft removed. *)
Remade == redone' = (redone \/ \E c \in at + 1 .. Chunks : file[c] # NoFile)
WriteChunk ==
  /\ at # 0 /\ phase = "replace" /\ Bad = {}
  /\ file' = [file EXCEPT ![at] = batch] /\ draft' = [draft EXCEPT ![at] = NoFile]
  /\ Remade /\ Taught(batch)
  /\ UNCHANGED people

(* A kill: between two files, or half-way through the one it writes. *)
Kill ==
  /\ at # 0 /\ kills < MaxKills /\ kills' = kills + 1
  /\ Exit /\ UNCHANGED deletes
  /\ \/ UNCHANGED <<disk, redone>>
     \/ /\ phase = "generate" \/ (phase = "replace" /\ Bad # {})
        /\ draft' = [draft EXCEPT ![at] = CutFile] /\ UNCHANGED <<file, redone>>
     \/ /\ phase = "replace" /\ Bad = {} /\ Remade
        /\ \E f \in {batch, CutFile} : file' = [file EXCEPT ![at] = f]
        /\ UNCHANGED draft

(* A person removes a chunk to have it made again, or a torn file. *)
Delete(c) ==
  /\ at = 0 /\ deletes < MaxDeletes /\ deletes' = deletes + 1
  /\ \/ file[c] # NoFile /\ file' = [file EXCEPT ![c] = NoFile] /\ UNCHANGED draft
     \/ draft[c] # NoFile /\ draft' = [draft EXCEPT ![c] = NoFile] /\ UNCHANGED file
  /\ UNCHANGED <<at, phase, batch, used, tries, redone, kills>>

Step ==
  \/ LoadChunk \/ LoadDraft \/ GenerateFails \/ ReplaceFails \/ WriteChunk
  \/ at # 0 /\ phase = "generate" /\ \E b \in Drafts(at) : Generate(b)
  \/ at # 0 /\ phase = "replace" /\ \E b \in Replacements(at, batch, used) : Replace(b)

SyllabusNext == StartScript \/ Step \/ Kill \/ \E c \in 1 .. Chunks : Delete(c)

(* A call has a timeout, so a running script goes on. *)
SyllabusSpec == SyllabusInit /\ [][SyllabusNext]_syllabus /\ WF_syllabus(Step)

-----------------------------------------------------------------------------
Finished(c) == file[c] \notin {NoFile, CutFile}
Slots(c) == DOMAIN UnitOf[c]

(* syllabus_run.py:1, "10 globally new vocabulary terms per unit": no two  *)
(* terms of finished chunks are alike and none is empty, over kills, exits *)
(* and reruns.  Not when a chunk is made anew under a later one: only the  *)
(* terms of the chunks before it are in used.                              *)
GloballyNew ==
  ~redone => \A c, d \in 1 .. Chunks : Finished(c) /\ Finished(d) =>
    \A j \in Slots(c), k \in Slots(d) :
      file[c][j] # Empty /\ (file[c][j] = file[d][k] => c = d /\ j = k)

(* A rerun ends, whatever the model answers: with every chunk, or giving   *)
(* up after the named attempts and rounds.                                 *)
ScriptEnds == at # 0 ~> at = 0
=============================================================================
