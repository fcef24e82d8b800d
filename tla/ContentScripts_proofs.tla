------------------------ MODULE ContentScripts_proofs -------------------------
(***************************************************************************)
(* What the scripts that write lessons guarantee, for every content.       *)
(*                                                                         *)
(* First CourseSyllabus, the words of the Learn Ebook course: no word is   *)
(* taught twice.  Then Curriculum, with the core content it embeds: what   *)
(* the database makes of the releases that start, whose lessons learners   *)
(* read, and what the scripts of the core and of the expansion may leave.  *)
(* What the loops compute, over the lessons of a release and the rows of   *)
(* the tables, goes by induction up to their lengths (UpTo).               *)
(***************************************************************************)
EXTENDS Curriculum, CourseSyllabus, FiniteSetTheorems, SequenceTheorems, TLAPS

-----------------------------------------------------------------------------
ChunkFiles(c) == Drafts(c) \cup {NoFile, CutFile}

SyllabusTypeOK ==
  /\ file \in [1 .. Chunks -> UNION {ChunkFiles(c) : c \in 1 .. Chunks}]
  /\ draft \in [1 .. Chunks -> UNION {ChunkFiles(c) : c \in 1 .. Chunks}]
  /\ \A c \in 1 .. Chunks : file[c] \in ChunkFiles(c) /\ draft[c] \in ChunkFiles(c)
  /\ at \in 0 .. Chunks /\ phase \in {"load", "generate", "replace"}
  /\ phase # "load" => at # 0
  /\ phase = "replace" => batch \in Drafts(at)

(* What the script has in used are the words of the finished chunks before  *)
(* the one it is at.                                                        *)
UsedIsTaught ==
  at # 0 => \A c \in 1 .. at - 1 : Finished(c) /\ \A k \in Slots(c) : file[c][k] \in used

SyllabusIInv == SyllabusTypeOK /\ UsedIsTaught /\ GloballyNew

(* A batch without collisions may become the file of its chunk.             *)
LEMMA CleanBatch ==
  ASSUME NEW c \in 1 .. Chunks, NEW b \in Drafts(c), NEW taught, collisions(b, taught) = {}
  PROVE  /\ \A k \in Slots(c) : b[k] # Empty /\ b[k] \notin taught
         /\ \A j, k \in Slots(c) : b[j] = b[k] => j = k
<1>1. DOMAIN b = Slots(c) /\ Slots(c) \subseteq Nat \ {0}
  BY SyllabusAssumption DEF Drafts, Slots
<1>2. \A k \in Slots(c) : b[k] # Empty /\ b[k] \notin taught /\ ~\E j \in 1 .. k - 1 : b[j] = b[k]
  BY <1>1 DEF collisions
<1>3. ASSUME NEW j \in Slots(c), NEW k \in Slots(c), b[j] = b[k] PROVE j = k
  <2>1. ~(j < k) /\ ~(k < j)
    BY <1>1, <1>2, <1>3
  <2> QED BY <2>1, <1>1
<1> QED BY <1>2, <1>3

(* Writing the file of a chunk: whole files of later chunks would mean that *)
(* it was made anew, and the words of earlier ones are in used.             *)
LEMMA FileWritten ==
  ASSUME SyllabusIInv, at # 0, phase = "replace", Bad = {}, Remade,
         NEW f \in {batch, CutFile}, file' = [file EXCEPT ![at] = f]
  PROVE  GloballyNew'
<1>1. /\ at \in 1 .. Chunks /\ batch \in Drafts(at)
      /\ \A c \in 1 .. Chunks : file'[c] = IF c = at THEN f ELSE file[c]
  BY SyllabusAssumption DEF SyllabusIInv, SyllabusTypeOK
<1>2. /\ \A k \in Slots(at) : batch[k] # Empty /\ batch[k] \notin used
      /\ \A j, k \in Slots(at) : batch[j] = batch[k] => j = k
  BY <1>1, CleanBatch DEF Bad
<1> SUFFICES ASSUME ~redone',
                    NEW c \in 1 .. Chunks, NEW d \in 1 .. Chunks, Finished(c)', Finished(d)',
                    NEW j \in Slots(c), NEW k \in Slots(d)
             PROVE  file'[c][j] # Empty /\ (file'[c][j] = file'[d][k] => c = d /\ j = k)
  BY DEF GloballyNew, Slots
<1>3. ~redone /\ \A e \in at + 1 .. Chunks : file[e] = NoFile
  BY DEF Remade
<1>4. c <= at /\ d <= at
  BY <1>1, <1>3, SyllabusAssumption DEF Finished
<1>5. CASE c = at /\ d = at
  <2>1. f = batch
    BY <1>1, <1>5 DEF Finished
  <2> QED BY <2>1, <1>1, <1>2, <1>5
<1>6. CASE c < at /\ d < at
  BY <1>1, <1>3, <1>6 DEF SyllabusIInv, GloballyNew, Finished
<1>7. CASE c = at /\ d < at
  <2>1. f = batch /\ file[d][k] \in used
    BY <1>1, <1>7, SyllabusAssumption DEF Finished, SyllabusIInv, UsedIsTaught
  <2> QED BY <2>1, <1>1, <1>2, <1>7
<1>8. CASE c < at /\ d = at
  <2>1. f = batch /\ Finished(c) /\ c \in 1 .. at - 1
    BY <1>1, <1>8, SyllabusAssumption DEF Finished
  <2>2. file[c][j] \in used
    BY <2>1 DEF SyllabusIInv, UsedIsTaught
  <2>3. file[c][j] # Empty
    BY <2>1, <1>3 DEF SyllabusIInv, GloballyNew
  <2> QED BY <2>1, <2>2, <2>3, <1>1, <1>2, <1>8
<1> QED BY <1>1, <1>4, <1>5, <1>6, <1>7, <1>8

(* The script goes on from a chunk that is whole.                           *)
LEMMA TaughtKeeps ==
  ASSUME SyllabusIInv, at # 0, NEW b \in Drafts(at), Taught(b),
         file' \in [1 .. Chunks -> UNION {ChunkFiles(c) : c \in 1 .. Chunks}], file'[at] = b,
         \A c \in 1 .. Chunks : c # at => file'[c] = file[c]
  PROVE  UsedIsTaught' /\ at' \in 0 .. Chunks /\ phase' = "load"
<1>1. CASE at = Chunks
  BY <1>1, SyllabusAssumption DEF Taught, Exit, UsedIsTaught
<1>2. CASE at # Chunks
  <2>1. at' = at + 1 /\ phase' = "load" /\ used' = used \cup Each(b) /\ at \in 1 .. Chunks
    BY <1>2, SyllabusAssumption DEF Taught, SyllabusIInv, SyllabusTypeOK
  <2>2. ASSUME NEW c \in 1 .. at PROVE Finished(c)' /\ \A k \in Slots(c) : file'[c][k] \in used'
    <3>1. CASE c = at
      <4>1. b \notin {NoFile, CutFile} /\ DOMAIN b = Slots(at)
        BY <2>1, SyllabusAssumption DEF Drafts, Slots
      <4> QED BY <4>1, <3>1, <2>1 DEF Finished, Each
    <3>2. CASE c # at
      <4>1. c \in 1 .. at - 1 /\ c \in 1 .. Chunks
        BY <3>2, <2>1, SyllabusAssumption
      <4>1a. file'[c] = file[c]
        BY <4>1, <3>2
      <4>2. Finished(c) /\ \A k \in Slots(c) : file[c][k] \in used
        BY <4>1 DEF SyllabusIInv, UsedIsTaught
      <4> QED BY <4>1a, <4>2, <2>1 DEF Finished
    <3> QED BY <3>1, <3>2
  <2>3. at' - 1 = at
    BY <2>1
  <2> QED BY <2>1, <2>2, <2>3, <1>2, SyllabusAssumption DEF UsedIsTaught, Slots
<1> QED BY <1>1, <1>2

(* The files stay as they are, and the script where it is or ends.          *)
LEMMA NothingWritten ==
  ASSUME SyllabusIInv, UNCHANGED <<file, redone>>
  PROVE  GloballyNew' /\ ((at' = at /\ used' = used) \/ at' = 0 => UsedIsTaught')
<1>1. GloballyNew'
  BY DEF SyllabusIInv, GloballyNew, Finished, Slots
<1>2. (at' = at /\ used' = used) \/ at' = 0 => UsedIsTaught'
  BY DEF SyllabusIInv, UsedIsTaught, Finished, Slots
<1> QED BY <1>1, <1>2

(* Every step keeps the types.                                              *)
LEMMA SyllabusStepType == SyllabusTypeOK /\ [SyllabusNext]_syllabus => SyllabusTypeOK'
<1> SUFFICES ASSUME SyllabusTypeOK, [SyllabusNext]_syllabus PROVE SyllabusTypeOK'
  OBVIOUS
<1> DEFINE AnyFile == UNION {ChunkFiles(c) : c \in 1 .. Chunks}
<1> USE SyllabusAssumption
<1>0. 0 \in 0 .. Chunks /\ 1 \in 0 .. Chunks /\ (at # 0 => at \in 1 .. Chunks)
  BY DEF SyllabusTypeOK
<1>u. \A f, c, b : f \in [1 .. Chunks -> AnyFile] /\ (\A e \in 1 .. Chunks : f[e] \in ChunkFiles(e))
                   /\ c \in 1 .. Chunks /\ b \in ChunkFiles(c)
        => /\ [f EXCEPT ![c] = b] \in [1 .. Chunks -> AnyFile]
           /\ \A e \in 1 .. Chunks : [f EXCEPT ![c] = b][e] \in ChunkFiles(e)
  OBVIOUS
<1>t. ASSUME NEW b, at # 0, Taught(b)
      PROVE  at' \in 0 .. Chunks /\ phase' = "load"
  <2>1. CASE at = Chunks
    BY <1>t, <2>1, <1>0 DEF Taught, Exit
  <2>2. CASE at # Chunks
    <3>1. at' = at + 1 /\ phase' = "load"
      BY <1>t, <2>2 DEF Taught
    <3> QED BY <3>1, <1>t, <2>2, <1>0
  <2> QED BY <2>1, <2>2
<1>1. CASE StartScript
  BY <1>1, <1>0 DEF StartScript, SyllabusTypeOK, disk
<1>2. CASE LoadChunk
  BY <1>2, <1>0, <1>t DEF LoadChunk, Exit, SyllabusTypeOK, disk
<1>3. CASE LoadDraft
  <2>1. CASE draft[at] = CutFile
    BY <1>3, <2>1, <1>0 DEF LoadDraft, Exit, SyllabusTypeOK, disk
  <2>2. CASE draft[at] = NoFile
    BY <1>3, <2>2, <1>0 DEF LoadDraft, Exit, SyllabusTypeOK, disk
  <2>3. CASE draft[at] \notin {CutFile, NoFile}
    BY <1>3, <2>3, <1>0 DEF LoadDraft, SyllabusTypeOK, ChunkFiles, disk
  <2> QED BY <2>1, <2>2, <2>3
<1>4. CASE GenerateFails
  BY <1>4, <1>0 DEF GenerateFails, Exit, SyllabusTypeOK, disk
<1>5. CASE ReplaceFails
  BY <1>5, <1>0 DEF ReplaceFails, Round, Exit, SyllabusTypeOK, disk
<1>6. CASE WriteChunk
  <2>1. batch \in ChunkFiles(at) /\ NoFile \in ChunkFiles(at) /\ at \in 1 .. Chunks
    BY <1>6, <1>0 DEF WriteChunk, SyllabusTypeOK, ChunkFiles
  <2> QED BY <1>6, <2>1, <1>u, <1>t DEF WriteChunk, SyllabusTypeOK
<1>7. ASSUME NEW b \in Drafts(at), at # 0, Generate(b) PROVE SyllabusTypeOK'
  <2>1. b \in ChunkFiles(at) /\ at \in 1 .. Chunks
    BY <1>7, <1>0 DEF ChunkFiles
  <2> QED BY <1>7, <2>1, <1>u DEF Generate, SyllabusTypeOK, Drafts
<1>8. ASSUME NEW b \in Replacements(at, batch, used), at # 0, Replace(b) PROVE SyllabusTypeOK'
  <2>1. b \in Drafts(at) /\ b \in ChunkFiles(at) /\ at \in 1 .. Chunks
    BY <1>8, <1>0 DEF ChunkFiles, Replacements
  <2>2. at' \in 0 .. Chunks /\ phase' \in {"load", "replace"} /\ (phase' = "replace" => at' = at /\ batch' = b)
    BY <1>8, <1>0 DEF Replace, Round, Exit, SyllabusTypeOK
  <2> QED BY <1>8, <2>1, <2>2, <1>u DEF Replace, SyllabusTypeOK, Drafts
<1>9. CASE Kill
  <2>1. at' = 0 /\ phase' = "load" /\ at \in 1 .. Chunks
    BY <1>9, <1>0 DEF Kill, Exit
  <2>2. CASE UNCHANGED <<disk, redone>>
    BY <2>1, <2>2, <1>0 DEF SyllabusTypeOK, disk
  <2>3. CASE draft' = [draft EXCEPT ![at] = CutFile] /\ UNCHANGED <<file, redone>>
    BY <2>1, <2>3, <1>0, <1>u DEF SyllabusTypeOK, ChunkFiles
  <2>4. CASE /\ phase = "replace" /\ UNCHANGED draft
             /\ \E f \in {batch, CutFile} : file' = [file EXCEPT ![at] = f]
    <3>1. PICK f \in {batch, CutFile} : file' = [file EXCEPT ![at] = f]
      BY <2>4
    <3>2. f \in ChunkFiles(at)
      BY <3>1, <2>4 DEF SyllabusTypeOK, ChunkFiles
    <3> QED BY <2>1, <2>4, <3>1, <3>2, <1>0, <1>u DEF SyllabusTypeOK
  <2> QED BY <1>9, <2>2, <2>3, <2>4 DEF Kill
<1>10. ASSUME NEW c \in 1 .. Chunks, Delete(c) PROVE SyllabusTypeOK'
  <2>1. NoFile \in ChunkFiles(c)
    BY DEF ChunkFiles
  <2>2. CASE file' = [file EXCEPT ![c] = NoFile] /\ UNCHANGED draft
    BY <1>10, <2>1, <2>2, <1>u DEF Delete, SyllabusTypeOK, Drafts
  <2>3. CASE draft' = [draft EXCEPT ![c] = NoFile] /\ UNCHANGED file
    BY <1>10, <2>1, <2>3, <1>u DEF Delete, SyllabusTypeOK, Drafts
  <2> QED BY <1>10, <2>2, <2>3 DEF Delete
<1>11. CASE UNCHANGED syllabus
  BY <1>11 DEF syllabus, SyllabusTypeOK, Drafts
<1> QED BY <1>1, <1>2, <1>3, <1>4, <1>5, <1>6, <1>7, <1>8, <1>9, <1>10, <1>11 DEF SyllabusNext, Step

(* Before the first run there is no file, and nothing is taught.            *)
LEMMA SyllabusInitIInv == SyllabusInit => SyllabusIInv
<1> SUFFICES ASSUME SyllabusInit PROVE SyllabusIInv
  OBVIOUS
<1>1. SyllabusTypeOK
  <2>1. \A c \in 1 .. Chunks : NoFile \in ChunkFiles(c)
    BY DEF ChunkFiles
  <2>2. 0 \in 0 .. Chunks /\ Chunks \in Nat
    BY SyllabusAssumption
  <2> QED BY <2>1, <2>2 DEF SyllabusInit, SyllabusTypeOK
<1>2. UsedIsTaught /\ GloballyNew
  BY DEF SyllabusInit, UsedIsTaught, GloballyNew, Finished
<1> QED BY <1>1, <1>2 DEF SyllabusIInv

(* Every step keeps what is in used true to the files, and no word twice in *)
(* them: only WriteChunk, and a kill while it writes, make a file.          *)
LEMMA SyllabusNextIInv == SyllabusIInv /\ [SyllabusNext]_syllabus => SyllabusIInv'
<1> SUFFICES ASSUME SyllabusIInv, [SyllabusNext]_syllabus PROVE SyllabusIInv'
  OBVIOUS
<1> USE SyllabusAssumption
<1>0. SyllabusTypeOK' /\ SyllabusTypeOK /\ (at # 0 => at \in 1 .. Chunks)
  <2>1. SyllabusTypeOK
    BY DEF SyllabusIInv
  <2>2. SyllabusTypeOK'
    BY <2>1, SyllabusStepType
  <2>3. at # 0 => at \in 1 .. Chunks
    BY <2>1 DEF SyllabusTypeOK
  <2> QED BY <2>1, <2>2, <2>3
<1>1. CASE StartScript
  <2>1. at' = 1 /\ UNCHANGED <<file, redone>>
    BY <1>1 DEF StartScript, disk
  <2>2. UsedIsTaught'
    BY <2>1 DEF UsedIsTaught
  <2> QED BY <2>1, <2>2, <1>0, NothingWritten DEF SyllabusIInv
<1>2. CASE LoadChunk
  <2>1. UNCHANGED <<file, redone>> /\ at # 0
    BY <1>2 DEF LoadChunk, disk
  <2>2. CASE file[at] = CutFile
    BY <1>2, <2>1, <2>2, <1>0, NothingWritten DEF LoadChunk, Exit, SyllabusIInv
  <2>3. CASE file[at] # CutFile
    <3>1. file[at] \in Drafts(at) /\ Taught(file[at])
      BY <1>2, <2>1, <2>3, <1>0 DEF LoadChunk, SyllabusTypeOK, ChunkFiles
    <3>2. UsedIsTaught'
      BY <3>1, <2>1, <1>0, TaughtKeeps DEF SyllabusTypeOK
    <3> QED BY <3>2, <2>1, <1>0, NothingWritten DEF SyllabusIInv
  <2> QED BY <2>2, <2>3
<1>3. CASE LoadDraft
  <2>1. UNCHANGED <<file, redone>>
    BY <1>3 DEF LoadDraft, disk
  <2>2. (at' = at /\ used' = used) \/ at' = 0
    <3>1. CASE draft[at] = CutFile
      BY <1>3, <3>1 DEF LoadDraft, Exit
    <3>2. CASE draft[at] = NoFile
      BY <1>3, <3>2, SyllabusAssumption DEF LoadDraft
    <3>3. CASE draft[at] \notin {CutFile, NoFile}
      BY <1>3, <3>3 DEF LoadDraft
    <3> QED BY <3>1, <3>2, <3>3
  <2> QED BY <2>1, <2>2, <1>0, NothingWritten DEF SyllabusIInv
<1>4. CASE GenerateFails
  BY <1>4, <1>0, NothingWritten DEF GenerateFails, Exit, disk, SyllabusIInv
<1>5. CASE ReplaceFails
  BY <1>5, <1>0, NothingWritten DEF ReplaceFails, Round, Exit, disk, SyllabusIInv
<1>6. CASE WriteChunk
  <2>1. /\ at # 0 /\ phase = "replace" /\ Bad = {} /\ Remade /\ Taught(batch)
        /\ file' = [file EXCEPT ![at] = batch]
    BY <1>6 DEF WriteChunk
  <2>2. GloballyNew'
    BY <2>1, FileWritten
  <2>3. batch \in Drafts(at) /\ file'[at] = batch /\ \A c \in 1 .. Chunks : c # at => file'[c] = file[c]
    BY <2>1, <1>0 DEF SyllabusTypeOK
  <2>4. UsedIsTaught'
    BY <2>1, <2>3, <1>0, TaughtKeeps DEF SyllabusTypeOK
  <2> QED BY <2>2, <2>4, <1>0 DEF SyllabusIInv
<1>7. ASSUME NEW b \in Drafts(at), at # 0, Generate(b) PROVE SyllabusIInv'
  BY <1>7, <1>0, NothingWritten DEF Generate, SyllabusIInv
<1>8. ASSUME NEW b \in Replacements(at, batch, used), at # 0, Replace(b) PROVE SyllabusIInv'
  BY <1>8, <1>0, NothingWritten DEF Replace, Round, Exit, SyllabusIInv
<1>9. CASE Kill
  <2>1. at' = 0 /\ at # 0
    BY <1>9 DEF Kill, Exit
  <2>2. UsedIsTaught'
    BY <2>1 DEF UsedIsTaught
  <2>3. CASE UNCHANGED <<file, redone>>
    BY <2>3, <2>2, <1>0, NothingWritten DEF SyllabusIInv
  <2>4. CASE /\ phase = "replace" /\ Bad = {} /\ Remade
             /\ \E f \in {batch, CutFile} : file' = [file EXCEPT ![at] = f]
    BY <2>4, <2>1, <2>2, <1>0, FileWritten DEF SyllabusIInv
  <2> QED BY <1>9, <2>3, <2>4 DEF Kill, disk
<1>10. ASSUME NEW c \in 1 .. Chunks, Delete(c) PROVE SyllabusIInv'
  <2>1. at' = 0 /\ redone' = redone /\ file' \in {file, [file EXCEPT ![c] = NoFile]}
    BY <1>10 DEF Delete
  <2>2. UsedIsTaught'
    BY <2>1 DEF UsedIsTaught
  <2>3. \A d \in 1 .. Chunks : file'[d] = NoFile \/ file'[d] = file[d]
    BY <2>1, <1>0 DEF SyllabusTypeOK
  <2>4. \A d \in 1 .. Chunks : Finished(d)' => Finished(d) /\ file'[d] = file[d]
    BY <2>3 DEF Finished
  <2>5. GloballyNew'
    <3> SUFFICES ASSUME ~redone', NEW x \in 1 .. Chunks, NEW y \in 1 .. Chunks, Finished(x)', Finished(y)',
                        NEW j \in Slots(x), NEW k \in Slots(y)
                 PROVE  file'[x][j] # Empty /\ (file'[x][j] = file'[y][k] => x = y /\ j = k)
      BY DEF GloballyNew
    <3>1. ~redone /\ Finished(x) /\ Finished(y) /\ file'[x] = file[x] /\ file'[y] = file[y]
      BY <2>1, <2>4
    <3> QED BY <3>1 DEF SyllabusIInv, GloballyNew
  <2> QED BY <2>2, <2>5, <1>0 DEF SyllabusIInv
<1>11. CASE UNCHANGED syllabus
  BY <1>11, <1>0, NothingWritten DEF syllabus, SyllabusIInv
<1> QED BY <1>1, <1>2, <1>3, <1>4, <1>5, <1>6, <1>7, <1>8, <1>9, <1>10, <1>11
        DEF SyllabusNext, Step, Replacements

(* No two terms of finished chunks are alike, for every number of chunks    *)
(* and units, every answer and every bound, over kills, exits and reruns.   *)
THEOREM NoWordTwice == SyllabusSpec => []GloballyNew
<1>1. SyllabusIInv => GloballyNew
  BY DEF SyllabusIInv
<1> QED BY <1>1, SyllabusInitIInv, SyllabusNextIInv, PTL DEF SyllabusSpec

-----------------------------------------------------------------------------
(* Induction over an interval, from the least member of a set of naturals.  *)
LEMMA LeastMember ==
  ASSUME NEW S \in SUBSET Nat, S # {}
  PROVE  \E n \in S : \A m \in S : n <= m
<1> DEFINE R == {ss \in Nat \X Nat : ss[1] < ss[2]}
<1>1. IsWellFoundedOn(R, Nat)
  BY NatLessThanWellFounded DEF OpToRel
<1>2. \E n \in S : \A m \in S : ~ (<<m, n>> \in R)
  <2> HIDE DEF R
  <2> QED BY <1>1, WFMin
<1>3. \E n \in S : \A m \in S : ~(m < n)
  BY <1>2
<1> QED BY <1>3

LEMMA UpTo ==
  ASSUME NEW n \in Nat, NEW S, 0 \in S, \A k \in 1 .. n : k - 1 \in S => k \in S
  PROVE  \A k \in 0 .. n : k \in S
<1> SUFFICES ASSUME (0 .. n) \ S # {} PROVE FALSE
  OBVIOUS
<1>1. PICK k \in (0 .. n) \ S : \A m \in (0 .. n) \ S : k <= m
  BY LeastMember, (0 .. n) \ S \in SUBSET Nat
<1>2. k \in 1 .. n /\ k - 1 \in 0 .. n
  BY <1>1
<1>3. k - 1 \in S
  BY <1>1, <1>2
<1> QED BY <1>1, <1>2, <1>3

-----------------------------------------------------------------------------
(* What the loop over the lessons computes: the state after none is the     *)
(* table as it was, the state after k the upsert of the k-th lesson into    *)
(* the state before it.                                                     *)
Before == [ok |-> TRUE, table |-> rows]

LEMMA SeedingSteps ==
  ASSUME NEW ls, Len(ls) \in Nat
  PROVE  /\ DOMAIN Seeding(ls) = 0 .. Len(ls)
         /\ Seeding(ls)[0] = Before
         /\ \A k \in 1 .. Len(ls) : Seeding(ls)[k] = Upsert(Seeding(ls)[k - 1], ls[k])
<1> DEFINE n == Len(ls)
           Step1(f, k) == IF k = 0 THEN Before ELSE Upsert(f[k - 1], ls[k])
           Loop(f, m) == f = [k \in 0 .. m |-> Step1(f, k)]
           S == {m \in 0 .. n : \E f : Loop(f, m)}
<1>1. Seeding(ls) = CHOOSE f : Loop(f, n)
  BY Zenon DEF Seeding, Before
<1> HIDE DEF n
<1>2. n \in Nat
  BY DEF n
<1>3. 0 \in S
  <2> DEFINE f == [k \in 0 .. 0 |-> Before]
  <2>1. Loop(f, 0)
    BY DEF Before
  <2> HIDE DEF f, Loop
  <2> QED BY <2>1, <1>2
<1>4. ASSUME NEW m \in 1 .. n, m - 1 \in S PROVE m \in S
  <2>1. PICK f : f = [k \in 0 .. m - 1 |-> Step1(f, k)]
    BY <1>4
  <2> DEFINE g == [k \in 0 .. m |-> IF k = m THEN Upsert(f[m - 1], ls[m]) ELSE f[k]]
  <2>2. ASSUME NEW k \in 0 .. m PROVE g[k] = Step1(g, k)
    <3>1. CASE k = m
      BY <3>1, <1>2
    <3>2. CASE k # m
      <4>1. k \in 0 .. m - 1 /\ g[k] = f[k] /\ f[k] = Step1(f, k)
        BY <3>2, <1>2, <2>1
      <4>2. k # 0 => k - 1 \in 0 .. m /\ k - 1 # m /\ g[k - 1] = f[k - 1]
        BY <4>1, <1>2
      <4> QED BY <4>1, <4>2
    <3> QED BY <3>1, <3>2
  <2>3. Loop(g, m)
    BY <2>2
  <2> HIDE DEF g, Loop
  <2> QED BY <2>3, <1>2
<1>5. PICK f : Loop(f, n)
  <2> HIDE DEF S
  <2>1. n \in S
    BY <1>2, <1>3, <1>4, UpTo
  <2> QED BY <2>1 DEF S
<1>6. Loop(Seeding(ls), n)
  <2> HIDE DEF Loop
  <2> QED BY <1>1, <1>5
<1> QED BY <1>6, <1>2 DEF n

-----------------------------------------------------------------------------
(* What a release embeds: every lesson once, numbered without a gap.        *)
Numbered(ls) ==
  /\ Len(ls) \in Nat /\ DOMAIN ls = 1 .. Len(ls)
  /\ \A i \in DOMAIN ls : ls[i].ordinal = i
  /\ Distinct(ls)

(* The table lessons, too, is numbered without a gap, and no ordinal twice. *)
NoGaps(t) ==
  \A a \in DOMAIN t :
    /\ t[a].ordinal \in Nat \ {0}
    /\ \A k \in 1 .. t[a].ordinal : \E b \in DOMAIN t : t[b].ordinal = k
NoneTwice(t) == \A a, b \in DOMAIN t : t[a].ordinal = t[b].ordinal => a = b
TableInv(t) == NoGaps(t) /\ NoneTwice(t)

AgreeUpTo(k, ls) == \A i \in 1 .. k : ~Taken(rows, ls[i])

(* The table t with the first k lessons written into it.                    *)
FirstIds(k, ls) == {ls[i].id : i \in 1 .. k}
Written(u, k, ls) ==
  /\ DOMAIN u = DOMAIN rows \cup FirstIds(k, ls)
  /\ \A i \in 1 .. k : u[ls[i].id] = [ordinal |-> i, text |-> ls[i].text]
  /\ \A id \in DOMAIN rows \ FirstIds(k, ls) : u[id] = rows[id]

(* A lesson that agrees with the table finds no other lesson at its ordinal *)
(* when its turn comes: those before it have moved to lower ordinals.       *)
LEMMA OneMoreWritten ==
  ASSUME NEW ls, Numbered(ls), NEW k \in 1 .. Len(ls), ~Taken(rows, ls[k]),
         NEW u, Written(u, k - 1, ls)
  PROVE  ~Taken(u, ls[k]) /\ Written(Put(u, ls[k]), k, ls)
<1> DEFINE l == ls[k]
           v == Put(u, l)
<1>1. /\ Len(ls) \in Nat /\ k - 1 \in Nat /\ l.ordinal = k
      /\ \A i \in 1 .. k - 1 : ls[i].id # l.id
  BY DEF Numbered, Distinct
<1>2. FirstIds(k, ls) = FirstIds(k - 1, ls) \cup {l.id}
  BY <1>1 DEF FirstIds
<1>3. ASSUME NEW id \in DOMAIN u \ {l.id}, u[id].ordinal = k PROVE FALSE
  <2>1. CASE id \in FirstIds(k - 1, ls)
    <3>1. PICK i \in 1 .. k - 1 : id = ls[i].id
      BY <2>1 DEF FirstIds
    <3>2. u[id] = [ordinal |-> i, text |-> ls[i].text]
      BY <3>1 DEF Written
    <3> QED BY <3>1, <3>2, <1>3, <1>1
  <2>2. CASE id \notin FirstIds(k - 1, ls)
    <3>1. id \in DOMAIN rows \ {l.id} /\ u[id] = rows[id]
      BY <2>2, <1>3 DEF Written
    <3> QED BY <3>1, <1>1, <1>3 DEF Taken
  <2> QED BY <2>1, <2>2
<1>4. ~Taken(u, l)
  BY <1>1, <1>3 DEF Taken
<1>5. /\ DOMAIN v = DOMAIN u \cup {l.id}
      /\ v[l.id] = [ordinal |-> k, text |-> l.text]
      /\ \A id \in DOMAIN u \ {l.id} : v[id] = u[id]
  BY <1>1 DEF Put
<1>6. Written(v, k, ls)
  <2> HIDE DEF v
  <2>1. DOMAIN v = DOMAIN rows \cup FirstIds(k, ls)
    BY <1>2, <1>5 DEF Written
  <2>2. ASSUME NEW i \in 1 .. k PROVE v[ls[i].id] = [ordinal |-> i, text |-> ls[i].text]
    <3>1. CASE i = k
      BY <3>1, <1>5
    <3>2. CASE i # k
      <4>1. i \in 1 .. k - 1
        BY <3>2, <1>1
      <4>2. ls[i].id \in DOMAIN u \ {l.id}
        BY <4>1, <1>1 DEF Written, FirstIds
      <4> QED BY <4>1, <4>2, <1>5 DEF Written
    <3> QED BY <3>1, <3>2
  <2>3. ASSUME NEW id \in DOMAIN rows \ FirstIds(k, ls) PROVE v[id] = rows[id]
    BY <2>3, <1>2, <1>5 DEF Written
  <2> QED BY <2>1, <2>2, <2>3 DEF Written
<1> QED BY <1>4, <1>6

(* While the lessons agree with the table, all of them are written.         *)
LEMMA SeedingWrites ==
  ASSUME NEW ls, Numbered(ls), NEW k \in 0 .. Len(ls), AgreeUpTo(k, ls)
  PROVE  \E u : Seeding(ls)[k] = [ok |-> TRUE, table |-> u] /\ Written(u, k, ls)
<1> DEFINE n == Len(ls)
           After(j) == \E u : Seeding(ls)[j] = [ok |-> TRUE, table |-> u] /\ Written(u, j, ls)
           S == {j \in 0 .. n : AgreeUpTo(j, ls) => After(j)}
<1>1. n \in Nat
  BY DEF Numbered
<1>2. 0 \in S
  <2>1. Seeding(ls)[0] = [ok |-> TRUE, table |-> rows]
    BY <1>1, SeedingSteps DEF Before
  <2>2. FirstIds(0, ls) = {}
    BY DEF FirstIds
  <2>3. Written(rows, 0, ls)
    <3>1. DOMAIN rows = DOMAIN rows \cup FirstIds(0, ls)
      BY <2>2
    <3>2. \A i \in 1 .. 0 : FALSE
      OBVIOUS
    <3> QED BY <2>2, <3>1, <3>2, Zenon DEF Written
  <2>4. After(0)
    BY <2>1, <2>3
  <2> HIDE DEF After
  <2> QED BY <2>4, <1>1
<1>3. ASSUME NEW j \in 1 .. n, j - 1 \in S PROVE j \in S
  <2> SUFFICES ASSUME AgreeUpTo(j, ls) PROVE After(j)
    <3> HIDE DEF After
    <3> QED BY <1>1
  <2>1. AgreeUpTo(j - 1, ls) /\ ~Taken(rows, ls[j])
    BY <1>1 DEF AgreeUpTo
  <2>2. PICK u : Seeding(ls)[j - 1] = [ok |-> TRUE, table |-> u] /\ Written(u, j - 1, ls)
    BY <2>1, <1>3
  <2>3. ~Taken(u, ls[j]) /\ Written(Put(u, ls[j]), j, ls)
    BY <2>1, <2>2, OneMoreWritten
  <2>4. Seeding(ls)[j] = Upsert([ok |-> TRUE, table |-> u], ls[j])
    BY <1>1, <2>2, SeedingSteps
  <2>5. Upsert([ok |-> TRUE, table |-> u], ls[j]) = [ok |-> TRUE, table |-> Put(u, ls[j])]
    BY <2>3 DEF Upsert
  <2> QED BY <2>3, <2>4, <2>5
<1>4. k \in S
  <2> HIDE DEF S
  <2> QED BY <1>1, <1>2, <1>3, UpTo
<1> QED BY <1>4

(* A lesson that is refused undoes the lessons before it, and those after   *)
(* it are not written either.                                               *)
LEMMA SeedingFails ==
  ASSUME NEW ls, Numbered(ls), NEW k \in 0 .. Len(ls),
         NEW u, Seeding(ls)[k] = [ok |-> FALSE, table |-> u]
  PROVE  ~Seeding(ls)[Len(ls)].ok
<1> DEFINE n == Len(ls)
           Undone(j) == \E t : Seeding(ls)[j] = [ok |-> FALSE, table |-> t]
           S == {j \in 0 .. n : j >= k => Undone(j)}
<1>1. n \in Nat /\ k \in Nat
  BY DEF Numbered
<1>2. Undone(k)
  OBVIOUS
<1>3. 0 \in S
  <2> HIDE DEF Undone
  <2> QED BY <1>1, <1>2
<1>4. ASSUME NEW j \in 1 .. n, j - 1 \in S PROVE j \in S
  <2> SUFFICES ASSUME j > k PROVE Undone(j)
    <3> HIDE DEF Undone
    <3> QED BY <1>1, <1>2
  <2>1. Undone(j - 1)
    <3> HIDE DEF Undone
    <3> QED BY <1>1, <1>4
  <2>2. PICK t : Seeding(ls)[j - 1] = [ok |-> FALSE, table |-> t]
    BY <2>1
  <2>3. Seeding(ls)[j] = Upsert([ok |-> FALSE, table |-> t], ls[j])
    BY <1>1, <2>2, SeedingSteps
  <2>4. Upsert([ok |-> FALSE, table |-> t], ls[j]) = [ok |-> FALSE, table |-> t]
    BY DEF Upsert
  <2> QED BY <2>3, <2>4
<1>5. n \in S
  <2> HIDE DEF S
  <2> QED BY <1>1, <1>3, <1>4, UpTo, n \in 0 .. n
<1>6. Undone(n)
  <2> HIDE DEF Undone
  <2> QED BY <1>5, <1>1
<1> QED BY <1>6

(* A lesson that agrees keeps the ordinal it has.                           *)
LEMMA OrdinalsStay ==
  ASSUME NEW ls, Numbered(ls), TableInv(rows), NEW k \in 0 .. Len(ls), AgreeUpTo(k, ls),
         NEW j \in 1 .. k, ls[j].id \in DOMAIN rows
  PROVE  rows[ls[j].id].ordinal = j
<1> DEFINE id == ls[j].id
           o == rows[id].ordinal
<1>1. /\ Len(ls) \in Nat /\ k \in Nat /\ DOMAIN ls = 1 .. Len(ls) /\ o \in Nat \ {0}
      /\ \A i \in 1 .. k : ls[i].ordinal = i /\ (ls[i].id = id => i = j)
  BY DEF Numbered, Distinct, TableInv, NoGaps
<1>2. CASE o < j
  <2>1. o \in 1 .. k /\ ~Taken(rows, ls[o])
    BY <1>1, <1>2 DEF AgreeUpTo
  <2>2. ls[o].ordinal = o
    BY <1>1, <2>1
  <2>3. ls[o].id = id
    BY <2>1, <2>2 DEF Taken
  <2> QED BY <2>1, <2>3, <1>1
<1>3. CASE o >= j
  <2>1. PICK b \in DOMAIN rows : rows[b].ordinal = j
    BY <1>1, <1>3 DEF TableInv, NoGaps
  <2>2. ls[j].ordinal = j /\ ~Taken(rows, ls[j])
    BY <1>1 DEF AgreeUpTo
  <2> QED BY <2>1, <2>2 DEF Taken
<1> QED BY <1>1, <1>2, <1>3

(* The first lesson that does not agree is refused: what holds its ordinal  *)
(* is none of the lessons before it, which kept theirs.                     *)
LEMMA DisagreementFails ==
  ASSUME NEW ls, Numbered(ls), TableInv(rows), ~AgreeUpTo(Len(ls), ls)
  PROVE  ~Seeding(ls)[Len(ls)].ok
<1> DEFINE n == Len(ls)
           Bad1 == {i \in 1 .. n : Taken(rows, ls[i])}
<1>1. n \in Nat /\ DOMAIN ls = 1 .. n
  BY DEF Numbered
<1>2. PICK i \in Bad1 : \A m \in Bad1 : i <= m
  <2>1. Bad1 \in SUBSET Nat
    BY <1>1
  <2>2. Bad1 # {}
    BY DEF AgreeUpTo
  <2> HIDE DEF Bad1
  <2> QED BY <2>1, <2>2, LeastMember
<1>3. i \in 1 .. n /\ i - 1 \in 0 .. n /\ AgreeUpTo(i - 1, ls) /\ ls[i].ordinal = i
  BY <1>1, <1>2 DEF AgreeUpTo, Numbered
<1>4. PICK u : Seeding(ls)[i - 1] = [ok |-> TRUE, table |-> u] /\ Written(u, i - 1, ls)
  BY <1>3, SeedingWrites
<1>5. PICK id \in DOMAIN rows \ {ls[i].id} : rows[id].ordinal = i
  BY <1>2, <1>3 DEF Taken
<1>6. id \notin FirstIds(i - 1, ls)
  <2> SUFFICES ASSUME NEW j \in 1 .. i - 1, id = ls[j].id PROVE FALSE
    BY DEF FirstIds
  <2>1. rows[id].ordinal = j
    BY <1>3, OrdinalsStay
  <2> QED BY <2>1, <1>5, <1>3
<1>7. id \in DOMAIN u \ {ls[i].id} /\ u[id].ordinal = i
  BY <1>4, <1>5, <1>6 DEF Written
<1>8. Taken(u, ls[i])
  BY <1>7, <1>3 DEF Taken
<1>9. Seeding(ls)[i] = Upsert([ok |-> TRUE, table |-> u], ls[i])
  BY <1>1, <1>3, <1>4, SeedingSteps
<1>10. Upsert([ok |-> TRUE, table |-> u], ls[i]) = [ok |-> FALSE, table |-> u]
  BY <1>8 DEF Upsert
<1> QED BY <1>3, <1>9, <1>10, SeedingFails

(* A start is accepted exactly if its lessons agree with the table, and     *)
(* then it writes them all, moves none and keeps the table in order.        *)
LEMMA SeedingOutcome ==
  ASSUME NEW ls, Numbered(ls), TableInv(rows)
  PROVE  /\ Seeding(ls)[Len(ls)].ok <=> AgreeUpTo(Len(ls), ls)
         /\ Seeding(ls)[Len(ls)].ok =>
              /\ Written(Seeding(ls)[Len(ls)].table, Len(ls), ls)
              /\ TableInv(Seeding(ls)[Len(ls)].table)
              /\ \A id \in DOMAIN rows :
                   Seeding(ls)[Len(ls)].table[id].ordinal = rows[id].ordinal
<1> DEFINE n == Len(ls)
<1>1. n \in Nat /\ DOMAIN ls = 1 .. n /\ n \in 0 .. n
  BY DEF Numbered
<1>2. ~AgreeUpTo(n, ls) => ~Seeding(ls)[n].ok
  BY DisagreementFails
<1> DEFINE Fine(u) == /\ Seeding(ls)[n] = [ok |-> TRUE, table |-> u]
                      /\ Written(u, n, ls) /\ TableInv(u)
                      /\ \A id \in DOMAIN rows : u[id].ordinal = rows[id].ordinal
<1> SUFFICES ASSUME AgreeUpTo(n, ls) PROVE \E u : Fine(u)
  <2>1. ASSUME NEW u, Fine(u)
        PROVE  /\ Seeding(ls)[n].ok = TRUE /\ Seeding(ls)[n].table = u
               /\ Written(Seeding(ls)[n].table, n, ls) /\ TableInv(Seeding(ls)[n].table)
               /\ \A id \in DOMAIN rows : Seeding(ls)[n].table[id].ordinal = rows[id].ordinal
    <3>1. Seeding(ls)[n].ok = TRUE /\ Seeding(ls)[n].table = u
      BY <2>1
    <3> QED BY <2>1, <3>1
  <2> HIDE DEF Fine
  <2> QED BY <1>2, <2>1
<1>3. PICK u : Seeding(ls)[n] = [ok |-> TRUE, table |-> u] /\ Written(u, n, ls)
  BY <1>1, SeedingWrites
<1>4. ASSUME NEW i \in 1 .. n
      PROVE  /\ ls[i].id \in DOMAIN u /\ u[ls[i].id].ordinal = i
             /\ \A id \in DOMAIN rows : rows[id].ordinal = i => id = ls[i].id
  <2>1. ls[i].ordinal = i /\ ~Taken(rows, ls[i])
    BY <1>1 DEF Numbered, AgreeUpTo
  <2>2. u[ls[i].id] = [ordinal |-> i, text |-> ls[i].text] /\ ls[i].id \in DOMAIN u
    BY <1>3 DEF Written, FirstIds
  <2> QED BY <2>1, <2>2 DEF Taken
<1>5. ASSUME NEW id \in DOMAIN rows PROVE id \in DOMAIN u /\ u[id].ordinal = rows[id].ordinal
  <2>1. CASE id \in FirstIds(n, ls)
    <3>1. PICK i \in 1 .. n : id = ls[i].id
      BY <2>1 DEF FirstIds
    <3>2. rows[id].ordinal = i
      BY <1>1, <3>1, OrdinalsStay
    <3> QED BY <3>1, <3>2, <1>4
  <2>2. CASE id \notin FirstIds(n, ls)
    BY <2>2, <1>3 DEF Written
  <2> QED BY <2>1, <2>2
<1>6. ASSUME NEW a \in DOMAIN u
      PROVE  \/ \E i \in 1 .. n : a = ls[i].id /\ u[a].ordinal = i
             \/ a \in DOMAIN rows /\ u[a].ordinal = rows[a].ordinal
  <2>1. CASE a \in FirstIds(n, ls)
    BY <2>1, <1>4 DEF FirstIds
  <2>2. CASE a \notin FirstIds(n, ls)
    BY <2>2, <1>3, <1>5 DEF Written
  <2> QED BY <2>1, <2>2
<1>7. NoGaps(u)
  <2> SUFFICES ASSUME NEW a \in DOMAIN u
               PROVE  /\ u[a].ordinal \in Nat \ {0}
                      /\ \A k \in 1 .. u[a].ordinal : \E b \in DOMAIN u : u[b].ordinal = k
    BY DEF NoGaps
  <2>1. CASE \E i \in 1 .. n : a = ls[i].id /\ u[a].ordinal = i
    BY <2>1, <1>4, <1>1
  <2>2. CASE a \in DOMAIN rows /\ u[a].ordinal = rows[a].ordinal
    <3>1. /\ rows[a].ordinal \in Nat \ {0}
          /\ \A k \in 1 .. rows[a].ordinal : \E b \in DOMAIN rows : rows[b].ordinal = k
      BY <2>2 DEF TableInv, NoGaps
    <3> QED BY <2>2, <3>1, <1>5
  <2> QED BY <2>1, <2>2, <1>6
<1>8. NoneTwice(u)
  <2> SUFFICES ASSUME NEW a \in DOMAIN u, NEW b \in DOMAIN u, u[a].ordinal = u[b].ordinal PROVE a = b
    BY DEF NoneTwice
  <2>1. CASE u[a].ordinal \in 1 .. n
    <3>1. \A c \in DOMAIN u : u[c].ordinal = u[a].ordinal => c = ls[u[a].ordinal].id
      BY <2>1, <1>4, <1>6
    <3> QED BY <3>1
  <2>2. CASE u[a].ordinal \notin 1 .. n
    <3>1. /\ a \in DOMAIN rows /\ u[a].ordinal = rows[a].ordinal
          /\ b \in DOMAIN rows /\ u[b].ordinal = rows[b].ordinal
      BY <2>2, <1>6
    <3> QED BY <3>1 DEF TableInv, NoneTwice
  <2> QED BY <2>1, <2>2
<1> QED BY <1>3, <1>5, <1>7, <1>8 DEF TableInv

-----------------------------------------------------------------------------
(* Rows are numbered unit by unit.                                          *)
LEMMA Division ==
  ASSUME NEW p \in Nat \ {0}, NEW m \in Nat
  PROVE  m \div p \in Nat /\ m % p \in 0 .. p - 1 /\ m = p * (m \div p) + (m % p)
<1>1. m \div p \in Int /\ m % p \in 0 .. p - 1
  OBVIOUS
<1>2. m = p * (m \div p) + (m % p)
  OBVIOUS
<1>3. m \div p >= 0
  OBVIOUS
<1> QED BY <1>1, <1>2, <1>3

LEMMA DivisionUnique ==
  ASSUME NEW p \in Nat \ {0}, NEW m \in Nat, NEW q \in Nat, NEW r \in 0 .. p - 1, m = p * q + r
  PROVE  q = m \div p /\ r = m % p
<1> DEFINE a == m \div p
           b == m % p
<1>1. a \in Nat /\ b \in 0 .. p - 1 /\ p * a + b = p * q + r
  BY Division
<1> HIDE DEF a, b
<1>2. p * (a - q) = r - b
  BY <1>1
<1>3. r - b < p /\ b - r < p
  BY <1>1
<1>4. ~(a - q >= 1)
  <2> SUFFICES ASSUME a - q >= 1 PROVE FALSE
    OBVIOUS
  <2>1. p * (a - q) >= p
    BY <1>1
  <2> QED BY <2>1, <1>1, <1>2, <1>3
<1>5. ~(q - a >= 1)
  <2> SUFFICES ASSUME q - a >= 1 PROVE FALSE
    OBVIOUS
  <2>1. p * (q - a) >= p
    BY <1>1
  <2>2. p * (q - a) = b - r
    BY <1>1
  <2> QED BY <2>1, <2>2, <1>1, <1>3
<1>6. a = q
  BY <1>1, <1>4, <1>5
<1>7. b = r
  BY <1>1, <1>6
<1> QED BY <1>6, <1>7 DEF a, b

LEMMA InUnit ==
  ASSUME NEW p \in Nat \ {0}, NEW q \in Nat, NEW i \in 1 .. p * q
  PROVE  (i - 1) \div p + 1 \in 1 .. q /\ ((i - 1) % p) + 1 \in 1 .. p
<1> DEFINE a == (i - 1) \div p
           b == (i - 1) % p
<1>0. p * q \in Nat
  OBVIOUS
<1>1. a \in Nat /\ b \in 0 .. p - 1 /\ i - 1 = p * a + b /\ i - 1 < p * q
  <2>1. i - 1 \in Nat /\ i - 1 < p * q
    BY <1>0
  <2> DEFINE m == i - 1
  <2> HIDE DEF m
  <2>2. m \in Nat => m \div p \in Nat /\ m % p \in 0 .. p - 1 /\ m = p * (m \div p) + (m % p)
    BY Division
  <2> QED BY <2>1, <2>2 DEF m
<1> HIDE DEF a, b
<1>2. ~(a >= q)
  <2> SUFFICES ASSUME a >= q PROVE FALSE
    OBVIOUS
  <2>1. p * a >= p * q
    BY <1>1
  <2> QED BY <2>1, <1>1, <1>0
<1>3. a + 1 \in 1 .. q /\ b + 1 \in 1 .. p
  BY <1>1, <1>2
<1> QED BY <1>3 DEF a, b

-----------------------------------------------------------------------------
(* The lessons of an edition: the tables are built row by row.              *)
LEMMA UnitsOfEdition ==
  ASSUME NEW e \in Editions
  PROVE  /\ Len(Units(e)) \in Nat /\ DOMAIN Units(e) = 1 .. Len(Units(e))
         /\ \A j \in DOMAIN Units(e) : Units(e)[j].kind \in {"practical", "grammar"}
<1> DEFINE U == {u \in Range(e.practical) \cup Range(e.grammar) : u.kind \in {"practical", "grammar"}}
<1>1. e.practical \in Seq(U) /\ e.grammar \in Seq(U)
  <2> DEFINE P == {u \in Range(e.practical) : u.kind = "practical"}
             G == {u \in Range(e.grammar) : u.kind = "grammar"}
  <2>1. e.practical \in Seq(P) /\ e.grammar \in Seq(G)
    BY EditionsAssumption
  <2>2. P \subseteq U /\ G \subseteq U
    OBVIOUS
  <2> HIDE DEF P, G, U
  <2> QED BY <2>1, <2>2, SeqMonotonic
<1>2. Units(e) \in Seq(U)
  BY <1>1, ConcatProperties DEF Units
<1>3. \A j \in DOMAIN Units(e) : Units(e)[j] \in U
  BY <1>2
<1> QED BY <1>2, <1>3

LEMMA BuildMakes ==
  ASSUME NEW e \in Editions
  PROVE  /\ Len(build(e)) \in Nat /\ DOMAIN build(e) = 1 .. Len(build(e))
         /\ \A i \in DOMAIN build(e) :
              /\ Kind(build(e)[i]) \in {"practical", "grammar"}
              /\ \A m : build(e)[i].id # <<"lesson", m>>
<1> DEFINE n == PerUnit * Len(Units(e))
           unit(i) == Units(e)[(i - 1) \div PerUnit + 1]
           no(i) == ((i - 1) % PerUnit) + 1
<1>1. n \in Nat
  BY UnitsOfEdition, ContentAssumption
<1>2. DOMAIN build(e) = 1 .. n /\ Len(build(e)) = n
  BY <1>1 DEF build
<1>3. ASSUME NEW i \in 1 .. n
      PROVE  build(e)[i].id = <<unit(i).kind, unit(i).level, unit(i).unit, no(i)>>
  BY <1>2, <1>3 DEF build
<1>4. ASSUME NEW i \in 1 .. n PROVE unit(i).kind \in {"practical", "grammar"}
  <2>1. (i - 1) \div PerUnit + 1 \in DOMAIN Units(e)
    BY ContentAssumption, UnitsOfEdition, InUnit
  <2> QED BY <2>1, UnitsOfEdition
<1> QED BY <1>1, <1>2, <1>3, <1>4 DEF Kind

-----------------------------------------------------------------------------
(* The core lessons, whatever scripts have been run on them.                *)
NL == PerUnit * Len(CoreUnits)
UnitAt(n) == (n - 1) \div PerUnit
Built(n) == build_lesson(n)
CoreTexts == {Built(n).text : n \in 1 .. NL}
LessonOf(n) ==
  [id : {<<"lesson", n>>}, ordinal : {n}, level : {Built(n).level}, unit : {Built(n).unit},
   text : {Built(n).text}, empty : {FALSE}, words : {1, 2}, drills : {4}, acceptance : Nat \ 0 .. 2,
   bridges : Seq(SUBSET CoreTexts), assessment : {{}, {TRUE}, {FALSE}}, notes : {0, 1},
   worded : {"build", "enrich", "refine"}, timed : BOOLEAN, version : 1 .. 3]
AnyLesson == UNION {LessonOf(n) : n \in 1 .. NL}

(* The other lessons of the unit of the n-th.                               *)
Mates(n) == {Built(m).text : m \in {k \in 1 .. NL : UnitAt(k) = UnitAt(n) /\ k # n}}

LessonSound(n, l) ==
  /\ l \in LessonOf(n)
  /\ l.assessment # {} => l.assessment = {Closes(l)} /\ l.timed = TRUE /\ l.notes = 1
  /\ l.version = 3 => l.assessment # {} /\ l.worded = "refine" /\ (Closes(l) => Len(l.bridges) > 0)
  /\ Len(l.bridges) > 0 => Closes(l)
  /\ \A b \in DOMAIN l.bridges : l.bridges[b] = Mates(n)
LessonsInv(ls) == ls \in [1 .. NL -> AnyLesson] /\ \A n \in 1 .. NL : LessonSound(n, ls[n])

LEMMA CoreUnitsTable ==
  /\ PerUnit \in Nat \ {0} /\ UnitsPerLevel \in Nat \ {0} /\ Len(CoreUnits) \in Nat /\ NL \in Nat
  /\ DOMAIN CoreUnits = 1 .. Len(CoreUnits)
<1>1. PerUnit \in Nat \ {0} /\ UnitsPerLevel \in Nat \ {0} /\ Len(CoreUnits) \in Nat
      /\ DOMAIN CoreUnits = 1 .. Len(CoreUnits)
  BY ContentAssumption
<1> QED BY <1>1 DEF NL

LEMMA UnitAtRange ==
  ASSUME NEW n \in 1 .. NL
  PROVE  /\ UnitAt(n) \in Nat /\ UnitAt(n) + 1 \in DOMAIN CoreUnits
         /\ \E r \in 0 .. PerUnit - 1 : n - 1 = PerUnit * UnitAt(n) + r
<1>1. (n - 1) \div PerUnit + 1 \in 1 .. Len(CoreUnits)
  BY CoreUnitsTable, InUnit DEF NL
<1>2. n - 1 \in Nat
  BY CoreUnitsTable
<1> DEFINE m == n - 1
<1>3. m \div PerUnit \in Nat /\ m % PerUnit \in 0 .. PerUnit - 1 /\ m = PerUnit * (m \div PerUnit) + (m % PerUnit)
  <2> HIDE DEF m
  <2> QED BY <1>2, CoreUnitsTable, Division DEF m
<1> QED BY <1>1, <1>3, CoreUnitsTable DEF UnitAt

(* A lesson that closes its unit is the last of it.                         *)
LEMMA LastOfUnit ==
  ASSUME NEW n \in 1 .. NL, n % PerUnit = 0
  PROVE  n = PerUnit * UnitAt(n) + PerUnit
<1>1. PICK r \in 0 .. PerUnit - 1 : n - 1 = PerUnit * UnitAt(n) + r
  BY UnitAtRange
<1>2. n \in Nat /\ UnitAt(n) \in Nat /\ PerUnit \in Nat \ {0}
  BY UnitAtRange, CoreUnitsTable
<1> DEFINE q == UnitAt(n)
<1> HIDE DEF q
<1>4. PerUnit * q \in Nat /\ n = PerUnit * q + (r + 1)
  BY <1>1, <1>2 DEF q
<1>5. r + 1 \notin 0 .. PerUnit - 1
  <2> SUFFICES ASSUME r + 1 \in 0 .. PerUnit - 1 PROVE FALSE
    OBVIOUS
  <2>1. r + 1 = n % PerUnit
    <3>1. q \in Nat /\ n \in Nat
      BY <1>2 DEF q
    <3> DEFINE s == r + 1
    <3> HIDE DEF s
    <3>2. s \in 0 .. PerUnit - 1 /\ n = PerUnit * q + s
      BY <1>4 DEF s
    <3>3. s = n % PerUnit
      BY <1>2, <3>1, <3>2, DivisionUnique
    <3> QED BY <3>3 DEF s
  <2> QED BY <2>1
<1>6. r + 1 = PerUnit
  BY <1>2, <1>5
<1> QED BY <1>4, <1>6 DEF q

LEMMA BuiltFields ==
  ASSUME NEW n \in 1 .. NL
  PROVE  /\ Built(n).level = CoreUnits[UnitAt(n) + 1].level
         /\ Built(n).unit = (UnitAt(n) % UnitsPerLevel) + 1
         /\ Built(n).ordinal = n
BY DEF Built, build_lesson, UnitAt

(* enrich_content.py's arithmetic: the assessments are the last lessons.    *)
LEMMA AssessmentsClose ==
  ASSUME NEW n \in 1 .. NL
  PROVE  (Built(n).unit * PerUnit = ((n - 1) % (PerUnit * UnitsPerLevel)) + 1) <=> n % PerUnit = 0
<1> DEFINE p == PerUnit
           u == UnitsPerLevel
           q == UnitAt(n)
           a == q \div u
           b == q % u
<1>1. PICK r \in 0 .. p - 1 : n - 1 = p * q + r
  BY UnitAtRange
<1>2. /\ p \in Nat \ {0} /\ u \in Nat \ {0} /\ q \in Nat /\ n \in Nat \ {0}
      /\ Built(n).unit = b + 1
  <2>1. p \in Nat \ {0} /\ u \in Nat \ {0} /\ n \in Nat \ {0}
    BY CoreUnitsTable
  <2>2. q \in Nat
    BY UnitAtRange
  <2>3. Built(n).unit = b + 1
    BY BuiltFields
  <2> QED BY <2>1, <2>2, <2>3
<1>3. a \in Nat /\ b \in 0 .. u - 1 /\ q = u * a + b
  BY <1>2, Division
<1>4. n % p = 0 => r + 1 = p
  <2> SUFFICES ASSUME n % p = 0 PROVE r + 1 = p
    OBVIOUS
  <2>1. n = p * q + p
    BY LastOfUnit
  <2> HIDE DEF p, q
  <2>2. p * q \in Nat
    BY <1>2
  <2> QED BY <2>1, <2>2, <1>1, <1>2
<1> HIDE DEF p, u, q, a, b
<1>5. p * u \in Nat \ {0} /\ p * b + r \in 0 .. p * u - 1
  <2>1. p * u \in Nat /\ p * b \in Nat
    BY <1>2, <1>3
  <2>2. p * u > 0
    BY <1>2
  <2>3. p * b <= p * (u - 1)
    BY <1>2, <1>3
  <2>4. p * (u - 1) = p * u - p
    BY <1>2
  <2>5. r >= 0 /\ r <= p - 1 /\ r \in Int /\ p \in Int
    BY <1>1, <1>2
  <2> QED BY <2>1, <2>2, <2>3, <2>4, <2>5
<1>6. (n - 1) % (p * u) = p * b + r
  <2> DEFINE m == n - 1
             c == p * u
             s == p * b + r
  <2>1. m \in Nat /\ c \in Nat \ {0} /\ s \in 0 .. c - 1
    BY <1>2, <1>5
  <2>2. m = c * a + s
    <3>1. p * q = p * (u * a + b)
      BY <1>3
    <3>2. p * (u * a + b) = (p * u) * a + p * b
      BY <1>2, <1>3
    <3> QED BY <3>1, <3>2, <1>1, <1>2, <1>3
  <2> HIDE DEF m, c, s
  <2>3. s = m % c
    BY <2>1, <2>2, <1>3, DivisionUnique
  <2> QED BY <2>3 DEF m, c, s
<1>7. (b + 1) * p = p * b + p
  BY <1>2, <1>3
<1>8. (b + 1) * p = (p * b + r) + 1 <=> r + 1 = p
  <2>1. p * b \in Nat
    BY <1>2, <1>3
  <2> QED BY <2>1, <1>7, <1>1, <1>2
<1>9. r + 1 = p => n % p = 0
  <2> SUFFICES ASSUME r + 1 = p PROVE n % p = 0
    OBVIOUS
  <2>1. n = p * (q + 1) + 0
    BY <1>1, <1>2
  <2>2. q + 1 \in Nat /\ 0 \in 0 .. p - 1
    BY <1>2
  <2> DEFINE k == q + 1
  <2> HIDE DEF k
  <2>3. n \in Nat /\ k \in Nat /\ n = p * k + 0
    BY <2>1, <2>2, <1>2 DEF k
  <2>4. 0 = n % p
    BY <2>2, <2>3, <1>2, DivisionUnique
  <2> QED BY <2>4
<1>10. Built(n).unit * p = ((n - 1) % (p * u)) + 1 <=> n % p = 0
  BY <1>2, <1>4, <1>6, <1>8, <1>9
<1> QED BY <1>10 DEF p, u

(* The lessons before an assessment, as many as a unit has but one, are the *)
(* other lessons of its unit: those of its level and place in the level.    *)
LEMMA BeforeIsUnit ==
  ASSUME NEW n \in 1 .. NL, n % PerUnit = 0, NEW k \in 1 .. NL
  PROVE  k \in n - PerUnit + 1 .. n - 1 <=> UnitAt(k) = UnitAt(n) /\ k # n
<1> DEFINE p == PerUnit
           q == UnitAt(n)
<1>1. p \in Nat \ {0} /\ q \in Nat /\ n = p * q + p /\ k \in Nat \ {0} /\ UnitAt(k) \in Nat
  BY CoreUnitsTable, UnitAtRange, LastOfUnit
<1>2. PICK r \in 0 .. p - 1 : k - 1 = p * UnitAt(k) + r
  BY UnitAtRange
<1>3. ASSUME k \in n - p + 1 .. n - 1 PROVE UnitAt(k) = q
  <2> DEFINE m == k - 1
             s == k - 1 - p * q
  <2>1. m \in Nat /\ s \in 0 .. p - 1 /\ m = p * q + s
    <3> HIDE DEF p, q
    <3>1. p * q \in Nat
      BY <1>1
    <3>2. n = p * q + p /\ k \in n - p + 1 .. n - 1 /\ k \in Nat \ {0} /\ p \in Nat \ {0}
      BY <1>1, <1>3
    <3> DEFINE x == p * q
    <3> HIDE DEF x
    <3>3. x \in Nat /\ n = x + p
      BY <3>1, <3>2 DEF x
    <3>4. k - 1 \in Nat /\ k - 1 - x \in 0 .. p - 1
      BY <3>2, <3>3
    <3> QED BY <3>1, <3>4 DEF x
  <2> HIDE DEF m, s
  <2>2. q = m \div p
    BY <1>1, <2>1, DivisionUnique
  <2> QED BY <2>2 DEF m, UnitAt
<1>4. ASSUME UnitAt(k) = q, k # n PROVE k \in n - p + 1 .. n - 1
  <2> HIDE DEF p, q
  <2> DEFINE x == p * q
  <2>1. x \in Nat /\ n = x + p /\ k - 1 = x + r
    BY <1>1, <1>2, <1>4
  <2> HIDE DEF x
  <2> QED BY <2>1, <1>1, <1>2, <1>4
<1>5. k \in n - p + 1 .. n - 1 => k # n
  BY <1>1
<1> QED BY <1>3, <1>4, <1>5

LEMMA SamePlaceIsUnit ==
  ASSUME NEW n \in 1 .. NL, NEW k \in 1 .. NL
  PROVE  (Built(k).level = Built(n).level /\ Built(k).unit = Built(n).unit) <=> UnitAt(k) = UnitAt(n)
<1>1. /\ UnitAt(k) \in Nat /\ UnitAt(k) + 1 \in DOMAIN CoreUnits
      /\ UnitAt(n) \in Nat /\ UnitAt(n) + 1 \in DOMAIN CoreUnits
  BY UnitAtRange
<1>2. ASSUME Built(k).level = Built(n).level, Built(k).unit = Built(n).unit
      PROVE  UnitAt(k) = UnitAt(n)
  <2> DEFINE v == UnitAt(k) + 1
             w == UnitAt(n) + 1
  <2>1. v - 1 = UnitAt(k) /\ w - 1 = UnitAt(n)
    BY <1>1
  <2>2. UnitAt(k) % UnitsPerLevel = UnitAt(n) % UnitsPerLevel
    <3>1. UnitAt(k) % UnitsPerLevel \in Int /\ UnitAt(n) % UnitsPerLevel \in Int
      BY <1>1, CoreUnitsTable
    <3> QED BY <3>1, <1>2, BuiltFields
  <2>3. CoreUnits[v].level = CoreUnits[w].level /\ (v - 1) % UnitsPerLevel = (w - 1) % UnitsPerLevel
    BY <2>1, <2>2, <1>2, BuiltFields
  <2> HIDE DEF v, w
  <2>4. v = w
    <3>1. v \in DOMAIN CoreUnits /\ w \in DOMAIN CoreUnits
      BY <1>1 DEF v, w
    <3> QED BY <2>3, <3>1, ContentAssumption
  <2> QED BY <2>4, <1>1 DEF v, w
<1>3. UnitAt(k) = UnitAt(n) => Built(k).level = Built(n).level /\ Built(k).unit = Built(n).unit
  BY BuiltFields
<1> QED BY <1>2, <1>3

(* Each script keeps what is known of the lessons.                          *)
LEMMA LessonKnown ==
  ASSUME NEW ls, LessonsInv(ls), NEW n \in 1 .. NL
  PROVE  /\ ls[n] \in LessonOf(n) /\ LessonSound(n, ls[n])
         /\ ls[n].id = <<"lesson", n>> /\ ls[n].ordinal = n /\ ls[n].text = Built(n).text
         /\ ls[n].level = Built(n).level /\ ls[n].unit = Built(n).unit
         /\ ls[n].empty = FALSE /\ ls[n].words \in {1, 2} /\ ls[n].drills = 4
         /\ ls[n].bridges \in Seq(SUBSET CoreTexts)
         /\ DOMAIN ls = 1 .. NL /\ (Closes(ls[n]) <=> n % PerUnit = 0)
<1>1. LessonSound(n, ls[n]) /\ DOMAIN ls = 1 .. NL
  BY DEF LessonsInv
<1>2. ls[n] \in LessonOf(n)
  BY <1>1 DEF LessonSound
<1>3. ls[n].ordinal = n
  BY <1>2 DEF LessonOf
<1> QED BY <1>1, <1>2, <1>3 DEF LessonOf, Closes

LEMMA LessonsMade ==
  ASSUME NEW ls, DOMAIN ls = 1 .. NL, ls = [n \in 1 .. NL |-> ls[n]], \A n \in 1 .. NL : LessonSound(n, ls[n])
  PROVE  LessonsInv(ls)
<1>1. \A n \in 1 .. NL : ls[n] \in AnyLesson
  BY DEF LessonSound, AnyLesson
<1> QED BY <1>1 DEF LessonsInv

LEMMA LessonFields ==
  ASSUME NEW n \in 1 .. NL, NEW l,
         l = [id |-> l.id, ordinal |-> l.ordinal, level |-> l.level, unit |-> l.unit, text |-> l.text,
              empty |-> l.empty, words |-> l.words, drills |-> l.drills, acceptance |-> l.acceptance,
              bridges |-> l.bridges, assessment |-> l.assessment, notes |-> l.notes,
              worded |-> l.worded, timed |-> l.timed, version |-> l.version],
         l.id = <<"lesson", n>>, l.ordinal = n, l.level = Built(n).level, l.unit = Built(n).unit,
         l.text = Built(n).text, l.empty = FALSE, l.words \in {1, 2}, l.drills = 4,
         l.acceptance \in Nat \ 0 .. 2, l.bridges \in Seq(SUBSET CoreTexts),
         l.assessment \in {{}, {TRUE}, {FALSE}}, l.notes \in {0, 1},
         l.worded \in {"build", "enrich", "refine"}, l.timed \in BOOLEAN, l.version \in 1 .. 3
  PROVE  l \in LessonOf(n)
<1>1. /\ l.id \in {<<"lesson", n>>} /\ l.ordinal \in {n} /\ l.level \in {Built(n).level}
      /\ l.unit \in {Built(n).unit} /\ l.text \in {Built(n).text} /\ l.empty \in {FALSE}
      /\ l.drills \in {4}
  OBVIOUS
<1> QED BY <1>1 DEF LessonOf

LEMMA BuildLessons == LessonsInv(build_lessons)
<1>1. DOMAIN build_lessons = 1 .. NL /\ build_lessons = [n \in 1 .. NL |-> build_lessons[n]]
  BY DEF build_lessons, NL
<1>2. ASSUME NEW n \in 1 .. NL, NEW l, l = Built(n) PROVE LessonSound(n, l)
  <2>2. /\ l.id = <<"lesson", n>> /\ l.ordinal = n /\ l.empty = FALSE /\ l.words = 1 /\ l.drills = 4
        /\ l.acceptance = 3 /\ l.bridges = <<>> /\ l.assessment = {} /\ l.notes = 0
        /\ l.worded = "build" /\ l.timed = FALSE /\ l.version = 1
    BY <1>2 DEF Built, build_lesson
  <2>3. l = [id |-> l.id, ordinal |-> l.ordinal, level |-> l.level, unit |-> l.unit, text |-> l.text,
             empty |-> l.empty, words |-> l.words, drills |-> l.drills, acceptance |-> l.acceptance,
             bridges |-> l.bridges, assessment |-> l.assessment, notes |-> l.notes,
             worded |-> l.worded, timed |-> l.timed, version |-> l.version]
    BY <1>2 DEF Built, build_lesson
  <2>4. /\ l.words \in {1, 2} /\ l.acceptance \in Nat \ 0 .. 2 /\ l.notes \in {0, 1}
        /\ l.worded \in {"build", "enrich", "refine"} /\ l.version \in 1 .. 3
    BY <2>2
  <2>5. l.bridges \in Seq(SUBSET CoreTexts) /\ DOMAIN l.bridges = {}
    BY <2>2
  <2>6. l.assessment \in {{}, {TRUE}, {FALSE}}
    BY <2>2
  <2>7. l.timed \in BOOLEAN
    BY <2>2
  <2>8. l.level = Built(n).level /\ l.unit = Built(n).unit /\ l.text = Built(n).text
    BY <1>2
  <2>9. l \in LessonOf(n)
    BY <2>2, <2>3, <2>4, <2>5, <2>6, <2>7, <2>8, LessonFields
  <2> QED BY <2>2, <2>5, <2>9 DEF LessonSound
<1>3. ASSUME NEW n \in 1 .. NL PROVE LessonSound(n, build_lessons[n])
  <2>1. build_lessons[n] = Built(n)
    BY DEF build_lessons, NL, Built
  <2> QED BY <1>2, <2>1
<1> QED BY <1>1, <1>3, LessonsMade

LEMMA EnrichKeeps ==
  ASSUME NEW ls, LessonsInv(ls)
  PROVE  /\ LessonsInv(enrich_lessons(ls))
         /\ \A n \in 1 .. NL : enrich_lessons(ls)[n].assessment # {}
<1> DEFINE es == enrich_lessons(ls)
<1>1. DOMAIN es = 1 .. NL /\ es = [n \in 1 .. NL |-> es[n]]
  BY DEF enrich_lessons, LessonsInv
<1>2. ASSUME NEW n \in 1 .. NL, NEW l, LessonSound(n, l),
             NEW x, x = enrich_lesson(l)
      PROVE  LessonSound(n, x) /\ x.assessment # {}
  <2> DEFINE c == l.unit * PerUnit = ((l.ordinal - 1) % (PerUnit * UnitsPerLevel)) + 1
  <2>1. /\ l \in LessonOf(n) /\ l.ordinal = n /\ l.unit = Built(n).unit
        /\ l.id = <<"lesson", n>> /\ l.level = Built(n).level /\ l.text = Built(n).text
        /\ l.empty = FALSE /\ l.words \in {1, 2} /\ l.drills = 4 /\ l.acceptance \in Nat \ 0 .. 2
        /\ l.bridges \in Seq(SUBSET CoreTexts) /\ l.notes \in {0, 1}
    BY <1>2 DEF LessonSound, LessonOf
  <2>2. c <=> n % PerUnit = 0
    BY <2>1, AssessmentsClose
  <2> HIDE DEF c
  <2>3. x = [l EXCEPT !.notes = IF @ = 0 THEN 1 ELSE @, !.worded = "enrich", !.timed = TRUE,
                      !.version = 2, !.assessment = {c}]
    BY <1>2 DEF enrich_lesson, c
  <2>4. x = [id |-> l.id, ordinal |-> l.ordinal, level |-> l.level, unit |-> l.unit, text |-> l.text,
             empty |-> l.empty, words |-> l.words, drills |-> l.drills, acceptance |-> l.acceptance,
             bridges |-> l.bridges, assessment |-> {c}, notes |-> IF l.notes = 0 THEN 1 ELSE l.notes,
             worded |-> "enrich", timed |-> TRUE, version |-> 2]
    BY <2>1, <2>3 DEF LessonOf
  <2>5. /\ x.id = l.id /\ x.ordinal = l.ordinal /\ x.level = l.level /\ x.unit = l.unit /\ x.text = l.text
        /\ x.empty = l.empty /\ x.words = l.words /\ x.drills = l.drills /\ x.acceptance = l.acceptance
        /\ x.bridges = l.bridges /\ x.assessment = {c} /\ x.notes = 1 /\ x.worded = "enrich"
        /\ x.timed = TRUE /\ x.version = 2
    BY <2>1, <2>4
  <2>6. x = [id |-> x.id, ordinal |-> x.ordinal, level |-> x.level, unit |-> x.unit, text |-> x.text,
             empty |-> x.empty, words |-> x.words, drills |-> x.drills, acceptance |-> x.acceptance,
             bridges |-> x.bridges, assessment |-> x.assessment, notes |-> x.notes,
             worded |-> x.worded, timed |-> x.timed, version |-> x.version]
    BY <2>4
  <2>7. {c} \in {{}, {TRUE}, {FALSE}} /\ c \in BOOLEAN
    BY DEF c
  <2>8. x.assessment \in {{}, {TRUE}, {FALSE}}
    BY <2>5, <2>7
  <2>9. /\ x.notes \in {0, 1} /\ x.worded \in {"build", "enrich", "refine"} /\ x.version \in 1 .. 3
    BY <2>5
  <2>15. x.timed \in BOOLEAN
    BY <2>5
  <2>10. x \in LessonOf(n)
    BY <2>1, <2>5, <2>6, <2>8, <2>9, <2>15, LessonFields
  <2>11. Closes(x) \in BOOLEAN /\ (Closes(x) <=> c) /\ (Closes(l) <=> c)
    BY <2>1, <2>2, <2>5 DEF Closes
  <2>12. x.assessment # {} /\ x.assessment = {Closes(x)}
    BY <2>5, <2>7, <2>11
  <2>13. /\ Len(x.bridges) > 0 => Closes(x)
         /\ \A b \in DOMAIN x.bridges : x.bridges[b] = Mates(n)
    BY <1>2, <2>5, <2>11 DEF LessonSound
  <2>14. x.version # 3
    BY <2>5
  <2> QED BY <2>5, <2>10, <2>12, <2>13, <2>14 DEF LessonSound
<1>3. ASSUME NEW n \in 1 .. NL PROVE LessonSound(n, es[n]) /\ es[n].assessment # {}
  <2>1. LessonSound(n, ls[n]) /\ es[n] = enrich_lesson(ls[n])
    BY DEF LessonsInv, enrich_lessons
  <2> QED BY <1>2, <2>1
<1> QED BY <1>1, <1>3, LessonsMade

LEMMA RefineKeeps ==
  ASSUME NEW ls, LessonsInv(ls), \A n \in 1 .. NL : ls[n].assessment # {}
  PROVE  LessonsInv(refine_lessons(ls))
<1> DEFINE rs == refine_lessons(ls)
<1>1. DOMAIN rs = 1 .. NL /\ rs = [n \in 1 .. NL |-> rs[n]]
  BY DEF refine_lessons, LessonsInv
<1>2. ASSUME NEW n \in 1 .. NL, NEW l, LessonSound(n, l), l.assessment # {},
             NEW x, x = refine_lesson(ls, l)
      PROVE  LessonSound(n, x)
  <2> DEFINE more == Append(l.bridges, Earlier(ls, l))
             bridges == IF l.assessment = {TRUE} THEN more ELSE l.bridges
             acceptance == IF l.assessment = {TRUE} THEN l.acceptance + 1 ELSE l.acceptance
  <2>1. /\ l \in LessonOf(n) /\ l.ordinal = n /\ l.unit = Built(n).unit
        /\ l.id = <<"lesson", n>> /\ l.level = Built(n).level /\ l.text = Built(n).text
        /\ l.empty = FALSE /\ l.words \in {1, 2} /\ l.drills = 4 /\ l.acceptance \in Nat \ 0 .. 2
        /\ l.bridges \in Seq(SUBSET CoreTexts)
        /\ l.assessment = {Closes(l)} /\ l.timed = TRUE /\ l.notes = 1
    BY <1>2 DEF LessonSound, LessonOf
  <2>2. Closes(l) \in BOOLEAN /\ (Closes(l) <=> n % PerUnit = 0)
    BY <2>1 DEF Closes
  <2>3. l.assessment = {TRUE} <=> Closes(l)
    BY <2>1, <2>2
  <2>4. ASSUME Closes(l) PROVE Earlier(ls, l) = Mates(n)
    <3>1. /\ Earlier(ls, l) = {ls[m].text : m \in (n - PerUnit + 1 .. n - 1) \cap 1 .. NL}
          /\ DOMAIN ls = 1 .. NL
      BY <2>1 DEF Earlier, LessonsInv
    <3>2. \A m \in 1 .. NL : ls[m].text = Built(m).text
      BY LessonKnown
    <3>3. (n - PerUnit + 1 .. n - 1) \cap 1 .. NL = {k \in 1 .. NL : UnitAt(k) = UnitAt(n) /\ k # n}
      BY <2>2, <2>4, BeforeIsUnit
    <3> QED BY <3>1, <3>2, <3>3 DEF Mates
  <2>5. Mates(n) \in SUBSET CoreTexts
    BY DEF Mates, CoreTexts
  <2>6. /\ bridges \in Seq(SUBSET CoreTexts) /\ acceptance \in Nat \ 0 .. 2
        /\ Closes(l) <=> Len(bridges) > 0
        /\ \A b \in DOMAIN bridges : bridges[b] = Mates(n)
    <3>1. \A b \in DOMAIN l.bridges : l.bridges[b] = Mates(n)
      BY <1>2 DEF LessonSound
    <3>2. CASE Closes(l)
      <4>1. bridges = Append(l.bridges, Mates(n)) /\ acceptance = l.acceptance + 1
        BY <2>3, <2>4, <3>2
      <4>2. bridges \in Seq(SUBSET CoreTexts) /\ Len(bridges) = Len(l.bridges) + 1
        <5> DEFINE T == SUBSET CoreTexts
        <5>1. l.bridges \in Seq(T) /\ Mates(n) \in T
          BY <2>1, <2>5
        <5> HIDE DEF T, bridges
        <5>2. bridges \in Seq(T) /\ Len(bridges) = Len(l.bridges) + 1
          BY <4>1, <5>1, AppendProperties
        <5> QED BY <5>2 DEF T
      <4>3. \A b \in DOMAIN bridges : bridges[b] = Mates(n)
        <5> HIDE DEF bridges
        <5> QED BY <4>1, <2>1, <3>1, <2>5, AppendProperties
      <4>4. Len(l.bridges) \in Nat
        BY <2>1
      <4> HIDE DEF bridges, acceptance
      <4> QED BY <3>2, <4>1, <4>2, <4>3, <4>4, <2>1
    <3>3. CASE ~Closes(l)
      <4>1. bridges = l.bridges /\ acceptance = l.acceptance
        BY <2>3, <3>3
      <4>2. ~(Len(l.bridges) > 0)
        BY <1>2, <3>3 DEF LessonSound
      <4> HIDE DEF bridges, acceptance
      <4> QED BY <3>3, <4>1, <4>2, <3>1, <2>1
    <3> QED BY <3>2, <3>3
  <2> HIDE DEF bridges, acceptance
  <2>7. x = [l EXCEPT !.words = 2, !.worded = "refine", !.version = 3,
                      !.bridges = bridges, !.acceptance = acceptance]
    BY <1>2 DEF refine_lesson, bridges, acceptance
  <2>8. x = [id |-> l.id, ordinal |-> l.ordinal, level |-> l.level, unit |-> l.unit, text |-> l.text,
             empty |-> l.empty, words |-> 2, drills |-> l.drills, acceptance |-> acceptance,
             bridges |-> bridges, assessment |-> l.assessment, notes |-> l.notes,
             worded |-> "refine", timed |-> l.timed, version |-> 3]
    BY <2>1, <2>7 DEF LessonOf
  <2>9. /\ x.id = l.id /\ x.ordinal = l.ordinal /\ x.level = l.level /\ x.unit = l.unit /\ x.text = l.text
        /\ x.empty = l.empty /\ x.words = 2 /\ x.drills = l.drills /\ x.acceptance = acceptance
        /\ x.bridges = bridges /\ x.assessment = l.assessment /\ x.notes = l.notes
        /\ x.worded = "refine" /\ x.timed = l.timed /\ x.version = 3
    BY <2>8
  <2>10. x = [id |-> x.id, ordinal |-> x.ordinal, level |-> x.level, unit |-> x.unit, text |-> x.text,
              empty |-> x.empty, words |-> x.words, drills |-> x.drills, acceptance |-> x.acceptance,
              bridges |-> x.bridges, assessment |-> x.assessment, notes |-> x.notes,
              worded |-> x.worded, timed |-> x.timed, version |-> x.version]
    BY <2>8
  <2>11. x.assessment \in {{}, {TRUE}, {FALSE}}
    BY <2>1, <2>2, <2>9
  <2>12. x.notes \in {0, 1} /\ x.worded \in {"build", "enrich", "refine"} /\ x.version \in 1 .. 3
         /\ x.words \in {1, 2}
    BY <2>1, <2>9
  <2>13. x.timed \in BOOLEAN
    BY <2>1, <2>9
  <2>14. x \in LessonOf(n)
    BY <2>1, <2>6, <2>9, <2>10, <2>11, <2>12, <2>13, LessonFields
  <2>15. Closes(x) \in BOOLEAN /\ (Closes(x) <=> Closes(l))
    BY <2>1, <2>9 DEF Closes
  <2>16. x.assessment = {Closes(x)}
    BY <2>1, <2>2, <2>9, <2>15
  <2>17. /\ Closes(x) <=> Len(x.bridges) > 0
         /\ \A b \in DOMAIN x.bridges : x.bridges[b] = Mates(n)
    BY <2>6, <2>9, <2>15
  <2>18. x.timed = TRUE /\ x.notes = 1 /\ x.assessment # {}
    BY <1>2, <2>1, <2>9
  <2> QED BY <2>9, <2>14, <2>16, <2>17, <2>18 DEF LessonSound
<1>3. ASSUME NEW n \in 1 .. NL PROVE LessonSound(n, rs[n])
  <2>1. LessonSound(n, ls[n]) /\ rs[n] = refine_lesson(ls, ls[n])
    BY DEF LessonsInv, refine_lessons
  <2> QED BY <1>2, <2>1
<1> QED BY <1>1, <1>3, LessonsMade

(* The lessons the repository has, and what RefinedIsEnriched says of them. *)
LEMMA CoreLessons == LessonsInv(Enriched) /\ LessonsInv(Core)
<1>1. LessonsInv(Enriched) /\ \A n \in 1 .. NL : Enriched[n].assessment # {}
  BY BuildLessons, EnrichKeeps DEF Enriched
<1> QED BY <1>1, RefineKeeps DEF Core

LEMMA LessonsRefined ==
  ASSUME NEW ls, LessonsInv(ls), NEW n \in DOMAIN ls, NEW l, l = ls[n], l.version = 3
  PROVE  /\ l.timed /\ l.notes = 1 /\ l.worded = "refine" /\ l.assessment = {Closes(l)}
         /\ Len(l.bridges) > 0 <=> Closes(l)
         /\ \A b \in DOMAIN l.bridges : l.bridges[b] = Others(ls, l)
<1>1. n \in 1 .. NL /\ DOMAIN ls = 1 .. NL
  BY DEF LessonsInv
<1>2. LessonSound(n, l) /\ l.ordinal = n /\ l.level = Built(n).level /\ l.unit = Built(n).unit
  BY <1>1, LessonKnown
<1>3. \A m \in 1 .. NL : /\ ls[m].text = Built(m).text /\ ls[m].level = Built(m).level
                         /\ ls[m].unit = Built(m).unit
  BY LessonKnown
<1>4. \A m \in 1 .. NL : (ls[m].level = l.level /\ ls[m].unit = l.unit) <=> UnitAt(m) = UnitAt(n)
  BY <1>1, <1>2, <1>3, SamePlaceIsUnit
<1>5. {m \in DOMAIN ls : ls[m].level = l.level /\ ls[m].unit = l.unit /\ m # l.ordinal}
        = {k \in 1 .. NL : UnitAt(k) = UnitAt(n) /\ k # n}
  BY <1>1, <1>2, <1>4
<1>6. Others(ls, l) = Mates(n)
  BY <1>3, <1>5 DEF Others, Mates
<1> QED BY <1>2, <1>6 DEF LessonSound

-----------------------------------------------------------------------------
(* The scenes: first those of the table, then the everyday ones, if any.    *)
W == Len(WorkScenes)
AllRows == W + EverydayScenes
Row(i) == IF i <= W THEN Scene(WorkScenes[i], Place(i)) ELSE Scene("Everyday", i - W)
SceneAt(i) == [id : {Row(i).id}, category : {Row(i).category}, roles : Nat]
ScenesInv(ss) ==
  /\ DOMAIN ss = 1 .. Len(ss) /\ Len(ss) \in {W, AllRows}
  /\ \A i \in 1 .. Len(ss) : ss[i] \in SceneAt(i)

LEMMA SceneTable ==
  /\ W \in Nat /\ EverydayScenes \in Nat /\ DOMAIN WorkScenes = 1 .. W /\ AllRows \in Nat
  /\ \A i \in 1 .. W : WorkScenes[i] # "Everyday"
<1>1. W \in Nat /\ EverydayScenes \in Nat /\ DOMAIN WorkScenes = 1 .. W
  BY ContentAssumption DEF W
<1>2. \A i \in 1 .. W : WorkScenes[i] \in Range(WorkScenes)
  BY <1>1 DEF Range
<1> QED BY <1>1, <1>2, ContentAssumption DEF AllRows

LEMMA SceneKnown ==
  ASSUME NEW ss, ScenesInv(ss), NEW i \in DOMAIN ss
  PROVE  /\ ss[i] \in SceneAt(i) /\ i \in 1 .. Len(ss) /\ Len(ss) \in Nat
         /\ ss[i].id = Row(i).id /\ ss[i].category = Row(i).category /\ ss[i].roles \in Nat
         /\ i \in 1 .. AllRows
<1>1. /\ ss[i] \in SceneAt(i) /\ i \in 1 .. Len(ss) /\ Len(ss) \in {W, AllRows}
  BY DEF ScenesInv
<1>2. Len(ss) \in Nat /\ Len(ss) <= AllRows
  BY <1>1, SceneTable DEF AllRows
<1> QED BY <1>1, <1>2, SceneTable DEF SceneAt

LEMMA SceneBounds ==
  ASSUME NEW ss, ScenesInv(ss)
  PROVE  /\ Len(ss) \in Nat /\ DOMAIN ss = 1 .. Len(ss) /\ Len(ss) \in {W, AllRows}
         /\ W <= Len(ss) /\ Len(ss) <= AllRows
         /\ W \in Nat /\ AllRows \in Nat
<1>1. W <= AllRows
  BY SceneTable DEF AllRows
<1>2. DOMAIN ss = 1 .. Len(ss) /\ Len(ss) \in {W, AllRows}
  BY DEF ScenesInv
<1>3. Len(ss) = W \/ Len(ss) = AllRows
  BY <1>2
<1>4. W \in Nat /\ AllRows \in Nat
  BY SceneTable
<1>5. Len(ss) \in Nat /\ W <= Len(ss) /\ Len(ss) <= AllRows
  <2>1. CASE Len(ss) = W
    <3>1. W <= W
      BY <1>4
    <3> QED BY <2>1, <1>1, <1>4, <3>1
  <2>2. CASE Len(ss) = AllRows
    <3>1. AllRows <= AllRows
      BY <1>4
    <3> QED BY <2>2, <1>1, <1>4, <3>1
  <2> QED BY <1>3, <2>1, <2>2
<1> QED BY <1>2, <1>4, <1>5

LEMMA RowFields ==
  ASSUME NEW i \in 1 .. AllRows
  PROVE  /\ i <= W => /\ Row(i).category = WorkScenes[i]
                      /\ Row(i).id = <<WorkScenes[i], Place(i)>>
         /\ ~(i <= W) => Row(i).category = "Everyday" /\ Row(i).id = <<"Everyday", i - W>>
         /\ Row(i).roles = 0
         /\ Row(i) \in SceneAt(i)
         /\ Row(i).category = "Everyday" <=> ~(i <= W)
<1>1. CASE i <= W
  <2>1. i \in 1 .. W
    BY <1>1, SceneTable
  <2> QED BY <1>1, <2>1, SceneTable DEF Row, Scene, SceneAt
<1>2. CASE ~(i <= W)
  BY <1>2 DEF Row, Scene, SceneAt
<1> QED BY <1>1, <1>2

(* No scene has the id of another: within a category places grow.           *)
LEMMA PlaceGrows ==
  ASSUME NEW i \in 1 .. W, NEW j \in 1 .. W, i < j, WorkScenes[i] = WorkScenes[j]
  PROVE  Place(i) # Place(j)
<1> DEFINE S == OfCategory(WorkScenes[i]) \cap 1 .. i
           T == OfCategory(WorkScenes[i]) \cap 1 .. j
<1>1. Place(i) = Cardinality(S) /\ Place(j) = Cardinality(T)
  BY DEF Place
<1>2. S \in SUBSET T /\ j \in T /\ j \notin S
  BY SceneTable DEF OfCategory
<1>3. IsFiniteSet(T)
  <2>1. T \in SUBSET (1 .. j) /\ IsFiniteSet(1 .. j)
    BY FS_Interval, SceneTable
  <2> HIDE DEF T
  <2> QED BY <2>1, FS_Subset
<1> HIDE DEF S, T
<1>4. Cardinality(T) = Cardinality(S) => T = S
  BY <1>2, <1>3, FS_Subset
<1> QED BY <1>1, <1>2, <1>4

LEMMA RowIdsDiffer ==
  ASSUME NEW i \in 1 .. AllRows, NEW j \in 1 .. AllRows, i # j
  PROVE  Row(i).id # Row(j).id
<1> SUFFICES ASSUME Row(i).id = Row(j).id PROVE FALSE
  OBVIOUS
<1>1. CASE i <= W /\ j <= W
  <2>1. WorkScenes[i] = WorkScenes[j] /\ Place(i) = Place(j)
    BY <1>1, RowFields
  <2>2. i \in 1 .. W /\ j \in 1 .. W /\ (i < j \/ j < i)
    BY <1>1, SceneTable
  <2> QED BY <2>1, <2>2, PlaceGrows
<1>2. CASE i <= W /\ ~(j <= W)
  <2>1. i \in 1 .. W /\ WorkScenes[i] = "Everyday"
    BY <1>2, RowFields, SceneTable
  <2> QED BY <2>1, SceneTable
<1>3. CASE ~(i <= W) /\ j <= W
  <2>1. j \in 1 .. W /\ WorkScenes[j] = "Everyday"
    BY <1>3, RowFields, SceneTable
  <2> QED BY <2>1, SceneTable
<1>4. CASE ~(i <= W) /\ ~(j <= W)
  <2>1. i - W = j - W
    BY <1>4, RowFields
  <2> QED BY <2>1, SceneTable
<1> QED BY <1>1, <1>2, <1>3, <1>4

LEMMA ScenesKnownOnce ==
  ASSUME NEW ss, ScenesInv(ss)
  PROVE  Cardinality(Ids(ss)) = Len(ss)
<1> DEFINE n == Len(ss)
           f == [i \in 1 .. n |-> ss[i].id]
<1>1. n \in Nat /\ DOMAIN ss = 1 .. n
  BY SceneTable DEF ScenesInv, AllRows
<1>2. f \in [1 .. n -> Ids(ss)] /\ \A y \in Ids(ss) : \E i \in 1 .. n : f[i] = y
  BY <1>1 DEF Ids
<1>3. \A i, j \in 1 .. n : f[i] = f[j] => i = j
  <2> SUFFICES ASSUME NEW i \in 1 .. n, NEW j \in 1 .. n, i # j PROVE f[i] # f[j]
    OBVIOUS
  <2>1. ss[i].id = Row(i).id /\ ss[j].id = Row(j).id /\ i \in 1 .. AllRows /\ j \in 1 .. AllRows
    BY <1>1, SceneKnown
  <2> QED BY <2>1, RowIdsDiffer
<1>4. f \in Bijection(1 .. n, Ids(ss))
  <2> HIDE DEF f
  <2> QED BY <1>2, <1>3 DEF Bijection, Injection, IsInjective, Surjection
<1>5. Cardinality(Ids(ss)) = Cardinality(1 .. n)
  <2>1. IsFiniteSet(1 .. n)
    BY <1>1, FS_Interval
  <2> HIDE DEF f
  <2>2. ExistsBijection(1 .. n, Ids(ss))
    BY <1>4 DEF ExistsBijection
  <2> QED BY <2>1, <2>2, FS_Bijection
<1>6. Cardinality(1 .. n) = n
  <2> HIDE DEF n
  <2> QED BY <1>1, FS_Interval
<1> QED BY <1>5, <1>6

(* With everyday scenes every category has its number of them.              *)
LEMMA ScenesCovered ==
  ASSUME NEW ss, ScenesInv(ss), NEW i \in DOMAIN ss, ss[i].category = "Everyday"
  PROVE  TestScenarioCoverage(ss)
<1>1. i \in 1 .. AllRows /\ i \in 1 .. Len(ss) /\ Len(ss) \in Nat /\ Row(i).category = "Everyday"
  BY SceneKnown
<1>2. ~(i <= W)
  BY <1>1, RowFields
<1>3. Len(ss) = AllRows /\ DOMAIN ss = 1 .. AllRows
  <2>1. Len(ss) \in {W, AllRows} /\ DOMAIN ss = 1 .. Len(ss)
    BY DEF ScenesInv
  <2>2. Len(ss) # W
    BY <1>1, <1>2, SceneTable
  <2> QED BY <2>1, <2>2
<1>4. Len(build_scenes) = W
  BY SceneTable DEF build_scenes
<1>5. ASSUME NEW c \in Range(WorkScenes)
      PROVE  c # "Everyday" /\ {k \in DOMAIN ss : ss[k].category = c} = OfCategory(c)
  <2>1. c # "Everyday"
    BY ContentAssumption
  <2>2. \A k \in 1 .. AllRows : ss[k].category = c <=> k <= W /\ WorkScenes[k] = c
    BY <1>3, <2>1, SceneKnown, RowFields
  <2>3. \A k \in 1 .. AllRows : k <= W <=> k \in 1 .. W
    BY SceneTable
  <2>4. 1 .. W \subseteq 1 .. AllRows
    BY SceneTable DEF AllRows
  <2> QED BY <1>3, <2>1, <2>2, <2>3, <2>4, SceneTable DEF OfCategory
<1>6. Cardinality({k \in DOMAIN ss : ss[k].category = "Everyday"}) = EverydayScenes
  <2>1. \A k \in 1 .. AllRows : ss[k].category = "Everyday" <=> ~(k <= W)
    BY <1>3, SceneKnown, RowFields
  <2>2. {k \in DOMAIN ss : ss[k].category = "Everyday"} = W + 1 .. AllRows
    BY <1>3, <2>1, SceneTable
  <2>3. Cardinality(W + 1 .. AllRows) = EverydayScenes
    BY FS_Interval, SceneTable DEF AllRows
  <2> QED BY <2>2, <2>3
<1> QED BY <1>3, <1>4, <1>5, <1>6 DEF TestScenarioCoverage, AllScenes, AllRows

(* Each script keeps what is known of the scenes.                           *)
LEMMA BuildScenes == ScenesInv(build_scenes)
<1>1. DOMAIN build_scenes = 1 .. W /\ Len(build_scenes) = W
  BY SceneTable DEF build_scenes
<1>2. ASSUME NEW i \in 1 .. W PROVE build_scenes[i] \in SceneAt(i)
  <2>1. build_scenes[i] = Row(i)
    BY SceneTable DEF build_scenes, Row
  <2>2. i \in 1 .. AllRows
    BY SceneTable DEF AllRows
  <2> QED BY <2>1, <2>2, RowFields
<1> QED BY <1>1, <1>2 DEF ScenesInv

LEMMA RefineScenes ==
  ASSUME NEW ss, ScenesInv(ss)
  PROVE  ScenesInv(refine_scenes(ss))
<1> DEFINE rs == refine_scenes(ss)
<1>1. Len(ss) \in Nat /\ DOMAIN ss = 1 .. Len(ss) /\ Len(ss) \in {W, AllRows}
  BY SceneTable DEF ScenesInv
<1>2. DOMAIN rs = 1 .. Len(ss) /\ Len(rs) = Len(ss)
  BY <1>1 DEF refine_scenes
<1>3. ASSUME NEW i \in 1 .. Len(ss) PROVE rs[i] \in SceneAt(i)
  <2>1. ss[i] \in SceneAt(i)
    BY <1>1, SceneKnown
  <2>2. rs[i] = [ss[i] EXCEPT !.roles = @ + 1]
    BY <1>1 DEF refine_scenes
  <2> HIDE DEF rs
  <2> QED BY <2>1, <2>2 DEF SceneAt
<1> QED BY <1>1, <1>2, <1>3 DEF ScenesInv

LEMMA WorkOnlyKeepsTable ==
  ASSUME NEW ss, ScenesInv(ss)
  PROVE  WorkOnly(ss) = [k \in 1 .. W |-> ss[k]]
<1> DEFINE work == {i \in DOMAIN ss : ss[i].category # "Everyday"}
<1>1. Len(ss) \in Nat /\ DOMAIN ss = 1 .. Len(ss) /\ Len(ss) \in {W, AllRows}
  BY SceneBounds
<1>2. 1 .. W \subseteq 1 .. Len(ss)
  BY SceneBounds
<1>3. \A i \in 1 .. Len(ss) : ss[i].category # "Everyday" <=> i \in 1 .. W
  <2> SUFFICES ASSUME NEW i \in 1 .. Len(ss) PROVE ss[i].category # "Everyday" <=> i <= W
    <3>1. \A i \in 1 .. Len(ss) : i \in 1 .. W <=> i <= W
      BY SceneBounds
    <3> QED BY <3>1
  <2>1. ss[i].category = Row(i).category /\ i \in 1 .. AllRows
    BY <1>1, SceneKnown
  <2> QED BY <2>1, RowFields
<1>4. work = 1 .. W
  BY <1>1, <1>2, <1>3
<1>5. Cardinality(1 .. W) = W
  BY FS_Interval, SceneTable
<1>6. ASSUME NEW k \in 1 .. W PROVE Smallest(k, 1 .. W) = k
  <2>1. ASSUME NEW i \in 1 .. W PROVE Cardinality((1 .. W) \cap 1 .. i) = i
    <3>1. (1 .. W) \cap 1 .. i = 1 .. i
      BY SceneTable
    <3>2. Cardinality(1 .. i) = i
      BY FS_Interval, SceneTable
    <3> QED BY <3>1, <3>2
  <2> QED BY <2>1 DEF Smallest
<1>7. WorkOnly(ss) = [k \in 1 .. Cardinality(work) |-> ss[Smallest(k, work)]]
  BY DEF WorkOnly
<1> HIDE DEF work
<1>8. WorkOnly(ss) = [k \in 1 .. W |-> ss[Smallest(k, 1 .. W)]]
  BY <1>4, <1>5, <1>7
<1> QED BY <1>6, <1>8

LEMMA EnrichScenes ==
  ASSUME NEW ss, ScenesInv(ss)
  PROVE  ScenesInv(enrich_scenes(ss))
<1> DEFINE es == enrich_scenes(ss)
           work == [k \in 1 .. W |-> ss[k]]
           T == UNION {SceneAt(i) : i \in 1 .. AllRows}
<1>1. Len(ss) \in Nat /\ DOMAIN ss = 1 .. Len(ss) /\ Len(ss) \in {W, AllRows}
  BY SceneBounds
<1>2. \A k \in 1 .. W : k \in DOMAIN ss /\ k \in 1 .. AllRows
  BY SceneBounds
<1>3. ASSUME NEW k \in 1 .. W PROVE ss[k] \in SceneAt(k) /\ ss[k] \in T
  BY <1>2, SceneKnown
<1>4. work \in Seq(T) /\ Len(work) = W
  <2> HIDE DEF T
  <2> QED BY <1>3, SceneTable
<1>5. ASSUME NEW i \in 1 .. EverydayScenes
      PROVE  W + i \in 1 .. AllRows /\ everyday[i] = Row(W + i) /\ everyday[i] \in SceneAt(W + i) /\ everyday[i] \in T
  <2>1. W + i \in 1 .. AllRows /\ ~(W + i <= W) /\ (W + i) - W = i
    BY SceneTable DEF AllRows
  <2>2. everyday[i] = Row(W + i)
    BY <2>1 DEF everyday, Row
  <2>3. Row(W + i) \in SceneAt(W + i)
    BY <2>1, RowFields
  <2> QED BY <2>1, <2>2, <2>3
<1>6. everyday \in Seq(T) /\ Len(everyday) = EverydayScenes /\ DOMAIN everyday = 1 .. EverydayScenes
  <2>1. Len(everyday) = EverydayScenes /\ DOMAIN everyday = 1 .. EverydayScenes
        /\ everyday = [i \in 1 .. EverydayScenes |-> everyday[i]]
    BY SceneTable DEF everyday
  <2> HIDE DEF T
  <2> QED BY <2>1, <1>5, SceneTable
<1>7. es = work \o everyday
  BY WorkOnlyKeepsTable DEF enrich_scenes
<1> HIDE DEF es, T
<1>8. /\ es \in Seq(T) /\ Len(es) = W + EverydayScenes
      /\ \A i \in 1 .. W : es[i] = work[i]
      /\ \A i \in W + 1 .. W + EverydayScenes : es[i] = everyday[i - W]
  <2> HIDE DEF work
  <2>1. /\ Len(work \o everyday) = Len(work) + Len(everyday)
        /\ \A i \in 1 .. Len(work) + Len(everyday) :
             (work \o everyday)[i] = IF i <= Len(work) THEN work[i] ELSE everyday[i - Len(work)]
    BY <1>4, <1>6, ConcatProperties
  <2> QED BY <2>1, <1>4, <1>6, <1>7, ConcatProperties, SceneTable
<1>9. Len(es) = AllRows /\ DOMAIN es = 1 .. AllRows
  BY <1>8 DEF AllRows
<1>10. ASSUME NEW i \in 1 .. AllRows PROVE es[i] \in SceneAt(i)
  <2>1. CASE i \in 1 .. W
    BY <2>1, <1>3, <1>8
  <2>2. CASE i \notin 1 .. W
    <3>1. i - W \in 1 .. EverydayScenes /\ W + (i - W) = i /\ i \in W + 1 .. W + EverydayScenes
      BY <2>2, SceneTable DEF AllRows
    <3>2. everyday[i - W] \in SceneAt(W + (i - W))
      BY <3>1, <1>5
    <3> QED BY <3>1, <3>2, <1>8
  <2> QED BY <2>1, <2>2
<1>11. ScenesInv(es)
  BY <1>9, <1>10 DEF ScenesInv
<1> QED BY <1>11 DEF es

-----------------------------------------------------------------------------
(* Whatever was run or killed, a file is cut short or holds what the        *)
(* scripts keep, and the sequence run through says which scripts made it.   *)
FilesSound(l, s, q) ==
  /\ l = Cut \/ \E ls : l = File(ls) /\ LessonsInv(ls)
  /\ s = Cut \/ \E ss : s = File(ss) /\ ScenesInv(ss)
  /\ q = 1 => l = File(build_lessons) /\ s = File(build_scenes)
  /\ q = 2 => l = File(Enriched) /\ s = File(enrich_scenes(build_scenes))
  /\ q = 3 => l = File(Core) /\ s = File(CoreScenes)
ContentInv == FilesSound(lessons, scenarios, sequence)

LEMMA FileFields ==
  ASSUME NEW r
  PROVE  File(r).whole = TRUE /\ File(r).rows = r /\ Cut.whole = FALSE /\ File(r) # Cut
BY DEF File, Cut

LEMMA ContentInitInv ==
  ASSUME ContentInit
  PROVE  ContentInv
<1>1. lessons = File(Core) /\ scenarios = File(CoreScenes) /\ sequence = 3
  BY DEF ContentInit
<1>2. LessonsInv(Core) /\ ScenesInv(CoreScenes)
  BY CoreLessons, BuildScenes, EnrichScenes, RefineScenes DEF CoreScenes
<1> QED BY <1>1, <1>2 DEF ContentInv, FilesSound

(* A script that writes such files, run through or killed at either.        *)
LEMMA WriteKeeps ==
  ASSUME ContentInv, NEW ls, NEW ss, NEW p \in 1 .. 3, Write(ls, ss, p),
         LessonsInv(ls), ScenesInv(ss),
         p = 1 => ls = build_lessons /\ ss = build_scenes,
         p = 2 /\ sequence = 1 => ls = Enriched /\ ss = enrich_scenes(build_scenes),
         p = 3 /\ sequence = 2 => ls = Core /\ ss = CoreScenes
  PROVE  ContentInv'
<1>1. FilesSound(lessons, scenarios, sequence)
  BY DEF ContentInv
<1>2. CASE lessons' = File(ls) /\ scenarios' = File(ss)
           /\ sequence' = IF sequence = p - 1 \/ p = 1 THEN p ELSE 0
  <2>1. /\ \E x : lessons' = File(x) /\ LessonsInv(x)
        /\ \E x : scenarios' = File(x) /\ ScenesInv(x)
    BY <1>2
  <2>2. CASE p = 1
    <3>1. sequence' = 1
      BY <1>2, <2>2
    <3>2. lessons' = File(build_lessons) /\ scenarios' = File(build_scenes)
      BY <1>2, <2>2
    <3>4. sequence' # 2 /\ sequence' # 3
      BY <3>1
    <3>3. FilesSound(lessons', scenarios', sequence')
      BY <2>1, <3>2, <3>4, Zenon DEF FilesSound
    <3> QED BY <3>3 DEF ContentInv
  <2>3. CASE p = 2
    <3>1. sequence' = 0 \/ (sequence' = 2 /\ sequence = 1)
      BY <1>2, <2>3
    <3>2. sequence' = 2 => lessons' = File(Enriched) /\ scenarios' = File(enrich_scenes(build_scenes))
      BY <1>2, <2>3, <3>1
    <3>3. FilesSound(lessons', scenarios', sequence')
      BY <2>1, <3>1, <3>2 DEF FilesSound
    <3> QED BY <3>3 DEF ContentInv
  <2>4. CASE p = 3
    <3>1. sequence' = 0 \/ (sequence' = 3 /\ sequence = 2)
      BY <1>2, <2>4
    <3>2. sequence' = 3 => lessons' = File(Core) /\ scenarios' = File(CoreScenes)
      BY <1>2, <2>4, <3>1
    <3>3. FilesSound(lessons', scenarios', sequence')
      BY <2>1, <3>1, <3>2 DEF FilesSound
    <3> QED BY <3>3 DEF ContentInv
  <2> QED BY <2>2, <2>3, <2>4
<1>3. CASE lessons' = Cut /\ scenarios' = scenarios /\ sequence' = 0
  <2>1. FilesSound(lessons', scenarios', sequence')
    BY <1>1, <1>3 DEF FilesSound
  <2> QED BY <2>1 DEF ContentInv
<1>4. CASE lessons' = File(ls) /\ scenarios' \in {Cut, scenarios} /\ sequence' = 0
  <2>1. \E x : lessons' = File(x) /\ LessonsInv(x)
    BY <1>4
  <2>2. FilesSound(lessons', scenarios', sequence')
    BY <1>1, <1>4, <2>1 DEF FilesSound
  <2> QED BY <2>2 DEF ContentInv
<1> QED BY <1>2, <1>3, <1>4 DEF Write

LEMMA ContentScriptInv ==
  ASSUME ContentInv, ContentScript
  PROVE  ContentInv'
<1>1. FilesSound(lessons, scenarios, sequence)
  BY DEF ContentInv
<1>2. CASE BuildContent
  <2>1. Write(build_lessons, build_scenes, 1)
    BY <1>2 DEF BuildContent
  <2> QED BY <2>1, BuildLessons, BuildScenes, WriteKeeps
<1>3. ASSUME Readable
      PROVE  \E ls, ss : /\ lessons = File(ls) /\ LessonsInv(ls) /\ lessons.rows = ls
                         /\ scenarios = File(ss) /\ ScenesInv(ss) /\ scenarios.rows = ss
  <2>1. lessons # Cut /\ scenarios # Cut
    BY <1>3 DEF Readable, Cut
  <2>2. PICK ls : lessons = File(ls) /\ LessonsInv(ls)
    BY <1>1, <2>1 DEF FilesSound
  <2>3. PICK ss : scenarios = File(ss) /\ ScenesInv(ss)
    BY <1>1, <2>1 DEF FilesSound
  <2> QED BY <2>2, <2>3, FileFields
<1>4. CASE EnrichContent
  <2>1. Readable /\ Write(enrich_lessons(lessons.rows), enrich_scenes(scenarios.rows), 2)
    BY <1>4 DEF EnrichContent
  <2>2. PICK ls, ss : /\ lessons = File(ls) /\ LessonsInv(ls) /\ lessons.rows = ls
                      /\ scenarios = File(ss) /\ ScenesInv(ss) /\ scenarios.rows = ss
    BY <1>3, <2>1
  <2>3. sequence = 1 => ls = build_lessons /\ ss = build_scenes
    BY <1>1, <2>2, FileFields DEF FilesSound
  <2>4. LessonsInv(enrich_lessons(ls)) /\ ScenesInv(enrich_scenes(ss))
    BY <2>2, EnrichKeeps, EnrichScenes
  <2>5. Write(enrich_lessons(ls), enrich_scenes(ss), 2)
    BY <2>1, <2>2
  <2>6. sequence = 1 => enrich_lessons(ls) = Enriched /\ enrich_scenes(ss) = enrich_scenes(build_scenes)
    BY <2>3 DEF Enriched
  <2> QED BY <2>4, <2>5, <2>6, WriteKeeps
<1>5. CASE RefineContent
  <2>1. /\ Readable /\ Refinable(lessons.rows, scenarios.rows)
        /\ Write(refine_lessons(lessons.rows), refine_scenes(scenarios.rows), 3)
    BY <1>5 DEF RefineContent
  <2>2. PICK ls, ss : /\ lessons = File(ls) /\ LessonsInv(ls) /\ lessons.rows = ls
                      /\ scenarios = File(ss) /\ ScenesInv(ss) /\ scenarios.rows = ss
    BY <1>3, <2>1
  <2>3. sequence = 2 => ls = Enriched /\ ss = enrich_scenes(build_scenes)
    BY <1>1, <2>2, FileFields DEF FilesSound
  <2>4. \A n \in 1 .. NL : ls[n].assessment # {}
    BY <2>1, <2>2 DEF Refinable, LessonsInv
  <2>5. LessonsInv(refine_lessons(ls)) /\ ScenesInv(refine_scenes(ss))
    BY <2>2, <2>4, RefineKeeps, RefineScenes
  <2>6. Write(refine_lessons(ls), refine_scenes(ss), 3)
    BY <2>1, <2>2
  <2>7. sequence = 2 => refine_lessons(ls) = Core /\ refine_scenes(ss) = CoreScenes
    BY <2>3 DEF Core, CoreScenes
  <2> QED BY <2>5, <2>6, <2>7, WriteKeeps
<1>6. CASE ScriptStops
  <2>1. lessons' = lessons /\ scenarios' = scenarios /\ sequence' = 0
    BY <1>6 DEF ScriptStops
  <2>2. FilesSound(lessons', scenarios', sequence')
    BY <1>1, <2>1 DEF FilesSound
  <2> QED BY <2>2 DEF ContentInv
<1> QED BY <1>2, <1>4, <1>5, <1>6 DEF ContentScript

LEMMA ContentIsSound ==
  ASSUME ContentInv
  PROVE  ContentSound
<1>1. FilesSound(lessons, scenarios, sequence)
  BY DEF ContentInv
<1>2. Rebuilt
  BY <1>1 DEF FilesSound, Rebuilt
<1>3. ScenesOnce
  <2> SUFFICES ASSUME scenarios.whole
               PROVE  /\ Cardinality(Ids(scenarios.rows)) = Len(scenarios.rows)
                      /\ \A i \in DOMAIN scenarios.rows :
                           scenarios.rows[i].category = "Everyday" => TestScenarioCoverage(scenarios.rows)
    BY DEF ScenesOnce
  <2>1. scenarios # Cut
    BY DEF Cut
  <2>2. PICK ss : scenarios = File(ss) /\ ScenesInv(ss)
    BY <1>1, <2>1 DEF FilesSound
  <2>3. scenarios.rows = ss
    BY <2>2, FileFields
  <2> QED BY <2>2, <2>3, ScenesKnownOnce, ScenesCovered
<1>4. RefinedIsEnriched
  <2> SUFFICES ASSUME lessons.whole
               PROVE  \A n \in DOMAIN lessons.rows :
                        LET l == lessons.rows[n]
                        IN l.version = 3 =>
                             /\ l.timed /\ l.notes = 1 /\ l.worded = "refine" /\ l.assessment = {Closes(l)}
                             /\ Len(l.bridges) > 0 <=> Closes(l)
                             /\ \A b \in DOMAIN l.bridges : l.bridges[b] = Others(lessons.rows, l)
    BY DEF RefinedIsEnriched
  <2>1. lessons # Cut
    BY DEF Cut
  <2>2. PICK ls : lessons = File(ls) /\ LessonsInv(ls)
    BY <1>1, <2>1 DEF FilesSound
  <2>3. lessons.rows = ls
    BY <2>2, FileFields
  <2> QED BY <2>2, <2>3, LessonsRefined
<1> QED BY <1>2, <1>3, <1>4 DEF ContentSound

-----------------------------------------------------------------------------
(* The lessons of both files.                                               *)
LEMMA LessonsAreSequence ==
  ASSUME NEW ls, LessonsInv(ls)
  PROVE  ls \in Seq(AnyLesson) /\ Len(ls) = NL /\ DOMAIN ls = 1 .. NL
<1>1. ls \in [1 .. NL -> AnyLesson] /\ NL \in Nat
  BY CoreUnitsTable DEF LessonsInv
<1> HIDE DEF AnyLesson
<1> QED BY <1>1

LEMMA CoreLength == Len(Core) = NL /\ NL \in Nat
BY CoreLessons, LessonsAreSequence, CoreUnitsTable

(* A core lesson comes first, then those of the expansion in their order.   *)
LEMMA BothFiles ==
  ASSUME NEW ls, LessonsInv(ls), NEW b, Len(b) \in Nat, b \in Seq(Range(b))
  PROVE  /\ Len(ls \o b) = NL + Len(b) /\ DOMAIN (ls \o b) = 1 .. NL + Len(b)
         /\ \A i \in 1 .. NL + Len(b) : (ls \o b)[i] = IF i <= NL THEN ls[i] ELSE b[i - NL]
         /\ \A i \in 1 .. NL + Len(b) : ~(i <= NL) => i - NL \in 1 .. Len(b)
<1> DEFINE T == AnyLesson \cup Range(b)
<1>1. ls \in Seq(AnyLesson) /\ Len(ls) = NL /\ NL \in Nat
  BY LessonsAreSequence, CoreUnitsTable
<1>2. ls \in Seq(T) /\ b \in Seq(T)
  <2> DEFINE A == AnyLesson
             R == Range(b)
  <2>1. ls \in Seq(A) /\ b \in Seq(R) /\ A \subseteq T /\ R \subseteq T
    BY <1>1
  <2> HIDE DEF A, R, T
  <2> QED BY <2>1, SeqMonotonic
<1> HIDE DEF T
<1>3. /\ ls \o b \in Seq(T) /\ Len(ls \o b) = Len(ls) + Len(b)
      /\ \A i \in 1 .. Len(ls) + Len(b) :
           (ls \o b)[i] = IF i <= Len(ls) THEN ls[i] ELSE b[i - Len(ls)]
  BY <1>2, ConcatProperties
<1>4. DOMAIN (ls \o b) = 1 .. Len(ls) + Len(b)
  BY <1>3
<1> QED BY <1>1, <1>3, <1>4

LEMMA BuildIsSequence ==
  ASSUME NEW e \in Editions
  PROVE  /\ build(e) \in Seq(Range(build(e))) /\ Len(build(e)) \in Nat
         /\ DOMAIN build(e) = 1 .. Len(build(e))
<1> DEFINE n == PerUnit * Len(Units(e))
           b == build(e)
<1>1. n \in Nat
  BY UnitsOfEdition, ContentAssumption
<1>2. b = [i \in 1 .. n |-> b[i]]
  BY <1>1 DEF build
<1> HIDE DEF n, b
<1>3. \A i \in 1 .. n : b[i] \in Range(b)
  BY <1>2 DEF Range
<1>4. b \in Seq(Range(b))
  BY <1>1, <1>2, <1>3
<1> QED BY <1>4, BuildMakes DEF b

LEMMA DisjointUnion ==
  ASSUME NEW S, NEW T, IsFiniteSet(S), IsFiniteSet(T), S \cap T = {}
  PROVE  Cardinality(S \cup T) = Cardinality(S) + Cardinality(T)
<1>1. Cardinality(S) \in Nat /\ Cardinality(T) \in Nat /\ Cardinality(S \cap T) = 0
  BY FS_CardinalityType, FS_EmptySet
<1>2. Cardinality(S \cup T) = Cardinality(S) + Cardinality(T) - Cardinality(S \cap T)
  BY FS_Union
<1> QED BY <1>1, <1>2

LEMMA Shifted ==
  ASSUME NEW n \in Nat, NEW k \in Nat, NEW S \in SUBSET (1 .. n)
  PROVE  /\ IsFiniteSet(S) /\ IsFiniteSet({k + j : j \in S})
         /\ Cardinality({k + j : j \in S}) = Cardinality(S)
<1> DEFINE T == {k + j : j \in S}
           f == [j \in S |-> k + j]
<1>1. IsFiniteSet(S)
  <2>1. IsFiniteSet(1 .. n)
    BY FS_Interval
  <2> QED BY <2>1, FS_Subset
<1>2. f \in Bijection(S, T)
  <2>1. f \in [S -> T] /\ \A y \in T : \E j \in S : f[j] = y
    OBVIOUS
  <2>2. \A i, j \in S : f[i] = f[j] => i = j
    OBVIOUS
  <2> HIDE DEF f, T
  <2> QED BY <2>1, <2>2 DEF Bijection, Injection, IsInjective, Surjection
<1> HIDE DEF f, T
<1>3. ExistsBijection(S, T)
  BY <1>2 DEF ExistsBijection
<1>4. IsFiniteSet(T) /\ Cardinality(T) = Cardinality(S)
  BY <1>1, <1>3, FS_Bijection
<1> QED BY <1>1, <1>4 DEF T

(* Every lesson of a level is of the core, practical or about grammar.      *)
LEMMA LevelCounts ==
  ASSUME NEW ls, LessonsInv(ls), NEW e \in Editions, validate(build(e), e.want), NEW level \in Levels
  PROVE  Cardinality({i \in DOMAIN (ls \o build(e)) : (ls \o build(e))[i].level = level})
           = Cardinality({i \in DOMAIN Core : Core[i].level = level})
             + e.want[level, "practical"] + e.want[level, "grammar"]
<1> DEFINE b == build(e)
           n == Len(b)
           c == ls \o b
           A == {i \in 1 .. NL : Built(i).level = level}
           P == {i \in DOMAIN b : b[i].level = level /\ Kind(b[i]) = "practical"}
           G == {i \in DOMAIN b : b[i].level = level /\ Kind(b[i]) = "grammar"}
           B == {i \in 1 .. n : b[i].level = level}
           S == {NL + j : j \in B}
<1>1. /\ NL \in Nat /\ n \in Nat /\ DOMAIN b = 1 .. n
      /\ DOMAIN c = 1 .. NL + n
      /\ \A i \in 1 .. NL + n : c[i] = IF i <= NL THEN ls[i] ELSE b[i - NL]
      /\ \A i \in 1 .. NL + n : ~(i <= NL) => i - NL \in 1 .. n
  BY BuildIsSequence, BothFiles, CoreUnitsTable
<1>2. \A i \in 1 .. NL : ls[i].level = Built(i).level /\ Core[i].level = Built(i).level
  BY LessonKnown, CoreLessons
<1>3. {i \in DOMAIN Core : Core[i].level = level} = A
  <2>1. DOMAIN Core = 1 .. NL
    BY CoreLessons, LessonsAreSequence
  <2> QED BY <2>1, <1>2
<1>4. Cardinality(P) = e.want[level, "practical"] /\ Cardinality(G) = e.want[level, "grammar"]
  <2>1. \A kind \in {"practical", "grammar"} : Count(b, level, kind) = e.want[level, kind]
    BY DEF validate
  <2> QED BY <2>1 DEF Count
<1>5. B = P \cup G /\ P \cap G = {}
  <2>1. \A i \in 1 .. n : Kind(b[i]) \in {"practical", "grammar"}
    BY <1>1, BuildMakes
  <2> QED BY <1>1, <2>1
<1> HIDE DEF c, b, n
<1>6. {i \in DOMAIN c : c[i].level = level} = A \cup S
  <2>1. ASSUME NEW i \in DOMAIN c, c[i].level = level PROVE i \in A \cup S
    <3>1. CASE i <= NL
      <4>1. i \in 1 .. NL /\ c[i] = ls[i]
        BY <1>1, <3>1
      <4> QED BY <4>1, <1>2, <2>1
    <3>2. CASE ~(i <= NL)
      <4>1. i - NL \in 1 .. n /\ c[i] = b[i - NL] /\ i = NL + (i - NL)
        BY <1>1, <3>2
      <4>2. i - NL \in B
        BY <4>1, <2>1
      <4> HIDE DEF B
      <4> QED BY <4>1, <4>2
    <3> QED BY <3>1, <3>2
  <2>2. ASSUME NEW i \in A PROVE i \in DOMAIN c /\ c[i].level = level
    <3>1. i \in 1 .. NL + n /\ i <= NL /\ i \in 1 .. NL
      BY <1>1
    <3> QED BY <1>1, <1>2, <3>1
  <2>3. ASSUME NEW i \in S PROVE i \in DOMAIN c /\ c[i].level = level
    <3>1. PICK j \in B : i = NL + j
      OBVIOUS
    <3>2. i \in 1 .. NL + n /\ ~(i <= NL) /\ i - NL = j
      BY <1>1, <3>1
    <3>3. c[i] = b[j]
      BY <1>1, <3>2
    <3> QED BY <1>1, <3>1, <3>2, <3>3
  <2> HIDE DEF A, S
  <2> QED BY <2>1, <2>2, <2>3
<1>7. IsFiniteSet(A) /\ Cardinality(A) \in Nat
  <2>1. IsFiniteSet(1 .. NL) /\ A \in SUBSET (1 .. NL)
    BY <1>1, FS_Interval
  <2> HIDE DEF A
  <2> QED BY <2>1, FS_Subset, FS_CardinalityType
<1>8. IsFiniteSet(S) /\ Cardinality(S) = Cardinality(B)
  <2>1. B \in SUBSET (1 .. n)
    OBVIOUS
  <2> HIDE DEF B
  <2> QED BY <1>1, <2>1, Shifted
<1>9. /\ IsFiniteSet(P) /\ IsFiniteSet(G) /\ Cardinality(P) \in Nat /\ Cardinality(G) \in Nat
  <2>1. IsFiniteSet(1 .. n) /\ P \in SUBSET (1 .. n) /\ G \in SUBSET (1 .. n)
    BY <1>1, FS_Interval
  <2> HIDE DEF P, G
  <2> QED BY <2>1, FS_Subset, FS_CardinalityType
<1>10. A \cap S = {}
  BY <1>1
<1> HIDE DEF A, B, P, G, S
<1>11. Cardinality(B) = Cardinality(P) + Cardinality(G)
  BY <1>5, <1>9, DisjointUnion
<1>12. Cardinality(A \cup S) = Cardinality(A) + Cardinality(S)
  BY <1>7, <1>8, <1>10, DisjointUnion
<1>13. Cardinality({i \in DOMAIN c : c[i].level = level})
         = Cardinality(A) + Cardinality(P) + Cardinality(G)
  <2>1. Cardinality({i \in DOMAIN c : c[i].level = level}) = Cardinality(A) + (Cardinality(P) + Cardinality(G))
    BY <1>6, <1>8, <1>11, <1>12
  <2> QED BY <2>1, <1>7, <1>9
<1>14. Cardinality({i \in DOMAIN c : c[i].level = level})
         = Cardinality({i \in DOMAIN Core : Core[i].level = level})
           + e.want[level, "practical"] + e.want[level, "grammar"]
  BY <1>3, <1>4, <1>13
<1> QED BY <1>14 DEF c, b

LEMMA ExpansionTested ==
  ASSUME NEW ls, LessonsInv(ls), NEW e \in Editions, validate(build(e), e.want)
  PROVE  /\ TestCompleteCurriculum(ls \o build(e), e.want)
         /\ Len(ls \o build(e)) = NL + Len(build(e)) /\ DOMAIN (ls \o build(e)) = 1 .. Len(ls \o build(e))
         /\ Len(ls \o build(e)) \in Nat
         /\ \A i \in DOMAIN (ls \o build(e)) : (ls \o build(e))[i].ordinal = i
<1> DEFINE b == build(e)
           n == Len(b)
           c == ls \o b
<1>1. /\ NL \in Nat /\ n \in Nat /\ DOMAIN b = 1 .. n
      /\ DOMAIN c = 1 .. NL + n /\ Len(c) = NL + n
      /\ \A i \in 1 .. NL + n : c[i] = IF i <= NL THEN ls[i] ELSE b[i - NL]
      /\ \A i \in 1 .. NL + n : ~(i <= NL) => i - NL \in 1 .. n
  BY BuildIsSequence, BothFiles, CoreUnitsTable
<1>2. /\ Distinct(b)
      /\ \A i \in 1 .. n : /\ b[i].ordinal = NL + i /\ ~b[i].empty /\ b[i].words \in 2 .. 4
                           /\ b[i].drills = 4
                           /\ \A m : b[i].id # <<"lesson", m>>
  <2>1. \A i \in 1 .. n : \A m : b[i].id # <<"lesson", m>>
    BY <1>1, BuildMakes
  <2> QED BY <1>1, <2>1, CoreLength DEF validate
<1>3. \A i \in 1 .. NL : /\ ls[i].id = <<"lesson", i>> /\ ls[i].ordinal = i /\ ls[i].empty = FALSE
                         /\ ls[i].words \in {1, 2} /\ ls[i].drills = 4
  BY LessonKnown
<1>4. \A level \in Levels :
        Cardinality({i \in DOMAIN c : c[i].level = level})
          = Cardinality({i \in DOMAIN Core : Core[i].level = level})
            + e.want[level, "practical"] + e.want[level, "grammar"]
  BY LevelCounts
<1> HIDE DEF c, b, n
<1>5. Distinct(c)
  <2> SUFFICES ASSUME NEW i \in 1 .. NL + n, NEW j \in 1 .. NL + n, c[i].id = c[j].id PROVE i = j
    BY <1>1 DEF Distinct
  <2>1. CASE i <= NL /\ j <= NL
    <3>1. i \in 1 .. NL /\ j \in 1 .. NL /\ c[i] = ls[i] /\ c[j] = ls[j]
      BY <1>1, <2>1
    <3>2. c[i].id = <<"lesson", i>> /\ c[j].id = <<"lesson", j>>
      BY <1>3, <3>1
    <3>3. <<"lesson", i>> = <<"lesson", j>>
      BY <3>2
    <3> QED BY <3>3
  <2>2. CASE i <= NL /\ ~(j <= NL)
    <3>1. i \in 1 .. NL /\ j - NL \in 1 .. n /\ c[i] = ls[i] /\ c[j] = b[j - NL]
      BY <1>1, <2>2
    <3>2. c[i].id = <<"lesson", i>> /\ c[j].id # <<"lesson", i>>
      BY <1>2, <1>3, <3>1
    <3> QED BY <3>2
  <2>3. CASE ~(i <= NL) /\ j <= NL
    <3>1. j \in 1 .. NL /\ i - NL \in 1 .. n /\ c[j] = ls[j] /\ c[i] = b[i - NL]
      BY <1>1, <2>3
    <3>2. c[j].id = <<"lesson", j>> /\ c[i].id # <<"lesson", j>>
      BY <1>2, <1>3, <3>1
    <3> QED BY <3>2
  <2>4. CASE ~(i <= NL) /\ ~(j <= NL)
    <3>1. i - NL \in 1 .. n /\ j - NL \in 1 .. n /\ c[i] = b[i - NL] /\ c[j] = b[j - NL]
      BY <1>1, <2>4
    <3>2. i - NL = j - NL
      BY <1>1, <1>2, <3>1 DEF Distinct
    <3> QED BY <1>1, <3>2
  <2> QED BY <2>1, <2>2, <2>3, <2>4
<1>6. ASSUME NEW i \in 1 .. NL + n
      PROVE  ~c[i].empty /\ c[i].words > 0 /\ c[i].drills = 4 /\ c[i].ordinal = i
  <2>1. CASE i <= NL
    <3>1. i \in 1 .. NL /\ c[i] = ls[i]
      BY <1>1, <2>1
    <3> QED BY <1>3, <3>1
  <2>2. CASE ~(i <= NL)
    <3>1. i - NL \in 1 .. n /\ c[i] = b[i - NL] /\ NL + (i - NL) = i
      BY <1>1, <2>2
    <3> QED BY <1>2, <3>1
  <2> QED BY <2>1, <2>2
<1>7. TestCompleteCurriculum(c, e.want)
  BY <1>1, <1>4, <1>5, <1>6 DEF TestCompleteCurriculum
<1>8. Len(c) \in Nat /\ DOMAIN c = 1 .. Len(c) /\ \A i \in DOMAIN c : c[i].ordinal = i
  BY <1>1, <1>6
<1> QED BY <1>1, <1>7, <1>8 DEF c, n, b

LEMMA ReleaseNumbered ==
  ASSUME NEW e \in Editions, validate(build(e), e.want)
  PROVE  Numbered(Core \o build(e))
<1>1. Distinct(Core \o build(e))
  BY CoreLessons, ExpansionTested DEF TestCompleteCurriculum
<1> QED BY <1>1, CoreLessons, ExpansionTested DEF Numbered

-----------------------------------------------------------------------------
(* The releases and the table.  What a release that has started embeds      *)
(* keeps its place in the table whatever starts later, and the release that *)
(* runs finds its texts there until another has started.                    *)
KeptIn(t, ls) == \A i \in DOMAIN ls : ls[i].id \in DOMAIN t /\ t[ls[i].id].ordinal = i
ReadIn(t, ls) ==
  \A i \in DOMAIN ls :
    ls[i].id \in DOMAIN t /\ t[ls[i].id] = [ordinal |-> ls[i].ordinal, text |-> ls[i].text]
Embedded(f) == Core \o f.lessons

ReleasesInv ==
  /\ images \in Seq(Files \cup {Torn})
  /\ expansion \in Files \cup {None, Torn}
  /\ started \subseteq DOMAIN images
HostInv ==
  /\ live \in {0} \cup DOMAIN images /\ previous \in {0} \cup DOMAIN images
  /\ running \in BOOLEAN /\ meddled \in BOOLEAN
  /\ running => live \in DOMAIN images
  /\ place = "candidate" => trying \in DOMAIN images
  /\ place = "switch" => trying \in started
  /\ place \in {"switch", "restore"} => ~running
KeptInv == \A n \in started : images[n].whole /\ KeptIn(rows, Embedded(images[n]))
ReadInv == running /\ ~meddled => ReadIn(rows, Embedded(images[live]))

CurriculumIInv ==
  ContentInv /\ ReleasesInv /\ HostInv /\ TableInv(rows) /\ KeptInv /\ ReadInv

LEMMA WholeRelease ==
  ASSUME NEW f \in Files \cup {Torn}, f.whole
  PROVE  Numbered(Embedded(f)) /\ f \in Files
<1>1. f # Torn
  BY DEF Torn
<1>2. PICK e \in {x \in Editions : Parsed(x) /\ validate(build(x), x.want)} :
        f = [whole |-> TRUE, lessons |-> build(e), want |-> e.want]
  BY <1>1 DEF Files
<1>3. f.lessons = build(e) /\ e \in Editions /\ validate(build(e), e.want)
  BY <1>2
<1> QED BY <1>1, <1>3, ReleaseNumbered DEF Embedded

(* The start of a process: refused, or all that has started keeps its place *)
(* in the table and the process finds its lessons there.                    *)
LEMMA StartOutcome ==
  ASSUME NEW n \in DOMAIN images, images[n] \in Files \cup {Torn}, TableInv(rows)
  PROVE  /\ Starts(n) \in BOOLEAN
         /\ images[n].whole => Starts(n) <=> Agrees(n)
         /\ Start(n) =>
              /\ TableInv(rows')
              /\ started' = IF Starts(n) THEN started \cup {n} ELSE started
              /\ \A id \in DOMAIN rows : id \in DOMAIN rows' /\ rows'[id].ordinal = rows[id].ordinal
              /\ ~Starts(n) => rows' = rows
              /\ Starts(n) => /\ images[n].whole
                              /\ KeptIn(rows', Embedded(images[n]))
                              /\ ReadIn(rows', Embedded(images[n]))
<1> DEFINE ls == Embedded(images[n])
           k == Len(ls)
           s == Seeding(ls)[k]
<1>1. Lessons(n) = ls /\ Seeded(n) = s
  BY DEF Lessons, Embedded, Seeded
<1>2. images[n].whole => Numbered(ls)
  BY WholeRelease
<1>3. images[n].whole =>
        /\ s.ok <=> AgreeUpTo(k, ls)
        /\ s.ok => /\ Written(s.table, k, ls) /\ TableInv(s.table)
                   /\ \A id \in DOMAIN rows : s.table[id].ordinal = rows[id].ordinal
  BY <1>2, SeedingOutcome
<1>4. Starts(n) <=> images[n].whole /\ s.ok
  BY <1>1 DEF Starts
<1>5. images[n].whole => AgreeUpTo(k, ls) <=> Agrees(n)
  BY <1>1, <1>2 DEF Agrees, AgreeUpTo, Numbered
<1> HIDE DEF s, ls
<1>6. ASSUME Start(n), ~Starts(n)
      PROVE  rows' = rows /\ started' = started
  BY <1>6 DEF Start
<1>7. ASSUME Start(n), Starts(n)
      PROVE  /\ TableInv(rows') /\ started' = started \cup {n}
             /\ \A id \in DOMAIN rows : id \in DOMAIN rows' /\ rows'[id].ordinal = rows[id].ordinal
             /\ images[n].whole /\ KeptIn(rows', ls) /\ ReadIn(rows', ls)
  <2>1. rows' = s.table /\ started' = started \cup {n}
    BY <1>7, <1>1 DEF Start
  <2>2. /\ images[n].whole /\ Numbered(ls) /\ Written(s.table, k, ls) /\ TableInv(s.table)
        /\ \A id \in DOMAIN rows : s.table[id].ordinal = rows[id].ordinal
    BY <1>2, <1>3, <1>4, <1>7
  <2> DEFINE t == s.table
  <2> HIDE DEF t
  <2>3. rows' = t /\ Written(t, k, ls) /\ TableInv(t)
        /\ \A id \in DOMAIN rows : t[id].ordinal = rows[id].ordinal
    BY <2>1, <2>2 DEF t
  <2>4. \A i \in DOMAIN ls : /\ ls[i].id \in DOMAIN t /\ ls[i].ordinal = i
                             /\ t[ls[i].id] = [ordinal |-> i, text |-> ls[i].text]
    BY <2>2, <2>3 DEF Written, FirstIds, Numbered
  <2>5. KeptIn(t, ls) /\ ReadIn(t, ls)
    <3>1. \A i \in DOMAIN ls : t[ls[i].id].ordinal = i
      <4> TAKE i \in DOMAIN ls
      <4>1. t[ls[i].id] = [ordinal |-> i, text |-> ls[i].text]
        BY <2>4
      <4> QED BY <4>1
    <3>2. KeptIn(t, ls)
      BY <2>4, <3>1 DEF KeptIn
    <3>3. \A i \in DOMAIN ls :
            /\ ls[i].id \in DOMAIN t
            /\ t[ls[i].id] = [ordinal |-> ls[i].ordinal, text |-> ls[i].text]
      <4> TAKE i \in DOMAIN ls
      <4>1. ls[i].ordinal = i
        BY <2>4
      <4>2. [ordinal |-> i, text |-> ls[i].text] = [ordinal |-> ls[i].ordinal, text |-> ls[i].text]
        BY <4>1
      <4> QED BY <2>4, <4>2
    <3> QED BY <3>2, <3>3 DEF ReadIn
  <2>6. \A id \in DOMAIN rows : id \in DOMAIN t
    BY <2>3 DEF Written
  <2> QED BY <2>1, <2>2, <2>3, <2>5, <2>6
<1>8. Starts(n) \in BOOLEAN
  BY DEF Starts
<1>9. Start(n) => /\ TableInv(rows')
                  /\ \A id \in DOMAIN rows : id \in DOMAIN rows' /\ rows'[id].ordinal = rows[id].ordinal
  <2>1. CASE Starts(n)
    BY <2>1, <1>7
  <2>2. CASE ~Starts(n)
    <3>1. Start(n) => rows' = rows
      BY <2>2, <1>6
    <3>2. Start(n) => TableInv(rows')
      BY <3>1
    <3> QED BY <3>1, <3>2
  <2> QED BY <2>1, <2>2
<1> QED BY <1>3, <1>4, <1>5, <1>6, <1>7, <1>8, <1>9 DEF ls

LEMMA KeptOn ==
  ASSUME NEW t, NEW u, NEW ls, KeptIn(t, ls),
         \A id \in DOMAIN t : id \in DOMAIN u /\ u[id].ordinal = t[id].ordinal
  PROVE  KeptIn(u, ls)
BY DEF KeptIn

(* A step that starts the process of a release, and embeds nothing new.     *)
LEMMA StartKeeps ==
  ASSUME ReleasesInv, TableInv(rows), KeptInv, NEW n \in DOMAIN images, Start(n),
         images' = images, expansion' = expansion
  PROVE  ReleasesInv' /\ TableInv(rows') /\ KeptInv'
<1>1. images[n] \in Files \cup {Torn}
  BY DEF ReleasesInv
<1>2. /\ TableInv(rows')
      /\ started' = IF Starts(n) THEN started \cup {n} ELSE started
      /\ \A id \in DOMAIN rows : id \in DOMAIN rows' /\ rows'[id].ordinal = rows[id].ordinal
      /\ Starts(n) => images[n].whole /\ KeptIn(rows', Embedded(images[n]))
  BY <1>1, StartOutcome
<1>3. \A m \in started' : images'[m].whole /\ KeptIn(rows', Embedded(images'[m]))
  <2> SUFFICES ASSUME NEW m \in started' PROVE images[m].whole /\ KeptIn(rows', Embedded(images[m]))
    OBVIOUS
  <2>1. CASE m \in started
    BY <2>1, <1>2, KeptOn DEF KeptInv
  <2>2. CASE m \notin started
    <3>1. Starts(n) /\ m = n
      BY <2>2, <1>2
    <3> QED BY <3>1, <1>2
  <2> QED BY <2>1, <2>2
<1>4. started' \subseteq DOMAIN images'
  BY <1>2 DEF ReleasesInv
<1> QED BY <1>2, <1>3, <1>4 DEF ReleasesInv, KeptInv

LEMMA CurriculumInitInv ==
  ASSUME Init
  PROVE  CurriculumIInv
<1>1. ContentInv
  BY ContentInitInv DEF Init
<1>2. ReleasesInv /\ KeptInv
  BY DEF Init, ReleasesInv, KeptInv
<1>3. HostInv /\ ReadInv
  BY DEF Init, HostInv, ReadInv
<1>4. TableInv(rows)
  BY DEF Init, TableInv, NoGaps, NoneTwice
<1> QED BY <1>1, <1>2, <1>3, <1>4 DEF CurriculumIInv

LEMMA ContentStays ==
  ASSUME ContentInv, UNCHANGED content
  PROVE  ContentInv'
BY DEF ContentInv, content

(* The steps that start nothing. *)
LEMMA QuietKeeps ==
  ASSUME CurriculumIInv, UNCHANGED <<images, rows, started>>
  PROVE  TableInv(rows') /\ KeptInv' /\ (expansion' \in Files \cup {None, Torn} => ReleasesInv')
<1>1. KeptInv'
  BY DEF CurriculumIInv, KeptInv
<1>2. expansion' \in Files \cup {None, Torn} => ReleasesInv'
  BY DEF CurriculumIInv, ReleasesInv
<1> QED BY <1>1, <1>2 DEF CurriculumIInv

LEMMA CurriculumStepInv ==
  ASSUME CurriculumIInv, [Next]_vars
  PROVE  CurriculumIInv'
<1> USE DEF CurriculumIInv
<1>1. CASE RunContentScript
  <2>1. /\ ContentScript /\ expansion' = expansion /\ images' = images /\ rows' = rows
        /\ UNCHANGED <<live, previous, running, trying, place>> /\ started' = started /\ meddled' = meddled
    BY <1>1 DEF RunContentScript, host
  <2>2. ContentInv'
    BY <2>1, ContentScriptInv
  <2>3. ReleasesInv' /\ TableInv(rows') /\ KeptInv'
    BY <2>1, QuietKeeps DEF ReleasesInv
  <2>4. HostInv' /\ ReadInv'
    BY <2>1 DEF HostInv, ReadInv
  <2> QED BY <2>2, <2>3, <2>4
<1>2. CASE Expand
  <2>1. /\ expansion' \in Files \cup {Torn} /\ UNCHANGED content /\ images' = images /\ rows' = rows
        /\ UNCHANGED <<live, previous, running, trying, place>> /\ started' = started /\ meddled' = meddled
    <3> HIDE DEF CurriculumIInv
    <3> QED BY <1>2 DEF Expand, host
  <2>2. ContentInv'
    BY <2>1, ContentStays
  <2>3. ReleasesInv' /\ TableInv(rows') /\ KeptInv'
    BY <2>1, QuietKeeps
  <2>4. HostInv' /\ ReadInv'
    BY <2>1 DEF HostInv, ReadInv
  <2> QED BY <2>2, <2>3, <2>4
<1>3. CASE BuildImage
  <2>1. /\ expansion # None /\ images' = Append(images, expansion) /\ UNCHANGED content
        /\ expansion' = expansion /\ rows' = rows
        /\ UNCHANGED <<live, previous, running, trying, place>> /\ started' = started /\ meddled' = meddled
    BY <1>3 DEF BuildImage, host
  <2>2. ContentInv'
    BY <2>1, ContentStays
  <2>3. /\ images' \in Seq(Files \cup {Torn}) /\ DOMAIN images \subseteq DOMAIN images'
        /\ \A n \in DOMAIN images : images'[n] = images[n]
    <3> DEFINE T == Files \cup {Torn}
    <3>1. images \in Seq(T) /\ expansion \in T
      BY <2>1 DEF ReleasesInv
    <3> HIDE DEF T
    <3> QED BY <2>1, <3>1, AppendProperties DEF T
  <2>4. ReleasesInv' /\ TableInv(rows')
    BY <2>1, <2>3 DEF ReleasesInv
  <2>5. KeptInv'
    BY <2>1, <2>3 DEF KeptInv, ReleasesInv
  <2>6. HostInv' /\ ReadInv'
    BY <2>1, <2>3 DEF HostInv, ReadInv
  <2> QED BY <2>2, <2>4, <2>5, <2>6
<1>4. CASE CandidateDismissed
  <2>1. /\ UNCHANGED content /\ images' = images /\ expansion' = expansion /\ rows' = rows
        /\ place' = "idle" /\ UNCHANGED <<live, previous, running>>
        /\ started' = started /\ meddled' = meddled
    BY <1>4 DEF CandidateDismissed, files
  <2>2. ContentInv'
    BY <2>1, ContentStays
  <2>3. ReleasesInv' /\ TableInv(rows') /\ KeptInv'
    BY <2>1, QuietKeeps DEF ReleasesInv
  <2>4. HostInv' /\ ReadInv'
    BY <2>1 DEF HostInv, ReadInv
  <2> QED BY <2>2, <2>3, <2>4
<1>5. CASE StopOld
  <2>1. /\ UNCHANGED content /\ images' = images /\ expansion' = expansion /\ rows' = rows
        /\ trying \in started /\ trying' = trying
        /\ place' = "switch" /\ running' = FALSE /\ UNCHANGED <<live, previous>>
        /\ started' = started /\ meddled' = meddled
    BY <1>5 DEF StopOld, files
  <2>2. ContentInv'
    BY <2>1, ContentStays
  <2>3. ReleasesInv' /\ TableInv(rows') /\ KeptInv'
    BY <2>1, QuietKeeps DEF ReleasesInv
  <2>4. HostInv' /\ ReadInv'
    BY <2>1 DEF HostInv, ReadInv
  <2> QED BY <2>2, <2>3, <2>4
<1>6. CASE SwitchFails
  <2>1. /\ UNCHANGED content /\ images' = images /\ expansion' = expansion /\ rows' = rows
        /\ place = "switch" /\ place' = "restore" /\ UNCHANGED <<live, previous, running, trying>>
        /\ started' = started /\ meddled' = meddled
    BY <1>6 DEF SwitchFails, files
  <2>2. ContentInv'
    BY <2>1, ContentStays
  <2>3. ReleasesInv' /\ TableInv(rows') /\ KeptInv'
    BY <2>1, QuietKeeps DEF ReleasesInv
  <2>4. HostInv' /\ ReadInv'
    BY <2>1 DEF HostInv, ReadInv
  <2> QED BY <2>2, <2>3, <2>4
<1>7. ASSUME NEW n \in DOMAIN images, StartCandidate(n) PROVE CurriculumIInv'
  <2>1. /\ UNCHANGED content /\ images' = images /\ expansion' = expansion
        /\ n # live /\ place' = "candidate" /\ trying' = n /\ Start(n)
        /\ meddled' = (meddled \/ (live # 0 /\ Starts(n)))
        /\ UNCHANGED <<live, previous, running>>
    BY <1>7 DEF StartCandidate, files
  <2>2. ContentInv'
    BY <2>1, ContentStays
  <2>3. ReleasesInv' /\ TableInv(rows') /\ KeptInv'
    BY <2>1, StartKeeps
  <2>4. Starts(n) \in BOOLEAN /\ (~Starts(n) => rows' = rows)
    BY <2>1, StartOutcome DEF ReleasesInv
  <2>5. HostInv'
    <3>1. meddled' \in BOOLEAN
      BY <2>1
    <3>2. place' # "switch" /\ place' # "restore" /\ trying' \in DOMAIN images'
      BY <2>1
    <3> QED BY <2>1, <3>1, <3>2 DEF HostInv
  <2>6. ReadInv'
    <3> SUFFICES ASSUME running', ~meddled' PROVE ReadIn(rows', Embedded(images'[live']))
      BY DEF ReadInv
    <3>1. running /\ ~meddled /\ live # 0 /\ ~Starts(n)
      BY <2>1 DEF HostInv, ReleasesInv
    <3> QED BY <2>1, <2>4, <3>1 DEF ReadInv
  <2> QED BY <2>2, <2>3, <2>5, <2>6
<1>8. CASE SwitchTo
  <2>1. /\ UNCHANGED content /\ images' = images /\ expansion' = expansion
        /\ place = "switch" /\ Starts(trying) /\ Start(trying) /\ trying \in DOMAIN images
        /\ \/ /\ place' = "idle" /\ live' = trying /\ previous' = live
              /\ running' = TRUE /\ meddled' = FALSE
           \/ place' = "restore" /\ UNCHANGED <<live, previous, running, meddled>>
    BY <1>8 DEF SwitchTo, files, HostInv, ReleasesInv
  <2>2. ContentInv'
    BY <2>1, ContentStays
  <2>3. ReleasesInv' /\ TableInv(rows') /\ KeptInv'
    BY <2>1, StartKeeps
  <2>4. ReadIn(rows', Embedded(images[trying]))
    BY <2>1, StartOutcome DEF ReleasesInv
  <2>5. HostInv'
    <3>1. CASE place' = "idle" /\ live' = trying /\ previous' = live /\ running' = TRUE /\ meddled' = FALSE
      BY <2>1, <3>1 DEF HostInv
    <3>2. CASE place' = "restore" /\ UNCHANGED <<live, previous, running, meddled>>
      BY <2>1, <3>2 DEF HostInv
    <3> QED BY <2>1, <3>1, <3>2
  <2>6. ReadInv'
    BY <2>1, <2>4 DEF ReadInv, HostInv
  <2> QED BY <2>2, <2>3, <2>5, <2>6
<1>9. ASSUME NEW n \in DOMAIN images, Boot(n), UNCHANGED content, images' = images, expansion' = expansion
      PROVE  /\ ContentInv' /\ ReleasesInv' /\ TableInv(rows') /\ KeptInv' /\ ReadInv'
             /\ live' = n /\ running' \in BOOLEAN /\ meddled' \in BOOLEAN
  <2>1. live' = n /\ running' = Starts(n) /\ Start(n) /\ meddled' = (meddled /\ ~Starts(n))
    BY <1>9 DEF Boot
  <2>2. ContentInv'
    BY <1>9, ContentStays
  <2>3. ReleasesInv' /\ TableInv(rows') /\ KeptInv'
    BY <1>9, <2>1, StartKeeps
  <2>4. Starts(n) \in BOOLEAN /\ (Starts(n) => ReadIn(rows', Embedded(images[n])))
    BY <2>1, StartOutcome DEF ReleasesInv
  <2>5. ReadInv'
    BY <1>9, <2>1, <2>4 DEF ReadInv
  <2> QED BY <2>1, <2>2, <2>3, <2>4, <2>5
<1>10. CASE RestoreOld
  <2>1. /\ UNCHANGED content /\ images' = images /\ expansion' = expansion /\ place = "restore"
        /\ place' = "idle" /\ previous' = previous
        /\ IF live = 0 THEN UNCHANGED <<rows, live, running, started, meddled>> ELSE Boot(live)
    BY <1>10 DEF RestoreOld, files
  <2>2. CASE live = 0
    <3>1. UNCHANGED <<rows, live, running, started, meddled>>
      BY <2>1, <2>2
    <3>2. ContentInv'
      BY <2>1, ContentStays
    <3>3. ReleasesInv' /\ TableInv(rows') /\ KeptInv'
      BY <2>1, <3>1, QuietKeeps DEF ReleasesInv
    <3>4. HostInv' /\ ReadInv'
      BY <2>1, <3>1 DEF HostInv, ReadInv
    <3> QED BY <3>2, <3>3, <3>4
  <2>3. CASE live # 0
    <3>1. live \in DOMAIN images /\ Boot(live)
      BY <2>1, <2>3 DEF HostInv
    <3>2. /\ ContentInv' /\ ReleasesInv' /\ TableInv(rows') /\ KeptInv' /\ ReadInv'
          /\ live' = live /\ running' \in BOOLEAN /\ meddled' \in BOOLEAN
      BY <1>9, <2>1, <3>1
    <3>3. HostInv'
      BY <2>1, <3>1, <3>2 DEF HostInv
    <3> QED BY <3>2, <3>3
  <2> QED BY <2>2, <2>3
<1>11. CASE Restart
  <2>1. /\ UNCHANGED content /\ images' = images /\ expansion' = expansion
        /\ place \in {"idle", "candidate"} /\ place' = place /\ trying' = trying
        /\ previous' = previous /\ running /\ Boot(live) /\ live \in DOMAIN images
    BY <1>11 DEF Restart, files, HostInv
  <2>2. /\ ContentInv' /\ ReleasesInv' /\ TableInv(rows') /\ KeptInv' /\ ReadInv'
        /\ live' = live /\ running' \in BOOLEAN /\ meddled' \in BOOLEAN
    BY <1>9, <2>1
  <2>3. HostInv'
    BY <2>1, <2>2 DEF HostInv
  <2> QED BY <2>2, <2>3
<1>12. CASE RollBack
  <2>1. /\ UNCHANGED content /\ images' = images /\ expansion' = expansion
        /\ place = "idle" /\ place' = place /\ previous' = 0
        /\ Boot(previous) /\ previous \in DOMAIN images
    BY <1>12 DEF RollBack, files, HostInv
  <2>2. /\ ContentInv' /\ ReleasesInv' /\ TableInv(rows') /\ KeptInv' /\ ReadInv'
        /\ live' = previous /\ running' \in BOOLEAN /\ meddled' \in BOOLEAN
    BY <1>9, <2>1
  <2>3. HostInv'
    BY <2>1, <2>2 DEF HostInv
  <2> QED BY <2>2, <2>3
<1>13. CASE UNCHANGED vars
  <2>1. /\ UNCHANGED content /\ images' = images /\ expansion' = expansion /\ rows' = rows
        /\ UNCHANGED <<live, previous, running, trying, place>> /\ started' = started /\ meddled' = meddled
    BY <1>13 DEF vars
  <2>2. ContentInv'
    BY <2>1, ContentStays
  <2>3. ReleasesInv' /\ TableInv(rows') /\ KeptInv'
    BY <2>1, QuietKeeps DEF ReleasesInv
  <2>4. HostInv' /\ ReadInv'
    BY <2>1 DEF HostInv, ReadInv
  <2> QED BY <2>2, <2>3, <2>4
<1> QED BY <1>1, <1>2, <1>3, <1>4, <1>5, <1>6, <1>7, <1>8, <1>10, <1>11, <1>12, <1>13 DEF Next

LEMMA CurriculumInvariant == Spec => []CurriculumIInv
<1>1. Init => CurriculumIInv
  BY CurriculumInitInv
<1>2. CurriculumIInv /\ [Next]_vars => CurriculumIInv'
  BY CurriculumStepInv
<1> QED BY <1>1, <1>2, PTL DEF Spec

(* A release starts exactly if no lesson of it finds its ordinal taken by   *)
(* another, and one that has once started always finds its own free: app.go *)
(* seed, whatever was released, tried, killed or rolled back in between.    *)
THEOREM StartsExactlyIfOrdinalsAgree == Spec => []StartsIffOrdinalsAgree
<1>1. ASSUME CurriculumIInv PROVE StartsIffOrdinalsAgree
  <2> SUFFICES ASSUME NEW n \in DOMAIN images, images[n].whole
               PROVE  (Starts(n) <=> Agrees(n)) /\ (n \in started => Agrees(n))
    BY DEF StartsIffOrdinalsAgree
  <2>1. images[n] \in Files \cup {Torn} /\ TableInv(rows)
    BY <1>1 DEF CurriculumIInv, ReleasesInv
  <2>2. Starts(n) <=> Agrees(n)
    BY <2>1, StartOutcome
  <2>3. ASSUME n \in started PROVE Agrees(n)
    <3>1. Numbered(Lessons(n)) /\ KeptIn(rows, Lessons(n))
      BY <1>1, <2>1, <2>3, WholeRelease DEF CurriculumIInv, KeptInv, Lessons, Embedded
    <3> SUFFICES ASSUME NEW i \in DOMAIN Lessons(n), Taken(rows, Lessons(n)[i]) PROVE FALSE
      BY DEF Agrees
    <3> DEFINE l == Lessons(n)[i]
    <3>2. l.ordinal = i /\ l.id \in DOMAIN rows /\ rows[l.id].ordinal = i
      BY <3>1 DEF Numbered, KeptIn
    <3>3. PICK id \in DOMAIN rows \ {l.id} : rows[id].ordinal = i
      BY <3>2 DEF Taken
    <3> QED BY <2>1, <3>2, <3>3 DEF TableInv, NoneTwice
  <2> QED BY <2>2, <2>3
<1> QED BY <1>1, CurriculumInvariant, PTL

(* What the release that runs embeds is what learners are served, until the *)
(* candidate of another has started: app.go seed against the one table.     *)
THEOREM LearnersReadWhatRuns == Spec => []LearnersReadTheirRelease
<1>1. ASSUME CurriculumIInv PROVE LearnersReadTheirRelease
  <2> SUFFICES ASSUME running, ~meddled PROVE LearnersReadTheirRelease
    BY DEF LearnersReadTheirRelease
  <2>1. ReadIn(rows, Lessons(live))
    BY <1>1 DEF CurriculumIInv, ReadInv, Lessons, Embedded
  <2> QED BY <2>1 DEF ReadIn, LearnersReadTheirRelease
<1> QED BY <1>1, CurriculumInvariant, PTL

(* What expand_curriculum.py's assertions let through passes the tests of   *)
(* the lessons with any core that the core's scripts can leave, and those   *)
(* leave the core sound whatever the order they run or are killed in.       *)
THEOREM WhatScriptsWritePasses == Spec => []ScriptsPassTests
<1>1. ASSUME CurriculumIInv PROVE ScriptsPassTests
  <2>1. ContentSound
    BY <1>1, ContentIsSound DEF CurriculumIInv
  <2>2. ASSUME expansion.whole, lessons.whole
        PROVE  TestCompleteCurriculum(lessons.rows \o expansion.lessons, expansion.want)
    <3>1. expansion # None /\ expansion # Torn /\ lessons # Cut
      BY <2>2 DEF None, Torn, Cut
    <3>2. PICK e \in {x \in Editions : Parsed(x) /\ validate(build(x), x.want)} :
            expansion = [whole |-> TRUE, lessons |-> build(e), want |-> e.want]
      BY <1>1, <3>1 DEF CurriculumIInv, ReleasesInv, Files
    <3>3. /\ expansion.lessons = build(e) /\ expansion.want = e.want
          /\ e \in Editions /\ validate(build(e), e.want)
      BY <3>2
    <3>4. PICK ls : lessons = File(ls) /\ LessonsInv(ls)
      BY <1>1, <3>1 DEF CurriculumIInv, ContentInv, FilesSound
    <3>5. lessons.rows = ls
      BY <3>4, FileFields
    <3> QED BY <3>3, <3>4, <3>5, ExpansionTested
  <2> QED BY <2>1, <2>2 DEF ScriptsPassTests
<1> QED BY <1>1, CurriculumInvariant, PTL
=============================================================================
