---------------------------- MODULE Deploy_proofs ----------------------------
(***************************************************************************)
(* Proofs about Deploy, for any number of runs, releases, ports and        *)
(* mishaps.                                                                *)
(***************************************************************************)
EXTENDS Deploy, FiniteSetTheorems, TLAPS
-----------------------------------------------------------------------------
(* The inductive invariant: the containers *)

(* Docker never lets two containers have one name. *)
NamesApart == \A c, d \in Ids : Exists(c) /\ Exists(d) /\ host.box[c].name = host.box[d].name => c = d

(* The two fixed names belong to an app and to a database. *)
NamesFit ==
  \A c \in Ids : Exists(c) =>
    /\ host.box[c].name = AppName => Role(c) = "app"
    /\ host.box[c].name = DbName => Role(c) = "db"

(* An app is made only after a candidate has reached the database with the *)
(* same password.                                                          *)
AppsFit ==
  \A c \in Ids : Exists(c) /\ Role(c) = "app" => host.volume # None /\ host.box[c].key = host.volume

(* A database that runs has initialised the volume. *)
VolumeMade == \A c \in Ids : Role(c) = "db" /\ On(c) => host.volume # None

(* The reply to a rename was lost: the script's variables are then wrong.  *)
Misled == Suffered({<<"rename_db", "lost">>})
Spoilt == Suffered(Nameless)

(* Until then a database runs under its name only. *)
RunsUnderName == Misled \/ \A c \in Ids : Role(c) = "db" /\ On(c) => host.box[c].name = DbName

(* Until a mishap leaves the volume without a database under its name,     *)
(* every database has the password of the volume, and there is one under   *)
(* the name once the volume is made, except while a run replaces it.       *)
VolumeKept ==
  Spoilt \/
    /\ \A c \in Ids : Exists(c) /\ Role(c) = "db" /\ host.volume # None => host.box[c].key = host.volume
    /\ \A c \in Ids : Exists(c) /\ Role(c) = "db" /\ host.volume = None => host.box[c].name = DbName
    /\ host.volume # None =>
         \/ Named(DbName) # {}
         \/ \E r \in Runs : pc[r] \in {"create_db", "rename_db_back"}

(* What the state file names for a rollback is an app, and not one that a  *)
(* run now under way has made.                                             *)
FileKept ==
  file # None /\ file.previous # None =>
    /\ Exists(file.previous) /\ Role(file.previous) = "app"
    /\ \A r \in Runs : pc[r] \in Active => file.previous[1] # r
-----------------------------------------------------------------------------
(* The inductive invariant: the run under way *)

OneAtATime == \A q, r \in Runs : pc[q] \in Active /\ pc[r] \in Active => q = r

(* A run that has not looked around yet has made nothing. *)
NotYet ==
  \A r \in Runs : pc[r] \in {"none", "list"} => loc[r] = Fresh /\ \A role \in Roles : ~Exists(<<r, role>>)

(* Until the candidate has been waited for. *)
Early == {"list", "storage", "db_create", "db_start", "db_wait", "load", "cand_create",
          "cand_start", "cand_wait"}
Candidacy == {"cand_stop", "cand_delete"}

(* Its variables for the apps name what is there. *)
AppsKnown(r) ==
  /\ loc[r].old # None => Exists(loc[r].old) /\ Role(loc[r].old) = "app" /\ loc[r].old[1] # r
  /\ loc[r].new \in {None, New(r)}
  /\ pc[r] \in {"stop_old", "rename_old", "rename_back", "restart_old"} => loc[r].old # None
  /\ pc[r] \in {"halt_new", "delete_new"} => loc[r].new # None

(* Its password is the volume's once the candidate was ready. *)
KeyKnown(r) ==
  /\ pc[r] \in Early => ~loc[r].ready
  /\ pc[r] \notin Early \cup Candidacy \/ loc[r].ready => host.volume # None /\ loc[r].key = host.volume
  /\ pc[r] \in {"cand_start", "cand_wait"} =>
       Exists(Candidate(r)) /\ host.box[Candidate(r)].key = loc[r].key

(* Where the database it found still has its name. *)
BeforeRename == (Before \ {"list"}) \cup {"stop_old", "rename_old", "inspect_db", "stop_db", "rename_db"}
Replaced == {"replace_db", "wait_db", "look_db", "halt_db", "delete_db"}

HasDbName(c) == Exists(c) /\ host.box[c].name = DbName

DbKnown(r) ==
  LET l == loc[r]
  IN /\ l.db # None => Role(l.db) = "db"
     /\ pc[r] \notin {"list", "storage", "db_create"} => l.db # None
     /\ pc[r] \in BeforeRename /\ l.db # None =>
          HasDbName(l.db) /\ (l.db = Replacement(r) => host.box[l.db].port = PortOf[r])
     /\ pc[r] \in BeforeRename \cup {"list"} => ~l.renamed_db /\ l.replacement = None
     /\ pc[r] \in {"stop_db", "rename_db", "create_db", "rename_db_back"} \cup Replaced =>
          Exists(l.db) /\ l.db # Replacement(r)
     /\ pc[r] = "rename_db" => ~On(l.db)
     /\ pc[r] = "create_db" => l.renamed_db /\ l.replacement = None
     /\ pc[r] \in Replaced =>
          l.renamed_db /\ l.replacement = Replacement(r) /\ HasDbName(l.replacement)
     /\ pc[r] \in {"restart_db", "rewait_db"} => Misled \/ HasDbName(l.db)

Known(r) == AppsKnown(r) /\ KeyKnown(r) /\ DbKnown(r)

IInv ==
  /\ TypeOK /\ NamesApart /\ NamesFit /\ AppsFit /\ VolumeMade
  /\ RunsUnderName /\ VolumeKept /\ FileKept
  /\ OneAtATime /\ NotYet
  /\ \A r \in Runs : pc[r] \in Active => Known(r)
-----------------------------------------------------------------------------
(* What a call does to the containers *)

HostType == [box : [Ids -> Containers \cup {None}], volume : {None, 0} \cup Runs]

(* A step concerns one container, and never unmakes the volume. *)
Concerns(c) ==
  /\ \A d \in Ids \ {c} : host'.box[d] = host.box[d]
  /\ host.volume # None => host'.volume = host.volume

(* The containers of a run, and of a script. *)
LEMMA IdsOf ==
  ASSUME NEW r \in Runs
  PROVE  /\ Candidate(r) \in Ids /\ New(r) \in Ids /\ Replacement(r) \in Ids
         /\ Role(Candidate(r)) = "candidate" /\ Role(New(r)) = "app" /\ Role(Replacement(r)) = "db"
         /\ Candidate(r)[1] = r /\ New(r)[1] = r /\ Replacement(r)[1] = r
BY DEF Ids, Roles, Role, Candidate, New, Replacement

(* The names differ. *)
LEMMA NamesDiffer ==
  ASSUME NEW r \in Runs
  PROVE  /\ {AppName, DbName, CandidateName(r), RollbackName(r), BeforePortName(r)} \subseteq Names
         /\ AppName # DbName
         /\ CandidateName(r) \notin {AppName, DbName} /\ RollbackName(r) \notin {AppName, DbName}
         /\ BeforePortName(r) \notin {AppName, DbName}
<1>1. {AppName, DbName, CandidateName(r), RollbackName(r), BeforePortName(r)} \subseteq Names
  BY DEF Names
<1> QED BY <1>1 DEF AppName, DbName, CandidateName, RollbackName, BeforePortName

(* Making a container. *)
LEMMA CreateEffect ==
  ASSUME host \in HostType, NEW c \in Ids, NEW box \in Containers, host' = Create(c, box)
  PROVE  /\ host' \in HostType /\ host'.box[c] = box /\ host'.volume = host.volume
         /\ Concerns(c)
BY DEF Create, HostType, Concerns

(* Deleting one. *)
LEMMA DeleteEffect ==
  ASSUME host \in HostType, NEW c \in Ids, host' = Delete(c)
  PROVE  /\ host' \in HostType /\ host'.box[c] = None /\ host'.volume = host.volume
         /\ Concerns(c)
BY DEF Delete, HostType, Concerns

(* Stopping one. *)
LEMMA StopEffect ==
  ASSUME host \in HostType, NEW c \in Ids, Exists(c), host' = Stop(c)
  PROVE  /\ host' \in HostType /\ host'.box[c] = [host.box[c] EXCEPT !.on = FALSE]
         /\ host'.volume = host.volume /\ Concerns(c)
<1>1. host.box[c] \in Containers
  BY DEF HostType, Exists
<1>2. [host.box[c] EXCEPT !.on = FALSE] \in Containers
  BY <1>1 DEF Containers
<1> QED BY <1>2 DEF Stop, HostType, Concerns

(* Renaming one. *)
LEMMA RenameEffect ==
  ASSUME host \in HostType, NEW c \in Ids, NEW n \in Names, Exists(c), host' = Rename(c, n)
  PROVE  /\ host' \in HostType /\ host'.box[c] = [host.box[c] EXCEPT !.name = n]
         /\ host'.volume = host.volume /\ Concerns(c)
<1>1. host.box[c] \in Containers
  BY DEF HostType, Exists
<1>2. [host.box[c] EXCEPT !.name = n] \in Containers
  BY <1>1 DEF Containers
<1> QED BY <1>2 DEF Rename, HostType, Concerns

(* Starting one: the first database makes the volume. *)
LEMMA StartEffect ==
  ASSUME host \in HostType, NEW c \in Ids, Exists(c), host' = Start(c)
  PROVE  /\ host' \in HostType /\ host'.box[c] = [host.box[c] EXCEPT !.on = TRUE]
         /\ host'.volume = IF Role(c) = "db" /\ host.volume = None THEN host.box[c].key ELSE host.volume
         /\ Concerns(c)
<1>1. host.box[c] \in Containers
  BY DEF HostType, Exists
<1>2. [host.box[c] EXCEPT !.on = TRUE] \in Containers /\ host.box[c].key \in {0} \cup Runs
  BY <1>1 DEF Containers
<1> QED BY <1>2 DEF Start, HostType, Concerns

(* What Docker keeps whatever is called: types, names, the passwords of    *)
(* apps, and the volume.                                                   *)
HostOK == host \in HostType /\ NamesApart /\ NamesFit /\ AppsFit /\ VolumeMade

(* It does when the container concerned stays in order. *)
LEMMA HostKeeps ==
  ASSUME HostOK, host' \in HostType, NEW c \in Ids, Concerns(c),
         host'.box[c] # None =>
           /\ \A d \in Ids \ {c} : Exists(d) => host.box[d].name # host'.box[c].name
           /\ host'.box[c].name = AppName => Role(c) = "app"
           /\ host'.box[c].name = DbName => Role(c) = "db"
           /\ Role(c) = "app" => host'.volume # None /\ host'.box[c].key = host'.volume
           /\ Role(c) = "db" /\ host'.box[c].on => host'.volume # None
  PROVE  HostOK'
<1> USE DEF HostOK, Concerns, Exists
<1>1. NamesApart'
  BY DEF NamesApart
<1>2. NamesFit'
  BY DEF NamesFit
<1>3. AppsFit'
  BY DEF AppsFit
<1>4. VolumeMade'
  BY DEF VolumeMade, On
<1> QED BY <1>1, <1>2, <1>3, <1>4

(* A new container with a free name that belongs to it. *)
LEMMA CreateKeeps ==
  ASSUME HostOK, NEW c \in Ids, NEW box \in Containers, host' = Create(c, box),
         CanCreate(box.name), ~box.on,
         box.name = AppName => Role(c) = "app", box.name = DbName => Role(c) = "db",
         Role(c) = "app" => host.volume # None /\ box.key = host.volume
  PROVE  HostOK' /\ Concerns(c) /\ host'.box[c] = box /\ host'.volume = host.volume
<1>1. host' \in HostType /\ Concerns(c) /\ host'.box[c] = box /\ host'.volume = host.volume
  BY CreateEffect DEF HostOK
<1>2. \A d \in Ids \ {c} : Exists(d) => host.box[d].name # box.name
  BY DEF CanCreate, Named
<1> QED BY <1>1, <1>2, HostKeeps

(* One less. *)
LEMMA DeleteKeeps ==
  ASSUME HostOK, NEW c \in Ids, host' = Delete(c)
  PROVE  HostOK' /\ Concerns(c) /\ host'.box[c] = None /\ host'.volume = host.volume
<1>1. host' \in HostType /\ Concerns(c) /\ host'.box[c] = None /\ host'.volume = host.volume
  BY DeleteEffect DEF HostOK
<1> QED BY <1>1, HostKeeps

(* A container that is stopped. *)
LEMMA StopKeeps ==
  ASSUME HostOK, NEW c \in Ids, Exists(c), host' = Stop(c)
  PROVE  /\ HostOK' /\ Concerns(c) /\ host'.volume = host.volume
         /\ host'.box[c] # None /\ ~host'.box[c].on
         /\ host'.box[c].name = host.box[c].name /\ host'.box[c].key = host.box[c].key
         /\ host'.box[c].port = host.box[c].port
<1>1. host.box[c] \in Containers /\ host.box[c] # None
  BY DEF HostOK, HostType, Exists
<1>2. /\ host' \in HostType /\ Concerns(c) /\ host'.volume = host.volume
      /\ host'.box[c] = [host.box[c] EXCEPT !.on = FALSE]
  BY StopEffect DEF HostOK
<1>3. /\ [host.box[c] EXCEPT !.on = FALSE] \in Containers
      /\ ~host'.box[c].on
      /\ host'.box[c].name = host.box[c].name /\ host'.box[c].key = host.box[c].key
      /\ host'.box[c].port = host.box[c].port
  BY <1>1, <1>2 DEF Containers
<1>4. host'.box[c] # None
  BY <1>2, <1>3, NoneAssumption
<1>5. /\ \A d \in Ids \ {c} : Exists(d) => host.box[d].name # host.box[c].name
      /\ host.box[c].name = AppName => Role(c) = "app"
      /\ host.box[c].name = DbName => Role(c) = "db"
      /\ Role(c) = "app" => host.volume # None /\ host.box[c].key = host.volume
  BY DEF HostOK, NamesApart, NamesFit, AppsFit
<1>6. HostOK'
  BY <1>2, <1>3, <1>5, HostKeeps
<1> QED BY <1>2, <1>3, <1>4, <1>6

(* One that is started, and then has its volume. *)
LEMMA StartKeeps ==
  ASSUME HostOK, NEW c \in Ids, CanStart(c), host' = Start(c)
  PROVE  /\ HostOK' /\ Concerns(c)
         /\ host'.volume = IF Role(c) = "db" /\ host.volume = None THEN host.box[c].key ELSE host.volume
         /\ host'.box[c] # None /\ host'.box[c].on
         /\ host'.box[c].name = host.box[c].name /\ host'.box[c].key = host.box[c].key
         /\ host'.box[c].port = host.box[c].port
<1>0. Exists(c)
  BY DEF CanStart
<1>1. host.box[c] \in Containers /\ host.box[c] # None
  BY <1>0 DEF HostOK, HostType, Exists
<1>2. /\ host' \in HostType /\ Concerns(c)
      /\ host'.volume = IF Role(c) = "db" /\ host.volume = None THEN host.box[c].key ELSE host.volume
      /\ host'.box[c] = [host.box[c] EXCEPT !.on = TRUE]
  BY <1>0, StartEffect DEF HostOK
<1>3. /\ [host.box[c] EXCEPT !.on = TRUE] \in Containers
      /\ host'.box[c].on
      /\ host'.box[c].name = host.box[c].name /\ host'.box[c].key = host.box[c].key
      /\ host'.box[c].port = host.box[c].port
      /\ host.box[c].key # None
  BY <1>1, <1>2, NoneAssumption DEF Containers
<1>4. host'.box[c] # None
  BY <1>2, <1>3, NoneAssumption
<1>5. /\ \A d \in Ids \ {c} : Exists(d) => host.box[d].name # host.box[c].name
      /\ host.box[c].name = AppName => Role(c) = "app"
      /\ host.box[c].name = DbName => Role(c) = "db"
      /\ Role(c) = "app" => host.volume # None /\ host.box[c].key = host.volume
  BY <1>0 DEF HostOK, NamesApart, NamesFit, AppsFit
<1>6. /\ Role(c) = "db" => host'.volume # None
      /\ Role(c) # "db" => host'.volume = host.volume
  BY <1>2, <1>3
<1>7. HostOK'
  BY <1>2, <1>3, <1>5, <1>6, HostKeeps
<1> QED BY <1>2, <1>3, <1>4, <1>7

(* A free name that belongs to the container. *)
LEMMA RenameKeeps ==
  ASSUME HostOK, NEW c \in Ids, NEW n \in Names, CanRename(c, n), host' = Rename(c, n),
         n = AppName => Role(c) = "app", n = DbName => Role(c) = "db"
  PROVE  /\ HostOK' /\ Concerns(c) /\ host'.volume = host.volume
         /\ host'.box[c] # None /\ host'.box[c].name = n
         /\ host'.box[c].on = host.box[c].on /\ host'.box[c].key = host.box[c].key
         /\ host'.box[c].port = host.box[c].port
<1>0. Exists(c) /\ \A d \in Ids : Exists(d) => host.box[d].name # n
  BY DEF CanRename, Named
<1>1. host.box[c] \in Containers /\ host.box[c] # None
  BY <1>0 DEF HostOK, HostType, Exists
<1>2. /\ host' \in HostType /\ Concerns(c) /\ host'.volume = host.volume
      /\ host'.box[c] = [host.box[c] EXCEPT !.name = n]
  BY <1>0, RenameEffect DEF HostOK
<1>3. /\ [host.box[c] EXCEPT !.name = n] \in Containers
      /\ host'.box[c].name = n
      /\ host'.box[c].on = host.box[c].on /\ host'.box[c].key = host.box[c].key
      /\ host'.box[c].port = host.box[c].port
  BY <1>1, <1>2 DEF Containers
<1>4. host'.box[c] # None
  BY <1>2, <1>3, NoneAssumption
<1>5. /\ Role(c) = "app" => host.volume # None /\ host.box[c].key = host.volume
      /\ Role(c) = "db" /\ host.box[c].on => host.volume # None
  BY <1>0 DEF HostOK, AppsFit, VolumeMade, On
<1>6. HostOK'
  BY <1>0, <1>2, <1>3, <1>5, HostKeeps
<1> QED BY <1>2, <1>3, <1>4, <1>6
-----------------------------------------------------------------------------
(* What a step of a run does to the rest *)

(* What went wrong is never forgotten. *)
Grows ==
  /\ mishaps' \in [Runs -> SUBSET (Active \X {"error", "lost", "unready", "kill"})]
  /\ \A r \in Runs : mishaps[r] \subseteq mishaps'[r]

(* A mishap is added to what went wrong. *)
LEMMA MishapGrows ==
  ASSUME TypeOK, NEW r \in Runs, pc[r] \in Active, NEW kind \in {"error", "lost", "unready", "kill"},
         Mishap(r, kind)
  PROVE  Grows /\ <<pc[r], kind>> \in mishaps'[r]
BY DEF TypeOK, Mishap, Grows

(* So what a property excuses stays excused. *)
LEMMA StaysExcused ==
  ASSUME Grows
  PROVE  (Misled => Misled') /\ (Spoilt => Spoilt')
BY DEF Grows, Misled, Spoilt, Suffered

(* Where a step may lead: a run looks around once. *)
Ahead == (Active \ {"list"}) \cup Ended

(* Run r goes on, with these variables, and only its own containers come   *)
(* and go.                                                                 *)
Moves(r, l, place) ==
  /\ pc' = [pc EXCEPT ![r] = place] /\ loc' = [loc EXCEPT ![r] = l] /\ file' = file
  /\ learning' \in {"no", "before", "after"} /\ Grows
  /\ HostOK' /\ \A c \in Ids : c[1] # r => (Exists(c)' <=> Exists(c))

(* Then the invariant is kept, if the databases are in order and the run   *)
(* still knows where it is.                                                *)
LEMMA RunStep ==
  ASSUME IInv, NEW r \in Runs, pc[r] \in Active, NEW l \in Local, NEW place \in Ahead,
         Moves(r, l, place), RunsUnderName', VolumeKept',
         place \in Active => Known(r)'
  PROVE  IInv'
<1> USE DEF Moves, Ahead
<1>1. /\ pc'[r] = place /\ \A q \in Runs \ {r} : pc'[q] = pc[q]
      /\ loc'[r] = l /\ \A q \in Runs \ {r} : loc'[q] = loc[q]
  BY DEF IInv, TypeOK
<1>2. TypeOK'
  BY DEF IInv, TypeOK, HostOK, HostType, Grows
<1>3. \A q \in Runs : pc'[q] \in Active => q = r
  BY <1>1 DEF IInv, OneAtATime
<1>4. OneAtATime'
  BY <1>3 DEF OneAtATime
<1>5. "none" \notin Ahead /\ "list" \notin Ahead
  BY DEF Active, Ended, Before, Switch, Rollout, UndoRollout, Undo
<1>6. NotYet'
  <2> SUFFICES ASSUME NEW q \in Runs, pc'[q] \in {"none", "list"}
               PROVE  loc'[q] = Fresh /\ \A role \in Roles : ~Exists(<<q, role>>)'
    BY DEF NotYet
  <2>1. q # r /\ pc'[q] = pc[q] /\ loc'[q] = loc[q]
    BY <1>1, <1>5
  <2>2. \A role \in Roles : <<q, role>> \in Ids /\ <<q, role>>[1] = q
    BY DEF Ids
  <2> QED BY <2>1, <2>2 DEF IInv, NotYet
<1>7. FileKept'
  <2> SUFFICES ASSUME file # None, file.previous # None
               PROVE  /\ Exists(file.previous)' /\ Role(file.previous) = "app"
                      /\ \A q \in Runs : pc'[q] \in Active => file.previous[1] # q
    BY DEF FileKept
  <2>1. /\ Exists(file.previous) /\ Role(file.previous) = "app" /\ file.previous[1] # r
        /\ file.previous \in Ids
    BY DEF IInv, FileKept, TypeOK
  <2> QED BY <1>3, <2>1
<1>8. \A q \in Runs : pc'[q] \in Active => Known(q)'
  BY <1>1, <1>3
<1> QED BY <1>2, <1>4, <1>6, <1>7, <1>8 DEF IInv, HostOK

(* Nothing is changed in Docker. *)
LEMMA HostSame ==
  ASSUME IInv, host' = host, Grows
  PROVE  HostOK' /\ RunsUnderName' /\ \A c \in Ids : Exists(c)' <=> Exists(c)
<1>1. HostOK
  BY DEF IInv, HostOK, HostType, TypeOK
<1>2. HostOK'
  BY <1>1 DEF HostOK, HostType, NamesApart, NamesFit, AppsFit, VolumeMade, Exists, On
<1>3. RunsUnderName'
  BY StaysExcused DEF IInv, RunsUnderName, Exists, On
<1> QED BY <1>2, <1>3 DEF Exists

(* The places between the old and the new database. *)
Gap == {"create_db", "rename_db_back"}

(* The databases and the volume are left alone. *)
LEMMA DatabasesStay ==
  ASSUME IInv, NEW r \in Runs, pc[r] \in Active, Grows, HostOK',
         host'.volume = host.volume, \A c \in Ids : Role(c) = "db" => host'.box[c] = host.box[c],
         pc[r] \in Gap => Spoilt' \/ Named(DbName) # {} \/ pc'[r] \in Gap
  PROVE  RunsUnderName' /\ VolumeKept'
<1>1. RunsUnderName'
  BY StaysExcused DEF IInv, RunsUnderName, Exists, On
<1>2. Named(DbName) # {} => Named(DbName)' # {}
  BY DEF IInv, NamesFit, Named, Exists
<1>3. \A q \in Runs : pc[q] \in Gap => q = r
  BY DEF IInv, OneAtATime, Gap, Active, Rollout, UndoRollout
<1>4. VolumeKept'
  BY <1>2, <1>3, StaysExcused DEF IInv, VolumeKept, Exists, Gap
<1> QED BY <1>1, <1>4
-----------------------------------------------------------------------------
(* An exception *)

(* Where it leads, told by the place it was raised at. *)
LEMMA HandlerPlaces ==
  ASSUME NEW r \in Runs, pc[r] \in Active \ {"record"}
  PROVE  /\ Handler(r) \in UndoRollout \cup Undo \cup {"failed"}
         /\ pc[r] \in Before \cup Undo => Handler(r) = "failed"
         /\ pc[r] \in Switch \cup UndoRollout => Handler(r) = UndoSwitch(loc[r])
         /\ pc[r] \in Rollout => Handler(r) = UndoDb(loc[r])
<1>0. /\ pc[r] \in Before \cup Undo => pc[r] \notin Switch \cup UndoRollout /\ pc[r] \notin Rollout
      /\ pc[r] \in Switch \cup UndoRollout => pc[r] \notin Rollout
  BY DEF Before, Undo, Switch, UndoRollout, Rollout
<1>1. ASSUME pc[r] \in Before \cup Undo PROVE Handler(r) = "failed"
  BY <1>0, <1>1, Zenon DEF Handler
<1>2. ASSUME pc[r] \in Switch \cup UndoRollout PROVE Handler(r) = UndoSwitch(loc[r])
  BY <1>0, <1>2, Zenon DEF Handler
<1>3. ASSUME pc[r] \in Rollout PROVE Handler(r) = UndoDb(loc[r])
  BY <1>0, <1>3, Zenon DEF Handler
<1>4. /\ UndoSwitch(loc[r]) \in Undo \cup {"failed"}
      /\ UndoDb(loc[r]) \in UndoRollout
  BY DEF UndoSwitch, Restore, UndoDb, RestoreDb, Undo, UndoRollout
<1>5. pc[r] \in Before \cup Undo \cup Switch \cup UndoRollout \cup Rollout
  BY DEF Active
<1> QED BY <1>1, <1>2, <1>3, <1>4, <1>5

(* What the handlers go by is still there. *)
Remains(r) ==
  /\ pc[r] \in {"stop_db", "rename_db"} => Misled' \/ HasDbName(loc[r].db)'
  /\ pc[r] \in Rollout \ {"stop_db", "rename_db"} => Exists(loc[r].db)'
  /\ pc[r] \in {"replace_db", "wait_db"} => HasDbName(loc[r].replacement)'

(* The old app is brought back only where there was one. *)
LEMMA RestorePlaces ==
  ASSUME NEW l
  PROVE  /\ Restore(l) \in {"failed", "rename_back", "restart_old"}
         /\ Restore(l) # "failed" => l.old # None
BY DEF Restore

(* The handler of the switch knows the old and the new app. *)
LEMMA SwitchHandlerKnows ==
  ASSUME IInv, NEW r \in Runs, pc[r] \in Switch \cup UndoRollout,
         Moves(r, loc[r], UndoSwitch(loc[r])), host.volume # None => host'.volume = host.volume,
         UndoSwitch(loc[r]) # "failed"
  PROVE  Known(r)'
<1> DEFINE l == loc[r]  place == UndoSwitch(loc[r])
<1>1. pc'[r] = place /\ loc'[r] = l /\ \A c \in Ids : c[1] # r => (Exists(c)' <=> Exists(c))
  BY DEF Moves, IInv, TypeOK
<1>2. Known(r) /\ l \in Local
  BY DEF IInv, Active, TypeOK
<1>3. /\ place \in {"halt_new", "rename_back", "restart_old"}
      /\ place = "halt_new" => l.new # None
      /\ place \in {"rename_back", "restart_old"} => l.old # None
  BY RestorePlaces DEF UndoSwitch
<1>4. AppsKnown(r)'
  <2>1. l.old # None => Exists(l.old)' /\ Role(l.old) = "app" /\ l.old[1] # r
    BY <1>1, <1>2 DEF Known, AppsKnown, Local
  <2> QED BY <1>1, <1>2, <1>3, <2>1 DEF Known, AppsKnown, New
<1>5. host.volume # None /\ l.key = host.volume
  BY <1>2 DEF Known, KeyKnown, Early, Candidacy, Switch, UndoRollout
<1>6. KeyKnown(r)'
  BY <1>1, <1>3, <1>5 DEF KeyKnown, Early
<1>7. l.db # None /\ Role(l.db) = "db"
  BY <1>2 DEF Known, DbKnown, Switch, UndoRollout
<1>8. DbKnown(r)'
  BY <1>1, <1>3, <1>7 DEF DbKnown, BeforeRename, Before, Replaced
<1> QED BY <1>4, <1>6, <1>8 DEF Known

(* The handler of the rollout knows the old and the new database. *)
LEMMA RolloutHandlerKnows ==
  ASSUME IInv, NEW r \in Runs, pc[r] \in Rollout,
         Moves(r, loc[r], UndoDb(loc[r])), host.volume # None => host'.volume = host.volume, Remains(r)
  PROVE  Known(r)'
<1> DEFINE l == loc[r]  place == UndoDb(loc[r])
<1>1. pc'[r] = place /\ loc'[r] = l /\ \A c \in Ids : c[1] # r => (Exists(c)' <=> Exists(c))
  BY DEF Moves, IInv, TypeOK
<1>2. Known(r) /\ l \in Local
  BY DEF IInv, Active, TypeOK
<1>3. place \in {"look_db", "rename_db_back", "restart_db"}
  BY DEF UndoDb, RestoreDb
<1>4. AppsKnown(r)'
  <2>1. l.old # None => Exists(l.old)' /\ Role(l.old) = "app" /\ l.old[1] # r
    BY <1>1, <1>2 DEF Known, AppsKnown, Local
  <2> QED BY <1>1, <1>2, <1>3, <2>1 DEF Known, AppsKnown, New
<1>5. host.volume # None /\ l.key = host.volume
  BY <1>2 DEF Known, KeyKnown, Early, Candidacy, Rollout
<1>6. KeyKnown(r)'
  BY <1>1, <1>3, <1>5 DEF KeyKnown, Early
<1>7. l.db # None /\ Role(l.db) = "db"
  BY <1>2 DEF Known, DbKnown, Rollout
<1>8. CASE pc[r] \in {"stop_db", "rename_db"}
  <2>1. place = "restart_db"
    BY <1>2, <1>8 DEF Known, DbKnown, BeforeRename, UndoDb, RestoreDb
  <2>2. DbKnown(r)'
    BY <1>1, <1>7, <1>8, <2>1 DEF DbKnown, BeforeRename, Before, Replaced, Remains
  <2> QED BY <1>4, <1>6, <2>2 DEF Known
<1>9. CASE pc[r] = "create_db"
  <2>1. place = "rename_db_back" /\ l.db # Replacement(r)
    BY <1>2, <1>9 DEF Known, DbKnown, UndoDb, RestoreDb
  <2>2. Exists(l.db)'
    BY <1>9 DEF Remains, Rollout
  <2>3. DbKnown(r)'
    BY <1>1, <1>7, <2>1, <2>2 DEF DbKnown, BeforeRename, Before, Replaced, Replacement
  <2> QED BY <1>4, <1>6, <2>3 DEF Known
<1>10. CASE pc[r] \in {"replace_db", "wait_db"}
  <2>1. l.replacement = Replacement(r) /\ l.renamed_db /\ l.db # Replacement(r)
    BY <1>2, <1>10 DEF Known, DbKnown, Replaced
  <2>2. place = "look_db"
    <3>1. Replacement(r) # None
      BY IdsOf, NoneAssumption
    <3> QED BY <2>1, <3>1 DEF UndoDb
  <2>3. Exists(l.db)' /\ HasDbName(l.replacement)'
    BY <1>10 DEF Remains, Rollout
  <2>4. DbKnown(r)'
    BY <1>1, <1>7, <2>1, <2>2, <2>3 DEF DbKnown, BeforeRename, Before, Replaced, Replacement
  <2> QED BY <1>4, <1>6, <2>4 DEF Known
<1> QED BY <1>8, <1>9, <1>10 DEF Rollout

(* An exception, whatever the call had done by then. *)
LEMMA RunFails ==
  ASSUME IInv, NEW r \in Runs, pc[r] \in Active \ {"record"},
         Moves(r, loc[r], Handler(r)), host.volume # None => host'.volume = host.volume,
         RunsUnderName', VolumeKept', Remains(r)
  PROVE  IInv'
<1>1. Handler(r) \in Ahead /\ loc[r] \in Local
  BY HandlerPlaces DEF Ahead, Active, Ended, UndoRollout, Undo, IInv, TypeOK
<1>2. CASE pc[r] \in Before \cup Undo
  <2>1. Handler(r) = "failed" /\ "failed" \notin Active
    BY <1>2, HandlerPlaces DEF Active, Before, Switch, Rollout, UndoRollout, Undo
  <2> QED BY <1>1, <2>1, RunStep
<1>3. CASE pc[r] \in Switch \cup UndoRollout
  <2>1. Handler(r) = UndoSwitch(loc[r])
    BY <1>3, HandlerPlaces
  <2>2. "failed" \notin Active
    BY DEF Active, Before, Switch, Rollout, UndoRollout, Undo
  <2>3. Handler(r) \in Active => Known(r)'
    BY <1>3, <2>1, <2>2, SwitchHandlerKnows
  <2> QED BY <1>1, <2>3, RunStep
<1>4. CASE pc[r] \in Rollout
  <2>1. Handler(r) = UndoDb(loc[r])
    BY <1>4, HandlerPlaces
  <2>2. Known(r)'
    BY <1>4, <2>1, RolloutHandlerKnows
  <2> QED BY <1>1, <2>2, RunStep
<1> QED BY <1>2, <1>3, <1>4 DEF Active

(* A call that fails before it has an effect, or is refused. *)
LEMMA StepRaises ==
  ASSUME IInv, NEW r \in Runs, pc[r] \in Active \ {"record"}, host' = host, Raise(r), file' = file,
         learning' \in {"no", "before", "after"}, Grows,
         pc[r] = "rename_db_back" => Spoilt' \/ Named(DbName) # {}
  PROVE  IInv'
<1>1. pc' = [pc EXCEPT ![r] = Handler(r)] /\ loc' = [loc EXCEPT ![r] = loc[r]]
  BY DEF Raise, Go, IInv, TypeOK
<1>2. HostOK' /\ RunsUnderName' /\ \A c \in Ids : Exists(c)' <=> Exists(c)
  BY HostSame
<1>3. Moves(r, loc[r], Handler(r))
  BY <1>1, <1>2 DEF Moves
<1>4. Known(r) /\ pc'[r] = Handler(r)
  BY <1>1 DEF IInv, TypeOK
<1>5. pc[r] = "create_db" => Handler(r) = "rename_db_back"
  <2>1. ASSUME pc[r] = "create_db" PROVE Handler(r) = UndoDb(loc[r])
    BY <2>1, HandlerPlaces DEF Rollout
  <2> QED BY <1>4, <2>1 DEF Known, DbKnown, UndoDb, RestoreDb
<1>6. VolumeKept'
  BY <1>2, <1>4, <1>5, DatabasesStay DEF Gap
<1>7. Remains(r)
  <2>1. \A c : HasDbName(c)' <=> HasDbName(c)
    BY DEF HasDbName, Exists
  <2>2. Exists(loc[r].db)' <=> Exists(loc[r].db)
    BY <1>1 DEF Exists, IInv, TypeOK
  <2>3. Misled => Misled'
    BY StaysExcused
  <2>4. loc'[r] = loc[r]
    BY <1>1 DEF IInv, TypeOK
  <2> QED BY <1>4, <2>1, <2>2, <2>3, <2>4 DEF Remains, Known, DbKnown, Rollout, BeforeRename, Replaced
<1> QED BY <1>2, <1>3, <1>6, <1>7, RunFails

(* A call about a container that is no database: of this run, or one that  *)
(* stays.                                                                  *)
Touches(r, c) ==
  /\ c \in Ids /\ Concerns(c) /\ HostOK'
  /\ c[1] = r \/ (Exists(c) /\ host'.box[c] # None)

(* It comes back, and the script goes on. *)
LEMMA AppCallDone ==
  ASSUME IInv, NEW r \in Runs, pc[r] \in Active \ Gap, NEW c, Touches(r, c), Role(c) # "db",
         host'.volume = host.volume, file' = file, learning' \in {"no", "before", "after"}, Grows,
         NEW l \in Local, NEW place \in Ahead, Keep(r, l), Go(r, place),
         place \in Active => Known(r)'
  PROVE  IInv'
<1>1. \A d \in Ids : d[1] # r => (Exists(d)' <=> Exists(d))
  BY DEF Touches, Concerns, Exists
<1>2. RunsUnderName' /\ VolumeKept'
  BY DatabasesStay DEF Touches, Concerns
<1>3. Moves(r, l, place)
  BY <1>1 DEF Moves, Keep, Go, Touches
<1> QED BY <1>2, <1>3, RunStep

(* Or its answer is lost. *)
LEMMA AppCallLost ==
  ASSUME IInv, NEW r \in Runs, pc[r] \in Before \cup Switch \cup Undo, NEW c, Touches(r, c), Role(c) # "db",
         host'.volume = host.volume, file' = file, learning' \in {"no", "before", "after"}, Grows,
         Raise(r)
  PROVE  IInv'
<1>0. pc[r] \in Active \ {"record"} /\ pc[r] \notin Gap /\ pc[r] \notin Rollout
  BY DEF Active, Gap, Before, Switch, Rollout, Undo
<1>1. \A d \in Ids : d[1] # r => (Exists(d)' <=> Exists(d))
  BY DEF Touches, Concerns, Exists
<1>2. RunsUnderName' /\ VolumeKept'
  BY <1>0, DatabasesStay DEF Touches, Concerns
<1>3. pc' = [pc EXCEPT ![r] = Handler(r)] /\ loc' = [loc EXCEPT ![r] = loc[r]]
  BY DEF Raise, Go, IInv, TypeOK
<1>4. Moves(r, loc[r], Handler(r))
  BY <1>1, <1>3 DEF Moves, Touches
<1>5. Remains(r)
  BY <1>0 DEF Remains, Rollout
<1> QED BY <1>0, <1>2, <1>4, <1>5, RunFails

(* A step that asks and changes nothing. *)
LEMMA AskDone ==
  ASSUME IInv, NEW r \in Runs, pc[r] \in Active \ Gap, host' = host, file' = file,
         learning' \in {"no", "before", "after"}, Grows,
         NEW l \in Local, NEW place \in Ahead, Keep(r, l), Go(r, place),
         place \in Active => Known(r)'
  PROVE  IInv'
<1>1. HostOK' /\ RunsUnderName' /\ \A c \in Ids : Exists(c)' <=> Exists(c)
  BY HostSame
<1>2. VolumeKept'
  BY <1>1, DatabasesStay
<1>3. Moves(r, l, place)
  BY <1>1 DEF Moves, Keep, Go
<1> QED BY <1>1, <1>2, <1>3, RunStep

(* What goes wrong, or nothing, is only added to. *)
LEMMA EitherGrows ==
  ASSUME IInv, NEW r \in Runs, pc[r] \in Active,
         mishaps' = mishaps \/ \E kind \in {"error", "lost", "unready", "kill"} : Mishap(r, kind)
  PROVE  Grows
<1>1. CASE mishaps' = mishaps
  BY <1>1 DEF Grows, IInv, TypeOK
<1> QED BY <1>1, MishapGrows DEF IInv

(* A refusal or an error, but for the one place that leaves a gap. *)
LEMMA Refusal ==
  ASSUME IInv, NEW r \in Runs, pc[r] \in Active \ {"record", "rename_db_back"}, host' = host, Raise(r),
         file' = file, learning' = learning,
         mishaps' = mishaps \/ \E kind \in {"error", "lost", "unready", "kill"} : Mishap(r, kind)
  PROVE  IInv'
<1>1. Grows
  BY EitherGrows
<1>2. learning' \in {"no", "before", "after"}
  BY DEF IInv, TypeOK
<1> QED BY <1>1, <1>2, StepRaises

(* A question that is answered, or not. *)
LEMMA AskStep ==
  ASSUME IInv, NEW r \in Runs, pc[r] \in Active \ (Gap \cup {"record"}), file' = file, learning' = learning,
         NEW l \in Local, NEW place \in Ahead, Ask(r, TRUE, l, place),
         host' = host /\ Keep(r, l) /\ Go(r, place) /\ place \in Active => Known(r)'
  PROVE  IInv'
<1>1. CASE host' = host /\ Keep(r, l) /\ Go(r, place) /\ mishaps' = mishaps
  <2>1. Grows /\ learning' \in {"no", "before", "after"}
    BY <1>1, EitherGrows DEF IInv, TypeOK
  <2> QED BY <1>1, <2>1, AskDone
<1>2. CASE host' = host /\ Mishap(r, "error") /\ Raise(r)
  BY <1>2, Refusal DEF Gap
<1> QED BY <1>1, <1>2 DEF Ask, Call

(* A wait that ends well, at its limit, or with an error. *)
LEMMA WaitStep ==
  ASSUME IInv, NEW r \in Runs, pc[r] \in Active \ (Gap \cup {"record"}), file' = file, learning' = learning,
         NEW c, NEW l \in Local, NEW yes \in Ahead, NEW no \in Ahead \cup {"raise"},
         Wait(r, c, l, yes, no),
         Healthy(c) /\ host' = host /\ Keep(r, l) /\ Go(r, yes) /\ yes \in Active => Known(r)',
         no # "raise" /\ host' = host /\ Keep(r, loc[r]) /\ Go(r, no) /\ no \in Active => Known(r)'
  PROVE  IInv'
<1>1. CASE Healthy(c) /\ host' = host /\ Keep(r, l) /\ Go(r, yes) /\ mishaps' = mishaps
  <2>1. Grows /\ learning' \in {"no", "before", "after"}
    BY <1>1, EitherGrows DEF IInv, TypeOK
  <2> QED BY <1>1, <2>1, AskDone
<1>2. CASE host' = host /\ NotReady(r, no) /\ (mishaps' = mishaps \/ Mishap(r, "unready"))
  <2>1. CASE no = "raise"
    <3>1. Raise(r)
      BY <1>2, <2>1 DEF NotReady, Raise
    <3> QED BY <1>2, <3>1, Refusal DEF Gap
  <2>2. CASE no # "raise"
    <3>1. Go(r, no) /\ Keep(r, loc[r]) /\ loc[r] \in Local
      BY <1>2, <2>2 DEF NotReady, Keep, IInv, TypeOK
    <3>2. Grows /\ learning' \in {"no", "before", "after"}
      BY <1>2, EitherGrows DEF IInv, TypeOK
    <3> QED BY <1>2, <2>2, <3>1, <3>2, AskDone
  <2> QED BY <2>1, <2>2
<1>3. CASE host' = host /\ Mishap(r, "error") /\ Raise(r)
  BY <1>3, Refusal DEF Gap
<1> QED BY <1>1, <1>2, <1>3 DEF Wait

(* Where a run is, and what it knows there. *)
LEMMA Here ==
  ASSUME IInv, NEW r \in Runs, pc[r] \in Active
  PROVE  /\ Known(r) /\ loc[r] \in Local /\ HostOK
         /\ \A l, place : Keep(r, l) /\ Go(r, place) => loc'[r] = l /\ pc'[r] = place
BY DEF IInv, TypeOK, HostOK, HostType, Keep, Go

(* That there is a database, where it is of no more concern. *)
LEMMA DbAfter ==
  ASSUME NEW r \in Runs, NEW l, loc'[r] = l, l.db # None, Role(l.db) = "db",
         pc'[r] \in {"create_new", "start_new", "wait_new", "public", "record"} \cup Undo
  PROVE  DbKnown(r)'
BY DEF DbKnown, BeforeRename, Before, Replaced, Undo
-----------------------------------------------------------------------------
(* Before the switch *)

(* A container that is found has the name, and belongs to it. *)
LEMMA FindFinds ==
  ASSUME HostOK, NEW n, Find(n) # None
  PROVE  /\ Find(n) \in Ids /\ Exists(Find(n)) /\ host.box[Find(n)].name = n
         /\ n = AppName => Role(Find(n)) = "app"
         /\ n = DbName => Role(Find(n)) = "db"
<1>1. Find(n) \in Named(n)
  BY DEF Find
<1>2. Find(n) \in Ids /\ Exists(Find(n)) /\ host.box[Find(n)].name = n
  BY <1>1 DEF Named
<1> QED BY <1>2 DEF HostOK, NamesFit

(* What a run knows, after its first look too, is what it may know. *)
LEMMA FirstLook ==
  ASSUME NEW x \in Local, NEW a \in Ids \cup {None}, NEW d \in Ids \cup {None},
         NEW u \in BOOLEAN, NEW o \in BOOLEAN
  PROVE  [x EXCEPT !.old = a, !.db = d, !.up = u, !.obstacle = o] \in Local
<1> DEFINE y == [x EXCEPT !.old = a]
           z == [y EXCEPT !.db = d]
           w == [z EXCEPT !.up = u]
<1>1. y \in Local
  BY DEF Local
<1> HIDE DEF y
<1>2. z \in Local
  BY <1>1 DEF Local
<1> HIDE DEF z
<1>3. w \in Local
  BY <1>2 DEF Local
<1> HIDE DEF w
<1>4. [w EXCEPT !.obstacle = o] \in Local
  BY <1>3 DEF Local
<1> QED BY <1>4 DEF w, z, y

(* The first look: the apps and the databases are what they are called. *)
LEMMA ListKeeps ==
  ASSUME IInv, NEW r \in Runs, List(r)
  PROVE  IInv'
<1> DEFINE up == AppUp
           obstacle == Obstacle(r)
<1>1. PICK l : /\ l = [loc[r] EXCEPT !.old = Find(AppName), !.db = Find(DbName), !.up = up, !.obstacle = obstacle]
               /\ pc[r] = "list" /\ file' = file /\ learning' = learning
               /\ \/ Go(r, "refused") /\ Keep(r, l) /\ UNCHANGED <<host, mishaps>>
                  \/ Ask(r, TRUE, l, "storage")
  BY DEF List, At
<1>2. pc[r] \in Active \ (Gap \cup {"record"}) /\ "storage" \in Ahead /\ "refused" \in Ahead \ Active
  BY <1>1 DEF Active, Gap, Ahead, Ended, Before, Switch, Rollout, UndoRollout, Undo
<1>3. Known(r) /\ loc[r] \in Local /\ HostOK /\ loc[r] = Fresh /\ \A role \in Roles : ~Exists(<<r, role>>)
  BY <1>1, <1>2, Here DEF IInv, NotYet
<1>4. up \in BOOLEAN /\ obstacle \in BOOLEAN
  BY DEF AppUp, Obstacle, OwnedByOthers, Publishes, Healthy, On, Exists
<1> HIDE DEF up, obstacle
<1>5. /\ Find(AppName) \in Ids \cup {None}
      /\ Find(DbName) \in Ids \cup {None}
  BY <1>3, FindFinds
<1>6. /\ l \in Local /\ l.old = Find(AppName) /\ l.db = Find(DbName) /\ l.new = None /\ l.replacement = None
      /\ ~l.renamed_db /\ ~l.ready
  <2>1. l = [loc[r] EXCEPT !.old = Find(AppName), !.db = Find(DbName), !.up = up, !.obstacle = obstacle]
    BY <1>1
  <2>2. loc[r] = Fresh
    BY <1>3
  <2>3. /\ l.old = Find(AppName) /\ l.db = Find(DbName) /\ l.new = None /\ l.replacement = None
        /\ ~l.renamed_db /\ ~l.ready
    BY <2>1, <2>2 DEF Fresh
  <2>4. PICK a, d, u, o : a = Find(AppName) /\ d = Find(DbName) /\ u = up /\ o = obstacle
    OBVIOUS
  <2>5. l = [loc[r] EXCEPT !.old = a, !.db = d, !.up = u, !.obstacle = o]
    BY <2>1, <2>4
  <2>6. u \in BOOLEAN /\ o \in BOOLEAN
    BY <1>4, <2>4
  <2>7. l \in Local
    <3>1. a \in Ids \cup {None} /\ d \in Ids \cup {None}
      BY <1>5, <2>4
    <3> QED BY <1>3, <2>5, <2>6, <3>1, FirstLook
  <2> QED BY <2>3, <2>7
<1>7. ASSUME host' = host, Keep(r, l), Go(r, "storage") PROVE Known(r)'
  <2>1. loc'[r] = l /\ pc'[r] = "storage"
    BY <1>2, <1>7, Here
  <2>2. \A c \in Ids : Exists(c) => c[1] # r
    BY <1>3 DEF Ids
  <2>3. AppsKnown(r)'
    BY <1>3, <1>6, <1>7, <2>1, <2>2, FindFinds DEF AppsKnown, Exists
  <2>4. KeyKnown(r)'
    BY <1>6, <2>1 DEF KeyKnown, Early
  <2>5. DbKnown(r)'
    <3>1. l.db # None => Role(l.db) = "db" /\ HasDbName(l.db)' /\ l.db # Replacement(r)
      BY <1>3, <1>6, <1>7, <2>2, FindFinds, IdsOf DEF HasDbName, Exists
    <3> QED BY <1>6, <2>1, <3>1 DEF DbKnown, BeforeRename, Before, Replaced, Replacement
  <2> QED BY <2>3, <2>4, <2>5 DEF Known
<1>8. CASE Go(r, "refused") /\ Keep(r, l) /\ UNCHANGED <<host, mishaps>>
  <2>1. Grows /\ learning' \in {"no", "before", "after"}
    BY <1>1, <1>2, <1>8, EitherGrows DEF IInv, TypeOK
  <2> QED BY <1>1, <1>2, <1>6, <1>8, <2>1, AskDone
<1>9. CASE Ask(r, TRUE, l, "storage")
  BY <1>1, <1>2, <1>6, <1>7, <1>9, AskStep
<1> QED BY <1>1, <1>8, <1>9

(* The password of the database that is there, or of a new one. *)
LEMMA StorageKeeps ==
  ASSUME IInv, NEW r \in Runs, Storage(r)
  PROVE  IInv'
<1>1. PICK l, place :
        /\ pc[r] = "storage" /\ file' = file /\ learning' = learning
        /\ Ask(r, TRUE, l, place)
        /\ loc[r].db = None => l = [loc[r] EXCEPT !.key = r] /\ place = "db_create"
        /\ loc[r].db # None => l = [loc[r] EXCEPT !.key = host.box[loc[r].db].key] /\ place \in {"db_wait", "db_start"}
  BY DEF Storage, At
<1>2. pc[r] \in Active \ (Gap \cup {"record"}) /\ place \in Ahead
  BY <1>1 DEF Active, Gap, Ahead, Before
<1>3. Known(r) /\ loc[r] \in Local /\ HostOK
  BY <1>2, Here
<1>4. loc[r].db # None => loc[r].db \in Ids /\ HasDbName(loc[r].db) /\ (loc[r].db # None => Role(loc[r].db) = "db")
  BY <1>1, <1>3 DEF Known, DbKnown, Local, BeforeRename, Before
<1>5. loc[r].db # None => host.box[loc[r].db].key \in {0} \cup Runs
  BY <1>3, <1>4 DEF HasDbName, Exists, HostOK, HostType, Containers
<1>6. /\ l \in Local /\ l.old = loc[r].old /\ l.db = loc[r].db /\ l.new = loc[r].new
      /\ l.replacement = loc[r].replacement /\ l.renamed_db = loc[r].renamed_db /\ l.ready = loc[r].ready
  BY <1>1, <1>3, <1>5 DEF Local
<1>7. ASSUME host' = host, Keep(r, l), Go(r, place) PROVE Known(r)'
  <2>1. loc'[r] = l /\ pc'[r] = place /\ place \in {"db_create", "db_start", "db_wait"}
    BY <1>1, <1>2, <1>7, Here
  <2>2. AppsKnown(r)'
    BY <1>3, <1>6, <1>7, <2>1 DEF Known, AppsKnown, Exists, New
  <2>3. KeyKnown(r)'
    BY <1>1, <1>3, <1>6, <2>1 DEF Known, KeyKnown, Early
  <2>4. DbKnown(r)'
    BY <1>1, <1>3, <1>4, <1>6, <1>7, <2>1 DEF Known, DbKnown, BeforeRename, Before, Replaced, HasDbName, Exists, Replacement
  <2> QED BY <2>2, <2>3, <2>4 DEF Known
<1> QED BY <1>1, <1>2, <1>6, <1>7, AskStep

(* A wait for the database. *)
LEMMA DbWaitKeeps ==
  ASSUME IInv, NEW r \in Runs, DbWait(r)
  PROVE  IInv'
<1>1. pc[r] = "db_wait" /\ file' = file /\ learning' = learning /\ Wait(r, loc[r].db, loc[r], "load", "refused")
  BY DEF DbWait, At
<1>2. pc[r] \in Active \ (Gap \cup {"record"}) /\ "load" \in Ahead /\ "refused" \in Ahead \ Active
  BY <1>1 DEF Active, Gap, Ahead, Ended, Before, Switch, Rollout, UndoRollout, Undo
<1>3. Known(r) /\ loc[r] \in Local /\ HostOK
  BY <1>2, Here
<1>4. ASSUME host' = host, Keep(r, loc[r]), Go(r, "load") PROVE Known(r)'
  <2>1. loc'[r] = loc[r] /\ pc'[r] = "load"
    BY <1>2, <1>4, Here
  <2>2. AppsKnown(r)'
    BY <1>3, <1>4, <2>1 DEF Known, AppsKnown, Exists, New
  <2>3. KeyKnown(r)'
    BY <1>1, <1>3, <2>1 DEF Known, KeyKnown, Early
  <2>4. DbKnown(r)'
    BY <1>1, <1>3, <1>4, <2>1 DEF Known, DbKnown, BeforeRename, Before, Replaced, HasDbName, Exists, Replacement
  <2> QED BY <2>2, <2>3, <2>4 DEF Known
<1> QED BY <1>1, <1>2, <1>3, <1>4, WaitStep

(* The image is loaded. *)
LEMMA LoadKeeps ==
  ASSUME IInv, NEW r \in Runs, Load(r)
  PROVE  IInv'
<1>1. pc[r] = "load" /\ file' = file /\ learning' = learning /\ Ask(r, TRUE, loc[r], "cand_create")
  BY DEF Load, At
<1>2. pc[r] \in Active \ (Gap \cup {"record"}) /\ "cand_create" \in Ahead
  BY <1>1 DEF Active, Gap, Ahead, Before
<1>3. Known(r) /\ loc[r] \in Local /\ HostOK
  BY <1>2, Here
<1>4. ASSUME host' = host, Keep(r, loc[r]), Go(r, "cand_create") PROVE Known(r)'
  <2>1. loc'[r] = loc[r] /\ pc'[r] = "cand_create"
    BY <1>2, <1>4, Here
  <2>2. AppsKnown(r)'
    BY <1>3, <1>4, <2>1 DEF Known, AppsKnown, Exists, New
  <2>3. KeyKnown(r)'
    BY <1>1, <1>3, <2>1 DEF Known, KeyKnown, Early
  <2>4. DbKnown(r)'
    BY <1>1, <1>3, <1>4, <2>1 DEF Known, DbKnown, BeforeRename, Before, Replaced, HasDbName, Exists, Replacement
  <2> QED BY <2>2, <2>3, <2>4 DEF Known
<1> QED BY <1>1, <1>2, <1>3, <1>4, AskStep

(* A candidate that is ready reached the database with the password of the *)
(* volume.                                                                 *)
LEMMA CandidateWaitKeeps ==
  ASSUME IInv, NEW r \in Runs, CandidateWait(r)
  PROVE  IInv'
<1>1. PICK l : /\ l = [loc[r] EXCEPT !.ready = TRUE]
               /\ pc[r] = "cand_wait" /\ file' = file /\ learning' = learning
               /\ Wait(r, Candidate(r), l, "cand_stop", "cand_stop")
  BY DEF CandidateWait, At
<1>2. pc[r] \in Active \ (Gap \cup {"record"}) /\ "cand_stop" \in Ahead
  BY <1>1 DEF Active, Gap, Ahead, Before
<1>3. Known(r) /\ loc[r] \in Local /\ HostOK
  BY <1>2, Here
<1>4. /\ l \in Local /\ l.old = loc[r].old /\ l.db = loc[r].db /\ l.new = loc[r].new
      /\ l.replacement = loc[r].replacement /\ l.renamed_db = loc[r].renamed_db /\ l.key = loc[r].key
  BY <1>1, <1>3 DEF Local
<1>5. /\ loc[r].db # None /\ HasDbName(loc[r].db)
      /\ ~loc[r].ready
      /\ Exists(Candidate(r)) /\ host.box[Candidate(r)].key = loc[r].key
  BY <1>1, <1>3 DEF Known, DbKnown, KeyKnown, Early, BeforeRename, Before
<1>6. ASSUME host' = host, NEW m \in Local, m = l \/ m = loc[r], loc'[r] = m, pc'[r] = "cand_stop",
             m.ready => host.volume # None /\ m.key = host.volume
      PROVE  Known(r)'
  <2>1. AppsKnown(r)'
    BY <1>3, <1>4, <1>6 DEF Known, AppsKnown, Exists, New
  <2>2. KeyKnown(r)'
    BY <1>6 DEF KeyKnown, Early, Candidacy
  <2>3. DbKnown(r)'
    <3>1. m.db = loc[r].db /\ m.renamed_db = loc[r].renamed_db /\ m.replacement = loc[r].replacement
      BY <1>4, <1>6
    <3>2. /\ Role(loc[r].db) = "db" /\ ~loc[r].renamed_db /\ loc[r].replacement = None
          /\ loc[r].db = Replacement(r) => host.box[loc[r].db].port = PortOf[r]
      BY <1>1, <1>3, <1>5 DEF Known, DbKnown, BeforeRename, Before
    <3> QED BY <1>5, <1>6, <3>1, <3>2 DEF DbKnown, BeforeRename, Before, Replaced, HasDbName, Exists, Replacement
  <2> QED BY <2>1, <2>2, <2>3 DEF Known
<1>7. ASSUME Healthy(Candidate(r)), host' = host, Keep(r, l), Go(r, "cand_stop") PROVE Known(r)'
  <2>1. PICK d \in Named(DbName) : On(d)
    BY <1>7, IdsOf DEF Healthy
  <2>2. d \in Ids /\ Role(d) = "db"
    BY <1>3, <2>1 DEF Named, HostOK, NamesFit
  <2>3. host.volume # None
    BY <1>3, <2>1, <2>2 DEF HostOK, VolumeMade
  <2>4. l.key = host.volume
    BY <1>4, <1>5, <1>7, IdsOf DEF Healthy
  <2> QED BY <1>2, <1>4, <1>6, <1>7, <2>3, <2>4, Here
<1>8. ASSUME host' = host, Keep(r, loc[r]), Go(r, "cand_stop") PROVE Known(r)'
  BY <1>2, <1>3, <1>5, <1>6, <1>8, Here
<1> QED BY <1>1, <1>2, <1>4, <1>7, <1>8, WaitStep

(* The last look at the learners. *)
LEMMA BusyKeeps ==
  ASSUME IInv, NEW r \in Runs, Busy(r)
  PROVE  IInv'
<1>1. /\ pc[r] = "busy" /\ file' = file /\ learning' = learning /\ host' = host
      /\ \/ Go(r, SwitchFrom(r)) /\ UNCHANGED <<loc, mishaps>>
         \/ Go(r, "refused") /\ UNCHANGED <<loc, mishaps>>
         \/ Mishap(r, "error") /\ Raise(r)
  BY DEF Busy, At
<1>2. pc[r] \in Active \ (Gap \cup {"record"}) /\ SwitchFrom(r) \in Ahead /\ "refused" \in Ahead \ Active
  BY <1>1 DEF Active, Gap, Ahead, Ended, Before, Switch, Rollout, UndoRollout, Undo, SwitchFrom
<1>3. Known(r) /\ loc[r] \in Local /\ HostOK
  BY <1>2, Here
<1>4. ASSUME Keep(r, loc[r]), Go(r, SwitchFrom(r)) PROVE Known(r)'
  <2>1. loc'[r] = loc[r] /\ pc'[r] = SwitchFrom(r) /\ SwitchFrom(r) \in {"stop_old", "inspect_db"}
    BY <1>2, <1>4, Here DEF SwitchFrom
  <2>2. AppsKnown(r)'
    BY <1>1, <1>3, <1>4, <2>1 DEF Known, AppsKnown, Exists, New, SwitchFrom
  <2>3. KeyKnown(r)'
    BY <1>1, <1>3, <2>1 DEF Known, KeyKnown, Early, Candidacy
  <2>4. DbKnown(r)'
    BY <1>1, <1>3, <1>4, <2>1 DEF Known, DbKnown, BeforeRename, Before, Replaced, HasDbName, Exists, Replacement
  <2> QED BY <2>2, <2>3, <2>4 DEF Known
<1>5. CASE (Go(r, SwitchFrom(r)) \/ Go(r, "refused")) /\ UNCHANGED <<loc, mishaps>>
  <2>1. Grows /\ learning' \in {"no", "before", "after"} /\ Keep(r, loc[r])
    BY <1>1, <1>2, <1>5, EitherGrows DEF IInv, TypeOK, Keep
  <2> QED BY <1>1, <1>2, <1>3, <1>4, <1>5, <2>1, AskDone
<1>6. CASE Mishap(r, "error") /\ Raise(r)
  BY <1>1, <1>2, <1>6, Refusal DEF Gap
<1> QED BY <1>1, <1>5, <1>6

-----------------------------------------------------------------------------
(* Questions in the switch and in the rollout *)

(* A question that may also be refused. *)
LEMMA LookStep ==
  ASSUME IInv, NEW r \in Runs, pc[r] \in Active \ (Gap \cup {"record"}), file' = file, learning' = learning,
         NEW c, NEW place \in Ahead, Ask(r, Exists(c), loc[r], place),
         host' = host /\ Keep(r, loc[r]) /\ Go(r, place) /\ place \in Active => Known(r)'
  PROVE  IInv'
<1>0. loc[r] \in Local
  BY DEF IInv, TypeOK
<1>1. CASE host' = host /\ Keep(r, loc[r]) /\ Go(r, place) /\ mishaps' = mishaps
  <2>1. Grows /\ learning' \in {"no", "before", "after"}
    BY <1>1, EitherGrows DEF IInv, TypeOK
  <2> QED BY <1>0, <1>1, <2>1, AskDone
<1>2. CASE host' = host /\ Raise(r) /\ (mishaps' = mishaps \/ Mishap(r, "error"))
  BY <1>2, Refusal DEF Gap
<1> QED BY <1>1, <1>2 DEF Ask, Call

(* Where the database is published tells whether it is replaced. *)
LEMMA InspectDbKeeps ==
  ASSUME IInv, NEW r \in Runs, InspectDb(r)
  PROVE  IInv'
<1>1. PICK place :
        /\ pc[r] = "inspect_db" /\ file' = file /\ learning' = learning
        /\ Ask(r, Exists(loc[r].db), loc[r], place)
        /\ place = IF Exists(loc[r].db) /\ host.box[loc[r].db].port = PortOf[r] THEN "create_new" ELSE "stop_db"
  BY DEF InspectDb, At
<1>2. pc[r] \in Active \ (Gap \cup {"record"}) /\ place \in Ahead
  BY <1>1 DEF Active, Gap, Ahead, Switch, Rollout
<1>3. Known(r) /\ loc[r] \in Local /\ HostOK
  BY <1>2, Here
<1>4. ASSUME host' = host, Keep(r, loc[r]), Go(r, place) PROVE Known(r)'
  <2>1. loc'[r] = loc[r] /\ pc'[r] = place /\ place \in {"create_new", "stop_db"}
    BY <1>1, <1>2, <1>4, Here
  <2>2. AppsKnown(r)'
    BY <1>3, <1>4, <2>1 DEF Known, AppsKnown, Exists, New
  <2>3. KeyKnown(r)'
    BY <1>1, <1>3, <1>4, <2>1 DEF Known, KeyKnown, Early, Candidacy
  <2>4. /\ loc[r].db # None /\ Role(loc[r].db) = "db" /\ HasDbName(loc[r].db)
        /\ ~loc[r].renamed_db /\ loc[r].replacement = None
        /\ place = "stop_db" => loc[r].db # Replacement(r)
    BY <1>1, <1>3 DEF Known, DbKnown, BeforeRename, HasDbName
  <2>5. DbKnown(r)'
    BY <1>4, <2>1, <2>4 DEF DbKnown, BeforeRename, Before, Replaced, HasDbName, Exists, Replacement
  <2> QED BY <2>2, <2>3, <2>5 DEF Known
<1> QED BY <1>1, <1>2, <1>4, LookStep

(* The handler looks at the replacement. *)
LEMMA LookDbKeeps ==
  ASSUME IInv, NEW r \in Runs, LookDb(r)
  PROVE  IInv'
<1>1. PICK place :
        /\ pc[r] = "look_db" /\ file' = file /\ learning' = learning
        /\ Ask(r, Exists(loc[r].replacement), loc[r], place)
        /\ place \in {"halt_db", "delete_db"}
  BY DEF LookDb, At
<1>2. pc[r] \in Active \ (Gap \cup {"record"}) /\ place \in Ahead
  BY <1>1 DEF Active, Gap, Ahead, UndoRollout
<1>3. Known(r) /\ loc[r] \in Local /\ HostOK
  BY <1>2, Here
<1>4. ASSUME host' = host, Keep(r, loc[r]), Go(r, place) PROVE Known(r)'
  <2>1. loc'[r] = loc[r] /\ pc'[r] = place /\ place \in {"halt_db", "delete_db"}
    BY <1>1, <1>2, <1>4, Here
  <2>2. AppsKnown(r)'
    BY <1>3, <1>4, <2>1 DEF Known, AppsKnown, Exists, New
  <2>3. KeyKnown(r)'
    BY <1>1, <1>3, <1>4, <2>1 DEF Known, KeyKnown, Early, Candidacy
  <2>4. DbKnown(r)'
    BY <1>1, <1>3, <1>4, <2>1 DEF Known, DbKnown, BeforeRename, Before, Replaced, HasDbName, Exists, Replacement
  <2> QED BY <2>2, <2>3, <2>4 DEF Known
<1> QED BY <1>1, <1>2, <1>4, LookStep

(* The replacement is ready and becomes the database. *)
LEMMA WaitDbKeeps ==
  ASSUME IInv, NEW r \in Runs, WaitDb(r)
  PROVE  IInv'
<1>1. PICK l : /\ l = [loc[r] EXCEPT !.db = Replacement(r)]
               /\ pc[r] = "wait_db" /\ file' = file /\ learning' = learning
               /\ Wait(r, Replacement(r), l, "create_new", "raise")
  BY DEF WaitDb, At
<1>2. pc[r] \in Active \ (Gap \cup {"record"}) /\ "create_new" \in Ahead
  BY <1>1 DEF Active, Gap, Ahead, Switch, Rollout
<1>3. Known(r) /\ loc[r] \in Local /\ HostOK
  BY <1>2, Here
<1>4. /\ l \in Local /\ l.old = loc[r].old /\ l.db = Replacement(r) /\ l.new = loc[r].new
      /\ l.key = loc[r].key
  BY <1>1, <1>3, IdsOf DEF Local
<1>5. ASSUME host' = host, Keep(r, l), Go(r, "create_new") PROVE Known(r)'
  <2>1. loc'[r] = l /\ pc'[r] = "create_new"
    BY <1>2, <1>5, Here
  <2>2. AppsKnown(r)'
    BY <1>3, <1>4, <1>5, <2>1 DEF Known, AppsKnown, Exists, New
  <2>3. KeyKnown(r)'
    BY <1>1, <1>3, <1>4, <1>5, <2>1 DEF Known, KeyKnown, Early, Candidacy
  <2>4. l.db # None /\ Role(l.db) = "db"
    BY <1>4, IdsOf, NoneAssumption
  <2>5. DbKnown(r)'
    BY <2>1, <2>4, DbAfter
  <2> QED BY <2>2, <2>3, <2>5 DEF Known
<1> QED BY <1>1, <1>2, <1>4, <1>5, WaitStep

(* The old database is ready again, and the handler of the switch follows. *)
LEMMA RewaitDbKeeps ==
  ASSUME IInv, NEW r \in Runs, RewaitDb(r)
  PROVE  IInv'
<1>1. /\ pc[r] = "rewait_db" /\ file' = file /\ learning' = learning
      /\ Wait(r, loc[r].db, loc[r], UndoSwitch(loc[r]), "raise")
  BY DEF RewaitDb, At
<1>2. pc[r] \in Active \ (Gap \cup {"record"}) /\ pc[r] \in UndoRollout
  BY <1>1 DEF Active, Gap, UndoRollout
<1>3. UndoSwitch(loc[r]) \in {"halt_new", "rename_back", "restart_old", "failed"}
  BY RestorePlaces DEF UndoSwitch
<1>4. UndoSwitch(loc[r]) \in Ahead /\ (UndoSwitch(loc[r]) \in Active => UndoSwitch(loc[r]) # "failed")
  BY <1>3 DEF Ahead, Active, Ended, Before, Switch, Rollout, UndoRollout, Undo
<1>5. Known(r) /\ loc[r] \in Local /\ HostOK
  BY <1>2, Here
<1>6. Grows
  BY <1>1, <1>2, EitherGrows DEF Wait
<1>7. ASSUME host' = host, Keep(r, loc[r]), Go(r, UndoSwitch(loc[r])), UndoSwitch(loc[r]) # "failed" PROVE Known(r)'
  <2>1. HostOK' /\ \A c \in Ids : Exists(c)' <=> Exists(c)
    BY <1>6, <1>7, HostSame
  <2>2. Moves(r, loc[r], UndoSwitch(loc[r]))
    BY <1>1, <1>6, <1>7, <2>1 DEF Moves, Keep, Go, IInv, TypeOK
  <2> QED BY <1>2, <1>7, <2>2, SwitchHandlerKnows
<1> QED BY <1>1, <1>2, <1>4, <1>5, <1>7, WaitStep

(* The new app is ready, and reached over HTTPS. *)
LEMMA NewIsWaitedFor ==
  ASSUME IInv, NEW r \in Runs, WaitNew(r) \/ Public(r)
  PROVE  IInv'
<1>1. PICK place :
        /\ pc[r] \in {"wait_new", "public"} /\ file' = file /\ learning' = learning
        /\ Wait(r, New(r), loc[r], place, "raise")
        /\ place \in {"public", "record"}
  BY DEF WaitNew, Public, At
<1>2. pc[r] \in Active \ (Gap \cup {"record"}) /\ place \in Ahead
  BY <1>1 DEF Active, Gap, Ahead, Switch, Rollout, UndoRollout
<1>3. Known(r) /\ loc[r] \in Local /\ HostOK
  BY <1>2, Here
<1>4. ASSUME host' = host, Keep(r, loc[r]), Go(r, place) PROVE Known(r)'
  <2>1. loc'[r] = loc[r] /\ pc'[r] = place /\ place \in {"public", "record"}
    BY <1>1, <1>2, <1>4, Here
  <2>2. AppsKnown(r)'
    BY <1>3, <1>4, <2>1 DEF Known, AppsKnown, Exists, New
  <2>3. KeyKnown(r)'
    BY <1>1, <1>3, <1>4, <2>1 DEF Known, KeyKnown, Early, Candidacy
  <2>4. loc[r].db # None /\ Role(loc[r].db) = "db"
    BY <1>1, <1>3 DEF Known, DbKnown
  <2>5. DbKnown(r)'
    BY <2>1, <2>4, DbAfter
  <2> QED BY <2>2, <2>3, <2>5 DEF Known
<1> QED BY <1>1, <1>2, <1>3, <1>4, WaitStep

-----------------------------------------------------------------------------
(* Calls about candidates and apps *)

(* The container is as a call leaves it that concerns no database. *)
AppTouched(r, c) == Touches(r, c) /\ Role(c) # "db" /\ host'.volume = host.volume

(* Such a call is answered, refused or fails, or its answer is lost.  *)
LEMMA AppStep ==
  ASSUME IInv, NEW r \in Runs, pc[r] \in Before \cup Switch \cup Undo, file' = file,
         learning' \in {"no", "before", "after"}, host' = host => learning' = learning,
         NEW c, NEW l \in Local, NEW place \in Ahead,
         \/ /\ AppTouched(r, c) /\ Keep(r, l) /\ Go(r, place) /\ mishaps' = mishaps
            /\ place \in Active => Known(r)'
         \/ host' = host /\ Raise(r) /\ (mishaps' = mishaps \/ Mishap(r, "error"))
         \/ AppTouched(r, c) /\ Mishap(r, "lost") /\ Raise(r)
  PROVE  IInv'
<1>1. pc[r] \in Active \ Gap /\ pc[r] \in Active \ {"record", "rename_db_back"}
  BY DEF Active, Gap, Before, Switch, Undo
<1>2. Grows
  BY <1>1, EitherGrows
<1>3. CASE AppTouched(r, c) /\ Keep(r, l) /\ Go(r, place) /\ (place \in Active => Known(r)')
  BY <1>1, <1>2, <1>3, AppCallDone DEF AppTouched
<1>4. CASE host' = host /\ Raise(r) /\ (mishaps' = mishaps \/ Mishap(r, "error"))
  BY <1>1, <1>4, Refusal
<1>5. CASE AppTouched(r, c) /\ Raise(r)
  BY <1>2, <1>5, AppCallLost DEF AppTouched
<1> QED BY <1>3, <1>4, <1>5

(* What the run knows of its apps and of the database outlasts the call. *)
LEMMA StillThere ==
  ASSUME IInv, NEW r \in Runs, pc[r] \in Active, NEW c, AppTouched(r, c)
  PROVE  /\ loc[r].old # None => host'.box[loc[r].old] # None
         /\ loc[r].db # None => host'.box[loc[r].db] = host.box[loc[r].db]
<1>0. PICK old, db : old = loc[r].old /\ db = loc[r].db
  OBVIOUS
<1>1. /\ old # None => Exists(old) /\ old[1] # r /\ old \in Ids
      /\ db # None => Role(db) = "db" /\ db \in Ids
  BY <1>0, Here DEF Known, AppsKnown, DbKnown, Local
<1>2. old # None => host'.box[old] # None
  BY <1>1 DEF AppTouched, Touches, Concerns, Exists
<1>3. db # None => host'.box[db] = host.box[db]
  BY <1>1 DEF AppTouched, Touches, Concerns
<1> QED BY <1>0, <1>2, <1>3

(* The candidate is made, with the password the run goes by. *)
LEMMA CandidateCreateKeeps ==
  ASSUME IInv, NEW r \in Runs, CandidateCreate(r)
  PROVE  IInv'
<1> DEFINE c == Candidate(r)
           box == Image(r, CandidateName(r), None)
<1>1. /\ pc[r] = "cand_create" /\ file' = file /\ learning' = learning
      /\ Call(r, CanCreate(CandidateName(r)), Create(c, box), loc[r], "cand_start")
  BY DEF CandidateCreate, At
<1>2. pc[r] \in Active /\ pc[r] \in Before /\ "cand_start" \in Ahead
  BY <1>1 DEF Active, Ahead, Before
<1>3. Known(r) /\ loc[r] \in Local /\ HostOK
  BY <1>2, Here
<1>4. box \in Containers /\ ~box.on /\ box.name = CandidateName(r) /\ box.key = loc[r].key
  BY <1>3, NamesDiffer DEF Image, Containers, Local
<1> HIDE DEF box
<1>5. ASSUME CanCreate(CandidateName(r)), host' = Create(c, box)
      PROVE  AppTouched(r, c) /\ host'.box[c] = box
  BY <1>3, <1>4, <1>5, IdsOf, NamesDiffer, CreateKeeps DEF AppTouched, Touches
<1>6. ASSUME CanCreate(CandidateName(r)), host' = Create(c, box), Keep(r, loc[r]), Go(r, "cand_start")
      PROVE  Known(r)'
  <2>1. loc'[r] = loc[r] /\ pc'[r] = "cand_start" /\ AppTouched(r, c) /\ host'.box[c] = box
    BY <1>2, <1>5, <1>6, Here
  <2>2. /\ loc[r].old # None => host'.box[loc[r].old] # None
        /\ loc[r].db # None => host'.box[loc[r].db] = host.box[loc[r].db]
    BY <1>2, <2>1, StillThere
  <2>3. AppsKnown(r)'
    BY <1>3, <2>1, <2>2 DEF Known, AppsKnown, Exists, New
  <2>4. box # None
    BY <1>4, NoneAssumption
  <2>5. KeyKnown(r)'
    BY <1>1, <1>3, <1>4, <2>1, <2>4 DEF Known, KeyKnown, Early, Exists, Candidate
  <2>6. DbKnown(r)'
    BY <1>1, <1>3, <2>1, <2>2 DEF Known, DbKnown, BeforeRename, Before, Replaced, HasDbName, Exists, Replacement
  <2> QED BY <2>3, <2>5, <2>6 DEF Known
<1>7. \/ CanCreate(CandidateName(r)) /\ host' = Create(c, box) /\ Keep(r, loc[r]) /\ Go(r, "cand_start") /\ mishaps' = mishaps
      \/ host' = host /\ Raise(r) /\ (mishaps' = mishaps \/ Mishap(r, "error"))
      \/ CanCreate(CandidateName(r)) /\ host' = Create(c, box) /\ Mishap(r, "lost") /\ Raise(r)
  BY <1>1 DEF Call
<1>8. learning' \in {"no", "before", "after"}
  BY <1>1 DEF IInv, TypeOK
<1> QED BY <1>1, <1>2, <1>3, <1>5, <1>6, <1>7, <1>8, AppStep

(* The candidate is started. *)
LEMMA CandidateStartKeeps ==
  ASSUME IInv, NEW r \in Runs, CandidateStart(r)
  PROVE  IInv'
<1> DEFINE c == Candidate(r)
<1>1. /\ pc[r] = "cand_start" /\ file' = file /\ learning' = learning
      /\ Call(r, CanStart(c), Start(c), loc[r], "cand_wait")
  BY DEF CandidateStart, At
<1>2. pc[r] \in Active /\ pc[r] \in Before /\ "cand_wait" \in Ahead
  BY <1>1 DEF Active, Ahead, Before
<1>3. Known(r) /\ loc[r] \in Local /\ HostOK
  BY <1>2, Here
<1>4. c \in Ids /\ Role(c) # "db" /\ c[1] = r
  BY IdsOf
<1>5. ASSUME CanStart(c), host' = Start(c)
      PROVE  AppTouched(r, c) /\ host'.box[c] # None /\ host'.box[c].key = host.box[c].key
  BY <1>3, <1>4, <1>5, StartKeeps DEF AppTouched, Touches
<1>6. ASSUME CanStart(c), host' = Start(c), Keep(r, loc[r]), Go(r, "cand_wait")
      PROVE  Known(r)'
  <2>1. loc'[r] = loc[r] /\ pc'[r] = "cand_wait" /\ AppTouched(r, c)
        /\ host'.box[c] # None /\ host'.box[c].key = host.box[c].key
    BY <1>2, <1>5, <1>6, Here
  <2>2. /\ loc[r].old # None => host'.box[loc[r].old] # None
        /\ loc[r].db # None => host'.box[loc[r].db] = host.box[loc[r].db]
    BY <1>2, <2>1, StillThere
  <2>3. AppsKnown(r)'
    BY <1>3, <2>1, <2>2 DEF Known, AppsKnown, Exists, New
  <2>4. KeyKnown(r)'
    BY <1>1, <1>3, <2>1 DEF Known, KeyKnown, Early, Exists, Candidate
  <2>5. DbKnown(r)'
    BY <1>1, <1>3, <2>1, <2>2 DEF Known, DbKnown, BeforeRename, Before, Replaced, HasDbName, Exists, Replacement
  <2> QED BY <2>3, <2>4, <2>5 DEF Known
<1>7. \/ CanStart(c) /\ host' = Start(c) /\ Keep(r, loc[r]) /\ Go(r, "cand_wait") /\ mishaps' = mishaps
      \/ host' = host /\ Raise(r) /\ (mishaps' = mishaps \/ Mishap(r, "error"))
      \/ CanStart(c) /\ host' = Start(c) /\ Mishap(r, "lost") /\ Raise(r)
  BY <1>1 DEF Call
<1>8. learning' \in {"no", "before", "after"}
  BY <1>1 DEF IInv, TypeOK
<1> QED BY <1>1, <1>2, <1>3, <1>5, <1>6, <1>7, <1>8, AppStep

(* The candidate is stopped, ready or not. *)
LEMMA CandidateStopKeeps ==
  ASSUME IInv, NEW r \in Runs, CandidateStop(r)
  PROVE  IInv'
<1>1. /\ pc[r] = "cand_stop" /\ file' = file /\ learning' = learning
      /\ Call(r, CanStop(Candidate(r)), Stop(Candidate(r)), loc[r], "cand_delete")
  BY DEF CandidateStop, At
<1>2. pc[r] \in Active /\ pc[r] \in Before /\ "cand_delete" \in Ahead
  BY <1>1 DEF Active, Ahead, Ended, Before, Switch, Rollout, UndoRollout, Undo
<1>3. Known(r) /\ loc[r] \in Local /\ HostOK
  BY <1>2, Here
<1>4. Candidate(r) \in Ids /\ Role(Candidate(r)) # "db" /\ Candidate(r)[1] = r
  BY IdsOf
<1>7. ASSUME CanStop(Candidate(r)), host' = Stop(Candidate(r)) PROVE AppTouched(r, Candidate(r))
  BY <1>3, <1>4, <1>7, NamesDiffer, StopKeeps DEF AppTouched, Touches, Exists, CanStop, On
<1>8. ASSUME CanStop(Candidate(r)), host' = Stop(Candidate(r)), Keep(r, loc[r]), Go(r, "cand_delete"), "cand_delete" \in Active
      PROVE  Known(r)'
  <2>1. loc'[r] = loc[r] /\ pc'[r] = "cand_delete" /\ AppTouched(r, Candidate(r))
    BY <1>2, <1>7, <1>8, Here
  <2>2. /\ loc[r].old # None => host'.box[loc[r].old] # None
        /\ loc[r].db # None => host'.box[loc[r].db] = host.box[loc[r].db]
    BY <1>2, <2>1, StillThere
  <2>3. AppsKnown(r)'
    BY <1>1, <1>2, <1>3, <1>8, <2>1, <2>2 DEF Known, AppsKnown, Exists, New
  <2>4. KeyKnown(r)'
    BY <1>1, <1>2, <1>3, <1>8, <2>1 DEF Known, KeyKnown, Early, Candidacy, AppTouched
  <2>5. DbKnown(r)'
    BY <1>1, <1>2, <1>3, <2>1, <2>2 DEF Known, DbKnown, BeforeRename, Before, Replaced, HasDbName, Exists, Replacement
  <2> QED BY <2>3, <2>4, <2>5 DEF Known
<1>9. \/ CanStop(Candidate(r)) /\ host' = Stop(Candidate(r)) /\ Keep(r, loc[r]) /\ Go(r, "cand_delete") /\ mishaps' = mishaps
      \/ host' = host /\ Raise(r) /\ (mishaps' = mishaps \/ Mishap(r, "error"))
      \/ CanStop(Candidate(r)) /\ host' = Stop(Candidate(r)) /\ Mishap(r, "lost") /\ Raise(r)
  BY <1>1 DEF Call
<1>10. learning' \in {"no", "before", "after"}
  BY <1>1 DEF IInv, TypeOK
<1> QED BY <1>1, <1>2, <1>3, <1>7, <1>8, <1>9, <1>10, AppStep

(* It is deleted: only a release that was ready goes on. *)
LEMMA CandidateDeleteKeeps ==
  ASSUME IInv, NEW r \in Runs, CandidateDelete(r)
  PROVE  IInv'
<1>1. /\ pc[r] = "cand_delete" /\ file' = file /\ learning' = learning
      /\ Call(r, CanDelete(Candidate(r)), Delete(Candidate(r)), loc[r], (IF loc[r].ready THEN "busy" ELSE "refused"))
  BY DEF CandidateDelete, At
<1>2. pc[r] \in Active /\ pc[r] \in Before /\ (IF loc[r].ready THEN "busy" ELSE "refused") \in Ahead
      /\ "refused" \notin Active
  BY <1>1 DEF Active, Ahead, Ended, Before, Switch, Rollout, UndoRollout, Undo
<1>3. Known(r) /\ loc[r] \in Local /\ HostOK
  BY <1>2, Here
<1>4. Candidate(r) \in Ids /\ Role(Candidate(r)) # "db" /\ Candidate(r)[1] = r
  BY IdsOf
<1>7. ASSUME CanDelete(Candidate(r)), host' = Delete(Candidate(r)) PROVE AppTouched(r, Candidate(r))
  BY <1>3, <1>4, <1>7, NamesDiffer, DeleteKeeps DEF AppTouched, Touches, Exists
<1>8. ASSUME CanDelete(Candidate(r)), host' = Delete(Candidate(r)), Keep(r, loc[r]), Go(r,
             (IF loc[r].ready THEN "busy" ELSE "refused")), (IF loc[r].ready THEN "busy" ELSE "refused") \in Active
      PROVE  Known(r)'
  <2>1. loc'[r] = loc[r] /\ pc'[r] = (IF loc[r].ready THEN "busy" ELSE "refused") /\ AppTouched(r, Candidate(r))
    BY <1>2, <1>7, <1>8, Here
  <2>2. /\ loc[r].old # None => host'.box[loc[r].old] # None
        /\ loc[r].db # None => host'.box[loc[r].db] = host.box[loc[r].db]
    BY <1>2, <2>1, StillThere
  <2>3. AppsKnown(r)'
    BY <1>1, <1>2, <1>3, <1>8, <2>1, <2>2 DEF Known, AppsKnown, Exists, New
  <2>4. KeyKnown(r)'
    BY <1>1, <1>2, <1>3, <1>8, <2>1 DEF Known, KeyKnown, Early, Candidacy, AppTouched
  <2>5. DbKnown(r)'
    BY <1>1, <1>2, <1>3, <2>1, <2>2 DEF Known, DbKnown, BeforeRename, Before, Replaced, HasDbName, Exists, Replacement
  <2> QED BY <2>3, <2>4, <2>5 DEF Known
<1>9. \/ /\ CanDelete(Candidate(r)) /\ host' = Delete(Candidate(r))
         /\ Keep(r, loc[r]) /\ Go(r, (IF loc[r].ready THEN "busy" ELSE "refused")) /\ mishaps' = mishaps
      \/ host' = host /\ Raise(r) /\ (mishaps' = mishaps \/ Mishap(r, "error"))
      \/ CanDelete(Candidate(r)) /\ host' = Delete(Candidate(r)) /\ Mishap(r, "lost") /\ Raise(r)
  BY <1>1 DEF Call
<1>10. learning' \in {"no", "before", "after"}
  BY <1>1 DEF IInv, TypeOK
<1> QED BY <1>1, <1>2, <1>3, <1>7, <1>8, <1>9, <1>10, AppStep

(* The app in use is stopped. *)
LEMMA StopOldKeeps ==
  ASSUME IInv, NEW r \in Runs, StopOld(r)
  PROVE  IInv'
<1>1. PICK l : /\ l = [loc[r] EXCEPT !.stopped = TRUE]
               /\ pc[r] = "stop_old" /\ file' = file /\ (host' = host => learning' = learning) /\ learning' \in {"no", learning}
               /\ Call(r, CanStop(loc[r].old), Stop(loc[r].old), l, "rename_old")
  BY DEF StopOld, At
<1>2. pc[r] \in Active /\ pc[r] \in Switch /\ "rename_old" \in Ahead
  BY <1>1 DEF Active, Ahead, Ended, Before, Switch, Rollout, UndoRollout, Undo
<1>3. Known(r) /\ loc[r] \in Local /\ HostOK
  BY <1>2, Here
<1>4. loc[r].old # None /\ Exists(loc[r].old) /\ Role(loc[r].old) = "app" /\ loc[r].old \in Ids
  BY <1>1, <1>3 DEF Known, AppsKnown, Local
<1>5. /\ l \in Local /\ l.old = loc[r].old /\ l.db = loc[r].db /\ l.new \in {None, New(r)} /\ l.key = loc[r].key
      /\ l.ready = loc[r].ready /\ l.renamed_db = loc[r].renamed_db /\ l.replacement = loc[r].replacement
  BY <1>1, <1>3, IdsOf DEF Local, Known, AppsKnown, New
<1>7. ASSUME CanStop(loc[r].old), host' = Stop(loc[r].old) PROVE AppTouched(r, loc[r].old)
  BY <1>3, <1>4, <1>7, NamesDiffer, StopKeeps DEF AppTouched, Touches, Exists
<1>8. ASSUME CanStop(loc[r].old), host' = Stop(loc[r].old), Keep(r, l), Go(r, "rename_old"), "rename_old" \in Active
      PROVE  Known(r)'
  <2>1. loc'[r] = l /\ pc'[r] = "rename_old" /\ AppTouched(r, loc[r].old)
    BY <1>2, <1>7, <1>8, Here
  <2>2. /\ loc[r].old # None => host'.box[loc[r].old] # None
        /\ loc[r].db # None => host'.box[loc[r].db] = host.box[loc[r].db]
    BY <1>2, <2>1, StillThere
  <2>3. AppsKnown(r)'
    BY <1>1, <1>2, <1>3, <1>5, <1>8, <2>1, <2>2 DEF Known, AppsKnown, Exists, New
  <2>4. KeyKnown(r)'
    BY <1>1, <1>2, <1>3, <1>5, <1>8, <2>1 DEF Known, KeyKnown, Early, Candidacy, AppTouched
  <2>5. DbKnown(r)'
    BY <1>1, <1>2, <1>3, <1>5, <2>1, <2>2 DEF Known, DbKnown, BeforeRename, Before, Replaced, HasDbName, Exists, Replacement
  <2> QED BY <2>3, <2>4, <2>5 DEF Known
<1>9. \/ CanStop(loc[r].old) /\ host' = Stop(loc[r].old) /\ Keep(r, l) /\ Go(r, "rename_old") /\ mishaps' = mishaps
      \/ host' = host /\ Raise(r) /\ (mishaps' = mishaps \/ Mishap(r, "error"))
      \/ CanStop(loc[r].old) /\ host' = Stop(loc[r].old) /\ Mishap(r, "lost") /\ Raise(r)
  BY <1>1 DEF Call
<1>10. learning' \in {"no", "before", "after"}
  BY <1>1 DEF IInv, TypeOK
<1> QED BY <1>1, <1>2, <1>3, <1>5, <1>7, <1>8, <1>9, <1>10, AppStep

(* It gives its name away. *)
LEMMA RenameOldKeeps ==
  ASSUME IInv, NEW r \in Runs, RenameOld(r)
  PROVE  IInv'
<1>1. PICK l : /\ l = [loc[r] EXCEPT !.renamed = TRUE]
               /\ pc[r] = "rename_old" /\ file' = file /\ learning' = learning
               /\ Call(r, CanRename(loc[r].old, RollbackName(r)), Rename(loc[r].old, RollbackName(r)), l, "inspect_db")
  BY DEF RenameOld, At
<1>2. pc[r] \in Active /\ pc[r] \in Switch /\ "inspect_db" \in Ahead
  BY <1>1 DEF Active, Ahead, Ended, Before, Switch, Rollout, UndoRollout, Undo
<1>3. Known(r) /\ loc[r] \in Local /\ HostOK
  BY <1>2, Here
<1>4. loc[r].old # None /\ Exists(loc[r].old) /\ Role(loc[r].old) = "app" /\ loc[r].old \in Ids
  BY <1>1, <1>3 DEF Known, AppsKnown, Local
<1>5. /\ l \in Local /\ l.old = loc[r].old /\ l.db = loc[r].db /\ l.new \in {None, New(r)} /\ l.key = loc[r].key
      /\ l.ready = loc[r].ready /\ l.renamed_db = loc[r].renamed_db /\ l.replacement = loc[r].replacement
  BY <1>1, <1>3, IdsOf DEF Local, Known, AppsKnown, New
<1>7. ASSUME CanRename(loc[r].old, RollbackName(r)), host' = Rename(loc[r].old, RollbackName(r)) PROVE AppTouched(r, loc[r].old)
  BY <1>3, <1>4, <1>7, NamesDiffer, RenameKeeps DEF AppTouched, Touches, Exists
<1>8. ASSUME CanRename(loc[r].old, RollbackName(r)), host' = Rename(loc[r].old, RollbackName(r)),
             Keep(r, l), Go(r, "inspect_db"), "inspect_db" \in Active
      PROVE  Known(r)'
  <2>1. loc'[r] = l /\ pc'[r] = "inspect_db" /\ AppTouched(r, loc[r].old)
    BY <1>2, <1>7, <1>8, Here
  <2>2. /\ loc[r].old # None => host'.box[loc[r].old] # None
        /\ loc[r].db # None => host'.box[loc[r].db] = host.box[loc[r].db]
    BY <1>2, <2>1, StillThere
  <2>3. AppsKnown(r)'
    BY <1>1, <1>2, <1>3, <1>5, <1>8, <2>1, <2>2 DEF Known, AppsKnown, Exists, New
  <2>4. KeyKnown(r)'
    BY <1>1, <1>2, <1>3, <1>5, <1>8, <2>1 DEF Known, KeyKnown, Early, Candidacy, AppTouched
  <2>5. DbKnown(r)'
    BY <1>1, <1>2, <1>3, <1>5, <2>1, <2>2 DEF Known, DbKnown, BeforeRename, Before, Replaced, HasDbName, Exists, Replacement
  <2> QED BY <2>3, <2>4, <2>5 DEF Known
<1>9. \/ /\ CanRename(loc[r].old, RollbackName(r)) /\ host' = Rename(loc[r].old, RollbackName(r))
         /\ Keep(r, l) /\ Go(r, "inspect_db") /\ mishaps' = mishaps
      \/ host' = host /\ Raise(r) /\ (mishaps' = mishaps \/ Mishap(r, "error"))
      \/ CanRename(loc[r].old, RollbackName(r)) /\ host' = Rename(loc[r].old, RollbackName(r)) /\ Mishap(r, "lost") /\ Raise(r)
  BY <1>1 DEF Call
<1>10. learning' \in {"no", "before", "after"}
  BY <1>1 DEF IInv, TypeOK
<1> QED BY <1>1, <1>2, <1>3, <1>5, <1>7, <1>8, <1>9, <1>10, AppStep

(* The new app, with the password of the volume. *)
LEMMA CreateNewKeeps ==
  ASSUME IInv, NEW r \in Runs, CreateNew(r)
  PROVE  IInv'
<1> DEFINE box == Image(r, AppName, "app")
<1>1. PICK l : /\ l = [loc[r] EXCEPT !.new = New(r)]
               /\ pc[r] = "create_new" /\ file' = file /\ learning' = learning
               /\ Call(r, CanCreate(AppName), Create(New(r), box), l, "start_new")
  BY DEF CreateNew, At
<1>2. pc[r] \in Active /\ pc[r] \in Switch /\ "start_new" \in Ahead
  BY <1>1 DEF Active, Ahead, Ended, Before, Switch, Rollout, UndoRollout, Undo
<1>3. Known(r) /\ loc[r] \in Local /\ HostOK
  BY <1>2, Here
<1>4. New(r) \in Ids /\ Role(New(r)) = "app" /\ New(r)[1] = r
  BY IdsOf
<1>5. /\ l \in Local /\ l.old = loc[r].old /\ l.db = loc[r].db /\ l.new \in {None, New(r)} /\ l.key = loc[r].key
      /\ l.ready = loc[r].ready /\ l.renamed_db = loc[r].renamed_db /\ l.replacement = loc[r].replacement
  BY <1>1, <1>3, IdsOf DEF Local, Known, AppsKnown, New
<1>6. box \in Containers /\ ~box.on /\ box.name = AppName /\ box.key = loc[r].key /\ box.key = host.volume /\ host.volume # None
  BY <1>1, <1>3, NamesDiffer DEF Image, Containers, Local, Known, KeyKnown, Early, Candidacy
<1> HIDE DEF box
<1>7. ASSUME CanCreate(AppName), host' = Create(New(r), box) PROVE AppTouched(r, New(r))
  BY <1>6, <1>3, <1>4, <1>7, NamesDiffer, CreateKeeps DEF AppTouched, Touches, Exists
<1>8. ASSUME CanCreate(AppName), host' = Create(New(r), box), Keep(r, l), Go(r, "start_new"), "start_new" \in Active
      PROVE  Known(r)'
  <2>1. loc'[r] = l /\ pc'[r] = "start_new" /\ AppTouched(r, New(r))
    BY <1>2, <1>7, <1>8, Here
  <2>2. /\ loc[r].old # None => host'.box[loc[r].old] # None
        /\ loc[r].db # None => host'.box[loc[r].db] = host.box[loc[r].db]
    BY <1>2, <2>1, StillThere
  <2>3. AppsKnown(r)'
    BY <1>1, <1>2, <1>3, <1>5, <1>8, <2>1, <2>2 DEF Known, AppsKnown, Exists, New
  <2>4. KeyKnown(r)'
    BY <1>1, <1>2, <1>3, <1>5, <1>8, <2>1 DEF Known, KeyKnown, Early, Candidacy, AppTouched
  <2>5. DbKnown(r)'
    <3>1. loc[r].db # None /\ Role(loc[r].db) = "db"
      BY <1>1, <1>3 DEF Known, DbKnown
    <3> QED BY <1>2, <1>8, <1>5, <2>1, <3>1, DbAfter DEF Undo
  <2> QED BY <2>3, <2>4, <2>5 DEF Known
<1>9. \/ CanCreate(AppName) /\ host' = Create(New(r), box) /\ Keep(r, l) /\ Go(r, "start_new") /\ mishaps' = mishaps
      \/ host' = host /\ Raise(r) /\ (mishaps' = mishaps \/ Mishap(r, "error"))
      \/ CanCreate(AppName) /\ host' = Create(New(r), box) /\ Mishap(r, "lost") /\ Raise(r)
  BY <1>1 DEF Call
<1>10. learning' \in {"no", "before", "after"}
  BY <1>1 DEF IInv, TypeOK
<1> QED BY <1>1, <1>2, <1>3, <1>5, <1>7, <1>8, <1>9, <1>10, AppStep

(* It is started. *)
LEMMA StartNewKeeps ==
  ASSUME IInv, NEW r \in Runs, StartNew(r)
  PROVE  IInv'
<1>1. /\ pc[r] = "start_new" /\ file' = file /\ learning' = learning
      /\ Call(r, CanStart(New(r)), Start(New(r)), loc[r], "wait_new")
  BY DEF StartNew, At
<1>2. pc[r] \in Active /\ pc[r] \in Switch /\ "wait_new" \in Ahead
  BY <1>1 DEF Active, Ahead, Ended, Before, Switch, Rollout, UndoRollout, Undo
<1>3. Known(r) /\ loc[r] \in Local /\ HostOK
  BY <1>2, Here
<1>4. New(r) \in Ids /\ Role(New(r)) = "app" /\ New(r)[1] = r
  BY IdsOf
<1>7. ASSUME CanStart(New(r)), host' = Start(New(r)) PROVE AppTouched(r, New(r))
  BY <1>3, <1>4, <1>7, NamesDiffer, StartKeeps DEF AppTouched, Touches, Exists
<1>8. ASSUME CanStart(New(r)), host' = Start(New(r)), Keep(r, loc[r]), Go(r, "wait_new"), "wait_new" \in Active
      PROVE  Known(r)'
  <2>1. loc'[r] = loc[r] /\ pc'[r] = "wait_new" /\ AppTouched(r, New(r))
    BY <1>2, <1>7, <1>8, Here
  <2>2. /\ loc[r].old # None => host'.box[loc[r].old] # None
        /\ loc[r].db # None => host'.box[loc[r].db] = host.box[loc[r].db]
    BY <1>2, <2>1, StillThere
  <2>3. AppsKnown(r)'
    BY <1>1, <1>2, <1>3, <1>8, <2>1, <2>2 DEF Known, AppsKnown, Exists, New
  <2>4. KeyKnown(r)'
    BY <1>1, <1>2, <1>3, <1>8, <2>1 DEF Known, KeyKnown, Early, Candidacy, AppTouched
  <2>5. DbKnown(r)'
    <3>1. loc[r].db # None /\ Role(loc[r].db) = "db"
      BY <1>1, <1>3 DEF Known, DbKnown
    <3> QED BY <1>2, <1>8, <2>1, <3>1, DbAfter DEF Undo
  <2> QED BY <2>3, <2>4, <2>5 DEF Known
<1>9. \/ CanStart(New(r)) /\ host' = Start(New(r)) /\ Keep(r, loc[r]) /\ Go(r, "wait_new") /\ mishaps' = mishaps
      \/ host' = host /\ Raise(r) /\ (mishaps' = mishaps \/ Mishap(r, "error"))
      \/ CanStart(New(r)) /\ host' = Start(New(r)) /\ Mishap(r, "lost") /\ Raise(r)
  BY <1>1 DEF Call
<1>10. learning' \in {"no", "before", "after"}
  BY <1>1 DEF IInv, TypeOK
<1> QED BY <1>1, <1>2, <1>3, <1>7, <1>8, <1>9, <1>10, AppStep

(* The handler stops it. *)
LEMMA HaltNewKeeps ==
  ASSUME IInv, NEW r \in Runs, HaltNew(r)
  PROVE  IInv'
<1>1. /\ pc[r] = "halt_new" /\ file' = file /\ learning' = learning
      /\ Call(r, CanStop(loc[r].new), Stop(loc[r].new), loc[r], "delete_new")
  BY DEF HaltNew, At
<1>2. pc[r] \in Active /\ pc[r] \in Undo /\ "delete_new" \in Ahead
  BY <1>1 DEF Active, Ahead, Ended, Before, Switch, Rollout, UndoRollout, Undo
<1>3. Known(r) /\ loc[r] \in Local /\ HostOK
  BY <1>2, Here
<1>4. loc[r].new \in Ids /\ Role(loc[r].new) = "app" /\ loc[r].new[1] = r
  BY <1>1, <1>3, IdsOf DEF Known, AppsKnown
<1>7. ASSUME CanStop(loc[r].new), host' = Stop(loc[r].new) PROVE AppTouched(r, loc[r].new)
  BY <1>3, <1>4, <1>7, NamesDiffer, StopKeeps DEF AppTouched, Touches, Exists, CanStop, On
<1>8. ASSUME CanStop(loc[r].new), host' = Stop(loc[r].new), Keep(r, loc[r]), Go(r, "delete_new"), "delete_new" \in Active
      PROVE  Known(r)'
  <2>1. loc'[r] = loc[r] /\ pc'[r] = "delete_new" /\ AppTouched(r, loc[r].new)
    BY <1>2, <1>7, <1>8, Here
  <2>2. /\ loc[r].old # None => host'.box[loc[r].old] # None
        /\ loc[r].db # None => host'.box[loc[r].db] = host.box[loc[r].db]
    BY <1>2, <2>1, StillThere
  <2>3. AppsKnown(r)'
    BY <1>1, <1>2, <1>3, <1>8, <2>1, <2>2 DEF Known, AppsKnown, Exists, New
  <2>4. KeyKnown(r)'
    BY <1>1, <1>2, <1>3, <1>8, <2>1 DEF Known, KeyKnown, Early, Candidacy, AppTouched
  <2>5. DbKnown(r)'
    <3>1. loc[r].db # None /\ Role(loc[r].db) = "db"
      BY <1>1, <1>3 DEF Known, DbKnown
    <3> QED BY <1>2, <1>8, <2>1, <3>1, DbAfter DEF Undo
  <2> QED BY <2>3, <2>4, <2>5 DEF Known
<1>9. \/ CanStop(loc[r].new) /\ host' = Stop(loc[r].new) /\ Keep(r, loc[r]) /\ Go(r, "delete_new") /\ mishaps' = mishaps
      \/ host' = host /\ Raise(r) /\ (mishaps' = mishaps \/ Mishap(r, "error"))
      \/ CanStop(loc[r].new) /\ host' = Stop(loc[r].new) /\ Mishap(r, "lost") /\ Raise(r)
  BY <1>1 DEF Call
<1>10. learning' \in {"no", "before", "after"}
  BY <1>1 DEF IInv, TypeOK
<1> QED BY <1>1, <1>2, <1>3, <1>7, <1>8, <1>9, <1>10, AppStep

(* And deletes it. *)
LEMMA DeleteNewKeeps ==
  ASSUME IInv, NEW r \in Runs, DeleteNew(r)
  PROVE  IInv'
<1>1. /\ pc[r] = "delete_new" /\ file' = file /\ learning' = learning
      /\ Call(r, CanDelete(loc[r].new), Delete(loc[r].new), loc[r], Restore(loc[r]))
  BY DEF DeleteNew, At
<1>2. pc[r] \in Active /\ pc[r] \in Undo /\ Restore(loc[r]) \in Ahead
      /\ Restore(loc[r]) \in {"failed", "rename_back", "restart_old"} /\ "failed" \notin Active
  BY <1>1 DEF Active, Ahead, Ended, Before, Switch, Rollout, UndoRollout, Undo, Restore
<1>3. Known(r) /\ loc[r] \in Local /\ HostOK
  BY <1>2, Here
<1>4. loc[r].new \in Ids /\ Role(loc[r].new) = "app" /\ loc[r].new[1] = r
  BY <1>1, <1>3, IdsOf DEF Known, AppsKnown
<1>7. ASSUME CanDelete(loc[r].new), host' = Delete(loc[r].new) PROVE AppTouched(r, loc[r].new)
  BY <1>3, <1>4, <1>7, NamesDiffer, DeleteKeeps DEF AppTouched, Touches, Exists
<1>8. ASSUME CanDelete(loc[r].new), host' = Delete(loc[r].new), Keep(r, loc[r]), Go(r,
             Restore(loc[r])), Restore(loc[r]) \in Active
      PROVE  Known(r)'
  <2>1. loc'[r] = loc[r] /\ pc'[r] = Restore(loc[r]) /\ AppTouched(r, loc[r].new)
    BY <1>2, <1>7, <1>8, Here
  <2>2. /\ loc[r].old # None => host'.box[loc[r].old] # None
        /\ loc[r].db # None => host'.box[loc[r].db] = host.box[loc[r].db]
    BY <1>2, <2>1, StillThere
  <2>3. AppsKnown(r)'
    BY <1>1, <1>2, <1>3, <1>8, <2>1, <2>2, RestorePlaces DEF Known, AppsKnown, Exists, New
  <2>4. KeyKnown(r)'
    BY <1>1, <1>2, <1>3, <1>8, <2>1 DEF Known, KeyKnown, Early, Candidacy, AppTouched
  <2>5. DbKnown(r)'
    <3>1. loc[r].db # None /\ Role(loc[r].db) = "db"
      BY <1>1, <1>3 DEF Known, DbKnown
    <3> QED BY <1>2, <1>8, <2>1, <3>1, DbAfter DEF Undo
  <2> QED BY <2>3, <2>4, <2>5 DEF Known
<1>9. \/ CanDelete(loc[r].new) /\ host' = Delete(loc[r].new) /\ Keep(r, loc[r]) /\ Go(r, Restore(loc[r])) /\ mishaps' = mishaps
      \/ host' = host /\ Raise(r) /\ (mishaps' = mishaps \/ Mishap(r, "error"))
      \/ CanDelete(loc[r].new) /\ host' = Delete(loc[r].new) /\ Mishap(r, "lost") /\ Raise(r)
  BY <1>1 DEF Call
<1>10. learning' \in {"no", "before", "after"}
  BY <1>1 DEF IInv, TypeOK
<1> QED BY <1>1, <1>2, <1>3, <1>7, <1>8, <1>9, <1>10, AppStep

(* The old app has its name again. *)
LEMMA RenameBackKeeps ==
  ASSUME IInv, NEW r \in Runs, RenameBack(r)
  PROVE  IInv'
<1>1. /\ pc[r] = "rename_back" /\ file' = file /\ learning' = learning
      /\ Call(r, CanRename(loc[r].old, AppName), Rename(loc[r].old, AppName), loc[r], "restart_old")
  BY DEF RenameBack, At
<1>2. pc[r] \in Active /\ pc[r] \in Undo /\ "restart_old" \in Ahead
  BY <1>1 DEF Active, Ahead, Ended, Before, Switch, Rollout, UndoRollout, Undo
<1>3. Known(r) /\ loc[r] \in Local /\ HostOK
  BY <1>2, Here
<1>4. loc[r].old # None /\ Exists(loc[r].old) /\ Role(loc[r].old) = "app" /\ loc[r].old \in Ids
  BY <1>1, <1>3 DEF Known, AppsKnown, Local
<1>7. ASSUME CanRename(loc[r].old, AppName), host' = Rename(loc[r].old, AppName) PROVE AppTouched(r, loc[r].old)
  BY <1>3, <1>4, <1>7, NamesDiffer, RenameKeeps DEF AppTouched, Touches, Exists
<1>8. ASSUME CanRename(loc[r].old, AppName), host' = Rename(loc[r].old, AppName), Keep(r, loc[r]),
             Go(r, "restart_old"), "restart_old" \in Active
      PROVE  Known(r)'
  <2>1. loc'[r] = loc[r] /\ pc'[r] = "restart_old" /\ AppTouched(r, loc[r].old)
    BY <1>2, <1>7, <1>8, Here
  <2>2. /\ loc[r].old # None => host'.box[loc[r].old] # None
        /\ loc[r].db # None => host'.box[loc[r].db] = host.box[loc[r].db]
    BY <1>2, <2>1, StillThere
  <2>3. AppsKnown(r)'
    BY <1>1, <1>2, <1>3, <1>8, <2>1, <2>2 DEF Known, AppsKnown, Exists, New
  <2>4. KeyKnown(r)'
    BY <1>1, <1>2, <1>3, <1>8, <2>1 DEF Known, KeyKnown, Early, Candidacy, AppTouched
  <2>5. DbKnown(r)'
    <3>1. loc[r].db # None /\ Role(loc[r].db) = "db"
      BY <1>1, <1>3 DEF Known, DbKnown
    <3> QED BY <1>2, <1>8, <2>1, <3>1, DbAfter DEF Undo
  <2> QED BY <2>3, <2>4, <2>5 DEF Known
<1>9. \/ /\ CanRename(loc[r].old, AppName) /\ host' = Rename(loc[r].old, AppName)
         /\ Keep(r, loc[r]) /\ Go(r, "restart_old") /\ mishaps' = mishaps
      \/ host' = host /\ Raise(r) /\ (mishaps' = mishaps \/ Mishap(r, "error"))
      \/ CanRename(loc[r].old, AppName) /\ host' = Rename(loc[r].old, AppName) /\ Mishap(r, "lost") /\ Raise(r)
  BY <1>1 DEF Call
<1>10. learning' \in {"no", "before", "after"}
  BY <1>1 DEF IInv, TypeOK
<1> QED BY <1>1, <1>2, <1>3, <1>7, <1>8, <1>9, <1>10, AppStep

(* And is started. *)
LEMMA RestartOldKeeps ==
  ASSUME IInv, NEW r \in Runs, RestartOld(r)
  PROVE  IInv'
<1>1. /\ pc[r] = "restart_old" /\ file' = file /\ learning' = learning
      /\ Call(r, CanStart(loc[r].old), Start(loc[r].old), loc[r], "failed")
  BY DEF RestartOld, At
<1>2. pc[r] \in Active /\ pc[r] \in Undo /\ "failed" \in Ahead /\ "failed" \notin Active
  BY <1>1 DEF Active, Ahead, Ended, Before, Switch, Rollout, UndoRollout, Undo
<1>3. Known(r) /\ loc[r] \in Local /\ HostOK
  BY <1>2, Here
<1>4. loc[r].old # None /\ Exists(loc[r].old) /\ Role(loc[r].old) = "app" /\ loc[r].old \in Ids
  BY <1>1, <1>3 DEF Known, AppsKnown, Local
<1>7. ASSUME CanStart(loc[r].old), host' = Start(loc[r].old) PROVE AppTouched(r, loc[r].old)
  BY <1>3, <1>4, <1>7, NamesDiffer, StartKeeps DEF AppTouched, Touches, Exists
<1>8. ASSUME CanStart(loc[r].old), host' = Start(loc[r].old), Keep(r, loc[r]), Go(r, "failed"), "failed" \in Active
      PROVE  Known(r)'
  <2>1. loc'[r] = loc[r] /\ pc'[r] = "failed" /\ AppTouched(r, loc[r].old)
    BY <1>2, <1>7, <1>8, Here
  <2>2. /\ loc[r].old # None => host'.box[loc[r].old] # None
        /\ loc[r].db # None => host'.box[loc[r].db] = host.box[loc[r].db]
    BY <1>2, <2>1, StillThere
  <2>3. AppsKnown(r)'
    BY <1>1, <1>2, <1>3, <1>8, <2>1, <2>2 DEF Known, AppsKnown, Exists, New
  <2>4. KeyKnown(r)'
    BY <1>1, <1>2, <1>3, <1>8, <2>1 DEF Known, KeyKnown, Early, Candidacy, AppTouched
  <2>5. DbKnown(r)'
    <3>1. loc[r].db # None /\ Role(loc[r].db) = "db"
      BY <1>1, <1>3 DEF Known, DbKnown
    <3> QED BY <1>2, <1>8, <2>1, <3>1, DbAfter DEF Undo
  <2> QED BY <2>3, <2>4, <2>5 DEF Known
<1>9. \/ CanStart(loc[r].old) /\ host' = Start(loc[r].old) /\ Keep(r, loc[r]) /\ Go(r, "failed") /\ mishaps' = mishaps
      \/ host' = host /\ Raise(r) /\ (mishaps' = mishaps \/ Mishap(r, "error"))
      \/ CanStart(loc[r].old) /\ host' = Start(loc[r].old) /\ Mishap(r, "lost") /\ Raise(r)
  BY <1>1 DEF Call
<1>10. learning' \in {"no", "before", "after"}
  BY <1>1 DEF IInv, TypeOK
<1> QED BY <1>1, <1>2, <1>3, <1>7, <1>8, <1>9, <1>10, AppStep

-----------------------------------------------------------------------------
(* Calls about databases *)

(* The container is as a call leaves it that concerns a database. *)
DbTouched(r, c) ==
  /\ Touches(r, c) /\ Role(c) = "db"
  /\ host.volume # None => host'.volume = host.volume

(* Such a call is answered, refused or fails, or its answer is lost. *)
LEMMA DbStep ==
  ASSUME IInv, NEW r \in Runs, pc[r] \in Active \ {"record"}, file' = file, learning' = learning,
         NEW c, NEW l \in Local, NEW place \in Ahead,
         \/ /\ DbTouched(r, c) /\ Keep(r, l) /\ Go(r, place) /\ mishaps' = mishaps
            /\ RunsUnderName' /\ VolumeKept' /\ (place \in Active => Known(r)')
         \/ /\ host' = host /\ Raise(r) /\ (mishaps' = mishaps \/ Mishap(r, "error"))
            /\ pc[r] = "rename_db_back" => Spoilt' \/ Named(DbName) # {}
         \/ /\ DbTouched(r, c) /\ Mishap(r, "lost") /\ Raise(r)
            /\ RunsUnderName' /\ VolumeKept' /\ Remains(r)
  PROVE  IInv'
<1>1. Grows /\ learning' \in {"no", "before", "after"}
  BY EitherGrows DEF IInv, TypeOK
<1>2. ASSUME DbTouched(r, c) PROVE HostOK' /\ \A d \in Ids : d[1] # r => (Exists(d)' <=> Exists(d))
  BY <1>2 DEF DbTouched, Touches, Concerns, Exists
<1>3. CASE /\ DbTouched(r, c) /\ Keep(r, l) /\ Go(r, place)
           /\ RunsUnderName' /\ VolumeKept' /\ (place \in Active => Known(r)')
  <2>1. Moves(r, l, place)
    BY <1>1, <1>2, <1>3 DEF Moves, Keep, Go
  <2> QED BY <1>3, <2>1, RunStep
<1>4. CASE /\ host' = host /\ Raise(r) /\ (pc[r] = "rename_db_back" => Spoilt' \/ Named(DbName) # {})
  BY <1>1, <1>4, StepRaises
<1>5. CASE /\ DbTouched(r, c) /\ Raise(r) /\ RunsUnderName' /\ VolumeKept' /\ Remains(r)
  <2>1. pc' = [pc EXCEPT ![r] = Handler(r)] /\ loc' = [loc EXCEPT ![r] = loc[r]]
    BY <1>5 DEF Raise, Go, IInv, TypeOK
  <2>2. Moves(r, loc[r], Handler(r))
    BY <1>1, <1>2, <1>5, <2>1 DEF Moves
  <2> QED BY <1>5, <2>2, RunFails DEF DbTouched
<1> QED BY <1>3, <1>4, <1>5

(* The old app outlasts it. *)
LEMMA OldStays ==
  ASSUME IInv, NEW r \in Runs, pc[r] \in Active, NEW c, Touches(r, c)
  PROVE  loc[r].old # None => host'.box[loc[r].old] # None
<1>1. PICK old : old = loc[r].old
  OBVIOUS
<1>2. old # None => Exists(old) /\ old[1] # r /\ old \in Ids
  BY <1>1, Here DEF Known, AppsKnown, Local
<1>3. old # None => host'.box[old] # None
  BY <1>2 DEF Touches, Concerns, Exists
<1> QED BY <1>1, <1>3

(* The database concerned runs under its name, or not at all. *)
LEMMA NameIsKept ==
  ASSUME IInv, Grows, NEW c, Concerns(c),
         Misled' \/ host'.box[c] = None \/ ~host'.box[c].on \/ host'.box[c].name = DbName
  PROVE  RunsUnderName'
BY StaysExcused DEF IInv, RunsUnderName, Concerns, Exists, On

(* It keeps the password of the volume, and a database has the name. *)
LEMMA PasswordIsKept ==
  ASSUME IInv, Grows, NEW c, Concerns(c), host'.volume = host.volume,
         Spoilt' \/ /\ host'.box[c] # None /\ host.volume # None => host'.box[c].key = host.volume
                    /\ host'.box[c] # None /\ host.volume = None => host'.box[c].name = DbName
                    /\ host.volume # None => Named(DbName)' # {} \/ \E r \in Runs : pc'[r] \in Gap
  PROVE  VolumeKept'
BY StaysExcused DEF IInv, VolumeKept, Concerns, Exists, Gap

(* A database with the name is one that is found by it. *)
LEMMA NameIsFound ==
  ASSUME HostOK', NEW c, host'.box[c] # None, host'.box[c].name = DbName, c \in Ids
  PROVE  Named(DbName)' # {}
BY DEF Named, Exists

(* A database is made where there is none: the volume is not made yet, or  *)
(* an earlier mishap has left it without.                                  *)
LEMMA DbCreateKeeps ==
  ASSUME IInv, NEW r \in Runs, DbCreate(r)
  PROVE  IInv'
<1> DEFINE c == Replacement(r)
           box == [name |-> DbName, on |-> FALSE, key |-> loc[r].key, port |-> PortOf[r]]
<1>1. PICK l : /\ l = [loc[r] EXCEPT !.db = c]
               /\ pc[r] = "db_create" /\ file' = file /\ learning' = learning
               /\ Call(r, CanCreate(DbName), Create(c, box), l, "db_start")
  BY DEF DbCreate, At, Replacement
<1>2. pc[r] \in Active /\ pc[r] \in Before /\ pc[r] \notin Gap /\ pc[r] \notin Rollout /\ "db_start" \in Ahead
  BY <1>1 DEF Active, Ahead, Before, Gap, Rollout
<1>3. Known(r) /\ loc[r] \in Local /\ HostOK
  BY <1>2, Here
<1>4. /\ l \in Local /\ l.old = loc[r].old /\ l.db = c /\ l.new = loc[r].new /\ ~l.ready
      /\ l.renamed_db = loc[r].renamed_db /\ l.replacement = loc[r].replacement
  BY <1>1, <1>3, IdsOf DEF Local, Known, KeyKnown, Early
<1>5. box \in Containers /\ ~box.on /\ box.name = DbName /\ box.port = PortOf[r]
  BY <1>3, NamesDiffer DEF Containers, Local
<1> HIDE DEF box
<1>6. ASSUME CanCreate(DbName), host' = Create(c, box)
      PROVE  DbTouched(r, c) /\ host'.box[c] = box /\ host'.volume = host.volume /\ box # None
  BY <1>3, <1>5, <1>6, IdsOf, NamesDiffer, CreateKeeps, NoneAssumption DEF DbTouched, Touches
<1>7. ASSUME CanCreate(DbName), host' = Create(c, box), Grows
      PROVE  RunsUnderName' /\ VolumeKept'
  <2>1. \A q \in Runs : pc[q] \notin Gap
    BY <1>2 DEF IInv, OneAtATime, Gap, Active, Rollout, UndoRollout
  <2>2. Spoilt \/ host.volume = None
    BY <1>7, <2>1 DEF IInv, VolumeKept, CanCreate, Gap
  <2>3. DbTouched(r, c) /\ host'.box[c] = box /\ host'.volume = host.volume
    BY <1>6, <1>7
  <2>4. Concerns(c) /\ (Spoilt' \/ host.volume = None)
    BY <1>7, <2>2, <2>3, StaysExcused DEF DbTouched, Touches
  <2>5. RunsUnderName'
    BY <1>5, <1>7, <2>3, <2>4, NameIsKept
  <2>6. VolumeKept'
    BY <1>5, <1>7, <2>3, <2>4, PasswordIsKept
  <2> QED BY <2>5, <2>6
<1>8. ASSUME CanCreate(DbName), host' = Create(c, box), Keep(r, l), Go(r, "db_start")
      PROVE  Known(r)'
  <2>1. loc'[r] = l /\ pc'[r] = "db_start" /\ DbTouched(r, c) /\ host'.box[c] = box /\ box # None
    BY <1>2, <1>6, <1>8, Here
  <2>2. loc[r].old # None => host'.box[loc[r].old] # None
    BY <1>2, <2>1, OldStays DEF DbTouched
  <2>3. AppsKnown(r)'
    BY <1>3, <1>4, <2>1, <2>2 DEF Known, AppsKnown, Exists, New
  <2>4. KeyKnown(r)'
    BY <1>4, <2>1 DEF KeyKnown, Early
  <2>5. c # None /\ Role(c) = "db" /\ ~loc[r].renamed_db /\ loc[r].replacement = None
    BY <1>1, <1>3, IdsOf, NoneAssumption DEF Known, DbKnown, BeforeRename, Before
  <2>6. DbKnown(r)'
    BY <1>4, <1>5, <2>1, <2>5 DEF DbKnown, BeforeRename, Before, Replaced, HasDbName, Exists, Replacement
  <2> QED BY <2>3, <2>4, <2>6 DEF Known
<1>9. \/ CanCreate(DbName) /\ host' = Create(c, box) /\ Keep(r, l) /\ Go(r, "db_start") /\ mishaps' = mishaps
      \/ host' = host /\ Raise(r) /\ (mishaps' = mishaps \/ Mishap(r, "error"))
      \/ CanCreate(DbName) /\ host' = Create(c, box) /\ Mishap(r, "lost") /\ Raise(r)
  BY <1>1 DEF Call
<1>10. Grows
  BY <1>2, <1>9, EitherGrows
<1>11. Remains(r)
  BY <1>2 DEF Remains, Rollout
<1> QED BY <1>1, <1>2, <1>4, <1>6, <1>7, <1>8, <1>9, <1>10, <1>11, DbStep

(* A database that starts and finds no volume makes it: it is the only one. *)
LEMMA DbStartKeeps ==
  ASSUME IInv, NEW r \in Runs, DbStart(r)
  PROVE  IInv'
<1>1. PICK c : /\ c = loc[r].db
               /\ pc[r] = "db_start" /\ file' = file /\ learning' = learning
               /\ Call(r, CanStart(c), Start(c), loc[r], "db_wait")
  BY DEF DbStart, At
<1>2. pc[r] \in Active /\ pc[r] \in Before /\ pc[r] \notin Rollout /\ "db_wait" \in Ahead
  BY <1>1 DEF Active, Ahead, Before, Rollout
<1>3. Known(r) /\ loc[r] \in Local /\ HostOK
  BY <1>2, Here
<1>4. c \in Ids /\ Role(c) = "db" /\ HasDbName(c) /\ ~loc[r].ready
  BY <1>1, <1>3 DEF Known, DbKnown, KeyKnown, Early, Local, BeforeRename, Before
<1>5. ASSUME CanStart(c), host' = Start(c)
      PROVE  /\ DbTouched(r, c) /\ host'.box[c] # None /\ host'.box[c].key = host.box[c].key
             /\ host'.box[c].name = DbName /\ host'.box[c].port = host.box[c].port
             /\ host'.volume = IF host.volume = None THEN host.box[c].key ELSE host.volume
  BY <1>3, <1>4, <1>5, StartKeeps DEF DbTouched, Touches, HasDbName
<1>6. ASSUME CanStart(c), host' = Start(c), Grows
      PROVE  RunsUnderName' /\ VolumeKept'
  <2>1. Concerns(c) /\ HostOK'
    BY <1>5, <1>6 DEF DbTouched, Touches
  <2>2. RunsUnderName'
    BY <1>5, <1>6, <2>1, NameIsKept
  <2>3. Named(DbName)' # {}
    BY <1>4, <1>5, <1>6, <2>1, NameIsFound
  <2>4. CASE host.volume # None
    <3>1. Spoilt' \/ host'.box[c].key = host.volume
      BY <1>4, <1>5, <1>6, <2>4, StaysExcused DEF IInv, VolumeKept, HasDbName
    <3>2. host'.volume = host.volume
      BY <1>5, <1>6, <2>4
    <3> QED BY <1>6, <2>1, <2>2, <2>3, <2>4, <3>1, <3>2, PasswordIsKept
  <2>5. CASE host.volume = None
    <3>1. Spoilt \/ \A d \in Ids : Exists(d) /\ Role(d) = "db" => d = c
      BY <1>3, <1>4, <2>5 DEF IInv, VolumeKept, HostOK, NamesApart, HasDbName
    <3>2. Spoilt' \/ \A d \in Ids : Exists(d)' /\ Role(d) = "db" => d = c
      BY <1>4, <1>6, <2>1, <3>1, StaysExcused DEF Concerns, Exists
    <3>3. host'.volume = host'.box[c].key /\ host'.volume # None
      BY <1>3, <1>4, <1>5, <1>6, <2>5, NoneAssumption DEF HostOK, HostType, Containers, HasDbName, Exists
    <3> QED BY <2>2, <2>3, <3>2, <3>3 DEF VolumeKept
  <2> QED BY <2>4, <2>5
<1>7. ASSUME CanStart(c), host' = Start(c), Keep(r, loc[r]), Go(r, "db_wait")
      PROVE  Known(r)'
  <2>1. /\ loc'[r] = loc[r] /\ pc'[r] = "db_wait" /\ DbTouched(r, c) /\ host'.box[c] # None
        /\ host'.box[c].name = DbName /\ host'.box[c].port = host.box[c].port
    BY <1>2, <1>5, <1>7, Here
  <2>2. loc[r].old # None => host'.box[loc[r].old] # None
    BY <1>2, <2>1, OldStays DEF DbTouched
  <2>3. AppsKnown(r)'
    BY <1>3, <2>1, <2>2 DEF Known, AppsKnown, Exists, New
  <2>4. KeyKnown(r)'
    BY <1>4, <2>1 DEF KeyKnown, Early
  <2>5. DbKnown(r)'
    BY <1>1, <1>3, <2>1 DEF Known, DbKnown, BeforeRename, Before, Replaced, HasDbName, Exists, Replacement
  <2> QED BY <2>3, <2>4, <2>5 DEF Known
<1>8. \/ CanStart(c) /\ host' = Start(c) /\ Keep(r, loc[r]) /\ Go(r, "db_wait") /\ mishaps' = mishaps
      \/ host' = host /\ Raise(r) /\ (mishaps' = mishaps \/ Mishap(r, "error"))
      \/ CanStart(c) /\ host' = Start(c) /\ Mishap(r, "lost") /\ Raise(r)
  BY <1>1 DEF Call
<1>9. Grows
  BY <1>2, <1>8, EitherGrows
<1>10. Remains(r)
  BY <1>2 DEF Remains, Rollout
<1> QED BY <1>1, <1>2, <1>3, <1>5, <1>6, <1>7, <1>8, <1>9, <1>10, DbStep

(* In the rollout the volume is made, and its password known. *)
LEMMA LateVolume ==
  ASSUME IInv, NEW r \in Runs, pc[r] \in Rollout \cup UndoRollout
  PROVE  host.volume # None /\ loc[r].key = host.volume
<1>1. pc[r] \in Active /\ pc[r] \notin Early \cup Candidacy
  BY DEF Active, Rollout, UndoRollout, Early, Candidacy
<1> QED BY <1>1, Here DEF Known, KeyKnown

(* And the run knows its apps and the password after a call as before it. *)
LEMMA LateKnown ==
  ASSUME IInv, NEW r \in Runs, pc[r] \in Rollout \cup UndoRollout, NEW c, DbTouched(r, c),
         NEW l, loc'[r] = l, l.old = loc[r].old, l.new = loc[r].new, l.key = loc[r].key,
         pc'[r] \in Rollout \cup UndoRollout
  PROVE  AppsKnown(r)' /\ KeyKnown(r)'
<1>1. pc[r] \in Active
  BY DEF Active
<1>2. Known(r) /\ host.volume # None /\ loc[r].key = host.volume /\ host'.volume = host.volume
  BY <1>1, Here, LateVolume DEF DbTouched
<1>3. loc[r].old # None => host'.box[loc[r].old] # None
  BY <1>1, OldStays DEF DbTouched
<1>4. AppsKnown(r)'
  BY <1>2, <1>3 DEF Known, AppsKnown, Exists, New, Rollout, UndoRollout
<1>5. KeyKnown(r)'
  BY <1>2 DEF KeyKnown, Early, Rollout, UndoRollout
<1> QED BY <1>4, <1>5

(* The database is stopped. *)
LEMMA StopDbKeeps ==
  ASSUME IInv, NEW r \in Runs, StopDb(r)
  PROVE  IInv'
<1>1. PICK c : /\ c = loc[r].db
               /\ pc[r] = "stop_db" /\ file' = file /\ learning' = learning
               /\ Call(r, CanStop(c), Stop(c), loc[r], "rename_db")
  BY DEF StopDb, At
<1>2. pc[r] \in Active \ {"record"} /\ pc[r] \in Rollout /\ {"rename_db"} \subseteq Ahead \cap Rollout
  BY <1>1 DEF Active, Ahead, Rollout
<1>3. Known(r) /\ loc[r] \in Local /\ HostOK /\ host.volume # None
  BY <1>2, Here, LateVolume
<1>4. /\ c \in Ids /\ Role(c) = "db" /\ HasDbName(c) /\ c # Replacement(r) /\ c # None
      /\ ~loc[r].renamed_db /\ loc[r].replacement = None
  BY <1>1, <1>3 DEF Known, DbKnown, Local, BeforeRename
<1>5. ASSUME CanStop(c), host' = Stop(c)
      PROVE  /\ DbTouched(r, c) /\ host'.box[c] # None /\ host'.box[c].key = host.box[c].key
             /\ host'.box[c].name = DbName /\ host'.volume = host.volume /\ ~host'.box[c].on
  BY <1>3, <1>4, <1>5, StopKeeps DEF DbTouched, Touches, HasDbName
<1>6. ASSUME CanStop(c), host' = Stop(c), Grows
      PROVE  RunsUnderName' /\ VolumeKept'
  <2>1. /\ Concerns(c) /\ HostOK' /\ host'.box[c] # None /\ host'.box[c].name = DbName
        /\ host'.box[c].key = host.box[c].key /\ host'.volume = host.volume
    BY <1>5, <1>6 DEF DbTouched, Touches
  <2>2. Named(DbName)' # {}
    BY <1>4, <2>1, NameIsFound
  <2>3. Spoilt' \/ host'.box[c].key = host.volume
    BY <1>3, <1>4, <1>6, <2>1, StaysExcused DEF IInv, VolumeKept, HasDbName
  <2> QED BY <1>3, <1>6, <2>1, <2>2, <2>3, NameIsKept, PasswordIsKept
<1>7. ASSUME CanStop(c), host' = Stop(c), Keep(r, loc[r]), Go(r, "rename_db")
      PROVE  Known(r)'
  <2>1. /\ loc'[r] = loc[r] /\ pc'[r] = "rename_db" /\ DbTouched(r, c) /\ host'.box[c] # None
        /\ host'.box[c].name = DbName /\ ~host'.box[c].on
    BY <1>2, <1>5, <1>7, Here
  <2>2. AppsKnown(r)' /\ KeyKnown(r)'
    BY <1>2, <2>1, LateKnown
  <2>3. DbKnown(r)'
    BY <1>1, <1>4, <2>1 DEF DbKnown, BeforeRename, Before, Replaced, HasDbName, Exists, On, Replacement
  <2> QED BY <2>2, <2>3 DEF Known
<1>8. \/ CanStop(c) /\ host' = Stop(c) /\ Keep(r, loc[r]) /\ Go(r, "rename_db") /\ mishaps' = mishaps
      \/ host' = host /\ Raise(r) /\ (mishaps' = mishaps \/ Mishap(r, "error"))
      \/ CanStop(c) /\ host' = Stop(c) /\ Mishap(r, "lost") /\ Raise(r)
  BY <1>1 DEF Call
<1>9. Grows
  BY <1>2, <1>8, EitherGrows
<1>10. ASSUME CanStop(c), host' = Stop(c), Raise(r) PROVE Remains(r)
  <2>1. host'.box[c] # None /\ host'.box[c].name = DbName /\ loc'[r].db = c
    BY <1>1, <1>5, <1>10 DEF Raise
  <2> QED BY <1>1, <2>1 DEF Remains, HasDbName, Exists
<1> QED BY <1>1, <1>2, <1>3, <1>5, <1>6, <1>7, <1>8, <1>9, <1>10, DbStep

(* It gives its name away; when the reply is lost, that is what misleads. *)
LEMMA RenameDbKeeps ==
  ASSUME IInv, NEW r \in Runs, RenameDb(r)
  PROVE  IInv'
<1>1. PICK c, l : /\ c = loc[r].db /\ l = [loc[r] EXCEPT !.renamed_db = TRUE]
                  /\ pc[r] = "rename_db" /\ file' = file /\ learning' = learning
                  /\ Call(r, CanRename(c, BeforePortName(r)), Rename(c, BeforePortName(r)), l, "create_db")
  BY DEF RenameDb, At
<1>2. pc[r] \in Active \ {"record"} /\ pc[r] \in Rollout /\ {"create_db"} \subseteq Ahead \cap Rollout
  BY <1>1 DEF Active, Ahead, Rollout
<1>3. Known(r) /\ loc[r] \in Local /\ HostOK /\ host.volume # None
  BY <1>2, Here, LateVolume
<1>4. /\ c \in Ids /\ Role(c) = "db" /\ HasDbName(c) /\ c # Replacement(r) /\ c # None
      /\ ~loc[r].renamed_db /\ loc[r].replacement = None /\ ~On(c)
  BY <1>1, <1>3 DEF Known, DbKnown, Local, BeforeRename
<1>5. /\ l \in Local /\ l.old = loc[r].old /\ l.db = c /\ l.new = loc[r].new /\ l.key = loc[r].key
      /\ l.replacement = None /\ l.renamed_db
  BY <1>1, <1>3, <1>4 DEF Local
<1>6. ASSUME CanRename(c, BeforePortName(r)), host' = Rename(c, BeforePortName(r))
      PROVE  /\ DbTouched(r, c) /\ host'.box[c] # None /\ host'.box[c].key = host.box[c].key
             /\ host'.volume = host.volume /\ ~host'.box[c].on
  BY <1>3, <1>4, <1>6, NamesDiffer, RenameKeeps DEF DbTouched, Touches, HasDbName, On, Exists
<1>7. ASSUME CanRename(c, BeforePortName(r)), host' = Rename(c, BeforePortName(r)), Grows,
             Spoilt' \/ pc'[r] = "create_db"
      PROVE  RunsUnderName' /\ VolumeKept'
  <2>1. /\ Concerns(c) /\ HostOK' /\ host'.box[c] # None /\ ~host'.box[c].on
        /\ host'.box[c].key = host.box[c].key /\ host'.volume = host.volume
    BY <1>6, <1>7 DEF DbTouched, Touches
  <2>2. Spoilt' \/ host'.box[c].key = host.volume
    BY <1>3, <1>4, <1>7, <2>1, StaysExcused DEF IInv, VolumeKept, HasDbName
  <2> QED BY <1>3, <1>7, <2>1, <2>2, NameIsKept, PasswordIsKept DEF Gap
<1>8. ASSUME CanRename(c, BeforePortName(r)), host' = Rename(c, BeforePortName(r)), Keep(r, l), Go(r, "create_db")
      PROVE  Known(r)' /\ pc'[r] = "create_db"
  <2>1. /\ loc'[r] = l /\ pc'[r] = "create_db" /\ DbTouched(r, c) /\ host'.box[c] # None
    BY <1>2, <1>6, <1>8, Here
  <2>2. AppsKnown(r)' /\ KeyKnown(r)'
    BY <1>2, <1>5, <2>1, LateKnown
  <2>3. DbKnown(r)'
    BY <1>4, <1>5, <2>1 DEF DbKnown, BeforeRename, Before, Replaced, HasDbName, Exists, Replacement
  <2> QED BY <2>1, <2>2, <2>3 DEF Known
<1>9. \/ /\ CanRename(c, BeforePortName(r)) /\ host' = Rename(c, BeforePortName(r))
         /\ Keep(r, l) /\ Go(r, "create_db") /\ mishaps' = mishaps
      \/ host' = host /\ Raise(r) /\ (mishaps' = mishaps \/ Mishap(r, "error"))
      \/ CanRename(c, BeforePortName(r)) /\ host' = Rename(c, BeforePortName(r)) /\ Mishap(r, "lost") /\ Raise(r)
  BY <1>1 DEF Call
<1>10. Grows
  BY <1>2, <1>9, EitherGrows
<1>11. ASSUME Mishap(r, "lost") PROVE Misled' /\ Spoilt'
  <2>1. <<"rename_db", "lost">> \in mishaps'[r]
    BY <1>1, <1>2, <1>11, MishapGrows DEF IInv
  <2> QED BY <2>1 DEF Misled, Spoilt, Suffered, Nameless
<1>12. ASSUME Misled' PROVE Remains(r)
  BY <1>1, <1>12 DEF Remains
<1> QED BY <1>1, <1>2, <1>5, <1>6, <1>7, <1>8, <1>9, <1>10, <1>11, <1>12, DbStep

(* A replacement with the same password takes the name. *)
LEMMA CreateDbKeeps ==
  ASSUME IInv, NEW r \in Runs, CreateDb(r)
  PROVE  IInv'
<1> DEFINE c == Replacement(r)
<1>1. PICK l, box :
        /\ l = [loc[r] EXCEPT !.replacement = c]
        /\ box = [host.box[loc[r].db] EXCEPT !.name = DbName, !.on = FALSE, !.port = PortOf[r]]
        /\ pc[r] = "create_db" /\ file' = file /\ learning' = learning
        /\ Call(r, CanCreate(DbName), Create(c, box), l, "replace_db")
  BY DEF CreateDb, At
<1>2. pc[r] \in Active \ {"record"} /\ pc[r] \in Rollout /\ {"replace_db"} \subseteq Ahead \cap Rollout
  BY <1>1 DEF Active, Ahead, Rollout
<1>3. Known(r) /\ loc[r] \in Local /\ HostOK /\ host.volume # None /\ c \in Ids /\ Role(c) = "db" /\ c[1] = r
  BY <1>2, Here, LateVolume, IdsOf
<1>4. /\ loc[r].db \in Ids /\ Role(loc[r].db) = "db" /\ Exists(loc[r].db) /\ loc[r].db # c /\ loc[r].db # None
      /\ loc[r].renamed_db
  BY <1>1, <1>3 DEF Known, DbKnown, Local
<1>5. /\ l \in Local /\ l.old = loc[r].old /\ l.db = loc[r].db /\ l.new = loc[r].new /\ l.key = loc[r].key
      /\ l.replacement = c /\ l.renamed_db
  BY <1>1, <1>3, <1>4 DEF Local
<1>6. box \in Containers /\ ~box.on /\ box.name = DbName /\ box.key = host.box[loc[r].db].key /\ box # None
  <2>1. host.box[loc[r].db] \in Containers
    BY <1>3, <1>4 DEF HostOK, HostType, Exists
  <2>2. box \in Containers /\ ~box.on /\ box.name = DbName /\ box.key = host.box[loc[r].db].key
    BY <1>1, <2>1, NamesDiffer DEF Containers
  <2> QED BY <2>2, NoneAssumption
<1>7. ASSUME CanCreate(DbName), host' = Create(c, box)
      PROVE  DbTouched(r, c) /\ host'.box[c] = box /\ host'.volume = host.volume
  BY <1>3, <1>6, <1>7, NamesDiffer, CreateKeeps DEF DbTouched, Touches
<1>8. ASSUME CanCreate(DbName), host' = Create(c, box), Grows
      PROVE  RunsUnderName' /\ VolumeKept'
  <2>1. Concerns(c) /\ HostOK' /\ host'.box[c] = box /\ host'.volume = host.volume
    BY <1>7, <1>8 DEF DbTouched, Touches
  <2>2. Named(DbName)' # {}
    BY <1>3, <1>6, <2>1, NameIsFound
  <2>3. Spoilt' \/ box.key = host.volume
    BY <1>3, <1>4, <1>6, <1>8, StaysExcused DEF IInv, VolumeKept
  <2> QED BY <1>3, <1>6, <1>8, <2>1, <2>2, <2>3, NameIsKept, PasswordIsKept
<1>9. ASSUME CanCreate(DbName), host' = Create(c, box), Keep(r, l), Go(r, "replace_db")
      PROVE  Known(r)'
  <2>1. /\ loc'[r] = l /\ pc'[r] = "replace_db" /\ DbTouched(r, c) /\ host'.box[c] = box
        /\ host'.box[loc[r].db] = host.box[loc[r].db]
    BY <1>2, <1>4, <1>7, <1>9, Here DEF DbTouched, Touches, Concerns
  <2>2. AppsKnown(r)' /\ KeyKnown(r)'
    BY <1>2, <1>5, <2>1, LateKnown
  <2>3. DbKnown(r)'
    BY <1>4, <1>5, <1>6, <2>1 DEF DbKnown, BeforeRename, Before, Replaced, HasDbName, Exists, Replacement
  <2> QED BY <2>2, <2>3 DEF Known
<1>10. \/ CanCreate(DbName) /\ host' = Create(c, box) /\ Keep(r, l) /\ Go(r, "replace_db") /\ mishaps' = mishaps
       \/ host' = host /\ Raise(r) /\ (mishaps' = mishaps \/ Mishap(r, "error"))
       \/ CanCreate(DbName) /\ host' = Create(c, box) /\ Mishap(r, "lost") /\ Raise(r)
  BY <1>1 DEF Call
<1>11. Grows
  BY <1>2, <1>10, EitherGrows
<1>12. ASSUME CanCreate(DbName), host' = Create(c, box), Raise(r) PROVE Remains(r)
  <2>1. host'.box[loc'[r].db] # None
    BY <1>4, <1>7, <1>12 DEF Raise, DbTouched, Touches, Concerns, Exists
  <2> QED BY <1>1, <2>1 DEF Remains, Exists
<1> QED BY <1>1, <1>2, <1>5, <1>7, <1>8, <1>9, <1>10, <1>11, <1>12, DbStep

(* A call about the replacement that leaves its name and its password. *)
LEMMA ReplacementKept ==
  ASSUME IInv, NEW r \in Runs, pc[r] \in Replaced, Touches(r, Replacement(r)), Grows,
         host'.volume = host.volume,
         host'.box[Replacement(r)] # None, host'.box[Replacement(r)].name = DbName,
         host'.box[Replacement(r)].key = host.box[Replacement(r)].key
  PROVE  RunsUnderName' /\ VolumeKept'
<1>1. pc[r] \in Active /\ pc[r] \in Rollout \cup UndoRollout
  BY DEF Replaced, Rollout, UndoRollout, Active
<1>2. host.volume # None /\ Exists(Replacement(r)) /\ Replacement(r) \in Ids /\ Role(Replacement(r)) = "db"
  BY <1>1, Here, LateVolume, IdsOf DEF Known, DbKnown, HasDbName
<1>3. Concerns(Replacement(r)) /\ HostOK'
  BY DEF Touches
<1>4. Named(DbName)' # {}
  BY <1>2, <1>3, NameIsFound
<1>5. Spoilt' \/ host'.box[Replacement(r)].key = host.volume
  BY <1>2, StaysExcused DEF IInv, VolumeKept
<1> QED BY <1>2, <1>3, <1>4, <1>5, NameIsKept, PasswordIsKept

(* The replacement is started. *)
LEMMA ReplaceDbKeeps ==
  ASSUME IInv, NEW r \in Runs, ReplaceDb(r)
  PROVE  IInv'
<1>1. PICK c : /\ c = Replacement(r)
               /\ pc[r] = "replace_db" /\ file' = file /\ learning' = learning
               /\ Call(r, CanStart(c), Start(c), loc[r], "wait_db")
  <2>1. pc[r] = "replace_db" => loc[r].replacement = Replacement(r)
    BY Here DEF Known, DbKnown, Replaced, Active, Rollout, UndoRollout
  <2> QED BY <2>1 DEF ReplaceDb, At
<1>2. pc[r] \in Active \ {"record"} /\ pc[r] \in Rollout /\ pc[r] \in Replaced /\ {"wait_db"} \subseteq Ahead \cap Rollout
  BY <1>1 DEF Active, Ahead, Rollout, Replaced
<1>3. Known(r) /\ loc[r] \in Local /\ HostOK /\ host.volume # None /\ c \in Ids /\ Role(c) = "db" /\ c[1] = r
  BY <1>1, <1>2, Here, LateVolume, IdsOf
<1>4. /\ loc[r].db \in Ids /\ Role(loc[r].db) = "db" /\ Exists(loc[r].db) /\ loc[r].db # c /\ loc[r].db # None
      /\ loc[r].renamed_db /\ loc[r].replacement = c /\ HasDbName(c)
  BY <1>1, <1>2, <1>3 DEF Known, DbKnown, Local
<1>5. ASSUME CanStart(c), host' = Start(c)
      PROVE  /\ DbTouched(r, c) /\ host'.box[c] # None /\ host'.box[c].key = host.box[c].key
             /\ host'.box[c].name = DbName /\ host'.volume = host.volume
  BY <1>3, <1>4, <1>5, StartKeeps DEF DbTouched, Touches, HasDbName
<1>6. ASSUME CanStart(c), host' = Start(c), Grows
      PROVE  RunsUnderName' /\ VolumeKept'
  BY <1>1, <1>2, <1>5, <1>6, ReplacementKept DEF DbTouched
<1>7. ASSUME CanStart(c), host' = Start(c), Keep(r, loc[r]), Go(r, "wait_db")
      PROVE  Known(r)'
  <2>1. /\ loc'[r] = loc[r] /\ pc'[r] = "wait_db" /\ DbTouched(r, c) /\ host'.box[c] # None
        /\ host'.box[c].name = DbName /\ host'.box[loc[r].db] = host.box[loc[r].db]
    BY <1>2, <1>4, <1>5, <1>7, Here DEF DbTouched, Touches, Concerns
  <2>2. AppsKnown(r)' /\ KeyKnown(r)'
    BY <1>2, <2>1, LateKnown
  <2>3. DbKnown(r)'
    BY <1>1, <1>4, <2>1 DEF DbKnown, BeforeRename, Before, Replaced, HasDbName, Exists, Replacement
  <2> QED BY <2>2, <2>3 DEF Known
<1>8. \/ CanStart(c) /\ host' = Start(c) /\ Keep(r, loc[r]) /\ Go(r, "wait_db") /\ mishaps' = mishaps
      \/ host' = host /\ Raise(r) /\ (mishaps' = mishaps \/ Mishap(r, "error"))
      \/ CanStart(c) /\ host' = Start(c) /\ Mishap(r, "lost") /\ Raise(r)
  BY <1>1 DEF Call
<1>9. Grows
  BY <1>2, <1>8, EitherGrows
<1>10. ASSUME CanStart(c), host' = Start(c), Raise(r) PROVE Remains(r)
  <2>1. /\ loc'[r] = loc[r] /\ host'.box[loc[r].db] # None
        /\ host'.box[c] # None /\ host'.box[c].name = DbName
    BY <1>4, <1>5, <1>10 DEF Raise, DbTouched, Touches, Concerns, Exists
  <2> QED BY <1>1, <1>4, <2>1 DEF Remains, Exists, HasDbName, Rollout
<1> QED BY <1>1, <1>2, <1>3, <1>5, <1>6, <1>7, <1>8, <1>9, <1>10, DbStep

(* The handler stops it. *)
LEMMA HaltDbKeeps ==
  ASSUME IInv, NEW r \in Runs, HaltDb(r)
  PROVE  IInv'
<1>1. PICK c : /\ c = Replacement(r)
               /\ pc[r] = "halt_db" /\ file' = file /\ learning' = learning
               /\ Call(r, CanStop(c), Stop(c), loc[r], "delete_db")
  <2>1. pc[r] = "halt_db" => loc[r].replacement = Replacement(r)
    BY Here DEF Known, DbKnown, Replaced, Active, Rollout, UndoRollout
  <2> QED BY <2>1 DEF HaltDb, At
<1>2. /\ pc[r] \in Active \ {"record"} /\ pc[r] \in UndoRollout
      /\ pc[r] \in Replaced /\ {"delete_db"} \subseteq Ahead \cap UndoRollout
  BY <1>1 DEF Active, Ahead, UndoRollout, Replaced
<1>3. Known(r) /\ loc[r] \in Local /\ HostOK /\ host.volume # None /\ c \in Ids /\ Role(c) = "db" /\ c[1] = r
  BY <1>1, <1>2, Here, LateVolume, IdsOf
<1>4. /\ loc[r].db \in Ids /\ Role(loc[r].db) = "db" /\ Exists(loc[r].db) /\ loc[r].db # c /\ loc[r].db # None
      /\ loc[r].renamed_db /\ loc[r].replacement = c /\ HasDbName(c)
  BY <1>1, <1>2, <1>3 DEF Known, DbKnown, Local
<1>5. ASSUME CanStop(c), host' = Stop(c)
      PROVE  /\ DbTouched(r, c) /\ host'.box[c] # None /\ host'.box[c].key = host.box[c].key
             /\ host'.box[c].name = DbName /\ host'.volume = host.volume
  BY <1>3, <1>4, <1>5, StopKeeps DEF DbTouched, Touches, HasDbName
<1>6. ASSUME CanStop(c), host' = Stop(c), Grows
      PROVE  RunsUnderName' /\ VolumeKept'
  BY <1>1, <1>2, <1>5, <1>6, ReplacementKept DEF DbTouched
<1>7. ASSUME CanStop(c), host' = Stop(c), Keep(r, loc[r]), Go(r, "delete_db")
      PROVE  Known(r)'
  <2>1. /\ loc'[r] = loc[r] /\ pc'[r] = "delete_db" /\ DbTouched(r, c) /\ host'.box[c] # None
        /\ host'.box[c].name = DbName /\ host'.box[loc[r].db] = host.box[loc[r].db]
    BY <1>2, <1>4, <1>5, <1>7, Here DEF DbTouched, Touches, Concerns
  <2>2. AppsKnown(r)' /\ KeyKnown(r)'
    BY <1>2, <2>1, LateKnown
  <2>3. DbKnown(r)'
    BY <1>1, <1>4, <2>1 DEF DbKnown, BeforeRename, Before, Replaced, HasDbName, Exists, Replacement
  <2> QED BY <2>2, <2>3 DEF Known
<1>8. \/ CanStop(c) /\ host' = Stop(c) /\ Keep(r, loc[r]) /\ Go(r, "delete_db") /\ mishaps' = mishaps
      \/ host' = host /\ Raise(r) /\ (mishaps' = mishaps \/ Mishap(r, "error"))
      \/ CanStop(c) /\ host' = Stop(c) /\ Mishap(r, "lost") /\ Raise(r)
  BY <1>1 DEF Call
<1>9. Grows
  BY <1>2, <1>8, EitherGrows
<1>10. ASSUME CanStop(c), host' = Stop(c), Raise(r) PROVE Remains(r)
  <2>1. /\ loc'[r] = loc[r] /\ host'.box[loc[r].db] # None
        /\ host'.box[c] # None /\ host'.box[c].name = DbName
    BY <1>4, <1>5, <1>10 DEF Raise, DbTouched, Touches, Concerns, Exists
  <2> QED BY <1>1, <1>4, <2>1 DEF Remains, Exists, HasDbName, Rollout
<1> QED BY <1>1, <1>2, <1>3, <1>5, <1>6, <1>7, <1>8, <1>9, <1>10, DbStep

(* The replacement is deleted: the name is free for the old database. *)
LEMMA DeleteDbKeeps ==
  ASSUME IInv, NEW r \in Runs, DeleteDb(r)
  PROVE  IInv'
<1>1. PICK c : /\ c = Replacement(r)
               /\ pc[r] = "delete_db" /\ file' = file /\ learning' = learning
               /\ Call(r, CanDelete(c), Delete(c), loc[r], "rename_db_back")
  <2>1. pc[r] = "delete_db" => loc[r].replacement = Replacement(r) /\ RestoreDb(loc[r]) = "rename_db_back"
    BY Here DEF Known, DbKnown, Replaced, Active, Rollout, UndoRollout, RestoreDb
  <2> QED BY <2>1 DEF DeleteDb, At
<1>2. pc[r] \in Active \ {"record"} /\ pc[r] \in UndoRollout /\ {"rename_db_back"} \subseteq Ahead \cap UndoRollout
  BY <1>1 DEF Active, Ahead, UndoRollout
<1>3. Known(r) /\ loc[r] \in Local /\ HostOK /\ host.volume # None /\ c \in Ids /\ Role(c) = "db" /\ c[1] = r
  BY <1>1, <1>2, Here, LateVolume, IdsOf
<1>4. /\ loc[r].db \in Ids /\ Role(loc[r].db) = "db" /\ Exists(loc[r].db) /\ loc[r].db # c /\ loc[r].db # None
  BY <1>1, <1>3 DEF Known, DbKnown, Local, Replaced
<1>5. ASSUME host' = Delete(c)
      PROVE  DbTouched(r, c) /\ host'.box[c] = None /\ host'.volume = host.volume
  BY <1>3, <1>5, DeleteKeeps DEF DbTouched, Touches
<1>6. ASSUME host' = Delete(c), Grows, Spoilt' \/ pc'[r] = "rename_db_back"
      PROVE  RunsUnderName' /\ VolumeKept'
  <2>1. Concerns(c) /\ HostOK' /\ host'.box[c] = None /\ host'.volume = host.volume
    BY <1>5, <1>6 DEF DbTouched, Touches
  <2> QED BY <1>6, <2>1, NameIsKept, PasswordIsKept DEF Gap
<1>7. ASSUME host' = Delete(c), Keep(r, loc[r]), Go(r, "rename_db_back")
      PROVE  Known(r)' /\ pc'[r] = "rename_db_back"
  <2>1. /\ loc'[r] = loc[r] /\ pc'[r] = "rename_db_back" /\ DbTouched(r, c)
        /\ host'.box[loc[r].db] = host.box[loc[r].db]
    BY <1>2, <1>4, <1>5, <1>7, Here DEF DbTouched, Touches, Concerns
  <2>2. AppsKnown(r)' /\ KeyKnown(r)'
    BY <1>2, <2>1, LateKnown
  <2>3. DbKnown(r)'
    BY <1>1, <1>4, <2>1 DEF DbKnown, BeforeRename, Before, Replaced, HasDbName, Exists, Replacement
  <2> QED BY <2>1, <2>2, <2>3 DEF Known
<1>8. \/ host' = Delete(c) /\ Keep(r, loc[r]) /\ Go(r, "rename_db_back") /\ mishaps' = mishaps
      \/ host' = host /\ Raise(r) /\ (mishaps' = mishaps \/ Mishap(r, "error"))
      \/ host' = Delete(c) /\ Mishap(r, "lost") /\ Raise(r)
  BY <1>1 DEF Call
<1>9. Grows
  BY <1>2, <1>8, EitherGrows
<1>10. ASSUME Mishap(r, "lost") PROVE Spoilt'
  <2>1. <<"delete_db", "lost">> \in mishaps'[r]
    BY <1>1, <1>2, <1>10, MishapGrows DEF IInv
  <2> QED BY <2>1 DEF Spoilt, Suffered, Nameless
<1>11. Remains(r)
  BY <1>1 DEF Remains, Rollout
<1> QED BY <1>1, <1>2, <1>3, <1>5, <1>6, <1>7, <1>8, <1>9, <1>10, <1>11, DbStep

(* The old database has its name again. *)
LEMMA RenameDbBackKeeps ==
  ASSUME IInv, NEW r \in Runs, RenameDbBack(r)
  PROVE  IInv'
<1>1. PICK c : /\ c = loc[r].db
               /\ pc[r] = "rename_db_back" /\ file' = file /\ learning' = learning
               /\ Call(r, CanRename(c, DbName), Rename(c, DbName), loc[r], "restart_db")
  BY DEF RenameDbBack, At
<1>2. pc[r] \in Active \ {"record"} /\ pc[r] \in UndoRollout /\ {"restart_db"} \subseteq Ahead \cap UndoRollout
  BY <1>1 DEF Active, Ahead, UndoRollout
<1>3. Known(r) /\ loc[r] \in Local /\ HostOK /\ host.volume # None
  BY <1>2, Here, LateVolume
<1>4. c \in Ids /\ Role(c) = "db" /\ Exists(c) /\ c # Replacement(r) /\ c # None
  BY <1>1, <1>3 DEF Known, DbKnown, Local
<1>5. ASSUME CanRename(c, DbName), host' = Rename(c, DbName)
      PROVE  /\ DbTouched(r, c) /\ host'.box[c] # None /\ host'.box[c].key = host.box[c].key
             /\ host'.box[c].name = DbName /\ host'.volume = host.volume
  BY <1>3, <1>4, <1>5, NamesDiffer, RenameKeeps DEF DbTouched, Touches
<1>6. ASSUME CanRename(c, DbName), host' = Rename(c, DbName), Grows
      PROVE  RunsUnderName' /\ VolumeKept'
  <2>1. /\ Concerns(c) /\ HostOK' /\ host'.box[c] # None /\ host'.box[c].name = DbName
        /\ host'.box[c].key = host.box[c].key /\ host'.volume = host.volume
    BY <1>5, <1>6 DEF DbTouched, Touches
  <2>2. Named(DbName)' # {}
    BY <1>4, <2>1, NameIsFound
  <2>3. Spoilt' \/ host'.box[c].key = host.volume
    BY <1>3, <1>4, <1>6, <2>1, StaysExcused DEF IInv, VolumeKept
  <2> QED BY <1>3, <1>6, <2>1, <2>2, <2>3, NameIsKept, PasswordIsKept
<1>7. ASSUME CanRename(c, DbName), host' = Rename(c, DbName), Keep(r, loc[r]), Go(r, "restart_db")
      PROVE  Known(r)'
  <2>1. /\ loc'[r] = loc[r] /\ pc'[r] = "restart_db" /\ DbTouched(r, c) /\ host'.box[c] # None
        /\ host'.box[c].name = DbName
    BY <1>2, <1>5, <1>7, Here
  <2>2. AppsKnown(r)' /\ KeyKnown(r)'
    BY <1>2, <2>1, LateKnown
  <2>3. DbKnown(r)'
    BY <1>1, <1>4, <2>1 DEF DbKnown, BeforeRename, Before, Replaced, HasDbName, Exists, Replacement
  <2> QED BY <2>2, <2>3 DEF Known
<1>8. \/ CanRename(c, DbName) /\ host' = Rename(c, DbName) /\ Keep(r, loc[r]) /\ Go(r, "restart_db") /\ mishaps' = mishaps
      \/ ~CanRename(c, DbName) /\ host' = host /\ Raise(r) /\ mishaps' = mishaps
      \/ host' = host /\ Raise(r) /\ Mishap(r, "error")
      \/ CanRename(c, DbName) /\ host' = Rename(c, DbName) /\ Mishap(r, "lost") /\ Raise(r)
  BY <1>1 DEF Call
<1>9. Grows
  BY <1>2, <1>8, EitherGrows
<1>10. ASSUME Mishap(r, "error") PROVE Spoilt'
  <2>1. <<"rename_db_back", "error">> \in mishaps'[r]
    BY <1>1, <1>2, <1>10, MishapGrows DEF IInv
  <2> QED BY <2>1 DEF Spoilt, Suffered, Nameless
<1>11. ~CanRename(c, DbName) => Named(DbName) # {}
  BY <1>4 DEF CanRename
<1>12. Remains(r)
  BY <1>1 DEF Remains, Rollout
<1>13. \/ /\ DbTouched(r, c) /\ Keep(r, loc[r]) /\ Go(r, "restart_db") /\ mishaps' = mishaps
          /\ RunsUnderName' /\ VolumeKept' /\ Known(r)'
       \/ /\ host' = host /\ Raise(r) /\ (mishaps' = mishaps \/ Mishap(r, "error"))
          /\ Spoilt' \/ Named(DbName) # {}
       \/ /\ DbTouched(r, c) /\ Mishap(r, "lost") /\ Raise(r)
          /\ RunsUnderName' /\ VolumeKept' /\ Remains(r)
  <2>1. CASE CanRename(c, DbName) /\ host' = Rename(c, DbName) /\ Keep(r, loc[r]) /\ Go(r, "restart_db") /\ mishaps' = mishaps
    BY <1>5, <1>6, <1>7, <1>9, <2>1
  <2>2. CASE ~CanRename(c, DbName) /\ host' = host /\ Raise(r) /\ mishaps' = mishaps
    BY <1>11, <2>2
  <2>3. CASE host' = host /\ Raise(r) /\ Mishap(r, "error")
    BY <1>10, <2>3
  <2>4. CASE CanRename(c, DbName) /\ host' = Rename(c, DbName) /\ Mishap(r, "lost") /\ Raise(r)
    BY <1>5, <1>6, <1>9, <1>12, <2>4
  <2> QED BY <1>8, <2>1, <2>2, <2>3, <2>4
<1> QED BY <1>1, <1>2, <1>3, <1>13, DbStep

(* And is started. *)
LEMMA RestartDbKeeps ==
  ASSUME IInv, NEW r \in Runs, RestartDb(r)
  PROVE  IInv'
<1>1. PICK c : /\ c = loc[r].db
               /\ pc[r] = "restart_db" /\ file' = file /\ learning' = learning
               /\ Call(r, CanStart(c), Start(c), loc[r], "rewait_db")
  BY DEF RestartDb, At
<1>2. pc[r] \in Active \ {"record"} /\ pc[r] \in UndoRollout /\ {"rewait_db"} \subseteq Ahead \cap UndoRollout
      /\ pc[r] \notin Gap
  BY <1>1 DEF Active, Ahead, UndoRollout, Gap
<1>3. Known(r) /\ loc[r] \in Local /\ HostOK /\ host.volume # None
  BY <1>2, Here, LateVolume
<1>4. c \in Ids /\ Role(c) = "db" /\ c # None /\ (Misled \/ HasDbName(c))
  BY <1>1, <1>3 DEF Known, DbKnown, Local
<1>5. ASSUME CanStart(c), host' = Start(c)
      PROVE  /\ DbTouched(r, c) /\ host'.box[c] # None /\ host'.box[c].key = host.box[c].key
             /\ host'.box[c].name = host.box[c].name /\ host'.volume = host.volume /\ Exists(c)
  BY <1>3, <1>4, <1>5, StartKeeps DEF DbTouched, Touches, CanStart
<1>6. ASSUME CanStart(c), host' = Start(c), Grows
      PROVE  /\ RunsUnderName' /\ VolumeKept'
             /\ Misled' \/ host'.box[c].name = DbName
  <2>1. /\ Concerns(c) /\ HostOK' /\ host'.box[c] # None /\ host'.box[c].name = host.box[c].name
        /\ host'.box[c].key = host.box[c].key /\ host'.volume = host.volume /\ Exists(c)
    BY <1>5, <1>6 DEF DbTouched, Touches
  <2>2. Misled' \/ host'.box[c].name = DbName
    BY <1>4, <1>6, <2>1, StaysExcused DEF HasDbName
  <2>3. Misled' => Spoilt'
    BY DEF Misled, Spoilt, Suffered, Nameless
  <2>4. Spoilt' \/ Named(DbName)' # {}
    BY <1>4, <2>1, <2>2, <2>3, NameIsFound
  <2>5. Spoilt' \/ host'.box[c].key = host.volume
    BY <1>3, <1>4, <1>6, <2>1, StaysExcused DEF IInv, VolumeKept
  <2> QED BY <1>3, <1>6, <2>1, <2>2, <2>4, <2>5, NameIsKept, PasswordIsKept
<1>7. ASSUME CanStart(c), host' = Start(c), Grows, Keep(r, loc[r]), Go(r, "rewait_db")
      PROVE  Known(r)'
  <2>1. /\ loc'[r] = loc[r] /\ pc'[r] = "rewait_db" /\ DbTouched(r, c) /\ host'.box[c] # None
        /\ Misled' \/ host'.box[c].name = DbName
    BY <1>2, <1>5, <1>6, <1>7, Here
  <2>2. AppsKnown(r)' /\ KeyKnown(r)'
    BY <1>2, <2>1, LateKnown
  <2>3. DbKnown(r)'
    BY <1>1, <1>4, <2>1 DEF DbKnown, BeforeRename, Before, Replaced, HasDbName, Exists, Replacement
  <2> QED BY <2>2, <2>3 DEF Known
<1>8. \/ CanStart(c) /\ host' = Start(c) /\ Keep(r, loc[r]) /\ Go(r, "rewait_db") /\ mishaps' = mishaps
      \/ host' = host /\ Raise(r) /\ (mishaps' = mishaps \/ Mishap(r, "error"))
      \/ CanStart(c) /\ host' = Start(c) /\ Mishap(r, "lost") /\ Raise(r)
  BY <1>1 DEF Call
<1>9. Grows
  BY <1>2, <1>8, EitherGrows
<1>10. Remains(r)
  BY <1>1 DEF Remains, Rollout
<1> QED BY <1>1, <1>2, <1>3, <1>5, <1>6, <1>7, <1>8, <1>9, <1>10, DbStep

-----------------------------------------------------------------------------
(* The start, and what happens around the runs *)

(* What is installed first. *)
LEMMA InstalledFits ==
  ASSUME host = Installed
  PROVE  /\ host \in HostType /\ host.volume = 0
         /\ host.box[<<0, "app">>] = [name |-> AppName, on |-> TRUE, key |-> 0, port |-> "app"]
         /\ host.box[<<0, "db">>] = [name |-> DbName, on |-> TRUE, key |-> 0, port |-> FirstPort]
         /\ \A c \in Ids : c \notin {<<0, "app">>, <<0, "db">>} => host.box[c] = None
<1> DEFINE app == [name |-> AppName, on |-> TRUE, key |-> 0, port |-> "app"]
           db == [name |-> DbName, on |-> TRUE, key |-> 0, port |-> FirstPort]
<1>1. app \in Containers /\ db \in Containers
  BY DEF Containers, Names
<1>2. <<0, "app">> \in Ids /\ <<0, "db">> \in Ids /\ <<0, "app">> # <<0, "db">>
  BY DEF Ids, Roles
<1> HIDE DEF app, db
<1>3. host.box = [c \in Ids |-> CASE c = <<0, "app">> -> app [] c = <<0, "db">> -> db [] OTHER -> None]
      /\ host.volume = 0 /\ host = [box |-> host.box, volume |-> host.volume]
  BY DEF Installed, app, db
<1>4. /\ host.box[<<0, "app">>] = app
      /\ host.box[<<0, "db">>] = db
      /\ \A c \in Ids : c \notin {<<0, "app">>, <<0, "db">>} => host.box[c] = None
  BY <1>2, <1>3
<1>5. host.box \in [Ids -> Containers \cup {None}]
  BY <1>1, <1>3, <1>4
<1>6. host \in HostType
  BY <1>3, <1>5 DEF HostType
<1> QED BY <1>3, <1>4, <1>6 DEF app, db

(* The containers are in order at the start. *)
LEMMA HostAtStart ==
  ASSUME host \in {Installed, Bare}
  PROVE  /\ HostOK /\ RunsUnderName /\ VolumeKept
         /\ \A c \in Ids : Exists(c) => c[1] = 0
<1>1. CASE host = Bare
  <2>1. host \in HostType /\ host.volume = None /\ \A c \in Ids : ~Exists(c)
    BY <1>1 DEF Bare, HostType, Exists
  <2> QED BY <2>1 DEF HostOK, NamesApart, NamesFit, AppsFit, VolumeMade, RunsUnderName, VolumeKept, On
<1>2. CASE host = Installed
  <2>1. \A c \in Ids : Exists(c) =>
          /\ c \in {<<0, "app">>, <<0, "db">>} /\ host.box[c].key = 0
          /\ host.box[c].name = IF c = <<0, "app">> THEN AppName ELSE DbName
    BY <1>2, InstalledFits DEF Exists
  <2>2. host.volume = 0 /\ 0 # None /\ host \in HostType
    BY <1>2, InstalledFits, NoneAssumption
  <2>3. AppName # DbName /\ Role(<<0, "app">>) = "app" /\ Role(<<0, "db">>) = "db"
    BY DEF AppName, DbName, Role
  <2>4. HostOK
    BY <2>1, <2>2, <2>3 DEF HostOK, NamesApart, NamesFit, AppsFit, VolumeMade, On
  <2>5. RunsUnderName
    BY <2>1, <2>3 DEF RunsUnderName, On
  <2>6. <<0, "db">> \in Named(DbName)
    <3>1. <<0, "db">> \in Ids
      BY DEF Ids, Roles
    <3>2. [name |-> DbName, on |-> TRUE, key |-> 0, port |-> FirstPort] \in Containers
      BY DEF Containers, Names
    <3> QED BY <1>2, <3>1, <3>2, InstalledFits, NoneAssumption DEF Named, Exists
  <2>7. VolumeKept
    BY <2>1, <2>2, <2>6 DEF VolumeKept
  <2> QED BY <2>1, <2>4, <2>5, <2>7
<1> QED BY <1>1, <1>2

(* The invariant holds when nothing has run. *)
LEMMA InitFits ==
  ASSUME Init
  PROVE  IInv
<1>1. \A r \in Runs : pc[r] = "none" /\ loc[r] = Fresh
  BY DEF Init
<1>2. "none" \notin Active
  BY DEF Active, Before, Switch, Rollout, UndoRollout, Undo
<1>3. HostOK /\ RunsUnderName /\ VolumeKept /\ \A c \in Ids : Exists(c) => c[1] = 0
  BY HostAtStart DEF Init
<1>4. Fresh \in Local
  BY DEF Fresh, Local
<1>5. TypeOK
  BY <1>3, <1>4 DEF TypeOK, Init, HostOK, HostType
<1>6. NotYet
  <2>1. 0 \notin Runs
    BY RunsAssumption, FS_CardinalityType
  <2>2. \A r \in Runs, role \in Roles : <<r, role>> \in Ids /\ <<r, role>>[1] = r
    BY DEF Ids
  <2> QED BY <1>1, <1>3, <2>1, <2>2 DEF NotYet
<1>7. FileKept
  BY DEF Init, FileKept
<1> QED BY <1>1, <1>2, <1>3, <1>5, <1>6, <1>7 DEF IInv, HostOK, OneAtATime

(* A run is started when no other is under way. *)
LEMMA BeginKeeps ==
  ASSUME IInv, NEW r \in Runs, Begin(r)
  PROVE  IInv'
<1>1. /\ pc[r] = "none" /\ pc' = [pc EXCEPT ![r] = "list"] /\ (\A q \in Runs : pc[q] \notin Active)
      /\ host' = host /\ loc' = loc /\ file' = file /\ learning' = learning /\ mishaps' = mishaps
  BY DEF Begin, At, Idle, Go
<1>2. pc'[r] = "list" /\ \A q \in Runs \ {r} : pc'[q] = pc[q]
  BY <1>1 DEF IInv, TypeOK
<1>3. "list" \in Active /\ {"create_db", "rename_db_back"} \subseteq Active
  BY DEF Active, Before, Rollout, UndoRollout
<1>4. loc[r] = Fresh /\ \A role \in Roles : ~Exists(<<r, role>>)
  BY <1>1 DEF IInv, NotYet
<1>5. TypeOK'
  BY <1>1, <1>3 DEF IInv, TypeOK
<1>6. NamesApart' /\ NamesFit' /\ AppsFit' /\ VolumeMade' /\ RunsUnderName'
  BY <1>1 DEF IInv, NamesApart, NamesFit, AppsFit, VolumeMade, RunsUnderName, Misled, Suffered, Exists, On
<1>7. VolumeKept'
  BY <1>1, <1>3 DEF IInv, VolumeKept, Spoilt, Suffered, Exists, Named
<1>8. FileKept'
  <2> SUFFICES ASSUME file # None, file.previous # None
               PROVE  Exists(file.previous) /\ Role(file.previous) = "app" /\ file.previous[1] # r
    BY <1>1, <1>2 DEF FileKept, Exists
  <2>1. Exists(file.previous) /\ Role(file.previous) = "app" /\ file.previous \in Ids
    BY DEF IInv, FileKept, TypeOK
  <2> QED BY <1>4, <2>1 DEF Ids
<1>9. OneAtATime' /\ NotYet'
  BY <1>1, <1>2, <1>4 DEF IInv, OneAtATime, NotYet, Exists
<1>10. Known(r)'
  BY <1>1, <1>2, <1>4 DEF Known, AppsKnown, KeyKnown, DbKnown, Fresh, Early, Candidacy, BeforeRename, Before, Replaced
<1> QED BY <1>1, <1>2, <1>5, <1>6, <1>7, <1>8, <1>9, <1>10 DEF IInv

(* The new app is recorded, and the old one for a rollback by hand. *)
LEMMA RecordKeeps ==
  ASSUME IInv, NEW r \in Runs, Record(r)
  PROVE  IInv'
<1>1. /\ pc[r] = "record" /\ pc' = [pc EXCEPT ![r] = "done"]
      /\ file' = [container |-> New(r), previous |-> loc[r].old]
      /\ host' = host /\ loc' = loc /\ learning' = learning /\ mishaps' = mishaps
  BY DEF Record, Go
<1>2. /\ pc'[r] = "done" /\ \A q \in Runs \ {r} : pc'[q] = pc[q]
      /\ pc[r] \in Active /\ "done" \notin Active \cup {"none", "list"}
      /\ {"create_db", "rename_db_back"} \subseteq Active /\ pc[r] \notin {"create_db", "rename_db_back"}
  BY <1>1 DEF IInv, TypeOK, Active, Before, Switch, Rollout, UndoRollout, Undo
<1>3. Known(r) /\ loc[r] \in Local /\ \A q \in Runs : pc'[q] \notin Active
  BY <1>2, Here DEF IInv, OneAtATime
<1>4. TypeOK'
  BY <1>1, <1>3, IdsOf DEF IInv, TypeOK, Ended, Local
<1>5. NamesApart' /\ NamesFit' /\ AppsFit' /\ VolumeMade' /\ RunsUnderName'
  BY <1>1 DEF IInv, NamesApart, NamesFit, AppsFit, VolumeMade, RunsUnderName, Misled, Suffered, Exists, On
<1>6. VolumeKept'
  BY <1>1, <1>2 DEF IInv, VolumeKept, Spoilt, Suffered, Exists, Named, OneAtATime
<1>7. FileKept'
  <2>1. loc[r].old # None => Exists(loc[r].old) /\ Role(loc[r].old) = "app"
    BY <1>3 DEF Known, AppsKnown
  <2>2. file'.previous = loc[r].old
    BY <1>1
  <2> QED BY <1>1, <1>3, <2>1, <2>2 DEF FileKept, Exists
<1>8. OneAtATime' /\ NotYet'
  BY <1>1, <1>2, <1>3 DEF IInv, OneAtATime, NotYet, Exists
<1> QED BY <1>3, <1>4, <1>5, <1>6, <1>7, <1>8 DEF IInv

(* The script is killed: between two names, the volume has lost its        *)
(* database.                                                               *)
LEMMA KilledKeeps ==
  ASSUME IInv, NEW r \in Runs, Killed(r)
  PROVE  IInv'
<1>1. /\ pc[r] \in Active /\ pc' = [pc EXCEPT ![r] = "killed"]
      /\ host' = host /\ loc' = loc /\ file' = file /\ learning' = learning
      /\ Grows /\ <<pc[r], "kill">> \in mishaps'[r]
  BY MishapGrows DEF Killed, Go, IInv
<1>2. /\ pc'[r] = "killed" /\ \A q \in Runs \ {r} : pc'[q] = pc[q]
      /\ "killed" \notin Active \cup {"none", "list"}
      /\ {"create_db", "rename_db_back"} \subseteq Active
  BY <1>1 DEF IInv, TypeOK, Active, Before, Switch, Rollout, UndoRollout, Undo
<1>3. \A q \in Runs : pc'[q] \notin Active
  BY <1>1, <1>2 DEF IInv, OneAtATime
<1>4. TypeOK'
  BY <1>1 DEF IInv, TypeOK, Ended, Grows
<1>5. NamesApart' /\ NamesFit' /\ AppsFit' /\ VolumeMade' /\ RunsUnderName'
  BY <1>1, StaysExcused DEF IInv, NamesApart, NamesFit, AppsFit, VolumeMade, RunsUnderName, Exists, On
<1>6. pc[r] \in {"create_db", "rename_db_back"} => Spoilt'
  BY <1>1 DEF Spoilt, Suffered, Nameless
<1>7. VolumeKept'
  BY <1>1, <1>2, <1>6, StaysExcused DEF IInv, VolumeKept, Exists, Named, OneAtATime
<1>8. FileKept'
  BY <1>1, <1>3 DEF IInv, FileKept, Exists
<1>9. OneAtATime' /\ NotYet'
  BY <1>1, <1>2, <1>3 DEF IInv, OneAtATime, NotYet, Exists
<1> QED BY <1>3, <1>4, <1>5, <1>7, <1>8, <1>9 DEF IInv

(* Nothing of it speaks of the learners. *)
LEMMA LearnersLeave ==
  ASSUME IInv, UNCHANGED <<host, pc, loc, file, mishaps>>, learning' \in {"no", "before", "after"}
  PROVE  IInv'
<1>1. TypeOK'
  BY DEF IInv, TypeOK
<1>2. NamesApart' /\ NamesFit' /\ AppsFit' /\ VolumeMade' /\ RunsUnderName'
  BY DEF IInv, NamesApart, NamesFit, AppsFit, VolumeMade, RunsUnderName, Misled, Suffered, Exists, On
<1>3. VolumeKept' /\ FileKept'
  BY DEF IInv, VolumeKept, FileKept, Spoilt, Suffered, Exists, Named
<1>4. OneAtATime' /\ NotYet'
  BY DEF IInv, OneAtATime, NotYet, Exists
<1>5. \A r \in Runs : pc'[r] \in Active => Known(r)'
  <2> SUFFICES ASSUME NEW r \in Runs, pc'[r] \in Active PROVE Known(r)'
    OBVIOUS
  <2>1. Known(r)
    BY DEF IInv
  <2>2. AppsKnown(r)'
    BY <2>1 DEF Known, AppsKnown, Exists
  <2>3. KeyKnown(r)'
    BY <2>1 DEF Known, KeyKnown, Exists
  <2>4. DbKnown(r)'
    BY <2>1 DEF Known, DbKnown, HasDbName, Exists, On, Misled, Suffered
  <2> QED BY <2>2, <2>3, <2>4 DEF Known
<1> QED BY <1>1, <1>2, <1>3, <1>4, <1>5 DEF IInv

(* A rollback by hand stops one container and starts an app. *)
LEMMA RollBackKeeps ==
  ASSUME IInv, RollBackByHand
  PROVE  IInv'
<1> DEFINE c == file.container
           d == file.previous
<1>1. /\ (\A q \in Runs : pc[q] \notin Active) /\ file # None /\ d # None
      /\ On(c) /\ Exists(d) /\ ~On(d)
      /\ host' = [host EXCEPT !.box[c].on = FALSE, !.box[d].on = TRUE]
      /\ learning' = "no" /\ pc' = pc /\ loc' = loc /\ file' = file /\ mishaps' = mishaps
  BY DEF RollBackByHand, Idle, CanStop
<1>2. c \in Ids /\ d \in Ids /\ Role(d) = "app" /\ c # d
  BY <1>1 DEF IInv, TypeOK, FileKept
<1>3. host \in HostType /\ host.box[c] \in Containers /\ host.box[d] \in Containers
  BY <1>1, <1>2 DEF IInv, TypeOK, HostType, On, Exists
<1>4. /\ host' \in HostType /\ host'.volume = host.volume
      /\ host'.box[c] = [host.box[c] EXCEPT !.on = FALSE]
      /\ host'.box[d] = [host.box[d] EXCEPT !.on = TRUE]
      /\ \A e \in Ids \ {c, d} : host'.box[e] = host.box[e]
  <2>1. [host.box[c] EXCEPT !.on = FALSE] \in Containers /\ [host.box[d] EXCEPT !.on = TRUE] \in Containers
    BY <1>3 DEF Containers
  <2> QED BY <1>1, <1>2, <1>3, <2>1 DEF HostType
<1>5. \A e \in Ids : Exists(e) =>
        /\ host'.box[e] # None /\ host'.box[e].name = host.box[e].name /\ host'.box[e].key = host.box[e].key
        /\ host'.box[e].on => host.box[e].on \/ Role(e) = "app"
  <2>1. /\ host'.box[c] # None /\ host'.box[c].name = host.box[c].name /\ host'.box[c].key = host.box[c].key
        /\ ~host'.box[c].on
    <3>1. /\ [host.box[c] EXCEPT !.on = FALSE] \in Containers
          /\ host'.box[c].name = host.box[c].name /\ host'.box[c].key = host.box[c].key /\ ~host'.box[c].on
      BY <1>3, <1>4 DEF Containers
    <3> QED BY <1>4, <3>1, NoneAssumption
  <2>2. host'.box[d] # None /\ host'.box[d].name = host.box[d].name /\ host'.box[d].key = host.box[d].key
    <3>1. /\ [host.box[d] EXCEPT !.on = TRUE] \in Containers
          /\ host'.box[d].name = host.box[d].name /\ host'.box[d].key = host.box[d].key
      BY <1>3, <1>4 DEF Containers
    <3> QED BY <1>4, <3>1, NoneAssumption
  <2> QED BY <1>2, <1>4, <2>1, <2>2 DEF Exists
<1>6. \A e \in Ids : (host'.box[e] # None) <=> Exists(e)
  BY ZenonT(60), <1>1, <1>4, <1>5 DEF Exists, On
<1> HIDE DEF c, d
<1>7. TypeOK'
  BY <1>1, <1>4 DEF IInv, TypeOK, HostType
<1>8. NamesApart' /\ NamesFit' /\ AppsFit'
  BY <1>4, <1>5, <1>6 DEF IInv, NamesApart, NamesFit, AppsFit, Exists
<1>9. VolumeMade' /\ RunsUnderName'
  BY ZenonT(60), <1>1, <1>4, <1>5, <1>6 DEF IInv, VolumeMade, RunsUnderName, Misled, Suffered, Exists, On
<1>10. VolumeKept'
  <2>1. Spoilt => Spoilt'
    BY <1>1 DEF Spoilt, Suffered
  <2>2. Named(DbName) # {} => Named(DbName)' # {}
    BY <1>5 DEF Named, Exists
  <2>3. \A e \in Ids : Exists(e)' => host'.box[e].key = host.box[e].key /\ host'.box[e].name = host.box[e].name /\ Exists(e)
    BY <1>5, <1>6 DEF Exists
  <2>4. pc' = pc /\ host'.volume = host.volume
    BY <1>1, <1>4
  <2> QED BY <2>1, <2>2, <2>3, <2>4 DEF IInv, VolumeKept
<1>11. FileKept'
  BY <1>1, <1>2, <1>6 DEF IInv, FileKept, Exists, d
<1>12. OneAtATime' /\ NotYet'
  <2>1. \A r \in Runs, role \in Roles : <<r, role>> \in Ids
    BY DEF Ids
  <2> QED BY <1>1, <1>6, <2>1 DEF IInv, OneAtATime, NotYet, Exists
<1> QED BY <1>1, <1>7, <1>8, <1>9, <1>10, <1>11, <1>12 DEF IInv

-----------------------------------------------------------------------------
(* The theorems *)

(* Every step keeps the invariant. *)
LEMMA NextKeeps ==
  ASSUME IInv, [Next]_vars
  PROVE  IInv'
<1>1. ASSUME NEW r \in Runs, Prepare(r) PROVE IInv'
  BY <1>1, ListKeeps, StorageKeeps, DbCreateKeeps, DbStartKeeps, DbWaitKeeps, LoadKeeps, CandidateCreateKeeps,
     CandidateStartKeeps, CandidateWaitKeeps, CandidateStopKeeps, CandidateDeleteKeeps, BusyKeeps DEF Prepare
<1>2. ASSUME NEW r \in Runs, EnsureDatabasePort(r) PROVE IInv'
  BY <1>2, InspectDbKeeps, StopDbKeeps, RenameDbKeeps, CreateDbKeeps, ReplaceDbKeeps, WaitDbKeeps, LookDbKeeps,
     HaltDbKeeps, DeleteDbKeeps, RenameDbBackKeeps, RestartDbKeeps, RewaitDbKeeps DEF EnsureDatabasePort
<1>3. ASSUME NEW r \in Runs, SwitchApp(r) PROVE IInv'
  BY <1>3, StopOldKeeps, RenameOldKeeps, CreateNewKeeps, StartNewKeeps, NewIsWaitedFor, RecordKeeps DEF SwitchApp
<1>4. ASSUME NEW r \in Runs, UndoSteps(r) PROVE IInv'
  BY <1>4, HaltNewKeeps, DeleteNewKeeps, RenameBackKeeps, RestartOldKeeps DEF UndoSteps
<1>5. ASSUME NEW r \in Runs, Begin(r) \/ Killed(r) PROVE IInv'
  BY <1>5, BeginKeeps, KilledKeeps
<1>6. CASE LearnerStarts \/ LearnerEnds
  BY <1>6, LearnersLeave DEF LearnerStarts, LearnerEnds
<1>7. CASE RollBackByHand
  BY <1>7, RollBackKeeps
<1>8. CASE UNCHANGED vars
  BY <1>8, LearnersLeave DEF vars, IInv, TypeOK
<1> QED BY <1>1, <1>2, <1>3, <1>4, <1>5, <1>6, <1>7, <1>8 DEF Next, Step

(* The invariant of every behaviour. *)
LEMMA Invariant == Spec => []IInv
BY InitFits, NextKeeps, PTL DEF Spec

(* Never two databases run on the volume, and the one a run finds has the  *)
(* password the volume was made with, whatever is refused, fails, loses    *)
(* its reply or is killed, but for the mishaps that the property names.    *)
THEOREM Safe == Spec => []DatabaseIsSafe
<1>1. ASSUME IInv PROVE DatabaseIsSafe
  <2>1. OneDatabase
    <3>1. Misled \/ \A c, d \in Databases : c = d
      BY <1>1 DEF IInv, RunsUnderName, NamesApart, Databases, On
    <3> QED BY <3>1 DEF OneDatabase, Misled
  <2>2. DatabaseFits
    <3>1. ASSUME ~Spoilt, NEW c \in Named(DbName), On(c) PROVE host.box[c].key = host.volume
      <4>1. c \in Ids /\ Exists(c) /\ Role(c) = "db"
        BY <1>1, <3>1 DEF Named, IInv, NamesFit
      <4>2. host.volume # None
        BY <1>1, <3>1, <4>1 DEF IInv, VolumeMade
      <4> QED BY <1>1, <3>1, <4>1, <4>2 DEF IInv, VolumeKept
    <3> QED BY <3>1 DEF DatabaseFits, Spoilt
  <2> QED BY <1>1, <2>1, <2>2 DEF DatabaseIsSafe, IInv
<1> QED BY <1>1, Invariant, PTL

(* The container that the state file names for a rollback is still there   *)
(* and would connect, through any number of later runs.                    *)
THEOREM Kept == Spec => []PreviousIsKept
<1>1. ASSUME IInv PROVE PreviousIsKept
  <2>1. file # None => file.previous \in Ids \cup {None}
    BY <1>1 DEF IInv, TypeOK
  <2> QED BY <1>1, <2>1 DEF IInv, FileKept, AppsFit, PreviousIsKept
<1> QED BY <1>1, Invariant, PTL

-----------------------------------------------------------------------------
(* Learners are waited for: what else holds while a run is under way *)

(* Until the app has given its name away, the run's old app alone has it. *)
StillNamed == (Before \ {"list"}) \cup {"stop_old", "rename_old"}
AppNamed == \A r \in Runs : pc[r] \in StillNamed => \A c \in Named(AppName) : c = loc[r].old

(* From there until the new app is started, no app of the name runs. *)
Down == {"rename_old", "inspect_db", "create_new", "start_new"} \cup Rollout \cup UndoRollout
AppIsDown == \A r \in Runs : pc[r] \in Down => \A c \in Named(AppName) : ~On(c)

(* A learner who was there at the last look is not interrupted. *)
NobodyWaits == \A r \in Runs : pc[r] = "stop_old" => learning # "before"

WaitInv == AppNamed /\ AppIsDown /\ NobodyWaits

(* What the step of a run has to do for it, and for the property. *)
Considerate(r) ==
  /\ \A q \in Runs \ {r} : pc'[q] = pc[q]
  /\ pc'[r] \in StillNamed => \A c \in Named(AppName)' : c = loc'[r].old
  /\ pc'[r] \in Down => \A c \in Named(AppName)' : ~On(c)'
  /\ pc'[r] = "stop_old" => learning' # "before"
  /\ learning = "before" /\ AppUp /\ ~AppUp' => pc[r] = "halt_new"

(* The apps are left alone, and with them the name. *)
AppsAlone == \A c \in Ids : Role(c) = "app" => host'.box[c] = host.box[c]

(* Then the name and what runs under it are the same. *)
LEMMA NameStays ==
  ASSUME IInv, IInv', AppsAlone
  PROVE  \A c \in Ids : /\ c \in Named(AppName)' <=> c \in Named(AppName)
                        /\ c \in Named(AppName) => (On(c)' <=> On(c))
BY DEF IInv, NamesFit, AppsAlone, Named, On, Exists

(* And the app stays up if the databases that run are left alone, too. *)
LEMMA UpStays ==
  ASSUME IInv, IInv', AppsAlone, AppUp,
         host.volume # None => host'.volume = host.volume,
         \A d \in Named(DbName) : On(d) => host'.box[d] = host.box[d]
  PROVE  AppUp'
<1>1. PICK c \in Named(AppName) : Healthy(c)
  BY DEF AppUp
<1>2. c \in Ids /\ Role(c) = "app" /\ Exists(c)
  BY <1>1 DEF Named, IInv, NamesFit
<1>3. PICK d \in Named(DbName) : On(d)
  BY <1>1, <1>2 DEF Healthy
<1>4. host.volume # None /\ host.box[c].key = host.volume /\ On(c)
  BY <1>1, <1>2 DEF IInv, AppsFit, Healthy
<1>5. c \in Named(AppName)' /\ host'.box[c] = host.box[c]
  BY <1>1, <1>2, NameStays DEF AppsAlone
<1>6. d \in Ids /\ host'.box[d] = host.box[d]
  BY <1>3 DEF Named
<1>7. d \in Named(DbName)' /\ On(d)'
  BY <1>3, <1>6 DEF Named, On, Exists
<1>8. Healthy(c)'
  BY <1>4, <1>5, <1>7 DEF Healthy, On, Exists
<1> QED BY <1>5, <1>8 DEF AppUp

(* Where no app of the name runs, none is up. *)
LEMMA DownIsDown ==
  ASSUME AppIsDown, NEW r \in Runs, pc[r] \in Down
  PROVE  ~AppUp
BY DEF AppIsDown, AppUp, Healthy

(* Where a step of a run leads: to its place, or to what a handler does.   *)
Leads(r, place) ==
  /\ \A q \in Runs \ {r} : pc'[q] = pc[q]
  /\ loc'[r].old = loc[r].old
  /\ \/ pc'[r] = place
     \/ pc'[r] \in Undo \cup {"failed"}
     \/ pc'[r] \in UndoRollout /\ pc[r] \in Rollout

(* An exception leads to what a handler does. *)
LEMMA RaiseLeads ==
  ASSUME IInv, NEW r \in Runs, pc[r] \in Active \ {"record"}, Raise(r), NEW place
  PROVE  Leads(r, place)
<1>1. pc'[r] = Handler(r) /\ loc' = loc /\ \A q \in Runs \ {r} : pc'[q] = pc[q]
  BY DEF Raise, Go, IInv, TypeOK
<1>2. pc[r] \notin Rollout => Handler(r) \in Undo \cup {"failed"}
  <2>1. UndoSwitch(loc[r]) \in Undo \cup {"failed"}
    BY RestorePlaces DEF UndoSwitch, Undo
  <2> QED BY <2>1, HandlerPlaces DEF Active
<1> QED BY <1>1, <1>2, HandlerPlaces DEF Leads

(* What goes on leads to its place. *)
LEMMA GoLeads ==
  ASSUME IInv, NEW r \in Runs, NEW l, NEW place, Keep(r, l), Go(r, place), l.old = loc[r].old
  PROVE  Leads(r, place)
BY DEF Keep, Go, Leads, IInv, TypeOK

(* A step that leaves the apps alone. *)
LEMMA QuietStep ==
  ASSUME IInv, IInv', WaitInv, NEW r \in Runs, AppsAlone, NEW place, Leads(r, place),
         place \in StillNamed => pc[r] \in StillNamed,
         place \in Down => pc[r] \in Down,
         place # "stop_old",
         pc[r] \in Down \/ (AppUp => AppUp')
  PROVE  Considerate(r)
<1>1. /\ (Undo \cup {"failed"} \cup UndoRollout) \cap StillNamed = {}
      /\ (Undo \cup {"failed"}) \cap Down = {} /\ Rollout \subseteq Down
      /\ "stop_old" \notin Undo \cup {"failed"} \cup UndoRollout
  BY DEF Undo, UndoRollout, Rollout, StillNamed, Before, Down
<1>2. pc'[r] \in StillNamed => \A c \in Named(AppName)' : c = loc'[r].old
  BY <1>1, NameStays DEF Leads, WaitInv, AppNamed, Named
<1>3. pc'[r] \in Down => \A c \in Named(AppName)' : ~On(c)'
  BY <1>1, NameStays DEF Leads, WaitInv, AppIsDown, Named
<1>4. AppUp => AppUp'
  BY DownIsDown DEF WaitInv
<1> QED BY <1>1, <1>2, <1>3, <1>4 DEF Considerate, Leads

(* A step goes on to its place or raises an exception. *)
LEMMA StepLeads ==
  ASSUME IInv, NEW r \in Runs, pc[r] \in Active \ {"record"}, NEW l, NEW place, l.old = loc[r].old,
         (Keep(r, l) /\ Go(r, place)) \/ Raise(r)
  PROVE  Leads(r, place)
BY RaiseLeads, GoLeads

(* A call concerns one container. *)
LEMMA CallConcerns ==
  ASSUME IInv, NEW c \in Ids,
         \/ host' = host
         \/ \E box \in Containers : host' = Create(c, box)
         \/ CanStart(c) /\ host' = Start(c)
         \/ CanStop(c) /\ host' = Stop(c)
         \/ \E n \in Names : CanRename(c, n) /\ host' = Rename(c, n)
         \/ host' = Delete(c)
  PROVE  Concerns(c)
<1>1. host \in HostType
  BY DEF IInv, TypeOK, HostType
<1>2. CASE host' = host
  BY <1>2 DEF Concerns
<1> QED BY <1>1, <1>2, CreateEffect, StartEffect, StopEffect, RenameEffect, DeleteEffect
        DEF CanStart, CanStop, CanRename, On

(* A step that concerns no app, and no database that runs under its name.  *)
LEMMA QuietCall ==
  ASSUME IInv, IInv', WaitInv, NEW r \in Runs, NEW c \in Ids, Concerns(c), Role(c) # "app",
         HasDbName(c) /\ On(c) => host'.box[c] = host.box[c],
         NEW place, Leads(r, place),
         place \in StillNamed => pc[r] \in StillNamed, place \notin Down \cup {"stop_old"}
  PROVE  Considerate(r)
<1>1. AppsAlone
  BY DEF AppsAlone, Concerns
<1>2. \A d \in Named(DbName) : On(d) => host'.box[d] = host.box[d]
  BY DEF Named, Concerns, HasDbName
<1>3. AppUp => AppUp'
  BY <1>1, <1>2, UpStays DEF Concerns
<1> QED BY <1>1, <1>3, QuietStep

(* And one that concerns databases while no app runs. *)
LEMMA QuietRollout ==
  ASSUME IInv, IInv', WaitInv, NEW r \in Runs, pc[r] \in Down, NEW c \in Ids, Concerns(c), Role(c) # "app",
         NEW place, Leads(r, place), place \notin StillNamed
  PROVE  Considerate(r)
<1>1. AppsAlone
  BY DEF AppsAlone, Concerns
<1> QED BY <1>1, QuietStep DEF StillNamed
-----------------------------------------------------------------------------
(* The steps, one by one *)

(* Questions and waits before the switch change nothing in Docker. *)
LEMMA QuestionsAreQuiet ==
  ASSUME IInv, IInv', WaitInv, NEW r \in Runs, Storage(r) \/ DbWait(r) \/ Load(r) \/ CandidateWait(r)
  PROVE  Considerate(r)
<1>1. PICK l, place :
        /\ pc[r] \in StillNamed /\ pc[r] \in Active \ {"record"} /\ host' = host /\ l.old = loc[r].old
        /\ place \in {"db_create", "db_wait", "db_start", "load", "refused", "cand_create", "cand_stop"}
        /\ (Keep(r, l) /\ Go(r, place)) \/ Raise(r)
  <2>1. loc[r] \in Local
    BY DEF IInv, TypeOK
  <2>2. [loc[r] EXCEPT !.ready = TRUE].old = loc[r].old /\ \A k : [loc[r] EXCEPT !.key = k].old = loc[r].old
    BY <2>1 DEF Local
  <2>3. loc' = loc => Keep(r, loc[r])
    BY DEF Keep, IInv, TypeOK
  <2>4. {"storage", "db_wait", "load", "cand_wait"} \subseteq StillNamed \cap (Active \ {"record"})
    BY DEF StillNamed, Before, Active
  <2>5. CASE Storage(r)
    <3>1. PICK l, place :
            /\ Ask(r, TRUE, l, place) /\ l.old = loc[r].old
            /\ place \in {"db_create", "db_wait", "db_start"}
      BY <2>2, <2>5 DEF Storage
    <3> QED BY <2>4, <2>5, <3>1 DEF Storage, At, Ask, Call
  <2>6. CASE DbWait(r)
    BY <2>3, <2>4, <2>6 DEF DbWait, At, Wait, NotReady, Raise
  <2>7. CASE Load(r)
    BY <2>4, <2>7 DEF Load, At, Ask, Call
  <2>8. CASE CandidateWait(r)
    BY <2>2, <2>3, <2>4, <2>8 DEF CandidateWait, At, Wait, NotReady, Raise
  <2> QED BY <2>5, <2>6, <2>7, <2>8
<1>2. Leads(r, place)
  BY <1>1, StepLeads
<1>3. Concerns(Candidate(r)) /\ Candidate(r) \in Ids /\ Role(Candidate(r)) # "app"
  BY <1>1, IdsOf DEF Concerns
<1>4. place \notin Down \cup {"stop_old"}
  BY <1>1 DEF Down, Rollout, UndoRollout
<1> QED BY <1>1, <1>2, <1>3, <1>4, QuietCall

(* Nor do calls about the candidate concern the app. *)
LEMMA CandidateIsQuiet ==
  ASSUME IInv, IInv', WaitInv, NEW r \in Runs,
         CandidateCreate(r) \/ CandidateStart(r) \/ CandidateStop(r) \/ CandidateDelete(r)
  PROVE  Considerate(r)
<1>1. PICK place :
        /\ pc[r] \in {"cand_create", "cand_start", "cand_stop", "cand_delete"}
        /\ place \in {"cand_start", "cand_wait", "cand_delete", "busy", "refused"}
        /\ (Keep(r, loc[r]) /\ Go(r, place)) \/ Raise(r)
        /\ \/ host' = host
           \/ host' = Create(Candidate(r), Image(r, CandidateName(r), None))
           \/ CanStart(Candidate(r)) /\ host' = Start(Candidate(r))
           \/ CanStop(Candidate(r)) /\ host' = Stop(Candidate(r))
           \/ host' = Delete(Candidate(r))
  BY DEF CandidateCreate, CandidateStart, CandidateStop, CandidateDelete, At, Call
<1>2. pc[r] \in StillNamed /\ pc[r] \in Active \ {"record"} /\ place \notin Down \cup {"stop_old"}
  BY <1>1 DEF StillNamed, Before, Active, Down, Rollout, UndoRollout
<1>3. Leads(r, place)
  BY <1>1, <1>2, StepLeads
<1>4. Candidate(r) \in Ids /\ Role(Candidate(r)) = "candidate"
  BY IdsOf
<1>5. Image(r, CandidateName(r), None) \in Containers
  BY <1>2, NamesDiffer DEF IInv, TypeOK, Local, Image, Containers
<1>6. Concerns(Candidate(r))
  BY <1>1, <1>4, <1>5, CallConcerns
<1>7. ~HasDbName(Candidate(r))
  BY <1>4 DEF HasDbName, IInv, NamesFit
<1> QED BY <1>2, <1>3, <1>4, <1>6, <1>7, QuietCall

(* The database is made where none has its name, or started where it stands still. *)
LEMMA DatabaseIsQuiet ==
  ASSUME IInv, IInv', WaitInv, NEW r \in Runs, DbCreate(r) \/ DbStart(r)
  PROVE  Considerate(r)
<1>1. PICK c, l, place :
        /\ pc[r] \in {"db_create", "db_start"} /\ place \in {"db_start", "db_wait"}
        /\ c \in Ids /\ Role(c) = "db" /\ l.old = loc[r].old
        /\ (Keep(r, l) /\ Go(r, place)) \/ Raise(r)
        /\ \/ host' = host
           \/ \E box \in Containers : CanCreate(DbName) /\ host' = Create(c, box)
           \/ CanStart(c) /\ host' = Start(c)
  <2>1. loc[r] \in Local
    BY DEF IInv, TypeOK
  <2>2. CASE DbCreate(r)
    <3>1. PICK c, l, box :
            /\ c = Replacement(r) /\ l = [loc[r] EXCEPT !.db = c]
            /\ box = [name |-> DbName, on |-> FALSE, key |-> loc[r].key, port |-> PortOf[r]]
            /\ pc[r] = "db_create"
            /\ (Keep(r, l) /\ Go(r, "db_start")) \/ Raise(r)
            /\ host' = host \/ (CanCreate(DbName) /\ host' = Create(c, box))
      BY <2>2 DEF DbCreate, At, Call, Replacement
    <3>2. box \in Containers
      BY <2>1, <3>1, NamesDiffer DEF Containers, Local
    <3>3. l.old = loc[r].old
      BY <2>1, <3>1 DEF Local
    <3> QED BY ZenonT(60), <3>1, <3>2, <3>3, IdsOf
  <2>3. CASE DbStart(r)
    <3>1. /\ pc[r] = "db_start"
          /\ (Keep(r, loc[r]) /\ Go(r, "db_wait")) \/ Raise(r)
          /\ host' = host \/ (CanStart(loc[r].db) /\ host' = Start(loc[r].db))
      BY <2>3 DEF DbStart, At, Call
    <3>2. Known(r)
      BY <3>1, Here DEF Active, Before
    <3>3. loc[r].db \in Ids /\ Role(loc[r].db) = "db"
      BY <2>1, <3>1, <3>2 DEF Known, DbKnown, Local
    <3> QED BY <3>1, <3>3
  <2> QED BY <2>2, <2>3
<1>2. pc[r] \in StillNamed /\ pc[r] \in Active \ {"record"} /\ place \notin Down \cup {"stop_old"}
  BY <1>1 DEF StillNamed, Before, Active, Down, Rollout, UndoRollout
<1>3. Leads(r, place)
  BY <1>1, <1>2, StepLeads
<1>4. Concerns(c)
  BY <1>1, CallConcerns
<1>5. HasDbName(c) /\ On(c) => host'.box[c] = host.box[c]
  BY <1>1 DEF HasDbName, CanCreate, Named, CanStart
<1> QED BY <1>1, <1>2, <1>3, <1>4, <1>5, QuietCall

(* The rollout of the database happens while no app runs. *)
LEMMA RolloutIsQuiet ==
  ASSUME IInv, IInv', WaitInv, NEW r \in Runs, EnsureDatabasePort(r)
  PROVE  Considerate(r)
<1>1. /\ pc[r] \in Down /\ pc[r] \in Active \ {"record"}
      /\ pc[r] \in Rollout => pc[r] \notin {"inspect_db"} \cup UndoRollout
  BY DEF EnsureDatabasePort, InspectDb, StopDb, RenameDb, CreateDb, ReplaceDb, WaitDb, LookDb, HaltDb, DeleteDb,
         RenameDbBack, RestartDb, RewaitDb, At, Down, Rollout, UndoRollout, Switch, Active
<1>2. Known(r) /\ loc[r] \in Local
  BY <1>1, Here
<1>3. /\ loc[r].db # None => Role(loc[r].db) = "db" /\ loc[r].db \in Ids
      /\ pc[r] \notin {"inspect_db"} => loc[r].db \in Ids
      /\ pc[r] \in {"halt_db", "delete_db"} => loc[r].replacement = Replacement(r)
  BY <1>1, <1>2 DEF Known, DbKnown, Local, Replaced, Down, Rollout, UndoRollout
<1>4. /\ [loc[r] EXCEPT !.renamed_db = TRUE].old = loc[r].old
      /\ \A c : [loc[r] EXCEPT !.db = c].old = loc[r].old /\ [loc[r] EXCEPT !.replacement = c].old = loc[r].old
  BY <1>2 DEF Local
<1>5. loc' = loc => Keep(r, loc[r])
  BY DEF Keep, IInv, TypeOK
<1>6. RestoreDb(loc[r]) \in UndoRollout /\ UndoSwitch(loc[r]) \in Undo \cup {"failed"}
  BY RestorePlaces DEF RestoreDb, UndoRollout, UndoSwitch, Undo
<1>7. (Rollout \cup UndoRollout \cup Undo \cup {"failed", "create_new"}) \cap StillNamed = {}
  BY DEF Rollout, UndoRollout, Undo, StillNamed, Before
<1>8. ASSUME NEW c \in Ids, Role(c) = "db", NEW l, l.old = loc[r].old,
             NEW place \in Rollout \cup UndoRollout \cup Undo \cup {"failed", "create_new"},
             (Keep(r, l) /\ Go(r, place)) \/ Raise(r),
             \/ host' = host
             \/ \E box \in Containers : host' = Create(c, box)
             \/ CanStart(c) /\ host' = Start(c)
             \/ CanStop(c) /\ host' = Stop(c)
             \/ \E n \in Names : CanRename(c, n) /\ host' = Rename(c, n)
             \/ host' = Delete(c)
      PROVE  Considerate(r)
  <2>1. Leads(r, place)
    BY <1>1, <1>8, StepLeads
  <2>2. Concerns(c)
    BY <1>8, CallConcerns
  <2> QED BY <1>1, <1>7, <1>8, <2>1, <2>2, QuietRollout
<1>9. /\ {"stop_db", "rename_db", "create_db", "replace_db", "wait_db"} \subseteq Rollout
      /\ {"look_db", "halt_db", "delete_db", "rename_db_back", "restart_db", "rewait_db"} \subseteq UndoRollout
  BY DEF Rollout, UndoRollout
<1>10. Replacement(r) \in Ids /\ Role(Replacement(r)) = "db" /\ {DbName, BeforePortName(r)} \subseteq Names
  BY IdsOf, NamesDiffer
<1>11. CASE InspectDb(r) \/ LookDb(r)
  <2>1. PICK place :
          /\ place \in {"create_new", "stop_db", "halt_db", "delete_db"} /\ host' = host
          /\ (Keep(r, loc[r]) /\ Go(r, place)) \/ Raise(r)
    BY <1>11 DEF InspectDb, LookDb, At, Ask, Call
  <2> QED BY <1>8, <1>9, <1>10, <2>1
<1>12. CASE WaitDb(r) \/ RewaitDb(r)
  <2>1. PICK l, place :
          /\ place \in {"create_new", UndoSwitch(loc[r])} /\ host' = host /\ l.old = loc[r].old
          /\ (Keep(r, l) /\ Go(r, place)) \/ Raise(r)
    BY <1>4, <1>5, <1>12 DEF WaitDb, RewaitDb, At, Wait, NotReady, Raise
  <2> QED BY <1>6, <1>8, <1>10, <2>1
<1>13. CASE StopDb(r) \/ RestartDb(r)
  <2>1. PICK place :
          /\ place \in {"rename_db", "rewait_db"} /\ pc[r] \in {"stop_db", "restart_db"}
          /\ (Keep(r, loc[r]) /\ Go(r, place)) \/ Raise(r)
          /\ \/ host' = host
             \/ CanStop(loc[r].db) /\ host' = Stop(loc[r].db)
             \/ CanStart(loc[r].db) /\ host' = Start(loc[r].db)
    BY <1>13 DEF StopDb, RestartDb, At, Call
  <2>2. loc[r].db \in Ids /\ Role(loc[r].db) = "db"
    BY <1>3, <2>1, NoneAssumption
  <2> QED BY <1>8, <1>9, <2>1, <2>2
<1>14. CASE RenameDb(r) \/ RenameDbBack(r)
  <2>1. PICK l, place, n :
          /\ place \in {"create_db", "restart_db"} /\ pc[r] \in {"rename_db", "rename_db_back"}
          /\ n \in Names /\ l.old = loc[r].old
          /\ (Keep(r, l) /\ Go(r, place)) \/ Raise(r)
          /\ host' = host \/ (CanRename(loc[r].db, n) /\ host' = Rename(loc[r].db, n))
    <3>1. CASE RenameDb(r)
      BY <1>4, <1>10, <3>1 DEF RenameDb, At, Call
    <3>2. CASE RenameDbBack(r)
      BY <1>10, <3>2 DEF RenameDbBack, At, Call
    <3> QED BY <1>14, <3>1, <3>2
  <2>2. loc[r].db \in Ids /\ Role(loc[r].db) = "db"
    BY <1>3, <2>1, NoneAssumption
  <2> QED BY <1>8, <1>9, <2>1, <2>2
<1>15. CASE CreateDb(r)
  <2>1. PICK l, box :
          /\ l = [loc[r] EXCEPT !.replacement = Replacement(r)] /\ pc[r] = "create_db"
          /\ box = [host.box[loc[r].db] EXCEPT !.name = DbName, !.on = FALSE, !.port = PortOf[r]]
          /\ (Keep(r, l) /\ Go(r, "replace_db")) \/ Raise(r)
          /\ host' = host \/ host' = Create(Replacement(r), box)
    BY <1>15 DEF CreateDb, At, Call
  <2>2. Exists(loc[r].db) /\ loc[r].db \in Ids
    BY <1>2, <1>3, <2>1 DEF Known, DbKnown
  <2>3. host.box[loc[r].db] \in Containers
    BY <2>2 DEF Exists, IInv, TypeOK
  <2>4. box \in Containers
    BY <1>10, <2>1, <2>3 DEF Containers
  <2> QED BY <1>4, <1>8, <1>9, <1>10, <2>1, <2>4
<1>16. CASE ReplaceDb(r) \/ HaltDb(r) \/ DeleteDb(r)
  <2>1. PICK place :
          /\ place \in {"wait_db", "delete_db", RestoreDb(loc[r])}
          /\ (Keep(r, loc[r]) /\ Go(r, place)) \/ Raise(r)
          /\ \/ host' = host
             \/ CanStart(Replacement(r)) /\ host' = Start(Replacement(r))
             \/ CanStop(Replacement(r)) /\ host' = Stop(Replacement(r))
             \/ host' = Delete(Replacement(r))
    BY <1>3, <1>16 DEF ReplaceDb, HaltDb, DeleteDb, At, Call
  <2> QED BY <1>6, <1>8, <1>9, <1>10, <2>1
<1> QED BY <1>11, <1>12, <1>13, <1>14, <1>15, <1>16 DEF EnsureDatabasePort

(* Nor is anything changed while the new app is waited for. *)
LEMMA NewWaitIsQuiet ==
  ASSUME IInv, IInv', WaitInv, NEW r \in Runs, WaitNew(r) \/ Public(r)
  PROVE  Considerate(r)
<1>1. PICK place :
        /\ pc[r] \in {"wait_new", "public"} /\ place \in {"public", "record"} /\ host' = host
        /\ (Keep(r, loc[r]) /\ Go(r, place)) \/ Raise(r)
  BY DEF WaitNew, Public, At, Wait, NotReady, Raise
<1>2. pc[r] \in Active \ {"record"} /\ place \notin Down \cup StillNamed \cup {"stop_old"}
  BY <1>1 DEF StillNamed, Before, Active, Switch, Down, Rollout, UndoRollout
<1>3. Leads(r, place)
  BY <1>1, <1>2, StepLeads
<1>4. Concerns(Candidate(r)) /\ Candidate(r) \in Ids /\ Role(Candidate(r)) # "app"
  BY <1>1, IdsOf DEF Concerns
<1> QED BY <1>1, <1>2, <1>3, <1>4, QuietCall

(* Where Docker stays as it is, so does the app. *)
LEMMA SameApps ==
  ASSUME host' = host
  PROVE  (AppUp <=> AppUp') /\ \A c : (c \in Named(AppName)' <=> c \in Named(AppName)) /\ (On(c)' <=> On(c))
BY DEF AppUp, Healthy, Named, On, Exists

(* The script looks for the app by its name, and finds the one that has it. *)
LEMMA ListIsConsiderate ==
  ASSUME IInv, NEW r \in Runs, List(r)
  PROVE  Considerate(r)
<1> DEFINE up == AppUp
           obstacle == Obstacle(r)
<1>1. PICK l, place :
        /\ l = [loc[r] EXCEPT !.old = Find(AppName), !.db = Find(DbName), !.up = up, !.obstacle = obstacle]
        /\ pc[r] = "list" /\ host' = host /\ place \in {"refused", "storage"}
        /\ (Keep(r, l) /\ Go(r, place)) \/ Raise(r)
  BY DEF List, At, Ask, Call
<1> HIDE DEF up, obstacle
<1>2. l.old = Find(AppName)
  BY <1>1 DEF IInv, TypeOK, Local
<1>3. \A c \in Named(AppName) : c = Find(AppName)
  BY DEF IInv, NamesApart, Find, Named
<1>4. "list" \in Before /\ "list" \in Active \ {"record"}
  BY DEF Before, Active
<1>5. /\ \A q \in Runs \ {r} : pc'[q] = pc[q]
      /\ (pc'[r] = place /\ loc'[r] = l) \/ pc'[r] = "failed"
  <2>1. CASE Keep(r, l) /\ Go(r, place)
    BY <2>1 DEF Keep, Go, IInv, TypeOK
  <2>2. CASE Raise(r)
    <3>1. Handler(r) = "failed"
      BY <1>1, <1>4, HandlerPlaces
    <3> QED BY <2>2, <3>1 DEF Raise, Go, IInv, TypeOK
  <2> QED BY <1>1, <2>1, <2>2
<1>6. {"failed", "refused"} \cap StillNamed = {} /\ place \notin Down \cup {"stop_old"} /\ "failed" \notin Down
  BY <1>1 DEF StillNamed, Before, Down, Rollout, UndoRollout
<1> QED BY <1>1, <1>2, <1>3, <1>5, <1>6, SameApps DEF Considerate

(* Nobody is at work when the script goes on to the switch. *)
LEMMA BusyIsConsiderate ==
  ASSUME IInv, WaitInv, NEW r \in Runs, Busy(r)
  PROVE  Considerate(r)
<1>1. /\ pc[r] = "busy" /\ host' = host /\ learning' = learning
      /\ \/ learning = "no" /\ Go(r, SwitchFrom(r)) /\ UNCHANGED loc
         \/ Go(r, "refused") /\ UNCHANGED loc
         \/ Raise(r)
  BY DEF Busy, At
<1>2. "busy" \in Before /\ "busy" \in Active \ {"record"} /\ "busy" \in StillNamed
  BY DEF Before, Active, StillNamed
<1>3. /\ \A q \in Runs \ {r} : pc'[q] = pc[q]
      /\ loc'[r] = loc[r]
      /\ (learning = "no" /\ pc'[r] = SwitchFrom(r)) \/ pc'[r] \in {"failed", "refused"}
  <2>1. CASE Raise(r)
    <3>1. Handler(r) = "failed"
      BY <1>1, <1>2, HandlerPlaces
    <3> QED BY <2>1, <3>1 DEF Raise, Go, IInv, TypeOK
  <2> QED BY <1>1, <2>1 DEF Go, IInv, TypeOK
<1>4. \A c \in Named(AppName) : c = loc[r].old /\ c # None
  BY <1>1, <1>2, NoneAssumption DEF WaitInv, AppNamed, Named
<1>5. SwitchFrom(r) = IF loc[r].old # None THEN "stop_old" ELSE "inspect_db"
  BY DEF SwitchFrom
<1>6. {"failed", "refused"} \cap (StillNamed \cup Down \cup {"stop_old"}) = {} /\ "stop_old" \notin Down
  BY DEF StillNamed, Before, Down, Rollout, UndoRollout
<1>7. pc'[r] \in Down => Named(AppName) = {}
  BY <1>3, <1>4, <1>5, <1>6 DEF Named
<1> QED BY <1>1, <1>3, <1>4, <1>6, <1>7, SameApps DEF Considerate

(* Where the run need not keep the name nor the app down, it is enough     *)
(* that the app stays up.                                                  *)
LEMMA Elsewhere ==
  ASSUME NEW r \in Runs, NEW place, Leads(r, place), pc[r] \notin Rollout, place \notin StillNamed \cup Down,
         pc[r] = "halt_new" \/ (AppUp => AppUp')
  PROVE  Considerate(r)
<1>1. pc'[r] \notin StillNamed \cup Down /\ "stop_old" \in StillNamed
  BY DEF Leads, StillNamed, Before, Down, Undo, UndoRollout, Rollout
<1> QED BY <1>1 DEF Leads, Considerate

(* A call about an app that does not run does not bring one down. *)
LEMMA OthersStayUp ==
  ASSUME IInv, NEW c \in Ids, Concerns(c), Role(c) = "app", ~On(c), AppUp
  PROVE  AppUp'
<1>1. PICK d \in Named(AppName) : Healthy(d)
  BY DEF AppUp
<1>2. d \in Ids /\ d # c /\ Exists(d) /\ Role(d) = "app" /\ host.box[d].name = AppName /\ On(d)
  BY <1>1 DEF Named, Healthy, IInv, NamesFit
<1>3. PICK e \in Named(DbName) : On(e)
  BY <1>1, <1>2 DEF Healthy
<1>4. e \in Ids /\ e # c /\ Exists(e) /\ host.box[e].name = DbName
  BY <1>3 DEF Named, IInv, NamesFit
<1>5. host'.box[d] = host.box[d] /\ host'.box[e] = host.box[e]
  BY <1>2, <1>4 DEF Concerns
<1>6. host.volume # None /\ host.box[d].key = host.volume
  BY <1>2 DEF IInv, AppsFit
<1>7. host'.volume = host.volume
  BY <1>6 DEF Concerns
<1>8. d \in Named(AppName)' /\ e \in Named(DbName)' /\ On(e)' /\ On(d)'
  BY <1>2, <1>3, <1>4, <1>5 DEF Named, On, Exists
<1>9. Healthy(d)'
  BY <1>5, <1>6, <1>7, <1>8 DEF Healthy
<1> QED BY <1>8, <1>9 DEF AppUp

(* The old app is stopped when no learner waits, and has its name yet. *)
LEMMA StopOldIsConsiderate ==
  ASSUME IInv, WaitInv, NEW r \in Runs, StopOld(r)
  PROVE  Considerate(r)
<1>1. PICK old, l :
        /\ old = loc[r].old /\ l = [loc[r] EXCEPT !.stopped = TRUE]
        /\ pc[r] = "stop_old"
        /\ \/ CanStop(old) /\ host' = Stop(old) /\ Keep(r, l) /\ Go(r, "rename_old")
           \/ Raise(r)
        /\ host' = host \/ (CanStop(old) /\ host' = Stop(old))
        /\ learning' = IF host' # host THEN "no" ELSE learning
  BY DEF StopOld, At, Call
<1>2. "stop_old" \in Active \ {"record"} /\ "stop_old" \in StillNamed /\ "stop_old" \notin Rollout
  BY DEF Active, Switch, StillNamed, Rollout
<1>3. Known(r) /\ loc[r] \in Local
  BY <1>1, <1>2, Here
<1>4. l.old = old /\ old \in Ids
  BY <1>1, <1>3, NoneAssumption DEF Known, AppsKnown, Local
<1>5. learning # "before" /\ learning' # "before"
  BY <1>1 DEF WaitInv, NobodyWaits
<1>6. Leads(r, "rename_old")
  BY <1>1, <1>2, <1>4, StepLeads
<1>7. \A c \in Named(AppName) : c = old
  BY <1>1, <1>2 DEF WaitInv, AppNamed
<1>8. CASE CanStop(old) /\ host' = Stop(old)
  <2>1. Concerns(old) /\ host'.box[old] = [host.box[old] EXCEPT !.on = FALSE] /\ host.box[old] \in Containers
    BY <1>4, <1>8, StopEffect DEF CanStop, On, Exists, IInv, TypeOK, HostType
  <2>2. ~host'.box[old].on
    BY <2>1 DEF Containers
  <2>3. host'.box[old].name = host.box[old].name
    BY <2>1 DEF Containers
  <2>4. \A c \in Named(AppName)' : c = old /\ ~On(c)'
    <3> SUFFICES ASSUME NEW c \in Ids, Exists(c)', host'.box[c].name = AppName PROVE c = old /\ ~host'.box[c].on
      BY DEF Named, On
    <3>1. c # old => Exists(c) /\ host.box[c].name = AppName
      BY <2>1 DEF Concerns, Exists
    <3> QED BY <1>7, <2>2, <3>1 DEF Named
  <2>5. pc'[r] \in StillNamed => loc'[r].old = old
    BY <1>1, <1>6 DEF Leads
  <2> QED BY <1>5, <1>6, <2>4, <2>5 DEF Considerate, Leads
<1>9. CASE Raise(r)
  <2>1. pc'[r] \in Undo \cup {"failed"} /\ \A q \in Runs \ {r} : pc'[q] = pc[q]
    <3>1. Leads(r, "failed")
      BY <1>1, <1>2, <1>9, RaiseLeads
    <3> QED BY <1>1, <1>2, <3>1 DEF Leads
  <2>2. (Undo \cup {"failed"}) \cap (StillNamed \cup Down \cup {"stop_old"}) = {}
    BY DEF Undo, StillNamed, Before, Down, Rollout, UndoRollout
  <2> QED BY <1>5, <2>1, <2>2 DEF Considerate
<1> QED BY <1>1, <1>8, <1>9

(* It gives its name away when it does not run. *)
LEMMA RenameOldIsConsiderate ==
  ASSUME IInv, WaitInv, NEW r \in Runs, RenameOld(r)
  PROVE  Considerate(r)
<1>1. PICK old, l :
        /\ old = loc[r].old /\ l = [loc[r] EXCEPT !.renamed = TRUE]
        /\ pc[r] = "rename_old"
        /\ \/ /\ CanRename(old, RollbackName(r)) /\ host' = Rename(old, RollbackName(r))
              /\ Keep(r, l) /\ Go(r, "inspect_db")
           \/ Raise(r)
  BY DEF RenameOld, At, Call
<1>2. "rename_old" \in Active \ {"record"} /\ "rename_old" \in StillNamed \cap Down /\ "rename_old" \notin Rollout
  BY DEF Active, Switch, StillNamed, Rollout, Down
<1>3. Known(r) /\ loc[r] \in Local
  BY <1>1, <1>2, Here
<1>4. l.old = old /\ old \in Ids
  BY <1>1, <1>3, NoneAssumption DEF Known, AppsKnown, Local
<1>5. ~AppUp
  BY <1>1, <1>2, DownIsDown DEF WaitInv
<1>6. CASE CanRename(old, RollbackName(r)) /\ host' = Rename(old, RollbackName(r)) /\ Keep(r, l) /\ Go(r, "inspect_db")
  <2>1. /\ Concerns(old) /\ host'.box[old] = [host.box[old] EXCEPT !.name = RollbackName(r)]
        /\ host.box[old] \in Containers
    BY <1>4, <1>6, NamesDiffer, RenameEffect DEF CanRename, Exists, IInv, TypeOK, HostType
  <2>2. host'.box[old].name # AppName
    BY <2>1, NamesDiffer DEF Containers
  <2>3. Named(AppName)' = {}
    <3> SUFFICES ASSUME NEW c \in Ids, Exists(c)', host'.box[c].name = AppName PROVE FALSE
      BY DEF Named
    <3>1. Exists(c) /\ host.box[c].name = AppName /\ c # old
      BY <2>1, <2>2 DEF Concerns, Exists
    <3> QED BY <1>1, <1>2, <3>1 DEF WaitInv, AppNamed, Named
  <2>4. pc'[r] = "inspect_db" /\ \A q \in Runs \ {r} : pc'[q] = pc[q]
    BY <1>6 DEF Go, IInv, TypeOK
  <2> QED BY <1>5, <2>3, <2>4 DEF Considerate
<1>7. CASE Raise(r)
  <2>1. Leads(r, "failed")
    BY <1>1, <1>2, <1>7, RaiseLeads
  <2>2. "failed" \notin StillNamed \cup Down
    BY DEF StillNamed, Before, Down, Rollout, UndoRollout
  <2> QED BY <1>1, <1>2, <1>5, <2>1, <2>2, Elsewhere
<1> QED BY <1>1, <1>6, <1>7

(* The new app does not run when it is made, and takes nothing down when   *)
(* it is started.                                                          *)
LEMMA NewIsConsiderate ==
  ASSUME IInv, WaitInv, NEW r \in Runs, CreateNew(r) \/ StartNew(r)
  PROVE  Considerate(r)
<1>1. PICK l, place, box :
        /\ pc[r] \in {"create_new", "start_new"} /\ l.old = loc[r].old
        /\ \/ /\ place = "start_new" /\ box = Image(r, AppName, "app") /\ host' = Create(New(r), box)
              /\ Keep(r, l) /\ Go(r, place)
           \/ place = "wait_new" /\ Keep(r, l) /\ Go(r, place)
           \/ Raise(r)
  <2>1. loc[r] \in Local
    BY DEF IInv, TypeOK
  <2>2. CASE CreateNew(r)
    <3>1. [loc[r] EXCEPT !.new = New(r)].old = loc[r].old
      BY <2>1 DEF Local
    <3> QED BY <2>2, <3>1 DEF CreateNew, At, Call
  <2>3. CASE StartNew(r)
    BY <2>3 DEF StartNew, At, Call
  <2> QED BY <2>2, <2>3
<1>2. pc[r] \in Active \ {"record"} /\ pc[r] \in Down \ Rollout
  BY <1>1 DEF Active, Switch, Rollout, Down
<1>3. ~AppUp
  BY <1>2, DownIsDown DEF WaitInv
<1>4. "wait_new" \notin StillNamed \cup Down /\ "start_new" \notin StillNamed /\ "failed" \notin StillNamed \cup Down
  BY DEF StillNamed, Before, Down, Rollout, UndoRollout
<1>5. CASE /\ place = "start_new" /\ box = Image(r, AppName, "app") /\ host' = Create(New(r), box)
           /\ Keep(r, l) /\ Go(r, place)
  <2>1. loc[r].key \in {0} \cup Runs
    BY DEF IInv, TypeOK, Local
  <2>2. box \in Containers /\ ~box.on
    BY <1>5, <2>1, NamesDiffer DEF Image, Containers
  <2>3. New(r) \in Ids /\ host \in HostType
    BY IdsOf DEF IInv, TypeOK, HostType
  <2>4. Concerns(New(r)) /\ host'.box[New(r)] = box
    BY <1>5, <2>2, <2>3, CreateEffect
  <2>5. \A c \in Named(AppName)' : ~On(c)'
    <3> SUFFICES ASSUME NEW c \in Ids, Exists(c)', host'.box[c].name = AppName PROVE ~host'.box[c].on
      BY DEF Named, On
    <3>1. c # New(r) => Exists(c) /\ host.box[c].name = AppName /\ host'.box[c] = host.box[c]
      BY <2>4 DEF Concerns, Exists
    <3>2. \A d \in Named(AppName) : ~On(d)
      BY <1>2 DEF WaitInv, AppIsDown
    <3> QED BY <2>2, <2>4, <3>1, <3>2 DEF Named, On
  <2>6. pc'[r] = "start_new" /\ \A q \in Runs \ {r} : pc'[q] = pc[q]
    BY <1>5 DEF Go, IInv, TypeOK
  <2> QED BY <1>3, <1>4, <2>5, <2>6 DEF Considerate
<1>6. CASE place = "wait_new" /\ Keep(r, l) /\ Go(r, place)
  BY <1>1, <1>2, <1>3, <1>4, <1>6, StepLeads, Elsewhere
<1>7. CASE Raise(r)
  <2>1. Leads(r, "failed")
    BY <1>2, <1>7, RaiseLeads
  <2> QED BY <1>2, <1>3, <1>4, <2>1, Elsewhere
<1> QED BY <1>1, <1>5, <1>6, <1>7

(* What the handler of the switch does about the apps. *)
LEMMA UndoIsConsiderate ==
  ASSUME IInv, NEW r \in Runs, UndoSteps(r)
  PROVE  Considerate(r)
<1>1. PICK place :
        /\ pc[r] \in Undo /\ place \in {"delete_new", Restore(loc[r]), "restart_old", "failed"}
        /\ (Keep(r, loc[r]) /\ Go(r, place)) \/ Raise(r)
  BY DEF UndoSteps, HaltNew, DeleteNew, RenameBack, RestartOld, At, Call, Undo
<1>2. pc[r] \in Active \ {"record"} /\ pc[r] \notin Rollout
  BY <1>1 DEF Active, Undo, Rollout
<1>3. Leads(r, place)
  BY <1>1, <1>2, StepLeads
<1>4. place \notin StillNamed \cup Down
  <2>1. place \in {"delete_new", "failed", "rename_back", "restart_old"}
    BY <1>1, RestorePlaces
  <2> QED BY <2>1 DEF StillNamed, Before, Down, Rollout, UndoRollout
<1>5. Known(r) /\ loc[r] \in Local
  BY <1>2, Here
<1>6. CASE host' = host
  BY <1>2, <1>3, <1>4, <1>6, SameApps, Elsewhere
<1>7. CASE HaltNew(r)
  BY <1>2, <1>3, <1>4, <1>7, Elsewhere DEF HaltNew, At
<1>8. ASSUME NEW c \in Ids, Role(c) = "app", ~On(c) \/ Named(AppName) = {},
             \/ host' = Delete(c)
             \/ CanStart(c) /\ host' = Start(c)
             \/ CanRename(c, AppName) /\ host' = Rename(c, AppName)
      PROVE  Considerate(r)
  <2>1. Concerns(c)
    BY <1>8, CallConcerns DEF Names
  <2>2. AppUp => AppUp'
    BY <1>8, <2>1, OthersStayUp DEF AppUp
  <2> QED BY <1>2, <1>3, <1>4, <2>2, Elsewhere
<1>9. CASE DeleteNew(r)
  <2>1. pc[r] = "delete_new" /\ (host' = host \/ (CanDelete(loc[r].new) /\ host' = Delete(loc[r].new)))
    BY <1>9 DEF DeleteNew, At, Call
  <2>2. loc[r].new = New(r)
    BY <1>5, <2>1 DEF Known, AppsKnown
  <2> QED BY <1>6, <1>8, <2>1, <2>2, IdsOf DEF CanDelete
<1>10. CASE RenameBack(r) \/ RestartOld(r)
  <2>1. PICK old :
          /\ old = loc[r].old /\ pc[r] \in {"rename_back", "restart_old"}
          /\ \/ host' = host
             \/ CanRename(old, AppName) /\ host' = Rename(old, AppName)
             \/ CanStart(old) /\ host' = Start(old)
    BY <1>10 DEF RenameBack, RestartOld, At, Call
  <2>2. old \in Ids /\ Role(old) = "app"
    BY <1>5, <2>1 DEF Known, AppsKnown, Local
  <2> QED BY <1>6, <1>8, <2>1, <2>2 DEF CanRename, CanStart
<1> QED BY <1>7, <1>9, <1>10 DEF UndoSteps

(* The record is written when the switch is over. *)
LEMMA RecordIsConsiderate ==
  ASSUME IInv, NEW r \in Runs, Record(r)
  PROVE  Considerate(r)
<1>1. /\ host' = host /\ pc'[r] = "done" /\ \A q \in Runs \ {r} : pc'[q] = pc[q]
  BY DEF Record, Go, IInv, TypeOK
<1>2. "done" \notin StillNamed \cup Down \cup {"stop_old"}
  BY DEF StillNamed, Before, Down, Rollout, UndoRollout
<1> QED BY <1>1, <1>2, SameApps DEF Considerate

(* Every step of a run does what it has to. *)
LEMMA StepIsConsiderate ==
  ASSUME IInv, IInv', WaitInv, NEW r \in Runs, Step(r)
  PROVE  Considerate(r)
BY ListIsConsiderate, QuestionsAreQuiet, DatabaseIsQuiet, CandidateIsQuiet, BusyIsConsiderate,
   RolloutIsQuiet, StopOldIsConsiderate, RenameOldIsConsiderate, NewIsConsiderate, NewWaitIsQuiet,
   RecordIsConsiderate, UndoIsConsiderate DEF Step, Prepare, SwitchApp

(* A run that takes a step is under way. *)
LEMMA StepIsActive ==
  ASSUME NEW r \in Runs, Step(r)
  PROVE  pc[r] \in Active
BY DEF Step, Prepare, EnsureDatabasePort, SwitchApp, UndoSteps, At, Active, Before, Switch, Rollout,
   UndoRollout, Undo, List, Storage, DbCreate, DbStart, DbWait, Load, CandidateCreate, CandidateStart,
   CandidateWait, CandidateStop, CandidateDelete, Busy, InspectDb, StopDb, RenameDb, CreateDb, ReplaceDb,
   WaitDb, LookDb, HaltDb, DeleteDb, RenameDbBack, RestartDb, RewaitDb, StopOld, RenameOld, CreateNew,
   StartNew, WaitNew, Public, Record, HaltNew, DeleteNew, RenameBack, RestartOld

(* The places that matter are those of a run under way. *)
LEMMA WaitPlaces == StillNamed \cup Down \cup {"stop_old"} \subseteq Active
BY DEF StillNamed, Down, Active, Before, Switch, Rollout, UndoRollout

(* Learners and the rollback by hand come between the steps. *)
LEMMA WaitKeeps ==
  ASSUME IInv, IInv', WaitInv, [Next]_vars
  PROVE  /\ WaitInv'
         /\ learning = "before" /\ AppUp /\ ~AppUp' => Idle \/ \E r \in Runs : pc[r] = "halt_new"
<1>1. CASE \E r \in Runs : Step(r)
  <2>1. PICK r \in Runs : Considerate(r) /\ pc[r] \in Active
    <3>1. PICK r \in Runs : Step(r)
      BY <1>1
    <3> QED BY <3>1, StepIsActive, StepIsConsiderate
  <2>2. \A q \in Runs \ {r} : pc'[q] \notin Active
    BY <2>1 DEF Considerate, IInv, OneAtATime
  <2>3. \A q \in Runs : pc'[q] \in StillNamed \cup Down \cup {"stop_old"} => q = r
    BY <2>2, WaitPlaces
  <2> QED BY <2>1, <2>3 DEF Considerate, WaitInv, AppNamed, AppIsDown, NobodyWaits
<1>2. CASE \E r \in Runs : Begin(r) \/ Killed(r)
  <2>1. PICK r \in Runs, place \in {"list", "killed"} :
          /\ host' = host /\ loc' = loc /\ learning' = learning /\ Go(r, place)
    BY <1>2 DEF Begin, Killed
  <2>2. pc'[r] = place /\ \A q \in Runs \ {r} : pc'[q] = pc[q]
    BY <2>1 DEF Go, IInv, TypeOK
  <2>3. place \notin StillNamed \cup Down \cup {"stop_old"}
    BY <2>1 DEF StillNamed, Before, Down, Rollout, UndoRollout
  <2>4. \A q \in Runs : pc'[q] \in StillNamed \cup Down \cup {"stop_old"} => pc'[q] = pc[q]
    BY <2>2, <2>3
  <2> QED BY <2>1, <2>4, SameApps DEF WaitInv, AppNamed, AppIsDown, NobodyWaits
<1>3. CASE LearnerStarts \/ LearnerEnds \/ UNCHANGED vars
  <2>1. /\ host' = host /\ loc' = loc /\ pc' = pc
        /\ (\E r \in Runs : pc[r] = "stop_old") => learning' \in {"no", "after", learning}
    BY <1>3 DEF LearnerStarts, LearnerEnds, vars
  <2> QED BY <2>1, SameApps DEF WaitInv, AppNamed, AppIsDown, NobodyWaits
<1>4. CASE RollBackByHand
  <2>1. Idle /\ pc' = pc
    BY <1>4 DEF RollBackByHand
  <2> QED BY <2>1, WaitPlaces DEF WaitInv, AppNamed, AppIsDown, NobodyWaits, Idle
<1> QED BY <1>1, <1>2, <1>3, <1>4 DEF Next

(* What learners wait for holds in every behaviour. *)
LEMMA AppsAreNamed == Spec => []WaitInv
<1>1. Init => WaitInv
  <2> SUFFICES ASSUME Init PROVE WaitInv
    OBVIOUS
  <2>1. \A r \in Runs : pc[r] = "none"
    BY DEF Init
  <2>2. "none" \notin Active
    BY DEF Active, Before, Switch, Rollout, UndoRollout, Undo
  <2> QED BY <2>1, <2>2, WaitPlaces DEF WaitInv, AppNamed, AppIsDown, NobodyWaits
<1>2. IInv /\ IInv' /\ WaitInv /\ [Next]_vars => WaitInv'
  BY WaitKeeps
<1> QED BY <1>1, <1>2, Invariant, PTL DEF Spec

(* A learner who was at work at the last look keeps the app: no step of    *)
(* any run takes it down but the halt of a new one that did not pass.      *)
THEOREM WaitedFor == Spec => LearnersAreWaitedFor
<1>1. IInv /\ IInv' /\ WaitInv /\ [Next]_vars =>
        [learning = "before" /\ AppUp /\ ~AppUp' => Idle \/ \E r \in Runs : pc[r] = "halt_new"]_vars
  BY WaitKeeps
<1> QED BY <1>1, Invariant, AppsAreNamed, PTL DEF Spec, LearnersAreWaitedFor
-----------------------------------------------------------------------------
(* A run in good order: what earlier runs may leave, whatever befell them *)

(* An app publishes the port of the app, a database one of the database's. *)
PortFits(c) ==
  /\ Role(c) = "app" => host.box[c].port = "app"
  /\ Role(c) = "candidate" => host.box[c].port = None
  /\ Role(c) = "db" => host.box[c].port \in {FirstPort} \cup {PortOf[q] : q \in Runs}
PortsFit == \A c \in Ids : Exists(c) => PortFits(c)

(* A run's own password is new: nobody has it before the run makes a       *)
(* database with it.                                                       *)
FirstSteps == {"none", "list", "storage", "db_create"}
PasswordsNew ==
  \A r \in Runs : pc[r] \in FirstSteps =>
    /\ host.volume # r
    /\ \A c \in Ids : Exists(c) => host.box[c].key # r
    /\ \A q \in Runs \ {r} : loc[q].key # r

(* A run goes by the password of the database it found, or its own.        *)
GoesBy == BeforeRename \ {"storage", "db_create"}
DatabaseKeyKnown ==
  \A r \in Runs :
    /\ pc[r] \in GoesBy => host.box[loc[r].db].key = loc[r].key
    /\ pc[r] = "db_create" => loc[r].key = r

(* Once the reply to a rename was lost, no database with the password of   *)
(* the volume ever has the name again: what a later run finds is an        *)
(* obstacle.                                                               *)
Nameable == {"create_db", "rename_db_back"} \cup Replaced
LostForGood ==
  Misled =>
    /\ host.volume # None
    /\ \A c \in Ids : HasDbName(c) => host.box[c].key # host.volume
    /\ \A r \in Runs : pc[r] \notin Nameable

Tidy == PortsFit /\ PasswordsNew /\ DatabaseKeyKnown /\ LostForGood

(* What a call of run r may do to the container it is about.               *)
Shaped(r, c) ==
  /\ c \in Ids /\ Concerns(c)
  /\ host'.volume = host.volume \/ (host.volume = None /\ Exists(c) /\ host'.volume = host.box[c].key)
  /\ \/ host'.box[c] = None
     \/ /\ Exists(c) /\ host'.box[c].key = host.box[c].key /\ host'.box[c].port = host.box[c].port
        /\ host'.box[c].name # DbName \/ host.box[c].name = DbName \/ pc[r] = "rename_db_back"
     \/ /\ PortFits(c)'
        /\ \/ host'.box[c].key = loc[r].key /\ host'.box[c].name # DbName /\ Role(c) # "db"
           \/ host'.box[c].key = loc[r].key /\ pc[r] = "db_create"
           \/ pc[r] = "create_db" /\ host'.box[c].key = host.box[loc[r].db].key

(* And what its step may do besides.                                       *)
Orderly(r) ==
  /\ \A q \in Runs \ {r} : pc'[q] = pc[q] /\ loc'[q] = loc[q]
  /\ \E c : Shaped(r, c)
  /\ \/ loc'[r].key \in {loc[r].key, r}
     \/ \E d \in Ids : Exists(d) /\ loc'[r].key = host.box[d].key
  /\ pc'[r] \in FirstSteps => pc[r] \in FirstSteps /\ host' = host
  /\ pc'[r] = "db_create" => loc'[r].key = r
  /\ pc'[r] \in GoesBy =>
       \/ host'.box[loc'[r].db].key = loc'[r].key
       \/ pc[r] \in GoesBy /\ loc'[r].db = loc[r].db /\ loc'[r].key = loc[r].key
  /\ pc'[r] \in Nameable => pc[r] \in Nameable \cup {"rename_db"}
  /\ Misled' => Misled \/ (pc[r] = "rename_db" /\ pc'[r] \notin Nameable /\ Named(DbName)' = {})

(* Then it keeps the order. *)
LEMMA TidyStep ==
  ASSUME IInv, IInv', Tidy, NEW r \in Runs, pc[r] \in Active, Orderly(r)
  PROVE  Tidy'
<1>1. PICK c : Shaped(r, c)
  BY DEF Orderly
<1>2. Known(r) /\ loc[r] \in Local
  BY Here
<1>3. PortsFit'
  <2> SUFFICES ASSUME NEW d \in Ids, Exists(d)' PROVE PortFits(d)'
    BY DEF PortsFit
  <2>1. CASE d # c
    BY <1>1, <2>1 DEF Shaped, Concerns, Tidy, PortsFit, PortFits, Exists
  <2>2. CASE d = c
    BY <1>1, <2>2 DEF Shaped, Tidy, PortsFit, PortFits, Exists
  <2> QED BY <2>1, <2>2
<1>4. PasswordsNew'
  <2> SUFFICES ASSUME NEW q \in Runs, pc'[q] \in FirstSteps
               PROVE  /\ host'.volume # q
                      /\ \A d \in Ids : Exists(d)' => host'.box[d].key # q
                      /\ \A p \in Runs \ {q} : loc'[p].key # q
    BY DEF PasswordsNew
  <2>1. CASE q = r
    BY <2>1 DEF Orderly, Tidy, PasswordsNew, Exists
  <2>2. CASE q # r
    <3>1. /\ host.volume # q /\ (\A d \in Ids : Exists(d) => host.box[d].key # q)
          /\ \A p \in Runs \ {q} : loc[p].key # q
      BY <2>2 DEF Orderly, Tidy, PasswordsNew
    <3>2. pc[r] = "create_db" => Exists(loc[r].db) /\ loc[r].db \in Ids
      BY <1>2 DEF Known, DbKnown, Local
    <3>3. \A p \in Runs \ {q} : loc'[p].key # q
      BY <2>2, <3>1 DEF Orderly
    <3>4. host'.volume # q
      BY <1>1, <3>1 DEF Shaped
    <3>5. ASSUME NEW d \in Ids, Exists(d)' PROVE host'.box[d].key # q
      <4>1. CASE d # c
        BY <1>1, <3>1, <3>5, <4>1 DEF Shaped, Concerns, Exists
      <4>2. CASE d = c
        BY <1>1, <2>2, <3>1, <3>2, <3>5, <4>2 DEF Shaped, Exists
      <4> QED BY <4>1, <4>2
    <3> QED BY <3>3, <3>4, <3>5
  <2> QED BY <2>1, <2>2
<1>5. DatabaseKeyKnown'
  <2>1. ASSUME NEW q \in Runs \ {r} PROVE pc'[q] \notin GoesBy \cup {"db_create"}
    <3>1. pc[q] \notin Active /\ pc'[q] = pc[q]
      BY DEF Orderly, IInv, OneAtATime
    <3> QED BY <3>1 DEF GoesBy, BeforeRename, Active, Before, Switch, Rollout
  <2>2. ASSUME pc[r] \in GoesBy, loc'[r].db = loc[r].db, loc'[r].key = loc[r].key, pc'[r] \in GoesBy
        PROVE  host'.box[loc'[r].db].key = loc'[r].key
    <3>1. PICK db : db = loc[r].db
      OBVIOUS
    <3>2. /\ GoesBy \subseteq Active /\ "db_create" \notin GoesBy /\ "create_db" \notin GoesBy
          /\ pc'[r] \in BeforeRename /\ pc[r] \in BeforeRename /\ pc[r] \notin {"list", "storage", "db_create"}
      BY <2>2 DEF GoesBy, BeforeRename, Active, Before, Switch, Rollout
    <3>3. db \in Ids /\ Role(db) = "db" /\ Exists(db) /\ host.box[db].key = loc[r].key
      BY <1>2, <2>2, <3>1, <3>2 DEF Known, DbKnown, HasDbName, Local, Tidy, DatabaseKeyKnown
    <3>4. Exists(db)'
      BY <2>2, <3>1, <3>2, <3>3, NoneAssumption DEF IInv, Known, DbKnown, HasDbName
    <3>5. host'.box[db].key = host.box[db].key
      BY <1>1, <2>2, <3>2, <3>3, <3>4 DEF Shaped, Concerns, Exists
    <3> QED BY <2>2, <3>1, <3>3, <3>5
  <2>3. pc'[r] \in GoesBy => host'.box[loc'[r].db].key = loc'[r].key
    BY <2>2 DEF Orderly
  <2> QED BY <2>1, <2>3 DEF DatabaseKeyKnown, Orderly
<1>6. LostForGood'
  <2>1. CASE Misled' /\ ~Misled
    <3>1. pc[r] = "rename_db" /\ pc'[r] \notin Nameable /\ Named(DbName)' = {}
      BY <2>1 DEF Orderly
    <3>2. host.volume # None /\ host'.volume # None
      BY <1>1, <1>2, <3>1 DEF Known, KeyKnown, Early, Candidacy, Shaped
    <3>3. \A q \in Runs \ {r} : pc'[q] \notin Nameable
      <4>1. Nameable \subseteq Active
        BY DEF Nameable, Replaced, Active, Rollout, UndoRollout
      <4> QED BY <4>1 DEF Orderly, IInv, OneAtATime
    <3>4. \A d \in Ids : ~HasDbName(d)'
      BY <3>1 DEF Named, HasDbName
    <3> QED BY <3>1, <3>2, <3>3, <3>4 DEF LostForGood
  <2>2. CASE Misled
    <3>1. /\ host.volume # None /\ host'.volume = host.volume
          /\ \A d \in Ids : HasDbName(d) => host.box[d].key # host.volume
          /\ \A q \in Runs : pc[q] \notin Nameable
      BY <1>1, <2>2 DEF Tidy, LostForGood, Shaped
    <3>2. pc[r] # "rename_db"
      <4>1. ASSUME pc[r] = "rename_db" PROVE FALSE
        <5>1. HasDbName(loc[r].db) /\ loc[r].db \in Ids /\ loc[r].key = host.volume
          BY <1>2, <4>1 DEF Known, DbKnown, KeyKnown, BeforeRename, Early, Candidacy, Local
        <5>2. host.box[loc[r].db].key = loc[r].key
          BY <4>1 DEF Tidy, DatabaseKeyKnown, GoesBy, BeforeRename
        <5> QED BY <3>1, <5>1, <5>2
      <4> QED BY <4>1
    <3>3. \A q \in Runs : pc'[q] \notin Nameable
      BY <3>1, <3>2 DEF Orderly
    <3>4. pc[r] # "create_db" /\ pc[r] # "rename_db_back"
      BY <3>1 DEF Nameable
    <3>5. pc[r] = "db_create" => loc[r].key # host.volume
      BY DEF Tidy, DatabaseKeyKnown, PasswordsNew, FirstSteps
    <3>6. ASSUME NEW d \in Ids, HasDbName(d)' PROVE host'.box[d].key # host'.volume
      <4>1. CASE d # c
        BY <1>1, <3>1, <3>6, <4>1 DEF Shaped, Concerns, HasDbName, Exists
      <4>2. CASE d = c
        BY <1>1, <3>1, <3>4, <3>5, <3>6, <4>2 DEF Shaped, HasDbName, Exists
      <4> QED BY <4>1, <4>2
    <3> QED BY <3>1, <3>3, <3>6 DEF LostForGood
  <2> QED BY <2>1, <2>2 DEF LostForGood
<1> QED BY <1>3, <1>4, <1>5, <1>6 DEF Tidy
-----------------------------------------------------------------------------
(* Every step keeps the order *)

(* Where an exception does not lead. *)
LEMMA HandlerIsOrderly ==
  ASSUME IInv, NEW r \in Runs, pc[r] \in Active \ {"record"}
  PROVE  /\ Handler(r) \notin FirstSteps \cup GoesBy
         /\ Handler(r) \in Nameable => pc[r] \in Nameable
<1>1. Known(r)
  BY Here
<1>2. (UndoRollout \cup Undo \cup {"failed"}) \cap (FirstSteps \cup GoesBy) = {}
  BY DEF UndoRollout, Undo, FirstSteps, GoesBy, BeforeRename, Before
<1>3. UndoSwitch(loc[r]) \notin Nameable /\ "failed" \notin Nameable
  BY DEF UndoSwitch, Restore, Nameable, Replaced
<1>4. ASSUME pc[r] \in Rollout, UndoDb(loc[r]) \in Nameable PROVE pc[r] \in Nameable
  <2>1. CASE pc[r] \in {"stop_db", "rename_db"}
    <3>1. UndoDb(loc[r]) = "restart_db"
      BY <1>1, <2>1 DEF Known, DbKnown, BeforeRename, UndoDb, RestoreDb
    <3> QED BY <1>4, <3>1 DEF Nameable, Replaced
  <2> QED BY <1>4, <2>1 DEF Rollout, Nameable, Replaced
<1>5. pc[r] \in Before \cup Undo \cup Switch \cup UndoRollout \cup Rollout
  BY DEF Active
<1> QED BY <1>2, <1>3, <1>4, <1>5, HandlerPlaces

(* What did not go wrong in a rename of the database misleads nobody. *)
LEMMA NotMisled ==
  ASSUME IInv, NEW r \in Runs,
         mishaps' = mishaps \/ \E kind : Mishap(r, kind) /\ <<pc[r], kind>> # <<"rename_db", "lost">>
  PROVE  Misled' => Misled
BY DEF Misled, Suffered, Mishap, IInv, TypeOK

(* A step that goes on to its place, or raises an exception. *)
LEMMA CallIsOrderly ==
  ASSUME IInv, NEW r \in Runs, pc[r] \in Active \ {"record"}, NEW c, Shaped(r, c), NEW l, NEW place,
         (Keep(r, l) /\ Go(r, place)) \/ Raise(r),
         mishaps' = mishaps \/ \E kind : Mishap(r, kind) /\ <<pc[r], kind>> # <<"rename_db", "lost">>,
         l.key = loc[r].key, place \notin FirstSteps,
         place \in GoesBy => pc[r] \in GoesBy /\ l.db = loc[r].db,
         place \in Nameable => pc[r] \in Nameable \cup {"rename_db"}
  PROVE  Orderly(r)
<1>1. Misled' => Misled
  BY NotMisled
<1>2. CASE Keep(r, l) /\ Go(r, place)
  <2>1. /\ loc'[r] = l /\ pc'[r] = place
        /\ \A q \in Runs \ {r} : pc'[q] = pc[q] /\ loc'[q] = loc[q]
    BY <1>2 DEF Keep, Go, IInv, TypeOK
  <2>2. place # "db_create"
    BY DEF FirstSteps
  <2> QED BY <1>1, <2>1, <2>2 DEF Orderly
<1>3. CASE Raise(r)
  <2>1. /\ loc' = loc /\ pc'[r] = Handler(r) /\ \A q \in Runs \ {r} : pc'[q] = pc[q]
    BY <1>3 DEF Raise, Go, IInv, TypeOK
  <2>2. "db_create" \in FirstSteps
    BY DEF FirstSteps
  <2> QED BY <1>1, <2>1, <2>2, HandlerIsOrderly DEF Orderly
<1> QED BY <1>2, <1>3

(* What a call does to a container that is there. *)
Alters(r, c) ==
  \/ host' = host
  \/ CanStart(c) /\ host' = Start(c)
  \/ CanStop(c) /\ host' = Stop(c)
  \/ CanDelete(c) /\ host' = Delete(c)
  \/ \E n \in Names : CanRename(c, n) /\ host' = Rename(c, n) /\ (n # DbName \/ pc[r] = "rename_db_back")

LEMMA AltersShapes ==
  ASSUME IInv, NEW r \in Runs, NEW c \in Ids, Alters(r, c)
  PROVE  Shaped(r, c)
<1>1. host \in HostType
  BY DEF IInv, TypeOK, HostType
<1>2. Exists(c) => host.box[c] \in Containers
  BY <1>1 DEF HostType, Exists
<1>3. CASE host' = host
  BY <1>3 DEF Shaped, Concerns, Exists
<1>4. CASE CanStart(c) /\ host' = Start(c)
  <2>1. /\ Exists(c) /\ host'.box[c] = [host.box[c] EXCEPT !.on = TRUE] /\ Concerns(c)
        /\ host'.volume = IF Role(c) = "db" /\ host.volume = None THEN host.box[c].key ELSE host.volume
    BY <1>1, <1>4, StartEffect DEF CanStart
  <2>2. /\ host'.box[c].key = host.box[c].key /\ host'.box[c].port = host.box[c].port
        /\ host'.box[c].name = host.box[c].name
    BY <1>2, <2>1 DEF Containers
  <2> QED BY <2>1, <2>2 DEF Shaped
<1>5. CASE CanStop(c) /\ host' = Stop(c)
  <2>1. /\ Exists(c) /\ host'.box[c] = [host.box[c] EXCEPT !.on = FALSE] /\ Concerns(c)
        /\ host'.volume = host.volume
    BY <1>1, <1>5, StopEffect DEF CanStop, On
  <2>2. /\ host'.box[c].key = host.box[c].key /\ host'.box[c].port = host.box[c].port
        /\ host'.box[c].name = host.box[c].name
    BY <1>2, <2>1 DEF Containers
  <2> QED BY <2>1, <2>2 DEF Shaped
<1>6. CASE CanDelete(c) /\ host' = Delete(c)
  BY <1>1, <1>6, DeleteEffect DEF Shaped
<1>7. ASSUME NEW n \in Names, CanRename(c, n), host' = Rename(c, n), n # DbName \/ pc[r] = "rename_db_back"
      PROVE  Shaped(r, c)
  <2>1. /\ Exists(c) /\ host'.box[c] = [host.box[c] EXCEPT !.name = n] /\ Concerns(c)
        /\ host'.volume = host.volume
    BY <1>1, <1>7, RenameEffect DEF CanRename
  <2>2. /\ host'.box[c].key = host.box[c].key /\ host'.box[c].port = host.box[c].port
        /\ host'.box[c].name = n
    BY <1>2, <2>1 DEF Containers
  <2> QED BY <1>7, <2>1, <2>2 DEF Shaped
<1> QED BY <1>3, <1>4, <1>5, <1>6, <1>7 DEF Alters

(* How a step asks Docker about one container. *)
Asks(r, c, l, place) ==
  /\ c \in Ids /\ Alters(r, c)
  /\ (Keep(r, l) /\ Go(r, place)) \/ Raise(r)
  /\ mishaps' = mishaps \/ \E kind : Mishap(r, kind) /\ <<pc[r], kind>> # <<"rename_db", "lost">>

LEMMA AsksIsOrderly ==
  ASSUME IInv, NEW r \in Runs, pc[r] \in Active \ {"record"}, NEW c, NEW l, NEW place, Asks(r, c, l, place),
         l.key = loc[r].key, place \notin FirstSteps,
         place \in GoesBy => pc[r] \in GoesBy /\ l.db = loc[r].db,
         place \in Nameable => pc[r] \in Nameable \cup {"rename_db"}
  PROVE  Orderly(r)
BY AltersShapes, CallIsOrderly DEF Asks

(* Its form, told from the call. *)
LEMMA CallAsks ==
  ASSUME NEW r \in Runs, NEW possible, NEW after, NEW l, NEW place, Call(r, possible, after, l, place),
         NEW c \in Ids, host' = host \/ (possible /\ host' = after) => Alters(r, c), pc[r] # "rename_db"
  PROVE  Asks(r, c, l, place)
<1>1. \A kind : <<pc[r], kind>> # <<"rename_db", "lost">>
  OBVIOUS
<1> QED BY <1>1 DEF Call, Asks, Alters

(* Calls about the candidate. *)
LEMMA CandidateIsOrderly ==
  ASSUME IInv, NEW r \in Runs, CandidateStart(r) \/ CandidateStop(r) \/ CandidateDelete(r)
  PROVE  Orderly(r)
<1>1. PICK place :
        /\ pc[r] \in Before \cap GoesBy /\ Asks(r, Candidate(r), loc[r], place)
        /\ place \in GoesBy \cup {"refused"}
  <2>1. /\ {"cand_start", "cand_stop", "cand_delete"} \subseteq Before \cap GoesBy
        /\ {"cand_wait", "cand_delete", "busy"} \subseteq GoesBy
    BY DEF Before, GoesBy, BeforeRename
  <2>2. Candidate(r) \in Ids
    BY IdsOf
  <2>3. CASE CandidateStart(r)
    BY <2>1, <2>2, <2>3, CallAsks DEF CandidateStart, At, Alters
  <2>4. CASE CandidateStop(r)
    BY <2>1, <2>2, <2>4, CallAsks DEF CandidateStop, At, Alters
  <2>5. CASE CandidateDelete(r)
    BY <2>1, <2>2, <2>5, CallAsks DEF CandidateDelete, At, Alters
  <2> QED BY <2>3, <2>4, <2>5
<1>2. pc[r] \in Active \ {"record"}
  BY <1>1 DEF Active, Before
<1>3. place \notin FirstSteps /\ place \notin Nameable
  BY <1>1 DEF GoesBy, BeforeRename, Before, FirstSteps, Nameable, Replaced
<1> QED BY <1>1, <1>2, <1>3, AsksIsOrderly

(* Calls about the old app and the new one. *)
LEMMA AppIsOrderly ==
  ASSUME IInv, NEW r \in Runs,
         \/ StopOld(r) \/ RenameOld(r) \/ StartNew(r)
         \/ HaltNew(r) \/ DeleteNew(r) \/ RenameBack(r) \/ RestartOld(r)
  PROVE  Orderly(r)
<1>1. /\ pc[r] \in Active \ {"record"}
      /\ pc[r] \in {"stop_old", "rename_old"} \cup {"start_new"} \cup Undo
  BY DEF Active, Switch, Undo, At, StopOld, RenameOld, StartNew, HaltNew, DeleteNew, RenameBack, RestartOld
<1>2. Known(r) /\ loc[r] \in Local
  BY <1>1, Here
<1>3. /\ pc[r] \in {"stop_old", "rename_old", "rename_back", "restart_old"} => loc[r].old \in Ids
      /\ pc[r] \in {"halt_new", "delete_new"} => loc[r].new \in Ids
      /\ New(r) \in Ids
  BY <1>2, IdsOf DEF Known, AppsKnown, Local
<1>4. RollbackName(r) \in Names /\ RollbackName(r) # DbName /\ AppName \in Names /\ AppName # DbName
  BY NamesDiffer
<1>5. PICK c, l, place :
        /\ Asks(r, c, l, place) /\ l.key = loc[r].key /\ l.db = loc[r].db
        /\ place \in {"rename_old", "inspect_db"} => pc[r] \in {"stop_old", "rename_old"}
        /\ place \in {"rename_old", "inspect_db", "wait_new", "delete_new", "restart_old", "failed", "rename_back"}
  <2>1. CASE StopOld(r)
    <3>1. PICK l : /\ l = [loc[r] EXCEPT !.stopped = TRUE] /\ pc[r] = "stop_old"
                   /\ Call(r, CanStop(loc[r].old), Stop(loc[r].old), l, "rename_old")
      BY <2>1 DEF StopOld, At
    <3>2. l.key = loc[r].key /\ l.db = loc[r].db
      BY <1>2, <3>1 DEF Local
    <3>3. Asks(r, loc[r].old, l, "rename_old")
      BY <1>3, <3>1, CallAsks DEF Alters
    <3> QED BY <3>1, <3>2, <3>3
  <2>2. CASE RenameOld(r)
    <3>1. PICK l : /\ l = [loc[r] EXCEPT !.renamed = TRUE] /\ pc[r] = "rename_old"
                   /\ Call(r, CanRename(loc[r].old, RollbackName(r)), Rename(loc[r].old, RollbackName(r)), l, "inspect_db")
      BY <2>2 DEF RenameOld, At
    <3>2. l.key = loc[r].key /\ l.db = loc[r].db
      BY <1>2, <3>1 DEF Local
    <3>3. Asks(r, loc[r].old, l, "inspect_db")
      BY <1>3, <1>4, <3>1, CallAsks DEF Alters
    <3> QED BY <3>1, <3>2, <3>3
  <2>3. CASE StartNew(r)
    <3>1. pc[r] = "start_new" /\ Call(r, CanStart(New(r)), Start(New(r)), loc[r], "wait_new")
      BY <2>3 DEF StartNew, At
    <3> QED BY <1>3, <3>1, CallAsks DEF Alters
  <2>4. CASE HaltNew(r)
    <3>1. pc[r] = "halt_new" /\ Call(r, CanStop(loc[r].new), Stop(loc[r].new), loc[r], "delete_new")
      BY <2>4 DEF HaltNew, At
    <3> QED BY <1>3, <3>1, CallAsks DEF Alters
  <2>5. CASE DeleteNew(r)
    <3>1. pc[r] = "delete_new" /\ Call(r, CanDelete(loc[r].new), Delete(loc[r].new), loc[r], Restore(loc[r]))
      BY <2>5 DEF DeleteNew, At
    <3> QED BY <1>3, <3>1, CallAsks, RestorePlaces DEF Alters
  <2>6. CASE RenameBack(r)
    <3>1. pc[r] = "rename_back" /\ Call(r, CanRename(loc[r].old, AppName), Rename(loc[r].old, AppName), loc[r], "restart_old")
      BY <2>6 DEF RenameBack, At
    <3> QED BY <1>3, <1>4, <3>1, CallAsks DEF Alters
  <2>7. CASE RestartOld(r)
    <3>1. pc[r] = "restart_old" /\ Call(r, CanStart(loc[r].old), Start(loc[r].old), loc[r], "failed")
      BY <2>7 DEF RestartOld, At
    <3> QED BY <1>3, <3>1, CallAsks DEF Alters
  <2> QED BY <2>1, <2>2, <2>3, <2>4, <2>5, <2>6, <2>7
<1>6. place \notin FirstSteps /\ place \notin Nameable
  BY <1>5 DEF FirstSteps, Nameable, Replaced
<1>7. place \in GoesBy => pc[r] \in GoesBy
  BY <1>5 DEF GoesBy, BeforeRename, Before
<1> QED BY <1>1, <1>5, <1>6, <1>7, AsksIsOrderly

(* Calls about the databases that are there. *)
LEMMA DatabaseIsOrderly ==
  ASSUME IInv, NEW r \in Runs,
         \/ DbStart(r) \/ StopDb(r) \/ ReplaceDb(r)
         \/ HaltDb(r) \/ DeleteDb(r) \/ RenameDbBack(r) \/ RestartDb(r)
  PROVE  Orderly(r)
<1>1. /\ pc[r] \in Active \ {"record"}
      /\ pc[r] \in {"db_start", "stop_db", "replace_db", "halt_db", "delete_db", "rename_db_back", "restart_db"}
  BY DEF Active, Before, Rollout, UndoRollout, At, DbStart, StopDb, ReplaceDb, HaltDb, DeleteDb, RenameDbBack, RestartDb
<1>2. Known(r) /\ loc[r] \in Local
  BY <1>1, Here
<1>3. /\ loc[r].db \in Ids /\ Replacement(r) \in Ids
      /\ pc[r] \in Replaced => loc[r].replacement = Replacement(r)
  BY <1>1, <1>2, IdsOf DEF Known, DbKnown, Local
<1>4. DbName \in Names
  BY NamesDiffer
<1>5. PICK c, place :
        /\ Asks(r, c, loc[r], place)
        /\ place \in {"db_wait", "rename_db"} => pc[r] \in {"db_start", "stop_db"}
        /\ place \in Nameable => pc[r] \in Nameable
        /\ place \in {"db_wait", "rename_db", "wait_db", "delete_db", "rename_db_back", "restart_db", "rewait_db"}
  <2>0. {"replace_db", "halt_db", "delete_db"} \subseteq Replaced \cap Nameable
    BY DEF Replaced, Nameable
  <2>1. CASE DbStart(r)
    <3>1. pc[r] = "db_start" /\ Call(r, CanStart(loc[r].db), Start(loc[r].db), loc[r], "db_wait")
      BY <2>1 DEF DbStart, At
    <3> QED BY <1>3, <3>1, CallAsks DEF Alters, Nameable, Replaced
  <2>2. CASE StopDb(r)
    <3>1. pc[r] = "stop_db" /\ Call(r, CanStop(loc[r].db), Stop(loc[r].db), loc[r], "rename_db")
      BY <2>2 DEF StopDb, At
    <3> QED BY <1>3, <3>1, CallAsks DEF Alters, Nameable, Replaced
  <2>3. CASE ReplaceDb(r)
    <3>1. pc[r] = "replace_db" /\ Call(r, CanStart(Replacement(r)), Start(Replacement(r)), loc[r], "wait_db")
      BY <2>3 DEF ReplaceDb, At
    <3> QED BY <1>3, <2>0, <3>1, CallAsks DEF Alters
  <2>4. CASE HaltDb(r)
    <3>1. pc[r] = "halt_db" /\ Call(r, CanStop(loc[r].replacement), Stop(loc[r].replacement), loc[r], "delete_db")
      BY <2>4 DEF HaltDb, At
    <3> QED BY <1>3, <2>0, <3>1, CallAsks DEF Alters
  <2>5. CASE DeleteDb(r)
    <3>1. pc[r] = "delete_db" /\ Call(r, CanDelete(loc[r].replacement), Delete(loc[r].replacement), loc[r], RestoreDb(loc[r]))
      BY <2>5 DEF DeleteDb, At
    <3>2. RestoreDb(loc[r]) \in {"rename_db_back", "restart_db"}
      BY DEF RestoreDb
    <3> QED BY <1>3, <2>0, <3>1, <3>2, CallAsks DEF Alters
  <2>6. CASE RenameDbBack(r)
    <3>1. pc[r] = "rename_db_back" /\ Call(r, CanRename(loc[r].db, DbName), Rename(loc[r].db, DbName), loc[r], "restart_db")
      BY <2>6 DEF RenameDbBack, At
    <3> QED BY <1>3, <1>4, <3>1, CallAsks DEF Alters, Nameable, Replaced
  <2>7. CASE RestartDb(r)
    <3>1. pc[r] = "restart_db" /\ Call(r, CanStart(loc[r].db), Start(loc[r].db), loc[r], "rewait_db")
      BY <2>7 DEF RestartDb, At
    <3> QED BY <1>3, <3>1, CallAsks DEF Alters, Nameable, Replaced
  <2> QED BY <2>1, <2>2, <2>3, <2>4, <2>5, <2>6, <2>7
<1>6. place \notin FirstSteps
  BY <1>5 DEF FirstSteps
<1>7. place \in GoesBy => pc[r] \in GoesBy
  BY <1>5 DEF GoesBy, BeforeRename, Before
<1> QED BY <1>1, <1>5, <1>6, <1>7, AsksIsOrderly

(* Questions and waits. *)
LEMMA QuestionIsOrderly ==
  ASSUME IInv, NEW r \in Runs,
         \/ DbWait(r) \/ Load(r) \/ CandidateWait(r) \/ Busy(r) \/ InspectDb(r) \/ WaitDb(r)
         \/ LookDb(r) \/ RewaitDb(r) \/ WaitNew(r) \/ Public(r)
  PROVE  Orderly(r)
<1>1. /\ pc[r] \in Active \ {"record"}
      /\ pc[r] \in {"db_wait", "load", "cand_wait", "busy", "inspect_db", "wait_db", "look_db", "rewait_db",
                    "wait_new", "public"}
  BY DEF Active, Before, Switch, Rollout, UndoRollout, At, DbWait, Load, CandidateWait, Busy, InspectDb, WaitDb,
     LookDb, RewaitDb, WaitNew, Public
<1>2. Known(r) /\ loc[r] \in Local
  BY <1>1, Here
<1>3. PICK l, place :
        /\ host' = host /\ l.key = loc[r].key
        /\ (Keep(r, l) /\ Go(r, place)) \/ Raise(r)
        /\ mishaps' = mishaps \/ \E kind : Mishap(r, kind)
        /\ \/ place \in {"refused", "create_new", "public", "record"}
           \/ l = loc[r] /\ place \in {"load", "cand_create", "stop_old", "inspect_db", "stop_db"} /\ pc[r] \in GoesBy
           \/ place = "cand_stop" /\ l.db = loc[r].db /\ pc[r] \in GoesBy
           \/ pc[r] = "look_db" /\ place \in {"halt_db", "delete_db"}
           \/ pc[r] = "rewait_db" /\ place = UndoSwitch(loc[r])
  <2>1. loc' = loc => Keep(r, loc[r])
    BY DEF Keep, IInv, TypeOK
  <2>2. {"db_wait", "load", "cand_wait", "busy", "inspect_db"} \subseteq GoesBy
    BY DEF GoesBy, BeforeRename, Before
  <2>3. CASE DbWait(r)
    BY <2>1, <2>2, <2>3 DEF DbWait, At, Wait, NotReady, Raise
  <2>4. CASE Load(r)
    BY <2>2, <2>4 DEF Load, At, Ask, Call
  <2>5. CASE CandidateWait(r)
    <3>1. PICK l : /\ l = [loc[r] EXCEPT !.ready = TRUE] /\ pc[r] = "cand_wait"
                   /\ Wait(r, Candidate(r), l, "cand_stop", "cand_stop")
      BY <2>5 DEF CandidateWait, At
    <3>2. l.key = loc[r].key /\ l.db = loc[r].db
      BY <1>2, <3>1 DEF Local
    <3> QED BY <2>1, <2>2, <3>1, <3>2 DEF Wait, NotReady, Raise
  <2>6. CASE Busy(r)
    BY <2>1, <2>2, <2>6 DEF Busy, At, SwitchFrom
  <2>7. CASE InspectDb(r)
    BY <2>2, <2>7 DEF InspectDb, At, Ask, Call
  <2>8. CASE WaitDb(r)
    <3>1. PICK l : l = [loc[r] EXCEPT !.db = Replacement(r)] /\ Wait(r, Replacement(r), l, "create_new", "raise")
      BY <2>8 DEF WaitDb
    <3>2. l.key = loc[r].key
      BY <1>2, <3>1 DEF Local
    <3> QED BY <3>1, <3>2 DEF Wait, NotReady, Raise
  <2>9. CASE LookDb(r)
    BY <2>9 DEF LookDb, At, Ask, Call
  <2>10. CASE RewaitDb(r)
    BY <2>1, <2>10 DEF RewaitDb, At, Wait, NotReady, Raise
  <2>11. CASE WaitNew(r)
    BY <2>1, <2>11 DEF WaitNew, At, Wait, NotReady, Raise
  <2>12. CASE Public(r)
    BY <2>1, <2>12 DEF Public, At, Wait, NotReady, Raise
  <2> QED BY <2>3, <2>4, <2>5, <2>6, <2>7, <2>8, <2>9, <2>10, <2>11, <2>12
<1>4. Asks(r, New(r), l, place)
  BY <1>1, <1>3, IdsOf DEF Asks, Alters
<1>5. UndoSwitch(loc[r]) \notin FirstSteps \cup GoesBy \cup Nameable
  BY DEF UndoSwitch, Restore, FirstSteps, GoesBy, BeforeRename, Before, Nameable, Replaced
<1>6. place \notin FirstSteps
  BY <1>3, <1>5 DEF FirstSteps
<1>7. place \in GoesBy => pc[r] \in GoesBy /\ l.db = loc[r].db
  BY <1>3, <1>5 DEF GoesBy, BeforeRename, Before
<1>8. place \in Nameable => pc[r] \in Nameable
  BY <1>3, <1>5 DEF Nameable, Replaced
<1> QED BY <1>1, <1>3, <1>4, <1>6, <1>7, <1>8, AsksIsOrderly

(* The first look. *)
LEMMA ListIsOrderly ==
  ASSUME IInv, NEW r \in Runs, List(r)
  PROVE  Orderly(r)
<1> DEFINE up == AppUp
           obstacle == Obstacle(r)
<1>1. PICK l : /\ l = [loc[r] EXCEPT !.old = Find(AppName), !.db = Find(DbName), !.up = up, !.obstacle = obstacle]
               /\ pc[r] = "list"
               /\ \/ Go(r, "refused") /\ Keep(r, l) /\ UNCHANGED <<host, mishaps>>
                  \/ Ask(r, TRUE, l, "storage")
  BY DEF List, At
<1> HIDE DEF up, obstacle
<1>2. loc[r] = Fresh /\ pc[r] \in Active \ {"record"}
  BY <1>1 DEF IInv, NotYet, Active, Before
<1>3. l.key = loc[r].key
  BY <1>1, <1>2 DEF Fresh
<1>4. PICK place \in {"refused", "storage"} :
        /\ host' = host
        /\ (Keep(r, l) /\ Go(r, place)) \/ Raise(r)
        /\ mishaps' = mishaps \/ Mishap(r, "error")
  BY <1>1 DEF Ask, Call
<1>5. Shaped(r, New(r)) /\ (Misled' => Misled)
  BY <1>1, <1>4, IdsOf, AltersShapes, NotMisled DEF Alters
<1>6. /\ \A q \in Runs \ {r} : pc'[q] = pc[q] /\ loc'[q] = loc[q]
      /\ loc'[r] \in {l, loc[r]} /\ pc'[r] \in {"refused", "storage", Handler(r)}
  BY <1>4 DEF Keep, Go, Raise, IInv, TypeOK
<1>7. Handler(r) = "failed"
  BY <1>1, <1>2, HandlerPlaces DEF Before
<1>8. pc'[r] \notin GoesBy \cup Nameable /\ pc[r] \in FirstSteps /\ pc'[r] # "db_create"
  BY <1>1, <1>6, <1>7 DEF GoesBy, BeforeRename, Before, Nameable, Replaced, FirstSteps
<1> QED BY <1>3, <1>4, <1>5, <1>6, <1>8 DEF Orderly

(* The password of the database found, or the run's own. *)
LEMMA StorageIsOrderly ==
  ASSUME IInv, NEW r \in Runs, Storage(r)
  PROVE  Orderly(r)
<1>1. PICK l, place :
        /\ pc[r] = "storage" /\ Ask(r, TRUE, l, place)
        /\ loc[r].db = None => l = [loc[r] EXCEPT !.key = r] /\ place = "db_create"
        /\ loc[r].db # None => l = [loc[r] EXCEPT !.key = host.box[loc[r].db].key] /\ place \in {"db_wait", "db_start"}
  BY DEF Storage, At
<1>2. pc[r] \in Active \ {"record"} /\ pc[r] \in FirstSteps
  BY <1>1 DEF Active, Before, FirstSteps
<1>3. Known(r) /\ loc[r] \in Local
  BY <1>2, Here
<1>4. loc[r].db # None => loc[r].db \in Ids /\ Exists(loc[r].db)
  BY <1>1, <1>3 DEF Known, DbKnown, Local, BeforeRename, Before, HasDbName
<1>5. /\ l.db = loc[r].db
      /\ loc[r].db = None => l.key = r
      /\ loc[r].db # None => l.key = host.box[loc[r].db].key
  BY <1>1, <1>3 DEF Local
<1>6. Shaped(r, New(r)) /\ (Misled' => Misled)
  BY <1>1, IdsOf, AltersShapes, NotMisled DEF Alters, Ask, Call
<1>7. /\ \A q \in Runs \ {r} : pc'[q] = pc[q] /\ loc'[q] = loc[q]
      /\ host' = host
      /\ (loc'[r] = l /\ pc'[r] = place) \/ (loc'[r] = loc[r] /\ pc'[r] = Handler(r))
  BY <1>1 DEF Ask, Call, Keep, Go, Raise, IInv, TypeOK
<1>8. Handler(r) = "failed"
  BY <1>1, <1>2, HandlerPlaces DEF Before
<1>9. /\ "failed" \notin GoesBy \cup Nameable \cup {"db_create"}
      /\ place \notin Nameable /\ (place = "db_create" => place \notin GoesBy)
  BY <1>1 DEF GoesBy, BeforeRename, Before, Nameable, Replaced
<1>10. loc'[r].key \in {loc[r].key, r} \/ \E d \in Ids : Exists(d) /\ loc'[r].key = host.box[d].key
  BY <1>4, <1>5, <1>7
<1>11. pc'[r] = "db_create" => loc'[r].key = r
  BY <1>1, <1>5, <1>7, <1>8
<1>12. pc'[r] \in GoesBy => host'.box[loc'[r].db].key = loc'[r].key
  BY <1>1, <1>5, <1>7, <1>8, <1>9
<1>13. pc'[r] \notin Nameable
  BY <1>7, <1>8, <1>9
<1> QED BY <1>2, <1>6, <1>7, <1>10, <1>11, <1>12, <1>13 DEF Orderly

(* What is made: with the password of the run, or of the database.         *)
LEMMA MadeShapes ==
  ASSUME IInv, NEW r \in Runs, NEW c \in Ids, NEW box \in Containers, host' = Create(c, box),
         /\ Role(c) = "app" => box.port = "app"
         /\ Role(c) = "candidate" => box.port = None
         /\ Role(c) = "db" => box.port \in {FirstPort} \cup {PortOf[q] : q \in Runs},
         \/ box.key = loc[r].key /\ box.name # DbName /\ Role(c) # "db"
         \/ box.key = loc[r].key /\ pc[r] = "db_create"
         \/ pc[r] = "create_db" /\ box.key = host.box[loc[r].db].key
  PROVE  Shaped(r, c)
<1>1. host'.box[c] = box /\ host'.volume = host.volume /\ Concerns(c)
  BY CreateEffect DEF IInv, TypeOK, HostType
<1>2. PortFits(c)'
  BY <1>1 DEF PortFits
<1> QED BY <1>1, <1>2 DEF Shaped

(* A candidate or an app is made. *)
LEMMA CreateIsOrderly ==
  ASSUME IInv, NEW r \in Runs, CandidateCreate(r) \/ CreateNew(r)
  PROVE  Orderly(r)
<1>1. pc[r] \in Active \ {"record"}
  BY DEF CandidateCreate, CreateNew, At, Active, Before, Switch
<1>2. Known(r) /\ loc[r] \in Local
  BY <1>1, Here
<1>3. CASE CandidateCreate(r)
  <2>1. PICK box : /\ box = Image(r, CandidateName(r), None) /\ pc[r] = "cand_create"
                   /\ Call(r, CanCreate(CandidateName(r)), Create(Candidate(r), box), loc[r], "cand_start")
    BY <1>3 DEF CandidateCreate, At
  <2>2. /\ box \in Containers /\ box.key = loc[r].key /\ box.port = None /\ box.name # DbName
    BY <1>2, <2>1, NamesDiffer DEF Image, Containers, Local
  <2>3. host' = Create(Candidate(r), box) => Shaped(r, Candidate(r))
    BY <2>2, IdsOf, MadeShapes
  <2>4. host' = host => Shaped(r, Candidate(r))
    BY IdsOf, AltersShapes DEF Alters
  <2>5. "cand_start" \notin FirstSteps \cup Nameable /\ pc[r] \in GoesBy
    BY <2>1 DEF FirstSteps, Nameable, Replaced, GoesBy, BeforeRename, Before
  <2> QED BY <1>1, <2>1, <2>3, <2>4, <2>5, CallIsOrderly DEF Call
<1>4. CASE CreateNew(r)
  <2>1. PICK box, l : /\ box = Image(r, AppName, "app") /\ pc[r] = "create_new" /\ l = [loc[r] EXCEPT !.new = New(r)]
                      /\ Call(r, CanCreate(AppName), Create(New(r), box), l, "start_new")
    BY <1>4 DEF CreateNew, At
  <2>2. /\ box \in Containers /\ box.key = loc[r].key /\ box.port = "app" /\ box.name # DbName
        /\ l.key = loc[r].key
    BY <1>2, <2>1, NamesDiffer DEF Image, Containers, Local
  <2>3. host' = Create(New(r), box) => Shaped(r, New(r))
    BY <2>2, IdsOf, MadeShapes
  <2>4. host' = host => Shaped(r, New(r))
    BY IdsOf, AltersShapes DEF Alters
  <2>5. "start_new" \notin FirstSteps \cup Nameable \cup GoesBy
    BY DEF FirstSteps, Nameable, Replaced, GoesBy, BeforeRename, Before
  <2> QED BY <1>1, <2>1, <2>2, <2>3, <2>4, <2>5, CallIsOrderly DEF Call
<1> QED BY <1>3, <1>4

(* A first database is made, with the run's own password. *)
LEMMA DbCreateIsOrderly ==
  ASSUME IInv, Tidy, NEW r \in Runs, DbCreate(r)
  PROVE  Orderly(r)
<1>1. PICK l, box :
        /\ l = [loc[r] EXCEPT !.db = Replacement(r)] /\ pc[r] = "db_create"
        /\ box = [name |-> DbName, on |-> FALSE, key |-> loc[r].key, port |-> PortOf[r]]
        /\ Call(r, CanCreate(DbName), Create(Replacement(r), box), l, "db_start")
  BY DEF DbCreate, At, Replacement
<1>2. pc[r] \in Active \ {"record"} /\ pc[r] \in FirstSteps
  BY <1>1 DEF Active, Before, FirstSteps
<1>3. Known(r) /\ loc[r] \in Local
  BY <1>2, Here
<1>4. /\ l.key = loc[r].key /\ l.db = Replacement(r)
      /\ box \in Containers /\ box.key = loc[r].key /\ box.port = PortOf[r]
  BY <1>1, <1>3, NamesDiffer, IdsOf DEF Local, Containers
<1>5. ASSUME host' = Create(Replacement(r), box)
      PROVE  Shaped(r, Replacement(r)) /\ host'.box[Replacement(r)] = box
  <2>1. Replacement(r) \in Ids /\ Role(Replacement(r)) = "db"
    BY IdsOf
  <2>2. box.port \in {FirstPort} \cup {PortOf[q] : q \in Runs}
    BY <1>4
  <2>3. Shaped(r, Replacement(r))
    BY <1>1, <1>4, <1>5, <2>1, <2>2, MadeShapes
  <2>4. host'.box[Replacement(r)] = box
    BY <1>4, <1>5, <2>1, CreateEffect DEF IInv, TypeOK, HostType
  <2> QED BY <2>3, <2>4
<1>6. host' = host => Shaped(r, Replacement(r))
  BY IdsOf, AltersShapes DEF Alters
<1>7. Handler(r) = "failed"
  BY <1>1, <1>2, HandlerPlaces DEF Before
<1>8. /\ \A q \in Runs \ {r} : pc'[q] = pc[q] /\ loc'[q] = loc[q]
      /\ \/ loc'[r] = l /\ pc'[r] = "db_start" /\ host' = Create(Replacement(r), box)
         \/ loc'[r] = loc[r] /\ pc'[r] = "failed"
      /\ host' \in {host, Create(Replacement(r), box)}
  BY <1>1, <1>7 DEF Call, Keep, Go, Raise, IInv, TypeOK
<1>9. {"db_start", "failed"} \cap (FirstSteps \cup Nameable) = {} /\ "failed" \notin GoesBy
  BY DEF FirstSteps, Nameable, Replaced, GoesBy, BeforeRename, Before
<1>10. Misled' => Misled
  BY <1>1, NotMisled DEF Call
<1>11. \E c : Shaped(r, c)
  BY <1>5, <1>6, <1>8
<1>12. pc'[r] \in GoesBy => host'.box[loc'[r].db].key = loc'[r].key
  BY <1>4, <1>5, <1>8, <1>9
<1>13. loc'[r].key = loc[r].key
  BY <1>4, <1>8
<1>14. pc'[r] \notin FirstSteps /\ pc'[r] \notin Nameable /\ pc'[r] # "db_create"
  BY <1>8, <1>9
<1> QED BY <1>8, <1>10, <1>11, <1>12, <1>13, <1>14 DEF Orderly

(* The database gives its name away; the reply may be lost. *)
LEMMA RenameDbIsOrderly ==
  ASSUME IInv, NEW r \in Runs, RenameDb(r)
  PROVE  Orderly(r)
<1>1. PICK c, l : /\ c = loc[r].db /\ l = [loc[r] EXCEPT !.renamed_db = TRUE] /\ pc[r] = "rename_db"
                  /\ Call(r, CanRename(c, BeforePortName(r)), Rename(c, BeforePortName(r)), l, "create_db")
  BY DEF RenameDb, At
<1>2. pc[r] \in Active \ {"record"}
  BY <1>1 DEF Active, Rollout
<1>3. Known(r) /\ loc[r] \in Local /\ HostOK
  BY <1>2, Here
<1>4. c \in Ids /\ HasDbName(c) /\ l.key = loc[r].key
  BY <1>1, <1>3 DEF Known, DbKnown, BeforeRename, Local
<1>5. BeforePortName(r) \in Names /\ BeforePortName(r) # DbName
  BY NamesDiffer
<1>6. host' = host \/ (CanRename(c, BeforePortName(r)) /\ host' = Rename(c, BeforePortName(r))) => Shaped(r, c)
  BY <1>4, <1>5, AltersShapes DEF Alters
<1>7. CASE Mishap(r, "lost") /\ CanRename(c, BeforePortName(r)) /\ host' = Rename(c, BeforePortName(r)) /\ Raise(r)
  <2>1. Concerns(c) /\ host'.box[c] = [host.box[c] EXCEPT !.name = BeforePortName(r)]
    BY <1>3, <1>4, <1>5, <1>7, RenameEffect DEF HostOK, HasDbName
  <2>2. host'.box[c].name = BeforePortName(r)
    BY <1>3, <1>4, <2>1 DEF HostOK, HostType, Containers, HasDbName, Exists
  <2>3. Named(DbName)' = {}
    <3> SUFFICES ASSUME NEW d \in Ids, Exists(d)', host'.box[d].name = DbName PROVE FALSE
      BY DEF Named
    <3>1. d # c
      BY <1>5, <2>2
    <3>2. Exists(d) /\ host.box[d].name = DbName
      BY <2>1, <3>1 DEF Concerns, Exists
    <3> QED BY <1>3, <1>4, <3>1, <3>2 DEF HostOK, NamesApart, HasDbName
  <2>4. /\ loc' = loc /\ pc'[r] = Handler(r) /\ \A q \in Runs \ {r} : pc'[q] = pc[q]
    BY <1>7 DEF Raise, Go, IInv, TypeOK
  <2>5. pc[r] \notin Nameable
    BY <1>1 DEF Nameable, Replaced
  <2>6. Handler(r) \notin FirstSteps \cup GoesBy \cup Nameable
    BY <1>2, <2>5, HandlerIsOrderly
  <2>7. "db_create" \in FirstSteps
    BY DEF FirstSteps
  <2> QED BY <1>1, <1>6, <1>7, <2>3, <2>4, <2>6, <2>7 DEF Orderly
<1>8. CASE ~(Mishap(r, "lost") /\ CanRename(c, BeforePortName(r)) /\ host' = Rename(c, BeforePortName(r)) /\ Raise(r))
  <2>1. /\ Shaped(r, c)
        /\ (Keep(r, l) /\ Go(r, "create_db")) \/ Raise(r)
        /\ mishaps' = mishaps \/ Mishap(r, "error")
    BY <1>1, <1>6, <1>8 DEF Call
  <2>2. "create_db" \notin FirstSteps \cup GoesBy
    BY DEF FirstSteps, GoesBy, BeforeRename, Before
  <2>3. mishaps' = mishaps \/ \E kind : Mishap(r, kind) /\ <<pc[r], kind>> # <<"rename_db", "lost">>
    <3>1. <<pc[r], "error">> # <<"rename_db", "lost">>
      OBVIOUS
    <3> QED BY <2>1, <3>1
  <2>4. pc[r] \in Nameable \cup {"rename_db"}
    BY <1>1
  <2> QED BY <1>2, <1>4, <2>1, <2>2, <2>3, <2>4, CallIsOrderly
<1> QED BY <1>7, <1>8

(* The replacement has the password of the one it replaces. *)
LEMMA CreateDbIsOrderly ==
  ASSUME IInv, NEW r \in Runs, CreateDb(r)
  PROVE  Orderly(r)
<1>1. PICK l, box :
        /\ l = [loc[r] EXCEPT !.replacement = Replacement(r)] /\ pc[r] = "create_db"
        /\ box = [host.box[loc[r].db] EXCEPT !.name = DbName, !.on = FALSE, !.port = PortOf[r]]
        /\ Call(r, CanCreate(DbName), Create(Replacement(r), box), l, "replace_db")
  BY DEF CreateDb, At
<1>2. pc[r] \in Active \ {"record"}
  BY <1>1 DEF Active, Rollout
<1>3. Known(r) /\ loc[r] \in Local /\ HostOK
  BY <1>2, Here
<1>4. loc[r].db \in Ids /\ Exists(loc[r].db) /\ l.key = loc[r].key
  BY <1>1, <1>3 DEF Known, DbKnown, Local
<1>5. host.box[loc[r].db] \in Containers
  BY <1>3, <1>4 DEF HostOK, HostType, Exists
<1>6. box \in Containers /\ box.key = host.box[loc[r].db].key /\ box.port = PortOf[r]
  BY <1>1, <1>5, NamesDiffer DEF Containers
<1>7. ASSUME host' = Create(Replacement(r), box) PROVE Shaped(r, Replacement(r))
  <2>1. Replacement(r) \in Ids /\ Role(Replacement(r)) = "db"
    BY IdsOf
  <2>2. box.port \in {FirstPort} \cup {PortOf[q] : q \in Runs}
    BY <1>6
  <2> QED BY <1>1, <1>6, <1>7, <2>1, <2>2, MadeShapes
<1>8. host' = host => Shaped(r, Replacement(r))
  BY IdsOf, AltersShapes DEF Alters
<1>9. "replace_db" \notin FirstSteps \cup GoesBy /\ pc[r] \in Nameable
  BY <1>1 DEF FirstSteps, Nameable, GoesBy, BeforeRename, Before
<1> QED BY <1>1, <1>2, <1>4, <1>7, <1>8, <1>9, CallIsOrderly DEF Call

(* The record. *)
LEMMA RecordIsOrderly ==
  ASSUME IInv, NEW r \in Runs, Record(r)
  PROVE  Orderly(r)
<1>1. /\ host' = host /\ loc' = loc /\ mishaps' = mishaps /\ pc'[r] = "done"
      /\ \A q \in Runs \ {r} : pc'[q] = pc[q]
  BY DEF Record, Go, IInv, TypeOK
<1>2. "done" \notin FirstSteps \cup GoesBy \cup Nameable
  BY DEF FirstSteps, GoesBy, BeforeRename, Before, Nameable, Replaced
<1>3. Shaped(r, New(r)) /\ (Misled' => Misled)
  BY <1>1, IdsOf, AltersShapes, NotMisled DEF Alters
<1>4. "db_create" \in FirstSteps
  BY DEF FirstSteps
<1> QED BY <1>1, <1>2, <1>3, <1>4 DEF Orderly

(* What comes between the steps of runs keeps it, too. *)
LEMMA BetweenIsTidy ==
  ASSUME Tidy, loc' = loc, Misled' => Misled, host'.volume = host.volume,
         \A c \in Ids : /\ Exists(c)' <=> Exists(c)
                        /\ Exists(c) => /\ host'.box[c].key = host.box[c].key
                                        /\ host'.box[c].port = host.box[c].port
                                        /\ host'.box[c].name = host.box[c].name,
         \A r \in Runs : pc[r] \in GoesBy => loc[r].db \in Ids /\ Exists(loc[r].db),
         \A r \in Runs : pc'[r] = pc[r] \/ pc'[r] = "killed" \/ (pc[r] = "none" /\ pc'[r] = "list")
  PROVE  Tidy'
<1>1. /\ {"killed", "list"} \cap (GoesBy \cup Nameable \cup {"db_create"}) = {}
      /\ "killed" \notin FirstSteps /\ "none" \in FirstSteps
  BY DEF GoesBy, BeforeRename, Before, Nameable, Replaced, FirstSteps
<1>2. PortsFit'
  BY DEF Tidy, PortsFit, PortFits
<1>3. PasswordsNew'
  BY <1>1 DEF Tidy, PasswordsNew
<1>4. DatabaseKeyKnown'
  BY <1>1 DEF Tidy, DatabaseKeyKnown
<1>5. LostForGood'
  BY <1>1 DEF Tidy, LostForGood, HasDbName
<1> QED BY <1>2, <1>3, <1>4, <1>5 DEF Tidy

(* Every step of a run is orderly. *)
LEMMA StepIsOrderly ==
  ASSUME IInv, Tidy, NEW r \in Runs, Step(r)
  PROVE  Orderly(r)
BY ListIsOrderly, StorageIsOrderly, DbCreateIsOrderly, CreateIsOrderly, RenameDbIsOrderly, CreateDbIsOrderly,
   RecordIsOrderly, QuestionIsOrderly, CandidateIsOrderly, AppIsOrderly, DatabaseIsOrderly
   DEF Step, Prepare, EnsureDatabasePort, SwitchApp, UndoSteps

(* The rollback by hand starts one container and stops another. *)
LEMMA RollBackIsTidy ==
  ASSUME IInv, Tidy, RollBackByHand
  PROVE  Tidy'
<1>1. PICK a, b :
        /\ a \in Ids /\ b \in Ids /\ Exists(a) /\ Exists(b)
        /\ host' = [host EXCEPT !.box[a].on = FALSE, !.box[b].on = TRUE]
  <2>1. file.container \in Ids /\ file.previous \in Ids
    BY DEF RollBackByHand, IInv, TypeOK
  <2> QED BY <2>1 DEF RollBackByHand, CanStop, On
<1>2. host \in HostType
  BY DEF IInv, TypeOK, HostType
<1>3. /\ host'.volume = host.volume
      /\ \A c \in Ids \ {a, b} : host'.box[c] = host.box[c]
      /\ \A c \in {a, b} : \/ host'.box[c] = [host.box[c] EXCEPT !.on = FALSE]
                           \/ host'.box[c] = [host.box[c] EXCEPT !.on = TRUE]
                           \/ host'.box[c] = [[host.box[c] EXCEPT !.on = FALSE] EXCEPT !.on = TRUE]
  BY <1>1, <1>2 DEF HostType
<1>4. ASSUME NEW c \in {a, b}
      PROVE  /\ host'.box[c] \in Containers
             /\ host'.box[c].key = host.box[c].key
             /\ host'.box[c].port = host.box[c].port
             /\ host'.box[c].name = host.box[c].name
  <2>1. host.box[c] \in Containers
    BY <1>1, <1>2, <1>4 DEF HostType, Exists
  <2>2. \/ host'.box[c] = [host.box[c] EXCEPT !.on = FALSE]
        \/ host'.box[c] = [host.box[c] EXCEPT !.on = TRUE]
        \/ host'.box[c] = [[host.box[c] EXCEPT !.on = FALSE] EXCEPT !.on = TRUE]
    BY <1>3, <1>4
  <2> QED BY <2>1, <2>2 DEF Containers
<1>5. \A c \in Ids : /\ Exists(c)' <=> Exists(c)
                     /\ Exists(c) => /\ host'.box[c].key = host.box[c].key
                                     /\ host'.box[c].port = host.box[c].port
                                     /\ host'.box[c].name = host.box[c].name
  BY <1>1, <1>3, <1>4, NoneAssumption DEF Exists
<1>6. loc' = loc /\ pc' = pc /\ mishaps' = mishaps
  BY DEF RollBackByHand
<1>7. \A r \in Runs : pc[r] \notin GoesBy
  BY DEF RollBackByHand, Idle, GoesBy, BeforeRename, Active, Before, Switch, Rollout
<1> QED BY <1>3, <1>5, <1>6, <1>7, BetweenIsTidy DEF Misled, Suffered

(* Every step keeps the order. *)
LEMMA TidyKeeps ==
  ASSUME IInv, IInv', Tidy, [Next]_vars
  PROVE  Tidy'
<1>1. CASE \E r \in Runs : Step(r)
  BY <1>1, StepIsActive, StepIsOrderly, TidyStep
<1>2. \A r \in Runs : pc[r] \in GoesBy => loc[r].db \in Ids /\ Exists(loc[r].db)
  <2> SUFFICES ASSUME NEW r \in Runs, pc[r] \in GoesBy PROVE loc[r].db \in Ids /\ Exists(loc[r].db)
    OBVIOUS
  <2>1. /\ pc[r] \in Active /\ pc[r] \in BeforeRename /\ pc[r] \notin {"list", "storage", "db_create"}
    BY DEF GoesBy, BeforeRename, Active, Before, Switch, Rollout
  <2> QED BY <2>1, Here DEF Known, DbKnown, HasDbName, Local
<1>3. CASE \E r \in Runs : Begin(r) \/ Killed(r)
  <2>1. PICK r \in Runs :
          /\ host' = host /\ loc' = loc
          /\ (Go(r, "list") /\ pc[r] = "none" /\ mishaps' = mishaps) \/ (Go(r, "killed") /\ Mishap(r, "kill"))
    BY <1>3 DEF Begin, Killed, At
  <2>2. Misled' => Misled
    BY <2>1, NotMisled
  <2>3. \A q \in Runs : pc'[q] = pc[q] \/ pc'[q] = "killed" \/ (pc[q] = "none" /\ pc'[q] = "list")
    BY <2>1 DEF Go, IInv, TypeOK
  <2> QED BY <1>2, <2>1, <2>2, <2>3, BetweenIsTidy DEF Exists
<1>4. CASE LearnerStarts \/ LearnerEnds \/ UNCHANGED vars
  <2>1. host' = host /\ loc' = loc /\ pc' = pc /\ mishaps' = mishaps
    BY <1>4 DEF LearnerStarts, LearnerEnds, vars
  <2> QED BY <1>2, <2>1, BetweenIsTidy DEF Exists, Misled, Suffered
<1>5. CASE RollBackByHand
  BY <1>5, RollBackIsTidy
<1> QED BY <1>1, <1>3, <1>4, <1>5 DEF Next

(* It is there at the start. *)
LEMMA TidyAtStart ==
  ASSUME Init
  PROVE  Tidy
<1>1. /\ \A r \in Runs : pc[r] = "none" /\ mishaps[r] = {}
      /\ \A r \in Runs : loc[r].key = 0
  BY DEF Init, Fresh
<1>2. 0 \notin Runs /\ None \notin Runs
  <2>1. Cardinality(Runs) \in Nat
    BY RunsAssumption, FS_CardinalityType
  <2>2. 0 \notin 1..Cardinality(Runs)
    BY <2>1
  <2> QED BY <2>2, RunsAssumption, NoneAssumption
<1>3. /\ host.volume \in {0, None}
      /\ \A c \in Ids : Exists(c) =>
           \/ c = <<0, "app">> /\ host.box[c].port = "app" /\ host.box[c].key = 0
           \/ c = <<0, "db">> /\ host.box[c].port = FirstPort /\ host.box[c].key = 0
  <2>1. CASE host = Bare
    BY <2>1 DEF Bare, Exists
  <2>2. CASE host = Installed
    <3>1. host.volume = 0
      BY <2>2 DEF Installed
    <3>2. ASSUME NEW c \in Ids, Exists(c)
          PROVE  \/ c = <<0, "app">> /\ host.box[c].port = "app" /\ host.box[c].key = 0
                 \/ c = <<0, "db">> /\ host.box[c].port = FirstPort /\ host.box[c].key = 0
      <4>1. <<0, "app">> # <<0, "db">>
        OBVIOUS
      <4>2. CASE c = <<0, "app">>
        BY <2>2, <4>1, <4>2 DEF Installed
      <4>3. CASE c = <<0, "db">>
        BY <2>2, <4>1, <4>3 DEF Installed
      <4>4. CASE c # <<0, "app">> /\ c # <<0, "db">>
        BY <2>2, <3>2, <4>4 DEF Installed, Exists
      <4> QED BY <4>2, <4>3, <4>4
    <3> QED BY <3>1, <3>2
  <2> QED BY <2>1, <2>2 DEF Init
<1>4. PortsFit
  BY <1>3 DEF PortsFit, PortFits, Role
<1>5. PasswordsNew
  BY <1>1, <1>2, <1>3 DEF PasswordsNew
<1>6. DatabaseKeyKnown
  BY <1>1 DEF DatabaseKeyKnown, GoesBy, BeforeRename, Before
<1>7. LostForGood
  BY <1>1 DEF LostForGood, Misled, Suffered
<1> QED BY <1>4, <1>5, <1>6, <1>7 DEF Tidy

(* The order of every behaviour, and what learners wait for. *)
LEMMA Ordered == Spec => []Tidy
BY Invariant, TidyAtStart, TidyKeeps, PTL DEF Spec
-----------------------------------------------------------------------------
(* An undisturbed run: nothing went wrong in it, and nothing was left that *)
(* it could not get past.  Then each of its calls is possible, because of  *)
(* what holds at the place where it is made.                               *)

Course == (Before \ {"list"}) \cup Switch \cup Rollout \cup {"record"}
StillUp == (Before \ {"list"}) \cup {"stop_old"}
Free(n) == \A c \in Ids : Exists(c) => host.box[c].name # n

(* The names that the run is going to give are free. *)
NamesFree(r) ==
  /\ pc[r] \in {"storage", "db_create", "db_start", "db_wait", "load", "cand_create"} => Free(CandidateName(r))
  /\ pc[r] \in StillNamed => Free(RollbackName(r))
  /\ pc[r] \in BeforeRename => Free(BeforePortName(r))
  /\ pc[r] \in {"inspect_db", "create_new"} \cup Rollout => Free(AppName)
  /\ pc[r] \in {"db_create", "create_db"} \/ (pc[r] = "storage" /\ loc[r].db = None) => Free(DbName)

(* The ports are published by the old containers, as long as they run. *)
PortsFree(r) ==
  /\ pc[r] \in StillUp => ~OwnedByOthers("app", loc[r].old) /\ (loc[r].old # None => On(loc[r].old))
  /\ pc[r] \in Course \ (StillUp \cup {"wait_new", "public", "record"}) => ~OwnedByOthers("app", None)
  /\ pc[r] \in BeforeRename \cup {"create_db", "replace_db"} => ~OwnedByOthers(PortOf[r], loc[r].db)

(* The database serves, but while it is made or replaced. *)
Serving == (BeforeRename \ {"storage", "db_create", "db_start", "rename_db"})
           \cup {"create_new", "start_new", "wait_new", "public"}
DatabaseServes(r) ==
  LET db == loc[r].db
  IN /\ pc[r] \in {"storage", "db_create", "db_start"} /\ host.volume # None =>
          db # None /\ host.box[db].key = host.volume
     /\ pc[r] = "db_create" => db = None
     /\ pc[r] = "db_start" => ~On(db)
     /\ pc[r] \in Serving => HasDbName(db) /\ On(db) /\ host.box[db].key = host.volume
     /\ pc[r] \in {"rename_db", "create_db", "replace_db"} => ~On(db) /\ host.box[db].key = host.volume
     /\ pc[r] = "replace_db" => ~On(Replacement(r)) /\ host.box[Replacement(r)].port = PortOf[r]
     /\ pc[r] = "wait_db" => On(Replacement(r))
     /\ pc[r] \in {"replace_db", "wait_db"} => host.box[Replacement(r)].key = host.volume

(* What the run has made is as far as it should be. *)
MadeAsPlanned(r) ==
  /\ pc[r] = "cand_start" => ~On(Candidate(r))
  /\ pc[r] \in {"cand_wait", "cand_stop"} => On(Candidate(r))
  /\ pc[r] = "cand_delete" => Exists(Candidate(r)) /\ ~On(Candidate(r))
  /\ pc[r] \in Candidacy => loc[r].ready
  /\ pc[r] = "start_new" => Exists(New(r)) /\ ~On(New(r))
  /\ pc[r] \in {"wait_new", "public"} => On(New(r))

Fine(r) == pc[r] \in Course /\ NamesFree(r) /\ PortsFree(r) /\ DatabaseServes(r) /\ MadeAsPlanned(r)

Undisturbed(r) == pc[r] \in Active \ {"list"} /\ mishaps[r] = {} /\ ~loc[r].obstacle
Smooth == \A r \in Runs : Undisturbed(r) => Fine(r)

(* A step that goes well leads on, to the end, or away from a learner. *)
GoesWell(r) ==
  \/ Fine(r)'
  \/ pc'[r] = "done"
  \/ pc'[r] = "refused" /\ learning # "no"

(* A call that is possible, where nothing goes wrong. *)
LEMMA CallGoesOn ==
  ASSUME IInv, NEW r \in Runs, mishaps'[r] = {}, NEW possible, NEW after, NEW l, NEW place,
         Call(r, possible, after, l, place), possible
  PROVE  host' = after /\ loc'[r] = l /\ pc'[r] = place
<1>1. \A kind : ~Mishap(r, kind)
  BY DEF Mishap, IInv, TypeOK
<1> QED BY <1>1 DEF Call, Keep, Go, IInv, TypeOK

(* And a wait for what is ready. *)
LEMMA WaitGoesOn ==
  ASSUME IInv, NEW r \in Runs, mishaps'[r] = {}, NEW c, NEW l, NEW yes, NEW no,
         Wait(r, c, l, yes, no), Healthy(c)
  PROVE  host' = host /\ loc'[r] = l /\ pc'[r] = yes
<1>1. \A kind : ~Mishap(r, kind)
  BY DEF Mishap, IInv, TypeOK
<1> QED BY <1>1 DEF Wait, Keep, Go, IInv, TypeOK

(* A name that is not given stays free. *)
LEMMA FreeStays ==
  ASSUME NEW n, Free(n), NEW c, Concerns(c),
         host'.box[c] = None \/ host'.box[c].name # n \/ (Exists(c) /\ host'.box[c].name = host.box[c].name)
  PROVE  Free(n)'
BY DEF Free, Concerns, Exists

(* A name is free when none is called by it. *)
LEMMA FreeName ==
  ASSUME NEW n
  PROVE  Free(n) <=> Named(n) = {}
BY DEF Free, Named

(* A port stays with the one that publishes it. *)
LEMMA PortStays ==
  ASSUME NEW p, NEW d, ~OwnedByOthers(p, d), NEW c, Concerns(c),
         c = d \/ host'.box[c] = None \/ ~host'.box[c].on \/ host'.box[c].port # p
  PROVE  ~OwnedByOthers(p, d)'
BY DEF OwnedByOthers, Publishes, On, Exists, Concerns

(* The names of a run differ in pairs. *)
LEMMA TagsDiffer ==
  ASSUME NEW r \in Runs
  PROVE  /\ CandidateName(r) # RollbackName(r) /\ CandidateName(r) # BeforePortName(r)
         /\ RollbackName(r) # BeforePortName(r)
BY DEF CandidateName, RollbackName, BeforePortName

(* What the run knows is of the kind it should be. *)
LEMMA WhatRunKnows ==
  ASSUME IInv, NEW r \in Runs, pc[r] \in Active
  PROVE  /\ loc[r] \in Local /\ HostOK /\ Known(r)
         /\ loc[r].old # None => loc[r].old \in Ids /\ Exists(loc[r].old) /\ Role(loc[r].old) = "app" /\ loc[r].old[1] # r
         /\ loc[r].db # None => loc[r].db \in Ids /\ Role(loc[r].db) = "db"
BY Here DEF Known, AppsKnown, DbKnown, Local
-----------------------------------------------------------------------------
(* The steps of an undisturbed run, one by one *)

(* The first look finds no obstacle. *)
LEMMA ListGoesWell ==
  ASSUME IInv, NEW r \in Runs, List(r), mishaps'[r] = {}, ~loc'[r].obstacle
  PROVE  Fine(r)'
<1> DEFINE up == AppUp
           obstacle == Obstacle(r)
<1>1. PICK l : /\ l = [loc[r] EXCEPT !.old = Find(AppName), !.db = Find(DbName), !.up = up, !.obstacle = obstacle]
               /\ pc[r] = "list"
               /\ \/ /\ OwnedByOthers("app", l.old) \/ OwnedByOthers(PortOf[r], l.db)
                     /\ Go(r, "refused") /\ Keep(r, l) /\ UNCHANGED <<host, mishaps>>
                  \/ Ask(r, TRUE, l, "storage")
  BY DEF List, At
<1>2. loc[r] = Fresh /\ pc[r] \in Active
  BY <1>1 DEF IInv, NotYet, Active, Before
<1>3. l.old = Find(AppName) /\ l.db = Find(DbName) /\ l.obstacle = obstacle
  BY <1>1, <1>2 DEF Fresh
<1>4. loc'[r] = l
  <2>1. Ask(r, TRUE, l, "storage") => loc'[r] = l
    BY CallGoesOn DEF Ask
  <2>2. Keep(r, l) => loc'[r] = l
    BY DEF Keep, IInv, TypeOK
  <2> QED BY <1>1, <2>1, <2>2
<1>5. ~Obstacle(r)
  BY <1>3, <1>4
<1> HIDE DEF up, obstacle
<1>6. /\ ~OwnedByOthers("app", l.old) /\ ~OwnedByOthers(PortOf[r], l.db)
      /\ l.old # None => On(l.old)
      /\ Free(CandidateName(r)) /\ Free(RollbackName(r)) /\ Free(BeforePortName(r))
      /\ host.volume # None => l.db # None /\ host.box[l.db].key = host.volume
  BY <1>3, <1>5, FreeName DEF Obstacle
<1>7. l.db = None => Free(DbName)
  <2>1. Find(DbName) = None => Named(DbName) = {}
    BY NoneAssumption DEF Find, Named
  <2> QED BY <1>3, <2>1, FreeName
<1>8. host' = host /\ pc'[r] = "storage"
  <2>1. Ask(r, TRUE, l, "storage")
    BY <1>1, <1>6
  <2> QED BY <2>1, CallGoesOn DEF Ask
<1>9. /\ "storage" \in StillNamed /\ "storage" \in BeforeRename /\ "storage" \in StillUp /\ "storage" \in Course
      /\ "storage" \notin Rollout /\ "storage" \notin Serving \cup Candidacy
  BY DEF StillNamed, Before, BeforeRename, StillUp, Course, Rollout, Serving, Candidacy
<1>10. NamesFree(r)'
  BY <1>4, <1>6, <1>7, <1>8, <1>9 DEF NamesFree, Free, Exists
<1>11. PortsFree(r)'
  BY <1>4, <1>6, <1>8, <1>9 DEF PortsFree, OwnedByOthers, Publishes, On, Exists
<1>12. DatabaseServes(r)'
  BY <1>4, <1>6, <1>8, <1>9 DEF DatabaseServes
<1>13. MadeAsPlanned(r)'
  BY <1>8, <1>9 DEF MadeAsPlanned
<1> QED BY <1>8, <1>9, <1>10, <1>11, <1>12, <1>13 DEF Fine

(* Questions and waits before the switch. *)
LEMMA QuestionsGoWell ==
  ASSUME IInv, Tidy, NEW r \in Runs, Fine(r), mishaps'[r] = {},
         Storage(r) \/ DbWait(r) \/ Load(r) \/ CandidateWait(r)
  PROVE  Fine(r)'
<1>1. /\ pc[r] \in {"storage", "db_wait", "load", "cand_wait"}
      /\ pc[r] \in StillNamed /\ pc[r] \in BeforeRename /\ pc[r] \in StillUp /\ pc[r] \in Active
  BY DEF Storage, DbWait, Load, CandidateWait, At, StillNamed, BeforeRename, StillUp, Before, Active
<1>2. /\ loc[r] \in Local /\ HostOK /\ Known(r)
      /\ loc[r].db # None => loc[r].db \in Ids /\ Role(loc[r].db) = "db"
  BY <1>1, WhatRunKnows
<1>3. /\ "db_wait" \in Serving /\ "load" \in Serving /\ "cand_wait" \in Serving
  BY DEF Serving, BeforeRename, Before
<1>4. PICK l, place :
        /\ host' = host /\ loc'[r] = l /\ pc'[r] = place /\ l.old = loc[r].old /\ l.db = loc[r].db
        /\ \/ pc[r] = "storage" /\ place = "db_create" /\ loc[r].db = None
           \/ pc[r] = "storage" /\ place = "db_wait" /\ loc[r].db # None /\ On(loc[r].db)
           \/ pc[r] = "storage" /\ place = "db_start" /\ loc[r].db # None /\ ~On(loc[r].db)
           \/ pc[r] = "db_wait" /\ place = "load"
           \/ pc[r] = "load" /\ place = "cand_create"
           \/ pc[r] = "cand_wait" /\ place = "cand_stop" /\ l.ready
  <2>1. CASE Storage(r)
    <3>1. PICK l, place :
            /\ pc[r] = "storage" /\ Ask(r, TRUE, l, place)
            /\ loc[r].db = None => l = [loc[r] EXCEPT !.key = r] /\ place = "db_create"
            /\ loc[r].db # None => /\ l = [loc[r] EXCEPT !.key = host.box[loc[r].db].key]
                                   /\ place = IF On(loc[r].db) THEN "db_wait" ELSE "db_start"
      BY <2>1 DEF Storage, At
    <3>2. l.old = loc[r].old /\ l.db = loc[r].db
      BY <1>2, <3>1 DEF Local
    <3>3. host' = host /\ loc'[r] = l /\ pc'[r] = place
      BY <3>1, CallGoesOn DEF Ask
    <3>4. CASE loc[r].db = None
      BY <3>1, <3>2, <3>3, <3>4
    <3>5. CASE loc[r].db # None
      BY <3>1, <3>2, <3>3, <3>5
    <3> QED BY <3>4, <3>5
  <2>2. CASE DbWait(r)
    <3>1. pc[r] = "db_wait" /\ Wait(r, loc[r].db, loc[r], "load", "refused")
      BY <2>2 DEF DbWait, At
    <3>2. Healthy(loc[r].db)
      <4>1. HasDbName(loc[r].db) /\ On(loc[r].db)
        BY <1>3, <3>1 DEF Fine, DatabaseServes
      <4>2. loc[r].db # None
        BY <1>2, <3>1 DEF Known, DbKnown
      <4> QED BY <1>2, <4>1, <4>2 DEF Healthy
    <3> QED BY <3>1, <3>2, WaitGoesOn
  <2>3. CASE Load(r)
    BY <2>3, CallGoesOn DEF Load, At, Ask
  <2>4. CASE CandidateWait(r)
    <3>1. PICK l : /\ l = [loc[r] EXCEPT !.ready = TRUE] /\ pc[r] = "cand_wait"
                   /\ Wait(r, Candidate(r), l, "cand_stop", "cand_stop")
      BY <2>4 DEF CandidateWait, At
    <3>2. l.old = loc[r].old /\ l.db = loc[r].db /\ l.ready
      BY <1>2, <3>1 DEF Local
    <3>3. /\ HasDbName(loc[r].db) /\ On(loc[r].db) /\ host.box[loc[r].db].key = host.volume
          /\ On(Candidate(r))
      BY <1>3, <3>1 DEF Fine, DatabaseServes, MadeAsPlanned
    <3>4. loc[r].db \in Ids
      BY <1>2, <3>1 DEF Known, DbKnown
    <3>5. host.box[Candidate(r)].key = loc[r].key
      BY <1>2, <3>1 DEF Known, KeyKnown
    <3>6. host.box[loc[r].db].key = loc[r].key
      BY <1>1, <3>1 DEF Tidy, DatabaseKeyKnown, GoesBy
    <3>7. loc[r].db \in Named(DbName)
      BY <3>3, <3>4 DEF Named, HasDbName
    <3>8. Healthy(Candidate(r))
      BY <3>3, <3>5, <3>6, <3>7 DEF Healthy
    <3> QED BY <3>1, <3>2, <3>8, WaitGoesOn
  <2> QED BY <2>1, <2>2, <2>3, <2>4
<1>5. /\ place \in StillNamed /\ place \in BeforeRename /\ place \in StillUp /\ place \in Course
      /\ place \notin Rollout /\ place # "create_db" /\ place # "inspect_db" /\ place # "create_new"
      /\ place \in Serving => pc[r] \in Serving \/ place = "db_wait"
  BY <1>3, <1>4 DEF StillNamed, Before, BeforeRename, StillUp, Course, Rollout, Serving
<1>6. NamesFree(r)'
  BY <1>1, <1>4, <1>5 DEF Fine, NamesFree, Free, Exists
<1>7. PortsFree(r)'
  BY <1>1, <1>4, <1>5 DEF Fine, PortsFree, OwnedByOthers, Publishes, On, Exists
<1>8. DatabaseServes(r)'
  <2>1. CASE pc[r] = "storage"
    <3>1. loc[r].db # None => HasDbName(loc[r].db)
      BY <1>1, <1>2 DEF Known, DbKnown
    <3>2. loc[r].db # None /\ On(loc[r].db) => host.volume # None /\ host.box[loc[r].db].key = host.volume
      <4>1. loc[r].db # None /\ On(loc[r].db) => host.volume # None
        BY <1>2 DEF HostOK, VolumeMade
      <4> QED BY <2>1, <4>1 DEF Fine, DatabaseServes
    <3>3. "db_create" \notin Serving /\ "db_start" \notin Serving
      BY DEF Serving
    <3> QED BY <1>4, <2>1, <3>1, <3>2, <3>3 DEF Fine, DatabaseServes, HasDbName, On, Exists
  <2>2. CASE pc[r] # "storage"
    <3>1. /\ pc[r] \in Serving /\ place \in {"load", "cand_create", "cand_stop"}
      BY <1>1, <1>3, <1>4, <2>2
    <3> QED BY <1>4, <3>1 DEF Fine, DatabaseServes, HasDbName, On, Exists
  <2> QED BY <2>1, <2>2
<1>9. MadeAsPlanned(r)'
  BY <1>4 DEF Fine, MadeAsPlanned, On, Exists, Candidacy
<1> QED BY <1>4, <1>5, <1>6, <1>7, <1>8, <1>9 DEF Fine

(* The last look at the learners, and at the port of the database. *)
LEMMA LooksGoWell ==
  ASSUME IInv, AppNamed, NEW r \in Runs, Fine(r), mishaps'[r] = {}, Busy(r) \/ InspectDb(r)
  PROVE  GoesWell(r)
<1>1. /\ pc[r] \in {"busy", "inspect_db"} /\ pc[r] \in BeforeRename /\ pc[r] \in Active /\ pc[r] \in Course
  BY DEF Busy, InspectDb, At, BeforeRename, Before, Active, Switch, Course
<1>2. /\ loc[r] \in Local /\ HostOK /\ Known(r)
      /\ loc[r].db # None => loc[r].db \in Ids /\ Role(loc[r].db) = "db"
  BY <1>1, WhatRunKnows
<1>3. pc[r] \in Serving
  BY <1>1 DEF Serving
<1>4. HasDbName(loc[r].db)
  BY <1>3 DEF Fine, DatabaseServes
<1>5. CASE pc'[r] = "refused" /\ learning # "no"
  BY <1>5 DEF GoesWell
<1>6. ASSUME NEW place, host' = host, loc'[r] = loc[r], pc'[r] = place,
             \/ pc[r] = "busy" /\ place = "stop_old" /\ loc[r].old # None
             \/ pc[r] = "busy" /\ place = "inspect_db" /\ loc[r].old = None
             \/ pc[r] = "inspect_db" /\ place \in {"create_new", "stop_db"}
      PROVE  Fine(r)'
  <2>1. /\ place \in Course /\ place \in Serving /\ place \in BeforeRename \cup {"create_new"}
        /\ place \in StillUp => pc[r] \in StillUp
        /\ place \in StillNamed => pc[r] \in StillNamed
        /\ pc[r] \in StillUp <=> pc[r] = "busy"
        /\ pc[r] \in StillNamed <=> pc[r] = "busy"
        /\ place \in StillUp <=> place = "stop_old"
        /\ "create_new" \notin BeforeRename
    BY <1>6 DEF Course, Switch, Rollout, Serving, BeforeRename, Before, StillUp, StillNamed
  <2>2. place \in {"inspect_db", "create_new", "stop_db"} => Free(AppName)
    <3>1. CASE pc[r] = "inspect_db"
      BY <3>1 DEF Fine, NamesFree
    <3>2. CASE pc[r] = "busy" /\ loc[r].old = None
      BY <2>1, <3>2, NoneAssumption DEF AppNamed, Named, Free
    <3> QED BY <1>1, <1>6, <3>1, <3>2
  <2>3. NamesFree(r)'
    BY <1>1, <1>6, <2>1, <2>2 DEF Fine, NamesFree, Free, Exists, Rollout
  <2>4. PortsFree(r)'
    BY <1>1, <1>6, <2>1 DEF Fine, PortsFree, OwnedByOthers, Publishes, On, Exists
  <2>5. DatabaseServes(r)'
    BY <1>3, <1>6 DEF Fine, DatabaseServes, HasDbName, On, Exists
  <2>6. MadeAsPlanned(r)'
    BY <1>6 DEF MadeAsPlanned, Candidacy
  <2> QED BY <1>6, <2>1, <2>3, <2>4, <2>5, <2>6 DEF Fine
<1>7. CASE Busy(r)
  <2>1. \A kind : ~Mishap(r, kind)
    BY DEF Mishap, IInv, TypeOK
  <2>2. CASE learning # "no"
    BY <1>5, <1>7, <2>1, <2>2 DEF Busy, Go, IInv, TypeOK
  <2>3. CASE learning = "no"
    <3>1. /\ host' = host /\ loc' = loc /\ pc[r] = "busy"
          /\ pc'[r] = IF loc[r].old # None THEN "stop_old" ELSE "inspect_db"
      BY <1>7, <2>1, <2>3 DEF Busy, Go, IInv, TypeOK, At, SwitchFrom
    <3>2. Fine(r)'
      BY <1>6, <3>1
    <3> QED BY <3>2 DEF GoesWell
  <2> QED BY <2>2, <2>3
<1>8. CASE InspectDb(r)
  <2>1. /\ pc[r] = "inspect_db"
        /\ Ask(r, Exists(loc[r].db), loc[r],
               IF Exists(loc[r].db) /\ host.box[loc[r].db].port = PortOf[r] THEN "create_new" ELSE "stop_db")
    BY <1>8 DEF InspectDb, At
  <2>2. Exists(loc[r].db)
    BY <1>4 DEF HasDbName
  <2>3. /\ host' = host /\ loc'[r] = loc[r]
        /\ pc'[r] = IF Exists(loc[r].db) /\ host.box[loc[r].db].port = PortOf[r] THEN "create_new" ELSE "stop_db"
    BY <2>1, <2>2, CallGoesOn DEF Ask
  <2>4. Fine(r)'
    BY <1>6, <2>1, <2>3
  <2> QED BY <2>4 DEF GoesWell
<1> QED BY <1>7, <1>8

(* Calls about the candidate. *)
LEMMA CandidateGoesWell ==
  ASSUME IInv, Tidy, NEW r \in Runs, Fine(r), mishaps'[r] = {},
         CandidateCreate(r) \/ CandidateStart(r) \/ CandidateStop(r) \/ CandidateDelete(r)
  PROVE  Fine(r)'
<1> DEFINE c == Candidate(r)
<1>1. /\ pc[r] \in {"cand_create", "cand_start", "cand_stop", "cand_delete"}
      /\ pc[r] \in StillNamed /\ pc[r] \in BeforeRename /\ pc[r] \in StillUp /\ pc[r] \in Active
      /\ pc[r] \in Serving
  BY DEF CandidateCreate, CandidateStart, CandidateStop, CandidateDelete, At, StillNamed, BeforeRename, StillUp,
     Before, Active, Serving
<1>2. /\ loc[r] \in Local /\ HostOK /\ Known(r)
      /\ loc[r].old # None => loc[r].old \in Ids /\ Exists(loc[r].old) /\ Role(loc[r].old) = "app" /\ loc[r].old[1] # r
      /\ loc[r].db # None => loc[r].db \in Ids /\ Role(loc[r].db) = "db"
  BY <1>1, WhatRunKnows
<1>3. c \in Ids /\ Role(c) = "candidate"
  BY IdsOf
<1>4. loc[r].db # None
  BY <1>1, <1>2 DEF Known, DbKnown
<1>5. PICK place :
        /\ Concerns(c) /\ host'.volume = host.volume /\ loc'[r] = loc[r] /\ pc'[r] = place
        /\ \/ host'.box[c] = None
           \/ Exists(c) /\ host'.box[c].name = host.box[c].name /\ host'.box[c].port = None
           \/ host'.box[c].name = CandidateName(r) /\ host'.box[c].port = None
        /\ \/ place = "cand_start" /\ host'.box[c] # None /\ ~host'.box[c].on
           \/ place = "cand_wait" /\ host'.box[c] # None /\ host'.box[c].on
           \/ place = "cand_delete" /\ loc[r].ready /\ host'.box[c] # None /\ ~host'.box[c].on
           \/ place = "busy"
  <2>1. Exists(c) => host.box[c].port = None
    BY <1>3 DEF Tidy, PortsFit, PortFits
  <2>2. CASE CandidateCreate(r)
    <3>1. PICK box : /\ box = Image(r, CandidateName(r), None) /\ pc[r] = "cand_create"
                     /\ Call(r, CanCreate(CandidateName(r)), Create(c, box), loc[r], "cand_start")
      BY <2>2 DEF CandidateCreate, At
    <3>2. CanCreate(CandidateName(r))
      BY <3>1, FreeName DEF CanCreate, Fine, NamesFree
    <3>3. host' = Create(c, box) /\ loc'[r] = loc[r] /\ pc'[r] = "cand_start"
      BY <3>1, <3>2, CallGoesOn
    <3>4. box \in Containers /\ ~box.on /\ box.name = CandidateName(r) /\ box.port = None /\ box # None
      BY <1>2, <3>1, NamesDiffer, NoneAssumption DEF Image, Containers, Local
    <3>5. Concerns(c) /\ host'.box[c] = box /\ host'.volume = host.volume
      BY <1>2, <1>3, <3>3, <3>4, CreateEffect DEF HostOK
    <3> QED BY <3>3, <3>4, <3>5
  <2>3. CASE CandidateStart(r)
    <3>1. pc[r] = "cand_start" /\ Call(r, CanStart(c), Start(c), loc[r], "cand_wait")
      BY <2>3 DEF CandidateStart, At
    <3>2. Exists(c) /\ ~On(c)
      BY <1>2, <3>1 DEF Known, KeyKnown, Fine, MadeAsPlanned
    <3>3. CanStart(c)
      BY <2>1, <3>2 DEF CanStart
    <3>4. host' = Start(c) /\ loc'[r] = loc[r] /\ pc'[r] = "cand_wait"
      BY <3>1, <3>3, CallGoesOn
    <3> QED BY <1>2, <1>3, <2>1, <3>2, <3>3, <3>4, StartKeeps
  <2>4. CASE CandidateStop(r)
    <3>1. pc[r] = "cand_stop" /\ Call(r, CanStop(c), Stop(c), loc[r], "cand_delete")
      BY <2>4 DEF CandidateStop, At
    <3>2. On(c) /\ Exists(c) /\ loc[r].ready
      BY <3>1 DEF Fine, MadeAsPlanned, On, Candidacy
    <3>3. host' = Stop(c) /\ loc'[r] = loc[r] /\ pc'[r] = "cand_delete"
      BY <3>1, <3>2, CallGoesOn DEF CanStop
    <3> QED BY <1>2, <1>3, <2>1, <3>2, <3>3, StopKeeps
  <2>5. CASE CandidateDelete(r)
    <3>1. /\ pc[r] = "cand_delete"
          /\ Call(r, CanDelete(c), Delete(c), loc[r], IF loc[r].ready THEN "busy" ELSE "refused")
      BY <2>5 DEF CandidateDelete, At
    <3>2. ~On(c) /\ Exists(c) /\ loc[r].ready
      BY <3>1 DEF Fine, MadeAsPlanned, Candidacy
    <3>3. host' = Delete(c) /\ loc'[r] = loc[r] /\ pc'[r] = "busy"
      BY <3>1, <3>2, CallGoesOn DEF CanDelete
    <3> QED BY <1>2, <1>3, <3>2, <3>3, DeleteKeeps
  <2> QED BY <2>2, <2>3, <2>4, <2>5
<1> HIDE DEF c
<1>6. /\ place \in StillNamed /\ place \in BeforeRename /\ place \in StillUp /\ place \in Course /\ place \in Serving
      /\ place \notin {"storage", "db_create", "db_start", "db_wait", "load", "cand_create"}
      /\ place \notin Rollout /\ place # "create_db" /\ place # "inspect_db" /\ place # "create_new"
  BY <1>5 DEF StillNamed, Before, BeforeRename, StillUp, Course, Rollout, Serving
<1>7. /\ loc[r].old # None => host'.box[loc[r].old] = host.box[loc[r].old]
      /\ host'.box[loc[r].db] = host.box[loc[r].db]
  BY <1>2, <1>3, <1>4, <1>5 DEF Concerns
<1>8. NamesFree(r)'
  <2>1. Free(RollbackName(r))' /\ Free(BeforePortName(r))'
    BY <1>1, <1>5, FreeStays, TagsDiffer DEF Fine, NamesFree
  <2> QED BY <1>5, <1>6, <2>1 DEF NamesFree
<1>9. PortsFree(r)'
  <2>1. None # "app" /\ None # PortOf[r]
    BY PortsAssumption
  <2>2. ~OwnedByOthers("app", loc[r].old)' /\ ~OwnedByOthers(PortOf[r], loc[r].db)'
    <3>1. ~OwnedByOthers("app", loc[r].old) /\ ~OwnedByOthers(PortOf[r], loc[r].db)
      BY <1>1 DEF Fine, PortsFree
    <3>2. host'.box[c] = None \/ host'.box[c].port = None
      BY <1>5
    <3> QED BY <1>5, <2>1, <3>1, <3>2 DEF OwnedByOthers, Publishes, On, Exists, Concerns
  <2>3. loc[r].old # None => On(loc[r].old)'
    BY <1>1, <1>5, <1>7 DEF Fine, PortsFree, On, Exists
  <2> QED BY <1>5, <1>6, <2>2, <2>3 DEF PortsFree, OwnedByOthers
<1>10. DatabaseServes(r)'
  BY <1>1, <1>5, <1>6, <1>7 DEF Fine, DatabaseServes, HasDbName, On, Exists
<1>11. MadeAsPlanned(r)'
  BY <1>5 DEF c, MadeAsPlanned, On, Exists, Candidacy
<1> QED BY <1>5, <1>6, <1>8, <1>9, <1>10, <1>11 DEF Fine

(* A first database is made. *)
LEMMA DbCreateGoesWell ==
  ASSUME IInv, NEW r \in Runs, Fine(r), mishaps'[r] = {}, DbCreate(r)
  PROVE  Fine(r)'
<1> DEFINE c == Replacement(r)
<1>1. PICK l, box :
        /\ l = [loc[r] EXCEPT !.db = c] /\ pc[r] = "db_create"
        /\ box = [name |-> DbName, on |-> FALSE, key |-> loc[r].key, port |-> PortOf[r]]
        /\ Call(r, CanCreate(DbName), Create(c, box), l, "db_start")
  BY DEF DbCreate, At, Replacement
<1>2. /\ pc[r] \in Active /\ pc[r] \in StillNamed /\ pc[r] \in BeforeRename /\ pc[r] \in StillUp
  BY <1>1 DEF Active, StillNamed, BeforeRename, StillUp, Before
<1>3. /\ loc[r] \in Local /\ HostOK
      /\ loc[r].old # None => loc[r].old \in Ids /\ Exists(loc[r].old) /\ Role(loc[r].old) = "app" /\ loc[r].old[1] # r
  BY <1>2, WhatRunKnows
<1>4. c \in Ids /\ Role(c) = "db" /\ c # None
  BY IdsOf, NoneAssumption
<1>5. l.old = loc[r].old /\ l.db = c
  BY <1>1, <1>3, <1>4 DEF Local
<1>6. CanCreate(DbName)
  BY <1>1, FreeName DEF CanCreate, Fine, NamesFree
<1>7. host' = Create(c, box) /\ loc'[r] = l /\ pc'[r] = "db_start"
  BY <1>1, <1>6, CallGoesOn
<1>8. box \in Containers /\ ~box.on /\ box.name = DbName
  BY <1>1, <1>3, NamesDiffer DEF Containers, Local
<1>9. Concerns(c) /\ host'.box[c] = box /\ host'.volume = host.volume
  BY <1>3, <1>4, <1>7, <1>8, CreateEffect DEF HostOK
<1> HIDE DEF c
<1>10. host.volume = None
  BY <1>1 DEF Fine, DatabaseServes
<1>11. /\ "db_start" \in StillNamed /\ "db_start" \in BeforeRename /\ "db_start" \in StillUp /\ "db_start" \in Course
       /\ "db_start" \notin Rollout /\ "db_start" \notin Serving \cup Candidacy
  BY DEF StillNamed, Before, BeforeRename, StillUp, Course, Rollout, Serving, Candidacy
<1>12. loc[r].old # None => host'.box[loc[r].old] = host.box[loc[r].old]
  BY <1>3, <1>4, <1>9 DEF Concerns
<1>13. NamesFree(r)'
  <2>1. Free(CandidateName(r))' /\ Free(RollbackName(r))' /\ Free(BeforePortName(r))'
    BY <1>1, <1>2, <1>8, <1>9, FreeStays, NamesDiffer DEF Fine, NamesFree
  <2> QED BY <1>7, <1>11, <2>1 DEF NamesFree
<1>14. PortsFree(r)'
  <2>0. ~OwnedByOthers("app", l.old) /\ ~OwnedByOthers(PortOf[r], None)
    BY <1>1, <1>2, <1>5 DEF Fine, PortsFree, DatabaseServes
  <2>1. ~OwnedByOthers("app", l.old)'
    BY <1>7, <1>8, <1>9, <2>0 DEF OwnedByOthers, Publishes, On, Exists, Concerns
  <2>2. ~OwnedByOthers(PortOf[r], c)'
    BY <1>8, <1>9, <2>0, NoneAssumption DEF OwnedByOthers, Publishes, On, Exists, Concerns
  <2>3. l.old # None => On(l.old)'
    BY <1>2, <1>5, <1>12 DEF Fine, PortsFree, On, Exists
  <2> QED BY <1>5, <1>7, <1>11, <2>1, <2>2, <2>3 DEF PortsFree, OwnedByOthers
<1>15. DatabaseServes(r)'
  BY <1>5, <1>7, <1>8, <1>9, <1>10, <1>11 DEF DatabaseServes, On, Exists
<1>16. MadeAsPlanned(r)'
  BY <1>7, <1>11 DEF MadeAsPlanned
<1> QED BY <1>7, <1>11, <1>13, <1>14, <1>15, <1>16 DEF Fine

(* No other container publishes the port of a database that stands still   *)
(* and has the password of the volume.                                     *)
LEMMA PortIsFree ==
  ASSUME IInv, Tidy, NEW c \in Ids, HasDbName(c), Role(c) = "db",
         host.volume # None => host.box[c].key = host.volume
  PROVE  \A d \in Ids \ {c} : ~Publishes(d, host.box[c].port)
<1>1. ~Misled
  BY DEF Tidy, LostForGood
<1>2. SUFFICES ASSUME NEW d \in Ids \ {c}, Publishes(d, host.box[c].port) PROVE FALSE
  OBVIOUS
<1>3. host.box[c].port # "app" /\ host.box[c].port # None
  BY PortsAssumption DEF Tidy, PortsFit, PortFits, HasDbName
<1>4. Exists(d) /\ On(d) /\ Role(d) = "db"
  BY <1>2, <1>3 DEF Tidy, PortsFit, PortFits, Publishes, On, Ids, Roles, Role
<1>5. host.box[d].name = DbName
  BY <1>1, <1>4 DEF IInv, RunsUnderName
<1> QED BY <1>4, <1>5 DEF IInv, NamesApart, HasDbName

(* The database is started. *)
LEMMA DbStartGoesWell ==
  ASSUME IInv, Tidy, NEW r \in Runs, Fine(r), mishaps'[r] = {}, DbStart(r)
  PROVE  Fine(r)'
<1>1. PICK c : c = loc[r].db /\ pc[r] = "db_start" /\ Call(r, CanStart(c), Start(c), loc[r], "db_wait")
  BY DEF DbStart, At
<1>2. /\ pc[r] \in Active /\ pc[r] \in StillNamed /\ pc[r] \in BeforeRename /\ pc[r] \in StillUp
  BY <1>1 DEF Active, StillNamed, BeforeRename, StillUp, Before
<1>3. /\ loc[r] \in Local /\ HostOK /\ Known(r)
      /\ loc[r].old # None => loc[r].old \in Ids /\ Exists(loc[r].old) /\ Role(loc[r].old) = "app" /\ loc[r].old[1] # r
      /\ loc[r].db # None => loc[r].db \in Ids /\ Role(loc[r].db) = "db"
  BY <1>2, WhatRunKnows
<1>4. c \in Ids /\ Role(c) = "db" /\ HasDbName(c) /\ c # None
  BY <1>1, <1>2, <1>3 DEF Known, DbKnown
<1>5. ~On(c) /\ (host.volume # None => host.box[c].key = host.volume)
  BY <1>1 DEF Fine, DatabaseServes
<1>6. CanStart(c)
  BY <1>4, <1>5, PortIsFree DEF CanStart, HasDbName
<1>7. host' = Start(c) /\ loc'[r] = loc[r] /\ pc'[r] = "db_wait"
  BY <1>1, <1>6, CallGoesOn
<1>8. /\ Concerns(c) /\ host'.volume = IF host.volume = None THEN host.box[c].key ELSE host.volume
      /\ host'.box[c] # None /\ host'.box[c].on
      /\ host'.box[c].name = host.box[c].name /\ host'.box[c].key = host.box[c].key
      /\ host'.box[c].port = host.box[c].port
  BY <1>3, <1>4, <1>6, <1>7, StartKeeps
<1>9. /\ "db_wait" \in StillNamed /\ "db_wait" \in BeforeRename /\ "db_wait" \in StillUp /\ "db_wait" \in Course
      /\ "db_wait" \notin Rollout \cup Candidacy
  BY DEF StillNamed, Before, BeforeRename, StillUp, Course, Rollout, Candidacy
<1>10. loc[r].old # None => host'.box[loc[r].old] = host.box[loc[r].old]
  BY <1>3, <1>4, <1>8 DEF Concerns
<1>11. NamesFree(r)'
  <2>1. Free(CandidateName(r))' /\ Free(RollbackName(r))' /\ Free(BeforePortName(r))'
    BY <1>1, <1>2, <1>4, <1>8, FreeStays DEF Fine, NamesFree, HasDbName
  <2> QED BY <1>7, <1>9, <2>1 DEF NamesFree
<1>12. PortsFree(r)'
  <2>1. host.box[c].port # "app"
    BY <1>4, PortsAssumption DEF Tidy, PortsFit, PortFits, HasDbName
  <2>2. PICK old : old = loc[r].old
    OBVIOUS
  <2>3. ~OwnedByOthers("app", old) /\ ~OwnedByOthers(PortOf[r], c)
    BY <1>1, <1>2, <2>2 DEF Fine, PortsFree
  <2>4. ~OwnedByOthers("app", old)' /\ ~OwnedByOthers(PortOf[r], c)'
    BY <1>8, <2>1, <2>3 DEF OwnedByOthers, Publishes, On, Exists, Concerns
  <2>5. old # None => On(old)'
    BY <1>2, <1>10, <2>2 DEF Fine, PortsFree, On, Exists
  <2> QED BY <1>1, <1>7, <2>2, <1>9, <2>4, <2>5 DEF PortsFree, OwnedByOthers
<1>13. DatabaseServes(r)'
  <2>1. HasDbName(c)' /\ On(c)' /\ host'.box[c].key = host'.volume
    BY <1>4, <1>5, <1>8 DEF HasDbName, On, Exists
  <2> QED BY <1>1, <1>7, <2>1 DEF DatabaseServes, HasDbName, On, Exists
<1>14. MadeAsPlanned(r)'
  BY <1>7, <1>9 DEF MadeAsPlanned
<1> QED BY <1>7, <1>9, <1>11, <1>12, <1>13, <1>14 DEF Fine

(* The old app is stopped and gives its name away. *)
LEMMA OldGoesWell ==
  ASSUME IInv, Tidy, AppNamed, NEW r \in Runs, Fine(r), mishaps'[r] = {}, StopOld(r) \/ RenameOld(r)
  PROVE  Fine(r)'
<1>1. /\ pc[r] \in {"stop_old", "rename_old"} /\ pc[r] \in BeforeRename /\ pc[r] \in StillNamed /\ pc[r] \in Active
      /\ pc[r] \in Serving
  BY DEF StopOld, RenameOld, At, BeforeRename, StillNamed, Active, Switch, Serving
<1>2. /\ loc[r] \in Local /\ HostOK /\ Known(r)
      /\ loc[r].old # None => loc[r].old \in Ids /\ Exists(loc[r].old) /\ Role(loc[r].old) = "app" /\ loc[r].old[1] # r
      /\ loc[r].db # None => loc[r].db \in Ids /\ Role(loc[r].db) = "db"
  BY <1>1, WhatRunKnows
<1>3. PICK c : c = loc[r].old /\ c \in Ids /\ Exists(c) /\ Role(c) = "app" /\ c # None
  BY <1>1, <1>2 DEF Known, AppsKnown
<1>4. loc[r].db \in Ids /\ Role(loc[r].db) = "db"
  BY <1>1, <1>2 DEF Known, DbKnown
<1>5. host.box[c].port = "app"
  BY <1>3 DEF Tidy, PortsFit, PortFits
<1>6. PICK l, place :
        /\ Concerns(c) /\ host'.volume = host.volume /\ loc'[r] = l /\ pc'[r] = place
        /\ l.old = c /\ l.db = loc[r].db
        /\ host'.box[c] # None /\ ~host'.box[c].on
        /\ \/ pc[r] = "stop_old" /\ place = "rename_old" /\ host'.box[c].name = host.box[c].name
           \/ pc[r] = "rename_old" /\ place = "inspect_db" /\ host'.box[c].name = RollbackName(r)
  <2>1. CASE StopOld(r)
    <3>1. PICK l : /\ l = [loc[r] EXCEPT !.stopped = TRUE] /\ pc[r] = "stop_old"
                   /\ Call(r, CanStop(c), Stop(c), l, "rename_old")
      BY <1>3, <2>1 DEF StopOld, At
    <3>2. l.old = c /\ l.db = loc[r].db
      BY <1>2, <1>3, <3>1 DEF Local
    <3>3. On(c)
      BY <1>3, <3>1 DEF Fine, PortsFree, StillUp
    <3>4. host' = Stop(c) /\ loc'[r] = l /\ pc'[r] = "rename_old"
      BY <3>1, <3>3, CallGoesOn DEF CanStop
    <3> QED BY <1>2, <1>3, <3>1, <3>2, <3>4, StopKeeps
  <2>2. CASE RenameOld(r)
    <3>1. PICK l : /\ l = [loc[r] EXCEPT !.renamed = TRUE] /\ pc[r] = "rename_old"
                   /\ Call(r, CanRename(c, RollbackName(r)), Rename(c, RollbackName(r)), l, "inspect_db")
      BY <1>3, <2>2 DEF RenameOld, At
    <3>2. l.old = c /\ l.db = loc[r].db
      BY <1>2, <1>3, <3>1 DEF Local
    <3>3. CanRename(c, RollbackName(r))
      BY <1>1, <1>3, <3>1, FreeName DEF CanRename, Fine, NamesFree
    <3>4. host' = Rename(c, RollbackName(r)) /\ loc'[r] = l /\ pc'[r] = "inspect_db"
      BY <3>1, <3>3, CallGoesOn
    <3>5. ~host.box[c].on
      <4>1. ~OwnedByOthers("app", None)
        BY <3>1 DEF Fine, PortsFree, Course, Switch, StillUp, Before
      <4>2. ~Publishes(c, "app")
        BY <1>3, <4>1 DEF OwnedByOthers
      <4>3. ~On(c)
        BY <1>5, <4>2 DEF Publishes
      <4> QED BY <1>3, <4>3 DEF On
    <3>6. RollbackName(r) \in Names \ {AppName, DbName}
      BY NamesDiffer
    <3>7. /\ Concerns(c) /\ host'.volume = host.volume /\ host'.box[c] # None
          /\ host'.box[c].name = RollbackName(r) /\ host'.box[c].on = host.box[c].on
      BY <1>2, <1>3, <3>3, <3>4, <3>6, RenameKeeps
    <3> QED BY <3>1, <3>2, <3>4, <3>5, <3>7
  <2> QED BY <2>1, <2>2
<1>7. /\ place \in BeforeRename /\ place \in Serving /\ place \in Course \ StillUp
      /\ place \in StillNamed => place = "rename_old"
      /\ place \notin {"storage", "db_create", "db_start", "db_wait", "load", "cand_create"} \cup Rollout \cup Candidacy
      /\ place # "create_new" /\ place # "create_db"
  BY <1>6 DEF BeforeRename, Serving, Course, Switch, StillUp, StillNamed, Before, Rollout, Candidacy
<1>8. host'.box[loc[r].db] = host.box[loc[r].db]
  BY <1>3, <1>4, <1>6 DEF Concerns
<1>9. NamesFree(r)'
  <2>1. Free(BeforePortName(r))'
    BY <1>1, <1>3, <1>6, FreeStays, TagsDiffer DEF Fine, NamesFree
  <2>2. place = "rename_old" => Free(RollbackName(r))'
    BY <1>1, <1>3, <1>6, FreeStays DEF Fine, NamesFree
  <2>3. place = "inspect_db" => Free(AppName)'
    <3>1. \A d \in Named(AppName) : d = c
      BY <1>1, <1>3 DEF AppNamed
    <3> QED BY <1>6, <3>1, NamesDiffer DEF Free, Named, Concerns, Exists
  <2> QED BY <1>6, <1>7, <2>1, <2>2, <2>3 DEF NamesFree
<1>10. PortsFree(r)'
  <2>1. ~OwnedByOthers("app", None)'
    <3>1. \A d \in Ids : Publishes(d, "app") => d = c
      <4>1. pc[r] = "stop_old" => ~OwnedByOthers("app", c)
        BY <1>3 DEF Fine, PortsFree, StillUp
      <4>2. pc[r] = "rename_old" => ~OwnedByOthers("app", None)
        BY DEF Fine, PortsFree, Course, Switch, StillUp, Before
      <4> QED BY <1>1, <4>1, <4>2, NoneAssumption DEF OwnedByOthers
    <3> QED BY <1>6, <3>1 DEF OwnedByOthers, Publishes, On, Exists, Concerns
  <2>2. ~OwnedByOthers(PortOf[r], loc[r].db)'
    BY <1>1, <1>6, PortStays DEF Fine, PortsFree
  <2> QED BY <1>6, <1>7, <2>1, <2>2 DEF PortsFree, OwnedByOthers
<1>11. DatabaseServes(r)'
  BY <1>1, <1>6, <1>7, <1>8 DEF Fine, DatabaseServes, HasDbName, On, Exists
<1>12. MadeAsPlanned(r)'
  BY <1>6, <1>7 DEF MadeAsPlanned
<1> QED BY <1>6, <1>7, <1>9, <1>10, <1>11, <1>12 DEF Fine

(* The old database is stopped and gives its name away. *)
LEMMA OldDatabaseGoesWell ==
  ASSUME IInv, NEW r \in Runs, Fine(r), mishaps'[r] = {}, StopDb(r) \/ RenameDb(r)
  PROVE  Fine(r)'
<1>1. /\ pc[r] \in {"stop_db", "rename_db"} /\ pc[r] \in BeforeRename /\ pc[r] \in Rollout /\ pc[r] \in Active
      /\ pc[r] \in Course \ (StillUp \cup {"wait_new", "public", "record"})
  BY DEF StopDb, RenameDb, At, BeforeRename, Rollout, Active, Course, StillUp, Before
<1>2. /\ loc[r] \in Local /\ HostOK /\ Known(r)
      /\ loc[r].db # None => loc[r].db \in Ids /\ Role(loc[r].db) = "db"
  BY <1>1, WhatRunKnows
<1>3. PICK c : c = loc[r].db /\ c \in Ids /\ Role(c) = "db" /\ c # None /\ HasDbName(c)
  BY <1>1, <1>2 DEF Known, DbKnown
<1>4. host.box[c].key = host.volume
  BY <1>1, <1>3 DEF Fine, DatabaseServes, Serving, BeforeRename
<1>5. PICK l, place :
        /\ Concerns(c) /\ host'.volume = host.volume /\ loc'[r] = l /\ pc'[r] = place /\ l.db = c
        /\ host'.box[c] # None /\ ~host'.box[c].on /\ host'.box[c].key = host.box[c].key
        /\ \/ pc[r] = "stop_db" /\ place = "rename_db" /\ host'.box[c].name = DbName
           \/ pc[r] = "rename_db" /\ place = "create_db" /\ host'.box[c].name = BeforePortName(r)
  <2>1. CASE StopDb(r)
    <3>1. pc[r] = "stop_db" /\ Call(r, CanStop(c), Stop(c), loc[r], "rename_db")
      BY <1>3, <2>1 DEF StopDb, At
    <3>2. On(c) /\ Exists(c)
      BY <1>3, <3>1 DEF Fine, DatabaseServes, Serving, BeforeRename, HasDbName
    <3>3. host' = Stop(c) /\ loc'[r] = loc[r] /\ pc'[r] = "rename_db"
      BY <3>1, <3>2, CallGoesOn DEF CanStop
    <3> QED BY <1>2, <1>3, <3>1, <3>2, <3>3, StopKeeps DEF HasDbName
  <2>2. CASE RenameDb(r)
    <3>1. PICK l : /\ l = [loc[r] EXCEPT !.renamed_db = TRUE] /\ pc[r] = "rename_db"
                   /\ Call(r, CanRename(c, BeforePortName(r)), Rename(c, BeforePortName(r)), l, "create_db")
      BY <1>3, <2>2 DEF RenameDb, At
    <3>2. l.db = c
      BY <1>2, <1>3, <3>1 DEF Local
    <3>3. CanRename(c, BeforePortName(r)) /\ ~host.box[c].on
      BY <1>1, <1>3, <3>1, FreeName DEF CanRename, Fine, NamesFree, DatabaseServes, HasDbName, On
    <3>4. host' = Rename(c, BeforePortName(r)) /\ loc'[r] = l /\ pc'[r] = "create_db"
      BY <3>1, <3>3, CallGoesOn
    <3> QED BY <1>2, <1>3, <3>1, <3>2, <3>3, <3>4, RenameKeeps, NamesDiffer
  <2> QED BY <2>1, <2>2
<1>6. /\ place \in Rollout /\ place \in Course \ (StillUp \cup StillNamed \cup Serving \cup Candidacy)
      /\ place \in BeforeRename <=> place = "rename_db"
      /\ place \notin {"storage", "db_create", "db_start", "db_wait", "load", "cand_create"}
  BY <1>5 DEF Rollout, Course, StillUp, StillNamed, Serving, BeforeRename, Before, Candidacy
<1>7. NamesFree(r)'
  <2>1. Free(AppName)'
    BY <1>1, <1>5, FreeStays, NamesDiffer DEF Fine, NamesFree
  <2>2. place = "rename_db" => Free(BeforePortName(r))'
    BY <1>1, <1>5, FreeStays, NamesDiffer DEF Fine, NamesFree
  <2>3. place = "create_db" => Free(DbName)'
    <3>1. \A d \in Ids : Exists(d) /\ host.box[d].name = DbName => d = c
      BY <1>2, <1>3 DEF HostOK, NamesApart, HasDbName
    <3> QED BY <1>5, <3>1, NamesDiffer DEF Free, Concerns, Exists
  <2> QED BY <1>5, <1>6, <2>1, <2>2, <2>3 DEF NamesFree
<1>8. PortsFree(r)'
  <2>1. ~OwnedByOthers("app", None) /\ ~OwnedByOthers(PortOf[r], c)
    BY <1>1, <1>3 DEF Fine, PortsFree
  <2>2. ~OwnedByOthers("app", None)' /\ ~OwnedByOthers(PortOf[r], c)'
    BY <1>5, <2>1 DEF OwnedByOthers, Publishes, On, Exists, Concerns
  <2> QED BY <1>5, <1>6, <2>2 DEF PortsFree, OwnedByOthers
<1>9. DatabaseServes(r)'
  BY <1>4, <1>5, <1>6 DEF DatabaseServes, On, Exists
<1>10. MadeAsPlanned(r)'
  BY <1>5, <1>6 DEF MadeAsPlanned
<1> QED BY <1>5, <1>6, <1>7, <1>8, <1>9, <1>10 DEF Fine

(* The replacement is made, and started on the port that is free now. *)
LEMMA ReplacementGoesWell ==
  ASSUME IInv, NEW r \in Runs, Fine(r), mishaps'[r] = {}, CreateDb(r) \/ ReplaceDb(r)
  PROVE  Fine(r)'
<1> DEFINE c == Replacement(r)
<1>1. /\ pc[r] \in {"create_db", "replace_db"} /\ pc[r] \in Rollout /\ pc[r] \in Active
      /\ pc[r] \in Course \ (StillUp \cup {"wait_new", "public", "record"})
  BY DEF CreateDb, ReplaceDb, At, Rollout, Active, Course, StillUp, Before
<1>2. /\ loc[r] \in Local /\ HostOK /\ Known(r)
      /\ loc[r].db # None => loc[r].db \in Ids /\ Role(loc[r].db) = "db"
  BY <1>1, WhatRunKnows
<1>3. PICK db : db = loc[r].db /\ db \in Ids /\ Exists(db) /\ db # c
  BY <1>1, <1>2 DEF Known, DbKnown, Replaced
<1>4. c \in Ids /\ Role(c) = "db" /\ c # None
  BY IdsOf, NoneAssumption
<1>5. ~On(db) /\ host.box[db].key = host.volume
  BY <1>1, <1>3 DEF Fine, DatabaseServes
<1>6. host.volume # None
  BY <1>1, <1>2 DEF Known, KeyKnown, Early, Candidacy
<1>7. PICK l, place :
        /\ Concerns(c) /\ host'.volume = host.volume /\ loc'[r] = l /\ pc'[r] = place /\ l.db = db
        /\ host'.box[c] # None /\ host'.box[c].key = host.volume /\ host'.box[c].name = DbName
        /\ host'.box[c].port = PortOf[r]
        /\ \/ pc[r] = "create_db" /\ place = "replace_db" /\ ~host'.box[c].on
           \/ pc[r] = "replace_db" /\ place = "wait_db" /\ host'.box[c].on
  <2>1. CASE CreateDb(r)
    <3>1. PICK l, box :
            /\ l = [loc[r] EXCEPT !.replacement = c] /\ pc[r] = "create_db"
            /\ box = [host.box[db] EXCEPT !.name = DbName, !.on = FALSE, !.port = PortOf[r]]
            /\ Call(r, CanCreate(DbName), Create(c, box), l, "replace_db")
      BY <1>3, <2>1 DEF CreateDb, At
    <3>2. l.db = db
      BY <1>2, <1>3, <3>1 DEF Local
    <3>3. CanCreate(DbName)
      BY <3>1, FreeName DEF CanCreate, Fine, NamesFree
    <3>4. host' = Create(c, box) /\ loc'[r] = l /\ pc'[r] = "replace_db"
      BY <3>1, <3>3, CallGoesOn
    <3>5. host.box[db] \in Containers
      BY <1>2, <1>3 DEF HostOK, HostType, Exists
    <3>6. /\ box \in Containers /\ ~box.on /\ box.name = DbName /\ box.key = host.box[db].key
          /\ box.port = PortOf[r] /\ box # None
      <4>1. /\ box \in Containers /\ ~box.on /\ box.name = DbName /\ box.key = host.box[db].key
            /\ box.port = PortOf[r]
        BY <3>1, <3>5, NamesDiffer DEF Containers
      <4> QED BY <4>1, NoneAssumption
    <3>7. Concerns(c) /\ host'.box[c] = box /\ host'.volume = host.volume
      BY <1>2, <1>4, <3>4, <3>6, CreateEffect DEF HostOK
    <3> QED BY <1>5, <3>1, <3>2, <3>4, <3>6, <3>7
  <2>2. CASE ReplaceDb(r)
    <3>1. pc[r] = "replace_db" /\ Call(r, CanStart(c), Start(c), loc[r], "wait_db")
      BY <2>2 DEF ReplaceDb, At
    <3>2. HasDbName(c)
      BY <1>2, <3>1 DEF Known, DbKnown, Replaced
    <3>3. /\ ~On(c) /\ host.box[c].port = PortOf[r] /\ host.box[c].key = host.volume
          /\ ~OwnedByOthers(PortOf[r], db)
      BY <1>3, <3>1 DEF Fine, DatabaseServes, PortsFree
    <3>4. CanStart(c)
      BY <1>5, <3>2, <3>3 DEF CanStart, HasDbName, OwnedByOthers, Publishes
    <3>5. host' = Start(c) /\ loc'[r] = loc[r] /\ pc'[r] = "wait_db"
      BY <3>1, <3>4, CallGoesOn
    <3> QED BY <1>2, <1>3, <1>4, <1>6, <3>1, <3>2, <3>3, <3>4, <3>5, StartKeeps DEF HasDbName
  <2> QED BY <2>1, <2>2
<1> HIDE DEF c
<1>8. /\ place \in Rollout
      /\ place \in Course \ (StillUp \cup StillNamed \cup Serving \cup Candidacy \cup BeforeRename)
      /\ place \notin {"storage", "db_create", "db_start", "db_wait", "load", "cand_create"}
  BY <1>7 DEF Rollout, Course, StillUp, StillNamed, Serving, BeforeRename, Before, Candidacy
<1>9. NamesFree(r)'
  <2>1. Free(AppName)'
    BY <1>1, <1>7, FreeStays, NamesDiffer DEF Fine, NamesFree
  <2> QED BY <1>7, <1>8, <2>1 DEF NamesFree
<1>10. PortsFree(r)'
  <2>1. ~OwnedByOthers("app", None)'
    <3>1. ~OwnedByOthers("app", None) /\ PortOf[r] # "app"
      BY <1>1, PortsAssumption DEF Fine, PortsFree
    <3> QED BY <1>7, <3>1 DEF OwnedByOthers, Publishes, On, Exists, Concerns
  <2>2. place = "replace_db" => ~OwnedByOthers(PortOf[r], db)'
    BY <1>1, <1>3, <1>7, PortStays DEF Fine, PortsFree
  <2> QED BY <1>7, <1>8, <2>1, <2>2 DEF PortsFree, OwnedByOthers
<1>11. DatabaseServes(r)'
  <2>1. host'.box[db] = host.box[db]
    BY <1>3, <1>7 DEF Concerns
  <2>2. ~On(db)' /\ host'.box[db].key = host'.volume
    BY <1>5, <1>7, <2>1 DEF On, Exists
  <2> QED BY <1>7, <1>8, <2>2 DEF c, DatabaseServes, On, Exists
<1>12. MadeAsPlanned(r)'
  BY <1>7, <1>8 DEF MadeAsPlanned
<1> QED BY <1>7, <1>8, <1>9, <1>10, <1>11, <1>12 DEF Fine

(* The replacement is ready, and is the database from here on. *)
LEMMA WaitDbGoesWell ==
  ASSUME IInv, NEW r \in Runs, Fine(r), mishaps'[r] = {}, WaitDb(r)
  PROVE  Fine(r)'
<1> DEFINE c == Replacement(r)
<1>1. PICK l : /\ l = [loc[r] EXCEPT !.db = c] /\ pc[r] = "wait_db"
               /\ Wait(r, c, l, "create_new", "raise")
  BY DEF WaitDb, At
<1>2. /\ pc[r] \in Rollout /\ pc[r] \in Active
      /\ pc[r] \in Course \ (StillUp \cup {"wait_new", "public", "record"})
  BY <1>1 DEF Rollout, Active, Course, StillUp, Before
<1>3. loc[r] \in Local /\ Known(r)
  BY <1>2, WhatRunKnows
<1>4. c \in Ids /\ Role(c) = "db"
  BY IdsOf
<1>5. l.db = c
  BY <1>1, <1>3, <1>4 DEF Local
<1>6. HasDbName(c) /\ On(c) /\ host.box[c].key = host.volume
  BY <1>1, <1>3 DEF Known, DbKnown, Replaced, Fine, DatabaseServes
<1>7. host' = host /\ loc'[r] = l /\ pc'[r] = "create_new"
  BY <1>1, <1>4, <1>6, WaitGoesOn DEF Healthy
<1> HIDE DEF c
<1>8. /\ "create_new" \in Course \ (StillUp \cup StillNamed \cup Candidacy \cup BeforeRename \cup Rollout)
      /\ "create_new" \in Serving
  BY DEF Course, Switch, StillUp, StillNamed, Candidacy, BeforeRename, Before, Rollout, Serving
<1>9. NamesFree(r)'
  BY <1>2, <1>7, <1>8 DEF Fine, NamesFree, Free, Exists
<1>10. PortsFree(r)'
  BY <1>2, <1>7, <1>8 DEF Fine, PortsFree, OwnedByOthers, Publishes, On, Exists
<1>11. DatabaseServes(r)'
  BY <1>5, <1>6, <1>7 DEF DatabaseServes, HasDbName, On, Exists
<1>12. MadeAsPlanned(r)'
  BY <1>7, <1>8 DEF MadeAsPlanned
<1> QED BY <1>7, <1>8, <1>9, <1>10, <1>11, <1>12 DEF Fine

(* The new app is made under the name, and started. *)
LEMMA NewGoesWell ==
  ASSUME IInv, Tidy, NEW r \in Runs, Fine(r), mishaps'[r] = {}, CreateNew(r) \/ StartNew(r)
  PROVE  Fine(r)'
<1> DEFINE c == New(r)
<1>1. /\ pc[r] \in {"create_new", "start_new"} /\ pc[r] \in Active /\ pc[r] \in Serving
      /\ pc[r] \in Course \ (StillUp \cup {"wait_new", "public", "record"})
  BY DEF CreateNew, StartNew, At, Active, Switch, Serving, Course, StillUp, Before
<1>2. /\ loc[r] \in Local /\ HostOK /\ Known(r)
      /\ loc[r].db # None => loc[r].db \in Ids /\ Role(loc[r].db) = "db"
  BY <1>1, WhatRunKnows
<1>3. PICK db : db = loc[r].db /\ db \in Ids /\ Role(db) = "db"
  BY <1>1, <1>2 DEF Known, DbKnown
<1>4. c \in Ids /\ Role(c) = "app" /\ c # None
  BY IdsOf, NoneAssumption
<1>5. ~OwnedByOthers("app", None)
  BY <1>1 DEF Fine, PortsFree
<1>6. PICK l, place :
        /\ Concerns(c) /\ host'.volume = host.volume /\ loc'[r] = l /\ pc'[r] = place /\ l.db = db
        /\ host'.box[c] # None
        /\ \/ pc[r] = "create_new" /\ place = "start_new" /\ ~host'.box[c].on
           \/ pc[r] = "start_new" /\ place = "wait_new" /\ host'.box[c].on
  <2>1. CASE CreateNew(r)
    <3>1. PICK l, box :
            /\ l = [loc[r] EXCEPT !.new = c] /\ pc[r] = "create_new" /\ box = Image(r, AppName, "app")
            /\ Call(r, CanCreate(AppName), Create(c, box), l, "start_new")
      BY <2>1 DEF CreateNew, At
    <3>2. l.db = db
      BY <1>2, <1>3, <3>1 DEF Local
    <3>3. CanCreate(AppName)
      BY <3>1, FreeName DEF CanCreate, Fine, NamesFree
    <3>4. host' = Create(c, box) /\ loc'[r] = l /\ pc'[r] = "start_new"
      BY <3>1, <3>3, CallGoesOn
    <3>5. box \in Containers /\ ~box.on /\ box # None
      <4>1. box \in Containers /\ ~box.on
        BY <1>2, <3>1, NamesDiffer DEF Image, Containers, Local
      <4> QED BY <4>1, NoneAssumption
    <3>6. Concerns(c) /\ host'.box[c] = box /\ host'.volume = host.volume
      BY <1>2, <1>4, <3>4, <3>5, CreateEffect DEF HostOK
    <3> QED BY <3>1, <3>2, <3>4, <3>5, <3>6
  <2>2. CASE StartNew(r)
    <3>1. pc[r] = "start_new" /\ Call(r, CanStart(c), Start(c), loc[r], "wait_new")
      BY <2>2 DEF StartNew, At
    <3>2. Exists(c) /\ ~On(c)
      BY <3>1 DEF Fine, MadeAsPlanned
    <3>3. host.box[c].port = "app"
      BY <1>4, <3>2 DEF Tidy, PortsFit, PortFits
    <3>4. CanStart(c)
      <4>1. \A d \in Ids : ~Publishes(d, "app")
        BY <1>5, NoneAssumption DEF OwnedByOthers
      <4> QED BY <3>2, <3>3, <4>1 DEF CanStart
    <3>5. host' = Start(c) /\ loc'[r] = loc[r] /\ pc'[r] = "wait_new"
      BY <3>1, <3>4, CallGoesOn
    <3> QED BY <1>2, <1>3, <1>4, <3>1, <3>4, <3>5, StartKeeps
  <2> QED BY <2>1, <2>2
<1> HIDE DEF c
<1>7. /\ place \in Course \ (StillUp \cup StillNamed \cup Candidacy \cup BeforeRename \cup Rollout)
      /\ place \in Serving
  BY <1>6 DEF Course, Switch, StillUp, StillNamed, Candidacy, BeforeRename, Before, Rollout, Serving
<1>8. NamesFree(r)'
  BY <1>6, <1>7 DEF NamesFree, BeforeRename, Before
<1>9. PortsFree(r)'
  <2>1. place = "start_new" => ~OwnedByOthers("app", None)'
    BY <1>5, <1>6 DEF OwnedByOthers, Publishes, On, Exists, Concerns
  <2> QED BY <1>6, <1>7, <2>1 DEF PortsFree, OwnedByOthers
<1>10. DatabaseServes(r)'
  <2>1. host'.box[db] = host.box[db]
    BY <1>3, <1>4, <1>6 DEF Concerns
  <2> QED BY <1>1, <1>3, <1>6, <1>7, <2>1 DEF Fine, DatabaseServes, HasDbName, On, Exists
<1>11. MadeAsPlanned(r)'
  BY <1>6, <1>7 DEF c, MadeAsPlanned, On, Exists
<1> QED BY <1>6, <1>7, <1>8, <1>9, <1>10, <1>11 DEF Fine

(* The new app is ready, at home and in public, and the run is recorded. *)
LEMMA EndGoesWell ==
  ASSUME IInv, NEW r \in Runs, Fine(r), mishaps'[r] = {}, WaitNew(r) \/ Public(r) \/ Record(r)
  PROVE  GoesWell(r)
<1>1. CASE Record(r)
  BY <1>1 DEF Record, Go, GoesWell, IInv, TypeOK
<1>2. CASE WaitNew(r) \/ Public(r)
  <2>1. PICK place :
          /\ Wait(r, New(r), loc[r], place, "raise")
          /\ \/ pc[r] = "wait_new" /\ place = "public"
             \/ pc[r] = "public" /\ place = "record"
    BY <1>2 DEF WaitNew, Public, At
  <2>2. pc[r] \in Active /\ pc[r] \in Serving
    BY <2>1 DEF Active, Switch, Serving
  <2>3. /\ HostOK /\ Known(r)
        /\ loc[r].db # None => loc[r].db \in Ids /\ Role(loc[r].db) = "db"
    BY <2>2, WhatRunKnows
  <2>4. loc[r].db \in Ids
    BY <2>1, <2>3 DEF Known, DbKnown
  <2>5. HasDbName(loc[r].db) /\ On(loc[r].db) /\ On(New(r))
    BY <2>1, <2>2 DEF Fine, DatabaseServes, MadeAsPlanned
  <2>6. host.box[New(r)].key = host.volume
    BY <2>3, <2>5, IdsOf DEF HostOK, AppsFit, On
  <2>7. loc[r].db \in Named(DbName)
    BY <2>4, <2>5 DEF Named, HasDbName
  <2>8. Healthy(New(r))
    BY <2>5, <2>6, <2>7 DEF Healthy
  <2>9. host' = host /\ loc'[r] = loc[r] /\ pc'[r] = place
    BY <2>1, <2>8, WaitGoesOn
  <2>10. /\ place \in Course \ (StillUp \cup StillNamed \cup Candidacy \cup BeforeRename \cup Rollout)
    BY <2>1 DEF Course, Switch, StillUp, StillNamed, Candidacy, BeforeRename, Before, Rollout
  <2>11. NamesFree(r)'
    BY <2>1, <2>9, <2>10 DEF NamesFree, BeforeRename, Before
  <2>12. PortsFree(r)'
    BY <2>1, <2>9, <2>10 DEF PortsFree
  <2>13. DatabaseServes(r)'
    <3>1. place = "record" => place \notin Serving
      BY DEF Serving, BeforeRename, Before
    <3> QED BY <2>1, <2>2, <2>9, <3>1 DEF Fine, DatabaseServes, HasDbName, On, Exists
  <2>14. MadeAsPlanned(r)'
    BY <2>1, <2>5, <2>9 DEF MadeAsPlanned, On, Exists, Candidacy
  <2> QED BY <2>9, <2>10, <2>11, <2>12, <2>13, <2>14 DEF Fine, GoesWell
<1> QED BY <1>1, <1>2
-----------------------------------------------------------------------------
(* A step forgets neither a mishap nor what the first look at the host showed. *)
SameLook(m, l) == m.obstacle = l.obstacle /\ m.up = l.up
Remembers(r) == mishaps[r] \subseteq mishaps'[r] /\ SameLook(loc'[r], loc[r])

LEMMA CallRemembers ==
  ASSUME IInv, NEW r \in Runs, NEW possible, NEW after, NEW l, NEW place,
         Call(r, possible, after, l, place) \/ Ask(r, possible, l, place), SameLook(l, loc[r])
  PROVE  Remembers(r)
<1>1. mishaps[r] \subseteq mishaps'[r]
  BY DEF Call, Ask, Mishap, IInv, TypeOK
<1>2. loc'[r] \in {l, loc[r]}
  BY DEF Call, Ask, Keep, Raise, IInv, TypeOK
<1> QED BY <1>1, <1>2 DEF Remembers, SameLook

LEMMA WaitRemembers ==
  ASSUME IInv, NEW r \in Runs, NEW c, NEW l, NEW yes, NEW no, Wait(r, c, l, yes, no),
         SameLook(l, loc[r])
  PROVE  Remembers(r)
<1>1. mishaps[r] \subseteq mishaps'[r]
  BY DEF Wait, Mishap, IInv, TypeOK
<1>2. loc'[r] \in {l, loc[r]}
  BY DEF Wait, NotReady, Keep, Raise, IInv, TypeOK
<1> QED BY <1>1, <1>2 DEF Remembers, SameLook

(* Only the first look at the host sets that. *)
LEMMA StepRemembers ==
  ASSUME IInv, NEW r \in Runs, Step(r), ~List(r)
  PROVE  Remembers(r)
<1>0. SameLook(loc[r], loc[r])
  BY DEF SameLook
<1>1. loc[r] \in Local
  BY DEF IInv, TypeOK
<1>2. \A v : /\ SameLook([loc[r] EXCEPT !.key = v], loc[r])
             /\ SameLook([loc[r] EXCEPT !.db = v], loc[r])
             /\ SameLook([loc[r] EXCEPT !.new = v], loc[r])
             /\ SameLook([loc[r] EXCEPT !.replacement = v], loc[r])
             /\ SameLook([loc[r] EXCEPT !.ready = v], loc[r])
             /\ SameLook([loc[r] EXCEPT !.stopped = v], loc[r])
             /\ SameLook([loc[r] EXCEPT !.renamed = v], loc[r])
             /\ SameLook([loc[r] EXCEPT !.renamed_db = v], loc[r])
  BY <1>1 DEF Local, SameLook
<1>3. CASE Storage(r) \/ DbCreate(r) \/ StopOld(r) \/ RenameOld(r) \/ RenameDb(r) \/ CreateDb(r) \/ CreateNew(r)
  BY <1>0, <1>2, <1>3, CallRemembers DEF Storage, DbCreate, StopOld, RenameOld, RenameDb, CreateDb, CreateNew
<1>4. CASE \/ DbStart(r) \/ Load(r) \/ CandidateCreate(r) \/ CandidateStart(r) \/ CandidateStop(r)
           \/ CandidateDelete(r) \/ InspectDb(r) \/ StopDb(r) \/ ReplaceDb(r) \/ StartNew(r)
  BY <1>0, <1>4, CallRemembers DEF DbStart, Load, CandidateCreate, CandidateStart, CandidateStop, CandidateDelete,
     InspectDb, StopDb, ReplaceDb, StartNew
<1>5. CASE \/ LookDb(r) \/ HaltDb(r) \/ DeleteDb(r) \/ RenameDbBack(r) \/ RestartDb(r)
           \/ HaltNew(r) \/ DeleteNew(r) \/ RenameBack(r) \/ RestartOld(r)
  BY <1>0, <1>5, CallRemembers DEF LookDb, HaltDb, DeleteDb, RenameDbBack, RestartDb, HaltNew, DeleteNew, RenameBack,
     RestartOld
<1>6. CASE DbWait(r) \/ CandidateWait(r) \/ WaitDb(r) \/ RewaitDb(r) \/ WaitNew(r) \/ Public(r)
  BY <1>0, <1>2, <1>6, WaitRemembers DEF DbWait, CandidateWait, WaitDb, RewaitDb, WaitNew, Public
<1>7. CASE Busy(r)
  <2>1. UNCHANGED mishaps \/ Mishap(r, "error")
    BY <1>7 DEF Busy
  <2>2. loc' = loc
    BY <1>7 DEF Busy, Raise
  <2> QED BY <2>1, <2>2 DEF Remembers, SameLook, Mishap, IInv, TypeOK
<1>8. CASE Record(r)
  BY <1>8 DEF Record, Remembers, SameLook
<1> QED BY <1>3, <1>4, <1>5, <1>6, <1>7, <1>8 DEF Step, Prepare, EnsureDatabasePort, SwitchApp, UndoSteps

(* No handler is entered by a run that is on its course. *)
LEMMA NoHandlerOnCourse ==
  ASSUME NEW r \in Runs, pc[r] \in Course
  PROVE  ~UndoSteps(r) /\ ~(\/ LookDb(r) \/ HaltDb(r) \/ DeleteDb(r) \/ RenameDbBack(r) \/ RestartDb(r)
                            \/ RewaitDb(r))
BY DEF UndoSteps, HaltNew, DeleteNew, RenameBack, RestartOld, LookDb, HaltDb, DeleteDb, RenameDbBack, RestartDb,
   RewaitDb, At, Course, Before, Switch, Rollout

(* A step of an undisturbed run goes well. *)
LEMMA StepGoesWell ==
  ASSUME IInv, Tidy, AppNamed, Smooth, NEW r \in Runs, Step(r), mishaps'[r] = {}, ~loc'[r].obstacle
  PROVE  GoesWell(r)
<1>1. CASE List(r)
  BY <1>1, ListGoesWell DEF GoesWell
<1>2. CASE ~List(r)
  <2>1. mishaps[r] = {} /\ ~loc[r].obstacle
    BY <1>2, StepRemembers DEF Remembers, SameLook
  <2>2. pc[r] \in Active
    BY StepIsActive
  <2>3. pc[r] # "list"
    BY <1>2 DEF Step, Prepare, EnsureDatabasePort, SwitchApp, UndoSteps, At, List, Storage, DbCreate, DbStart, DbWait,
       Load, CandidateCreate, CandidateStart, CandidateWait, CandidateStop, CandidateDelete, Busy, InspectDb, StopDb,
       RenameDb, CreateDb, ReplaceDb, WaitDb, LookDb, HaltDb, DeleteDb, RenameDbBack, RestartDb, RewaitDb, StopOld,
       RenameOld, CreateNew, StartNew, WaitNew, Public, Record, HaltNew, DeleteNew, RenameBack, RestartOld
  <2>4. Fine(r)
    BY <2>1, <2>2, <2>3 DEF Smooth, Undisturbed
  <2>5. pc[r] \in Course
    BY <2>4 DEF Fine
  <2>6. CASE Prepare(r)
    BY <1>2, <2>4, <2>6, QuestionsGoWell, DbCreateGoesWell, DbStartGoesWell, CandidateGoesWell, LooksGoWell
       DEF Prepare, GoesWell
  <2>7. CASE EnsureDatabasePort(r)
    BY <2>4, <2>5, <2>7, NoHandlerOnCourse, LooksGoWell, OldDatabaseGoesWell, ReplacementGoesWell, WaitDbGoesWell
       DEF EnsureDatabasePort, GoesWell
  <2>8. CASE SwitchApp(r)
    BY <2>4, <2>8, OldGoesWell, NewGoesWell, EndGoesWell DEF SwitchApp, GoesWell
  <2> QED BY <2>5, <2>6, <2>7, <2>8, NoHandlerOnCourse DEF Step
<1> QED BY <1>1, <1>2

(* What was fine stays so where only learners or other runs move. *)
LEMMA FineStays ==
  ASSUME NEW r \in Runs, Fine(r), host' = host, loc' = loc, pc'[r] = pc[r]
  PROVE  Fine(r)'
<1>1. NamesFree(r)' /\ PortsFree(r)'
  BY DEF Fine, NamesFree, PortsFree, Free, OwnedByOthers, Publishes, On, Exists
<1>2. DatabaseServes(r)' /\ MadeAsPlanned(r)'
  BY DEF Fine, DatabaseServes, MadeAsPlanned, HasDbName, On, Exists
<1> QED BY <1>1, <1>2 DEF Fine

(* What holds on the way is kept, and a run that ends otherwise than well  *)
(* was disturbed.                                                          *)
LEMMA SmoothKeeps ==
  ASSUME IInv, IInv', Tidy, WaitInv, Smooth, [Next]_vars
  PROVE  /\ Smooth'
         /\ \A r \in Runs :
              pc[r] \in Active /\ pc'[r] \in {"failed", "refused"} /\ mishaps'[r] = {}
                => loc'[r].obstacle \/ learning # "no"
<1>0. Active \cap (Ended \cup {"none"}) = {} /\ Course \subseteq Active
  BY DEF Active, Before, Switch, Rollout, UndoRollout, Undo, Ended, Course
<1>1. CASE \E r \in Runs : Step(r)
  <2>1. PICK r \in Runs : Step(r)
    BY <1>1
  <2>2. pc[r] \in Active /\ \A q \in Runs \ {r} : pc'[q] = pc[q] /\ pc[q] \notin Active
    BY <2>1, StepIsActive, StepIsConsiderate DEF Considerate, IInv, OneAtATime
  <2>3. mishaps'[r] = {} /\ ~loc'[r].obstacle => GoesWell(r)
    BY <2>1, StepGoesWell DEF WaitInv
  <2>4. Smooth'
    <3>1. ASSUME NEW q \in Runs, Undisturbed(q)' PROVE Fine(q)'
      <4>1. q = r
        BY <2>2, <3>1 DEF Undisturbed
      <4>2. pc'[r] \in Active
        BY <3>1, <4>1 DEF Undisturbed
      <4>3. mishaps'[r] = {} /\ ~loc'[r].obstacle
        BY <3>1, <4>1 DEF Undisturbed
      <4>4. pc'[r] # "done" /\ pc'[r] # "refused"
        BY <1>0, <4>2 DEF Ended
      <4> QED BY <2>3, <4>1, <4>3, <4>4 DEF GoesWell
    <3> QED BY <3>1 DEF Smooth
  <2>5. ASSUME NEW q \in Runs, pc[q] \in Active, pc'[q] \in {"failed", "refused"}, mishaps'[q] = {}
        PROVE  loc'[q].obstacle \/ learning # "no"
    <3>1. q = r
      BY <2>2, <2>5
    <3>2. ~Fine(q)'
      BY <1>0, <2>5 DEF Fine, Ended
    <3> QED BY <2>3, <2>5, <3>1, <3>2 DEF GoesWell
  <2> QED BY <2>4, <2>5
<1>2. CASE \E r \in Runs : Begin(r) \/ Killed(r)
  <2>1. PICK r \in Runs, place \in {"list", "killed"} :
          /\ host' = host /\ loc' = loc /\ Go(r, place)
          /\ mishaps' = mishaps \/ (place = "killed" /\ Mishap(r, "kill"))
    BY <1>2 DEF Begin, Killed
  <2>2. pc'[r] = place /\ \A q \in Runs \ {r} : pc'[q] = pc[q] /\ mishaps'[q] = mishaps[q]
    BY <2>1 DEF Go, Mishap, IInv, TypeOK
  <2>3. \A q \in Runs : pc'[q] \in Active \ {"list"} => pc'[q] = pc[q] /\ mishaps'[q] = mishaps[q]
    BY <1>0, <2>1, <2>2 DEF Ended
  <2>4. ASSUME NEW q \in Runs, Undisturbed(q)' PROVE Fine(q)'
    <3>1. pc'[q] = pc[q] /\ mishaps'[q] = mishaps[q]
      BY <2>3, <2>4 DEF Undisturbed
    <3>2. Fine(q)
      BY <2>1, <2>4, <3>1 DEF Undisturbed, Smooth
    <3> QED BY <2>1, <3>1, <3>2, FineStays
  <2>5. \A q \in Runs : pc[q] \in Active => pc'[q] \notin {"failed", "refused"}
    BY <1>0, <2>1, <2>2 DEF Ended
  <2> QED BY <2>4, <2>5 DEF Smooth
<1>3. CASE LearnerStarts \/ LearnerEnds \/ UNCHANGED vars
  <2>1. host' = host /\ pc' = pc /\ loc' = loc /\ mishaps' = mishaps
    BY <1>3 DEF LearnerStarts, LearnerEnds, vars
  <2>2. ASSUME NEW q \in Runs, Undisturbed(q)' PROVE Fine(q)'
    <3>1. Fine(q)
      BY <2>1, <2>2 DEF Undisturbed, Smooth
    <3> QED BY <2>1, <3>1, FineStays
  <2>3. \A q \in Runs : pc[q] \in Active => pc'[q] \notin {"failed", "refused"}
    BY <1>0, <2>1 DEF Ended
  <2> QED BY <2>2, <2>3 DEF Smooth
<1>4. CASE RollBackByHand
  BY <1>4 DEF RollBackByHand, Idle, Smooth, Undisturbed
<1> QED BY <1>1, <1>2, <1>3, <1>4 DEF Next

(* A run in which nothing goes wrong ends well, unless it found an         *)
(* obstacle or a learner at work, whatever befell the runs before it.      *)
THEOREM Succeeds == Spec => UndisturbedRunSucceeds
<1>1. Init => Smooth
  <2> SUFFICES ASSUME Init PROVE Smooth
    OBVIOUS
  <2>1. "none" \notin Active
    BY DEF Active, Before, Switch, Rollout, UndoRollout, Undo
  <2> QED BY <2>1 DEF Init, Smooth, Undisturbed
<1>2. IInv /\ IInv' /\ Tidy /\ WaitInv /\ Smooth /\ [Next]_vars =>
        /\ Smooth'
        /\ [\A r \in Runs :
              pc[r] \in Active /\ pc'[r] \in {"failed", "refused"} /\ mishaps'[r] = {}
                => loc'[r].obstacle \/ learning # "no"]_vars
  BY SmoothKeeps
<1> QED BY <1>1, <1>2, Invariant, Ordered, AppsAreNamed, PTL DEF Spec, UndisturbedRunSucceeds
-----------------------------------------------------------------------------
(* Docker publishes a port once, whoever starts and stops the containers.  *)

PortsAlone ==
  \A c, d \in Ids : On(c) /\ On(d) /\ host.box[c].port # None /\ host.box[c].port = host.box[d].port => c = d

(* The state file names an app as the one to stop.                         *)
FileNamesApp == file # None => Role(file.container) = "app"

(* All that a step can do in Docker. *)
Acts(c) ==
  \/ host' = host
  \/ CanStart(c) /\ host' = Start(c)
  \/ CanStop(c) /\ host' = Stop(c)
  \/ CanDelete(c) /\ host' = Delete(c)
  \/ \E n \in Names : CanRename(c, n) /\ host' = Rename(c, n)
  \/ \E box \in Containers : ~box.on /\ host' = Create(c, box)

LEMMA CallActs ==
  ASSUME NEW r \in Runs, NEW possible, NEW after, NEW l, NEW place,
         Call(r, possible, after, l, place) \/ Ask(r, possible, l, place),
         NEW c \in Ids, possible /\ host' = after => Acts(c)
  PROVE  Acts(c)
BY DEF Call, Ask, Acts

LEMMA StepActs ==
  ASSUME IInv, NEW r \in Runs, Step(r)
  PROVE  \E c \in Ids : Acts(c)
<1>1. /\ loc[r] \in Local /\ HostOK /\ Known(r) /\ pc[r] \in Active
      /\ loc[r].old # None => loc[r].old \in Ids
      /\ loc[r].db # None => loc[r].db \in Ids
  BY StepIsActive, WhatRunKnows
<1>2. Candidate(r) \in Ids /\ New(r) \in Ids /\ Replacement(r) \in Ids
  BY IdsOf
<1>3. CASE \/ List(r) \/ Storage(r) \/ DbWait(r) \/ Load(r) \/ CandidateWait(r) \/ Busy(r) \/ InspectDb(r) \/ WaitDb(r)
           \/ LookDb(r) \/ RewaitDb(r) \/ WaitNew(r) \/ Public(r) \/ Record(r)
  <2>1. host' = host
    BY <1>3 DEF List, Storage, DbWait, Load, CandidateWait, Busy, InspectDb, WaitDb, LookDb, RewaitDb, WaitNew, Public,
       Record, Ask, Call, Wait
  <2> QED BY <1>2, <2>1 DEF Acts
<1>4. CASE CandidateCreate(r) \/ CreateNew(r) \/ DbCreate(r)
  <2>1. /\ Image(r, CandidateName(r), None) \in Containers /\ ~Image(r, CandidateName(r), None).on
        /\ Image(r, AppName, "app") \in Containers /\ ~Image(r, AppName, "app").on
        /\ [name |-> DbName, on |-> FALSE, key |-> loc[r].key, port |-> PortOf[r]] \in Containers
    BY <1>1, NamesDiffer DEF Image, Containers, Local
  <2> DEFINE box == [name |-> DbName, on |-> FALSE, key |-> loc[r].key, port |-> PortOf[r]]
  <2>2. box \in Containers /\ ~box.on
    BY <2>1
  <2>3. CASE CandidateCreate(r) \/ CreateNew(r)
    BY <1>2, <2>1, <2>3, CallActs DEF CandidateCreate, CreateNew, Acts
  <2>4. CASE DbCreate(r)
    <3>1. Call(r, CanCreate(DbName), Create(Replacement(r), box), [loc[r] EXCEPT !.db = Replacement(r)], "db_start")
      BY <2>4 DEF DbCreate, Replacement
    <3> HIDE DEF box
    <3> QED BY <1>2, <2>2, <3>1, CallActs DEF Acts
  <2> QED BY <1>4, <2>3, <2>4
<1>5. CASE CandidateStart(r) \/ CandidateStop(r) \/ CandidateDelete(r) \/ ReplaceDb(r) \/ StartNew(r)
  BY <1>2, <1>5, CallActs DEF CandidateStart, CandidateStop, CandidateDelete, ReplaceDb, StartNew, Acts
<1>6. CASE StopOld(r) \/ RenameOld(r) \/ RenameBack(r) \/ RestartOld(r)
  <2>1. loc[r].old \in Ids
    BY <1>1, <1>6 DEF StopOld, RenameOld, RenameBack, RestartOld, At, Known, AppsKnown
  <2> QED BY <1>6, <2>1, NamesDiffer, CallActs DEF StopOld, RenameOld, RenameBack, RestartOld, Acts
<1>7. CASE DbStart(r) \/ StopDb(r) \/ RenameDb(r) \/ RenameDbBack(r) \/ RestartDb(r)
  <2>1. loc[r].db \in Ids
    BY <1>1, <1>7 DEF DbStart, StopDb, RenameDb, RenameDbBack, RestartDb, At, Known, DbKnown
  <2> QED BY <1>7, <2>1, NamesDiffer, CallActs DEF DbStart, StopDb, RenameDb, RenameDbBack, RestartDb, Acts
<1>8. CASE HaltDb(r) \/ DeleteDb(r)
  <2>1. loc[r].replacement = Replacement(r)
    BY <1>1, <1>8 DEF HaltDb, DeleteDb, At, Known, DbKnown, Replaced
  <2> QED BY <1>2, <1>8, <2>1, CallActs DEF HaltDb, DeleteDb, Acts
<1>9. CASE HaltNew(r) \/ DeleteNew(r)
  <2>1. loc[r].new = New(r)
    BY <1>1, <1>9 DEF HaltNew, DeleteNew, At, Known, AppsKnown
  <2> QED BY <1>2, <1>9, <2>1, CallActs DEF HaltNew, DeleteNew, Acts
<1>10. CASE CreateDb(r)
  <2>1. PICK box, l : /\ box = [host.box[loc[r].db] EXCEPT !.name = DbName, !.on = FALSE, !.port = PortOf[r]]
                      /\ Call(r, CanCreate(DbName), Create(Replacement(r), box), l, "replace_db")
    BY <1>10 DEF CreateDb
  <2>2. host.box[loc[r].db] \in Containers
    BY <1>1, <1>10 DEF CreateDb, At, Known, DbKnown, HostOK, HostType, Exists
  <2>3. box \in Containers /\ ~box.on
    BY <2>1, <2>2, NamesDiffer DEF Containers
  <2> QED BY <1>2, <2>1, <2>3, CallActs DEF Acts
<1> QED BY <1>3, <1>4, <1>5, <1>6, <1>7, <1>8, <1>9, <1>10 DEF Step, Prepare, EnsureDatabasePort, SwitchApp, UndoSteps

(* What runs after a step ran before, or is started where its port is free. *)
LEMMA ActsKeepPorts ==
  ASSUME IInv, PortsAlone, NEW c \in Ids, Acts(c)
  PROVE  PortsAlone'
<1>0. HostOK
  BY DEF IInv, HostOK, TypeOK, HostType
<1>1. Concerns(c)
  BY CallConcerns DEF Acts
<1>2. CASE CanStart(c) /\ host' = Start(c)
  <2>1. host'.box[c].port = host.box[c].port /\ host'.box[c] # None
    BY <1>0, <1>2, StartKeeps
  <2>2. \A d \in Ids \ {c} : host.box[c].port # None => ~(On(d)' /\ host'.box[d].port = host.box[c].port)
    BY <1>1, <1>2 DEF CanStart, Publishes, On, Exists, Concerns
  <2>3. \A d \in Ids \ {c} : (On(d)' <=> On(d)) /\ host'.box[d].port = host.box[d].port
    BY <1>1 DEF On, Exists, Concerns
  <2> QED BY <2>1, <2>2, <2>3 DEF PortsAlone
<1>3. CASE ~(CanStart(c) /\ host' = Start(c))
  <2>1. On(c)' => On(c) /\ host'.box[c].port = host.box[c].port
    <3>1. CASE host' = host
      BY <3>1 DEF On, Exists
    <3>2. CASE CanStop(c) /\ host' = Stop(c)
      BY <1>0, <3>2, StopKeeps DEF CanStop, On, Exists
    <3>3. CASE CanDelete(c) /\ host' = Delete(c)
      BY <1>0, <3>3, DeleteKeeps DEF On, Exists
    <3>4. ASSUME NEW n \in Names, CanRename(c, n), host' = Rename(c, n)
          PROVE  On(c)' => On(c) /\ host'.box[c].port = host.box[c].port
      <4>1. Exists(c) /\ host.box[c] \in Containers /\ host'.box[c] = [host.box[c] EXCEPT !.name = n]
        BY <1>0, <3>4, RenameEffect DEF CanRename, HostOK, HostType, Exists
      <4>2. host'.box[c].on = host.box[c].on /\ host'.box[c].port = host.box[c].port
        BY <4>1 DEF Containers
      <4> QED BY <4>1, <4>2 DEF On
    <3>5. ASSUME NEW box \in Containers, ~box.on, host' = Create(c, box)
          PROVE  ~On(c)'
      BY <1>0, <3>5, CreateEffect DEF HostOK, On, Exists
    <3> QED BY <1>3, <3>1, <3>2, <3>3, <3>4, <3>5 DEF Acts
  <2>2. \A d \in Ids : On(d)' => On(d) /\ host'.box[d].port = host.box[d].port
    BY <1>1, <2>1 DEF On, Exists, Concerns
  <2> QED BY <2>2 DEF PortsAlone
<1> QED BY <1>2, <1>3

(* The rollback by hand starts an app where another was stopped. *)
LEMMA RollBackKeepsPorts ==
  ASSUME IInv, Tidy, PortsAlone, FileNamesApp, RollBackByHand
  PROVE  PortsAlone'
<1>1. PICK a, b :
        /\ a \in Ids /\ b \in Ids /\ On(a) /\ Exists(a) /\ Exists(b) /\ ~On(b) /\ Role(a) = "app" /\ Role(b) = "app"
        /\ host' = [host EXCEPT !.box[a].on = FALSE, !.box[b].on = TRUE]
  <2>1. /\ file # None /\ file.previous # None /\ CanStop(file.container) /\ ~On(file.previous)
        /\ host' = [host EXCEPT !.box[file.container].on = FALSE, !.box[file.previous].on = TRUE]
    BY DEF RollBackByHand
  <2>2. file.container \in Ids /\ file.previous \in Ids
    BY <2>1 DEF IInv, TypeOK
  <2>3. Exists(file.previous) /\ Role(file.previous) = "app" /\ Role(file.container) = "app"
    BY <2>1 DEF IInv, FileKept, FileNamesApp
  <2> QED BY <2>1, <2>2, <2>3 DEF CanStop, On
<1>2. host \in HostType /\ host.box[a] \in Containers /\ host.box[b] \in Containers /\ a # b
  BY <1>1 DEF IInv, TypeOK, HostType, Exists
<1>3. /\ host'.box[a] = [host.box[a] EXCEPT !.on = FALSE] /\ host'.box[b] = [host.box[b] EXCEPT !.on = TRUE]
      /\ \A d \in Ids \ {a, b} : host'.box[d] = host.box[d]
  BY <1>1, <1>2 DEF HostType
<1>4. ~host'.box[a].on /\ host'.box[b].port = host.box[b].port
  BY <1>2, <1>3 DEF Containers
<1>5. host.box[a].port = "app" /\ host.box[b].port = "app" /\ "app" # None
  BY <1>1, PortsAssumption DEF Tidy, PortsFit, PortFits
<1>6. \A d \in Ids : On(d)' => d # a /\ (d # b => On(d) /\ host'.box[d].port = host.box[d].port)
  BY <1>3, <1>4 DEF On, Exists
<1>7. \A d \in Ids \ {a} : On(d) => host.box[d].port # "app"
  BY <1>1, <1>5 DEF PortsAlone
<1>8. \A d \in Ids \ {b} : On(d)' => On(d) /\ d # a /\ host'.box[d].port = host.box[d].port /\ host'.box[d].port # "app"
  BY <1>6, <1>7
<1> QED BY <1>4, <1>5, <1>8 DEF PortsAlone

LEMMA PortsKeep ==
  ASSUME IInv, Tidy, PortsAlone, FileNamesApp, [Next]_vars
  PROVE  PortsAlone' /\ FileNamesApp'
<1>1. CASE \E r \in Runs : Step(r)
  <2>1. PICK r \in Runs : Step(r)
    BY <1>1
  <2>2. file' = file \/ file' = [container |-> New(r), previous |-> loc[r].old]
    BY <2>1 DEF Step, Prepare, EnsureDatabasePort, SwitchApp, UndoSteps, At, List, Storage, DbCreate, DbStart, DbWait,
       Load, CandidateCreate, CandidateStart, CandidateWait, CandidateStop, CandidateDelete, Busy, InspectDb, StopDb,
       RenameDb, CreateDb, ReplaceDb, WaitDb, LookDb, HaltDb, DeleteDb, RenameDbBack, RestartDb, RewaitDb, StopOld,
       RenameOld, CreateNew, StartNew, WaitNew, Public, Record, HaltNew, DeleteNew, RenameBack, RestartOld
  <2>3. FileNamesApp'
    BY <2>2, IdsOf DEF FileNamesApp
  <2> QED BY <2>1, <2>3, StepActs, ActsKeepPorts
<1>2. CASE RollBackByHand
  BY <1>2, RollBackKeepsPorts DEF RollBackByHand, FileNamesApp
<1>3. CASE (\E r \in Runs : Begin(r) \/ Killed(r)) \/ LearnerStarts \/ LearnerEnds \/ UNCHANGED vars
  <2>1. host' = host /\ file' = file
    BY <1>3 DEF Begin, At, Killed, LearnerStarts, LearnerEnds, vars
  <2> QED BY <2>1 DEF PortsAlone, FileNamesApp, On, Exists
<1> QED BY <1>1, <1>2, <1>3 DEF Next

LEMMA PortsAtStart ==
  ASSUME Init
  PROVE  PortsAlone /\ FileNamesApp
<1>1. FileNamesApp
  BY DEF Init, FileNamesApp
<1>2. CASE host = Bare
  <2>1. \A c \in Ids : ~Exists(c)
    BY <1>2 DEF Bare, Exists
  <2> QED BY <1>1, <2>1 DEF PortsAlone, On
<1>3. CASE host = Installed
  <2>1. /\ host.box[<<0, "app">>].port = "app" /\ host.box[<<0, "db">>].port = FirstPort
        /\ \A c \in Ids : On(c) => c \in {<<0, "app">>, <<0, "db">>}
    BY <1>3, InstalledFits DEF On, Exists
  <2>2. "app" # FirstPort
    BY PortsAssumption
  <2> QED BY <1>1, <2>1, <2>2 DEF PortsAlone
<1> QED BY <1>1, <1>2, <1>3 DEF Init

LEMMA Published == Spec => [](PortsAlone /\ FileNamesApp)
BY Invariant, Ordered, PortsAtStart, PortsKeep, PTL DEF Spec
-----------------------------------------------------------------------------
(* A run that found the app up and meets with one mishap at most: what     *)
(* holds where it is lets its handlers bring the old app back.             *)

Between == {"inspect_db", "create_new"} \cup Rollout \cup UndoRollout
WithNew == {"wait_new", "public", "record", "halt_new"}
Aside == {"create_db", "rename_db_back"} \cup Replaced

(* At place p, with variables l: the app is up, or down and can come back. *)
AppSide(r, l, p) ==
  /\ l.old \in Ids /\ Role(l.old) = "app" /\ Exists(l.old)
  /\ p \in StillUp => On(l.old) /\ ~OwnedByOthers("app", l.old) /\ ~l.stopped
  /\ p \notin StillUp => l.stopped
  /\ p \in StillUp \cup {"rename_old", "restart_old"} => host.box[l.old].name = AppName
  /\ p \in StillUp \cup {"rename_old"} => ~l.renamed
  /\ p \in Between \cup WithNew \cup {"start_new", "delete_new"} => l.renamed
  /\ p \in Between \cup {"rename_back"} => Free(AppName)
  /\ p \in StillUp \cup Between \cup {"rename_old"} => l.new = None
  /\ p \in WithNew \cup {"start_new", "delete_new"} =>
       l.new = New(r) /\ Exists(New(r)) /\ host.box[New(r)].name = AppName
  /\ p \in WithNew => On(New(r)) /\ ~OwnedByOthers("app", New(r))
  /\ p \notin StillUp \cup WithNew => ~OwnedByOthers("app", None)

(* And so is its database.                                                 *)
DbSide(r, l, p) ==
  /\ l.db \in Ids /\ Role(l.db) = "db" /\ Exists(l.db)
  /\ p \notin Aside => host.box[l.db].name = DbName
  /\ p \notin Aside \cup {"rename_db", "restart_db"} => On(l.db)
  /\ p \in {"rename_db", "restart_db"} => ~OwnedByOthers(host.box[l.db].port, l.db)
  /\ p \in Aside => ~On(l.db) /\ ~OwnedByOthers(host.box[l.db].port, Replacement(r))
  /\ p \in {"create_db", "rename_db_back", "replace_db", "delete_db"} =>
       ~OwnedByOthers(host.box[l.db].port, None)
  /\ p \in {"create_db", "rename_db_back"} => Free(DbName)
  /\ p \in BeforeRename \cup {"create_db", "replace_db"} => ~OwnedByOthers(PortOf[r], l.db)
  /\ p \in {"wait_db", "halt_db"} => On(Replacement(r))
  /\ p \in {"replace_db", "delete_db"} => ~On(Replacement(r))
  /\ p = "replace_db" => host.box[Replacement(r)].port = PortOf[r]

(* Some places only a mishap leads to.                                     *)
Handled == {"look_db", "halt_db", "delete_db", "rename_db_back", "halt_new", "delete_new"}
Erred(r) == \E m \in mishaps[r] : m[1] \in Switch \cup Rollout

Recoverable(r) ==
  AppSide(r, loc[r], pc[r]) /\ DbSide(r, loc[r], pc[r]) /\ (pc[r] \in Handled => Erred(r))

(* At most one mishap, and none that Restores excuses.                     *)
Excusable(r) == (\A m, n \in mishaps[r] : m = n) /\ mishaps[r] \cap Unrecovered = {}
Lasting == \A r \in Runs : pc[r] \in Active \ {"list"} /\ loc[r].up /\ Excusable(r) => Recoverable(r)

InOrder == IInv /\ Tidy /\ PortsAlone

(* What a step has to do for it, and for the property. *)
Recovers(r) ==
  /\ pc'[r] \in Active => Recoverable(r)'
  /\ pc'[r] \in Ended => AppUp'

(* A container that is not an app leaves the app's side alone. *)
LEMMA AppFrame ==
  ASSUME InOrder', NEW r \in Runs, NEW l, NEW p, NEW c \in Ids, Concerns(c), Role(c) # "app", AppSide(r, l, p)
  PROVE  AppSide(r, l, p)'
<1>1. Free(AppName) => Free(AppName)'
  BY FreeStays DEF InOrder, IInv, NamesFit, Exists
<1>2. \A d : ~OwnedByOthers("app", d) => ~OwnedByOthers("app", d)'
  <2>1. host'.box[c] = None \/ host'.box[c].port # "app"
    BY PortsAssumption DEF InOrder, Tidy, PortsFit, PortFits, Exists, Ids, Roles, Role
  <2> QED BY <2>1, PortStays
<1>3. \A d \in Ids : Role(d) = "app" => host'.box[d] = host.box[d]
  BY DEF Concerns
<1>4. New(r) \in Ids /\ Role(New(r)) = "app" /\ l.old \in Ids /\ Role(l.old) = "app"
  BY IdsOf DEF AppSide
<1>5. host'.box[l.old] = host.box[l.old] /\ host'.box[New(r)] = host.box[New(r)]
  BY <1>3, <1>4
<1> QED BY <1>1, <1>2, <1>5 DEF AppSide, On, Exists

(* And one that is not a database the database's. *)
LEMMA DbFrame ==
  ASSUME InOrder, InOrder', NEW r \in Runs, NEW l, NEW p, NEW c \in Ids, Concerns(c), Role(c) # "db", DbSide(r, l, p)
  PROVE  DbSide(r, l, p)'
<1>1. Free(DbName) => Free(DbName)'
  BY FreeStays DEF InOrder, IInv, NamesFit, Exists
<1>2. \A d, q : q \in {FirstPort} \cup {PortOf[n] : n \in Runs} /\ ~OwnedByOthers(q, d) => ~OwnedByOthers(q, d)'
  <2>1. host'.box[c] = None \/ host'.box[c].port \in {None, "app"}
    BY DEF InOrder, Tidy, PortsFit, PortFits, Exists, Ids, Roles, Role
  <2> QED BY <2>1, PortStays, PortsAssumption
<1>3. \A d \in Ids : Role(d) = "db" => host'.box[d] = host.box[d]
  BY DEF Concerns
<1>4. Replacement(r) \in Ids /\ Role(Replacement(r)) = "db" /\ l.db \in Ids /\ Role(l.db) = "db"
  BY IdsOf DEF DbSide
<1>5. host'.box[l.db] = host.box[l.db] /\ host'.box[Replacement(r)] = host.box[Replacement(r)]
  BY <1>3, <1>4
<1>6. host.box[l.db].port \in {FirstPort} \cup {PortOf[n] : n \in Runs}
  BY DEF DbSide, InOrder, Tidy, PortsFit, PortFits
<1>7. PortOf[r] \in {FirstPort} \cup {PortOf[n] : n \in Runs}
  OBVIOUS
<1> QED BY <1>1, <1>2, <1>5, <1>6, <1>7 DEF DbSide, On, Exists

(* Nothing in Docker is changed. *)
LEMMA BothStay ==
  ASSUME InOrder, InOrder', NEW r \in Runs, NEW l, NEW p, AppSide(r, l, p), DbSide(r, l, p), host' = host
  PROVE  AppSide(r, l, p)' /\ DbSide(r, l, p)'
<1>1. Concerns(Candidate(r)) /\ Candidate(r) \in Ids /\ Role(Candidate(r)) = "candidate"
  BY IdsOf DEF Concerns
<1> QED BY <1>1, AppFrame, DbFrame

(* An app under its name that runs is up when its database is. *)
LEMMA UpWithDb ==
  ASSUME InOrder', NEW c \in Ids, On(c)', host'.box[c].name = AppName,
         NEW d \in Ids, On(d)', host'.box[d].name = DbName
  PROVE  AppUp'
<1>1. Exists(c)' /\ Exists(d)'
  BY DEF On
<1>2. Role(c) = "app" /\ host'.box[c].key = host'.volume
  BY <1>1 DEF InOrder, IInv, NamesFit, AppsFit
<1> QED BY <1>1, <1>2 DEF AppUp, Healthy, Named

(* Where a run arrives. *)
LEMMA Arrives ==
  ASSUME NEW r \in Runs, NEW l, NEW p, loc'[r] = l, pc'[r] = p, AppSide(r, l, p)', DbSide(r, l, p)', p \in Active,
         p \in Handled => Erred(r)'
  PROVE  Recovers(r)
BY DEF Recovers, Recoverable, Active, Ended, Before, Switch, Rollout, UndoRollout, Undo
(* How a call ends in a run with at most one mishap: as it should, refused, *)
(* or with that mishap.                                                    *)
Done(r, l, place) == loc'[r] = l /\ pc'[r] = place
Fails(r) == loc'[r] = loc[r] /\ pc'[r] = Handler(r)
Mishappens(r, kind) ==
  /\ <<pc[r], kind>> \notin Unrecovered
  /\ pc[r] \in Switch \cup Rollout => Erred(r)'
  /\ Erred(r) => pc[r] \in Switch \cup Rollout

LEMMA MishapTells ==
  ASSUME IInv, NEW r \in Runs, NEW kind, Excusable(r)', Mishap(r, kind)
  PROVE  Mishappens(r, kind)
<1>1. mishaps'[r] = mishaps[r] \cup {<<pc[r], kind>>}
  BY DEF Mishap, IInv, TypeOK
<1>2. <<pc[r], kind>> \notin Unrecovered
  BY <1>1 DEF Excusable
<1>3. pc[r] \in Switch \cup Rollout => Erred(r)'
  <2>1. <<pc[r], kind>> \in mishaps'[r] /\ <<pc[r], kind>>[1] = pc[r]
    BY <1>1
  <2> QED BY <2>1 DEF Erred
<1>4. ASSUME Erred(r) PROVE pc[r] \in Switch \cup Rollout
  <2>1. PICK m \in mishaps[r] : m[1] \in Switch \cup Rollout
    BY <1>4 DEF Erred
  <2>2. m = <<pc[r], kind>>
    BY <1>1, <2>1 DEF Excusable
  <2> QED BY <2>1, <2>2
<1> QED BY <1>2, <1>3, <1>4 DEF Mishappens

LEMMA CallEnds ==
  ASSUME IInv, NEW r \in Runs, Excusable(r)', NEW possible, NEW after, NEW l, NEW place,
         Call(r, possible, after, l, place)
  PROVE  \/ possible /\ host' = after /\ Done(r, l, place)
         \/ ~possible /\ host' = host /\ Fails(r)
         \/ Mishappens(r, "error") /\ host' = host /\ Fails(r)
         \/ Mishappens(r, "lost") /\ possible /\ host' = after /\ Fails(r)
<1>1. Raise(r) => Fails(r)
  BY DEF Raise, Go, Fails, IInv, TypeOK
<1>2. Keep(r, l) /\ Go(r, place) => Done(r, l, place)
  BY DEF Keep, Go, Done, IInv, TypeOK
<1> QED BY <1>1, <1>2, MishapTells DEF Call

(* And a wait that raises where it was in vain.                            *)
LEMMA WaitEnds ==
  ASSUME IInv, NEW r \in Runs, Excusable(r)', NEW c, NEW l, NEW yes, Wait(r, c, l, yes, "raise"), Healthy(c)
  PROVE  /\ host' = host
         /\ \/ Done(r, l, yes)
            \/ Fails(r) /\ \E kind : Mishappens(r, kind)
<1>1. Raise(r) => Fails(r)
  BY DEF Raise, Go, Fails, IInv, TypeOK
<1>2. Keep(r, l) /\ Go(r, yes) => Done(r, l, yes)
  BY DEF Keep, Go, Done, IInv, TypeOK
<1>3. NotReady(r, "raise") => Fails(r)
  BY DEF NotReady, Go, Fails, IInv, TypeOK
<1> QED BY <1>1, <1>2, <1>3, MishapTells DEF Wait

(* A mishap is remembered. *)
LEMMA ErredStays ==
  ASSUME NEW r \in Runs, mishaps[r] \subseteq mishaps'[r], Erred(r)
  PROVE  Erred(r)'
BY DEF Erred

(* Where the handler of the switch goes, what it needs is there. *)
LEMMA SwitchUndone ==
  ASSUME NEW r \in Runs, NEW l, NEW p, AppSide(r, l, p)', DbSide(r, l, p)', NoneAssumption,
         p \in {"rename_old", "inspect_db", "create_new", "wait_new", "public", "rewait_db"}
  PROVE  /\ AppSide(r, l, UndoSwitch(l))' /\ DbSide(r, l, UndoSwitch(l))'
         /\ UndoSwitch(l) \in Active
         /\ UndoSwitch(l) \in Handled => p \in {"wait_new", "public"}
<1>0. l.old # None /\ New(r) # None
  BY IdsOf, NoneAssumption DEF AppSide
<1>1. CASE p = "rename_old"
  <2>1. UndoSwitch(l) = "restart_old"
    BY <1>0, <1>1 DEF AppSide, StillUp, Before, Between, Rollout, UndoRollout, UndoSwitch, Restore
  <2> QED BY <1>1, <2>1 DEF AppSide, DbSide, StillUp, Before, Between, Rollout, UndoRollout, WithNew, Aside, Replaced,
          BeforeRename, Handled, Active, Undo
<1>2. CASE p \in {"inspect_db", "create_new", "rewait_db"}
  <2>0. p \in Between /\ p \notin StillUp \cup WithNew /\ p \notin Aside \cup {"rename_db", "restart_db"}
    BY <1>2 DEF StillUp, Before, Between, Rollout, UndoRollout, WithNew, Aside, Replaced
  <2>1. UndoSwitch(l) = "rename_back"
    BY <1>0, <2>0 DEF AppSide, UndoSwitch, Restore
  <2>2. /\ "rename_back" \notin StillUp \cup WithNew \cup Between /\ "rename_back" \notin Aside
        /\ "rename_back" \notin BeforeRename \cup Handled /\ "rename_back" \in Active
    BY DEF StillUp, Before, Between, Rollout, UndoRollout, WithNew, Aside, Replaced, BeforeRename, Handled, Active, Undo
  <2> QED BY <2>0, <2>1, <2>2 DEF AppSide, DbSide
<1>3. CASE p \in {"wait_new", "public"}
  <2>0. p \in WithNew /\ p \notin StillUp /\ p \notin Aside \cup {"rename_db", "restart_db"}
    BY <1>3 DEF StillUp, Before, WithNew, Aside, Replaced
  <2>1. UndoSwitch(l) = "halt_new"
    BY <1>0, <2>0 DEF AppSide, UndoSwitch
  <2>2. /\ "halt_new" \notin StillUp \cup Between /\ "halt_new" \in WithNew /\ "halt_new" \notin Aside
        /\ "halt_new" \notin BeforeRename /\ "halt_new" \in Active
    BY DEF StillUp, Before, Between, Rollout, UndoRollout, WithNew, Aside, Replaced, BeforeRename, Active, Undo
  <2> QED BY <1>3, <2>0, <2>1, <2>2 DEF AppSide, DbSide
<1> QED BY <1>1, <1>2, <1>3

(* And that of the rollout. *)
LEMMA RolloutUndone ==
  ASSUME InOrder, InOrder', NEW r \in Runs, pc[r] \in Rollout, NEW p, NEW q, q = Handler(r),
         NEW l, l = loc[r], AppSide(r, l, p)', DbSide(r, l, p)',
         p = pc[r] \/ (pc[r] = "stop_db" /\ p = "rename_db") \/ (pc[r] = "replace_db" /\ p = "wait_db")
  PROVE  /\ AppSide(r, l, q)' /\ DbSide(r, l, q)' /\ q \in Active
         /\ q \in Handled => pc[r] \notin {"stop_db", "rename_db"}
<1>1. pc[r] \in Active \ {"record"}
  BY DEF Active, Rollout
<1>2. q = UndoDb(l) /\ Known(r)
  BY <1>1, HandlerPlaces, WhatRunKnows DEF InOrder
<1>3. Replacement(r) # None
  BY IdsOf, NoneAssumption
<1>4. q = CASE pc[r] \in {"stop_db", "rename_db"} -> "restart_db"
            [] pc[r] = "create_db" -> "rename_db_back"
            [] pc[r] \in {"replace_db", "wait_db"} -> "look_db"
  <2>1. CASE pc[r] \in {"stop_db", "rename_db"}
    BY <1>2, <2>1 DEF Known, DbKnown, BeforeRename, UndoDb, RestoreDb
  <2>2. CASE pc[r] = "create_db"
    BY <1>2, <2>2 DEF Known, DbKnown, UndoDb, RestoreDb
  <2>3. CASE pc[r] \in {"replace_db", "wait_db"}
    BY <1>2, <1>3, <2>3 DEF Known, DbKnown, Replaced, UndoDb
  <2> QED BY <2>1, <2>2, <2>3 DEF Rollout
<1>5. q \in UndoRollout /\ p \in Rollout
  BY <1>4 DEF UndoRollout, Rollout
<1>6. /\ p \in Between /\ q \in Between /\ p \notin StillUp \cup WithNew /\ q \notin StillUp \cup WithNew \cup {"rename_back"}
      /\ q \notin {"rename_old", "restart_old", "start_new", "delete_new"} /\ q \in Active
  BY <1>5 DEF Between, UndoRollout, Rollout, StillUp, Before, WithNew, Active
<1>7. AppSide(r, l, q)'
  BY <1>6 DEF AppSide
<1>8. DbSide(r, l, q)'
  <2>1. CASE pc[r] \in {"stop_db", "rename_db"}
    <3>1. q = "restart_db" /\ p \in {"stop_db", "rename_db"}
      BY <1>4, <2>1
    <3>2. ~OwnedByOthers(host.box[l.db].port, l.db)'
      <4>1. CASE p = "rename_db"
        BY <4>1 DEF DbSide
      <4>2. CASE p = "stop_db"
        <5>1. l.db \in Ids /\ On(l.db)' /\ Exists(l.db)' /\ Role(l.db) = "db"
          BY <4>2 DEF DbSide, Aside, Replaced
        <5>2. host'.box[l.db].port # None
          BY <5>1, PortsAssumption DEF InOrder, Tidy, PortsFit, PortFits
        <5> QED BY <5>1, <5>2 DEF InOrder, PortsAlone, OwnedByOthers, Publishes
      <4> QED BY <3>1, <4>1, <4>2
    <3> QED BY <3>1, <3>2 DEF DbSide, Aside, Replaced, BeforeRename, Before
  <2>2. CASE pc[r] = "create_db"
    BY <1>4, <2>2 DEF DbSide, Aside, Replaced, BeforeRename, Before
  <2>3. CASE pc[r] \in {"replace_db", "wait_db"}
    BY <1>4, <2>3 DEF DbSide, Aside, Replaced, BeforeRename, Before
  <2> QED BY <2>1, <2>2, <2>3 DEF Rollout
<1>9. q \in Handled => pc[r] \notin {"stop_db", "rename_db"}
  BY <1>4 DEF Handled
<1> QED BY <1>6, <1>7, <1>8, <1>9
(* Each place has its step. *)
LEMMA StepPlaces ==
  ASSUME NEW r \in Runs, Step(r)
  PROVE  /\ pc[r] \in Before \ {"list"} =>
              \/ Storage(r) \/ DbCreate(r) \/ DbStart(r) \/ DbWait(r) \/ Load(r) \/ CandidateCreate(r)
              \/ CandidateStart(r) \/ CandidateWait(r) \/ CandidateStop(r) \/ CandidateDelete(r) \/ Busy(r)
         /\ pc[r] = "list" => List(r)
BY DEF Before, Step, Prepare, EnsureDatabasePort, SwitchApp, UndoSteps, At, List, Storage, DbCreate, DbStart, DbWait,
   Load, CandidateCreate, CandidateStart, CandidateWait, CandidateStop, CandidateDelete, Busy, InspectDb, StopDb,
   RenameDb, CreateDb, ReplaceDb, WaitDb, LookDb, HaltDb, DeleteDb, RenameDbBack, RestartDb, RewaitDb, StopOld,
   RenameOld, CreateNew, StartNew, WaitNew, Public, Record, HaltNew, DeleteNew, RenameBack, RestartOld

(* The variables that the handlers ask. *)
Alike(m, l) ==
  m.old = l.old /\ m.db = l.db /\ m.new = l.new /\ m.stopped = l.stopped /\ m.renamed = l.renamed

(* Until the old app is stopped, it is up whatever happens. *)
LEMMA StaysUp ==
  ASSUME InOrder', NEW r \in Runs, NEW l, NEW p, NEW m, NEW q, AppSide(r, l, p)', DbSide(r, l, p)', p \in StillUp,
         Alike(m, l), loc'[r] = m, pc'[r] = q, q \in StillUp \cup Ended
  PROVE  Recovers(r)
<1>1. /\ p \in BeforeRename /\ p \notin Aside \cup {"rename_db", "restart_db"}
  BY DEF StillUp, Before, BeforeRename, Aside, Replaced
<1>2. CASE q \in StillUp
  <2>0. q \notin Between \cup WithNew /\ q \notin Handled
    BY <1>2 DEF StillUp, Before, Handled, Between, WithNew, Rollout, UndoRollout
  <2>1. /\ q \in BeforeRename /\ q \notin Aside \cup {"rename_db", "restart_db"} /\ q \in Active
        /\ q \notin {"rename_old", "restart_old", "start_new", "delete_new", "rename_back"}
    BY <1>2 DEF StillUp, Before, BeforeRename, Aside, Replaced, Active, Switch
  <2>2. AppSide(r, m, q)'
    BY <1>2, <2>0, <2>1 DEF AppSide, Alike
  <2>3. DbSide(r, m, q)'
    BY <1>1, <2>1 DEF DbSide, Aside, Replaced, Alike
  <2> QED BY <2>0, <2>1, <2>2, <2>3, Arrives
<1>3. CASE q \in Ended
  <2>1. l.old \in Ids /\ l.db \in Ids /\ On(l.old)' /\ On(l.db)' /\ host'.box[l.old].name = AppName
        /\ host'.box[l.db].name = DbName
    BY <1>1 DEF AppSide, DbSide
  <2>2. AppUp'
    BY <2>1, UpWithDb
  <2>3. q \notin Active
    BY <1>3 DEF Ended, Active, Before, Switch, Rollout, UndoRollout, Undo
  <2> QED BY <2>2, <2>3 DEF Recovers
<1> QED BY <1>2, <1>3

LEMMA PreparesSafely ==
  ASSUME InOrder, InOrder', NEW r \in Runs, Recoverable(r), Excusable(r)', pc[r] \in StillUp \ {"stop_old"}, Step(r)
  PROVE  Recovers(r)
<1>1. PICK l, p : l = loc[r] /\ p = pc[r] /\ AppSide(r, l, p) /\ DbSide(r, l, p) /\ p \in StillUp
  BY DEF Recoverable
<1>2. /\ p \in Before \ {"list"} /\ p \in Active /\ Handler(r) = "failed" /\ "failed" \in Ended /\ "refused" \in Ended
      /\ p \notin Aside \cup {"rename_db", "restart_db"}
  <2>1. p \in Before \ {"list"} /\ p \in Active \ {"record"}
    BY <1>1 DEF StillUp, Before, Active
  <2> QED BY <1>1, <2>1, HandlerPlaces DEF Ended, Before, Aside, Replaced
<1>3. IInv /\ loc[r] \in Local /\ l.old # None
  BY <1>1, <1>2, WhatRunKnows, NoneAssumption DEF InOrder, AppSide
<1> DEFINE Goes == pc'[r] \in StillUp \cup Ended /\ Alike(loc'[r], l)
<1>4. /\ \A m, place : Done(r, m, place) /\ place \in StillUp \cup Ended /\ Alike(m, l) => Goes
      /\ Fails(r) => Goes
  BY <1>1, <1>2 DEF Done, Fails, Alike
<1>5. /\ \A v : Alike([loc[r] EXCEPT !.key = v], l)
      /\ Alike([loc[r] EXCEPT !.ready = TRUE], l) /\ Alike(loc[r], l)
  BY <1>1, <1>3 DEF Local, Alike
<1>6. CASE Storage(r) \/ Load(r)
  <2>1. {"db_create", "db_wait", "db_start", "cand_create"} \subseteq StillUp
    BY DEF StillUp, Before
  <2>2. PICK m, place :
          /\ Call(r, TRUE, host, m, place) /\ place \in {"db_create", "db_wait", "db_start", "cand_create"}
          /\ m = loc[r] \/ \E v : m = [loc[r] EXCEPT !.key = v]
    BY <1>6 DEF Storage, Load, Ask
  <2>3. host' = host /\ (Done(r, m, place) \/ Fails(r))
    BY <1>3, <2>2, CallEnds
  <2>4. Alike(m, l)
    BY <1>1, <1>5, <2>2
  <2> QED BY <1>1, <1>4, <2>1, <2>2, <2>3, <2>4, BothStay, StaysUp
<1>7. CASE DbWait(r) \/ CandidateWait(r)
  <2>1. PICK c, m, yes, no :
          /\ Wait(r, c, m, yes, no) /\ {yes, no} \subseteq {"load", "refused", "cand_stop"}
          /\ m = loc[r] \/ m = [loc[r] EXCEPT !.ready = TRUE]
    BY <1>7 DEF DbWait, CandidateWait
  <2>2. {"load", "refused", "cand_stop"} \subseteq StillUp \cup Ended /\ no # "raise"
    BY <2>1 DEF StillUp, Before, Ended
  <2>3. host' = host /\ loc'[r] \in {m, loc[r]} /\ pc'[r] \in {yes, no, Handler(r)}
    BY <1>3, <2>1, <2>2 DEF Wait, NotReady, Keep, Go, Raise, IInv, TypeOK
  <2>4. Goes
    <3>1. pc'[r] \in StillUp \cup Ended
      BY <1>2, <2>1, <2>2, <2>3
    <3>2. Alike(m, l)
      <4>1. CASE m = loc[r]
        BY <1>5, <4>1
      <4>2. CASE m = [loc[r] EXCEPT !.ready = TRUE]
        BY <1>5, <4>2
      <4>3. m = loc[r] \/ m = [loc[r] EXCEPT !.ready = TRUE]
        BY <2>1, Zenon
      <4> QED BY <4>1, <4>2, <4>3, Zenon
    <3> QED BY <1>5, <2>3, <3>1, <3>2
  <2> QED BY <1>1, <2>3, <2>4, BothStay, StaysUp
<1>8. CASE Busy(r)
  <2>1. host' = host /\ loc'[r] = loc[r] /\ pc'[r] \in {"stop_old", "refused", Handler(r)}
    BY <1>1, <1>3, <1>8 DEF Busy, SwitchFrom, Go, Raise, IInv, TypeOK
  <2>2. Goes
    BY <1>1, <1>2, <2>1 DEF StillUp, Alike
  <2> QED BY <1>1, <2>1, <2>2, BothStay, StaysUp
<1>9. CASE DbCreate(r) \/ DbStart(r)
  <2>1. On(l.db) /\ l.db \in Named(DbName)
    BY <1>1, <1>2 DEF DbSide, Named
  <2>2. ~CanCreate(DbName) /\ ~CanStart(l.db)
    BY <2>1 DEF CanCreate, CanStart
  <2>3. PICK possible, after, m, place : Call(r, possible, after, m, place) /\ ~possible
    BY <1>1, <1>9, <2>2 DEF DbCreate, DbStart
  <2>4. host' = host /\ Fails(r)
    BY <1>3, <2>3, CallEnds
  <2> QED BY <1>1, <1>4, <2>4, BothStay, StaysUp
<1>10. CASE CandidateCreate(r) \/ CandidateStart(r) \/ CandidateStop(r) \/ CandidateDelete(r)
  <2>1. PICK possible, after, place :
          /\ Call(r, possible, after, loc[r], place)
          /\ place \in {"cand_start", "cand_wait", "cand_delete", "busy", "refused"}
    BY <1>10 DEF CandidateCreate, CandidateStart, CandidateStop, CandidateDelete
  <2>2. place \in StillUp \cup Ended
    BY <2>1 DEF StillUp, Before, Ended
  <2>3. Done(r, loc[r], place) \/ Fails(r)
    BY <1>3, <2>1, CallEnds
  <2>4. Concerns(Candidate(r))
    <3>1. Image(r, CandidateName(r), None) \in Containers
      BY <1>3, NamesDiffer DEF Image, Containers, Local
    <3> QED BY <1>3, <1>10, <3>1, IdsOf, CallConcerns DEF CandidateCreate, CandidateStart, CandidateStop, CandidateDelete, Call
  <2>5. Candidate(r) \in Ids /\ Role(Candidate(r)) = "candidate"
    BY IdsOf
  <2>6. AppSide(r, l, p)' /\ DbSide(r, l, p)'
    BY <1>1, <2>4, <2>5, AppFrame, DbFrame
  <2> QED BY <1>1, <1>4, <1>5, <2>2, <2>3, <2>6, StaysUp
<1> QED BY <1>1, <1>2, <1>6, <1>7, <1>8, <1>9, <1>10, StepPlaces
(* A step of the switch that fails. *)
LEMMA FailsInSwitch ==
  ASSUME InOrder, InOrder', NEW r \in Runs, pc[r] \in (Switch \ {"stop_old"}) \cup UndoRollout, Fails(r), NEW l, l = loc[r],
         NEW p \in {"rename_old", "inspect_db", "create_new", "wait_new", "public", "rewait_db"},
         AppSide(r, l, p)', DbSide(r, l, p)', p \in {"wait_new", "public"} => Erred(r)'
  PROVE  Recovers(r)
<1>1. PICK q : q = UndoSwitch(l)
  OBVIOUS
<1>2. AppSide(r, l, q)' /\ DbSide(r, l, q)' /\ q \in Active /\ (q \in Handled => p \in {"wait_new", "public"})
  BY <1>1, SwitchUndone, NoneAssumption
<1>3. pc[r] \in Active \ {"record"}
  BY DEF Switch, UndoRollout, Active
<1>4. Handler(r) = q
  BY <1>1, <1>3, HandlerPlaces
<1>5. loc'[r] = l /\ pc'[r] = q
  BY <1>4 DEF Fails
<1> QED BY <1>2, <1>5, Arrives

(* A step of the rollout that fails. *)
LEMMA FailsInRollout ==
  ASSUME InOrder, InOrder', NEW r \in Runs, pc[r] \in Rollout, Fails(r), NEW l, l = loc[r], NEW p,
         p = pc[r] \/ (pc[r] = "stop_db" /\ p = "rename_db") \/ (pc[r] = "replace_db" /\ p = "wait_db"),
         AppSide(r, l, p)', DbSide(r, l, p)', pc[r] \notin {"stop_db", "rename_db"} => Erred(r)'
  PROVE  Recovers(r)
<1>1. PICK q : q = Handler(r)
  OBVIOUS
<1>2. AppSide(r, l, q)' /\ DbSide(r, l, q)' /\ q \in Active /\ (q \in Handled => pc[r] \notin {"stop_db", "rename_db"})
  BY <1>1, RolloutUndone
<1>3. loc'[r] = l /\ pc'[r] = q
  BY <1>1 DEF Fails
<1> QED BY <1>2, <1>3, Arrives

(* The old app is stopped. *)
LEMMA StopOldRecovers ==
  ASSUME InOrder, InOrder', NEW r \in Runs, Recoverable(r), Excusable(r)', StopOld(r)
  PROVE  Recovers(r)
<1>1. PICK l : l = loc[r] /\ pc[r] = "stop_old" /\ AppSide(r, l, "stop_old") /\ DbSide(r, l, "stop_old")
  BY DEF Recoverable, StopOld, At
<1>2. PICK c : c = l.old /\ c \in Ids /\ Role(c) = "app" /\ Exists(c) /\ On(c) /\ host.box[c].name = AppName
               /\ ~OwnedByOthers("app", c)
  BY <1>1 DEF AppSide, StillUp
<1>3. PICK m : m = [l EXCEPT !.stopped = TRUE] /\ Call(r, CanStop(c), Stop(c), m, "rename_old")
  BY <1>1, <1>2 DEF StopOld
<1>4. loc[r] \in Local /\ IInv /\ HostOK /\ CanStop(c) /\ "stop_old" \in Active
  BY <1>1, <1>2, WhatRunKnows DEF InOrder, CanStop, Active, Switch
<1>5. <<pc[r], "lost">> \in Unrecovered
  BY <1>1 DEF Unrecovered
<1>6. CASE host' = Stop(c) /\ Done(r, m, "rename_old")
  <2>1. /\ Concerns(c) /\ host'.box[c] # None /\ ~host'.box[c].on /\ host'.box[c].name = host.box[c].name
    BY <1>2, <1>4, <1>6, StopKeeps
  <2>2. m.old = l.old /\ m.db = l.db /\ m.new = l.new /\ m.stopped /\ m.renamed = l.renamed
    BY <1>1, <1>3, <1>4 DEF Local
  <2>4. ~OwnedByOthers("app", None)'
    BY <1>2, <2>1 DEF OwnedByOthers, Publishes, On, Exists, Concerns
  <2>5. AppSide(r, m, "rename_old")'
    BY <1>1, <1>2, <2>1, <2>2, <2>4 DEF AppSide, StillUp, Before, Between, Rollout, UndoRollout, WithNew, Exists
  <2>6. DbSide(r, l, "stop_old")'
    BY <1>1, <1>2, <2>1, DbFrame
  <2>7. DbSide(r, m, "rename_old")'
    BY <2>2, <2>6 DEF DbSide, Aside, Replaced, BeforeRename
  <2>8. "rename_old" \in Active /\ "rename_old" \notin Handled
    BY DEF Active, Switch, Handled
  <2> QED BY <1>6, <2>5, <2>7, <2>8, Arrives DEF Done
<1>7. CASE host' = host /\ Fails(r)
  <2>1. Handler(r) = "failed"
    <3>1. UndoSwitch(l) = "failed"
      BY <1>1 DEF AppSide, StillUp, UndoSwitch, Restore
    <3>2. "stop_old" \in Switch /\ "stop_old" # "record"
      BY DEF Switch
    <3> QED BY <1>1, <1>4, <3>1, <3>2, HandlerPlaces
  <2>2. "failed" \in Ended /\ "stop_old" \in StillUp /\ Alike(l, l)
    BY DEF Ended, StillUp, Alike
  <2> QED BY <1>1, <1>7, <2>1, <2>2, BothStay, StaysUp DEF Fails
<1> QED BY <1>3, <1>4, <1>5, <1>6, <1>7, CallEnds DEF Mishappens

(* It gives its name away. *)
LEMMA RenameOldRecovers ==
  ASSUME InOrder, InOrder', NEW r \in Runs, Recoverable(r), Excusable(r)', RenameOld(r)
  PROVE  Recovers(r)
<1>1. PICK l : l = loc[r] /\ pc[r] = "rename_old" /\ AppSide(r, l, "rename_old") /\ DbSide(r, l, "rename_old")
  BY DEF Recoverable, RenameOld, At
<1>2. PICK c : c = l.old /\ c \in Ids /\ Role(c) = "app" /\ Exists(c) /\ host.box[c].name = AppName
               /\ ~OwnedByOthers("app", None)
  BY <1>1 DEF AppSide, StillUp, Before, WithNew
<1>3. PICK m : /\ m = [l EXCEPT !.renamed = TRUE]
               /\ Call(r, CanRename(c, RollbackName(r)), Rename(c, RollbackName(r)), m, "inspect_db")
  BY <1>1, <1>2 DEF RenameOld
<1>4. loc[r] \in Local /\ IInv /\ HostOK /\ pc[r] \in Active /\ pc[r] \in Switch \ {"stop_old"}
  BY <1>1, WhatRunKnows DEF InOrder, Active, Switch
<1>5. <<pc[r], "lost">> \in Unrecovered
  BY <1>1 DEF Unrecovered
<1>6. CASE CanRename(c, RollbackName(r)) /\ host' = Rename(c, RollbackName(r)) /\ Done(r, m, "inspect_db")
  <2>1. /\ Concerns(c) /\ host'.box[c] # None /\ host'.box[c].on = host.box[c].on
        /\ host'.box[c].name = RollbackName(r) /\ RollbackName(r) # AppName
    BY <1>2, <1>4, <1>6, RenameKeeps, NamesDiffer
  <2>2. m.old = l.old /\ m.db = l.db /\ m.new = l.new /\ m.stopped = l.stopped /\ m.renamed
    BY <1>1, <1>3, <1>4 DEF Local
  <2>3. Free(AppName)'
    <3> SUFFICES ASSUME NEW d \in Ids, Exists(d)', host'.box[d].name = AppName PROVE FALSE
      BY DEF Free
    <3>1. d # c
      BY <2>1
    <3>2. Exists(d) /\ host.box[d].name = AppName
      BY <2>1, <3>1 DEF Concerns, Exists
    <3> QED BY <1>2, <1>4, <3>1, <3>2 DEF HostOK, NamesApart
  <2>4. ~OwnedByOthers("app", None)'
    <3>1. host.box[c].port = "app" /\ c # None
      BY <1>2, NoneAssumption DEF InOrder, Tidy, PortsFit, PortFits
    <3>2. ~On(c)
      BY <1>2, <3>1 DEF OwnedByOthers, Publishes
    <3>3. ~host'.box[c].on
      BY <1>2, <2>1, <3>2 DEF On
    <3> QED BY <1>2, <2>1, <3>3, PortStays
  <2>5. AppSide(r, m, "inspect_db")'
    BY <1>1, <1>2, <2>1, <2>2, <2>3, <2>4 DEF AppSide, StillUp, Before, Between, WithNew, Exists
  <2>6. DbSide(r, l, "rename_old")'
    BY <1>1, <1>2, <2>1, DbFrame
  <2>7. DbSide(r, m, "inspect_db")'
    BY <2>2, <2>6 DEF DbSide, Aside, Replaced, BeforeRename
  <2>8. "inspect_db" \in Active /\ "inspect_db" \notin Handled
    BY DEF Active, Switch, Handled
  <2> QED BY <1>6, <2>5, <2>7, <2>8, Arrives DEF Done
<1>7. CASE host' = host /\ Fails(r)
  BY <1>1, <1>4, <1>7, BothStay, FailsInSwitch
<1> QED BY <1>3, <1>4, <1>5, <1>6, <1>7, CallEnds DEF Mishappens

(* The database is looked at. *)
LEMMA InspectDbRecovers ==
  ASSUME InOrder, InOrder', NEW r \in Runs, Recoverable(r), Excusable(r)', InspectDb(r)
  PROVE  Recovers(r)
<1>1. PICK l : l = loc[r] /\ pc[r] = "inspect_db" /\ AppSide(r, l, "inspect_db") /\ DbSide(r, l, "inspect_db")
  BY DEF Recoverable, InspectDb, At
<1>2. PICK q : q \in {"create_new", "stop_db"} /\ Call(r, Exists(l.db), host, l, q)
  BY <1>1 DEF InspectDb, Ask
<1>3. host' = host /\ (Done(r, l, q) \/ Fails(r))
  <2>1. Exists(l.db) /\ IInv
    BY <1>1 DEF DbSide, InOrder
  <2> QED BY <1>2, <2>1, CallEnds
<1>4. AppSide(r, l, "inspect_db")' /\ DbSide(r, l, "inspect_db")'
  BY <1>1, <1>3, BothStay
<1>5. CASE Done(r, l, q)
  <2>1. /\ "inspect_db" \in Between /\ q \in Between /\ q \notin StillUp \cup WithNew \cup {"rename_back"}
        /\ q \in Active /\ q \notin Handled /\ "inspect_db" \notin StillUp \cup WithNew
    BY <1>2 DEF Between, Rollout, StillUp, Before, WithNew, Active, Switch, Handled
  <2>2. AppSide(r, l, q)'
    BY <1>2, <1>4, <2>1 DEF AppSide
  <2>3. DbSide(r, l, q)'
    BY <1>2, <1>4 DEF DbSide, Aside, Replaced, BeforeRename
  <2> QED BY <1>5, <2>1, <2>2, <2>3, Arrives DEF Done
<1>6. CASE Fails(r)
  <2>1. pc[r] \in Switch \ {"stop_old"}
    BY <1>1 DEF Switch
  <2> QED BY <1>1, <1>4, <1>6, <2>1, FailsInSwitch
<1> QED BY <1>3, <1>5, <1>6

(* The old database is stopped. *)
LEMMA StopDbRecovers ==
  ASSUME InOrder, InOrder', NEW r \in Runs, Recoverable(r), Excusable(r)', StopDb(r)
  PROVE  Recovers(r)
<1>1. PICK l : l = loc[r] /\ pc[r] = "stop_db" /\ AppSide(r, l, "stop_db") /\ DbSide(r, l, "stop_db")
  BY DEF Recoverable, StopDb, At
<1>2. PICK c : c = l.db /\ c \in Ids /\ Role(c) = "db" /\ Exists(c) /\ host.box[c].name = DbName /\ On(c)
               /\ ~OwnedByOthers(PortOf[r], c)
  BY <1>1 DEF DbSide, Aside, Replaced, BeforeRename
<1>3. Call(r, CanStop(c), Stop(c), l, "rename_db") /\ CanStop(c)
  BY <1>1, <1>2 DEF StopDb, CanStop
<1>4. IInv /\ HostOK /\ pc[r] \in Active /\ pc[r] \in Rollout
  BY <1>1, WhatRunKnows DEF InOrder, Active, Rollout
<1>5. host' = Stop(c) => AppSide(r, l, "rename_db")' /\ DbSide(r, l, "rename_db")'
  <2> SUFFICES ASSUME host' = Stop(c) PROVE AppSide(r, l, "rename_db")' /\ DbSide(r, l, "rename_db")'
    OBVIOUS
  <2>1. /\ Concerns(c) /\ host'.box[c] # None /\ ~host'.box[c].on /\ host'.box[c].name = host.box[c].name
        /\ host'.box[c].port = host.box[c].port
    BY <1>2, <1>4, StopKeeps
  <2>2. AppSide(r, l, "stop_db")'
    BY <1>1, <1>2, <2>1, AppFrame
  <2>3. AppSide(r, l, "rename_db")'
    BY <2>2 DEF AppSide, StillUp, Before, Between, Rollout, WithNew
  <2>4. host.box[c].port # None
    BY <1>2, PortsAssumption DEF InOrder, Tidy, PortsFit, PortFits
  <2>5. ~OwnedByOthers(host.box[c].port, c)
    BY <1>2, <2>4 DEF InOrder, PortsAlone, OwnedByOthers, Publishes
  <2>6. ~OwnedByOthers(host.box[c].port, c)' /\ ~OwnedByOthers(PortOf[r], c)'
    <3>1. ASSUME NEW n, ~OwnedByOthers(n, c) PROVE ~OwnedByOthers(n, c)'
      BY <2>1, <3>1, PortStays
    <3>2. PICK n : n = host.box[c].port
      OBVIOUS
    <3>3. ~OwnedByOthers(n, c)' /\ host'.box[c].port = n
      BY <2>1, <2>5, <3>1, <3>2
    <3> QED BY <1>2, <3>1, <3>3
  <2>7. DbSide(r, l, "rename_db")'
    BY <1>1, <1>2, <2>1, <2>6 DEF DbSide, Aside, Replaced, BeforeRename, Exists
  <2> QED BY <2>3, <2>7
<1>6. CASE host' = Stop(c) /\ Done(r, l, "rename_db")
  <2>1. "rename_db" \in Active /\ "rename_db" \notin Handled
    BY DEF Active, Rollout, Handled
  <2> QED BY <1>5, <1>6, <2>1, Arrives DEF Done
<1>7. CASE Fails(r)
  <2>1. CASE host' = host
    BY <1>1, <1>4, <1>7, <2>1, BothStay, FailsInRollout
  <2>2. CASE host' = Stop(c)
    BY <1>1, <1>4, <1>5, <1>7, <2>2, FailsInRollout
  <2> QED BY <1>3, <1>4, <1>7, <2>1, <2>2, CallEnds DEF Call
<1> QED BY <1>3, <1>4, <1>6, <1>7, CallEnds

(* It gives its name away. *)
LEMMA RenameDbRecovers ==
  ASSUME InOrder, InOrder', NEW r \in Runs, Recoverable(r), Excusable(r)', RenameDb(r)
  PROVE  Recovers(r)
<1>1. PICK l : l = loc[r] /\ pc[r] = "rename_db" /\ AppSide(r, l, "rename_db") /\ DbSide(r, l, "rename_db")
  BY DEF Recoverable, RenameDb, At
<1>2. PICK c : c = l.db /\ c \in Ids /\ Role(c) = "db" /\ Exists(c) /\ host.box[c].name = DbName
               /\ ~OwnedByOthers(host.box[c].port, c) /\ ~OwnedByOthers(PortOf[r], c)
  BY <1>1 DEF DbSide, Aside, Replaced, BeforeRename
<1>3. PICK m : /\ m = [l EXCEPT !.renamed_db = TRUE]
               /\ Call(r, CanRename(c, BeforePortName(r)), Rename(c, BeforePortName(r)), m, "create_db")
  BY <1>1, <1>2 DEF RenameDb
<1>4. IInv /\ loc[r] \in Local /\ HostOK /\ pc[r] \in Active /\ pc[r] \in Rollout /\ ~On(c)
  <2>1. pc[r] \in Active /\ pc[r] \in Rollout
    BY <1>1 DEF Active, Rollout
  <2> QED BY <1>1, <1>2, <2>1, WhatRunKnows DEF InOrder, Known, DbKnown
<1>5. <<pc[r], "lost">> \in Unrecovered
  BY <1>1 DEF Unrecovered
<1>6. CASE CanRename(c, BeforePortName(r)) /\ host' = Rename(c, BeforePortName(r)) /\ Done(r, m, "create_db")
  <2>1. /\ Concerns(c) /\ host'.box[c] # None /\ ~host'.box[c].on /\ host'.box[c].port = host.box[c].port
        /\ host'.box[c].name = BeforePortName(r) /\ BeforePortName(r) # DbName
    <3>1. /\ Concerns(c) /\ host'.box[c] # None /\ host'.box[c].on = host.box[c].on
          /\ host'.box[c].port = host.box[c].port /\ host'.box[c].name = BeforePortName(r) /\ BeforePortName(r) # DbName
      BY <1>2, <1>4, <1>6, RenameKeeps, NamesDiffer
    <3> QED BY <1>2, <1>4, <3>1 DEF On
  <2>2. m.old = l.old /\ m.db = c /\ m.new = l.new /\ m.stopped = l.stopped /\ m.renamed = l.renamed
    BY <1>1, <1>2, <1>3, <1>4 DEF Local
  <2>3. AppSide(r, l, "rename_db")'
    BY <1>1, <1>2, <2>1, AppFrame
  <2>4. AppSide(r, m, "create_db")'
    BY <2>2, <2>3 DEF AppSide, StillUp, Before, Between, Rollout, WithNew
  <2>5. Free(DbName)'
    <3> SUFFICES ASSUME NEW d \in Ids, Exists(d)', host'.box[d].name = DbName PROVE FALSE
      BY DEF Free
    <3>1. d # c
      BY <2>1
    <3>2. Exists(d) /\ host.box[d].name = DbName
      BY <2>1, <3>1 DEF Concerns, Exists
    <3> QED BY <1>2, <1>4, <3>1, <3>2 DEF HostOK, NamesApart
  <2>6. ASSUME NEW n, ~OwnedByOthers(n, c)
        PROVE  \A d : ~OwnedByOthers(n, d)'
    <3>1. ~OwnedByOthers(n, c)'
      BY <2>1, <2>6, PortStays
    <3> QED BY <2>1, <3>1 DEF OwnedByOthers, Publishes, On
  <2>7. \A d : ~OwnedByOthers(host.box[c].port, d)' /\ ~OwnedByOthers(PortOf[r], d)'
    <3>1. PICK n : n = host.box[c].port
      OBVIOUS
    <3>2. \A d : ~OwnedByOthers(n, d)'
      BY <1>2, <2>6, <3>1
    <3> QED BY <1>2, <2>1, <2>6, <3>1, <3>2
  <2>8. DbSide(r, m, "create_db")'
    BY <1>2, <2>1, <2>2, <2>5, <2>7 DEF DbSide, Aside, Replaced, BeforeRename, Before, Exists, On
  <2>9. "create_db" \in Active /\ "create_db" \notin Handled
    BY DEF Active, Rollout, Handled
  <2> QED BY <1>6, <2>4, <2>8, <2>9, Arrives DEF Done
<1>7. CASE host' = host /\ Fails(r)
  BY <1>1, <1>4, <1>7, BothStay, FailsInRollout
<1> QED BY <1>3, <1>4, <1>5, <1>6, <1>7, CallEnds DEF Mishappens
(* While only databases are moved, the app stays as it is. *)
LEMMA DbMoves ==
  ASSUME InOrder', NEW r \in Runs, NEW l, NEW p \in Between, AppSide(r, l, p),
         NEW c \in Ids, Concerns(c), Role(c) = "db",
         NEW m, m.old = l.old, m.new = l.new, m.stopped = l.stopped, m.renamed = l.renamed,
         NEW q \in Between, DbSide(r, m, q)', loc'[r] = m, pc'[r] = q, q \in Handled => Erred(r)'
  PROVE  Recovers(r)
<1>1. AppSide(r, l, p)'
  BY AppFrame
<1>2. /\ p \notin StillUp \cup WithNew /\ q \notin StillUp \cup WithNew \cup {"rename_back"}
      /\ q \notin {"rename_old", "restart_old", "start_new", "delete_new"} /\ q \in Active
  BY DEF Between, UndoRollout, Rollout, StillUp, Before, WithNew, Active, Switch
<1>3. AppSide(r, m, q)'
  BY <1>1, <1>2 DEF AppSide
<1> QED BY <1>2, <1>3, Arrives

(* A handler that a mishap led to meets with no other. *)
LEMMA NoOtherMishap ==
  ASSUME NEW r \in Runs, pc[r] \in Handled, Recoverable(r), mishaps[r] \subseteq mishaps'[r]
  PROVE  Erred(r)' /\ \A kind : ~Mishappens(r, kind)
<1>1. Erred(r) /\ pc[r] \notin Switch \cup Rollout
  BY DEF Recoverable, Handled, Switch, Rollout
<1> QED BY <1>1, ErredStays DEF Mishappens

(* The replacement is made. *)
LEMMA CreateDbRecovers ==
  ASSUME InOrder, InOrder', NEW r \in Runs, Recoverable(r), Excusable(r)', CreateDb(r)
  PROVE  Recovers(r)
<1>1. PICK l : l = loc[r] /\ pc[r] = "create_db" /\ AppSide(r, l, "create_db") /\ DbSide(r, l, "create_db")
  BY DEF Recoverable, CreateDb, At
<1>2. PICK d, c :
        /\ d = l.db /\ d \in Ids /\ Role(d) = "db" /\ Exists(d) /\ ~On(d) /\ Free(DbName)
        /\ ~OwnedByOthers(host.box[d].port, None) /\ ~OwnedByOthers(PortOf[r], d)
        /\ c = Replacement(r) /\ c \in Ids /\ Role(c) = "db"
  <2>1. Replacement(r) \in Ids /\ Role(Replacement(r)) = "db"
    BY IdsOf
  <2> QED BY <1>1, <2>1 DEF DbSide, Aside
<1>3. PICK m, box :
        /\ m = [l EXCEPT !.replacement = c]
        /\ box = [host.box[d] EXCEPT !.name = DbName, !.on = FALSE, !.port = PortOf[r]]
        /\ Call(r, CanCreate(DbName), Create(c, box), m, "replace_db")
  BY <1>1, <1>2 DEF CreateDb
<1>4. /\ IInv /\ loc[r] \in Local /\ HostOK /\ pc[r] \in Active /\ pc[r] \in Rollout /\ d # c
      /\ CanCreate(DbName)
  <2>1. pc[r] \in Active /\ pc[r] \in Rollout
    BY <1>1 DEF Active, Rollout
  <2>2. CanCreate(DbName)
    BY <1>2, FreeName DEF CanCreate
  <2> QED BY <1>1, <1>2, <2>1, <2>2, WhatRunKnows DEF InOrder, Known, DbKnown
<1>5. <<pc[r], "lost">> \in Unrecovered
  BY <1>1 DEF Unrecovered
<1>6. CASE host' = Create(c, box) /\ Done(r, m, "replace_db")
  <2>1. box \in Containers /\ ~box.on /\ box.port = PortOf[r]
    <3>1. host.box[d] \in Containers
      BY <1>2, <1>4 DEF HostOK, HostType, Exists
    <3> QED BY <1>3, <3>1, NamesDiffer DEF Containers
  <2>2. Concerns(c) /\ host'.box[c] # None /\ ~host'.box[c].on /\ host'.box[c].port = PortOf[r]
    BY <1>2, <1>4, <1>6, <2>1, CreateEffect, NoneAssumption DEF HostOK
  <2>3. m.old = l.old /\ m.db = d /\ m.new = l.new /\ m.stopped = l.stopped /\ m.renamed = l.renamed
    BY <1>1, <1>2, <1>3, <1>4 DEF Local
  <2>4. host'.box[d] = host.box[d]
    BY <1>2, <1>4, <2>2 DEF Concerns
  <2>5. \A n, b : ~OwnedByOthers(n, b) => ~OwnedByOthers(n, b)'
    BY <2>2, PortStays
  <2>6. ~OwnedByOthers(host.box[d].port, None)' /\ ~OwnedByOthers(PortOf[r], d)'
    <3>1. PICK n : n = host.box[d].port
      OBVIOUS
    <3>2. ~OwnedByOthers(n, None)'
      BY <1>2, <2>5, <3>1
    <3> QED BY <1>2, <2>4, <2>5, <3>1, <3>2
  <2>7. ~OwnedByOthers(host.box[d].port, c)'
    <3>1. PICK n : n = host'.box[d].port
      OBVIOUS
    <3>2. ~OwnedByOthers(n, None)'
      BY <2>6, <3>1
    <3>3. ~OwnedByOthers(n, c)'
      BY <3>2, NoneAssumption DEF OwnedByOthers
    <3> QED BY <3>1, <3>3
  <2>8. DbSide(r, m, "replace_db")'
    BY <1>2, <2>2, <2>3, <2>4, <2>6, <2>7 DEF DbSide, Aside, Replaced, BeforeRename, Before, Exists, On
  <2>9. "create_db" \in Between /\ "replace_db" \in Between /\ "replace_db" \notin Handled
    BY DEF Between, Rollout, Handled
  <2> QED BY <1>1, <1>2, <1>6, <2>2, <2>3, <2>8, <2>9, DbMoves DEF Done
<1>7. CASE host' = host /\ Fails(r) /\ Mishappens(r, "error")
  <2>1. AppSide(r, l, "create_db")' /\ DbSide(r, l, "create_db")'
    BY <1>1, <1>7, BothStay
  <2>2. Erred(r)'
    BY <1>4, <1>7 DEF Mishappens
  <2> QED BY <1>1, <1>4, <1>7, <2>1, <2>2, FailsInRollout
<1> QED BY <1>3, <1>4, <1>5, <1>6, <1>7, CallEnds DEF Mishappens

(* And started. *)
LEMMA ReplaceDbRecovers ==
  ASSUME InOrder, InOrder', NEW r \in Runs, Recoverable(r), Excusable(r)', ReplaceDb(r)
  PROVE  Recovers(r)
<1>1. PICK l : l = loc[r] /\ pc[r] = "replace_db" /\ AppSide(r, l, "replace_db") /\ DbSide(r, l, "replace_db")
  BY DEF Recoverable, ReplaceDb, At
<1>2. PICK d, c :
        /\ d = l.db /\ d \in Ids /\ Role(d) = "db" /\ Exists(d) /\ ~On(d)
        /\ ~OwnedByOthers(host.box[d].port, c) /\ ~OwnedByOthers(PortOf[r], d)
        /\ c = Replacement(r) /\ c \in Ids /\ Role(c) = "db" /\ ~On(c) /\ host.box[c].port = PortOf[r]
  <2>1. Replacement(r) \in Ids /\ Role(Replacement(r)) = "db"
    BY IdsOf
  <2> QED BY <1>1, <2>1 DEF DbSide, Aside, Replaced
<1>3. Call(r, CanStart(c), Start(c), l, "wait_db")
  BY <1>1, <1>2 DEF ReplaceDb
<1>4. /\ IInv /\ HostOK /\ pc[r] \in Active /\ pc[r] \in Rollout /\ d # c /\ Exists(c)
  <2>1. pc[r] \in Active /\ pc[r] \in Rollout
    BY <1>1 DEF Active, Rollout
  <2> QED BY <1>1, <1>2, <2>1, WhatRunKnows DEF InOrder, Known, DbKnown, Replaced, HasDbName
<1>5. CanStart(c)
  BY <1>2, <1>4 DEF CanStart, OwnedByOthers, Publishes
<1>6. ASSUME host' = Start(c)
      PROVE  Concerns(c) /\ AppSide(r, l, "replace_db")' /\ DbSide(r, l, "wait_db")'
  <2>1. Concerns(c) /\ host'.box[c] # None /\ host'.box[c].on
    BY <1>2, <1>4, <1>5, <1>6, StartKeeps
  <2>2. host'.box[d] = host.box[d]
    BY <1>2, <1>4, <2>1 DEF Concerns
  <2>3. ~OwnedByOthers(host.box[d].port, c)'
    <3>1. PICK n : n = host.box[d].port
      OBVIOUS
    <3>2. ~OwnedByOthers(n, c)'
      BY <1>2, <2>1, <3>1, PortStays
    <3> QED BY <2>2, <3>1, <3>2
  <2>4. DbSide(r, l, "wait_db")'
    BY <1>2, <2>1, <2>2, <2>3 DEF DbSide, Aside, Replaced, BeforeRename, Before, Exists, On
  <2>5. AppSide(r, l, "replace_db")'
    BY <1>1, <1>2, <2>1, AppFrame
  <2> QED BY <2>1, <2>4, <2>5
<1>7. "replace_db" \in Between /\ "wait_db" \in Between /\ "wait_db" \notin Handled
  BY DEF Between, Rollout, Handled
<1>8. CASE host' = Start(c) /\ Done(r, l, "wait_db")
  BY <1>1, <1>2, <1>6, <1>7, <1>8, DbMoves DEF Done
<1>9. CASE Fails(r) /\ \E kind : Mishappens(r, kind)
  <2>1. Erred(r)'
    BY <1>4, <1>9 DEF Mishappens
  <2>2. CASE host' = host
    BY <1>1, <1>4, <1>9, <2>1, <2>2, BothStay, FailsInRollout
  <2>3. CASE host' = Start(c)
    <3>1. AppSide(r, l, "wait_db")'
      BY <1>6, <2>3 DEF AppSide, Between, Rollout, StillUp, Before, WithNew
    <3> QED BY <1>1, <1>4, <1>6, <1>9, <2>1, <2>3, <3>1, FailsInRollout
  <2> QED BY <1>3, <1>9, <2>2, <2>3 DEF Call
<1> QED BY <1>3, <1>4, <1>5, <1>8, <1>9, CallEnds

(* And it is ready. *)
LEMMA WaitDbRecovers ==
  ASSUME InOrder, InOrder', NEW r \in Runs, Recoverable(r), Excusable(r)', WaitDb(r)
  PROVE  Recovers(r)
<1>1. PICK l : l = loc[r] /\ pc[r] = "wait_db" /\ AppSide(r, l, "wait_db") /\ DbSide(r, l, "wait_db")
  BY DEF Recoverable, WaitDb, At
<1>2. PICK c : c = Replacement(r) /\ c \in Ids /\ Role(c) = "db" /\ On(c)
  <2>1. Replacement(r) \in Ids /\ Role(Replacement(r)) = "db"
    BY IdsOf
  <2> QED BY <1>1, <2>1 DEF DbSide
<1>3. PICK m : m = [l EXCEPT !.db = c] /\ Wait(r, c, m, "create_new", "raise")
  BY <1>1, <1>2 DEF WaitDb
<1>4. /\ IInv /\ loc[r] \in Local /\ pc[r] \in Active /\ pc[r] \in Rollout /\ HasDbName(c) /\ Healthy(c)
  <2>1. pc[r] \in Active /\ pc[r] \in Rollout
    BY <1>1 DEF Active, Rollout
  <2> QED BY <1>1, <1>2, <2>1, WhatRunKnows DEF InOrder, Known, DbKnown, Replaced, Healthy
<1>5. host' = host /\ (Done(r, m, "create_new") \/ (Fails(r) /\ \E kind : Mishappens(r, kind)))
  BY <1>3, <1>4, WaitEnds
<1>6. CASE Done(r, m, "create_new")
  <2>1. m.old = l.old /\ m.db = c /\ m.new = l.new /\ m.stopped = l.stopped /\ m.renamed = l.renamed
    BY <1>1, <1>3, <1>4 DEF Local
  <2>2. DbSide(r, m, "create_new")'
    BY <1>2, <1>4, <1>5, <2>1 DEF DbSide, Aside, Replaced, BeforeRename, Before, Exists, On, HasDbName
  <2>3. "wait_db" \in Between /\ "create_new" \in Between /\ "create_new" \notin Handled
    BY DEF Between, Rollout, Handled
  <2>4. Concerns(c)
    BY <1>5 DEF Concerns
  <2> QED BY <1>1, <1>2, <1>6, <2>1, <2>2, <2>3, <2>4, DbMoves DEF Done
<1>7. CASE Fails(r) /\ \E kind : Mishappens(r, kind)
  <2>1. Erred(r)'
    BY <1>4, <1>7 DEF Mishappens
  <2> QED BY <1>1, <1>4, <1>5, <1>7, <2>1, BothStay, FailsInRollout
<1> QED BY <1>5, <1>6, <1>7

(* The replacement is looked at, halted and deleted. *)
LEMMA ReplacementGoes ==
  ASSUME InOrder, InOrder', NEW r \in Runs, Recoverable(r), Excusable(r)', mishaps[r] \subseteq mishaps'[r],
         LookDb(r) \/ HaltDb(r) \/ DeleteDb(r)
  PROVE  Recovers(r)
<1>1. PICK l, p :
        /\ l = loc[r] /\ pc[r] = p /\ AppSide(r, l, p) /\ DbSide(r, l, p) /\ p \in {"look_db", "halt_db", "delete_db"}
  BY DEF Recoverable, LookDb, HaltDb, DeleteDb, At
<1>2. PICK d, c :
        /\ d = l.db /\ d \in Ids /\ Role(d) = "db" /\ Exists(d) /\ ~On(d) /\ c = Replacement(r)
        /\ ~OwnedByOthers(host.box[d].port, c) /\ c \in Ids /\ Role(c) = "db"
  <2>1. Replacement(r) \in Ids /\ Role(Replacement(r)) = "db"
    BY IdsOf
  <2> QED BY <1>1, <2>1 DEF DbSide, Aside, Replaced
<1>3. /\ IInv /\ HostOK /\ pc[r] \in Active /\ d # c /\ HasDbName(c) /\ l.renamed_db /\ l.replacement = c
  <2>1. pc[r] \in Active
    BY <1>1 DEF Active, UndoRollout
  <2> QED BY <1>1, <1>2, <2>1, WhatRunKnows DEF InOrder, Known, DbKnown, Replaced
<1>4. Erred(r)' /\ \A kind : ~Mishappens(r, kind)
  BY <1>1, NoOtherMishap DEF Handled
<1>5. p \in Between /\ {"halt_db", "delete_db", "rename_db_back"} \subseteq Between
  BY <1>1 DEF Between, UndoRollout
<1>6. CASE LookDb(r)
  <2>1. PICK q : /\ q = IF On(c) THEN "halt_db" ELSE "delete_db"
                 /\ Call(r, Exists(c), host, l, q)
    BY <1>1, <1>3, <1>6 DEF LookDb, Ask
  <2>2. host' = host /\ Done(r, l, q)
    BY <1>3, <1>4, <2>1, CallEnds DEF HasDbName
  <2>3. ~On(c) => ~OwnedByOthers(host.box[d].port, None)
    BY <1>2 DEF OwnedByOthers, Publishes
  <2>4. DbSide(r, l, q)'
    <3>1. DbSide(r, l, q)
      BY <1>2, <2>1, <2>3 DEF DbSide, Aside, Replaced, BeforeRename, Before
    <3> QED BY <2>2, <3>1 DEF DbSide, OwnedByOthers, Publishes, On, Exists, Free
  <2>5. Concerns(c)
    BY <2>2 DEF Concerns
  <2>6. q \in Between
    BY <1>5, <2>1
  <2> QED BY <1>1, <1>2, <1>4, <1>5, <2>2, <2>4, <2>5, <2>6, DbMoves DEF Done
<1>7. CASE HaltDb(r) \/ DeleteDb(r)
  <2>1. PICK q : /\ \/ host' = Stop(c) /\ q = "delete_db"
                    \/ host' = Delete(c) /\ ~On(c) /\ q = "rename_db_back"
                 /\ Done(r, l, q)
    <3>1. CASE HaltDb(r)
      <4>1. Call(r, CanStop(c), Stop(c), l, "delete_db") /\ CanStop(c)
        BY <1>1, <1>2, <1>3, <3>1 DEF HaltDb, At, DbSide, CanStop
      <4>2. host' = Stop(c) /\ Done(r, l, "delete_db")
        BY <1>3, <1>4, <4>1, CallEnds
      <4>3. PICK q : q = "delete_db"
        OBVIOUS
      <4> QED BY <4>2, <4>3
    <3>2. CASE DeleteDb(r)
      <4>1. RestoreDb(l) = "rename_db_back" /\ ~On(c)
        BY <1>1, <1>2, <1>3, <3>2 DEF RestoreDb, DeleteDb, At, DbSide
      <4>2. Call(r, CanDelete(c), Delete(c), l, "rename_db_back") /\ CanDelete(c)
        BY <1>1, <1>3, <3>2, <4>1 DEF DeleteDb, CanDelete, HasDbName
      <4> QED BY <1>3, <1>4, <4>1, <4>2, CallEnds
    <3> QED BY <1>7, <3>1, <3>2
  <2>2. Concerns(c) /\ (host'.box[c] = None \/ ~host'.box[c].on) /\ (q = "rename_db_back" => host'.box[c] = None)
    BY <1>2, <1>3, <2>1, StopKeeps, DeleteKeeps DEF HasDbName
  <2>3. host'.box[d] = host.box[d] /\ ~On(c)'
    BY <1>2, <1>3, <2>2 DEF Concerns, On, Exists
  <2>4. ~OwnedByOthers(host.box[d].port, c)' /\ ~OwnedByOthers(host.box[d].port, None)'
    <3>1. PICK n : n = host.box[d].port
      OBVIOUS
    <3>2. ~OwnedByOthers(n, c)'
      BY <1>2, <2>2, <3>1, PortStays
    <3> QED BY <2>3, <3>1, <3>2 DEF OwnedByOthers, Publishes
  <2>5. q = "rename_db_back" => Free(DbName)'
    <3> SUFFICES ASSUME q = "rename_db_back", NEW b \in Ids, Exists(b)', host'.box[b].name = DbName PROVE FALSE
      BY DEF Free
    <3>1. b # c
      BY <2>2 DEF Exists
    <3>2. Exists(b) /\ host.box[b].name = DbName
      BY <2>2, <3>1 DEF Concerns, Exists
    <3> QED BY <1>2, <1>3, <3>1, <3>2 DEF HostOK, NamesApart, HasDbName
  <2>6. DbSide(r, l, q)'
    BY <1>2, <2>1, <2>3, <2>4, <2>5 DEF DbSide, Aside, Replaced, BeforeRename, Before, Exists, On
  <2>7. q \in Between
    BY <1>5, <2>1
  <2> QED BY <1>1, <1>2, <1>4, <1>5, <2>1, <2>2, <2>6, <2>7, DbMoves DEF Done
<1> QED BY <1>6, <1>7

(* The old database has its name again. *)
LEMMA RenameDbBackRecovers ==
  ASSUME InOrder, InOrder', NEW r \in Runs, Recoverable(r), Excusable(r)', mishaps[r] \subseteq mishaps'[r],
         RenameDbBack(r)
  PROVE  Recovers(r)
<1>1. PICK l : l = loc[r] /\ pc[r] = "rename_db_back" /\ AppSide(r, l, "rename_db_back") /\ DbSide(r, l, "rename_db_back")
  BY DEF Recoverable, RenameDbBack, At
<1>2. PICK d : d = l.db /\ d \in Ids /\ Role(d) = "db" /\ Exists(d) /\ ~On(d) /\ Free(DbName)
               /\ ~OwnedByOthers(host.box[d].port, None)
  BY <1>1 DEF DbSide, Aside
<1>3. IInv /\ HostOK /\ CanRename(d, DbName)
  <2>1. pc[r] \in Active
    BY <1>1 DEF Active, UndoRollout
  <2> QED BY <1>2, <2>1, WhatRunKnows, FreeName DEF InOrder, CanRename
<1>4. \A kind : ~Mishappens(r, kind)
  BY <1>1, NoOtherMishap DEF Handled
<1>5. host' = Rename(d, DbName) /\ Done(r, l, "restart_db")
  <2>1. Call(r, CanRename(d, DbName), Rename(d, DbName), l, "restart_db")
    BY <1>1, <1>2 DEF RenameDbBack
  <2> QED BY <1>3, <1>4, <2>1, CallEnds
<1>6. /\ Concerns(d) /\ host'.box[d] # None /\ host'.box[d].name = DbName /\ host'.box[d].port = host.box[d].port
  BY <1>2, <1>3, <1>5, RenameKeeps, NamesDiffer
<1>7. ~OwnedByOthers(host.box[d].port, d)'
  <2>1. PICK n : n = host.box[d].port
    OBVIOUS
  <2>2. ~OwnedByOthers(n, d)
    BY <1>2, <2>1, NoneAssumption DEF OwnedByOthers
  <2>3. ~OwnedByOthers(n, d)'
    BY <1>6, <2>2, PortStays
  <2> QED BY <1>6, <2>1, <2>3
<1>8. DbSide(r, l, "restart_db")'
  BY <1>2, <1>6, <1>7 DEF DbSide, Aside, Replaced, BeforeRename, Before, Exists
<1>9. "rename_db_back" \in Between /\ "restart_db" \in Between /\ "restart_db" \notin Handled
  BY DEF Between, UndoRollout, Handled
<1> QED BY <1>1, <1>2, <1>5, <1>6, <1>8, <1>9, DbMoves DEF Done

(* It runs again, if it was stopped. *)
LEMMA RestartDbRecovers ==
  ASSUME InOrder, InOrder', NEW r \in Runs, Recoverable(r), Excusable(r)', RestartDb(r)
  PROVE  Recovers(r)
<1>1. PICK l : l = loc[r] /\ pc[r] = "restart_db" /\ AppSide(r, l, "restart_db") /\ DbSide(r, l, "restart_db")
  BY DEF Recoverable, RestartDb, At
<1>2. PICK d : d = l.db /\ d \in Ids /\ Role(d) = "db" /\ Exists(d) /\ host.box[d].name = DbName
               /\ ~OwnedByOthers(host.box[d].port, d)
  BY <1>1 DEF DbSide, Aside, Replaced
<1>3. IInv /\ HostOK /\ pc[r] \in UndoRollout
  <2>1. pc[r] \in Active /\ pc[r] \in UndoRollout
    BY <1>1 DEF Active, UndoRollout
  <2> QED BY <2>1, WhatRunKnows DEF InOrder
<1>4. Call(r, CanStart(d), Start(d), l, "rewait_db")
  BY <1>1, <1>2 DEF RestartDb
<1>5. <<pc[r], "error">> \in Unrecovered
  BY <1>1 DEF Unrecovered
<1>6. CanStart(d) <=> ~On(d)
  BY <1>2 DEF CanStart, OwnedByOthers
<1>7. "restart_db" \in Between /\ "rewait_db" \in Between /\ "rewait_db" \notin Handled
  BY DEF Between, UndoRollout, Handled
<1>8. CASE On(d)
  <2>1. host' = host /\ Fails(r)
    <3>1. ~CanStart(d) /\ ~Mishappens(r, "error")
      BY <1>5, <1>6, <1>8 DEF Mishappens
    <3> QED BY <1>3, <1>4, <3>1, CallEnds
  <2>2. AppSide(r, l, "restart_db")' /\ DbSide(r, l, "restart_db")' /\ On(d)'
    BY <1>1, <1>8, <2>1, BothStay DEF On, Exists
  <2>3. AppSide(r, l, "rewait_db")'
    BY <2>2 DEF AppSide, Between, UndoRollout, StillUp, Before, WithNew
  <2>4. DbSide(r, l, "rewait_db")'
    BY <1>2, <2>2 DEF DbSide, Aside, Replaced, BeforeRename, Before
  <2> QED BY <1>1, <1>3, <2>1, <2>3, <2>4, FailsInSwitch
<1>9. CASE host' = Start(d) /\ CanStart(d)
  <2>1. Concerns(d) /\ host'.box[d] # None /\ host'.box[d].on /\ host'.box[d].name = DbName
    BY <1>2, <1>3, <1>9, StartKeeps
  <2>2. DbSide(r, l, "rewait_db")'
    BY <1>2, <2>1 DEF DbSide, Aside, Replaced, BeforeRename, Before, Exists, On
  <2>3. CASE Done(r, l, "rewait_db")
    BY <1>1, <1>2, <1>7, <2>1, <2>2, <2>3, DbMoves DEF Done
  <2>4. CASE Fails(r)
    <3>1. AppSide(r, l, "restart_db")'
      BY <1>1, <1>2, <2>1, AppFrame
    <3>2. AppSide(r, l, "rewait_db")'
      BY <3>1 DEF AppSide, Between, UndoRollout, StillUp, Before, WithNew
    <3> QED BY <1>1, <1>3, <2>2, <2>4, <3>2, FailsInSwitch
  <2>5. Done(r, l, "rewait_db") \/ Fails(r)
    BY <1>3, <1>4, CallEnds
  <2> QED BY <2>3, <2>4, <2>5
<1> QED BY <1>3, <1>4, <1>5, <1>6, <1>8, <1>9, CallEnds DEF Mishappens

(* It is waited for, and the handler of the switch follows in any case. *)
LEMMA RewaitDbRecovers ==
  ASSUME InOrder, InOrder', NEW r \in Runs, Recoverable(r), Excusable(r)', RewaitDb(r)
  PROVE  Recovers(r)
<1>1. PICK l : l = loc[r] /\ pc[r] = "rewait_db" /\ AppSide(r, l, "rewait_db") /\ DbSide(r, l, "rewait_db")
  BY DEF Recoverable, RewaitDb, At
<1>2. Healthy(l.db)
  BY <1>1 DEF DbSide, Aside, Replaced, Healthy
<1>3. pc[r] \in UndoRollout /\ pc[r] \in Active \ {"record"} /\ IInv
  BY <1>1 DEF Active, UndoRollout, InOrder
<1>4. Wait(r, l.db, l, UndoSwitch(l), "raise")
  BY <1>1 DEF RewaitDb
<1>5. Handler(r) = UndoSwitch(l)
  BY <1>1, <1>3, HandlerPlaces
<1>6. host' = host /\ (Done(r, l, UndoSwitch(l)) \/ Fails(r))
  BY <1>2, <1>3, <1>4, WaitEnds
<1>7. Fails(r)
  BY <1>1, <1>5, <1>6 DEF Done, Fails
<1> QED BY <1>1, <1>3, <1>6, <1>7, BothStay, FailsInSwitch
(* Once the database is in place, or back, only apps are moved.            *)
Late == {"create_new", "start_new", "wait_new", "public", "record"} \cup Undo

LEMMA AppMoves ==
  ASSUME InOrder, InOrder', NEW r \in Runs, NEW l, NEW p \in Late, DbSide(r, l, p),
         NEW c \in Ids, Concerns(c), Role(c) = "app", NEW m, m.db = l.db, NEW q \in Late
  PROVE  DbSide(r, m, q)' /\ q \in Active
<1>1. DbSide(r, l, p)'
  BY DbFrame
<1>2. /\ p \notin Aside \cup {"rename_db", "restart_db"} /\ q \notin Aside \cup {"rename_db", "restart_db"}
      /\ q \notin BeforeRename \cup {"create_db", "replace_db"} /\ q \in Active
  BY DEF Late, Undo, Aside, Replaced, BeforeRename, Before, Active, Switch
<1> QED BY <1>1, <1>2 DEF DbSide, Aside, Replaced

(* An app that publishes nothing does not run. *)
LEMMA AppIsOff ==
  ASSUME InOrder, NEW c \in Ids, Exists(c), Role(c) = "app"
  PROVE  /\ host.box[c].port = "app" /\ "app" # None /\ c # None
         /\ ~OwnedByOthers("app", None) => ~On(c) /\ CanStart(c)
<1>1. host.box[c].port = "app" /\ "app" # None /\ c # None
  BY PortsAssumption, NoneAssumption DEF InOrder, Tidy, PortsFit, PortFits
<1>2. ~OwnedByOthers("app", None) => ~On(c) /\ CanStart(c)
  BY <1>1, NoneAssumption DEF OwnedByOthers, Publishes, CanStart
<1> QED BY <1>1, <1>2

(* The new app is made. *)
LEMMA CreateNewRecovers ==
  ASSUME InOrder, InOrder', NEW r \in Runs, Recoverable(r), Excusable(r)', CreateNew(r)
  PROVE  Recovers(r)
<1>1. PICK l : l = loc[r] /\ pc[r] = "create_new" /\ AppSide(r, l, "create_new") /\ DbSide(r, l, "create_new")
  BY DEF Recoverable, CreateNew, At
<1>2. PICK o, c :
        /\ o = l.old /\ o \in Ids /\ Role(o) = "app" /\ Exists(o) /\ Free(AppName) /\ ~OwnedByOthers("app", None)
        /\ c = New(r) /\ c \in Ids /\ Role(c) = "app" /\ c[1] = r /\ l.stopped /\ l.renamed
  <2>1. New(r) \in Ids /\ Role(New(r)) = "app" /\ New(r)[1] = r
    BY IdsOf
  <2> QED BY <1>1, <2>1 DEF AppSide, Between, StillUp, Before, WithNew
<1>3. PICK m, box : /\ m = [l EXCEPT !.new = c] /\ box = Image(r, AppName, "app")
                    /\ Call(r, CanCreate(AppName), Create(c, box), m, "start_new")
  BY <1>1, <1>2 DEF CreateNew
<1>4. /\ IInv /\ loc[r] \in Local /\ HostOK /\ pc[r] \in Switch \ {"stop_old"} /\ o # c /\ CanCreate(AppName)
  <2>1. pc[r] \in Active /\ pc[r] \in Switch \ {"stop_old"}
    BY <1>1 DEF Active, Switch
  <2>2. CanCreate(AppName)
    BY <1>2, FreeName DEF CanCreate
  <2>3. o # None
    BY <1>2, NoneAssumption
  <2> QED BY <1>1, <1>2, <2>1, <2>2, <2>3, WhatRunKnows DEF InOrder
<1>5. <<pc[r], "lost">> \in Unrecovered
  BY <1>1 DEF Unrecovered
<1>6. CASE host' = Create(c, box) /\ Done(r, m, "start_new")
  <2>1. box \in Containers /\ ~box.on /\ box.name = AppName
    BY <1>3, <1>4, NamesDiffer DEF Containers, Image, Local
  <2>2. Concerns(c) /\ host'.box[c] # None /\ ~host'.box[c].on /\ host'.box[c].name = AppName
    BY <1>2, <1>4, <1>6, <2>1, CreateEffect, NoneAssumption DEF HostOK
  <2>3. m.old = o /\ m.db = l.db /\ m.new = c /\ m.stopped /\ m.renamed
    BY <1>1, <1>2, <1>3, <1>4 DEF Local
  <2>4. host'.box[o] = host.box[o]
    BY <1>2, <1>4, <2>2 DEF Concerns
  <2>5. ~OwnedByOthers("app", None)'
    BY <1>2, <2>2, PortStays
  <2>6. AppSide(r, m, "start_new")'
    BY <1>2, <2>2, <2>3, <2>4, <2>5 DEF AppSide, StillUp, Before, Between, Rollout, UndoRollout, WithNew, Exists
  <2>7. "create_new" \in Late /\ "start_new" \in Late /\ "start_new" \notin Handled
    BY DEF Late, Handled
  <2>8. DbSide(r, m, "start_new")' /\ "start_new" \in Active
    BY <1>1, <1>2, <2>2, <2>3, <2>7, AppMoves
  <2> QED BY <1>6, <2>6, <2>7, <2>8, Arrives DEF Done
<1>7. CASE host' = host /\ Fails(r)
  BY <1>1, <1>4, <1>7, BothStay, FailsInSwitch
<1> QED BY <1>3, <1>4, <1>5, <1>6, <1>7, CallEnds DEF Mishappens

(* And started. *)
LEMMA StartNewRecovers ==
  ASSUME InOrder, InOrder', NEW r \in Runs, Recoverable(r), Excusable(r)', StartNew(r)
  PROVE  Recovers(r)
<1>1. PICK l : l = loc[r] /\ pc[r] = "start_new" /\ AppSide(r, l, "start_new") /\ DbSide(r, l, "start_new")
  BY DEF Recoverable, StartNew, At
<1>2. PICK o, c :
        /\ o = l.old /\ o \in Ids /\ Role(o) = "app" /\ Exists(o) /\ ~OwnedByOthers("app", None)
        /\ c = New(r) /\ c \in Ids /\ Role(c) = "app" /\ c[1] = r /\ Exists(c) /\ host.box[c].name = AppName
        /\ l.new = c /\ l.stopped /\ l.renamed
  <2>1. New(r) \in Ids /\ Role(New(r)) = "app" /\ New(r)[1] = r
    BY IdsOf
  <2> QED BY <1>1, <2>1 DEF AppSide, StillUp, Before, WithNew
<1>3. Call(r, CanStart(c), Start(c), l, "wait_new")
  BY <1>1, <1>2 DEF StartNew
<1>4. /\ IInv /\ HostOK /\ pc[r] \in Switch \ {"stop_old"} /\ o # c /\ CanStart(c)
  <2>1. pc[r] \in Active /\ pc[r] \in Switch \ {"stop_old"}
    BY <1>1 DEF Active, Switch
  <2>2. o # None
    BY <1>2, NoneAssumption
  <2> QED BY <1>1, <1>2, <2>1, <2>2, AppIsOff, WhatRunKnows DEF InOrder
<1>5. <<pc[r], "error">> \in Unrecovered
  BY <1>1 DEF Unrecovered
<1>6. ASSUME host' = Start(c) PROVE AppSide(r, l, "wait_new")' /\ DbSide(r, l, "wait_new")'
  <2>2. Concerns(c) /\ host'.box[c] # None /\ host'.box[c].on /\ host'.box[c].name = AppName
    BY <1>2, <1>4, <1>6, StartKeeps
  <2>4. host'.box[o] = host.box[o]
    BY <1>2, <1>4, <2>2 DEF Concerns
  <2>5. ~OwnedByOthers("app", c)'
    <3>1. ~OwnedByOthers("app", c)
      BY <1>2, NoneAssumption DEF OwnedByOthers
    <3> QED BY <2>2, <3>1, PortStays
  <2>6. AppSide(r, l, "wait_new")'
    BY <1>2, <2>2, <2>4, <2>5 DEF AppSide, StillUp, Before, Between, Rollout, UndoRollout, WithNew, Exists, On
  <2>7. "start_new" \in Late /\ "wait_new" \in Late
    BY DEF Late
  <2> QED BY <1>1, <1>2, <2>2, <2>6, <2>7, AppMoves
<1>7. CASE host' = Start(c) /\ Done(r, l, "wait_new")
  <2>1. "wait_new" \in Active /\ "wait_new" \notin Handled
    BY DEF Active, Switch, Handled
  <2> QED BY <1>6, <1>7, <2>1, Arrives DEF Done
<1>8. CASE host' = Start(c) /\ Fails(r) /\ Mishappens(r, "lost")
  BY <1>1, <1>4, <1>6, <1>8, FailsInSwitch DEF Mishappens
<1> QED BY <1>3, <1>4, <1>5, <1>7, <1>8, CallEnds DEF Mishappens

(* It is waited for, in the network and from outside. *)
LEMMA NewWaitRecovers ==
  ASSUME InOrder, InOrder', NEW r \in Runs, Recoverable(r), Excusable(r)', WaitNew(r) \/ Public(r)
  PROVE  Recovers(r)
<1>1. PICK l, p, q :
        /\ l = loc[r] /\ p = pc[r] /\ AppSide(r, l, p) /\ DbSide(r, l, p)
        /\ \/ p = "wait_new" /\ q = "public"
           \/ p = "public" /\ q = "record"
        /\ Wait(r, New(r), l, q, "raise")
  BY DEF Recoverable, WaitNew, Public, At
<1>2. /\ p \in WithNew /\ q \in WithNew /\ p \notin Aside \cup {"rename_db", "restart_db"} /\ p \in Late /\ q \in Late
      /\ q \in Active /\ q \notin Handled /\ pc[r] \in Switch \ {"stop_old"}
      /\ p \notin StillUp /\ q \notin StillUp \cup Between \cup {"rename_old", "restart_old", "rename_back"}
  BY <1>1 DEF WithNew, Aside, Replaced, Late, Active, Switch, Handled, StillUp, Before, Between, Rollout, UndoRollout
<1>3. Healthy(New(r))
  <2>1. Exists(New(r)) /\ On(New(r)) /\ New(r) \in Ids /\ Role(New(r)) = "app"
    BY <1>2, IdsOf, <1>1 DEF AppSide
  <2>2. l.db \in Named(DbName) /\ On(l.db)
    BY <1>1, <1>2 DEF DbSide, Named
  <2>3. host.box[New(r)].key = host.volume
    BY <2>1 DEF InOrder, IInv, AppsFit
  <2> QED BY <2>1, <2>2, <2>3 DEF Healthy
<1>4. host' = host /\ (Done(r, l, q) \/ (Fails(r) /\ \E kind : Mishappens(r, kind)))
  BY <1>1, <1>3, WaitEnds DEF InOrder
<1>5. AppSide(r, l, p)' /\ DbSide(r, l, p)'
  BY <1>1, <1>4, BothStay
<1>6. CASE Done(r, l, q)
  <2>1. AppSide(r, l, q)'
    BY <1>2, <1>5 DEF AppSide
  <2>2. DbSide(r, l, q)'
    BY <1>1, <1>5 DEF DbSide, Aside, Replaced, BeforeRename, Before
  <2> QED BY <1>2, <1>6, <2>1, <2>2, Arrives DEF Done
<1>7. CASE Fails(r) /\ \E kind : Mishappens(r, kind)
  <2>1. Erred(r)'
    BY <1>2, <1>7 DEF Mishappens
  <2> QED BY <1>1, <1>2, <1>5, <1>7, <2>1, FailsInSwitch
<1> QED BY <1>4, <1>6, <1>7

(* The record is written, and the new app is up. *)
LEMMA RecordRecovers ==
  ASSUME InOrder, InOrder', NEW r \in Runs, Recoverable(r), Record(r)
  PROVE  Recovers(r)
<1>1. PICK l : l = loc[r] /\ AppSide(r, l, "record") /\ DbSide(r, l, "record") /\ host' = host /\ pc'[r] = "done"
  BY DEF Recoverable, Record, Go, InOrder, IInv, TypeOK
<1>2. AppSide(r, l, "record")' /\ DbSide(r, l, "record")'
  BY <1>1, BothStay
<1>3. /\ New(r) \in Ids /\ On(New(r))' /\ host'.box[New(r)].name = AppName
      /\ l.db \in Ids /\ On(l.db)' /\ host'.box[l.db].name = DbName
  BY <1>2, IdsOf DEF AppSide, DbSide, WithNew, Aside, Replaced
<1>4. AppUp'
  BY <1>3, UpWithDb
<1>5. "done" \notin Active
  BY DEF Active, Before, Switch, Rollout, UndoRollout, Undo
<1> QED BY <1>1, <1>4, <1>5 DEF Recovers

(* The new app is halted, and deleted. *)
LEMMA NewGoes ==
  ASSUME InOrder, InOrder', NEW r \in Runs, Recoverable(r), Excusable(r)', mishaps[r] \subseteq mishaps'[r],
         HaltNew(r) \/ DeleteNew(r)
  PROVE  Recovers(r)
<1>1. PICK l, p : l = loc[r] /\ pc[r] = p /\ AppSide(r, l, p) /\ DbSide(r, l, p) /\ p \in {"halt_new", "delete_new"}
  BY DEF Recoverable, HaltNew, DeleteNew, At
<1>2. PICK o, c :
        /\ o = l.old /\ o \in Ids /\ Role(o) = "app" /\ Exists(o) /\ l.stopped /\ l.renamed
        /\ c = New(r) /\ c \in Ids /\ Role(c) = "app" /\ c[1] = r /\ Exists(c) /\ host.box[c].name = AppName
        /\ l.new = c
        /\ p = "halt_new" => On(c) /\ ~OwnedByOthers("app", c)
        /\ p = "delete_new" => ~OwnedByOthers("app", None)
  <2>1. New(r) \in Ids /\ Role(New(r)) = "app" /\ New(r)[1] = r
    BY IdsOf
  <2>2. /\ p \in WithNew \cup {"start_new", "delete_new"} /\ p \notin StillUp
        /\ "halt_new" \in WithNew /\ "delete_new" \notin StillUp \cup WithNew
    BY <1>1 DEF WithNew, StillUp, Before
  <2> QED BY <1>1, <2>1, <2>2 DEF AppSide
<1>3. /\ IInv /\ HostOK /\ o # c /\ o # None
  <2>1. pc[r] \in Active
    BY <1>1 DEF Active, Undo
  <2>2. o # None
    BY <1>2, NoneAssumption
  <2> QED BY <1>1, <1>2, <2>1, <2>2, WhatRunKnows DEF InOrder
<1>4. Erred(r)' /\ \A kind : ~Mishappens(r, kind)
  BY <1>1, NoOtherMishap DEF Handled
<1>5. PICK q : /\ \/ p = "halt_new" /\ host' = Stop(c) /\ q = "delete_new"
                  \/ p = "delete_new" /\ host' = Delete(c) /\ q = "rename_back"
               /\ Done(r, l, q)
  <2>1. CASE HaltNew(r)
    <3>1. p = "halt_new" /\ Call(r, CanStop(c), Stop(c), l, "delete_new") /\ CanStop(c)
      BY <1>1, <1>2, <2>1 DEF HaltNew, At, CanStop
    <3>2. host' = Stop(c) /\ Done(r, l, "delete_new")
      BY <1>3, <1>4, <3>1, CallEnds
    <3>3. PICK q : q = "delete_new"
      OBVIOUS
    <3> QED BY <3>1, <3>2, <3>3
  <2>2. CASE DeleteNew(r)
    <3>1. p = "delete_new" /\ Call(r, CanDelete(c), Delete(c), l, "rename_back")
      BY <1>1, <1>2, <1>3, <2>2 DEF DeleteNew, At, Restore
    <3>2. CanDelete(c)
      BY <1>2, <3>1, AppIsOff DEF CanDelete
    <3>3. host' = Delete(c) /\ Done(r, l, "rename_back")
      BY <1>3, <1>4, <3>1, <3>2, CallEnds
    <3>4. PICK q : q = "rename_back"
      OBVIOUS
    <3> QED BY <3>1, <3>3, <3>4
  <2> QED BY <2>1, <2>2
<1>6. /\ Concerns(c) /\ (q = "delete_new" => host'.box[c] # None /\ ~host'.box[c].on /\ host'.box[c].name = AppName)
      /\ (q = "rename_back" => host'.box[c] = None)
  BY <1>2, <1>3, <1>5, StopKeeps, DeleteKeeps
<1>7. host'.box[o] = host.box[o]
  BY <1>2, <1>3, <1>6 DEF Concerns
<1>8. ~OwnedByOthers("app", None)'
  <2>1. ~OwnedByOthers("app", c)
    BY <1>1, <1>2, NoneAssumption DEF OwnedByOthers
  <2>2. ~OwnedByOthers("app", c)'
    BY <1>6, <2>1, PortStays
  <2>3. ~On(c)'
    BY <1>5, <1>6 DEF On, Exists
  <2> QED BY <2>2, <2>3 DEF OwnedByOthers, Publishes
<1>9. q = "rename_back" => Free(AppName)'
  <2> SUFFICES ASSUME q = "rename_back", NEW b \in Ids, Exists(b)', host'.box[b].name = AppName PROVE FALSE
    BY DEF Free
  <2>1. b # c
    BY <1>6 DEF Exists
  <2>2. Exists(b) /\ host.box[b].name = AppName
    BY <1>6, <2>1 DEF Concerns, Exists
  <2> QED BY <1>2, <1>3, <2>1, <2>2 DEF HostOK, NamesApart
<1>10. AppSide(r, l, q)'
  <2>1. CASE q = "delete_new"
    BY <1>2, <1>6, <1>7, <1>8, <2>1 DEF AppSide, StillUp, Before, Between, Rollout, UndoRollout, WithNew, Exists
  <2>2. CASE q = "rename_back"
    BY <1>2, <1>6, <1>7, <1>8, <1>9, <2>2 DEF AppSide, StillUp, Before, Between, Rollout, UndoRollout, WithNew, Exists
  <2> QED BY <1>5, <2>1, <2>2
<1>11. p \in Late /\ q \in Late
  BY <1>1, <1>5 DEF Late, Undo
<1>12. DbSide(r, l, q)' /\ q \in Active
  BY <1>1, <1>2, <1>6, <1>11, AppMoves
<1> QED BY <1>4, <1>5, <1>10, <1>12, Arrives DEF Done

(* The old app has its name again. *)
LEMMA RenameBackRecovers ==
  ASSUME InOrder, InOrder', NEW r \in Runs, Recoverable(r), Excusable(r)', RenameBack(r)
  PROVE  Recovers(r)
<1>1. PICK l : l = loc[r] /\ pc[r] = "rename_back" /\ AppSide(r, l, "rename_back") /\ DbSide(r, l, "rename_back")
  BY DEF Recoverable, RenameBack, At
<1>2. PICK o : o = l.old /\ o \in Ids /\ Role(o) = "app" /\ Exists(o) /\ l.stopped /\ Free(AppName)
               /\ ~OwnedByOthers("app", None)
  BY <1>1 DEF AppSide, StillUp, Before, WithNew
<1>3. IInv /\ HostOK /\ CanRename(o, AppName)
  <2>1. pc[r] \in Active
    BY <1>1 DEF Active, Undo
  <2> QED BY <1>2, <2>1, WhatRunKnows, FreeName DEF InOrder, CanRename
<1>4. ~Mishappens(r, "error") /\ ~Mishappens(r, "lost")
  BY <1>1 DEF Mishappens, Unrecovered
<1>5. host' = Rename(o, AppName) /\ Done(r, l, "restart_old")
  <2>1. Call(r, CanRename(o, AppName), Rename(o, AppName), l, "restart_old")
    BY <1>1, <1>2 DEF RenameBack
  <2> QED BY <1>3, <1>4, <2>1, CallEnds
<1>6. Concerns(o) /\ host'.box[o] # None /\ host'.box[o].name = AppName /\ host'.box[o].on = host.box[o].on
  BY <1>2, <1>3, <1>5, RenameKeeps, NamesDiffer
<1>7. ~OwnedByOthers("app", None)'
  <2>1. ~host'.box[o].on
    BY <1>2, <1>6, AppIsOff DEF On
  <2> QED BY <1>2, <1>6, <2>1, PortStays
<1>8. AppSide(r, l, "restart_old")'
  BY <1>2, <1>6, <1>7 DEF AppSide, StillUp, Before, Between, Rollout, UndoRollout, WithNew, Exists
<1>9. "rename_back" \in Late /\ "restart_old" \in Late /\ "restart_old" \notin Handled
  BY DEF Late, Undo, Handled
<1>10. DbSide(r, l, "restart_old")' /\ "restart_old" \in Active
  BY <1>1, <1>2, <1>6, <1>9, AppMoves
<1> QED BY <1>5, <1>8, <1>9, <1>10, Arrives DEF Done

(* And runs again. *)
LEMMA RestartOldRecovers ==
  ASSUME InOrder, InOrder', NEW r \in Runs, Recoverable(r), Excusable(r)', RestartOld(r)
  PROVE  Recovers(r)
<1>1. PICK l : l = loc[r] /\ pc[r] = "restart_old" /\ AppSide(r, l, "restart_old") /\ DbSide(r, l, "restart_old")
  BY DEF Recoverable, RestartOld, At
<1>2. PICK o : o = l.old /\ o \in Ids /\ Role(o) = "app" /\ Exists(o) /\ host.box[o].name = AppName
               /\ ~OwnedByOthers("app", None)
  BY <1>1 DEF AppSide, StillUp, Before, WithNew
<1>3. IInv /\ HostOK /\ CanStart(o) /\ pc[r] \in Active \ {"record"} /\ pc[r] \in Undo
  <2>1. pc[r] \in Active \ {"record"} /\ pc[r] \in Undo
    BY <1>1 DEF Active, Undo
  <2> QED BY <1>2, <2>1, AppIsOff, WhatRunKnows DEF InOrder
<1>4. ~Mishappens(r, "error")
  BY <1>1 DEF Mishappens, Unrecovered
<1>5. host' = Start(o) /\ pc'[r] = "failed"
  <2>1. Call(r, CanStart(o), Start(o), l, "failed")
    BY <1>1, <1>2 DEF RestartOld
  <2>2. Handler(r) = "failed"
    BY <1>3, HandlerPlaces
  <2> QED BY <1>3, <1>4, <2>1, <2>2, CallEnds DEF Done, Fails
<1>6. Concerns(o) /\ host'.box[o] # None /\ host'.box[o].on /\ host'.box[o].name = AppName
  BY <1>2, <1>3, <1>5, StartKeeps
<1>7. l.db \in Ids /\ On(l.db)' /\ host'.box[l.db].name = DbName
  <2>1. DbSide(r, l, "restart_old")'
    BY <1>1, <1>2, <1>6, DbFrame
  <2> QED BY <2>1 DEF DbSide, Aside, Replaced
<1>8. On(o)'
  BY <1>6 DEF On, Exists
<1>9. AppUp'
  BY <1>2, <1>6, <1>7, <1>8, UpWithDb
<1>10. "failed" \notin Active
  BY DEF Active, Before, Switch, Rollout, UndoRollout, Undo
<1> QED BY <1>5, <1>9, <1>10 DEF Recovers
(* What the first look finds up is in place. *)
LEMMA ListRecovers ==
  ASSUME InOrder, InOrder', NEW r \in Runs, List(r), pc'[r] \in Active \ {"list"}, loc'[r].up
  PROVE  Recoverable(r)'
<1> DEFINE up == AppUp
           obstacle == Obstacle(r)
<1>0. up \in BOOLEAN /\ obstacle \in BOOLEAN
  BY DEF AppUp, Healthy, Obstacle, OwnedByOthers
<1>1. PICK l : /\ l = [loc[r] EXCEPT !.old = Find(AppName), !.db = Find(DbName), !.up = up, !.obstacle = obstacle]
               /\ pc[r] = "list"
               /\ IF OwnedByOthers("app", l.old) \/ OwnedByOthers(PortOf[r], l.db)
                  THEN Go(r, "refused") /\ Keep(r, l) /\ UNCHANGED <<host, mishaps>>
                  ELSE Ask(r, TRUE, l, "storage")
  BY DEF List, At
<1> HIDE DEF up, obstacle
<1>2. pc[r] \in Active /\ pc[r] \in Active \ {"record"} /\ "failed" \notin Active /\ "refused" \notin Active
  BY <1>1 DEF Active, Before, Switch, Rollout, UndoRollout, Undo
<1>3. /\ IInv /\ HostOK /\ loc[r] = Fresh /\ Handler(r) = "failed"
  <2>1. loc[r] = Fresh
    BY <1>1 DEF InOrder, IInv, NotYet
  <2>2. Handler(r) = "failed"
    BY <1>1, <1>2, HandlerPlaces DEF Before
  <2> QED BY <1>2, <2>1, <2>2, WhatRunKnows DEF InOrder
<1>4. /\ host' = host /\ loc'[r] = l /\ pc'[r] = "storage"
      /\ ~OwnedByOthers("app", l.old) /\ ~OwnedByOthers(PortOf[r], l.db)
  <2>1. CASE OwnedByOthers("app", l.old) \/ OwnedByOthers(PortOf[r], l.db)
    <3>1. pc'[r] = "refused"
      BY <1>1, <1>3, <2>1 DEF Go, IInv, TypeOK
    <3> QED BY <1>2, <3>1
  <2>2. CASE ~(OwnedByOthers("app", l.old) \/ OwnedByOthers(PortOf[r], l.db))
    <3>1. Ask(r, TRUE, l, "storage")
      BY <1>1, <2>2
    <3>2. host' = host /\ ((Keep(r, l) /\ Go(r, "storage")) \/ Raise(r))
      BY <3>1 DEF Ask, Call
    <3>3. Raise(r) => pc'[r] = "failed"
      BY <1>3 DEF Raise, Go, IInv, TypeOK
    <3>4. Keep(r, l) /\ Go(r, "storage") => loc'[r] = l /\ pc'[r] = "storage"
      BY <1>3 DEF Keep, Go, IInv, TypeOK
    <3> QED BY <1>2, <2>2, <3>2, <3>3, <3>4
  <2> QED BY <2>1, <2>2
<1>5. /\ l.old = Find(AppName) /\ l.db = Find(DbName) /\ l.up = up /\ l.new = None
      /\ ~l.stopped /\ ~l.renamed
  BY <1>1, <1>3 DEF Fresh
<1>6. PICK a, d : a \in Named(AppName) /\ On(a) /\ Role(a) # "db" /\ d \in Named(DbName) /\ On(d)
  <2>1. AppUp
    BY <1>4, <1>5 DEF up
  <2>2. PICK a : a \in Named(AppName) /\ Healthy(a)
    BY <2>1 DEF AppUp
  <2>3. Role(a) # "db"
    BY <2>2 DEF InOrder, IInv, NamesFit, Named
  <2> QED BY <2>2, <2>3 DEF Healthy
<1>7. l.old = a /\ l.db = d
  <2>1. Find(AppName) \in Named(AppName) /\ Find(DbName) \in Named(DbName)
    BY <1>6 DEF Find
  <2> QED BY <1>3, <1>5, <1>6, <2>1 DEF HostOK, NamesApart, Named
<1>8. /\ a \in Ids /\ Role(a) = "app" /\ Exists(a) /\ host.box[a].name = AppName
      /\ d \in Ids /\ Role(d) = "db" /\ Exists(d) /\ host.box[d].name = DbName
  BY <1>6 DEF Named, InOrder, IInv, NamesFit
<1>9. /\ "storage" \in StillUp /\ "storage" \notin Between \cup WithNew \cup Aside \cup Handled
  BY DEF StillUp, Before, Between, WithNew, Aside, Replaced, Handled, Rollout, UndoRollout
<1>10. AppSide(r, l, "storage")
  BY <1>4, <1>5, <1>6, <1>7, <1>8, <1>9 DEF AppSide
<1>11. DbSide(r, l, "storage")
  BY <1>4, <1>6, <1>7, <1>8, <1>9 DEF DbSide, Aside, Replaced
<1>12. AppSide(r, l, "storage")' /\ DbSide(r, l, "storage")'
  BY <1>4, <1>10, <1>11, BothStay
<1> QED BY <1>4, <1>9, <1>12 DEF Recoverable

(* The app is up where the script is killed, or will not be. *)
LEMMA KilledRecovers ==
  ASSUME InOrder, InOrder', NEW r \in Runs, Recoverable(r), Excusable(r)', Killed(r), pc[r] # "list"
  PROVE  AppUp'
<1>1. PICK l, p : l = loc[r] /\ p = pc[r] /\ AppSide(r, l, p) /\ DbSide(r, l, p) /\ p \in Active \ {"list"}
  BY DEF Recoverable, Killed
<1>2. host' = host /\ Mishappens(r, "kill")
  BY MishapTells DEF Killed, InOrder
<1>3. p \notin Handled
  <2>1. p \in Handled => p \notin Switch \cup Rollout /\ Erred(r)
    BY <1>1 DEF Handled, Switch, Rollout, Recoverable
  <2> QED BY <1>1, <1>2, <2>1 DEF Mishappens
<1>4. p \in StillUp \cup {"wait_new", "public", "record"}
  <2>1. <<p, "kill">> \notin Unrecovered
    BY <1>1, <1>2 DEF Mishappens
  <2>2. p \notin {"rename_old", "inspect_db", "stop_db", "rename_db", "create_db", "replace_db", "wait_db", "create_new",
                  "start_new", "restart_db", "rewait_db", "rename_back", "restart_old"}
    BY <2>1 DEF Unrecovered
  <2> QED BY <1>1, <1>3, <2>2 DEF Active, Before, Switch, Rollout, UndoRollout, Undo, Handled, StillUp
<1>5. AppSide(r, l, p)' /\ DbSide(r, l, p)'
  BY <1>1, <1>2, BothStay
<1>6. l.db \in Ids /\ On(l.db)' /\ host'.box[l.db].name = DbName
  <2>1. p \notin Aside \cup {"rename_db", "restart_db"}
    BY <1>4 DEF StillUp, Before, Aside, Replaced
  <2> QED BY <1>5, <2>1 DEF DbSide
<1>7. PICK c \in Ids : On(c)' /\ host'.box[c].name = AppName
  <2>1. CASE p \in StillUp
    BY <1>5, <2>1 DEF AppSide
  <2>2. CASE p \in {"wait_new", "public", "record"}
    <3>1. p \in WithNew
      BY <2>2 DEF WithNew
    <3> QED BY <1>5, <3>1, IdsOf DEF AppSide
  <2> QED BY <1>4, <2>1, <2>2
<1> QED BY <1>6, <1>7, UpWithDb

(* All that a step adds to what went wrong. *)
Suffers(r) == mishaps' = mishaps \/ \E kind : Mishap(r, kind)

LEMMA CallSuffers ==
  ASSUME NEW r \in Runs, NEW possible, NEW after, NEW l, NEW place,
         Call(r, possible, after, l, place) \/ Ask(r, possible, l, place)
  PROVE  Suffers(r)
BY DEF Call, Ask, Suffers

LEMMA WaitSuffers ==
  ASSUME NEW r \in Runs, NEW c, NEW l, NEW yes, NEW no, Wait(r, c, l, yes, no)
  PROVE  Suffers(r)
BY DEF Wait, Suffers

LEMMA StepSuffers ==
  ASSUME NEW r \in Runs, Step(r)
  PROVE  Suffers(r)
<1>1. CASE \/ Storage(r) \/ DbCreate(r) \/ DbStart(r) \/ Load(r) \/ CandidateCreate(r) \/ CandidateStart(r)
           \/ CandidateStop(r) \/ CandidateDelete(r)
  BY <1>1, CallSuffers DEF Storage, DbCreate, DbStart, Load, CandidateCreate, CandidateStart, CandidateStop,
     CandidateDelete
<1>2. CASE \/ InspectDb(r) \/ StopDb(r) \/ RenameDb(r) \/ CreateDb(r) \/ ReplaceDb(r) \/ LookDb(r) \/ HaltDb(r)
           \/ DeleteDb(r) \/ RenameDbBack(r) \/ RestartDb(r)
  BY <1>2, CallSuffers DEF InspectDb, StopDb, RenameDb, CreateDb, ReplaceDb, LookDb, HaltDb, DeleteDb, RenameDbBack,
     RestartDb
<1>3. CASE \/ StopOld(r) \/ RenameOld(r) \/ CreateNew(r) \/ StartNew(r) \/ UndoSteps(r)
  BY <1>3, CallSuffers DEF StopOld, RenameOld, CreateNew, StartNew, UndoSteps, HaltNew, DeleteNew, RenameBack,
     RestartOld
<1>4. CASE DbWait(r) \/ CandidateWait(r) \/ WaitDb(r) \/ RewaitDb(r) \/ WaitNew(r) \/ Public(r)
  BY <1>4, WaitSuffers DEF DbWait, CandidateWait, WaitDb, RewaitDb, WaitNew, Public
<1>5. CASE Busy(r) \/ Record(r)
  BY <1>5 DEF Busy, Record, Suffers
<1>6. CASE List(r)
  <2>1. PICK l : Ask(r, TRUE, l, "storage") \/ UNCHANGED mishaps
    BY <1>6 DEF List
  <2> QED BY <2>1, CallSuffers DEF Suffers
<1> QED BY <1>1, <1>2, <1>3, <1>4, <1>5, <1>6 DEF Step, Prepare, EnsureDatabasePort, SwitchApp

(* Whatever a run does, it can be recovered from or the app is up. *)
LEMMA StepRecovers ==
  ASSUME InOrder, InOrder', NEW r \in Runs, Step(r), ~List(r), Recoverable(r), Excusable(r)'
  PROVE  Recovers(r)
<1>1. mishaps[r] \subseteq mishaps'[r]
  BY StepRemembers DEF Remembers, InOrder
<1>2. CASE Prepare(r)
  <2>1. pc[r] \in StillUp \ {"stop_old"}
    BY <1>2 DEF Prepare, StillUp, Before, At, Storage, DbCreate, DbStart, DbWait, Load, CandidateCreate, CandidateStart,
       CandidateWait, CandidateStop, CandidateDelete, Busy
  <2> QED BY <2>1, PreparesSafely
<1>3. CASE EnsureDatabasePort(r)
  BY <1>1, <1>3, InspectDbRecovers, StopDbRecovers, RenameDbRecovers, CreateDbRecovers, ReplaceDbRecovers, WaitDbRecovers,
     ReplacementGoes, RenameDbBackRecovers, RestartDbRecovers, RewaitDbRecovers DEF EnsureDatabasePort
<1>4. CASE SwitchApp(r)
  BY <1>4, StopOldRecovers, RenameOldRecovers, CreateNewRecovers, StartNewRecovers, NewWaitRecovers, RecordRecovers
     DEF SwitchApp
<1>5. CASE UndoSteps(r)
  BY <1>1, <1>5, NewGoes, RenameBackRecovers, RestartOldRecovers DEF UndoSteps
<1> QED BY <1>2, <1>3, <1>4, <1>5 DEF Step

(* Where others move, nothing changes for a run. *)
LEMMA RecoverableStays ==
  ASSUME NEW r \in Runs, Recoverable(r), host' = host, loc' = loc, pc'[r] = pc[r], mishaps' = mishaps
  PROVE  Recoverable(r)'
<1>1. AppSide(r, loc[r], pc[r])' /\ DbSide(r, loc[r], pc[r])'
  BY DEF Recoverable, AppSide, DbSide, OwnedByOthers, Publishes, On, Exists, Free
<1>2. Erred(r) => Erred(r)'
  BY DEF Erred
<1> QED BY <1>1, <1>2 DEF Recoverable

(* What holds on the way is kept, and the app is up again at the end. *)
LEMMA LastingKeeps ==
  ASSUME InOrder, InOrder', WaitInv, Lasting, [Next]_vars
  PROVE  /\ Lasting'
         /\ \A r \in Runs :
              pc[r] \in Active /\ pc'[r] \in Ended /\ loc[r].up /\ Excusable(r)' => AppUp'
<1>0. Active \cap (Ended \cup {"none"}) = {} /\ IInv /\ IInv'
  BY DEF Active, Before, Switch, Rollout, UndoRollout, Undo, Ended, InOrder
<1>1. CASE \E r \in Runs : Step(r)
  <2>1. PICK r \in Runs : Step(r)
    BY <1>1
  <2>2. pc[r] \in Active /\ \A q \in Runs \ {r} : pc'[q] = pc[q] /\ pc[q] \notin Active
    BY <1>0, <2>1, StepIsActive, StepIsConsiderate DEF Considerate, IInv, OneAtATime
  <2>3. CASE List(r)
    <3>1. pc[r] = "list" /\ ~loc[r].up
      BY <2>3 DEF List, At, InOrder, IInv, NotYet, Fresh
    <3>2. ASSUME NEW q \in Runs, pc'[q] \in Active \ {"list"}, loc'[q].up PROVE Recoverable(q)'
      <4>1. q = r
        BY <2>2, <3>2
      <4> QED BY <2>3, <3>2, <4>1, ListRecovers
    <3> QED BY <2>2, <3>1, <3>2 DEF Lasting
  <2>4. CASE ~List(r)
    <3>1. mishaps[r] \subseteq mishaps'[r] /\ loc'[r].up = loc[r].up
      BY <1>0, <2>1, <2>4, StepRemembers DEF Remembers, SameLook
    <3>2. pc[r] # "list"
      BY <2>1, <2>4, StepPlaces
    <3>3. loc[r].up /\ Excusable(r)' => Recovers(r)
      <4>1. Excusable(r)' => Excusable(r)
        BY <3>1 DEF Excusable
      <4>2. loc[r].up /\ Excusable(r) => Recoverable(r)
        BY <2>2, <3>2 DEF Lasting
      <4> QED BY <2>1, <2>4, <4>1, <4>2, StepRecovers
    <3>4. ASSUME NEW q \in Runs, pc'[q] \in Active \ {"list"}, loc'[q].up, Excusable(q)' PROVE Recoverable(q)'
      <4>1. q = r
        BY <2>2, <3>4
      <4> QED BY <3>1, <3>3, <3>4, <4>1 DEF Recovers
    <3>5. ASSUME NEW q \in Runs, pc[q] \in Active, pc'[q] \in Ended, loc[q].up, Excusable(q)' PROVE AppUp'
      <4>1. q = r
        BY <2>2, <3>5
      <4> QED BY <3>3, <3>5, <4>1 DEF Recovers
    <3> QED BY <3>4, <3>5 DEF Lasting
  <2> QED BY <2>3, <2>4
<1>2. CASE \E r \in Runs : Begin(r)
  <2>1. PICK r \in Runs : Begin(r)
    BY <1>2
  <2>2. \A q \in Runs : pc[q] \notin Active /\ pc'[q] \notin Active \ {"list"}
    BY <1>0, <2>1 DEF Begin, Idle, Go, IInv, TypeOK
  <2> QED BY <2>2 DEF Lasting
<1>3. CASE \E r \in Runs : Killed(r)
  <2>1. PICK r \in Runs : Killed(r)
    BY <1>3
  <2>2. /\ \A q \in Runs \ {r} : pc[q] \notin Active
        /\ \A q \in Runs : pc'[q] \notin Active
    BY <1>0, <2>1 DEF Killed, Go, IInv, TypeOK, OneAtATime, Ended
  <2>3. ASSUME NEW q \in Runs, pc[q] \in Active, loc[q].up, Excusable(q)' PROVE AppUp'
    <3>1. q = r
      BY <2>2, <2>3
    <3>2. Excusable(r)
      <4>1. mishaps[r] \subseteq mishaps'[r]
        BY <1>0, <2>1 DEF Killed, Mishap, IInv, TypeOK
      <4> QED BY <2>3, <3>1, <4>1 DEF Excusable
    <3>3. pc[r] # "list"
      BY <1>0, <2>3, <3>1 DEF IInv, NotYet, Fresh
    <3>4. Recoverable(r)
      BY <2>3, <3>1, <3>2, <3>3 DEF Lasting
    <3> QED BY <2>1, <2>3, <3>1, <3>3, <3>4, KilledRecovers
  <2> QED BY <2>2, <2>3 DEF Lasting
<1>4. CASE LearnerStarts \/ LearnerEnds \/ UNCHANGED vars
  <2>1. host' = host /\ pc' = pc /\ loc' = loc /\ mishaps' = mishaps
    BY <1>4 DEF LearnerStarts, LearnerEnds, vars
  <2>2. ASSUME NEW q \in Runs, pc'[q] \in Active \ {"list"}, loc'[q].up, Excusable(q)' PROVE Recoverable(q)'
    <3>1. Recoverable(q)
      BY <2>1, <2>2 DEF Lasting, Excusable
    <3> QED BY <2>1, <3>1, RecoverableStays
  <2>3. \A q \in Runs : pc[q] \in Active => pc'[q] \notin Ended
    BY <1>0, <2>1
  <2> QED BY <2>2, <2>3 DEF Lasting
<1>5. CASE RollBackByHand
  <2>1. \A q \in Runs : pc[q] \notin Active /\ pc'[q] \notin Active
    BY <1>5 DEF RollBackByHand, Idle
  <2> QED BY <2>1 DEF Lasting
<1> QED BY <1>1, <1>2, <1>3, <1>4, <1>5 DEF Next

(* What went wrong can be counted. *)
Counted == \A r \in Runs : IsFiniteSet(mishaps[r])

LEMMA CountedKeeps ==
  ASSUME IInv, Counted, [Next]_vars
  PROVE  Counted'
<1>1. CASE \E r \in Runs : Step(r) \/ Killed(r)
  <2>1. PICK r \in Runs : Suffers(r)
    BY <1>1, StepSuffers DEF Killed, Suffers
  <2>2. CASE mishaps' = mishaps
    BY <2>2 DEF Counted
  <2>3. CASE \E kind : Mishap(r, kind)
    <3>1. PICK m : mishaps' = [mishaps EXCEPT ![r] = @ \cup {m}]
      BY <2>3 DEF Mishap
    <3>2. mishaps'[r] = mishaps[r] \cup {m} /\ \A q \in Runs \ {r} : mishaps'[q] = mishaps[q]
      BY <3>1 DEF IInv, TypeOK
    <3>3. IsFiniteSet(mishaps[r] \cup {m})
      BY FS_AddElement DEF Counted
    <3> QED BY <3>2, <3>3 DEF Counted
  <2> QED BY <2>1, <2>2, <2>3 DEF Suffers
<1>2. CASE ~\E r \in Runs : Step(r) \/ Killed(r)
  <2>1. mishaps' = mishaps
    BY <1>2 DEF Next, vars, Begin, LearnerStarts, LearnerEnds, RollBackByHand
  <2> QED BY <2>1 DEF Counted
<1> QED BY <1>1, <1>2

(* One mishap that is not excused is all there is. *)
LEMMA OneMishap ==
  ASSUME NEW r \in Runs, Counted, Cardinality(mishaps[r]) <= 1, ~(mishaps[r] \subseteq Unrecovered)
  PROVE  Excusable(r)
<1>1. PICK m \in mishaps[r] : m \notin Unrecovered
  OBVIOUS
<1>2. IsFiniteSet(mishaps[r]) /\ mishaps[r] # {}
  BY <1>1 DEF Counted
<1>3. Cardinality(mishaps[r]) \in Nat /\ Cardinality(mishaps[r]) # 0
  BY <1>2, FS_CardinalityType, FS_EmptySet
<1>4. Cardinality(mishaps[r]) = 1
  BY <1>3
<1>5. PICK x : mishaps[r] = {x}
  BY <1>2, <1>4, FS_Singleton
<1> QED BY <1>1, <1>5 DEF Excusable

(* Where the app was up and one thing went wrong in a run, it is up when   *)
(* the run has ended, unless that mishap is one of those named.            *)
THEOREM Restored == Spec => Restores
<1>1. Init => Lasting /\ Counted
  <2> SUFFICES ASSUME Init PROVE Lasting /\ Counted
    OBVIOUS
  <2>1. "none" \notin Active
    BY DEF Active, Before, Switch, Rollout, UndoRollout, Undo
  <2>2. Lasting
    BY <2>1 DEF Init, Lasting
  <2>3. Counted
    BY FS_EmptySet DEF Init, Counted
  <2> QED BY <2>2, <2>3
<1>2. InOrder /\ InOrder' /\ WaitInv /\ Lasting /\ [Next]_vars => Lasting'
  BY LastingKeeps
<1>3. IInv /\ Counted /\ [Next]_vars => Counted'
  BY CountedKeeps
<1>4. InOrder /\ InOrder' /\ WaitInv /\ Lasting /\ Counted' /\ [Next]_vars =>
        [\A r \in Runs :
           pc[r] \in Active /\ pc'[r] \in Ended /\ loc[r].up /\ Cardinality(mishaps'[r]) <= 1
             => AppUp' \/ mishaps'[r] \subseteq Unrecovered]_vars
  <2> SUFFICES ASSUME InOrder, InOrder', WaitInv, Lasting, Counted', [Next]_vars, NEW r \in Runs,
                      pc[r] \in Active, pc'[r] \in Ended, loc[r].up, Cardinality(mishaps'[r]) <= 1,
                      ~(mishaps'[r] \subseteq Unrecovered)
               PROVE  AppUp'
    OBVIOUS
  <2>1. Excusable(r)'
    <3>1. (Counted /\ Cardinality(mishaps[r]) <= 1 /\ ~(mishaps[r] \subseteq Unrecovered) => Excusable(r))'
      BY OneMishap, PTL
    <3> QED BY <3>1 DEF Unrecovered
  <2> QED BY <2>1, LastingKeeps
<1>5. IInv /\ Tidy /\ PortsAlone <=> InOrder
  BY DEF InOrder
<1> QED BY <1>1, <1>2, <1>3, <1>4, <1>5, Invariant, Ordered, Published, AppsAreNamed, PTL DEF Spec, Restores
=============================================================================
