-------------------------------- MODULE Deploy --------------------------------
(***************************************************************************)
(* scripts/deploy_portainer.py: the switch of one host from one release to *)
(* another.  A run of the script makes, starts, stops, renames and deletes *)
(* containers by calls to Docker through Portainer.  Any call may fail, or *)
(* be carried out and its reply lost (api gives up after 180 seconds), and *)
(* the script itself may be killed; a run that follows finds what is left. *)
(***************************************************************************)
EXTENDS Integers, FiniteSets

CONSTANTS
  Runs,         \* the runs of the script, 1..n, one after the other
  ReleaseOf,    \* RELEASE_ID of each run
  PortOf,       \* DATABASE_HOST_PORT and DATABASE_BIND_IP of each run
  FirstPort,    \* where the database of the first installation is published
  MaxMishaps,   \* how much may go wrong in all runs together
  None

ASSUME RunsAssumption == Runs = 1..Cardinality(Runs) /\ IsFiniteSet(Runs)

(* A database is published, and not on EXTERNAL_PORT, which is the app's.  *)
ASSUME PortsAssumption ==
  None # "app" /\ \A p \in {FirstPort} \cup {PortOf[r] : r \in Runs} : p \notin {None, "app"}

Roles == {"app", "candidate", "db"}
Ids == ({0} \cup Runs) \X Roles
Role(c) == c[2]

(* Names of containers: the two fixed ones and those made from a release. *)
AppName == <<"app", None>>
DbName == <<"db", None>>
CandidateName(r) == <<"candidate", ReleaseOf[r]>>
RollbackName(r) == <<"rollback", ReleaseOf[r]>>
BeforePortName(r) == <<"before-port", ReleaseOf[r]>>
Names == {AppName, DbName} \cup
         UNION {{CandidateName(r), RollbackName(r), BeforePortName(r)} : r \in Runs}

VARIABLES
  host,      \* the containers, and the password the database volume was made with
  pc,        \* where each run is
  loc,       \* the local variables of each run
  file,      \* .toko-deploy-state.json
  learning,  \* "no"; or a learner is at work, since "before" or "after" the last look
  mishaps    \* what went wrong in each run: pairs of a place and a kind

vars == <<host, pc, loc, file, learning, mishaps>>

-----------------------------------------------------------------------------
(* Docker.  A container has a name, runs or not, and publishes a host port *)
(* or none; key is POSTGRES_PASSWORD of a database and the password in the *)
(* DATABASE_URL of an app.                                                 *)
Containers == [name : Names, on : BOOLEAN, key : {0} \cup Runs,
               port : {"app", FirstPort, None} \cup {PortOf[r] : r \in Runs}]

(* None is neither a container nor what it is known by. *)
ASSUME NoneAssumption ==
  /\ \A c \in Ids : c # None
  /\ \A k \in {0} \cup Runs : k # None
  /\ \A box \in Containers : box # None
  /\ \A c, d \in Ids \cup {None} : [container |-> c, previous |-> d] # None

Exists(c) == host.box[c] # None
On(c) == Exists(c) /\ host.box[c].on
Named(n) == {c \in Ids : Exists(c) /\ host.box[c].name = n}
Find(n) == IF Named(n) = {} THEN None ELSE CHOOSE c \in Named(n) : TRUE
Publishes(c, p) == On(c) /\ host.box[c].port = p

CanCreate(n) == Named(n) = {}
CanStart(c) == /\ Exists(c) /\ ~On(c)
               /\ \A d \in Ids \ {c} : host.box[c].port # None => ~Publishes(d, host.box[c].port)
CanStop(c) == On(c)
CanRename(c, n) == Exists(c) /\ Named(n) = {}
CanDelete(c) == Exists(c) /\ ~On(c)

Create(c, box) == [host EXCEPT !.box[c] = box]
Start(c) == [host EXCEPT !.box[c].on = TRUE,
                         !.volume = IF Role(c) = "db" /\ @ = None THEN host.box[c].key ELSE @]
Stop(c) == [host EXCEPT !.box[c].on = FALSE]
Rename(c, n) == [host EXCEPT !.box[c].name = n]
Delete(c) == [host EXCEPT !.box[c] = None]

(* What a health check can see: an app is ready when it reaches a database *)
(* under its name with the password of the volume.                         *)
Healthy(c) == /\ On(c)
              /\ Role(c) # "db" => /\ \E d \in Named(DbName) : On(d)
                                   /\ host.box[c].key = host.volume

-----------------------------------------------------------------------------
(* The run of a script: where it goes on, and where an exception takes it. *)

Local == [old : Ids \cup {None}, db : Ids \cup {None}, new : Ids \cup {None},
          replacement : Ids \cup {None}, key : {0} \cup Runs, ready : BOOLEAN,
          stopped : BOOLEAN, renamed : BOOLEAN, renamed_db : BOOLEAN,
          up : BOOLEAN, obstacle : BOOLEAN]

Before == {"list", "storage", "db_create", "db_start", "db_wait", "load", "cand_create",
           "cand_start", "cand_wait", "cand_stop", "cand_delete", "busy"}
Switch == {"stop_old", "rename_old", "inspect_db", "create_new", "start_new", "wait_new",
           "public"}
Rollout == {"stop_db", "rename_db", "create_db", "replace_db", "wait_db"}
UndoRollout == {"look_db", "halt_db", "delete_db", "rename_db_back", "restart_db",
                "rewait_db"}
Undo == {"halt_new", "delete_new", "rename_back", "restart_old"}
Active == Before \cup Switch \cup Rollout \cup UndoRollout \cup Undo \cup {"record"}
Ended == {"done", "refused", "failed", "killed"}

Restore_NameForgotten(l) == IF l.old = None \/ ~l.stopped THEN "failed" ELSE "restart_old"

Restore(l) == IF l.old = None \/ ~l.stopped THEN "failed"
              ELSE IF l.renamed THEN "rename_back" ELSE "restart_old"
UndoSwitch(l) == IF l.new # None THEN "halt_new" ELSE Restore(l)
RestoreDb(l) == IF l.renamed_db THEN "rename_db_back" ELSE "restart_db"
UndoDb(l) == IF l.replacement # None THEN "look_db" ELSE RestoreDb(l)

(* The handlers of the two try statements; one inside the other. *)
Handler(r) == CASE pc[r] \in Before \cup Undo -> "failed"
                [] pc[r] \in Switch \cup UndoRollout -> UndoSwitch(loc[r])
                [] pc[r] \in Rollout -> UndoDb(loc[r])

Go(r, place) == pc' = [pc EXCEPT ![r] = place]
Keep(r, l) == loc' = [loc EXCEPT ![r] = l]
Raise(r) == Go(r, Handler(r)) /\ UNCHANGED loc

Mishap(r, kind) ==
  /\ Cardinality(UNION {{q} \X mishaps[q] : q \in Runs}) < MaxMishaps
  /\ mishaps' = [mishaps EXCEPT ![r] = @ \cup {<<pc[r], kind>>}]

(* A call: it is carried out and answered, refused by Docker (a name or a  *)
(* port is taken, or the container runs already or does not), fails before *)
(* it has an effect, or has its effect and no answer.                      *)
Call(r, possible, after, l, place) ==
  \/ possible /\ host' = after /\ Keep(r, l) /\ Go(r, place) /\ UNCHANGED mishaps
  \/ ~possible /\ Raise(r) /\ UNCHANGED <<host, mishaps>>
  \/ Mishap(r, "error") /\ Raise(r) /\ UNCHANGED host
  \/ possible /\ after # host /\ Mishap(r, "lost") /\ host' = after /\ Raise(r)

Ask(r, possible, l, place) == Call(r, possible, host, l, place)

(* wait_ready: a release or a database may also never become ready; place  *)
(* no is where the script goes then, or "raise".                           *)
NotReady(r, no) ==
  /\ Go(r, IF no = "raise" THEN Handler(r) ELSE no)
  /\ UNCHANGED loc

Wait(r, c, l, yes, no) ==
  /\ UNCHANGED host
  /\ \/ Healthy(c) /\ Keep(r, l) /\ Go(r, yes) /\ UNCHANGED mishaps
     \/ ~Healthy(c) /\ NotReady(r, no) /\ UNCHANGED mishaps
     \/ Healthy(c) /\ NotReady(r, no) /\ Mishap(r, "unready")
     \/ Mishap(r, "error") /\ Raise(r)

At(r, place) == pc[r] = place /\ UNCHANGED file

-----------------------------------------------------------------------------
(* What a run looks at first: its containers by name, and who has its ports. *)
OwnedByOthers(port, c) == \E d \in Ids \ {c} : Publishes(d, port)

AppUp == \E c \in Named(AppName) : Healthy(c)

(* What an earlier run may have left that this one cannot get past. *)
Obstacle(r) ==
  LET old == Find(AppName)  db == Find(DbName) IN
    \/ OwnedByOthers("app", old) \/ OwnedByOthers(PortOf[r], db)
    \/ old # None /\ ~On(old)
    \/ \E n \in {CandidateName(r), RollbackName(r), BeforePortName(r)} : Named(n) # {}
    \/ host.volume # None /\ (IF db = None THEN TRUE ELSE host.box[db].key # host.volume)

List(r) ==
  /\ At(r, "list")
  /\ LET l == [loc[r] EXCEPT !.old = Find(AppName), !.db = Find(DbName),
                             !.up = AppUp, !.obstacle = Obstacle(r)]
     IN IF OwnedByOthers("app", l.old) \/ OwnedByOthers(PortOf[r], l.db)
        THEN /\ Go(r, "refused") /\ Keep(r, l) /\ UNCHANGED <<host, mishaps>>
        ELSE Ask(r, TRUE, l, "storage")
  /\ UNCHANGED learning

(* The network and the two volumes are made if they are missing; a running *)
(* database is left alone, one that stands still is started.               *)
Storage_FreshPassword(r) ==
  /\ At(r, "storage")
  /\ LET db == loc[r].db IN
       Ask(r, TRUE, [loc[r] EXCEPT !.key = r],
           IF db = None THEN "db_create" ELSE IF On(db) THEN "db_wait" ELSE "db_start")
  /\ UNCHANGED learning

Storage(r) ==
  /\ At(r, "storage")
  /\ LET db == loc[r].db IN
       IF db = None THEN Ask(r, TRUE, [loc[r] EXCEPT !.key = r], "db_create")
       ELSE Ask(r, TRUE, [loc[r] EXCEPT !.key = host.box[db].key],
                IF On(db) THEN "db_wait" ELSE "db_start")
  /\ UNCHANGED learning

DbCreate(r) ==
  /\ At(r, "db_create")
  /\ LET c == <<r, "db">> IN
       Call(r, CanCreate(DbName),
            Create(c, [name |-> DbName, on |-> FALSE, key |-> loc[r].key, port |-> PortOf[r]]),
            [loc[r] EXCEPT !.db = c], "db_start")
  /\ UNCHANGED learning

DbStart(r) ==
  /\ At(r, "db_start")
  /\ Call(r, CanStart(loc[r].db), Start(loc[r].db), loc[r], "db_wait")
  /\ UNCHANGED learning

DbWait(r) ==
  /\ At(r, "db_wait")
  /\ Wait(r, loc[r].db, loc[r], "load", "refused")
  /\ UNCHANGED learning

Load(r) ==
  /\ At(r, "load")
  /\ Ask(r, TRUE, loc[r], "cand_create")
  /\ UNCHANGED learning

Image(r, name, port) == [name |-> name, on |-> FALSE, key |-> loc[r].key, port |-> port]
Candidate(r) == <<r, "candidate">>

CandidateCreate(r) ==
  /\ At(r, "cand_create")
  /\ Call(r, CanCreate(CandidateName(r)),
          Create(Candidate(r), Image(r, CandidateName(r), None)), loc[r], "cand_start")
  /\ UNCHANGED learning

CandidateStart(r) ==
  /\ At(r, "cand_start")
  /\ Call(r, CanStart(Candidate(r)), Start(Candidate(r)), loc[r], "cand_wait")
  /\ UNCHANGED learning

CandidateWait(r) ==
  /\ At(r, "cand_wait")
  /\ Wait(r, Candidate(r), [loc[r] EXCEPT !.ready = TRUE], "cand_stop", "cand_stop")
  /\ UNCHANGED learning

CandidateStop(r) ==
  /\ At(r, "cand_stop")
  /\ Call(r, CanStop(Candidate(r)), Stop(Candidate(r)), loc[r], "cand_delete")
  /\ UNCHANGED learning

CandidateDelete(r) ==
  /\ At(r, "cand_delete")
  /\ Call(r, CanDelete(Candidate(r)), Delete(Candidate(r)), loc[r],
          IF loc[r].ready THEN "busy" ELSE "refused")
  /\ UNCHANGED learning

-----------------------------------------------------------------------------
(* busy_learning, asked up to 31 times; then the old app is left running. *)
SwitchFrom(r) == IF loc[r].old # None THEN "stop_old" ELSE "inspect_db"

Busy_GivesUpWaiting(r) ==
  /\ At(r, "busy")
  /\ Go(r, SwitchFrom(r)) /\ UNCHANGED <<host, loc, mishaps, learning>>

Busy(r) ==
  /\ At(r, "busy")
  /\ UNCHANGED host
  /\ \/ /\ learning = "no"
        /\ Go(r, SwitchFrom(r)) /\ UNCHANGED <<loc, mishaps, learning>>
     \/ /\ learning # "no"
        /\ Go(r, "refused") /\ UNCHANGED <<loc, mishaps, learning>>
     \/ Mishap(r, "error") /\ Raise(r) /\ UNCHANGED learning

StopOld(r) ==
  /\ At(r, "stop_old")
  /\ Call(r, CanStop(loc[r].old), Stop(loc[r].old), [loc[r] EXCEPT !.stopped = TRUE],
          "rename_old")
  /\ learning' = IF host' # host THEN "no" ELSE learning

RenameOld(r) ==
  /\ At(r, "rename_old")
  /\ Call(r, CanRename(loc[r].old, RollbackName(r)), Rename(loc[r].old, RollbackName(r)),
          [loc[r] EXCEPT !.renamed = TRUE], "inspect_db")
  /\ UNCHANGED learning

(* ensure_database_port: a database that is not published where it should  *)
(* be is replaced by one on the same volume.                               *)
InspectDb(r) ==
  /\ At(r, "inspect_db")
  /\ Ask(r, Exists(loc[r].db), loc[r],
         IF Exists(loc[r].db) /\ host.box[loc[r].db].port = PortOf[r]
         THEN "create_new" ELSE "stop_db")
  /\ UNCHANGED learning

StopDb_Forgotten(r) ==
  /\ At(r, "stop_db") /\ Go(r, "rename_db")
  /\ UNCHANGED <<host, loc, mishaps, learning>>

StopDb(r) ==
  /\ At(r, "stop_db")
  /\ Call(r, CanStop(loc[r].db), Stop(loc[r].db), loc[r], "rename_db")
  /\ UNCHANGED learning

RenameDb(r) ==
  /\ At(r, "rename_db")
  /\ Call(r, CanRename(loc[r].db, BeforePortName(r)), Rename(loc[r].db, BeforePortName(r)),
          [loc[r] EXCEPT !.renamed_db = TRUE], "create_db")
  /\ UNCHANGED learning

Replacement(r) == <<r, "db">>

CreateDb(r) ==
  /\ At(r, "create_db")
  /\ Call(r, CanCreate(DbName),
          Create(Replacement(r), [host.box[loc[r].db] EXCEPT !.name = DbName, !.on = FALSE,
                                                             !.port = PortOf[r]]),
          [loc[r] EXCEPT !.replacement = Replacement(r)], "replace_db")
  /\ UNCHANGED learning

ReplaceDb(r) ==
  /\ At(r, "replace_db")
  /\ Call(r, CanStart(Replacement(r)), Start(Replacement(r)), loc[r], "wait_db")
  /\ UNCHANGED learning

WaitDb(r) ==
  /\ At(r, "wait_db")
  /\ Wait(r, Replacement(r), [loc[r] EXCEPT !.db = Replacement(r)], "create_new", "raise")
  /\ UNCHANGED learning

-----------------------------------------------------------------------------
(* The handler of the rollout: the original database back on its volume,   *)
(* and the exception again.                                                *)
LookDb(r) ==
  /\ At(r, "look_db")
  /\ Ask(r, Exists(loc[r].replacement), loc[r],
         IF On(loc[r].replacement) THEN "halt_db" ELSE "delete_db")
  /\ UNCHANGED learning

HaltDb(r) ==
  /\ At(r, "halt_db")
  /\ Call(r, CanStop(loc[r].replacement), Stop(loc[r].replacement), loc[r], "delete_db")
  /\ UNCHANGED learning

DeleteDb(r) ==
  /\ At(r, "delete_db")
  /\ Call(r, CanDelete(loc[r].replacement), Delete(loc[r].replacement), loc[r],
          RestoreDb(loc[r]))
  /\ UNCHANGED learning

RenameDbBack(r) ==
  /\ At(r, "rename_db_back")
  /\ Call(r, CanRename(loc[r].db, DbName), Rename(loc[r].db, DbName), loc[r], "restart_db")
  /\ UNCHANGED learning

RestartDb(r) ==
  /\ At(r, "restart_db")
  /\ Call(r, CanStart(loc[r].db), Start(loc[r].db), loc[r], "rewait_db")
  /\ UNCHANGED learning

RewaitDb(r) ==
  /\ At(r, "rewait_db")
  /\ Wait(r, loc[r].db, loc[r], UndoSwitch(loc[r]), "raise")
  /\ UNCHANGED learning

-----------------------------------------------------------------------------
(* The new app under the name, and HTTPS that serves its release. *)
New(r) == <<r, "app">>

CreateNew(r) ==
  /\ At(r, "create_new")
  /\ Call(r, CanCreate(AppName), Create(New(r), Image(r, AppName, "app")),
          [loc[r] EXCEPT !.new = New(r)], "start_new")
  /\ UNCHANGED learning

StartNew(r) ==
  /\ At(r, "start_new")
  /\ Call(r, CanStart(New(r)), Start(New(r)), loc[r], "wait_new")
  /\ UNCHANGED learning

WaitNew(r) ==
  /\ At(r, "wait_new")
  /\ Wait(r, New(r), loc[r], "public", "raise")
  /\ UNCHANGED learning

Public(r) ==
  /\ At(r, "public")
  /\ Wait(r, New(r), loc[r], "record", "raise")
  /\ UNCHANGED learning

Record_Tidy(r) ==
  /\ pc[r] = "record"
  /\ file' = [container |-> New(r), previous |-> loc[r].old]
  /\ host' = IF loc[r].old = None THEN host ELSE Delete(loc[r].old)
  /\ Go(r, "done")
  /\ UNCHANGED <<loc, learning, mishaps>>

Record(r) ==
  /\ pc[r] = "record"
  /\ file' = [container |-> New(r), previous |-> loc[r].old]
  /\ Go(r, "done")
  /\ UNCHANGED <<host, loc, learning, mishaps>>

-----------------------------------------------------------------------------
(* The handler of the switch: the new app goes, the old one comes back. *)
HaltNew(r) ==
  /\ At(r, "halt_new")
  /\ Call(r, CanStop(loc[r].new), Stop(loc[r].new), loc[r], "delete_new")
  /\ UNCHANGED learning

DeleteNew(r) ==
  /\ At(r, "delete_new")
  /\ Call(r, CanDelete(loc[r].new), Delete(loc[r].new), loc[r], Restore(loc[r]))
  /\ UNCHANGED learning

RenameBack(r) ==
  /\ At(r, "rename_back")
  /\ Call(r, CanRename(loc[r].old, AppName), Rename(loc[r].old, AppName), loc[r],
          "restart_old")
  /\ UNCHANGED learning

RestartOld(r) ==
  /\ At(r, "restart_old")
  /\ Call(r, CanStart(loc[r].old), Start(loc[r].old), loc[r], "failed")
  /\ UNCHANGED learning

-----------------------------------------------------------------------------
(* Around the script: it is started, one run after the other, and may be   *)
(* killed; learners come and go; README.md names the previous container of *)
(* the state file for a rollback by hand.                                  *)
Idle == \A r \in Runs : pc[r] \notin Active

Begin(r) ==
  /\ At(r, "none") /\ Idle
  /\ \A q \in 1..(r - 1) : pc[q] \in Ended
  /\ Go(r, "list")
  /\ UNCHANGED <<host, loc, learning, mishaps>>

Killed(r) ==
  /\ pc[r] \in Active /\ UNCHANGED <<host, file, loc, learning>>
  /\ Mishap(r, "kill") /\ Go(r, "killed")

LearnerStarts ==
  /\ learning = "no" /\ AppUp
  /\ learning' = IF \E r \in Runs : pc[r] = "stop_old" THEN "after" ELSE "before"
  /\ UNCHANGED <<host, pc, loc, file, mishaps>>

LearnerEnds ==
  /\ learning # "no" /\ learning' = "no"
  /\ UNCHANGED <<host, pc, loc, file, mishaps>>

RollBackByHand ==
  /\ Idle /\ file # None
  /\ file.previous # None
  /\ CanStop(file.container) /\ Exists(file.previous) /\ ~On(file.previous)
  /\ host' = [host EXCEPT !.box[file.container].on = FALSE, !.box[file.previous].on = TRUE]
  /\ learning' = "no"
  /\ UNCHANGED <<pc, loc, file, mishaps>>

Installed == [box |-> [c \in Ids |->
                CASE c = <<0, "app">> -> [name |-> AppName, on |-> TRUE, key |-> 0, port |-> "app"]
                  [] c = <<0, "db">> -> [name |-> DbName, on |-> TRUE, key |-> 0, port |-> FirstPort]
                  [] OTHER -> None],
              volume |-> 0]
Bare == [box |-> [c \in Ids |-> None], volume |-> None]

Fresh == [old |-> None, db |-> None, new |-> None, replacement |-> None, key |-> 0,
          ready |-> FALSE, stopped |-> FALSE, renamed |-> FALSE, renamed_db |-> FALSE,
          up |-> FALSE, obstacle |-> FALSE]

Init ==
  /\ host \in {Installed, Bare}
  /\ pc = [r \in Runs |-> "none"]
  /\ loc = [r \in Runs |-> Fresh]
  /\ file = None
  /\ learning = "no"
  /\ mishaps = [r \in Runs |-> {}]

Prepare(r) == \/ List(r) \/ Storage(r) \/ DbCreate(r) \/ DbStart(r) \/ DbWait(r) \/ Load(r)
              \/ CandidateCreate(r) \/ CandidateStart(r) \/ CandidateWait(r)
              \/ CandidateStop(r) \/ CandidateDelete(r) \/ Busy(r)
EnsureDatabasePort(r) == \/ InspectDb(r) \/ StopDb(r) \/ RenameDb(r) \/ CreateDb(r)
                         \/ ReplaceDb(r) \/ WaitDb(r) \/ LookDb(r) \/ HaltDb(r)
                         \/ DeleteDb(r) \/ RenameDbBack(r) \/ RestartDb(r) \/ RewaitDb(r)
SwitchApp(r) == \/ StopOld(r) \/ RenameOld(r) \/ CreateNew(r) \/ StartNew(r) \/ WaitNew(r)
                \/ Public(r) \/ Record(r)
UndoSteps(r) == HaltNew(r) \/ DeleteNew(r) \/ RenameBack(r) \/ RestartOld(r)
Step(r) == Prepare(r) \/ EnsureDatabasePort(r) \/ SwitchApp(r) \/ UndoSteps(r)

Next == \/ \E r \in Runs : Begin(r) \/ Step(r) \/ Killed(r)
        \/ LearnerStarts \/ LearnerEnds \/ RollBackByHand

Spec == Init /\ [][Next]_vars

-----------------------------------------------------------------------------
TypeOK ==
  /\ host \in [box : [Ids -> Containers \cup {None}], volume : {None, 0} \cup Runs]
  /\ pc \in [Runs -> {"none"} \cup Active \cup Ended]
  /\ loc \in [Runs -> Local]
  /\ file \in {None} \cup [container : Ids, previous : Ids \cup {None}]
  /\ learning \in {"no", "before", "after"}
  /\ mishaps \in [Runs -> SUBSET (Active \X {"error", "lost", "unready", "kill"})]

Databases == {c \in Ids : Role(c) = "db" /\ On(c)}
Suffered(places) == \E r \in Runs : mishaps[r] \cap places # {}

OneDatabase == \/ \A c, d \in Databases : c = d
               \/ Suffered({<<"rename_db", "lost">>})

Nameless == {<<"rename_db", "lost">>, <<"create_db", "kill">>, <<"delete_db", "lost">>,
             <<"rename_db_back", "error">>, <<"rename_db_back", "kill">>}
DatabaseFits == \/ \A c \in Named(DbName) : On(c) => host.box[c].key = host.volume
                \/ Suffered(Nameless)

(* "never run two postgres processes on it" (deploy_portainer.py:73): at   *)
(* most one database runs on the volume, whatever is refused, fails or is  *)
(* killed.  The one exception: the database was renamed and the reply was  *)
(* lost.  The handler then starts it under its other name (renamed_db is   *)
(* still False), and the next run, which finds no database, makes another. *)
(* "original volume and credentials preserved" (94): the database a run    *)
(* finds has the password its volume was made with, or no app can ever be  *)
(* ready again.  The exceptions leave the volume with no database under    *)
(* its name, so that the next run makes one with a new password: the       *)
(* script stopped between the rename and the new container, or the handler *)
(* could not give the name back.  Containers and runs have their types.    *)
DatabaseIsSafe == TypeOK /\ OneDatabase /\ DatabaseFits

(* README.md:113, the previous container is recorded for a rollback by     *)
(* hand: through any number of later runs, good or bad, it is still there, *)
(* and what it would connect with is the password of the volume.           *)
PreviousIsKept == file # None /\ file.previous # None =>
  Exists(file.previous) /\ host.box[file.previous].key = host.volume

(* "restores it if readiness or public HTTPS verification fails"           *)
(* (README.md:109): where the app was up and one thing went wrong in a     *)
(* run, it is up when the run has ended.  Unrecovered names every single   *)
(* mishap for which that is not so: a reply lost after the effect (the     *)
(* variable that the handler asks was not set yet), a new app that was     *)
(* made and not started (Docker refuses to stop it, and the handler goes   *)
(* no further), a script killed in the switch, and a mishap in the handler *)
(* itself, entered because an earlier run had left a name taken.           *)
Unrecovered ==
  {<<p, "lost">> : p \in {"stop_old", "rename_old", "rename_db", "create_db", "create_new",
                          "rename_back"}}
  \cup {<<p, "error">> : p \in {"start_new", "restart_db", "rename_back", "restart_old"}}
  \cup {<<p, "kill">> : p \in {"rename_old", "inspect_db", "stop_db", "rename_db",
                                "create_db", "replace_db", "wait_db", "create_new",
                                "start_new", "restart_db", "rewait_db", "rename_back",
                                "restart_old"}}
Restores ==
  [][\A r \in Runs :
       pc[r] \in Active /\ pc'[r] \in Ended /\ loc[r].up /\ Cardinality(mishaps'[r]) <= 1
         => AppUp' \/ mishaps'[r] \subseteq Unrecovered]_vars

(* A run in which nothing goes wrong ends well, if no earlier run left it  *)
(* an obstacle and no learner is at work: nothing that a run in good order *)
(* leaves behind (names, passwords, ports) stops the next one.             *)
UndisturbedRunSucceeds ==
  [][\A r \in Runs :
       pc[r] \in Active /\ pc'[r] \in {"failed", "refused"} /\ mishaps'[r] = {}
         => loc'[r].obstacle \/ learning # "no"]_vars

(* "Avoid interrupting an in-flight learner response or Live conversation" *)
(* (101): the app goes down under a learner only when the learner began    *)
(* after the last look, when a new app that was already reached does not   *)
(* pass the HTTPS check and is halted, or when somebody rolls back by hand *)
(* between runs.                                                           *)
LearnersAreWaitedFor ==
  [][learning = "before" /\ AppUp /\ ~AppUp' => Idle \/ \E r \in Runs : pc[r] = "halt_new"]_vars
=============================================================================
