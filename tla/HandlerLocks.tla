---------------------------- MODULE HandlerLocks ----------------------------
(***************************************************************************)
(* What handlers wait for while they hold something: connections of the    *)
(* pool, row locks and the advisory lock of the budget.  A grading handler *)
(* (an answer, a hint, a review) keeps its transaction and its row open    *)
(* while it reserves on a second connection; one that starts something for *)
(* a learner (a lesson, Live, a reset) locks the learner's row in users,   *)
(* then other rows of the learner; the worker's sweep of stale Live flags  *)
(* locks rows of sessions of several learners, and nobody's in users.      *)
(* None of them gives up waiting: their contexts have no deadline.  Only a *)
(* listening handler, which keeps its session's row while speech is made   *)
(* on further connections, does so after 25 seconds.                       *)
(***************************************************************************)
EXTENDS Integers, Sequences, FiniteSets, FiniteSetsExt

CONSTANTS Graders,   \* handlers that grade, or help with, an answer
          Listeners, \* handlers that have speech made for a listening turn
          Owners,    \* handlers that lock the learner's row, and the sweep
          Learners,
          LearnerOf, \* whose request each handler serves
          Rows,      \* sessions and review items
          RowOf,     \* the row a grading or listening handler locks
          Wanted,    \* the rows an owner writes, in its order
          MaxConns   \* connections in the pool (12 in the code)

(* Who keeps a row locked while a model works *)
Holders == Graders \cup Listeners
Handlers == Holders \cup Owners

ASSUME LocksAssumption ==
  /\ Holders \cap Owners = {} /\ Graders \cap Listeners = {} /\ IsFiniteSet(Handlers)
  /\ LearnerOf \in [Handlers -> Learners]
  /\ RowOf \in [Holders -> Rows] /\ Wanted \in [Owners -> Seq(Rows)]
  /\ MaxConns \in Nat \ {0}

VARIABLES at,   \* how far each handler has come
          got   \* how many of its rows each owner has

vars == <<at, got>>

CallSteps == {"reserving", "queued", "charging", "asking"}

(* A handler holds what its place in the code says: the row it locked; an  *)
(* owner, its learner and the rows it has come to.                         *)
Locking == {"locked", "answered", "voiced", "keeping"} \cup CallSteps
Needs(o, r) ==
  at[o] = "owning" /\ got[o] < Len(Wanted[o]) /\ Wanted[o][got[o] + 1] = r

Has(o, r) == at[o] = "owning" /\ \E i \in 1 .. got[o] : Wanted[o][i] = r

RowFree(r) ==
  /\ \A x \in Holders : RowOf[x] = r => at[x] \notin Locking
  /\ \A o \in Owners : ~Has(o, r)

Owned(u) == \E o \in Owners : LearnerOf[o] = u /\ at[o] = "owning"
BudgetFree == \A x \in Holders : at[x] # "charging"

OnTwo == {"queued", "charging", "keeping"}

Conns(h) ==
  IF at[h] \in {"idle", "over"} THEN 0 ELSE IF at[h] \in OnTwo THEN 2 ELSE 1

InUse == MapThenSumSet(Conns, Handlers)
ConnFree == InUse < MaxConns

Move(h, from, to) == at[h] = from /\ at' = [at EXCEPT ![h] = to] /\ UNCHANGED got

Init == at = [h \in Handlers |-> "idle"] /\ got = [o \in Owners |-> 0]
-----------------------------------------------------------------------------
Begin(h) == ConnFree /\ Move(h, "idle", "begun")

(* The row's lock, and whatever ends the request early. *)
LockRow(x) == RowFree(RowOf[x]) /\ Move(x, "begun", "locked")
Refuse(x) == Move(x, "locked", "over")

(* reserve: a second connection; the advisory lock, under which the sums   *)
(* are read and the call may be refused; then a row of usage.  The row     *)
(* refers to the learner, whose row must not be locked for update: the     *)
(* INSERT waits with the budget locked, and no refusal ends it any more.   *)
Reserve(x) == Move(x, "locked", "reserving")
Connect(x) == ConnFree /\ Move(x, "reserving", "queued")
OverBudget(x) == BudgetFree /\ Move(x, "queued", "over")
Advise(x) == BudgetFree /\ Move(x, "queued", "charging")
Charge(x) == ~Owned(LearnerOf[x]) /\ Move(x, "charging", "asking")

(* The call of the model, with a timeout; settle gives up after ten        *)
(* seconds, with a connection or without.                                  *)
CallFails(x) == Move(x, "asking", "over")
Answer(g) == Move(g, "asking", "answered")

(* The attempt refers to the learner, too. *)
Record(g) == ~Owned(LearnerOf[g]) /\ Move(g, "answered", "over")

(* makeTTS keeps the speech in a transaction of its own, on a second       *)
(* connection; the asset refers to the learner.  The listener's own writes *)
(* after it wait for nobody.                                               *)
Voice(l) == Move(l, "asking", "voiced")
KeepBegin(l) == ConnFree /\ Move(l, "voiced", "keeping")
Keep(l) == ~Owned(LearnerOf[l]) /\ Move(l, "keeping", "over")

TimeOut_OfCallOnly(l) == Move(l, "asking", "over")

(* Twenty-five seconds for all of makeTTS, whatever it waits for.          *)
TimeOut(l) == \E step \in CallSteps \cup {"voiced", "keeping"} : Move(l, step, "over")

(* The learner's row, under which a start that finds nothing to write, or  *)
(* a reset that finds the learner Live, ends.                              *)
Own(o) == ~Owned(LearnerOf[o]) /\ Move(o, "begun", "owning")
TurnAway(o) == ~Owned(LearnerOf[o]) /\ Move(o, "begun", "over")
Take(o) ==
  /\ \E r \in Rows : Needs(o, r) /\ RowFree(r)
  /\ got' = [got EXCEPT ![o] = @ + 1] /\ UNCHANGED at
End(o) ==
  /\ at[o] = "owning" /\ at' = [at EXCEPT ![o] = "over"]
  /\ got' = [got EXCEPT ![o] = 0]
Finish(o) == got[o] = Len(Wanted[o]) /\ End(o)

(* A cycle of two transactions that both wait in PostgreSQL: it ends one.  *)
Deadlocked(g, o) ==
  /\ LearnerOf[g] = LearnerOf[o]
  /\ at[g] = "answered" /\ Needs(o, RowOf[g])
Victim(g, o) ==
  /\ Deadlocked(g, o)
  /\ Move(g, "answered", "over") \/ End(o)
-----------------------------------------------------------------------------
HolderStep(x) ==
  \/ LockRow(x)
  \/ Refuse(x)
  \/ Reserve(x)
  \/ Connect(x)
  \/ OverBudget(x)
  \/ Advise(x)
  \/ Charge(x)
  \/ CallFails(x)

GraderStep(g) == HolderStep(g) \/ Answer(g) \/ Record(g)

ListenerStep(l) ==
  \/ HolderStep(l)
  \/ Voice(l)
  \/ KeepBegin(l)
  \/ Keep(l)
  \/ TimeOut(l)

OwnerStep(o) == Own(o) \/ TurnAway(o) \/ Take(o) \/ Finish(o)

(* What goes on by itself, once handlers have begun *)
GoesOn ==
  \/ \E g \in Graders : GraderStep(g)
  \/ \E l \in Listeners : ListenerStep(l)
  \/ \E o \in Owners : OwnerStep(o)
  \/ \E g \in Graders, o \in Owners : Victim(g, o)

Next == (\E h \in Handlers : Begin(h)) \/ GoesOn

Spec == Init /\ [][Next]_vars

(* A handler only goes forward, so it is enough that not all of them stop  *)
(* while one can go on: what it queues for is handed out (row locks and    *)
(* the advisory lock by PostgreSQL, connections by the pool), a call of a  *)
(* model ends by its timeout and a deadlock by deadlock_timeout.           *)
Fairness == WF_vars(GoesOn)

FairSpec == Spec /\ Fairness
-----------------------------------------------------------------------------
(* Properties *)

(* A handler has the budget locked and waits, at its INSERT, for an owner  *)
(* of its learner.  The owner waits, itself or because the sweep has the   *)
(* row it wants and waits, for the row of a handler that is waiting for    *)
(* the budget or is the one that has it.  That row is held by a            *)
(* transaction that is idle meanwhile, its handler waits on a second       *)
(* connection: PostgreSQL sees no cycle.  The budget stays locked, for     *)
(* every learner.                                                          *)
BudgetHang ==
  \E g, x \in Graders, o, p \in Owners :
    /\ at[g] = "charging" /\ LearnerOf[g] = LearnerOf[o] /\ at[o] = "owning"
    /\ p = o \/ \E r \in Rows : Needs(o, r) /\ Has(p, r)
    /\ Needs(p, RowOf[x])
    /\ x = g \/ at[x] \in {"reserving", "queued"}

(* What a handler waits for that others hold, and will not give up.        *)
Waits(h) ==
  \/ h \in Holders /\ at[h] = "begun" /\ ~RowFree(RowOf[h])
  \/ h \in Owners /\ at[h] = "begun" /\ Owned(LearnerOf[h])
  \/ h \in Owners /\ \E r \in Rows : Needs(h, r) /\ ~RowFree(r)
  \/ /\ h \in Graders
     /\ \/ at[h] = "reserving" /\ ~ConnFree
        \/ at[h] = "queued" /\ ~BudgetFree
        \/ at[h] \in {"charging", "answered"} /\ Owned(LearnerOf[h])

(* Everyone who has a connection waits, one of them for another one, and   *)
(* PostgreSQL has no cycle to end.                                         *)
PoolHang ==
  /\ ~ConnFree
  /\ \E g \in Graders : at[g] = "reserving"
  /\ \A h \in Handlers : Conns(h) > 0 => Waits(h)
  /\ \A g \in Graders, o \in Owners : ~Deadlocked(g, o)

AtRest == \A h \in Handlers : at[h] \in {"idle", "over"}

(* The only ways in which handlers that have begun do not all end are      *)
(* these two, which then last: whatever else they hold and wait for, they  *)
(* all get it or give up (sessions.go 341, budget.go 22-41, reset.go 45,   *)
(* live.go 69-82, jobs.go 43); and a listener, which gives up, is never    *)
(* what the others hang on (listening.go 71).                              *)
OnlyTheseHangs == ~AtRest ~> (AtRest \/ [](BudgetHang \/ PoolHang))
=============================================================================
