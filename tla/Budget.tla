------------------------------- MODULE Budget -------------------------------
(***************************************************************************)
(* The AI budget (internal/app/budget.go): every call of a model (gemini/  *)
(* client.go) reserves an amount in the table "usage" before it is made    *)
(* and settles it after.                                                   *)
(* Reserving is a transaction of its own under one advisory lock; settling *)
(* and the hourly cleanup take no lock and meet it at any point.           *)
(***************************************************************************)
EXTENDS Integers, FiniteSets

CONSTANTS Calls,      \* calls of a model, each with its row of usage
          Users,
          Allowance,  \* the monthly_budget of each user, in THB
          Cap,        \* what all users together may spend in a month (1000)
          Amounts,    \* amounts reserved
          Costs,      \* costs computed from the answer's token counts
          LastMonth,  \* bound: months considered
          None        \* nobody holds the lock; no row

ASSUME BudgetAssumption ==
  /\ Cap \in Nat /\ Allowance \in [Users -> Nat] /\ LastMonth \in Nat
  /\ Amounts \subseteq Nat /\ Costs \subseteq Nat
  /\ None \notin Calls

VARIABLES usage,     \* rows of usage
          call,      \* where each call is
          advisory,  \* pg_advisory_xact_lock(7214904)
          month,     \* the calendar
          hung       \* some wait will never end

vars == <<usage, call, advisory, month, hung>>

Months == 0 .. LastMonth
UsageRow ==
  [user : Users, month : Months, status : {"reserved", "complete", "estimated", "rejected"},
   reserved : Amounts, cost : Nat]

ASSUME NoneIsNoRow == None \notin UsageRow

Rows == {c \in Calls : usage[c] # None}

Open(c) == c \in Rows /\ usage[c].status = "reserved"

(* What a row counts for: its reservation until it is settled. *)
Charge(c) == IF usage[c].status = "reserved" THEN usage[c].reserved ELSE usage[c].cost

(* The sums are over rows created since the month in which the transaction *)
(* began, by now().  A sum is the number of THB, one by one, for a fold    *)
(* over the rows could not be reasoned about.                              *)
Thb(S) == UNION {{c} \X (1 .. Charge(c)) : c \in S}
Sum(S) == Cardinality(Thb(S))
Since(m) == {c \in Rows : usage[c].month >= m}
Total(m) == Sum(Since(m))
Spent(u, m) == Sum({c \in Since(m) : usage[c].user = u})

(* What a call of a model (Generate) tells settle: the provider refused    *)
(* it, or the answer came with token counts, or without (a timeout, a lost *)
(* connection, an unreadable body); speech and Live without counts carry   *)
(* an estimate.                                                            *)
Outcome == [reply : {"rejected", "uncounted"}] \cup [reply : {"estimated", "counted"}, cost : Costs]

CallState ==
  [at : {"idle", "calling", "over"}]
  \cup [at : {"waiting"}, user : Users, month : Months, amount : Amounts]
  \cup [at : {"summed"}, user : Users, month : Months, amount : Amounts, spent : Nat, total : Nat]

Goto(c, state) == call' = [call EXCEPT ![c] = state]

Init ==
  /\ usage = [c \in Calls |-> None]
  /\ call = [c \in Calls |-> [at |-> "idle"]]
  /\ advisory = None
  /\ month = 0
  /\ hung = FALSE
-----------------------------------------------------------------------------
(* reserve *)

ReserveBegin(c, u, amount) ==
  /\ call[c].at = "idle"
  /\ Goto(c, [at |-> "waiting", user |-> u, month |-> month, amount |-> amount])
  /\ UNCHANGED <<usage, advisory, month, hung>>

ReserveSum_NoLock(c) ==
  /\ call[c].at = "waiting"
  /\ LET t == call[c]
     IN Goto(c, [at |-> "summed", user |-> t.user, month |-> t.month, amount |-> t.amount,
                 spent |-> Spent(t.user, t.month), total |-> Total(t.month)])
  /\ UNCHANGED <<usage, advisory, month, hung>>

(* Take the lock, read what has been committed. *)
ReserveSum(c) ==
  /\ call[c].at = "waiting" /\ advisory = None
  /\ advisory' = c
  /\ LET t == call[c]
     IN Goto(c, [at |-> "summed", user |-> t.user, month |-> t.month, amount |-> t.amount,
                 spent |-> Spent(t.user, t.month), total |-> Total(t.month)])
  /\ UNCHANGED <<usage, month, hung>>

Fits(t) == t.spent + t.amount <= Allowance[t.user] /\ t.total + t.amount <= Cap

(* Insert the reservation, commit (which frees the lock), make the call.   *)
ReserveInsert(c) ==
  /\ call[c].at = "summed" /\ Fits(call[c])
  /\ usage' = [usage EXCEPT ![c] =
                 [user |-> call[c].user, month |-> call[c].month, status |-> "reserved",
                  reserved |-> call[c].amount, cost |-> 0]]
  /\ advisory' = None
  /\ Goto(c, [at |-> "calling"])
  /\ UNCHANGED <<month, hung>>

ReserveRefused_KeepsLock(c) ==
  /\ call[c].at = "summed" /\ ~Fits(call[c])
  /\ Goto(c, [at |-> "over"])
  /\ UNCHANGED <<usage, advisory, month, hung>>

ReserveRefused(c) ==
  /\ call[c].at = "summed" /\ ~Fits(call[c])
  /\ advisory' = None
  /\ Goto(c, [at |-> "over"])
  /\ UNCHANGED <<usage, month, hung>>
-----------------------------------------------------------------------------
(* settle: none of its branches looks at the row's status. *)

Least(n, m) == IF n <= m THEN n ELSE m

Rejected(row) == [row EXCEPT !.status = "rejected", !.cost = 0]

(* No token counts: the reservation itself is the cost. *)
Unmetered(row) == [row EXCEPT !.status = "estimated", !.cost = row.reserved]

(* Speech and Live without counts: an estimate, the reservation at most.   *)
Estimated(row, cost) == [row EXCEPT !.status = "estimated", !.cost = Least(row.reserved, cost)]

(* With token counts: what they cost, also when that is more.              *)
Metered(row, cost) == [row EXCEPT !.status = "complete", !.cost = cost]

Settled(row, outcome) ==
  CASE outcome.reply = "rejected"  -> Rejected(row)
    [] outcome.reply = "uncounted" -> Unmetered(row)
    [] outcome.reply = "estimated" -> Estimated(row, outcome.cost)
    [] outcome.reply = "counted"   -> Metered(row, outcome.cost)

Settle(c) ==
  /\ call[c].at = "calling"
  /\ \E outcome \in Outcome : usage' = [usage EXCEPT ![c] = Settled(@, outcome)]
  /\ Goto(c, [at |-> "over"])
  /\ UNCHANGED <<advisory, month, hung>>

(* Errors of the UPDATE are ignored. *)
SettleLost(c) ==
  /\ call[c].at = "calling"
  /\ Goto(c, [at |-> "over"])
  /\ UNCHANGED <<usage, advisory, month, hung>>

(* The process dies, or the database is lost: an open transaction is       *)
(* rolled back, a row that is committed stays.                             *)
Crash(c) ==
  /\ call[c].at \notin {"idle", "over"}
  /\ advisory' = IF advisory = c THEN None ELSE advisory
  /\ Goto(c, [at |-> "over"])
  /\ UNCHANGED <<usage, month, hung>>

Expired_Free(row) == [row EXCEPT !.status = "estimated"]
Expired_StaysOpen(row) == [row EXCEPT !.cost = row.reserved]

Expired(row) == [row EXCEPT !.status = "estimated", !.cost = row.reserved]

(* cleanup: a reservation older than two hours.  The model does not keep   *)
(* the hours, so the call may still be under way.                          *)
Cleanup(c) ==
  /\ Open(c)
  /\ usage' = [usage EXCEPT ![c] = Expired(@)]
  /\ UNCHANGED <<call, advisory, month, hung>>

NextMonth ==
  /\ month < LastMonth
  /\ month' = month + 1
  /\ UNCHANGED <<usage, call, advisory, hung>>

(* The transaction of a reservation has no time limit, and its INSERT      *)
(* waits, with the advisory lock, for whoever has the learner's row: a     *)
(* start or a reset, which may wait for a handler that waits for this      *)
(* lock.  HandlerLocks has those locks and names every such hang; this     *)
(* module follows it no further.                                           *)
Hang == hung' = TRUE /\ UNCHANGED <<usage, call, advisory, month>>
-----------------------------------------------------------------------------
Step ==
  \/ \E c \in Calls, u \in Users, amount \in Amounts : ReserveBegin(c, u, amount)
  \/ \E c \in Calls :
       \/ ReserveSum(c)
       \/ ReserveInsert(c)
       \/ ReserveRefused(c)
       \/ Settle(c)
       \/ SettleLost(c)
       \/ Crash(c)
       \/ Cleanup(c)
  \/ NextMonth

Next == ~hung /\ (Step \/ Hang)

Spec == Init /\ [][Next]_vars

(* Until something hangs: the worker's ticker runs the cleanup every hour; *)
(* PostgreSQL gives the advisory lock to those who wait in order; who has  *)
(* the learner's row commits; a call of a model has a timeout (client.go   *)
(* 103-110).                                                               *)
Fairness ==
  \A c \in Calls :
    /\ WF_vars(~hung /\ Cleanup(c))
    /\ SF_vars(~hung /\ ReserveSum(c))
    /\ WF_vars(~hung /\ (ReserveInsert(c) \/ ReserveRefused(c)))
    /\ WF_vars(~hung /\ (Settle(c) \/ SettleLost(c)))

FairSpec == Spec /\ Fairness
-----------------------------------------------------------------------------
(* Properties *)

(* Rows and calls have their types; the lock is held by the call that has  *)
(* summed and by no other, and a call is made only with a row.             *)
TypeOK ==
  /\ usage \in [Calls -> UsageRow \cup {None}]
  /\ call \in [Calls -> CallState]
  /\ month \in Months /\ hung \in BOOLEAN
  /\ \A c \in Calls : advisory = c <=> call[c].at = "summed"
  /\ \A c \in Calls : call[c].at = "calling" => c \in Rows

(* What the answers cost beyond their reservations, in one month's rows.   *)
Overrun(S) == Cardinality({x \in Thb(S) : x[2] > usage[x[1]].reserved})

(* "Reservations remain conservative hard-budget guards" (README 117):     *)
(* however reservations, answers and the cleanup interleave, a month goes  *)
(* over the application's ceiling, and over the budget of a user, by no    *)
(* more than what its answers cost beyond their own reservations           *)
(* (budget.go 22-34; settle writes an answer's cost as it is, 84).         *)
ReservationsGuard ==
  \A m \in Months :
    LET All == {c \in Rows : usage[c].month = m}
        Of(u) == {c \in All : usage[c].user = u}
    IN /\ Sum(All) <= Cap + Overrun(All)
       /\ \A u \in Users : Sum(Of(u)) <= Allowance[u] + Overrun(Of(u))

(* A month pays for a call at least what was reserved until its answer has *)
(* been settled, whatever the cleanup does meanwhile (jobs.go 72).         *)
InFlightIsCharged ==
  \A c \in Calls : call[c].at = "calling" => Charge(c) >= usage[c].reserved

(* No reservation stays open for ever, not even when the process died      *)
(* before it settled (jobs.go 72), unless the handlers hang as             *)
(* HandlerLocks says: the worker's loop, too, waits for rows of sessions   *)
(* (jobs.go 43).                                                           *)
EveryReservationSettles == \A c \in Calls : Open(c) ~> (~Open(c) \/ hung)

(* Whoever asks for a reservation gets an answer, however many wait for    *)
(* the one lock and whoever of them dies with it (budget.go 18-49), with   *)
(* the same exception.                                                     *)
EveryCallEnds == \A c \in Calls : call[c].at = "waiting" ~> (call[c].at = "over" \/ hung)

=============================================================================
