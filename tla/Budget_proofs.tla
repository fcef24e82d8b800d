--------------------------- MODULE Budget_proofs ---------------------------
(* Proofs about Budget: who may reserve, what a row counts for, and that   *)
(* reservations guard the budgets, for any number of calls, users, amounts *)
(* and months.                                                             *)
EXTENDS Budget, FiniteSetTheorems, TLAPS

(* What a call asks for has its type (TypeOK also types what it summed).   *)
AskingTyped ==
  /\ call = [c \in Calls |-> call[c]]
  /\ \A c \in Calls : call[c].at \in {"waiting", "summed"} =>
       call[c].user \in Users /\ call[c].month \in Months /\ call[c].amount \in Amounts

RowsTyped == usage \in [Calls -> UsageRow \cup {None}] /\ month \in Months

(* Between the sum and the insertion there is one call at most: the one    *)
(* that holds the advisory lock (budget.go 22).                            *)
LockHeld == \A c \in Calls : advisory = c <=> call[c].at = "summed"

(* The row of a call under way is open, or the cleanup has closed it.      *)
RowInFlight ==
  \A c \in Calls : call[c].at = "calling" =>
    /\ c \in Rows
    /\ usage[c].status = "reserved" \/ usage[c].cost = usage[c].reserved

(* The inductive invariant. *)
IInv == AskingTyped /\ RowsTyped /\ LockHeld /\ RowInFlight
-----------------------------------------------------------------------------
(* A call moves itself and no other. *)
LEMMA GotoMoves ==
  ASSUME AskingTyped, NEW c \in Calls, NEW state, Goto(c, state)
  PROVE  /\ call'[c] = state
         /\ \A d \in Calls \ {c} : call'[d] = call[d]
         /\ call' = [d \in Calls |-> call'[d]]
BY DEF AskingTyped, Goto

(* Every way to close a row gives a row. *)
LEMMA ClosedRowTyped ==
  ASSUME NEW row \in UsageRow
  PROVE  /\ Expired(row) \in UsageRow
         /\ \A outcome \in Outcome : Settled(row, outcome) \in UsageRow
<1>1. Rejected(row) \in UsageRow /\ Unmetered(row) \in UsageRow /\ Expired(row) \in UsageRow
  BY BudgetAssumption DEF UsageRow, Rejected, Unmetered, Expired
<1>2. ASSUME NEW cost \in Costs PROVE Estimated(row, cost) \in UsageRow /\ Metered(row, cost) \in UsageRow
  <2>1. cost \in Nat /\ Least(row.reserved, cost) \in Nat
    BY BudgetAssumption DEF UsageRow, Least
  <2> QED BY <2>1 DEF UsageRow, Estimated, Metered
<1>3. ASSUME NEW outcome \in Outcome PROVE Settled(row, outcome) \in UsageRow
  <2>1. CASE outcome.reply \in {"rejected", "uncounted"}
    BY <1>1, <2>1 DEF Settled
  <2>2. CASE outcome.reply \in {"estimated", "counted"}
    <3>1. outcome.cost \in Costs
      BY <2>2 DEF Outcome
    <3> QED BY <1>2, <2>2, <3>1 DEF Settled
  <2> QED BY <2>1, <2>2 DEF Outcome
<1> QED BY <1>1, <1>3

(* Nothing is reserved at first. *)
LEMMA InitIInv == Init => IInv
<1> SUFFICES ASSUME Init PROVE IInv
  OBVIOUS
<1>1. month \in Months
  BY BudgetAssumption DEF Init, Months
<1>2. LockHeld /\ AskingTyped /\ RowInFlight
  BY BudgetAssumption DEF Init, LockHeld, AskingTyped, RowInFlight
<1> QED BY <1>1, <1>2 DEF Init, IInv, RowsTyped

(* Every step keeps the invariant, one action at a time. *)
LEMMA NextIInv == IInv /\ [Next]_vars => IInv'
<1> SUFFICES ASSUME IInv, [Next]_vars PROVE IInv'
  OBVIOUS
<1> USE DEF IInv
<1>1. ASSUME NEW c \in Calls, NEW u \in Users, NEW amount \in Amounts, ReserveBegin(c, u, amount)
      PROVE  IInv'
  <2>1. PICK state : /\ Goto(c, state) /\ state.at = "waiting"
                     /\ state.user \in Users /\ state.month \in Months /\ state.amount \in Amounts
    <3> DEFINE state == [at |-> "waiting", user |-> u, month |-> month, amount |-> amount]
    <3> WITNESS state
    <3> QED BY <1>1 DEF ReserveBegin, RowsTyped
  <2>2. AskingTyped'
    BY <2>1, GotoMoves DEF AskingTyped
  <2>3. RowsTyped' /\ LockHeld' /\ RowInFlight'
    BY <1>1, <2>1, GotoMoves DEF ReserveBegin, RowsTyped, LockHeld, RowInFlight, Rows
  <2> QED BY <2>2, <2>3
<1>2. ASSUME NEW c \in Calls, ReserveSum(c) PROVE IInv'
  <2>1. PICK state : /\ Goto(c, state) /\ state.at = "summed" /\ state.user = call[c].user
                     /\ state.month = call[c].month /\ state.amount = call[c].amount
    <3> DEFINE t == call[c]
               state == [at |-> "summed", user |-> t.user, month |-> t.month, amount |-> t.amount,
                         spent |-> Spent(t.user, t.month), total |-> Total(t.month)]
    <3> WITNESS state
    <3> QED BY <1>2 DEF ReserveSum
  <2>2. AskingTyped'
    BY <1>2, <2>1, GotoMoves DEF AskingTyped, ReserveSum
  <2>3. LockHeld'
    BY <1>2, <2>1, GotoMoves, BudgetAssumption DEF LockHeld, ReserveSum
  <2>4. RowsTyped' /\ RowInFlight'
    BY <1>2, <2>1, GotoMoves DEF ReserveSum, RowsTyped, RowInFlight, Rows
  <2> QED BY <2>2, <2>3, <2>4
<1>3. ASSUME NEW c \in Calls, ReserveInsert(c) PROVE IInv'
  <2> DEFINE row == [user |-> call[c].user, month |-> call[c].month, status |-> "reserved",
                     reserved |-> call[c].amount, cost |-> 0]
  <2>1. row \in UsageRow /\ row # None
    <3>1. row \in UsageRow
      BY <1>3 DEF ReserveInsert, AskingTyped, UsageRow
    <3> QED BY <3>1, NoneIsNoRow
  <2>2. usage'[c] = row /\ \A d \in Calls \ {c} : usage'[d] = usage[d]
    BY <1>3 DEF ReserveInsert, RowsTyped
  <2>3. RowsTyped' /\ AskingTyped'
    BY <1>3, <2>1, GotoMoves DEF ReserveInsert, RowsTyped, AskingTyped
  <2>4. LockHeld'
    BY <1>3, GotoMoves, BudgetAssumption DEF ReserveInsert, LockHeld
  <2>5. RowInFlight'
    BY <1>3, <2>1, <2>2, GotoMoves DEF ReserveInsert, RowInFlight, Rows
  <2> QED BY <2>3, <2>4, <2>5
<1>4. ASSUME NEW c \in Calls, ReserveRefused(c) PROVE IInv'
  BY <1>4, GotoMoves, BudgetAssumption
  DEF ReserveRefused, AskingTyped, RowsTyped, LockHeld, RowInFlight, Rows
<1>5. ASSUME NEW c \in Calls, Settle(c) PROVE IInv'
  <2>1. PICK row \in UsageRow : usage' = [usage EXCEPT ![c] = row]
    <3>1. usage[c] \in UsageRow
      BY <1>5 DEF Settle, RowInFlight, Rows, RowsTyped
    <3> QED BY <1>5, <3>1, ClosedRowTyped DEF Settle
  <2>2. RowsTyped' /\ AskingTyped' /\ LockHeld'
    BY <1>5, <2>1, GotoMoves DEF Settle, RowsTyped, AskingTyped, LockHeld
  <2>3. RowInFlight'
    BY <1>5, <2>1, GotoMoves DEF Settle, RowInFlight, RowsTyped, Rows
  <2> QED BY <2>2, <2>3
<1>6. ASSUME NEW c \in Calls, SettleLost(c) PROVE IInv'
  BY <1>6, GotoMoves DEF SettleLost, AskingTyped, RowsTyped, LockHeld, RowInFlight, Rows
<1>7. ASSUME NEW c \in Calls, Crash(c) PROVE IInv'
  <2>1. RowsTyped' /\ AskingTyped' /\ RowInFlight'
    BY <1>7, GotoMoves DEF Crash, AskingTyped, RowsTyped, RowInFlight, Rows
  <2>2. LockHeld'
    BY <1>7, GotoMoves, BudgetAssumption DEF Crash, LockHeld
  <2> QED BY <2>1, <2>2
<1>8. ASSUME NEW c \in Calls, Cleanup(c) PROVE IInv'
  <2>1. usage[c] \in UsageRow
    BY <1>8 DEF Cleanup, Open, Rows, RowsTyped
  <2>2. Expired(usage[c]) \in UsageRow /\ Expired(usage[c]).cost = Expired(usage[c]).reserved
    BY <2>1, BudgetAssumption DEF Expired, UsageRow
  <2>3. usage' = [usage EXCEPT ![c] = Expired(usage[c])]
    BY <1>8 DEF Cleanup
  <2>4. RowsTyped' /\ AskingTyped' /\ LockHeld'
    BY <1>8, <2>2, <2>3 DEF Cleanup, RowsTyped, AskingTyped, LockHeld
  <2>5. RowInFlight'
    BY <1>8, <2>2, <2>3, NoneIsNoRow DEF Cleanup, RowInFlight, RowsTyped, Rows
  <2> QED BY <2>4, <2>5
<1>9. CASE NextMonth
  BY <1>9, BudgetAssumption DEF NextMonth, AskingTyped, RowsTyped, LockHeld, RowInFlight, Rows, Months
<1>10. CASE Hang \/ UNCHANGED vars
  BY <1>10 DEF Hang, vars, AskingTyped, RowsTyped, LockHeld, RowInFlight, Rows
<1> QED BY <1>1, <1>2, <1>3, <1>4, <1>5, <1>6, <1>7, <1>8, <1>9, <1>10 DEF Next, Step
-----------------------------------------------------------------------------
(* One call at a time is between summing what has been spent and inserting *)
(* its own reservation: no two reservations rest on the same sums.         *)
THEOREM OneReservesAtATime ==
  Spec => [](\A c, d \in Calls : call[c].at = "summed" /\ call[d].at = "summed" => c = d)
<1>1. IInv => \A c, d \in Calls : call[c].at = "summed" /\ call[d].at = "summed" => c = d
  BY DEF IInv, LockHeld
<1> QED BY <1>1, InitIInv, NextIInv, PTL DEF Spec

(* InFlightIsCharged: while an answer may still come, its month pays at    *)
(* least what was reserved, whatever the cleanup does meanwhile.           *)
THEOREM InFlightCharged == Spec => []InFlightIsCharged
<1>1. IInv => InFlightIsCharged
  <2> SUFFICES ASSUME IInv, NEW c \in Calls, call[c].at = "calling"
               PROVE  Charge(c) >= usage[c].reserved
    BY DEF InFlightIsCharged
  <2>1. usage[c] \in UsageRow
    BY DEF IInv, RowInFlight, Rows, RowsTyped
  <2>2. usage[c].reserved \in Nat
    BY <2>1, BudgetAssumption DEF UsageRow
  <2> QED BY <2>2 DEF IInv, RowInFlight, Charge
<1> QED BY <1>1, InitIInv, NextIInv, PTL DEF Spec
-----------------------------------------------------------------------------
(* The sums *)

(* Of what a row is charged, the part that was reserved for it.            *)
Kept(S) == {x \in Thb(S) : x[2] <= usage[x[1]].reserved}

(* The rows of some users in a month, and since a month.                   *)
Of(m, U) == {c \in Rows : usage[c].month = m /\ usage[c].user \in U}
From(m, U) == {c \in Rows : usage[c].month >= m /\ usage[c].user \in U}

(* What is charged for a row, THB by THB. *)
LEMMA ThbAre ==
  ASSUME NEW S
  PROVE  \A c, n : <<c, n>> \in Thb(S) <=> c \in S /\ n \in 1 .. Charge(c)
BY DEF Thb

(* And the pairs are all it has. *)
LEMMA ThbPairs ==
  ASSUME NEW S, NEW x \in Thb(S)
  PROVE  x = <<x[1], x[2]>> /\ x[1] \in S /\ x[2] \in 1 .. Charge(x[1])
BY DEF Thb

(* Rows charge natural numbers. *)
LEMMA RowCharges ==
  ASSUME RowsTyped, NEW c \in Rows
  PROVE  /\ usage[c] \in UsageRow /\ Charge(c) \in Nat /\ usage[c].reserved \in Nat
         /\ usage[c].user \in Users /\ usage[c].month \in Months
<1>1. usage[c] \in UsageRow
  BY DEF RowsTyped, Rows
<1>2. PICK row \in UsageRow : row = usage[c]
  BY <1>1
<1> QED BY <1>2, BudgetAssumption DEF UsageRow, Charge

(* One row has as many THB as it charges. *)
LEMMA RowSum ==
  ASSUME NEW c, NEW n \in Nat
  PROVE  IsFiniteSet({c} \X (1 .. n)) /\ Cardinality({c} \X (1 .. n)) = n
<1>1. IsFiniteSet(1 .. n) /\ Cardinality(1 .. n) = n
  <2>1. /\ IsFiniteSet(1 .. n)
        /\ Cardinality(1 .. n) = IF 1 > n THEN 0 ELSE n - 1 + 1
    BY FS_Interval
  <2> QED BY <2>1
<1>2. IsFiniteSet({c}) /\ Cardinality({c}) = 1
  BY FS_Singleton
<1> QED BY <1>1, <1>2, FS_Product

(* A part of a finite set, and a finite set with so many more. *)
LEMMA Parts ==
  ASSUME NEW T, IsFiniteSet(T), NEW S
  PROVE  /\ Cardinality(T) \in Nat
         /\ S \subseteq T => IsFiniteSet(S) /\ Cardinality(S) \in Nat /\ Cardinality(S) <= Cardinality(T)
         /\ IsFiniteSet(S) => /\ IsFiniteSet(T \cup S) /\ Cardinality(T \cup S) \in Nat
                              /\ Cardinality(T \cup S) <= Cardinality(T) + Cardinality(S)
<1>1. Cardinality(T) \in Nat
  BY FS_CardinalityType
<1>2. ASSUME S \subseteq T PROVE IsFiniteSet(S) /\ Cardinality(S) \in Nat /\ Cardinality(S) <= Cardinality(T)
  BY <1>2, FS_Subset, FS_CardinalityType
<1>3. ASSUME IsFiniteSet(S)
      PROVE  /\ IsFiniteSet(T \cup S) /\ Cardinality(T \cup S) \in Nat
             /\ Cardinality(T \cup S) <= Cardinality(T) + Cardinality(S)
  <2>1. /\ IsFiniteSet(T \cup S)
        /\ Cardinality(T \cup S) = Cardinality(T) + Cardinality(S) - Cardinality(T \cap S)
    BY <1>3, FS_Union
  <2>2. T \cap S \subseteq T
    OBVIOUS
  <2>3. IsFiniteSet(T \cap S)
    BY <2>2, FS_Subset
  <2>4. Cardinality(T \cap S) \in Nat /\ Cardinality(S) \in Nat /\ Cardinality(T \cup S) \in Nat
    BY <1>3, <2>1, <2>3, FS_CardinalityType
  <2> QED BY <1>1, <2>1, <2>4
<1> QED BY <1>1, <1>2, <1>3
-----------------------------------------------------------------------------
(* Reservations guard the budgets *)

(* What is kept of these rows' charges is at most so much. *)
Within(S, limit) == Cardinality(Kept(S)) <= limit

(* The reservations of a month are within the application's ceiling, and   *)
(* those of each user within his budget.                                   *)
RowsWithin ==
  /\ IsFiniteSet(Thb(Rows))
  /\ \A m \in Months :
       /\ Within(Of(m, Users), Cap)
       /\ \A u \in Users : Within(Of(m, {u}), Allowance[u])

(* Since a call has summed, settling and the cleanup have not raised what  *)
(* is kept, and nobody else has inserted a row: its sums still bound it.   *)
SumsHold ==
  \A c \in Calls : call[c].at = "summed" =>
    /\ call[c].total \in Nat /\ call[c].spent \in Nat
    /\ Within(From(call[c].month, Users), call[c].total)
    /\ Within(From(call[c].month, {call[c].user}), call[c].spent)

(* Nobody's month is charged for more of what was reserved than before:    *)
(* what a step does that inserts no row.                                   *)
Relaxes ==
  \A c \in Rows' :
    /\ c \in Rows
    /\ usage'[c].user = usage[c].user /\ usage'[c].month = usage[c].month
    /\ usage'[c].reserved = usage[c].reserved
    /\ \A n \in 1 .. usage[c].reserved : n <= Charge(c)' => n <= Charge(c)

(* Rows of the table are charged so much altogether, all of it kept or not. *)
LEMMA RowsFinite ==
  ASSUME IsFiniteSet(Thb(Rows)), NEW S, S \subseteq Rows
  PROVE  /\ IsFiniteSet(Thb(S)) /\ Cardinality(Thb(S)) \in Nat
         /\ IsFiniteSet(Kept(S)) /\ Cardinality(Kept(S)) \in Nat
<1>1. Thb(S) \subseteq Thb(Rows) /\ Kept(S) \subseteq Thb(Rows)
  BY DEF Thb, Kept
<1> QED BY <1>1, Parts

(* Then as much is kept as before, or less. *)
LEMMA RelaxedKeeps ==
  ASSUME RowsTyped, RowsTyped', Relaxes, NEW m, NEW U
  PROVE  Kept(Of(m, U))' \subseteq Kept(Of(m, U)) /\ Kept(From(m, U))' \subseteq Kept(From(m, U))
<1>1. Of(m, U)' \subseteq Of(m, U) /\ From(m, U)' \subseteq From(m, U)
  BY DEF Of, From, Relaxes
<1>2. ASSUME NEW S, S \subseteq Rows, NEW R, R \subseteq Rows', R \subseteq S,
             NEW c \in R, NEW n \in 1 .. Charge(c)', n <= usage'[c].reserved
      PROVE  <<c, n>> \in Thb(S) /\ n <= usage[c].reserved
  <2>1. /\ c \in Rows' /\ c \in Rows /\ usage'[c].reserved = usage[c].reserved
        /\ \A i \in 1 .. usage[c].reserved : i <= Charge(c)' => i <= Charge(c)
    BY <1>2 DEF Relaxes
  <2>2. usage[c].reserved \in Nat /\ Charge(c) \in Nat
    BY <2>1, RowCharges
  <2>3. PICK k \in Nat : k = Charge(c)'
    <3>1. usage'[c] \in UsageRow
      BY <2>1 DEF RowsTyped, Rows
    <3>2. PICK row \in UsageRow : row = usage'[c]
      BY <3>1
    <3> QED BY <3>2, BudgetAssumption DEF UsageRow, Charge
  <2>4. n \in Nat /\ n >= 1 /\ n <= usage[c].reserved /\ n <= Charge(c)'
    BY <1>2, <2>1, <2>3
  <2>5. n \in 1 .. Charge(c)
    BY <2>1, <2>2, <2>4
  <2> QED BY <1>2, <2>4, <2>5, ThbAre
<1>3. ASSUME NEW x \in Kept(Of(m, U))' PROVE x \in Kept(Of(m, U))
  <2>1. x = <<x[1], x[2]>> /\ x[1] \in Of(m, U)' /\ x[2] \in 1 .. Charge(x[1])' /\ x[2] <= usage'[x[1]].reserved
    BY <1>3 DEF Kept, Thb, Charge
  <2>2. Of(m, U) \subseteq Rows /\ Of(m, U)' \subseteq Rows'
    BY DEF Of
  <2>3. <<x[1], x[2]>> \in Thb(Of(m, U)) /\ x[2] <= usage[x[1]].reserved
    BY <1>1, <1>2, <2>1, <2>2 DEF Charge
  <2> QED BY <2>1, <2>3 DEF Kept
<1>4. ASSUME NEW x \in Kept(From(m, U))' PROVE x \in Kept(From(m, U))
  <2>1. x = <<x[1], x[2]>> /\ x[1] \in From(m, U)' /\ x[2] \in 1 .. Charge(x[1])' /\ x[2] <= usage'[x[1]].reserved
    BY <1>4 DEF Kept, Thb, Charge
  <2>2. From(m, U) \subseteq Rows /\ From(m, U)' \subseteq Rows'
    BY DEF From
  <2>3. <<x[1], x[2]>> \in Thb(From(m, U)) /\ x[2] <= usage[x[1]].reserved
    BY <1>1, <1>2, <2>1, <2>2 DEF Charge
  <2> QED BY <2>1, <2>3 DEF Kept
<1> QED BY <1>3, <1>4

(* A table in which one row is written is still charged so much altogether. *)
LEMMA WrittenFinite ==
  ASSUME RowsTyped, IsFiniteSet(Thb(Rows)), NEW c \in Calls, NEW row \in UsageRow,
         usage' = [usage EXCEPT ![c] = row]
  PROVE  IsFiniteSet(Thb(Rows)')
<1>1. usage'[c] = row /\ \A d \in Calls \ {c} : usage'[d] = usage[d]
  BY DEF RowsTyped
<1>2. PICK n \in Nat : n = Charge(c)'
  BY <1>1, BudgetAssumption DEF UsageRow, Charge
<1>3. Thb(Rows)' \subseteq Thb(Rows) \cup ({c} \X (1 .. n))
  <2>1. SUFFICES ASSUME NEW x \in Thb(Rows)' PROVE x \in Thb(Rows) \cup ({c} \X (1 .. n))
    OBVIOUS
  <2>2. x = <<x[1], x[2]>> /\ x[1] \in Rows' /\ x[2] \in 1 .. Charge(x[1])'
    BY <2>1 DEF Thb, Charge
  <2>3. CASE x[1] = c
    BY <1>2, <2>2, <2>3
  <2>4. CASE x[1] # c
    <3>1. x[1] \in Rows /\ Charge(x[1])' = Charge(x[1])
      BY <1>1, <2>2, <2>4 DEF Rows, Charge
    <3> QED BY <2>2, <3>1, ThbAre
  <2> QED BY <2>3, <2>4
<1>4. IsFiniteSet({c} \X (1 .. n))
  BY RowSum
<1> QED BY <1>3, <1>4, Parts, FS_Subset

(* What is within a limit is so after a step that keeps less. *)
LEMMA LessIsWithin ==
  ASSUME NEW K, IsFiniteSet(K), NEW L, L \subseteq K, NEW limit \in Nat, Cardinality(K) <= limit
  PROVE  Cardinality(L) <= limit
<1>1. Cardinality(K) \in Nat /\ Cardinality(L) \in Nat /\ Cardinality(L) <= Cardinality(K)
  BY Parts
<1> QED BY <1>1

(* A step that inserts no row keeps the budgets and the sums. *)
LEMMA RelaxedHolds ==
  ASSUME IInv, IInv', RowsWithin, SumsHold, Relaxes, IsFiniteSet(Thb(Rows)'),
         \A c \in Calls : call'[c].at = "summed" => call'[c] = call[c]
  PROVE  RowsWithin' /\ SumsHold'
<1>1. RowsTyped /\ RowsTyped' /\ IsFiniteSet(Thb(Rows))
  BY DEF IInv, RowsWithin
<1>2. ASSUME NEW m, NEW U, NEW limit \in Nat
      PROVE  /\ Within(Of(m, U), limit) => Within(Of(m, U), limit)'
             /\ Within(From(m, U), limit) => Within(From(m, U), limit)'
  <2>1. Kept(Of(m, U))' \subseteq Kept(Of(m, U)) /\ Kept(From(m, U))' \subseteq Kept(From(m, U))
    BY <1>1, RelaxedKeeps
  <2>2. IsFiniteSet(Kept(Of(m, U))) /\ IsFiniteSet(Kept(From(m, U)))
    <3>1. Of(m, U) \subseteq Rows /\ From(m, U) \subseteq Rows
      BY DEF Of, From
    <3> QED BY <1>1, <3>1, RowsFinite
  <2>3. Within(Of(m, U), limit) => Within(Of(m, U), limit)'
    BY <2>1, <2>2, LessIsWithin DEF Within
  <2>4. Within(From(m, U), limit) => Within(From(m, U), limit)'
    BY <2>1, <2>2, LessIsWithin DEF Within
  <2> QED BY <2>3, <2>4
<1>3. RowsWithin'
  <2>1. ASSUME NEW m \in Months, NEW u \in Users
        PROVE  Within(Of(m, Users), Cap)' /\ Within(Of(m, {u}), Allowance[u])'
    <3>1. Cap \in Nat /\ Allowance[u] \in Nat
      BY BudgetAssumption
    <3> QED BY <1>2, <3>1 DEF RowsWithin
  <2>2. ASSUME NEW m \in Months PROVE Within(Of(m, Users), Cap)'
    BY <1>2, BudgetAssumption DEF RowsWithin
  <2> QED BY <2>1, <2>2 DEF RowsWithin
<1>4. SumsHold'
  <2> SUFFICES ASSUME NEW c \in Calls, call'[c].at = "summed"
               PROVE  /\ call'[c].total \in Nat /\ call'[c].spent \in Nat
                      /\ Within(From(call[c].month, Users), call[c].total)'
                      /\ Within(From(call[c].month, {call[c].user}), call[c].spent)'
    BY DEF SumsHold
  <2>1. PICK m, u, total, spent : m = call[c].month /\ u = call[c].user /\ total = call[c].total /\ spent = call[c].spent
    OBVIOUS
  <2>2. /\ call'[c] = call[c] /\ total \in Nat /\ spent \in Nat
        /\ Within(From(m, Users), total) /\ Within(From(m, {u}), spent)
    BY <2>1 DEF SumsHold
  <2>3. m = call'[c].month /\ u = call'[c].user /\ total = call'[c].total /\ spent = call'[c].spent
    BY <2>1, <2>2
  <2> QED BY <1>2, <2>1, <2>2, <2>3
<1> QED BY <1>3, <1>4

(* Whoever sums knows what is kept, and more: all that is charged. *)
LEMMA SummedHolds ==
  ASSUME IInv, IInv', RowsWithin, SumsHold, NEW c \in Calls, ReserveSum(c)
  PROVE  RowsWithin' /\ SumsHold'
<1>1. PICK m, u : m = call[c].month /\ u = call[c].user
  OBVIOUS
<1>2. PICK state : /\ Goto(c, state) /\ state.month = m /\ state.user = u
                   /\ state.spent = Spent(u, m) /\ state.total = Total(m)
  <2> DEFINE t == call[c]
             state == [at |-> "summed", user |-> t.user, month |-> t.month, amount |-> t.amount,
                       spent |-> Spent(t.user, t.month), total |-> Total(t.month)]
  <2> WITNESS state
  <2> QED BY <1>1 DEF ReserveSum
<1>3. usage' = usage
  BY DEF ReserveSum
<1>4. RowsWithin'
  BY <1>3 DEF RowsWithin, Within, Kept, Of, Thb, Rows, Charge
<1>5. /\ call'[c].month = m /\ call'[c].user = u /\ call'[c].spent = Spent(u, m) /\ call'[c].total = Total(m)
      /\ \A d \in Calls \ {c} : call'[d] = call[d]
  BY <1>2, GotoMoves DEF IInv
<1>6. u \in Users
  BY <1>1 DEF IInv, AskingTyped, ReserveSum
<1>7. ASSUME NEW n, NEW U
      PROVE  From(n, U)' = From(n, U) /\ Kept(From(n, U))' = Kept(From(n, U))
  BY <1>3 DEF From, Kept, Thb, Rows, Charge
<1>8. ASSUME NEW S, S \subseteq Rows
      PROVE  Sum(S) \in Nat /\ Cardinality(Kept(S)) <= Sum(S)
  <2>1. IsFiniteSet(Thb(S)) /\ Kept(S) \subseteq Thb(S)
    BY <1>8, RowsFinite DEF RowsWithin, Kept
  <2> QED BY <2>1, Parts DEF Sum
<1>9. Total(m) \in Nat /\ Cardinality(Kept(From(m, Users))) <= Total(m)
  <2>1. From(m, Users) = Since(m) /\ Since(m) \subseteq Rows
    BY RowCharges DEF From, Since, IInv
  <2> QED BY <1>8, <2>1 DEF Total
<1>10. Spent(u, m) \in Nat /\ Cardinality(Kept(From(m, {u}))) <= Spent(u, m)
  <2>1. From(m, {u}) = {d \in Since(m) : usage[d].user = u} /\ From(m, {u}) \subseteq Rows
    BY DEF From, Since
  <2> QED BY <1>8, <2>1 DEF Spent
<1>11. SumsHold'
  <2> SUFFICES ASSUME NEW d \in Calls, call'[d].at = "summed"
               PROVE  /\ call'[d].total \in Nat /\ call'[d].spent \in Nat
                      /\ Within(From(call[d].month, Users), call[d].total)'
                      /\ Within(From(call[d].month, {call[d].user}), call[d].spent)'
    BY DEF SumsHold
  <2>1. PICK n, v : n = call'[d].month /\ v = call'[d].user
    OBVIOUS
  <2>2. /\ call'[d].total \in Nat /\ call'[d].spent \in Nat
        /\ Cardinality(Kept(From(n, Users))) <= call'[d].total
        /\ Cardinality(Kept(From(n, {v}))) <= call'[d].spent
    <3>1. CASE d = c
      BY <1>5, <1>9, <1>10, <2>1, <3>1
    <3>2. CASE d # c
      BY <1>5, <2>1, <3>2 DEF SumsHold, Within
    <3> QED BY <3>1, <3>2
  <2>3. /\ Kept(From(call[d].month, Users))' = Kept(From(n, Users))
        /\ Kept(From(call[d].month, {call[d].user}))' = Kept(From(n, {v}))
    BY <1>7, <2>1
  <2> QED BY <2>2, <2>3 DEF Within
<1> QED BY <1>4, <1>11

(* Whoever inserts a row has the budgets' room for it: what is kept of a   *)
(* month is part of what was kept when it summed, and the row's amount.    *)
LEMMA InsertedHolds ==
  ASSUME IInv, IInv', RowsWithin, SumsHold, NEW c \in Calls, ReserveInsert(c)
  PROVE  RowsWithin' /\ SumsHold'
<1>1. PICK month0, user0, amount0, total0, spent0 :
        /\ month0 = call[c].month /\ user0 = call[c].user /\ amount0 = call[c].amount
        /\ total0 = call[c].total /\ spent0 = call[c].spent
  OBVIOUS
<1> DEFINE row == [user |-> user0, month |-> month0, status |-> "reserved", reserved |-> amount0, cost |-> 0]
           new == {c} \X (1 .. amount0)
<1>2. /\ call[c].at = "summed"
      /\ user0 \in Users /\ month0 \in Months /\ amount0 \in Nat /\ total0 \in Nat /\ spent0 \in Nat
      /\ amount0 \in Amounts
      /\ spent0 + amount0 <= Allowance[user0] /\ total0 + amount0 <= Cap
  BY <1>1, BudgetAssumption DEF ReserveInsert, Fits, IInv, AskingTyped, SumsHold
<1>3. row \in UsageRow /\ row # None
  <2>1. row \in UsageRow
    BY <1>2 DEF UsageRow
  <2> QED BY <2>1, NoneIsNoRow
<1>4. usage' = [usage EXCEPT ![c] = row] /\ usage'[c] = row /\ \A d \in Calls \ {c} : usage'[d] = usage[d]
  BY <1>1 DEF ReserveInsert, IInv, RowsTyped
<1>5. IsFiniteSet(Thb(Rows)')
  BY <1>3, <1>4, WrittenFinite DEF IInv, RowsWithin
<1>6. IsFiniteSet(new) /\ Cardinality(new) = amount0
  BY <1>2, RowSum
<1>7. ASSUME NEW m, NEW U, NEW x \in Kept(Of(m, U))'
      PROVE  \/ x \in Kept(Of(m, U)) /\ x[1] \in Of(m, U)
             \/ x \in new /\ m = month0 /\ user0 \in U
  <2>1. x = <<x[1], x[2]>> /\ x[1] \in Of(m, U)' /\ x[2] \in 1 .. Charge(x[1])' /\ x[2] <= usage'[x[1]].reserved
    BY <1>7 DEF Kept, Thb, Charge
  <2>2. x[1] \in Calls /\ usage'[x[1]] # None /\ usage'[x[1]].month = m /\ usage'[x[1]].user \in U
    BY <2>1 DEF Of, Rows
  <2>3. CASE x[1] = c
    <3>1. usage'[c].status = "reserved" /\ usage'[c].reserved = amount0 /\ usage'[c].month = month0 /\ usage'[c].user = user0
      BY <1>4
    <3>2. Charge(c)' = amount0
      BY <3>1 DEF Charge
    <3> QED BY <2>1, <2>2, <2>3, <3>1, <3>2
  <2>4. CASE x[1] # c
    <3>1. x[1] \in Of(m, U) /\ Charge(x[1])' = Charge(x[1]) /\ usage'[x[1]] = usage[x[1]]
      BY <1>4, <2>2, <2>4 DEF Of, Rows, Charge
    <3>2. x \in Thb(Of(m, U))
      BY <2>1, <3>1, ThbAre
    <3> QED BY <2>1, <3>1, <3>2 DEF Kept
  <2> QED BY <2>3, <2>4
<1> HIDE DEF new
<1>8. ASSUME NEW m, NEW U, NEW limit \in Nat, Within(Of(m, U), limit), m # month0 \/ user0 \notin U
      PROVE  Within(Of(m, U), limit)'
  <2>1. Kept(Of(m, U))' \subseteq Kept(Of(m, U))
    BY <1>7, <1>8
  <2>2. IsFiniteSet(Kept(Of(m, U)))
    <3>1. Of(m, U) \subseteq Rows
      BY DEF Of
    <3> QED BY <3>1, RowsFinite DEF RowsWithin
  <2> QED BY <1>8, <2>1, <2>2, LessIsWithin DEF Within
<1>9. ASSUME NEW U, NEW sum \in Nat, Within(From(month0, U), sum), NEW limit \in Nat, sum + amount0 <= limit
      PROVE  Within(Of(month0, U), limit)'
  <2>1. Kept(Of(month0, U)) \subseteq Kept(From(month0, U))
    <3>1. Of(month0, U) \subseteq From(month0, U)
      BY <1>2, RowCharges DEF Of, From, IInv, Months
    <3> QED BY <3>1 DEF Kept, Thb
  <2>2. Kept(Of(month0, U))' \subseteq Kept(From(month0, U)) \cup new
    BY <1>7, <2>1
  <2>3. IsFiniteSet(Kept(From(month0, U))) /\ Cardinality(Kept(From(month0, U))) \in Nat
    <3>1. From(month0, U) \subseteq Rows
      BY DEF From
    <3> QED BY <3>1, RowsFinite DEF RowsWithin
  <2>4. /\ IsFiniteSet(Kept(From(month0, U)) \cup new) /\ Cardinality(Kept(From(month0, U)) \cup new) \in Nat
        /\ Cardinality(Kept(From(month0, U)) \cup new) <= Cardinality(Kept(From(month0, U))) + amount0
    BY <1>6, <2>3, Parts
  <2>5. Cardinality(Kept(From(month0, U)) \cup new) <= limit
    BY <1>2, <1>9, <2>3, <2>4 DEF Within
  <2> QED BY <2>2, <2>4, <2>5, LessIsWithin DEF Within
<1>10. Within(From(month0, Users), total0) /\ Within(From(month0, {user0}), spent0)
  BY <1>1, <1>2 DEF SumsHold
<1>11. ASSUME NEW m \in Months PROVE Within(Of(m, Users), Cap)'
  <2>1. CASE m = month0
    BY <1>2, <1>9, <1>10, <2>1, BudgetAssumption
  <2>2. CASE m # month0
    BY <1>8, <2>2, BudgetAssumption DEF RowsWithin
  <2> QED BY <2>1, <2>2
<1>12. ASSUME NEW m \in Months, NEW u \in Users PROVE Within(Of(m, {u}), Allowance[u])'
  <2>1. Allowance[u] \in Nat
    BY BudgetAssumption
  <2>2. CASE m = month0 /\ u = user0
    BY <1>2, <1>9, <1>10, <2>1, <2>2
  <2>3. CASE m # month0 \/ u # user0
    BY <1>8, <2>1, <2>3 DEF RowsWithin
  <2> QED BY <2>2, <2>3
<1>13. RowsWithin'
  BY <1>5, <1>11, <1>12 DEF RowsWithin
<1>14. SumsHold'
  <2>1. advisory' = None
    BY DEF ReserveInsert
  <2>2. \A d \in Calls : call'[d].at # "summed"
    BY <2>1, BudgetAssumption DEF IInv, LockHeld
  <2> QED BY <2>2 DEF SumsHold
<1> QED BY <1>13, <1>14

(* Closing a row, by an answer or by the cleanup, keeps whose it is, and   *)
(* charges no more of what was reserved for it than was charged before:    *)
(* that was all of it. *)
LEMMA ClosedHolds ==
  ASSUME IInv, IInv', RowsWithin, SumsHold, NEW c \in Rows, NEW row \in UsageRow,
         usage' = [usage EXCEPT ![c] = row],
         row.user = usage[c].user, row.month = usage[c].month, row.reserved = usage[c].reserved,
         Charge(c) >= usage[c].reserved,
         \A d \in Calls : call'[d].at = "summed" => call'[d] = call[d]
  PROVE  RowsWithin' /\ SumsHold'
<1>1. c \in Calls /\ usage'[c] = row /\ \A d \in Calls \ {c} : usage'[d] = usage[d]
  BY DEF IInv, RowsTyped, Rows
<1>2. Relaxes
  <2> SUFFICES ASSUME NEW d \in Rows'
               PROVE  /\ d \in Rows
                      /\ usage'[d].user = usage[d].user /\ usage'[d].month = usage[d].month
                      /\ usage'[d].reserved = usage[d].reserved
                      /\ \A n \in 1 .. usage[d].reserved : n <= Charge(d)' => n <= Charge(d)
    BY DEF Relaxes
  <2>1. CASE d = c
    <3>1. Charge(c) \in Nat /\ usage[c].reserved \in Nat
      BY RowCharges DEF IInv
    <3>2. \A n \in 1 .. usage[c].reserved : n <= Charge(c)
      BY <3>1
    <3> QED BY <1>1, <2>1, <3>2
  <2>2. CASE d # c
    <3>1. d \in Rows /\ usage'[d] = usage[d]
      BY <1>1, <2>2 DEF Rows
    <3>2. Charge(d)' = Charge(d)
      BY <3>1 DEF Charge
    <3> QED BY <3>1, <3>2
  <2> QED BY <2>1, <2>2
<1>3. IsFiniteSet(Thb(Rows)')
  BY <1>1, WrittenFinite DEF IInv, RowsWithin
<1> QED BY <1>2, <1>3, RelaxedHolds

(* A step that leaves the table alone holds too. *)
LEMMA UntouchedHolds ==
  ASSUME IInv, IInv', RowsWithin, SumsHold, usage' = usage,
         \A d \in Calls : call'[d].at = "summed" => call'[d] = call[d]
  PROVE  RowsWithin' /\ SumsHold'
<1>1. Rows' = Rows /\ Thb(Rows)' = Thb(Rows) /\ \A c : Charge(c)' = Charge(c)
  BY DEF Rows, Thb, Charge
<1>2. Relaxes
  BY <1>1 DEF Relaxes
<1>3. IsFiniteSet(Thb(Rows)')
  BY <1>1 DEF RowsWithin
<1> QED BY <1>2, <1>3, RelaxedHolds

(* Every step keeps what is reserved within the budgets. *)
LEMMA NextWithin ==
  IInv /\ IInv' /\ RowsWithin /\ SumsHold /\ [Next]_vars => RowsWithin' /\ SumsHold'
<1> SUFFICES ASSUME IInv, IInv', RowsWithin, SumsHold, [Next]_vars PROVE RowsWithin' /\ SumsHold'
  OBVIOUS
<1>1. ASSUME NEW c \in Calls, NEW u \in Users, NEW amount \in Amounts, ReserveBegin(c, u, amount)
      PROVE  RowsWithin' /\ SumsHold'
  <2>1. PICK state : Goto(c, state) /\ state.at = "waiting"
    <3> DEFINE state == [at |-> "waiting", user |-> u, month |-> month, amount |-> amount]
    <3> WITNESS state
    <3> QED BY <1>1 DEF ReserveBegin
  <2> QED BY <1>1, <2>1, GotoMoves, UntouchedHolds DEF ReserveBegin, IInv
<1>2. ASSUME NEW c \in Calls, ReserveRefused(c) \/ SettleLost(c) \/ Crash(c)
      PROVE  RowsWithin' /\ SumsHold'
  <2>1. Goto(c, [at |-> "over"]) /\ usage' = usage
    BY <1>2 DEF ReserveRefused, SettleLost, Crash
  <2> QED BY <2>1, GotoMoves, UntouchedHolds DEF IInv
<1>3. ASSUME NEW c \in Calls, Settle(c) PROVE RowsWithin' /\ SumsHold'
  <2>1. /\ c \in Rows /\ usage[c] \in UsageRow /\ Charge(c) \in Nat /\ usage[c].reserved \in Nat
        /\ Charge(c) >= usage[c].reserved
    <3>1. c \in Rows
      BY <1>3 DEF Settle, IInv, RowInFlight
    <3>2. usage[c] \in UsageRow /\ Charge(c) \in Nat /\ usage[c].reserved \in Nat
      BY <3>1, RowCharges DEF IInv
    <3> QED BY <1>3, <3>1, <3>2 DEF Settle, IInv, RowInFlight, Charge
  <2>2. PICK outcome \in Outcome : usage' = [usage EXCEPT ![c] = Settled(usage[c], outcome)]
    BY <1>3 DEF Settle
  <2>3. PICK was \in UsageRow : was = usage[c]
    BY <2>1
  <2>4. PICK row \in UsageRow : row = Settled(was, outcome)
    BY ClosedRowTyped
  <2>5. row.user = was.user /\ row.month = was.month /\ row.reserved = was.reserved
    BY <2>4 DEF Outcome, Settled, Rejected, Unmetered, Estimated, Metered, UsageRow
  <2>6. \A d \in Calls : call'[d].at = "summed" => call'[d] = call[d]
    BY <1>3, GotoMoves DEF Settle, IInv
  <2> QED BY <2>1, <2>2, <2>3, <2>4, <2>5, <2>6, ClosedHolds
<1>4. ASSUME NEW c \in Calls, Cleanup(c) PROVE RowsWithin' /\ SumsHold'
  <2>1. /\ c \in Rows /\ usage[c] \in UsageRow /\ usage[c].reserved \in Nat
        /\ Charge(c) = usage[c].reserved
    BY <1>4, RowCharges DEF Cleanup, Open, IInv, Charge
  <2>2. Charge(c) >= usage[c].reserved
    BY <2>1
  <2>3. PICK was \in UsageRow : was = usage[c]
    BY <2>1
  <2>4. PICK row \in UsageRow : row = Expired(was)
    BY ClosedRowTyped
  <2>5. row.user = was.user /\ row.month = was.month /\ row.reserved = was.reserved
    BY <2>4 DEF Expired, UsageRow
  <2>6. usage' = [usage EXCEPT ![c] = row] /\ call' = call
    BY <1>4, <2>3, <2>4 DEF Cleanup
  <2>7. \A d \in Calls : call'[d].at = "summed" => call'[d] = call[d]
    BY <2>6
  <2> QED BY <2>1, <2>2, <2>3, <2>5, <2>6, <2>7, ClosedHolds
<1>5. CASE NextMonth \/ Hang \/ UNCHANGED vars
  BY <1>5, UntouchedHolds DEF NextMonth, Hang, vars
<1> QED BY <1>1, <1>2, <1>3, <1>4, <1>5, SummedHolds, InsertedHolds DEF Next, Step

(* At first there is nothing to charge. *)
LEMMA InitWithin == Init => RowsWithin /\ SumsHold
<1> SUFFICES ASSUME Init PROVE RowsWithin /\ SumsHold
  OBVIOUS
<1>1. Rows = {} /\ \A c \in Calls : call[c].at = "idle"
  BY DEF Init, Rows
<1>2. Thb(Rows) = {} /\ \A m, U : Kept(Of(m, U)) = {}
  BY <1>1 DEF Thb, Kept, Of
<1>3. IsFiniteSet(Thb(Rows)) /\ Cardinality({}) = 0
  BY <1>2, FS_EmptySet
<1>4. ASSUME NEW m, NEW U, NEW limit \in Nat PROVE Within(Of(m, U), limit)
  BY <1>2, <1>3 DEF Within
<1>5. RowsWithin
  <2>1. Cap \in Nat /\ \A u \in Users : Allowance[u] \in Nat
    BY BudgetAssumption
  <2> QED BY <1>3, <1>4, <2>1 DEF RowsWithin
<1>6. SumsHold
  BY <1>1 DEF SumsHold
<1> QED BY <1>5, <1>6

(* What is charged is what is kept and what the answers cost beyond it. *)
LEMMA KeptAndOverrun ==
  ASSUME IInv, RowsWithin, NEW S, S \subseteq Rows, NEW limit \in Nat, Within(S, limit)
  PROVE  Sum(S) <= limit + Overrun(S)
<1> DEFINE over == {x \in Thb(S) : x[2] > usage[x[1]].reserved}
<1>1. IsFiniteSet(Thb(S)) /\ IsFiniteSet(Kept(S)) /\ Cardinality(Kept(S)) \in Nat
  BY RowsFinite DEF RowsWithin
<1>2. over \subseteq Thb(S)
  OBVIOUS
<1>3. IsFiniteSet(over) /\ Cardinality(over) \in Nat
  BY <1>1, <1>2, Parts
<1>4. Thb(S) \subseteq Kept(S) \cup over
  <2> SUFFICES ASSUME NEW x \in Thb(S) PROVE x[2] <= usage[x[1]].reserved \/ x[2] > usage[x[1]].reserved
    BY DEF Kept
  <2>1. x[1] \in S /\ x[2] \in 1 .. Charge(x[1])
    BY ThbPairs
  <2>2. usage[x[1]].reserved \in Nat /\ Charge(x[1]) \in Nat
    BY <2>1, RowCharges DEF IInv
  <2> QED BY <2>1, <2>2
<1> HIDE DEF over
<1>5. /\ IsFiniteSet(Kept(S) \cup over) /\ Cardinality(Kept(S) \cup over) \in Nat
      /\ Cardinality(Kept(S) \cup over) <= Cardinality(Kept(S)) + Cardinality(over)
  BY <1>1, <1>3, Parts
<1>6. Cardinality(Thb(S)) \in Nat /\ Cardinality(Thb(S)) <= Cardinality(Kept(S) \cup over)
  BY <1>4, <1>5, Parts
<1>7. Cardinality(Thb(S)) <= limit + Cardinality(over)
  BY <1>1, <1>3, <1>5, <1>6 DEF Within
<1> QED BY <1>7 DEF Sum, Overrun, over

(* ReservationsGuard: however reservations, answers and the cleanup        *)
(* interleave, a month goes over the application's ceiling, and over the   *)
(* budget of a user, by no more than what its answers cost beyond their    *)
(* own reservations.                                                       *)
THEOREM Guarded == Spec => []ReservationsGuard
<1>1. IInv /\ RowsWithin => ReservationsGuard
  <2> SUFFICES ASSUME IInv, RowsWithin, NEW m \in Months
               PROVE  LET All == {c \in Rows : usage[c].month = m}
                          From1(u) == {c \in All : usage[c].user = u}
                      IN /\ Sum(All) <= Cap + Overrun(All)
                         /\ \A u \in Users : Sum(From1(u)) <= Allowance[u] + Overrun(From1(u))
    BY DEF ReservationsGuard
  <2> DEFINE All == {c \in Rows : usage[c].month = m}
  <2>1. Of(m, Users) = All /\ All \subseteq Rows
    BY RowCharges DEF IInv, Of
  <2>2. Sum(All) <= Cap + Overrun(All)
    <3>1. Within(All, Cap) /\ Cap \in Nat
      BY <2>1, BudgetAssumption DEF RowsWithin
    <3> QED BY <2>1, <3>1, KeptAndOverrun
  <2>3. ASSUME NEW u \in Users
        PROVE  Sum({c \in All : usage[c].user = u}) <= Allowance[u] + Overrun({c \in All : usage[c].user = u})
    <3> DEFINE Ofu == {c \in All : usage[c].user = u}
    <3>1. Of(m, {u}) = Ofu /\ Ofu \subseteq Rows
      BY DEF Of
    <3>2. Within(Ofu, Allowance[u]) /\ Allowance[u] \in Nat
      BY <3>1, BudgetAssumption DEF RowsWithin
    <3> HIDE DEF Ofu
    <3>3. Sum(Ofu) <= Allowance[u] + Overrun(Ofu)
      BY <3>1, <3>2, KeptAndOverrun
    <3> QED BY <3>3 DEF Ofu
  <2> QED BY <2>2, <2>3
<1> QED BY <1>1, InitIInv, NextIInv, InitWithin, NextWithin, PTL DEF Spec
=============================================================================
