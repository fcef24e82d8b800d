------------------------- MODULE LiveSummary_proofs -------------------------
(* Proofs about LiveSummary, for any number of sessions, connections, jobs *)
(* and slots of the worker, and any limits.                                *)
EXTENDS LiveSummary, TLAPS
-----------------------------------------------------------------------------
(* The lock of the learner's row is held by the connection that has looked *)
(* at the flags, and what it saw stays true.                               *)
LockHeld ==
  /\ \A c \in Conns : conn[c].step = "looked" <=> userLock = c
  /\ userLock # None => \A s \in Sessions : ~sess[s].live

(* Only an active session is Live, and a connection that was not swept is  *)
(* guarded by the flag of its session.                                     *)
FlagGuards ==
  /\ \A s \in Sessions : sess[s].live => sess[s].status = "active"
  /\ ~swept => \A c \in Conns : Open(c) => sess[conn[c].session].live

(* One connection at a time is not inductive without the lock and flag.    *)
LiveInv == LiveTypeOK /\ LockHeld /\ FlagGuards /\ OneAtATime

(* The states of a connection, by what they hold. *)
LEMMA ConnStates ==
  ASSUME LiveTypeOK, NEW c \in Conns
  PROVE  /\ conn[c] \in ConnState
         /\ conn[c].step \in {"none", "looked", "up", "serving", "closing"}
         /\ conn[c].step = "none" <=> conn[c] = Closed
         /\ conn[c] # Closed => conn[c].session \in Sessions
         /\ conn[c].step = "serving" => conn[c].minutes \in 1 .. Limit
         /\ Closed.step = "none" /\ Closed \in ConnState
BY LiveAssumption DEF LiveTypeOK, ConnState, Closed

(* A connection that takes a new state keeps the connections typed. *)
LEMMA ConnTyped ==
  ASSUME LiveTypeOK, NEW c \in Conns, NEW s \in Sessions,
         NEW step \in {"looked", "up", "closing"}
  PROVE  [conn EXCEPT ![c] = [step |-> step, session |-> s]] \in [Conns -> ConnState]
BY DEF LiveTypeOK, ConnState

(* LiveLook takes the lock when nobody is Live. *)
LEMMA LookKeeps ==
  ASSUME LiveInv, NEW c \in Conns, NEW s \in Sessions, LiveLook(c, s)
  PROVE  LiveInv'
<1> USE LiveAssumption DEF LiveInv, LiveLook
<1>1. conn' \in [Conns -> ConnState]
  BY ConnTyped
<1>2. LiveTypeOK'
  BY <1>1 DEF LiveTypeOK
<1>3. conn'[c].step = "looked" /\ (\A d \in Conns \ {c} : conn'[d] = conn[d])
  BY DEF LiveTypeOK
<1>4. \A d \in Conns : Open(d)' <=> Open(d) /\ d # c
  BY <1>3, ConnStates DEF Open
<1>5. LockHeld'
  BY <1>3, ConnStates DEF LockHeld
<1>6. FlagGuards'
  BY <1>3, <1>4 DEF FlagGuards
<1>7. OneAtATime'
  BY <1>3, <1>4 DEF OneAtATime
<1> QED BY <1>2, <1>5, <1>6, <1>7

(* LiveUp sets the flag; nobody else is open, as nobody was Live. *)
LEMMA UpKeeps ==
  ASSUME LiveInv, NEW c \in Conns, LiveUp(c)
  PROVE  LiveInv'
<1> USE LiveAssumption DEF LiveInv, LiveUp
<1> DEFINE s == conn[c].session
<1>1. s \in Sessions /\ userLock = c /\ conn[c] # Closed
  BY ConnStates DEF LockHeld
<1>2. conn' = [conn EXCEPT ![c] = [step |-> "up", session |-> s]]
  BY DEF LiveTypeOK
<1>3. sess' \in [Sessions -> SessionRow] /\ sess'[s].live /\ sess'[s].status = "active"
      /\ \A t \in Sessions \ {s} : sess'[t] = sess[t]
  <2>1. sess[s] \in SessionRow /\ sess[s].status = "active" /\ sess \in [Sessions -> SessionRow]
    BY <1>1 DEF LiveTypeOK
  <2>2. PICK y : y = [sess[s] EXCEPT !.live = TRUE, !.stale = FALSE]
    OBVIOUS
  <2>3. y \in SessionRow /\ y.live /\ y.status = "active"
    BY <2>1, <2>2 DEF SessionRow
  <2>4. sess' = [sess EXCEPT ![s] = y]
    BY <1>1, <2>1, <2>2 DEF Flag
  <2> QED BY <1>1, <2>1, <2>3, <2>4
<1>4. LiveTypeOK'
  <2>1. conn' \in [Conns -> ConnState]
    <3>1. LiveTypeOK
      OBVIOUS
    <3> HIDE DEF LiveUp, LiveInv, s
    <3> QED BY <1>1, <1>2, <3>1, ConnTyped
  <2>2. userLock' \in Conns \cup {None}
    BY DEF LiveTypeOK, Release
  <2>3. spent' \in Nat /\ swept' \in BOOLEAN
    BY DEF LiveTypeOK
  <2> HIDE DEF LiveUp, LiveInv, s
  <2> QED BY <1>3, <2>1, <2>2, <2>3 DEF LiveTypeOK
<1>5. conn'[c].step = "up" /\ conn'[c].session = s /\ (\A d \in Conns \ {c} : conn'[d] = conn[d])
  BY <1>2 DEF LiveTypeOK
<1> HIDE DEF s
<1>6. LockHeld'
  BY <1>1, <1>5 DEF LockHeld, Release
<1>7. ~swept => \A d \in Conns : Open(d)' <=> d = c
  BY <1>1, <1>5, ConnStates DEF Open, LockHeld, FlagGuards
<1>8. FlagGuards'
  BY <1>1, <1>3, <1>5, <1>7 DEF FlagGuards
<1>9. OneAtATime'
  BY <1>5, <1>7 DEF OneAtATime, Open
<1> QED BY <1>4, <1>6, <1>8, <1>9

(* A connection that lets go leaves the rest as it was. *)
LEMMA GoneKeeps ==
  ASSUME LiveInv, NEW c \in Conns, LiveRefused(c) \/ UpgradeFails(c) \/ CloseFails(c)
  PROVE  LiveInv'
<1> USE LiveAssumption DEF LiveInv, LiveRefused, UpgradeFails, CloseFails
<1>1. conn'[c] = Closed /\ (\A d \in Conns \ {c} : conn'[d] = conn[d])
      /\ conn' \in [Conns -> ConnState]
  BY ConnStates DEF LiveTypeOK
<1>2. LiveTypeOK'
  BY <1>1 DEF LiveTypeOK, Release
<1>3. \A d \in Conns : Open(d)' <=> Open(d) /\ d # c
  BY <1>1 DEF Open, Closed
<1>4. LockHeld'
  BY <1>1 DEF LockHeld, Release, Closed
<1>5. FlagGuards'
  BY <1>1, <1>3 DEF FlagGuards
<1>6. OneAtATime'
  BY <1>1, <1>3 DEF OneAtATime, Closed
<1> QED BY <1>2, <1>4, <1>5, <1>6

(* A connection is granted no more than the day has left. *)
LEMMA ServeKeeps ==
  ASSUME LiveInv, NEW c \in Conns, Serve(c)
  PROVE  LiveInv'
<1> USE LiveAssumption DEF LiveInv, Serve
<1> DEFINE s == conn[c].session
<1>1. s \in Sessions /\ conn[c] # Closed
  BY ConnStates
<1>2. Allowed \in 1 .. Limit /\ spent + Allowed <= Limit
  BY DEF Allowed, LiveTypeOK
<1>3. conn' = [conn EXCEPT ![c] = [step |-> "serving", session |-> s, minutes |-> Allowed]]
  BY DEF LiveTypeOK
<1> HIDE DEF s
<1>4. conn' \in [Conns -> ConnState]
  BY <1>1, <1>2, <1>3 DEF LiveTypeOK, ConnState
<1>5. LiveTypeOK'
  BY <1>4 DEF LiveTypeOK
<1>6. /\ conn'[c].step = "serving" /\ conn'[c].session = conn[c].session
      /\ conn'[c].minutes = Allowed /\ (\A d \in Conns \ {c} : conn'[d] = conn[d])
  BY <1>3 DEF LiveTypeOK, s
<1>7. \A d \in Conns : Open(d)' <=> Open(d)
  BY <1>6 DEF Open
<1>8. LockHeld'
  BY <1>6 DEF LockHeld
<1>9. FlagGuards'
  BY <1>6, <1>7 DEF FlagGuards
<1>10. OneAtATime'
  BY <1>2, <1>6, <1>7 DEF OneAtATime
<1> QED BY <1>5, <1>8, <1>9, <1>10

(* A refused connection, and one that hangs up: its minutes are settled    *)
(* and no other has any.                                                   *)
LEMMA HangUpKeeps ==
  ASSUME LiveInv, NEW c \in Conns, ServeRefused(c) \/ HangUp(c)
  PROVE  LiveInv'
<1> USE LiveAssumption DEF LiveInv, ServeRefused, HangUp
<1> DEFINE s == conn[c].session
<1>1. s \in Sessions /\ conn[c] # Closed /\ Open(c)
  BY ConnStates DEF Open
<1>2. conn' = [conn EXCEPT ![c] = [step |-> "closing", session |-> s]]
  BY DEF LiveTypeOK
<1>3. conn' \in [Conns -> ConnState]
  BY <1>1, <1>2, ConnTyped
<1>4. spent' \in Nat /\ (conn[c].step = "serving" => spent' <= spent + conn[c].minutes)
      /\ (conn[c].step # "serving" => spent' = spent)
  BY ConnStates DEF LiveTypeOK
<1>5. /\ conn'[c].step = "closing" /\ conn'[c].session = conn[c].session
      /\ (\A d \in Conns \ {c} : conn'[d] = conn[d])
  BY <1>2 DEF LiveTypeOK
<1>6. LiveTypeOK'
  BY <1>3, <1>4 DEF LiveTypeOK
<1>7. \A d \in Conns : Open(d)' <=> Open(d)
  BY <1>1, <1>5 DEF Open
<1>8. LockHeld'
  BY <1>5 DEF LockHeld
<1>9. FlagGuards'
  BY <1>5, <1>7 DEF FlagGuards
<1>10. OneAtATime'
  <2> SUFFICES ASSUME ~swept' PROVE OneAtATime'
    BY DEF OneAtATime
  <2>1. \A d \in Conns : conn'[d].step # "serving"
    BY <1>1, <1>5 DEF OneAtATime, Open
  <2>2. spent' <= Limit
    <3>1. CASE conn[c].step = "serving"
      <4>1. spent + conn[c].minutes <= Limit /\ conn[c].minutes \in Nat
        BY <3>1, ConnStates DEF OneAtATime
      <4> QED BY <1>4, <3>1, <4>1 DEF LiveTypeOK
    <3>2. CASE conn[c].step # "serving"
      BY <1>4, <3>2 DEF OneAtATime
    <3> QED BY <3>1, <3>2
  <2> QED BY <1>7, <2>1, <2>2 DEF OneAtATime
<1> QED BY <1>6, <1>8, <1>9, <1>10

(* The deferred clearing: no other connection relies on the flag. *)
LEMMA CloseKeeps ==
  ASSUME LiveInv, NEW c \in Conns, Close(c)
  PROVE  LiveInv'
<1> USE LiveAssumption DEF LiveInv, Close
<1> DEFINE s == conn[c].session
<1>1. s \in Sessions /\ Open(c)
  BY ConnStates DEF Open
<1>2. conn'[c] = Closed /\ (\A d \in Conns \ {c} : conn'[d] = conn[d])
      /\ conn' \in [Conns -> ConnState]
  BY ConnStates DEF LiveTypeOK
<1>3. /\ sess' \in [Sessions -> SessionRow]
      /\ \A t \in Sessions : sess'[t].status = sess[t].status /\ (sess'[t].live => sess[t].live)
  <2>1. sess' = [sess EXCEPT ![s] = [@ EXCEPT !.live = FALSE, !.stale = FALSE]]
    BY <1>1 DEF LiveTypeOK, Unflag
  <2>2. sess[s] \in SessionRow
    BY <1>1 DEF LiveTypeOK
  <2>3. [sess[s] EXCEPT !.live = FALSE, !.stale = FALSE] \in SessionRow
    BY <2>2 DEF SessionRow
  <2>4. /\ [sess[s] EXCEPT !.live = FALSE, !.stale = FALSE].status = sess[s].status
        /\ ~[sess[s] EXCEPT !.live = FALSE, !.stale = FALSE].live
    BY <2>2 DEF SessionRow
  <2> HIDE DEF s, Close
  <2> QED BY <1>1, <2>1, <2>3, <2>4 DEF LiveTypeOK
<1>4. LiveTypeOK'
  BY <1>2, <1>3 DEF LiveTypeOK
<1>5. \A d \in Conns : Open(d)' <=> Open(d) /\ d # c
  BY <1>2 DEF Open, Closed
<1>6. LockHeld'
  BY <1>2, <1>3 DEF LockHeld, Closed
<1>7. ~swept => \A d \in Conns : ~Open(d)'
  BY <1>1, <1>5 DEF OneAtATime
<1>8. FlagGuards'
  BY <1>3, <1>7 DEF FlagGuards
<1>9. OneAtATime'
  BY <1>7 DEF OneAtATime, Open
<1> QED BY <1>4, <1>6, <1>8, <1>9

(* Time passes and heartbeats come in; only updated_at changes. *)
LEMMA AgeKeeps ==
  ASSUME LiveInv, NEW s \in Sessions, NEW b \in BOOLEAN,
         sess' = [sess EXCEPT ![s].stale = b], UNCHANGED <<conn, userLock, spent, swept>>
  PROVE  LiveInv'
<1> USE DEF LiveInv
<1>1. /\ sess' \in [Sessions -> SessionRow]
      /\ \A t \in Sessions : sess'[t].status = sess[t].status /\ sess'[t].live = sess[t].live
  BY DEF LiveTypeOK, SessionRow
<1>2. \A d \in Conns : Open(d)' <=> Open(d)
  BY DEF Open
<1>3. LiveTypeOK' /\ LockHeld' /\ OneAtATime'
  BY <1>1, <1>2 DEF LiveTypeOK, LockHeld, OneAtATime
<1>4. FlagGuards'
  BY <1>1, <1>2, ConnStates DEF FlagGuards, Open, Closed
<1> QED BY <1>3, <1>4

(* The sweep owns up to it when it takes the flag of an open connection. *)
LEMMA SweepKeeps ==
  ASSUME LiveInv, Sweep
  PROVE  LiveInv'
<1> USE DEF LiveInv
<1> DEFINE old == {s \in Sessions : sess[s].live /\ sess[s].stale}
<1>1. /\ sess' = [s \in Sessions |-> IF s \in old THEN Unflag(s)[s] ELSE sess[s]]
      /\ swept' = (swept \/ \E s \in old : OpenOn(s) # {})
      /\ UNCHANGED <<conn, userLock, spent>>
  BY DEF Sweep
<1>2. /\ sess' \in [Sessions -> SessionRow]
      /\ \A t \in Sessions : /\ sess'[t].status = sess[t].status
                             /\ sess'[t].live <=> sess[t].live /\ t \notin old
  BY <1>1 DEF LiveTypeOK, SessionRow, Unflag
<1>3. swept' \in BOOLEAN
  BY <1>1
<1>4. \A d \in Conns : Open(d)' <=> Open(d)
  BY <1>1 DEF Open
<1>5. LiveTypeOK' /\ LockHeld'
  BY <1>1, <1>2, <1>3 DEF LiveTypeOK, LockHeld
<1>6. OneAtATime'
  BY <1>1, <1>4 DEF OneAtATime
<1>7. ASSUME ~swept', NEW c \in Conns, Open(c)' PROVE sess'[conn[c].session].live
  <2>1. conn[c].session \in Sessions /\ c \in OpenOn(conn[c].session)
    BY <1>4, <1>7, ConnStates DEF Open, OpenOn, Closed
  <2>2. conn[c].session \notin old
    BY <1>1, <1>7, <2>1
  <2> QED BY <1>1, <1>2, <1>4, <1>7, <2>1, <2>2 DEF FlagGuards
<1>8. FlagGuards'
  BY <1>1, <1>2, <1>7 DEF FlagGuards
<1> QED BY <1>5, <1>6, <1>8

(* A session that is not Live is completed. *)
LEMMA CompleteKeeps ==
  ASSUME LiveInv, NEW s \in Sessions, Complete(s)
  PROVE  LiveInv'
<1> USE DEF LiveInv, Complete
<1>1. /\ sess' \in [Sessions -> SessionRow]
      /\ \A t \in Sessions : /\ sess'[t].live = sess[t].live
                             /\ t # s => sess'[t].status = sess[t].status
  BY DEF LiveTypeOK, SessionRow
<1>2. \A d \in Conns : Open(d)' <=> Open(d)
  BY DEF Open
<1>3. LiveTypeOK' /\ LockHeld' /\ OneAtATime'
  BY <1>1, <1>2 DEF LiveTypeOK, LockHeld, OneAtATime
<1>4. FlagGuards'
  BY <1>1, <1>2, ConnStates DEF FlagGuards, Open, Closed
<1> QED BY <1>3, <1>4

(* A reset that is let through meets no open connection. *)
LEMMA EraseKeeps ==
  ASSUME LiveInv, EraseSessions
  PROVE  LiveInv'
<1> USE DEF LiveInv, EraseSessions
<1>1. /\ sess' \in [Sessions -> SessionRow]
      /\ \A t \in Sessions : ~sess'[t].live
  BY DEF SessionRow
<1>2. ~swept => \A d \in Conns : ~Open(d)
  BY ConnStates DEF FlagGuards, Open, Closed
<1>3. \A d \in Conns : Open(d)' <=> Open(d)
  BY DEF Open
<1>4. LiveTypeOK' /\ LockHeld' /\ OneAtATime'
  BY <1>1, <1>3 DEF LiveTypeOK, LockHeld, OneAtATime
<1>5. FlagGuards'
  BY <1>1, <1>2, <1>3 DEF FlagGuards
<1> QED BY <1>4, <1>5

(* After a restart no connection is open and nobody holds the lock. *)
LEMMA DieKeeps ==
  ASSUME LiveInv, ConnsDie
  PROVE  LiveInv'
<1> USE LiveAssumption DEF LiveInv, ConnsDie
<1>1. conn' \in [Conns -> ConnState] /\ \A c \in Conns : conn'[c].step = "none"
  BY DEF ConnState, Closed
<1>2. \A d \in Conns : ~Open(d)'
  BY <1>1 DEF Open
<1>3. LiveTypeOK' /\ LockHeld' /\ FlagGuards' /\ OneAtATime'
  BY <1>1, <1>2 DEF LiveTypeOK, LockHeld, FlagGuards, OneAtATime
<1> QED BY <1>3
-----------------------------------------------------------------------------
(* A run that nobody queued again has the running job to itself. *)
RunsOwnJobs ==
  ~overdue =>
    \A w \in Workers : worker[w] # Free =>
      /\ job[worker[w].talk] # NoJob /\ job[worker[w].talk].status = "running"
      /\ \A v \in RunsOf(worker[w].talk) : v = w

(* Until it writes, there is no feedback and nothing is counted. *)
NothingYet ==
  ~overdue =>
    \A w \in Workers :
      /\ worker[w].step \in {"reserving", "calling", "failed"} => worker[w].talk \notin feedback
      /\ worker[w].step \in {"reserving", "calling"} => mistakes[worker[w].talk] = 0

(* A summary that was counted has its feedback, or its session is gone:    *)
(* either way it is not made again.                                        *)
Counted ==
  \A t \in Talks : mistakes[t] > 0 => t \in feedback \/ sess[t].status = "gone"

JobInv == JobTypeOK /\ RunsOwnJobs /\ NothingYet /\ Counted /\ SummaryCountedOnce

(* A session whose summary is asked for is over. *)
TalkOver == \A t \in Talks : job[t] # NoJob => sess[t].status # "active"

(* The states of a slot, by what they hold. *)
LEMMA WorkerStates ==
  ASSUME JobTypeOK, NEW w \in Workers
  PROVE  /\ worker[w] \in WorkerState
         /\ worker[w].step \in {"free", "claimed", "reserving", "calling", "done", "failed"}
         /\ worker[w].step = "free" <=> worker[w] = Free
         /\ worker[w] # Free => worker[w].talk \in Talks
         /\ worker[w].step = "failed" => worker[w].transient \in BOOLEAN
         /\ Free.step = "free" /\ Free \in WorkerState
BY DEF JobTypeOK, WorkerState, Free

(* What a step of the work does to its slot, as far as the invariant sees. *)
LEMMA AtMoves ==
  ASSUME JobTypeOK, NEW w \in Workers, NEW step \in {"reserving", "calling", "done"},
         worker[w].step \in {"claimed", "reserving", "calling"}, At(w, step)
  PROVE  /\ worker' \in [Workers -> WorkerState]
         /\ worker'[w].step = step /\ worker'[w].talk = worker[w].talk
         /\ \A v \in Workers \ {w} : worker'[v] = worker[v]
<1> DEFINE new == [worker[w] EXCEPT !.step = step]
<1>1. worker[w] \in [step : {"claimed", "reserving", "calling", "done"}, talk : Talks]
  BY DEF JobTypeOK, WorkerState, Free
<1>2. new \in WorkerState /\ new.step = step /\ new.talk = worker[w].talk
  BY <1>1 DEF WorkerState
<1>3. worker' = [worker EXCEPT ![w] = new]
  BY DEF At, JobTypeOK
<1> HIDE DEF new
<1> QED BY <1>2, <1>3 DEF JobTypeOK

(* A slot whose work fails keeps its job, as the failed one. *)
LEMMA FailMoves ==
  ASSUME JobTypeOK, NEW w \in Workers, NEW transient \in BOOLEAN,
         worker[w].step \in {"claimed", "reserving", "calling"}, Fail(w, transient)
  PROVE  /\ worker' \in [Workers -> WorkerState]
         /\ worker'[w].step = "failed" /\ worker'[w].talk = worker[w].talk
         /\ \A v \in Workers \ {w} : worker'[v] = worker[v]
<1> DEFINE new == [step |-> "failed", talk |-> worker[w].talk, transient |-> transient]
<1>1. worker[w].talk \in Talks
  BY WorkerStates
<1>2. new \in WorkerState /\ new.step = "failed" /\ new.talk = worker[w].talk
  BY <1>1 DEF WorkerState
<1>3. worker' = [worker EXCEPT ![w] = new]
  BY DEF Fail, JobTypeOK
<1> HIDE DEF new
<1> QED BY <1>2, <1>3 DEF JobTypeOK

(* A slot that moves on with its job keeps the invariant when it writes    *)
(* nothing and takes up the work only if nothing was written.              *)
LEMMA MoveKeeps ==
  ASSUME JobInv, NEW w \in Workers, NEW step \in {"reserving", "calling", "done", "failed"},
         worker[w].step \in {"claimed", "reserving", "calling"},
         worker' \in [Workers -> WorkerState],
         worker'[w].step = step, worker'[w].talk = worker[w].talk,
         \A v \in Workers \ {w} : worker'[v] = worker[v],
         UNCHANGED <<job, feedback, mistakes, overdue>>,
         \A t \in Talks : sess'[t].status = sess[t].status,
         ~overdue /\ step \in {"reserving", "calling", "failed"} => worker[w].talk \notin feedback,
         ~overdue /\ step \in {"reserving", "calling"} => mistakes[worker[w].talk] = 0
  PROVE  JobInv'
<1> USE DEF JobInv
<1>1. JobTypeOK'
  BY DEF JobTypeOK
<1>2. \A v \in Workers : worker'[v] # Free <=> worker[v] # Free
  BY WorkerStates DEF Free
<1>3. \A v \in Workers : worker[v] # Free => worker'[v].talk = worker[v].talk
  OBVIOUS
<1>4. \A t \in Talks : RunsOf(t)' = RunsOf(t)
  BY <1>2, <1>3 DEF RunsOf
<1>5. RunsOwnJobs'
  BY <1>2, <1>3, <1>4, WorkerStates DEF RunsOwnJobs
<1>6. NothingYet'
  BY DEF NothingYet
<1>7. Counted'
  BY DEF Counted
<1>8. SummaryCountedOnce'
  BY <1>4 DEF SummaryCountedOnce
<1> QED BY <1>1, <1>5, <1>6, <1>7, <1>8

(* makeSummary up to its transaction *)
LEMMA WorkKeeps ==
  ASSUME JobInv, NEW w \in Workers, UNCHANGED liveVars,
         \/ LookUp(w, sess[worker[w].talk].status # "gone")
         \/ Reserved(w) \/ ReserveRefused(w) \/ CallFails(w)
  PROVE  JobInv'
<1> USE DEF JobInv
<1>1. \A t \in Talks : sess'[t].status = sess[t].status
  BY DEF liveVars
<1>2. CASE LookUp(w, sess[worker[w].talk].status # "gone")
  <2>1. worker[w].step = "claimed" /\ worker[w].talk \in Talks
        /\ UNCHANGED <<job, feedback, mistakes, overdue>>
    BY <1>2, WorkerStates DEF LookUp, Free
  <2>2. CASE worker[w].talk \in feedback
    <3>1. At(w, "done")
      BY <1>2, <2>2 DEF LookUp
    <3>2. /\ worker' \in [Workers -> WorkerState]
          /\ worker'[w].step = "done" /\ worker'[w].talk = worker[w].talk
          /\ \A v \in Workers \ {w} : worker'[v] = worker[v]
      BY <2>1, <3>1, AtMoves
    <3> QED BY <1>1, <2>1, <3>2, MoveKeeps
  <2>3. CASE worker[w].talk \notin feedback /\ sess[worker[w].talk].status # "gone"
    <3>1. At(w, "reserving")
      BY <1>2, <2>3 DEF LookUp
    <3>2. /\ worker' \in [Workers -> WorkerState]
          /\ worker'[w].step = "reserving" /\ worker'[w].talk = worker[w].talk
          /\ \A v \in Workers \ {w} : worker'[v] = worker[v]
      BY <2>1, <3>1, AtMoves
    <3>3. mistakes[worker[w].talk] = 0
      BY <2>1, <2>3 DEF Counted, JobTypeOK
    <3> QED BY <1>1, <2>1, <2>3, <3>2, <3>3, MoveKeeps
  <2>4. CASE worker[w].talk \notin feedback /\ sess[worker[w].talk].status = "gone"
    <3>1. Fail(w, FALSE)
      BY <1>2, <2>4 DEF LookUp
    <3>2. /\ worker' \in [Workers -> WorkerState]
          /\ worker'[w].step = "failed" /\ worker'[w].talk = worker[w].talk
          /\ \A v \in Workers \ {w} : worker'[v] = worker[v]
      BY <2>1, <3>1, FailMoves
    <3> QED BY <1>1, <2>1, <2>4, <3>2, MoveKeeps
  <2> QED BY <2>2, <2>3, <2>4
<1>3. CASE Reserved(w)
  <2>1. worker[w].step = "reserving" /\ UNCHANGED <<job, feedback, mistakes, overdue>>
        /\ At(w, "calling")
    BY <1>3 DEF Reserved
  <2>2. /\ worker' \in [Workers -> WorkerState]
        /\ worker'[w].step = "calling" /\ worker'[w].talk = worker[w].talk
        /\ \A v \in Workers \ {w} : worker'[v] = worker[v]
    BY <2>1, AtMoves
  <2>3. ~overdue => worker[w].talk \notin feedback /\ mistakes[worker[w].talk] = 0
    BY <2>1 DEF NothingYet
  <2> QED BY <1>1, <2>1, <2>2, <2>3, MoveKeeps
<1>4. CASE ReserveRefused(w) \/ CallFails(w)
  <2>1. /\ worker[w].step \in {"reserving", "calling"}
        /\ UNCHANGED <<job, feedback, mistakes, overdue>>
        /\ \E transient \in BOOLEAN : Fail(w, transient)
    BY <1>4 DEF ReserveRefused, CallFails
  <2>2. /\ worker' \in [Workers -> WorkerState]
        /\ worker'[w].step = "failed" /\ worker'[w].talk = worker[w].talk
        /\ \A v \in Workers \ {w} : worker'[v] = worker[v]
    BY <2>1, FailMoves
  <2>3. ~overdue => worker[w].talk \notin feedback
    BY <2>1 DEF NothingYet
  <2> QED BY <1>1, <2>1, <2>2, <2>3, MoveKeeps
<1> QED BY <1>2, <1>3, <1>4

(* The transaction counts what was not counted before. *)
LEMMA CommitKeeps ==
  ASSUME JobInv, NEW w \in Workers, UNCHANGED liveVars,
         CommitSummary(w, sess[worker[w].talk].status # "gone")
  PROVE  JobInv'
<1> USE DEF JobInv
<1> DEFINE t == worker[w].talk
<1>1. worker[w].step = "calling" /\ t \in Talks /\ UNCHANGED <<job, overdue>>
      /\ worker[w] # Free
  BY WorkerStates DEF CommitSummary, Free
<1>2. /\ worker' \in [Workers -> WorkerState]
      /\ worker'[w].step = "done" /\ worker'[w].talk = t
      /\ \A v \in Workers \ {w} : worker'[v] = worker[v]
  BY <1>1, AtMoves DEF CommitSummary
<1>3. /\ mistakes' \in [Talks -> Nat]
      /\ mistakes'[t] \in {mistakes[t], mistakes[t] + 1}
      /\ \A u \in Talks \ {t} : mistakes'[u] = mistakes[u]
  <2>1. PICK corrected \in {0, 1} : mistakes' = [mistakes EXCEPT ![t] = @ + corrected]
    BY DEF CommitSummary
  <2> QED BY <1>1, <2>1 DEF JobTypeOK
<1>4. /\ feedback' \subseteq Talks
      /\ \A u \in Talks \ {t} : u \in feedback' <=> u \in feedback
      /\ sess[t].status # "gone" => t \in feedback'
      /\ feedback \subseteq feedback'
  BY <1>1 DEF CommitSummary, JobTypeOK
<1> HIDE DEF t
<1>5. JobTypeOK'
  BY <1>1, <1>2, <1>3, <1>4 DEF JobTypeOK
<1>6. \A v \in Workers : worker'[v] # Free <=> worker[v] # Free
  BY <1>1, <1>2 DEF Free
<1>7. \A v \in Workers : worker[v] # Free => worker'[v].talk = worker[v].talk
  BY <1>2 DEF t
<1>8. \A u \in Talks : RunsOf(u)' = RunsOf(u)
  BY <1>6, <1>7 DEF RunsOf
<1>9. RunsOwnJobs'
  BY <1>1, <1>6, <1>7, <1>8, WorkerStates DEF RunsOwnJobs
<1>10. ~overdue => \A v \in Workers \ {w} : worker[v] # Free => worker[v].talk \in Talks \ {t}
  BY <1>1, WorkerStates DEF RunsOwnJobs, RunsOf, t
<1>11. NothingYet'
  BY <1>1, <1>2, <1>3, <1>4, <1>10, WorkerStates DEF NothingYet, Free
<1>12. Counted'
  BY <1>1, <1>3, <1>4 DEF Counted, liveVars
<1>13. ~overdue => mistakes[t] = 0 /\ job[t].status = "running"
  BY <1>1 DEF NothingYet, RunsOwnJobs, t
<1>14. SummaryCountedOnce'
  BY <1>1, <1>3, <1>4, <1>8, <1>13 DEF SummaryCountedOnce
<1> QED BY <1>5, <1>9, <1>11, <1>12, <1>14

(* A claim takes a queued job, which by the invariant nobody runs. *)
LEMMA ClaimKeeps ==
  ASSUME JobInv, NEW w \in Workers, NEW t \in Talks, UNCHANGED liveVars, Claim(w, t)
  PROVE  JobInv'
<1> USE NoJobIsNone DEF JobInv
<1> DEFINE new == [status |-> "running", attempts |-> job[t].attempts + 1]
<1>1. /\ worker[w] = Free /\ job[t] \in Job /\ job[t] # NoJob /\ job[t].status = "queued"
      /\ new \in Job /\ new # NoJob /\ new.status = "running"
      /\ UNCHANGED <<feedback, mistakes, overdue>>
  BY DEF Claim, JobTypeOK, Job, MaxAttempts
<1>2. job' = [job EXCEPT ![t] = new]
  BY DEF Claim
<1> HIDE DEF new
<1>3. /\ job' \in [Talks -> {NoJob} \cup Job] /\ job'[t] = new
      /\ \A u \in Talks \ {t} : job'[u] = job[u]
  BY <1>1, <1>2 DEF JobTypeOK
<1>4. /\ worker' \in [Workers -> WorkerState] /\ worker'[w] = [step |-> "claimed", talk |-> t]
      /\ \A v \in Workers \ {w} : worker'[v] = worker[v]
  BY DEF Claim, JobTypeOK, WorkerState
<1>5. JobTypeOK'
  BY <1>1, <1>3, <1>4 DEF JobTypeOK
<1>6. ~overdue => \A v \in Workers : worker[v] # Free => worker[v].talk \in Talks \ {t}
  BY <1>1, WorkerStates DEF RunsOwnJobs
<1>7. worker'[w] # Free /\ worker'[w].talk = t /\ worker'[w].step = "claimed"
  BY <1>4 DEF Free
<1>8. ~overdue => RunsOf(t)' = {w} /\ \A u \in Talks \ {t} : RunsOf(u)' = RunsOf(u)
  BY <1>1, <1>4, <1>6, <1>7 DEF RunsOf
<1>9. RunsOwnJobs'
  BY <1>1, <1>3, <1>4, <1>6, <1>7, <1>8 DEF RunsOwnJobs
<1>10. NothingYet'
  BY <1>1, <1>4, <1>7 DEF NothingYet
<1>11. Counted'
  BY <1>1 DEF Counted, liveVars
<1>12. SummaryCountedOnce'
  BY <1>1, <1>3, <1>8 DEF SummaryCountedOnce
<1> QED BY <1>5, <1>9, <1>10, <1>11, <1>12

(* A slot becomes free: its job gets a status, or stays as it is. *)
LEMMA FreeKeeps ==
  ASSUME JobInv, NEW w \in Workers, worker[w] # Free, UNCHANGED liveVars,
         worker' = [worker EXCEPT ![w] = Free],
         UNCHANGED <<feedback, mistakes, overdue>>,
         \/ UNCHANGED job
         \/ \E status \in {"queued", "complete", "failed"} :
              /\ SetStatus(worker[w].talk, status)
              /\ ~overdue /\ status = "failed" => worker[w].talk \notin feedback
  PROVE  JobInv'
<1> USE NoJobIsNone DEF JobInv
<1> DEFINE t == worker[w].talk
<1>1. t \in Talks
  BY WorkerStates
<1>2. /\ worker' \in [Workers -> WorkerState] /\ worker'[w] = Free
      /\ \A v \in Workers \ {w} : worker'[v] = worker[v]
  BY WorkerStates DEF JobTypeOK
<1>3. /\ job' \in [Talks -> {NoJob} \cup Job]
      /\ \A u \in Talks \ {t} : job'[u] = job[u]
      /\ ~overdue /\ job'[t] # NoJob /\ job'[t].status = "failed" => t \notin feedback
  <2>1. CASE UNCHANGED job
    BY <1>1, <2>1 DEF JobTypeOK, SummaryCountedOnce
  <2>2. CASE ~UNCHANGED job
    <3>1. PICK status \in {"queued", "complete", "failed"} :
            /\ SetStatus(t, status)
            /\ ~overdue /\ status = "failed" => t \notin feedback
      BY <2>2
    <3>2. job[t] \in Job /\ job' = [job EXCEPT ![t].status = status]
      BY <1>1, <2>2, <3>1 DEF SetStatus, JobTypeOK
    <3>3. [job[t] EXCEPT !.status = status] \in Job /\ [job[t] EXCEPT !.status = status].status = status
      BY <3>2 DEF Job
    <3>4. job' = [job EXCEPT ![t] = [job[t] EXCEPT !.status = status]]
      BY <1>1, <3>2 DEF JobTypeOK
    <3> HIDE DEF t
    <3> QED BY <1>1, <3>1, <3>3, <3>4 DEF JobTypeOK
  <2> QED BY <2>1, <2>2
<1>4. ~overdue => \A v \in Workers \ {w} : worker[v] # Free => worker[v].talk \in Talks \ {t}
  BY <1>1, WorkerStates DEF RunsOwnJobs, RunsOf
<1> HIDE DEF t
<1>5. JobTypeOK'
  BY <1>2, <1>3 DEF JobTypeOK
<1>6. \A u \in Talks : RunsOf(u)' \subseteq RunsOf(u)
  BY <1>2 DEF RunsOf
<1>7. RunsOwnJobs'
  BY <1>2, <1>3, <1>4, <1>6, WorkerStates DEF RunsOwnJobs
<1>8. NothingYet'
  BY <1>2, WorkerStates DEF NothingYet, Free
<1>9. Counted'
  BY DEF Counted, liveVars
<1>10. SummaryCountedOnce'
  BY <1>1, <1>3, <1>6 DEF SummaryCountedOnce
<1> QED BY <1>5, <1>7, <1>8, <1>9, <1>10

(* A run ends: with its result, with a failure, or without a word. *)
LEMMA EndKeeps ==
  ASSUME JobInv, NEW w \in Workers, UNCHANGED liveVars, Finish(w) \/ GiveUp(w) \/ RunLost(w)
  PROVE  JobInv'
<1>1. worker[w] # Free
  BY DEF Finish, GiveUp, RunLost, Free
<1>2. /\ worker' = [worker EXCEPT ![w] = Free]
      /\ UNCHANGED <<feedback, mistakes, overdue>>
  BY DEF Finish, GiveUp, RunLost
<1>3. CASE Finish(w)
  <2>1. SetStatus(worker[w].talk, "complete")
    BY <1>3 DEF Finish
  <2> QED BY <1>1, <1>2, <2>1, FreeKeeps
<1>4. CASE GiveUp(w)
  <2>1. ~overdue => worker[w].talk \notin feedback
    BY <1>4 DEF GiveUp, JobInv, NothingYet
  <2>2. \E status \in {"queued", "complete", "failed"} : SetStatus(worker[w].talk, status)
    BY <1>4 DEF GiveUp
  <2> QED BY <1>1, <1>2, <2>1, <2>2, FreeKeeps
<1>5. CASE RunLost(w)
  BY <1>1, <1>2, <1>5, FreeKeeps DEF RunLost
<1> QED BY <1>3, <1>4, <1>5

(* The cleanup owns up to it when it doubles a run. *)
LEMMA RequeueKeeps ==
  ASSUME JobInv, NEW t \in Talks, UNCHANGED liveVars, Requeue(t)
  PROVE  JobInv'
<1> USE NoJobIsNone DEF JobInv
<1>1. job[t] \in Job /\ UNCHANGED <<worker, feedback, mistakes>>
  BY DEF Requeue, JobTypeOK
<1>2. /\ [job[t] EXCEPT !.status = "queued"] \in Job
      /\ [job[t] EXCEPT !.status = "queued"].status = "queued"
  BY <1>1 DEF Job
<1>3. job' = [job EXCEPT ![t] = [job[t] EXCEPT !.status = "queued"]]
  BY <1>1 DEF Requeue, JobTypeOK
<1>4. /\ job' \in [Talks -> {NoJob} \cup Job] /\ job'[t].status = "queued"
      /\ \A u \in Talks \ {t} : job'[u] = job[u]
  BY <1>2, <1>3 DEF JobTypeOK
<1>5. overdue' \in BOOLEAN /\ (~overdue' => ~overdue /\ RunsOf(t) = {})
  BY DEF Requeue, Late
<1>6. JobTypeOK'
  BY <1>1, <1>4, <1>5 DEF JobTypeOK
<1>7. \A u \in Talks : RunsOf(u)' = RunsOf(u)
  BY <1>1 DEF RunsOf
<1>8. ~overdue' => \A v \in Workers : worker[v] # Free => worker[v].talk \in Talks \ {t}
  BY <1>5, WorkerStates DEF RunsOf
<1>9. RunsOwnJobs'
  BY <1>1, <1>4, <1>5, <1>7, <1>8 DEF RunsOwnJobs
<1>10. NothingYet'
  BY <1>1, <1>5 DEF NothingYet
<1>11. Counted'
  BY <1>1 DEF Counted, liveVars
<1>12. SummaryCountedOnce'
  BY <1>1, <1>4, <1>5, <1>7 DEF SummaryCountedOnce
<1> QED BY <1>6, <1>9, <1>10, <1>11, <1>12

(* A reset of the library only forgets. *)
LEMMA ForgetKeeps ==
  ASSUME JobInv, UNCHANGED liveVars, ResetLibrary
  PROVE  JobInv'
<1> USE DEF JobInv
<1>1. UNCHANGED <<job, worker, feedback, overdue>> /\ mistakes' = [t \in Talks |-> 0]
  BY DEF ResetLibrary, ForgetMistakes
<1>2. \A u \in Talks : RunsOf(u)' = RunsOf(u)
  BY <1>1 DEF RunsOf
<1>3. JobTypeOK'
  BY <1>1 DEF JobTypeOK
<1>4. RunsOwnJobs'
  BY <1>1, <1>2, WorkerStates DEF RunsOwnJobs
<1>5. NothingYet'
  BY <1>1, WorkerStates DEF NothingYet, Free
<1>6. Counted' /\ SummaryCountedOnce'
  BY <1>1, <1>2 DEF Counted, SummaryCountedOnce
<1> QED BY <1>3, <1>4, <1>5, <1>6

(* A reset of everything leaves only what runs, of sessions that are gone. *)
LEMMA EraseJobsKeeps ==
  ASSUME JobInv, ResetAll
  PROVE  JobInv'
<1> USE DEF JobInv, ResetAll, EraseJobs, ForgetMistakes
<1>1. /\ job' \in [Talks -> {NoJob} \cup Job]
      /\ \A t \in Talks : job[t] # NoJob /\ job[t].status # "queued" => job'[t] = job[t]
  BY DEF JobTypeOK
<1>2. feedback' = {} /\ mistakes' = [t \in Talks |-> 0] /\ UNCHANGED <<worker, overdue>>
  OBVIOUS
<1>3. \A u \in Talks : RunsOf(u)' = RunsOf(u)
  BY <1>2 DEF RunsOf
<1>4. JobTypeOK'
  BY <1>1, <1>2 DEF JobTypeOK
<1>5. RunsOwnJobs'
  <2> HIDE DEF EraseJobs, ForgetMistakes, ResetAll
  <2> SUFFICES ASSUME ~overdue, NEW w \in Workers, worker[w] # Free
               PROVE  /\ job'[worker[w].talk] # NoJob /\ job'[worker[w].talk].status = "running"
                      /\ \A v \in RunsOf(worker[w].talk) : v = w
    BY <1>2, <1>3, WorkerStates DEF RunsOwnJobs
  <2> QED BY <1>1, WorkerStates DEF RunsOwnJobs
<1>6. NothingYet'
  BY <1>2, WorkerStates DEF NothingYet, Free
<1>7. Counted' /\ SummaryCountedOnce'
  BY <1>2, <1>3 DEF Counted, SummaryCountedOnce
<1> QED BY <1>4, <1>5, <1>6, <1>7

(* After a restart no slot is at work. *)
LEMMA RunsDieKeeps ==
  ASSUME JobInv, ConnsDie, RunsDie
  PROVE  JobInv'
<1> USE DEF JobInv, RunsDie, ConnsDie
<1>1. /\ \A w \in Workers : worker'[w] = Free
      /\ UNCHANGED <<job, feedback, mistakes, overdue, sess>>
  OBVIOUS
<1>2. worker' \in [Workers -> WorkerState]
  BY DEF WorkerState
<1>3. \A u \in Talks : RunsOf(u)' = {}
  BY <1>1 DEF RunsOf
<1>4. JobTypeOK' /\ RunsOwnJobs' /\ Counted' /\ SummaryCountedOnce'
  BY <1>1, <1>2, <1>3 DEF JobTypeOK, RunsOwnJobs, Counted, SummaryCountedOnce
<1>5. NothingYet'
  BY <1>1 DEF NothingYet, Free
<1> QED BY <1>4, <1>5

(* The completion queues a job that has nothing behind it. *)
LEMMA CompleteTalkKeeps ==
  ASSUME JobInv, TalkOver, sess \in [Sessions -> SessionRow], NEW s \in Sessions, CompleteTalk(s)
  PROVE  JobInv' /\ TalkOver'
<1> USE NoJobIsNone, TalksAreSessions DEF JobInv
<1>1. /\ sess[s].status = "active" /\ sess'[s].status = "completed"
      /\ \A t \in Sessions \ {s} : sess'[t] = sess[t]
  BY DEF CompleteTalk, Complete, SessionRow
<1>2. /\ job' \in [Talks -> {NoJob} \cup Job]
      /\ \A t \in Talks : /\ job[t] # NoJob => job'[t] = job[t]
                          /\ job[t] = NoJob => job'[t] \in {NoJob, NewJob}
                          /\ t # s => job'[t] = job[t]
      /\ UNCHANGED <<worker, feedback, mistakes, overdue>>
  BY DEF CompleteTalk, Enqueue, jobVars, JobTypeOK, NewJob, Job, MaxAttempts
<1>3. \A u \in Talks : RunsOf(u)' = RunsOf(u)
  BY <1>2 DEF RunsOf
<1>4. JobTypeOK'
  BY <1>2 DEF JobTypeOK
<1>5. RunsOwnJobs'
  BY <1>2, <1>3, WorkerStates DEF RunsOwnJobs
<1>6. NothingYet'
  BY <1>2 DEF NothingYet
<1>7. Counted'
  BY <1>1, <1>2 DEF Counted
<1>8. SummaryCountedOnce'
  BY <1>2, <1>3 DEF SummaryCountedOnce, NewJob
<1>9. TalkOver'
  BY <1>1, <1>2 DEF TalkOver
<1> QED BY <1>4, <1>5, <1>6, <1>7, <1>8, <1>9
-----------------------------------------------------------------------------
(* The steps of Live alone, and of the jobs alone. *)
LEMMA LiveStepKeeps ==
  ASSUME LiveInv, LiveStep
  PROVE  LiveInv' /\ \A s \in Sessions : sess'[s].status = sess[s].status
<1>1. LiveInv'
  <2>1. ASSUME NEW c \in Conns, Connection(c) PROVE LiveInv'
    BY <2>1, UpKeeps, GoneKeeps, ServeKeeps, HangUpKeeps, CloseKeeps DEF Connection
  <2>2. ASSUME NEW c \in Conns, Ping(c) PROVE LiveInv'
    <3>1. conn[c].session \in Sessions
      BY <2>2, ConnStates DEF Ping, LiveInv, Closed
    <3> QED BY <2>2, <3>1, AgeKeeps DEF Ping
  <2>3. ASSUME NEW s \in Sessions, Age(s) PROVE LiveInv'
    BY <2>3, AgeKeeps DEF Age
  <2> QED BY <2>1, <2>2, <2>3, LookKeeps, SweepKeeps DEF LiveStep
<1>2. ASSUME NEW s \in Sessions PROVE sess'[s].status = sess[s].status
  <2>1. sess \in [Sessions -> SessionRow]
    BY DEF LiveInv, LiveTypeOK
  <2>2. ASSUME NEW c \in Conns, Connection(c) \/ Ping(c) PROVE sess'[s].status = sess[s].status
    BY SMTT(30), <2>1, <2>2 DEF Connection, Ping, LiveUp, LiveRefused, UpgradeFails, Serve, ServeRefused,
                      HangUp, Close, CloseFails, Flag, Unflag, SessionRow
  <2>3. CASE Sweep
    BY <2>1, <2>3 DEF Sweep, Unflag, SessionRow
  <2>4. ASSUME NEW t \in Sessions, Age(t) PROVE sess'[s].status = sess[s].status
    BY <2>1, <2>4 DEF Age, SessionRow
  <2>5. ASSUME NEW c \in Conns, NEW t \in Sessions, LiveLook(c, t)
        PROVE  sess'[s].status = sess[s].status
    BY <2>5 DEF LiveLook
  <2> QED BY <2>2, <2>3, <2>4, <2>5 DEF LiveStep
<1> QED BY <1>1, <1>2

(* A job that was never asked for is not made by the worker. *)
LEMMA JobStepKeeps ==
  ASSUME JobInv, JobStep \/ \E w \in Workers : RunStep(w), UNCHANGED liveVars
  PROVE  JobInv' /\ \A t \in Talks : job[t] = NoJob => job'[t] = NoJob
<1>1. JobInv'
  <2>1. ASSUME NEW w \in Workers, RunStep(w) PROVE JobInv'
    BY <2>1, WorkKeeps, CommitKeeps, EndKeeps DEF RunStep, Run
  <2> QED BY <2>1, ClaimKeeps, EndKeeps, RequeueKeeps, ForgetKeeps DEF JobStep
<1>2. ASSUME NEW t \in Talks, job[t] = NoJob PROVE job'[t] = NoJob
  <2>1. job \in [Talks -> {NoJob} \cup Job]
    BY DEF JobInv, JobTypeOK
  <2>2. ASSUME NEW w \in Workers, RunStep(w) \/ RunLost(w) PROVE job'[t] = NoJob
    <3>1. UNCHANGED job \/ \E status \in {"queued", "complete", "failed"} : SetStatus(worker[w].talk, status)
      BY <2>2 DEF RunStep, Run, LookUp, Reserved, ReserveRefused, CallFails, CommitSummary,
                  Finish, GiveUp, RunLost
    <3> QED BY <1>2, <2>1, <3>1 DEF SetStatus
  <2>3. ASSUME NEW w \in Workers, NEW u \in Talks, Claim(w, u) PROVE job'[t] = NoJob
    BY <1>2, <2>1, <2>3 DEF Claim
  <2>4. ASSUME NEW u \in Talks, Requeue(u) PROVE job'[t] = NoJob
    BY <1>2, <2>1, <2>4 DEF Requeue
  <2>5. CASE ResetLibrary
    BY <1>2, <2>5 DEF ResetLibrary
  <2> QED BY <2>2, <2>3, <2>4, <2>5 DEF JobStep
<1> QED BY <1>1, <1>2
-----------------------------------------------------------------------------
(* The inductive invariant of the composition. *)
IInv == LiveInv /\ JobInv /\ TalkOver /\ hung \in BOOLEAN

(* At first nobody is connected and no job is there. *)
LEMMA InitIInv == Init => IInv
<1> SUFFICES ASSUME Init PROVE IInv
  OBVIOUS
<1> USE LiveAssumption DEF Init, LiveInit, JobInit
<1>1. LiveTypeOK /\ hung \in BOOLEAN
  BY DEF LiveTypeOK, SessionRow, ConnState
<1>2. \A c \in Conns : conn[c].step = "none"
  BY DEF Closed
<1>3. LockHeld /\ FlagGuards /\ OneAtATime
  BY <1>2 DEF LockHeld, FlagGuards, OneAtATime, Open
<1>4. JobTypeOK
  BY DEF JobTypeOK, WorkerState
<1>5. \A w \in Workers : worker[w] = Free /\ worker[w].step = "free"
  BY DEF Free
<1>6. RunsOwnJobs /\ NothingYet /\ Counted /\ SummaryCountedOnce
  BY <1>5 DEF RunsOwnJobs, NothingYet, Counted, SummaryCountedOnce, RunsOf
<1>7. TalkOver
  BY DEF TalkOver
<1> QED BY <1>1, <1>3, <1>4, <1>6, <1>7 DEF IInv, LiveInv, JobInv

(* Every step keeps the invariant: of Live, of the jobs, or of both. *)
LEMMA NextIInv == IInv /\ [Next]_vars => IInv'
<1> SUFFICES ASSUME IInv, [Next]_vars PROVE IInv'
  OBVIOUS
<1> USE DEF IInv
<1>0. hung' \in BOOLEAN
  BY DEF Next, Hang, vars
<1>1. CASE LiveStep /\ UNCHANGED jobVars
  <2>1. LiveInv' /\ \A s \in Sessions : sess'[s].status = sess[s].status
    BY <1>1, LiveStepKeeps
  <2>2. UNCHANGED <<job, worker, feedback, mistakes, overdue>>
    BY <1>1 DEF jobVars
  <2>3. \A u \in Talks : RunsOf(u)' = RunsOf(u)
    BY <2>2 DEF RunsOf
  <2>4. JobTypeOK' /\ NothingYet' /\ SummaryCountedOnce'
    BY <2>2, <2>3 DEF JobInv, JobTypeOK, NothingYet, SummaryCountedOnce
  <2>5. RunsOwnJobs'
    BY <2>2, <2>3, WorkerStates DEF JobInv, RunsOwnJobs
  <2>6. Counted' /\ TalkOver'
    BY <2>1, <2>2, TalksAreSessions DEF JobInv, Counted, TalkOver
  <2> QED BY <1>0, <2>1, <2>4, <2>5, <2>6 DEF JobInv
<1>2. CASE (JobStep \/ \E w \in Workers : RunStep(w)) /\ UNCHANGED liveVars
  <2>1. JobInv' /\ \A t \in Talks : job[t] = NoJob => job'[t] = NoJob
    BY <1>2, JobStepKeeps
  <2>2. LiveInv'
    BY <1>2 DEF liveVars, LiveInv, LiveTypeOK, LockHeld, FlagGuards, OneAtATime, Open
  <2>3. TalkOver'
    BY <1>2, <2>1 DEF liveVars, TalkOver
  <2> QED BY <1>0, <2>1, <2>2, <2>3
<1>3. ASSUME NEW s \in Sessions, CompleteTalk(s) PROVE IInv'
  <2>1. LiveInv'
    BY <1>3, CompleteKeeps DEF CompleteTalk
  <2>2. JobInv' /\ TalkOver'
    BY <1>3, CompleteTalkKeeps DEF LiveInv, LiveTypeOK
  <2> QED BY <1>0, <2>1, <2>2
<1>4. CASE ResetAll
  <2>1. LiveInv' /\ JobInv'
    BY <1>4, EraseKeeps, EraseJobsKeeps DEF ResetAll
  <2>2. TalkOver'
    BY <1>4, TalksAreSessions DEF ResetAll, EraseSessions, TalkOver
  <2> QED BY <1>0, <2>1, <2>2
<1>5. CASE ProcessDies
  <2>1. LiveInv' /\ JobInv'
    BY <1>5, DieKeeps, RunsDieKeeps DEF ProcessDies
  <2>2. TalkOver'
    BY <1>5 DEF ProcessDies, ConnsDie, RunsDie, TalkOver
  <2> QED BY <1>0, <2>1, <2>2
<1>6. CASE UNCHANGED <<liveVars, jobVars>>
  <2>1. UNCHANGED liveVars /\ UNCHANGED jobVars
    BY <1>6
  <2>2. LiveInv'
    BY <2>1 DEF liveVars, LiveInv, LiveTypeOK, LockHeld, FlagGuards, OneAtATime, Open
  <2>3. JobInv' /\ TalkOver'
    BY <2>1 DEF liveVars, jobVars, JobInv, JobTypeOK, RunsOwnJobs, NothingYet, Counted,
                SummaryCountedOnce, RunsOf, TalkOver
  <2> QED BY <1>0, <2>2, <2>3
<1> QED BY <1>1, <1>2, <1>3, <1>4, <1>5, <1>6 DEF Next, Step, Hang, vars

(* So it holds in every state of every behaviour. *)
LEMMA IInvAlways == Spec => []IInv
BY InitIInv, NextIInv, PTL DEF Spec

(* One connection at a time, each within what the day has left (live.go    *)
(* 64-117), unless the sweep took a flag from under an open connection.    *)
THEOREM OneTalks == Spec => []OneAtATime
<1>1. IInv => OneAtATime
  BY DEF IInv, LiveInv
<1> QED BY <1>1, IInvAlways, PTL

(* Sessions, connections, jobs and runs have their types. *)
THEOREM TypeCorrect == Spec => []TypeOK
<1>1. IInv => TypeOK
  BY DEF IInv, LiveInv, JobInv, TypeOK
<1> QED BY <1>1, IInvAlways, PTL

(* When its summary is asked for nobody can add turns to a conversation    *)
(* any more, so the turns it reads are the last ones (sessions.go 723 and  *)
(* 810, live.go 106, jobs.go 193).                                         *)
THEOREM LastTurnsAreRead == Spec => []SummaryReadsTheEnd
<1>1. IInv => SummaryReadsTheEnd
  <2> SUFFICES ASSUME IInv, NEW t \in Talks, ~swept, job[t] # NoJob, NEW c \in OpenOn(t)
               PROVE  FALSE
    BY DEF SummaryReadsTheEnd
  <2>1. sess[t].live /\ sess[t].status # "active"
    BY DEF IInv, LiveInv, FlagGuards, TalkOver, OpenOn
  <2> QED BY <2>1, TalksAreSessions DEF IInv, LiveInv, FlagGuards
<1> QED BY <1>1, IInvAlways, PTL

(* The mistakes of a conversation are counted once (jobs.go 71 and         *)
(* 186-231), unless a run was queued again while it waited for the lock.   *)
THEOREM CountedOnce == Spec => []SummaryCountedOnce
<1>1. IInv => SummaryCountedOnce
  BY DEF IInv, JobInv
<1> QED BY <1>1, IInvAlways, PTL
=============================================================================
