--------------------------- MODULE LiveConnection ---------------------------
(***************************************************************************)
(* Live conversations of one learner: the flag live_active of a session,   *)
(* the connections that set and clear it, the daily limit of minutes, the  *)
(* worker that sweeps old flags, and the completion and reset that the     *)
(* flag forbids.  Source: live.go, jobs.go 43, sessions.go 723 and         *)
(* reset.go of src/internal/app.                                           *)
(*                                                                         *)
(* A ticket (30 seconds, used once) says which session a connection is     *)
(* for; a refused request leaves it as it was, so it is not kept here.     *)
(***************************************************************************)
EXTENDS Integers

CONSTANTS Sessions,   \* the learner's sessions
          Conns,      \* WebSocket connections, each used again once closed
          Limit,      \* live minutes of a day
          Longest,    \* live minutes of a connection
          None

ASSUME LiveAssumption ==
  /\ Limit \in Nat \ {0} /\ Longest \in Nat \ {0}
  /\ None \notin Conns

VARIABLES sess,       \* learning_sessions: status, live_active, updated_at
          conn,       \* how far each connection is
          userLock,   \* connection that holds the learner's row
          spent,      \* minutes of today in usage.live_seconds
          swept       \* history: a sweep took the flag of an open connection

liveVars == <<sess, conn, userLock, spent, swept>>

(* stale: not updated for 90 seconds *)
SessionRow == [status : {"active", "completed", "gone"}, live : BOOLEAN, stale : BOOLEAN]

Closed == [step |-> "none"]

(* A serving connection may talk for so many minutes. *)
ConnState ==
  {Closed}
  \cup [step : {"looked", "up", "closing"}, session : Sessions]
  \cup [step : {"serving"}, session : Sessions, minutes : 1 .. Limit]

(* An open connection has its flag set and will clear it. *)
Open(c) == conn[c].step \in {"up", "serving", "closing"}
OpenOn(s) == {c \in Conns : Open(c) /\ conn[c].session = s}

Flag(s) == [sess EXCEPT ![s].live = TRUE, ![s].stale = FALSE]
Unflag(s) == [sess EXCEPT ![s].live = FALSE, ![s].stale = FALSE]

LiveInit ==
  /\ sess = [s \in Sessions |-> [status |-> "active", live |-> FALSE, stale |-> FALSE]]
  /\ conn = [c \in Conns |-> Closed]
  /\ userLock = None
  /\ spent = 0
  /\ swept = FALSE
-----------------------------------------------------------------------------
(* liveRoute: one transaction, in the order of its statements *)

LiveLook_NoLock(c, s) ==
  /\ conn[c] = Closed /\ sess[s].status # "gone"
  /\ \A t \in Sessions : ~sess[t].live
  /\ conn' = [conn EXCEPT ![c] = [step |-> "looked", session |-> s]]
  /\ UNCHANGED <<sess, userLock, spent, swept>>

(* The learner's row is locked FOR UPDATE, no session is Live. *)
LiveLook(c, s) ==
  /\ conn[c] = Closed /\ sess[s].status # "gone"
  /\ userLock = None /\ userLock' = c
  /\ \A t \in Sessions : ~sess[t].live
  /\ conn' = [conn EXCEPT ![c] = [step |-> "looked", session |-> s]]
  /\ UNCHANGED <<sess, spent, swept>>

Release(c) == userLock' = IF userLock = c THEN None ELSE userLock

LiveUp(c) ==
  /\ conn[c].step = "looked" /\ sess[conn[c].session].status = "active"
  /\ sess' = Flag(conn[c].session)
  /\ conn' = [conn EXCEPT ![c] = [step |-> "up", session |-> @.session]]
  /\ Release(c)
  /\ UNCHANGED <<spent, swept>>

(* The session was completed meanwhile, or the transaction fails. *)
LiveRefused(c) ==
  /\ conn[c].step = "looked"
  /\ conn' = [conn EXCEPT ![c] = Closed]
  /\ Release(c)
  /\ UNCHANGED <<sess, spent, swept>>

(* The handshake fails after the commit: nobody clears the flag. *)
UpgradeFails(c) ==
  /\ conn[c].step = "up"
  /\ conn' = [conn EXCEPT ![c] = Closed]
  /\ UNCHANGED <<sess, userLock, spent, swept>>
-----------------------------------------------------------------------------
(* serveLive *)

(* What the day has left, as far as earlier connections have settled *)
Allowed == IF Limit - spent < Longest THEN Limit - spent ELSE Longest

(* The budget reserves the allowed time. *)
Serve(c) ==
  /\ conn[c].step = "up" /\ spent < Limit
  /\ conn' = [conn EXCEPT ![c] =
                [step |-> "serving", session |-> @.session, minutes |-> Allowed]]
  /\ UNCHANGED <<sess, userLock, spent, swept>>

(* No minutes are left, the budget refuses, or the database fails. *)
ServeRefused(c) ==
  /\ conn[c].step = "up"
  /\ conn' = [conn EXCEPT ![c] = [step |-> "closing", session |-> @.session]]
  /\ UNCHANGED <<sess, userLock, spent, swept>>

(* A heartbeat of the client writes updated_at. *)
Ping(c) ==
  /\ conn[c].step = "serving" /\ sess[conn[c].session].stale
  /\ sess' = [sess EXCEPT ![conn[c].session].stale = FALSE]
  /\ UNCHANGED <<conn, userLock, spent, swept>>

(* Time, silence, cost, a stop, an error of either side: the turns are     *)
(* stored and the minutes are settled (in whole units of the limit), while *)
(* the flag is still set.                                                  *)
HangUp(c) ==
  /\ conn[c].step = "serving"
  /\ \E used \in 0 .. conn[c].minutes : spent' = spent + used
  /\ conn' = [conn EXCEPT ![c] = [step |-> "closing", session |-> @.session]]
  /\ UNCHANGED <<sess, userLock, swept>>

(* The deferred UPDATE clears the flag, whoever set it. *)
Close(c) ==
  /\ conn[c].step = "closing"
  /\ sess' = Unflag(conn[c].session)
  /\ conn' = [conn EXCEPT ![c] = Closed]
  /\ UNCHANGED <<userLock, spent, swept>>

(* Its error is dropped. *)
CloseFails(c) ==
  /\ conn[c].step = "closing"
  /\ conn' = [conn EXCEPT ![c] = Closed]
  /\ UNCHANGED <<sess, userLock, spent, swept>>
-----------------------------------------------------------------------------
(* 90 seconds pass without an update of the row. *)
Age(s) ==
  /\ sess[s].live /\ ~sess[s].stale
  /\ sess' = [sess EXCEPT ![s].stale = TRUE]
  /\ UNCHANGED <<conn, userLock, spent, swept>>

Sweep_Fresh ==
  LET old == {s \in Sessions : sess[s].live /\ ~sess[s].stale}
  IN /\ old # {}
     /\ sess' = [s \in Sessions |-> IF s \in old THEN Unflag(s)[s] ELSE sess[s]]
     /\ swept' = (swept \/ \E s \in old : OpenOn(s) # {})
     /\ UNCHANGED <<conn, userLock, spent>>

(* Worker, every second, and cleanup, every hour: one UPDATE *)
Sweep ==
  LET old == {s \in Sessions : sess[s].live /\ sess[s].stale}
  IN /\ old # {}
     /\ sess' = [s \in Sessions |-> IF s \in old THEN Unflag(s)[s] ELSE sess[s]]
     /\ swept' = (swept \/ \E s \in old : OpenOn(s) # {})
     /\ UNCHANGED <<conn, userLock, spent>>

Complete_Unchecked(s) ==
  /\ sess[s].status = "active"
  /\ sess' = [sess EXCEPT ![s].status = "completed"]
  /\ UNCHANGED <<conn, userLock, spent, swept>>

(* completeSession: "stop Live before the session ends" *)
Complete(s) ==
  /\ sess[s].status = "active" /\ ~sess[s].live
  /\ sess' = [sess EXCEPT ![s].status = "completed"]
  /\ UNCHANGED <<conn, userLock, spent, swept>>

(* resetLearning "all" holds the learner's row and refuses while Live. *)
EraseSessions ==
  /\ userLock = None
  /\ \A s \in Sessions : ~(sess[s].status = "active" /\ sess[s].live)
  /\ sess' = [s \in Sessions |-> [status |-> "gone", live |-> FALSE, stale |-> FALSE]]
  /\ UNCHANGED <<conn, userLock, spent, swept>>

(* The process dies: connections and transactions go, flags stay. *)
ConnsDie ==
  /\ conn' = [c \in Conns |-> Closed]
  /\ userLock' = None
  /\ UNCHANGED <<sess, spent, swept>>
-----------------------------------------------------------------------------
(* What the server does next on a connection *)
Connection(c) ==
  \/ LiveUp(c) \/ LiveRefused(c) \/ UpgradeFails(c)
  \/ Serve(c) \/ ServeRefused(c) \/ HangUp(c) \/ Close(c) \/ CloseFails(c)

LiveStep ==
  \/ \E c \in Conns, s \in Sessions : LiveLook(c, s)
  \/ \E c \in Conns : Connection(c) \/ Ping(c)
  \/ \E s \in Sessions : Age(s)
  \/ Sweep
-----------------------------------------------------------------------------
LiveTypeOK ==
  /\ sess \in [Sessions -> SessionRow]
  /\ conn \in [Conns -> ConnState]
  /\ userLock \in Conns \cup {None}
  /\ spent \in Nat /\ swept \in BOOLEAN

(* "A session allows one active connection per learner" (README.md 37):    *)
(* only the sweep of an open connection that has not been pinged for 90    *)
(* seconds can let another one in; no failed upgrade, crash, late close,   *)
(* reset or race of two tickets does.  And connections one after the other *)
(* share the limit of a day: each is granted what the ones before it have  *)
(* left, because their minutes are settled before the flag lets it in      *)
(* (live.go 102-142).                                                      *)
OneAtATime ==
  ~swept =>
    /\ \A c, d \in Conns : Open(c) /\ Open(d) => c = d
    /\ spent <= Limit
    /\ \A c \in Conns : conn[c].step = "serving" => spent + conn[c].minutes <= Limit
=============================================================================
