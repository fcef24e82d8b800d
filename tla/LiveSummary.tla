---------------------------- MODULE LiveSummary -----------------------------
(***************************************************************************)
(* Live conversations and the summaries of those that were completed: the  *)
(* completion queues the job in its transaction, a reset erases both, and  *)
(* a process that dies takes connections and runs with it.                 *)
(*                                                                         *)
(* Both sides wait without a timeout for a pooled connection, and reserve  *)
(* also for the advisory lock and the learner's row (live.go 102, jobs.go  *)
(* 197, budget.go 17-49): such a wait may last for ever, as HandlerLocks   *)
(* shows.  It has then hung, and nothing is promised of it any more.       *)
(***************************************************************************)
EXTENDS LiveConnection, JobQueue

ASSUME TalksAreSessions == Talks \subseteq Sessions

VARIABLE hung         \* a wait for the database never ends

vars == <<liveVars, jobVars, hung>>

RunStep(w) ==
  /\ worker[w] # Free
  /\ Run(w, sess[worker[w].talk].status # "gone")

Init == LiveInit /\ JobInit /\ hung = FALSE

CompleteTalk(s) ==
  /\ Complete(s)
  /\ IF s \in Talks THEN Enqueue(s) ELSE UNCHANGED jobVars

ResetAll == EraseSessions /\ EraseJobs

ProcessDies ==
  /\ \/ \E c \in Conns : conn[c] # Closed
     \/ \E w \in Workers : worker[w] # Free
  /\ ConnsDie /\ RunsDie

Step ==
  \/ LiveStep /\ UNCHANGED jobVars
  \/ (JobStep \/ \E w \in Workers : RunStep(w)) /\ UNCHANGED liveVars
  \/ \E s \in Sessions : CompleteTalk(s)
  \/ ResetAll
  \/ ProcessDies

Hang == hung' = TRUE /\ UNCHANGED <<liveVars, jobVars>>

Next == ~hung /\ ((Step /\ UNCHANGED hung) \/ Hang)

(* Unless it hangs, every connection is ended by its timer at the latest,  *)
(* the time passes, the worker's ticker sweeps and claims, the cleanup     *)
(* runs every hour, and every step of a run comes to its end.              *)
Fairness ==
  /\ \A c \in Conns : WF_liveVars(~hung /\ Connection(c))
  /\ \A s \in Sessions : WF_liveVars(~hung /\ Age(s))
  /\ WF_liveVars(~hung /\ Sweep)
  /\ WF_jobVars(~hung /\ \E w \in Workers, t \in Talks : Claim(w, t))
  /\ \A t \in Talks : WF_jobVars(~hung /\ Requeue(t))
  /\ \A w \in Workers : WF_jobVars(~hung /\ RunStep(w))

Spec == Init /\ [][Next]_vars
FairSpec == Spec /\ Fairness
-----------------------------------------------------------------------------
TypeOK == LiveTypeOK /\ JobTypeOK /\ hung \in BOOLEAN

(* A summary is made of the end of the conversation: once its job exists,  *)
(* no connection of the session is open that could still add turns to it,  *)
(* so the last 40 turns that makeSummary reads (jobs.go 193) are the last  *)
(* ones there will be (sessions.go 723 and 810, live.go 106: turns are     *)
(* stored before the flag is cleared).                                     *)
SummaryReadsTheEnd ==
  \A t \in Talks : ~swept /\ job[t] # NoJob => OpenOn(t) = {}

(* No session stays marked Live, and by that locked for completion, reset  *)
(* and every other Live, whatever connection failed (live.go 106, jobs.go  *)
(* 43), unless a wait for the database hangs.                              *)
FlagClears == \A s \in Sessions : sess[s].live ~> (~sess[s].live \/ hung)

(* "Bounded retries" (README.md 56): a queued job comes to an end,         *)
(* whatever run of it is lost, unless a wait for the database hangs.       *)
EveryJobEnds ==
  \A t \in Talks :
    (job[t] # NoJob /\ job[t].status = "queued") ~> (Ended(t) \/ hung)
=============================================================================
