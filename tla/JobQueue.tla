------------------------------ MODULE JobQueue ------------------------------
(***************************************************************************)
(* The queue of background jobs and the worker's slots that run them, with *)
(* the job that summarises a conversation as the work: it reads the        *)
(* transcript, waits for the budget's advisory lock and for the model, and *)
(* writes the feedback and counts the mistakes for review.  A run may be   *)
(* lost at any point; the hourly cleanup queues it again.  Source: jobs.go *)
(* of src/internal/app.                                                    *)
(***************************************************************************)
EXTENDS Integers

CONSTANTS Talks,      \* sessions whose completion asks for a summary
          Workers,    \* slots of the worker
          NoJob

VARIABLES job,        \* jobs: status and attempts
          worker,     \* what each slot is doing
          feedback,   \* talks whose summary has its feedback
          mistakes,   \* how often a talk's corrections were counted in review
          overdue     \* history: a job was queued again while a run waited

jobVars == <<job, worker, feedback, mistakes, overdue>>

MaxAttempts == 3

Job == [status : {"queued", "running", "complete", "failed"}, attempts : 0 .. MaxAttempts]
ASSUME NoJobIsNone == NoJob \notin Job

NewJob == [status |-> "queued", attempts |-> 0]

Free == [step |-> "free"]
WorkerState ==
  {Free}
  \cup [step : {"claimed", "reserving", "calling", "done"}, talk : Talks]
  \cup [step : {"failed"}, talk : Talks, transient : BOOLEAN]

RunsOf(t) == {w \in Workers : worker[w] # Free /\ worker[w].talk = t}
At(w, step) == worker' = [worker EXCEPT ![w].step = step]
SetStatus(t, status) ==
  job' = IF job[t] = NoJob THEN job ELSE [job EXCEPT ![t].status = status]

JobInit ==
  /\ job = [t \in Talks |-> NoJob]
  /\ worker = [w \in Workers |-> Free]
  /\ feedback = {}
  /\ mistakes = [t \in Talks |-> 0]
  /\ overdue = FALSE
-----------------------------------------------------------------------------
(* completeSession: one job for each request_key *)
Enqueue(t) ==
  /\ job' = [job EXCEPT ![t] = IF @ = NoJob THEN NewJob ELSE @]
  /\ UNCHANGED <<worker, feedback, mistakes, overdue>>

(* runJob: FOR UPDATE SKIP LOCKED makes the claim one step. *)
Claim(w, t) ==
  /\ worker[w] = Free
  /\ job[t] # NoJob /\ job[t].status = "queued" /\ job[t].attempts < MaxAttempts
  /\ job' = [job EXCEPT ![t] = [status |-> "running", attempts |-> @.attempts + 1]]
  /\ worker' = [worker EXCEPT ![w] = [step |-> "claimed", talk |-> t]]
  /\ UNCHANGED <<feedback, mistakes, overdue>>

Fail(w, transient) ==
  worker' = [worker EXCEPT ![w] = [step |-> "failed", talk |-> @.talk, transient |-> transient]]

LookUp_NoPrevious(w, exists) ==
  /\ worker[w].step = "claimed"
  /\ IF exists THEN At(w, "reserving") ELSE Fail(w, FALSE)
  /\ UNCHANGED <<job, feedback, mistakes, overdue>>

(* makeSummary: an earlier run's feedback is the result; else the          *)
(* transcript is read, if the session still exists.                        *)
LookUp(w, exists) ==
  /\ worker[w].step = "claimed"
  /\ IF worker[w].talk \in feedback THEN At(w, "done")
     ELSE IF exists THEN At(w, "reserving") ELSE Fail(w, FALSE)
  /\ UNCHANGED <<job, feedback, mistakes, overdue>>

Reserved(w) ==
  /\ worker[w].step = "reserving"
  /\ At(w, "calling")
  /\ UNCHANGED <<job, feedback, mistakes, overdue>>

(* The budget refuses. *)
ReserveRefused(w) ==
  /\ worker[w].step = "reserving"
  /\ Fail(w, FALSE)
  /\ UNCHANGED <<job, feedback, mistakes, overdue>>

(* The model fails, for a while (HTTP 429 or 5xx) or for good, its summary *)
(* cannot be read, or the transaction fails.                               *)
CallFails(w) ==
  /\ worker[w].step = "calling"
  /\ \E transient \in BOOLEAN : Fail(w, transient)
  /\ UNCHANGED <<job, feedback, mistakes, overdue>>

(* One transaction; the UPDATE of a session that was erased changes no row *)
(* and the mistakes are counted all the same.                              *)
CommitSummary(w, exists) ==
  /\ worker[w].step = "calling"
  /\ feedback' = IF exists THEN feedback \cup {worker[w].talk} ELSE feedback
  /\ \E corrected \in {0, 1} :
       mistakes' = [mistakes EXCEPT ![worker[w].talk] = @ + corrected]
  /\ At(w, "done")
  /\ UNCHANGED <<job, overdue>>

Finish(w) ==
  /\ worker[w].step = "done"
  /\ SetStatus(worker[w].talk, "complete")
  /\ worker' = [worker EXCEPT ![w] = Free]
  /\ UNCHANGED <<feedback, mistakes, overdue>>

GiveUp_Never(w) ==
  /\ worker[w].step = "failed"
  /\ SetStatus(worker[w].talk, IF worker[w].transient THEN "queued" ELSE "failed")
  /\ worker' = [worker EXCEPT ![w] = Free]
  /\ UNCHANGED <<feedback, mistakes, overdue>>

(* A failure that may pass is tried once more. *)
GiveUp(w) ==
  LET again == worker[w].transient /\ job[worker[w].talk].attempts < 2
  IN /\ worker[w].step = "failed"
     /\ SetStatus(worker[w].talk, IF again THEN "queued" ELSE "failed")
     /\ worker' = [worker EXCEPT ![w] = Free]
     /\ UNCHANGED <<feedback, mistakes, overdue>>

(* The process dies or is stopped, or the last UPDATE fails. *)
RunLost(w) ==
  /\ worker[w] # Free
  /\ worker' = [worker EXCEPT ![w] = Free]
  /\ UNCHANGED <<job, feedback, mistakes, overdue>>

RunsDie ==
  /\ worker' = [w \in Workers |-> Free]
  /\ UNCHANGED <<job, feedback, mistakes, overdue>>

(* Five minutes after its claim a run is over, as every wait but that for  *)
(* the advisory lock is bounded.                                           *)
Late(t) == \A w \in RunsOf(t) : worker[w].step = "reserving"

(* cleanup *)
Requeue(t) ==
  /\ job[t] # NoJob /\ job[t].status = "running" /\ job[t].attempts < MaxAttempts
  /\ Late(t)
  /\ job' = [job EXCEPT ![t].status = "queued"]
  /\ overdue' = (overdue \/ \E w \in RunsOf(t) : worker[w].step = "reserving")
  /\ UNCHANGED <<worker, feedback, mistakes>>

(* resetLearning deletes what is queued; "all" also what was summarised.   *)
ForgetMistakes == mistakes' = [t \in Talks |-> 0]

EraseJobs ==
  /\ job' = [t \in Talks |->
               IF job[t] # NoJob /\ job[t].status = "queued" THEN NoJob ELSE job[t]]
  /\ feedback' = {}
  /\ ForgetMistakes
  /\ UNCHANGED <<worker, overdue>>

ResetLibrary ==
  /\ ForgetMistakes
  /\ UNCHANGED <<job, worker, feedback, overdue>>
-----------------------------------------------------------------------------
(* What a slot does next; exists: the session it works for is there.       *)
Run(w, exists) ==
  \/ LookUp(w, exists)
  \/ Reserved(w) \/ ReserveRefused(w) \/ CallFails(w)
  \/ CommitSummary(w, exists)
  \/ Finish(w) \/ GiveUp(w)

JobStep ==
  \/ \E w \in Workers, t \in Talks : Claim(w, t)
  \/ \E w \in Workers : RunLost(w)
  \/ \E t \in Talks : Requeue(t)
  \/ ResetLibrary
-----------------------------------------------------------------------------
JobTypeOK ==
  /\ job \in [Talks -> {NoJob} \cup Job]
  /\ worker \in [Workers -> WorkerState]
  /\ feedback \subseteq Talks
  /\ mistakes \in [Talks -> Nat] /\ overdue \in BOOLEAN

(* However often a job is run, lost after any of its steps and run again,  *)
(* its mistakes are counted once, and it is not reported as failed when    *)
(* its feedback is there.  Only a run that is queued again while it waits  *)
(* for the advisory lock, for more than five minutes, may be doubled       *)
(* (jobs.go 71 and 186-231).                                               *)
SummaryCountedOnce ==
  ~overdue =>
    \A t \in Talks :
      /\ \A v, w \in RunsOf(t) : v = w
      /\ mistakes[t] <= 1
      /\ t \in feedback /\ job[t] # NoJob => job[t].status # "failed"

(* A job has come to an end: with a result, with a failure, erased by a    *)
(* reset, or left running after its third run was lost.                    *)
Ended(t) ==
  \/ job[t] = NoJob
  \/ job[t].status \in {"complete", "failed"}
  \/ job[t].status = "running" /\ job[t].attempts = MaxAttempts /\ RunsOf(t) = {}
=============================================================================
