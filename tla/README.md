# Formal models of the AI tutor backend

TLA+ models of the backend under `src/` (an English tutor for Thai learners:
lessons spoken with a Gemini model, a Learn Ebook course, a diary, reviews, Live
conversations, a monthly AI budget), of the Python scripts that write its
content and deploy it, TLC configurations that check them on small instances,
and TLAPS proofs of what matters most for every instance.

Parse a module with SANY, check a run with TLC on the module and
configuration that `PROJECT.json` names, check a proof module with `tlapm`.

## 1. Inventory of the system

One Go process (`src/cmd/api`) serves HTTP over one PostgreSQL database and
runs one worker goroutine. All state that matters is in PostgreSQL; the process
keeps only a read cache and a map of tickets. Concurrency comes from HTTP
handlers (one goroutine each, no limit but a pool of 12 connections), the
worker, Live WebSocket connections, and whatever PostgreSQL's READ COMMITTED
transactions let through.

Around the process stand Python scripts that one person runs one at a time.
They make what the process embeds (the core lessons and scenes, the curriculum
of 425 more lessons, the 145 lessons of the Learn Ebook course) and switch the
host from one release to the next. Their state is in files that a rerun trusts
and in containers; a killed script leaves both half-way.

| Component | State it keeps | Operations | Interacts with |
|---|---|---|---|
| Lesson sessions (`app/sessions.go`, `retry.go`) | `learning_sessions` (status, mode, `state` JSON: stage, step, hint level, credits), `attempts`, `mastery` | createSession, advance, submitTurn, completeSession | budget, Gemini, hints, Live, reset, read cache |
| Hints (`app/hints.go`) | hint level and last hint in the session's state, hint cache | hint | budget, Gemini, sessions |
| Progress (`app/session_features.go`) | none of its own | lessonProgress, finishTurn | completes sessions |
| Learning rules (`learning/engine.go`) | none | Validate, Independent, Schedule | sessions, reviews |
| Reset (`app/reset.go`) | none | resetLearning "all" or "library" | deletes rows of everybody else |
| AI budget (`app/budget.go`) | `usage` rows, an advisory lock | reserve, settle, (worker) expire | every model call |
| Daily Meet (`app/daily_meets.go`, `daily_drill.go`) | `daily_meets.data` (text, sentences, analysed mark, drill) | edit, analyse, speak, (job) makeDailySentences | jobs, budget, Gemini |
| Live (`app/live.go`) | `live_active` and its ping time, tickets in memory | ticket, connect, serve, end | sessions, budget, worker sweep, reset |
| Jobs and worker (`app/jobs.go`) | `jobs` rows | claim, run, retry, requeue, cleanup, sweep | daily, TTS, scenarios, summaries |
| Reviews (`app/audio.go`, `learning.go`) | `review_items`, `review_attempts` | reviewAnswer, hint, list | budget, Gemini, summaries |
| Learn Ebook (`app/ebook.go`, `ebook_check.go`, `ebook/`) | `ebook_progress`, saved words, packs | open, listen, quiz, word check, shadowing, speaking | sessions, listening, budget |
| Listening (`app/listening.go`) | listen counts and revealed lines in a session's state | listen, reveal | sessions, Ebook |
| Read cache (`app/read_cache.go`, `appcache/`) | responses in memory, keyed by an epoch per user | Get, Set, invalidate | every handler that reads or writes |
| Media (`app/media_store.go`, `audio.go`) | files, `media`, an outbox to an object store | save, upload, expire, evict | sessions, jobs |
| Sign-in (`app/auth.go`) | users, invitations, tokens | register, login, logout | - |
| Core content (`scripts/build_content.py`, `enrich_content.py`, `refine_content.py`) | `lessons.json`, `scenarios.json` | one script each, the last two over what they write | expansion, tests, seed |
| Curriculum (`scripts/expand_curriculum.py`, `internal/content/`, `seed` in `app/app.go`) | `expansion.json`, the table `lessons` | build, validate; upsert at each start | every start of a release, the candidate of a deployment too |
| Course pipeline (`scripts/learn_ebook_v2/`) | `syllabus/`, `units/`, `solves/`, `reviews/`, the embedded course | syllabus_run, units_run, solve_run, review_run, repair_run, build_course | each reads what the one before it wrote; a model for minutes per lesson |
| Deployment (`scripts/deploy_portainer.py`) | containers, the database volume, `.toko-deploy-state.json` | prepare, candidate, wait for learners, switch, restore | Docker through Portainer; the running app |
| Resume, configuration, contract, other tools | bundled or derived data | reads only | - |

`PROJECT.json` lists every part with its sources and its status.

### What is hard in this code

* **Locks held across a model call.** `submitTurn`, `hint` and `reviewAnswer`
  lock a row, wait up to 30 seconds for the model, and commit. During that time
  they reserve budget on a *second* connection under one advisory lock. Resets,
  lesson starts and Live starts take the same rows in another order.
* **State read before a wait and used after it.** The attempt count of
  `completeSession`, the text `makeDailySentences` reads, the sentence index
  `speakDailyMeet` reads, the listening gate of an Ebook lesson.
* **Repeated requests.** Answers, hints and recordings carry a `request_id`; a
  repeat may come before, during or after the first one, from another session.
* **Failures between steps.** The answer is committed before the lesson is
  completed; a reservation is committed before the call and settled after it;
  errors of the settlement are dropped; a job may die on its last attempt.
* **Files a rerun trusts.** A lesson that has its file is not written again, a
  judgement newer than its lesson is not asked for again, a chunk of the syllabus
  that exists is not looked at: whatever a kill or an edit leaves there stays.
* **Flags set after the call.** The handlers of the deployment ask variables
  (`renamed`, `renamed_db`, `new`) that are assigned when the call has been
  answered; an effect whose reply is lost is not undone.
* **A candidate on the shared database.** A release on trial writes its lessons
  into the database the running release reads.
* **Late writers.** An expired reservation may still be settled, a closed Live
  connection still clears its flag, a cached response may outlive a write.

The list "hazards" of `PROJECT.json` gives each at the line where it bites.

### What makes each component correct

* Sessions: a round is credited once, only for unaided clear speech with a
  stored answer behind it; mastery agrees with the sessions; a completed session
  never changes; one active session per lesson; the second credited round completes
  the lesson, if need be when its answer is sent again; every handler ends, but for
  the hangs under "Locks".
* Budget: reservations never pass the application's or the user's limit; a call
  under way is always charged; every reservation is settled or expires.
* Daily Meet: passes are kept; the analysed mark is honest; sentences say what
  the text says.
* Locks: handlers end; where they cannot, exactly which cycle is to blame.
* Learn Ebook: a step has its evidence, whichever request earned it; a finished
  unit enters review; a mistake and a spoken line are counted once; progress is
  lost in named ways only.
* Live: one connection per learner and one limit per day; the flag clears,
  whatever failed.
* Jobs: a job ends; a summary is made of the end of the conversation (its last 40
  turns, after which no more are added) and counts its mistakes once, however often
  it is run.
* Core content and curriculum: rebuilt files are those of the repository, no scene
  twice, what the scripts let through passes the tests; a release starts exactly if
  no other lesson has its ordinals; learners read the lessons of their release.
* Course pipeline: target words are new over the whole course; a clean script has
  judged every text on disk; a repair answers a finding about the very text; what
  is released the application starts with and marks as the solver did.
* Deployment: one database on the volume, its password kept; the previous
  container kept; the old app restored after any single mishap but the named
  ones; learners waited for.
* Reviews (planned): an answer advances an interval once, a hint or typed answer
  never. Read cache (planned): nothing older than the last invalidated write.

## 2. Modules

| Module | Models | Abstract specification |
|---|---|---|
| `LessonLedger` | what a learner may rely on: sessions open, win rounds, complete, are erased | itself |
| `PracticeSession` | session handlers over `learning_sessions`, `attempts`, `mastery` | `LessonLedger` (property `KeepsLedger`) |
| `PracticeAudit` | `PracticeSession` with a record of the past | - |
| `Budget` | `reserve`, `settle`, the cleanup over `usage` | - |
| `DailyMeet` | edits, analyses and recordings of one diary entry | - |
| `HandlerLocks` | what handlers hold and wait for: pool, rows, advisory lock | - |
| `EbookCourse` | one lesson of the course: progress row, practice sessions, review | - |
| `LiveConnection` | Live connections and the flag, with the sweep | - |
| `JobQueue` | the job queue, the worker's slots, the summary job | - |
| `LiveSummary` | the two together: completion, reset, death of the process | - |
| `CoreContent` | the three scripts of the core lessons and scenes | - |
| `Curriculum` | `expand_curriculum.py`, the tests, `seed` of every process that starts | - |
| `UnitRules` | what is asked of one lesson of the course: the writer's rules, the solver's comparison, the application's | - |
| `CourseUnits` | the scripts that write, judge, repair and build the lessons of the course | - |
| `CourseSyllabus` | `syllabus_run.py`: the target words | - |
| `Deploy` | `deploy_portainer.py`, call by call, with its handlers | - |
| `*_proofs` | theorems of the module they extend | |
| `MC*` | constants and symmetry of the runs | |

A definition called `Name_Fault` beside `Name` is `Name` with a plausible bug
in it; each property is shown to fail when the one replaces the other ("mutants"
of `PROJECT.json`).

### PracticeSession

`sess[s]` is a row of `learning_sessions` with the part of its `state` JSON that
decides anything: `stage` and `step`, `hint` (`hint_level`), `last_pass`,
`independent` and `independent_steps` (the credits), `progress_drills`,
`last_hint` (`last_hint_request`), `live` (`live_active`), and the stored
summary. `attempts` is keyed by `request_id`, which is unique per user.
`mastery` is the learner's row per lesson. `lock[s]` is the row lock, `userLock`
the `FOR UPDATE` on the learner's row, `hand[h]` what a handler has still to do.

| Action | Code |
|---|---|
| `CreateBegin`, `CreateResume`, `CreateLesson`, `CreateOther` | `createSession`: lock the learner, find a session to resume, insert |
| `Advance` | `advance` |
| `HintAtOnce`; `HintBegin`, `HintAnswered` | `hint` with a known text; with a call of the helper model |
| `TurnReplay`; `TurnBegin`, `TurnGraded` | `submitTurn` repeated; before and after the model's answer |
| `FinishTurn` | `finishTurn`, after the commit |
| `CompleteRequest`, `CompleteCommit`, `CompleteRefused` | `completeSession`: counting the answers before the lock, and the rest after it |
| `CallFails`, `Crash` | any error after the lock; the process or connection lost |
| `LiveStart`, `LiveEnd`, `ResetAll` | the other writers of these rows |

A handler takes a step of its own wherever another handler can observe or
change what it uses: across the model call (the row stays locked), between the
commit and the completion, and between the unlocked count and the lock. A start that
resumes a session and sets `auto_audio` (`audio` of its record) waits for that
session's row, which a turn or a hint may have.

`PracticeAudit` adds `aided` (rounds helped with) and `cut` (sessions that met Live, or
lost the handler that was at work on them; a session is no longer `cut` once an answer
sent again or a request to complete has taken its completion up), and `hung`, see
"Fairness".

### Budget

`usage[c]` is the row of call `c`, `call[c]` how far the call is, `advisory` who
has `pg_advisory_xact_lock(7214904)`, `month` the calendar. `ReserveBegin` fixes
the month of the transaction (`now()`), `ReserveSum` takes the lock and adds up,
`ReserveInsert` or `ReserveRefused` ends it; `Settle` is every branch of
`settle`, one for each `Outcome` of `gemini.Generate` (refused, counted, not
counted, estimated); `SettleLost` its dropped error; `Cleanup` the two-hour
expiry, which may meet a call under way. `Sum` counts what rows charge, THB by THB.
A user's allowance is taken as constant.

### DailyMeet

`entry` is `daily_meets.data`. Texts and sentences are model values; what the
code computes from them is given by constants: `Plain` (the cut at full stops)
and `Splits` (the cuts a model may return). A sentence is `told` when it has its
meaning and reading aid. The job and the recording read, wait for the model and
write, in two steps each; the edit is one transaction.

### HandlerLocks

`at` is how far each handler has come, `got` how many of its rows an owner has. What a
handler holds follows from that: a connection from `begun` on, two while it reserves or
keeps speech, its row from `locked` on, the advisory lock while `charging`, the learner's
row while `owning`. `Graders` are `submitTurn`, `hint` and `reviewAnswer`; `Listeners` are
`listen` and `listenEbookShadowing`, which keep the session's row while `makeTTS` works
and, alone of all, give up after 25 seconds (`TimeOut`); `Owners` are lesson and Live
starts and resets, which take the rows they write (`Wanted`) one by one, and the worker's
sweep of Live flags, which takes rows of several learners and nobody's row in `users`.
Whether a call is over budget is decided as soon as the advisory lock is there
(`OverBudget`, before the INSERT at which `Charge` waits); whether a start or a reset is
turned away, under the learner's row (`TurnAway`). PostgreSQL's deadlock detector ends a
cycle of two waiting transactions (`Victim`); it cannot see a cycle that goes through a
transaction that is idle because its handler waits on another connection.

### EbookCourse

`row` is `ebook_progress` of the current version (`steps` done, `right` quiz items,
`heard` listening items, `revealed`, `enrolled` in review); `given` remembers which
steps the row began with, carried over from `old`, the progress under earlier
versions. `events` are the recorded checks, `failures` and `prompts` the review
items, `sess` and `answers` the practice sessions and the spoken lines, `rowLock`
and `lock` row locks.

| Action | Code |
|---|---|
| `ReadSeed` | `ebookCourseSeedState`, read before the transaction |
| `Reveal`, `Report` | `revealEbookCourse`, `ebookCourseProgress` |
| `CheckBegin`, `CheckReplay`, `CheckCommit`, `CheckFails` | `checkEbookCourse` up to the tutor's call, and after it |
| `OpenSpeaking`, `Gate`, `OpenShadowing` | `ebookCourseSession`; the listening gate is read first |
| `LineBegin`, `LineSaid`, `LineMissed`, `LineFails` | `submitEbookShadowing` around its model call |
| `RoundWon` | `submitTurn`, as far as the course depends on it |
| `CompleteMerged`, `CompleteUnready` | `completeSession` of a speaking session |
| `CompleteFindsNone`, `CompleteUpsert` | the same when it finds no row: state from the seed, then an upsert |
| `ResetLibrary`, `ResetAll`, `Crash` | the resets; a handler cut off |

Which answers are right is any choice (`Marks`): the answer key and the tutor are
data. Every writer ends with `Settled` and `Enrol` (`ebookCourseMarkLearned`).

### LiveConnection, JobQueue, LiveSummary

`sess[s]` has the status, `live_active` and whether `updated_at` is more than 90
seconds old; `conn[c]` is how far a connection is, `spent` the minutes settled
today. `LiveLook` to `LiveUp` is the transaction of `liveRoute` under the learner's
row, `UpgradeFails` the flag left by a failed WebSocket upgrade, `Serve` the grant
of minutes, `Ping` the heartbeat, `HangUp` every end of the conversation (settle,
then clear the flag), `CloseFails` a clearing that gives up after ten seconds,
`Age` and `Sweep` the 90 seconds and the worker's sweep.

`job[t]` is the row of the summary of talk `t`, `worker[w]` the run in each of the
worker's two slots: `Claim`, `LookUp` (is there feedback already?), `Reserved` (the
wait for the budget's lock), `CommitSummary`, `Finish`; `CallFails` and `GiveUp` are
the failing paths with their retries, `RunLost` a run that dies, `Requeue` the
hourly cleanup. `LiveSummary` ties both: `CompleteTalk` closes a session and queues
its job in one transaction, `ResetAll` erases on both sides, `ProcessDies` takes
every connection and every run, and leaves flags and rows.

`swept` and `overdue` record the past. `swept`: the sweep took the flag of a
connection that was open (it had not been pinged for 90 seconds; a silent peer
is usually closed after 60). `overdue`: a job was queued again while its run still
waited for the advisory lock. The properties say that nothing else breaks them.

### Deploy

`host` has the containers and the password the database volume was made with; a
container has a name, runs or not, publishes a port, and holds a password. `pc[r]`
is the call the run `r` of the script is at, `loc[r]` its local variables (`old`,
`new`, `stopped`, `renamed`, `renamed_db`, `replacement`), `file` the state file.
`CanCreate` to `CanDelete` are what Docker refuses. `Call` is a call with its four
ends: answered, refused, failed before its effect, or carried out and its reply
lost; `Wait` is `wait_ready`; `Handler` where an exception leads (the two `try`
statements, one in the other); `Killed` ends the script anywhere. `LearnerStarts`
and `LearnerEnds` are the people `Busy` waits for, `RollBackByHand` the way back that
`README.md` describes.

### CoreContent and Curriculum

A lesson or scene is a record of what the scripts tell apart: the script that
worded it, and counts of what scripts append (notes, bridges, roles). `Write` is
the pair of `write_text` at the end of each script, run through or cut at either
file. `sequence` remembers how far `build && enrich && refine` ran without a break.

`Editions` are what the tables of `expand_curriculum.py` hold at one time. `Expand`
builds and validates one and writes the file (or is killed and leaves it torn),
`BuildImage` embeds it. `Seeding` is the loop of upserts in `seed` over all lessons, with
the UNIQUE ordinal that may refuse one and with it the whole transaction. Every
process that starts seeds: `StartCandidate`, `SwitchTo`, `RestoreOld`, `Restart`,
`RollBack`. `meddled` remembers that another release has started since the
live process did.

### CourseSyllabus, UnitRules and CourseUnits

`CourseSyllabus` goes through the chunks in order: `LoadChunk` and `LoadDraft` take
what a former run left, `Generate` and `Replace` are the model's answers, a round
replaces what `collisions` finds, `WriteChunk` writes the chunk and removes the
draft. `redone` remembers that a chunk was made anew under a later one.

`UnitRules` are operators on a lesson. A text is a record of what the three
comparisons tell apart: `norm` of the writer's rules drops punctuation, `key` of
the solver spells contractions out, `exact` of the application keeps punctuation.
`LessonRead` and `SolutionRead` say what shape the scripts read: the model answers by
a schema, and a script raises on a file that has another. The writer's rules
(`FieldsSound` to `ReviewSound`, joined in `validate_unit`) and the application's
(`TeachingStarts` to `ReviewStarts` and the proofreading, joined in `StartsWith`) are
translated apart, each with the fields it looks at and its own numbers; they share no
definition but `Blank`, `English` and the forms of a text. The application also looks at
the theme of a lesson, which `build_course` copies from the syllabus.

`CourseUnits`: `job[o]` is what the thread of lesson `o` does; it takes the lesson,
gives it to a model and writes afterwards. The main thread reads the results in order;
when it comes to one that raised, what no thread has begun is cancelled (`Raised`,
`Cancel`), and until then threads go on taking lessons. Judgements newer than their lesson are
trusted, older ones are as if absent (`PutUnit`). `Build` audits all lessons and
writes the course, `RestoreUnits` takes them back out. `Edit`, `DeleteUnit` and
`FreshClone` are the person between and during scripts, `Kill` and `KillBuild` cut
a script short, also half-way through a file.

## 3. Runs

| Run | Module, configuration | Question | States |
|---|---|---|---|
| `practice` | MCPracticeSession | do concurrent handlers keep credits, mastery and summaries sound, never two active sessions of a lesson, and is every step one of `LessonLedger`? | 1.8 M |
| `practice_audit` | MCPracticeAudit | no credit after help; the second round completes; every handler ends unless it hangs | 0.44 M |
| `budget` | MCBudget | are limits guarded, calls charged, reservations settled? | 119 k |
| `daily` | MCDailyMeet | are passes and the analysed mark kept? who parts text and sentences? | 174 k |
| `locks` | MCHandlerLocks | does every handler end, but for two named hangs? | 182 k |
| `ebook` | MCEbookCourse | do steps have evidence, is review entered, what loses progress? | 0.54 M |
| `live` | MCLiveSummary | one connection, one limit, summaries of the last turns, mistakes counted once; do flags clear and jobs end? | 0.69 M |
| `deploy` | MCDeploy | is the database safe, the old app restored, the way back kept, are learners waited for? | 250 k |
| `units` | MCCourseUnits | what does a clean script prove of the files, and does the application start with and mark by what the pipeline releases? | 305 k |
| `syllabus` | MCCourseSyllabus | are target words new, and does every rerun end? | 439 k |
| `curriculum` | MCCurriculum | which releases start, whose lessons are read, what do scripts let through? | 71 k |
| `curriculum_renumbered` | MCCurriculum, CurriculumRenumbered | does every release that passes the tests start? **No** | - |

**Bounds.** `practice`: two handlers (every hazard listed is between two
requests), two sessions, each at the outset a lesson of the old flow with drills or
free for what is started later, one lesson, two answers, one drill, hint levels to
1, one answer for a placement, step to 1: two rounds exist, so two credits and
mastery happen; an answer passes or is unclear (one that is wrong is told apart only by
the run `practice_audit`, one that is off the task adds to the aided count as an
aided pass does); handlers, requests and sessions are symmetric
(safety only). `practice_audit`: one lesson, old with two drills or guided, hint
levels to 2, answers that pass or are wrong, and liveness, without symmetry. `budget`: three calls
(two that race and one already booked), a user who alone can reach the
application's ceiling (5 against 3) and one who cannot (2), reservations of 2
under a ceiling of 3 so that two never fit, costs below (1) and above (3) a
reservation, and the turn of a month. `daily`: two texts that share a sentence and
have as many, a model that cuts one sentence in two, two jobs, two recordings,
two levels. `locks`: an answer, a listening turn on the same session and a review
of one learner, another learner's answer, a reset, a Live start and the sweep over both
sessions, on five connections. Five are what the largest cycle takes (a turn has its
row and waits, on a second connection, for the advisory lock; a review has that and
waits for the learner's row; a Live start has that and waits for the turn's row), and
few enough that the pool runs dry. The property was checked with three, four and the
code's twelve as well, where the pool is never dry. `ebook`: two handlers, two sessions, one quiz and one
listening item, one reading step, two lines, two checks and two spoken lines: a
check can be wrong and then right, two overlap, and a practice is completed;
a practice *repeated* after it was completed is reached from a unit carried over
(with two spoken lines a session cannot be completed and another begun). Learners
have no earlier progress, or a learned unit. `live`: two connections, a session
that asks for a summary and one that does not, two worker slots, one minute a
day: the second connection finds the limit used or not. Three runs of a job
are the code's own bound (`MaxAttempts`).

`deploy`: three runs of the script, the last of the same release as the first (names
clash, with another run between them), each with another port of the database than
the one before (so it is made anew each time, and the port a run leaves is the one
the next but one asks for), from a bare or an installed host, two mishaps in all: one
in a run and one in the run that meets its remains, or two in one. On this instance
each of the 23 mishaps of `Unrecovered` is needed: without any one of them TLC finds
`Restores` violated. `units`: two lessons, one thread, an
edit and a kill; the writer of the first may return a sound lesson or one of
twenty-five defects, one or more for each part of the rules, one with gaps named
below, or one that repeats an example of the second; the theme of the second has no
Thai name, another gap. `syllabus`: three chunks of two
terms, two and one (two in one unit, two in two units), five words and the empty
one, two attempts, two rounds, a kill and a removed file. `curriculum`: seventeen
editions (as released first, a text edited, units swapped, added, withdrawn,
replaced, and ten that have to be refused), three releases, four core lessons
in two units, three work and two everyday scenes, six scripts since the last
rebuild (any three, and then the sequence).

Bounds in guards: `MaxStep` (rounds advanced to), the number of session ids,
`LastMonth`, `MaxIndex` (sentences),
`MaxMishaps`, `MaxEdits`, `MaxKills`, `MaxDeletes`, `MaxImages`, `MaxScripts`, two counted rounds of a speaking session, each named where it is declared.

**Fairness and hangs.** A model call ends, by its answer or by its timeout (30 seconds
in sessions, 45 by default elsewhere). Every other wait is for the database, on the
request's context or the worker's, which have no deadline: for a connection of the
pool, for a row, for the advisory lock, for the learner's row at the INSERT into
`usage`. Who waits is served in order, but only if who is before it ends, and
`HandlerLocks` shows that this need not be so.

So `locks` alone speaks of those waits: its fairness is only that not all handlers stand
still while one of them can go on (`WF_vars(GoesOn)`), and its property says that
handlers that have begun all end, or are from some time on in one of two hangs. The
other modules have parts of those locks only and cannot tell which wait hangs. In
`PracticeAudit`, `Budget` and `LiveSummary` a step `Hang`, possible at any time, says that a
wait will never end; the module stops there (`hung`), fairness holds until then
(`~hung /\ ...`), and the liveness properties promise their end *or* `hung`. What they
show is that nothing else is in the way: no early return, failed call, lost process,
retry or race. Until a hang, steps that need a lock are strongly fair where another can
have it, the others weakly; `deadlock_timeout` ends a start and a turn that wait for
each other (`Deadlocked`); the ticker makes `Cleanup`, sweeps, claims and requeues weakly
fair; time passes (`Age`), and timers end every connection.

Nothing makes a learner send a request, and crashes are never fair. Runs without
liveness use the specification without fairness.

`CHECK_DEADLOCK FALSE` is set where the system may rightly stop: all requests
answered and every bound reached.

### Disagreements found

* **Renumbered lessons** (`curriculum_renumbered`). `seed` upserts lesson by lesson
  under a UNIQUE ordinal. A release whose lessons change places, or that gives
  the ordinal of a withdrawn lesson to another, does not start; rows are never
  removed, so neither does any release after it that keeps these ordinals.
  `docs/curriculum-expansion.md` calls ordinals temporary and the ids stable. The
  tests accept such a release. `StartsIffOrdinalsAgree` says exactly which
  releases start.
* **A candidate on the shared database** (named in `LearnersReadTheirRelease`). A
  candidate seeds before it is found ready. Dismissed, it leaves its texts to
  the running release until that one restarts, and the ordinals of its new
  lessons are taken for good.
* **A deployment that is not undone** (named in `Restores`). `README.md` says the
  old app is restored. It is not when the reply of `stop_old`, `rename_old`,
  `rename_db`, `create_db` or `create_new` is lost (the flag is set after the call);
  when the new app was made and could not be started (Docker refuses to stop a
  container that does not run, and the handler raises); when the script is killed from
  the rename on; or when a call of the handler itself fails, is answered too late or
  is its last, where the handler was entered with no mishap, because an earlier run
  had left a name taken. `OneDatabase` is broken
  by one event only, the lost reply of `rename_db`: the original is started under
  the other name, and the next run makes a second database on its volume. The
  password is lost when a run stops between that rename and the new container.
* **A learner interrupted** (named in `LearnersAreWaitedFor`). A learner who reached
  the new app is cut off when the HTTPS check fails and the app is halted.
* **Rules of the writer and the application** (`GapIn` of `UnitRules`, named in
  `StartRefusesOnlyGaps`). The writer's rules and the audit let through what the
  application refuses to start with: a blank English theme or one without a Thai name
  (`build_course.py:34` copies both from the syllabus, where nobody looks at them), a blank
  wrong sentence, prompt, option or listening line, a banned or doubled word. An answer without a word (an empty order, or one that
  the key has) passes the solver and would be marked wrong by the application.
* **Torn lessons** (`spoiled` in `UnitsRunDelivers`). The README of the scripts says
  every runner is resumable; a lesson cut short by a kill exists, so
  every rerun of `units_run` takes it for finished, and the next script fails on it.
* **A judgement of the old text** (`raced` in `CleanRunIsJudged`). A lesson edited
  while a judge has it gets a judgement newer than itself, of the text before.
  `build_course` does not ask for judgements at all.
* **Words made anew** (`redone` in `GloballyNew`). A chunk removed and made again
  under later ones is compared with the chunks before it only. And
  `syllabus_run` gives up after 25 rounds, where its comment says a batch always
  converges; it also compares words without hyphens, which the audit turns to
  blanks.
* **Refined twice** (`RefinedIsEnriched`). `refine_content.py` over its own output
  says each bridge and each role twice; only the three scripts in order
  restore the files (`Rebuilt`). `README.md:31` names two of the three.
* **Hint requests** (no run). Only the last request id is kept (`hints.go:38`), so
  q1, q2, q1 carries out q1 twice; `docs/new-features.md:62` says a repeated request
  returns its saved hint.
* **The ceiling** (named in `ReservationsGuard`). Only reservations are checked; an
  answer that costs more than was reserved is booked in full. `README.md` says the
  total is capped. What holds: a month exceeds the ceiling by at most what its
  answers cost beyond their reservations.
* **Late analysis** (`OnlyLateAnalysisParts`). An analysis that ends after an edit
  replaces the edited sentences by those of the old text and resets the drill;
  nothing else parts text and sentences.
* **A lost reveal** (named in `OnlyTheseLoseProgress`). `completeSession` that finds no
  progress row makes one in memory and replaces what a first reveal or check has
  committed in the meantime. `README.md` says revealing is recorded; the course's
  design says progress writes are serialized. The other ways are intended or at
  least sequential: a wrong re-check, a partial re-check of a carried-over
  quiz, the first line of a practice done again (it takes the completed step
  away until the last line), a reading step taken back.
* **Two hangs** (`locks`, stated inside `OnlyTheseHangs`, since no document promises
  their absence). `BudgetHang`: a handler has the advisory lock and waits, to insert
  into `usage`, for the learner's row. A reset, Live start or resumed lesson has that
  and waits for a row of a session or a review, itself or because the worker's sweep
  has that row already and waits for another one; and this row is held by the same
  handler or by one that waits, on its second connection, for the advisory lock.
  PostgreSQL sees no cycle, for the transaction that has the row is idle; no model
  call of any learner gets past the lock until a connection is cut. `PoolHang`:
  everyone who has a connection waits, at least one of them for another connection,
  and the pool has none. Listening turns, with their deadline, take part in neither
  for long.
* **Live and jobs** (`live`, stated inside its properties). One connection per
  learner holds but for the sweep; a third run that is lost leaves its job
  running for ever; a provider's transient failure is retried once, where
  `docs/qa-api.md` speaks of three attempts.

## 4. Proofs

All theorems are checked by TLAPS for every value of the constants that the
named assumptions allow.

**PracticeAudit_proofs** (from `ConstantsAssumption`, `AnswerAssumption`) has first the
theorems of `PracticeSession`.
* `TypeCorrect`: `Spec => []TypeOK`. `TypeOK` is inductive once it has the shape
  of every handler's record; the lemmas `GradedType`, `AdvancedType`, ... say what
  each helper returns.
* `LocksProtect`: `Spec => []IInv`, with `IInv` = `TypeOK` and `GradersHoldRow` (a
  handler between the lock and the commit holds the lock of an active session),
  `StartersHoldLearner` (who starts a lesson holds the learner's row),
  `StartersSawNothing` (what a start saw when it looked is still true when it
  inserts) and `OneActivePerLesson`. The last is not inductive alone: the insert
  rests on what was seen under the lock, and only the lock keeps that true.
* `OneActive`, `DistinctRounds`, `Final`: the run's `OneActivePerLesson`,
  `CreditsAreDistinctRounds`, `CompletedIsFinal`. `Final` needs `GradersHoldRow`: a
  graded answer is committed only into a session that is still active. The lemma
  `RowsMove` says what a step can do to one row, and serves all three.
* `Earned`: the run's `MasteryIsEarned`. The mastery row counts the rounds credited
  in the sessions of its lesson, stated as the cardinality of one set
  (`CreditedRounds`), which needs no induction over the sessions. A step credits at
  most one new round, and adds one.
* `Summaries`: the run's `SummaryIsSound`. The answers are counted before the row is
  locked, so the invariant needs `CountedKnown`: what a handler has counted is never
  more than what is stored, unless the session was erased.
* `LedgerKept`: `Spec => KeepsLedger`: each step of the handlers is a step of
  `LessonLedger` or a stutter.

The steps of `PracticeAudit` are steps of `PracticeSession`, which gives it the
invariants above.
* `HelpIsNotCredited`, the run's `NoCreditAfterHelp`, from `HelpShows`: a round that
  was helped with is behind the session, or is its round now and the row says so
  (`hint > 0`, or a hint kept from before), so that no answer of it counts.
* `SecondRound`, the run's `SecondRoundCompletes`, from `Attended` (who credited the
  second round, or took its completion up again, is on its way to complete the session,
  unless it is `cut`), `CreditsAreTalk` and `LiveIsCut`.

**EbookCourse_proofs** (from `ConstantsAssumption`): `TypeCorrect`, `Earned`,
`AlwaysInReview` and `LossesAreThese`, the run's `ProgressIsEarned`,
`FinishedIsInReview` and `OnlyTheseLoseProgress`. `IInv` adds, for every handler, that
the progress it carries from one transaction to the next was itself earned
(`Holding`): a check works from a state read before its model answered, a completion
from a row made in memory. That a session has at least as many passed answers as
said lines (`LinesHavePasses`) needs `Unused`: an answer not sent yet has no result,
so that each line said adds a passed answer.

**Budget_proofs** (from `BudgetAssumption`, `NoneIsNoRow`): `IInv` says that the
advisory lock is held exactly by the call that has summed, and that a call under
way has a row that charges at least its reservation. `OneReservesAtATime` and
`InFlightCharged` follow. `Guarded` is the run's `ReservationsGuard`. A sum is the
number of its THB, one by one, as pairs of a row and a number (`Thb`): sums are
then compared by the inclusion of sets. What is `Kept` of a sum is the THB within the
reservation of their row. `RowsWithin` says that what is kept of a month is within
the budgets. It rests on `SumsHold`: what is kept since a month is at most what a call
has summed, as long as it has the lock. Closing a row keeps no more of it than
before (`Relaxes`, `RelaxedKeeps`), since a row was charged its whole reservation until
then; a row is inserted only by who has the lock, and then nobody has summed.

**ContentScripts_proofs** (from `SyllabusAssumption`, `ContentAssumption`,
`EditionsAssumption`).
* `NoWordTwice`, the run's `GloballyNew`. `SyllabusIInv` adds `UsedIsTaught`: while
  `syllabus_run.py` is at a chunk, the words in `used` are those of all finished chunks
  before it. Only `WriteChunk`, and a kill while it writes, make a file, and only of a
  batch without collisions.
* `StartsExactlyIfOrdinalsAgree`, `LearnersReadWhatRuns` and `WhatScriptsWritePasses`,
  the run's `StartsIffOrdinalsAgree`, `LearnersReadTheirRelease` and `ScriptsPassTests`,
  for any tables, any number of releases, lessons and scenes. `CurriculumIInv` joins
  three parts.
  * `ContentInv`: each core file is cut short or holds lessons of which one knows,
    one by one, what each script keeps (`LessonSound`), and scenes that are the rows
    of the table and then the everyday ones; how far the three scripts were run in
    order says which files these are. An assessment's earlier lessons are the others
    of its unit (`BeforeIsUnit`, `SamePlaceIsUnit`), since `enrich_content.py`'s
    arithmetic marks the last of each unit (`AssessmentsClose`).
  * The table `lessons` is numbered without a gap and no ordinal twice (`TableInv`).
    This is what the agreement of a release needs to be the whole condition: an
    ordinal below that of a lesson of the release is taken by the lesson the release
    gives it, so that no lesson moves and the row-by-row check never meets a row
    that is about to move (`OrdinalsStay`, `DisagreementFails`). The invariant needs
    what the assertions ask for, that a release counts its lessons from one.
  * What has started keeps its ordinals in the table (`KeptInv`), and the release that
    runs its texts, until another has started (`ReadInv`).
* The loop of `seed` is computed by induction up to its length: `UpTo` is induction
  over an interval, for a set, from the well-foundedness of the naturals
  (`LeastMember`), and `SeedingSteps` unfolds the recursive function. `SeedingOutcome`
  says what a start does: refused exactly if a lesson disagrees, and then nothing is
  written; else all lessons are, and no row changes its ordinal.
* The proof found `ScenesOnce` mis-stated: its second half, `\E` before an
  implication without parentheses, held by any scene that is not an everyday one.
  Stated as meant, it holds.

**CourseUnits_proofs** (from `CourseAssumption`, `LessonAssumption` and
`SyllabusAssumption`: ten terms a lesson, which `syllabus_run.py:49` asks for, and a theme),
for lessons, answers and themes of any content.
* The rules: `RulesSuffice` (a lesson that passes the writer's rules and in which no term
  is repeated passes the application's, up to `GapIn`; one step for each part of a
  lesson, from the writer's rule about it to the application's) and `AgreedIsRight` (an answer the solver's comparison
  agrees with is one the application marks right). Both compare how much of a text
  each of the three sees (`ExactlyAsMany`, `ExactSeesMore`).
* `FilesAreRight`: `Spec => []IInv`. `IInv` is the types, `CourseSound` (what is built was
  audited) and for each lesson `Right` (left to the scripts, a judgement is of the
  text that is there, the text is sound, and a solve without a mismatch has answers
  that agree with it) and `Knows` (the text a thread asks about is the one on disk, a
  repair has its finding, what a thread reports is there).
* `ReleasedStarts`, `SolvedIsAccepted`, `CleanIsJudged`, `RepairsAnswer`, `Delivers` follow:
  the run's five properties. The proof found `CleanRunIsJudged` mis-stated: by its
  indentation its first half was a premise of the second, and TLC checked the second
  only. Stated as meant, both hold.

**LiveSummary_proofs** (from `LiveAssumption`, `NoJobIsNone`, `TalksAreSessions`):
`OneTalks`, `LastTurnsAreRead` and `CountedOnce`, the run's `OneAtATime`,
`SummaryReadsTheEnd` and `SummaryCountedOnce` (and `TypeCorrect`). `IInv` joins three parts.
* `LiveInv`: the lock is held by the connection that has looked, and what it saw
  stays true (`LockHeld`); only active sessions are Live, and an open connection's
  session is flagged unless it was swept (`FlagGuards`). `OneAtATime` alone would not
  survive `LiveUp`, which trusts what was seen under the lock.
* `JobInv`: a run that was not doubled has a running job to itself (`RunsOwnJobs`);
  until it writes there is no feedback and no count (`NothingYet`); what was counted
  has its feedback or its session is gone, so that it is not made again (`Counted`).
* `TalkOver`: a session with a job is not active. With `FlagGuards` no connection of
  it is open. One lemma for each action (or a few alike) keeps its part.

**DailyMeet_proofs** (from `DailyAssumption`): `TypeCorrect`, `MarkIsHonest`
(with `IInv` = `TypeOK` and `AnalyzedIsTold`), `PassesKept` (from `PassedRises`) and
`LateAnalysisParts`, the run's `OnlyLateAnalysisParts`: an edit leaves the words of the
plain cut of the new text, whether the sentences move or stay (`EditSays`).

**Deploy_proofs** (from `RunsAssumption`, `PortsAssumption`, `NoneAssumption`), for any
number of runs, releases, ports and mishaps. `IInv` has three parts.
* The containers: Docker keeps names apart (`NamesApart`) and the two fixed names
  stay with an app and a database (`NamesFit`); an app has the password of the volume
  (`AppsFit`: the new one is made only after a candidate with the same password was
  ready); a database that runs has made the volume, and runs under its name
  (`RunsUnderName`) unless the reply to a rename was lost; until one of the mishaps in
  `Nameless` every database has the volume's password, and one of them has the name
  except while a run replaces it (`VolumeKept`).
* The run under way: there is one (`OneAtATime`), one that has not looked has made
  nothing (`NotYet`), and its variables name what is there (`AppsKnown`, `KeyKnown`,
  `DbKnown`), place by place.
* The file: the previous container is an app that the run under way has not made
  (`FileKept`), which no run deletes.

`Safe`, `Kept` follow: the run's `DatabaseIsSafe`, `PreviousIsKept`. For `WaitedFor`, the
run's `LearnersAreWaitedFor`, `WaitInv` adds that until the old app has given its name
away it alone has it (`AppNamed`), that from its stop until the new one is started no
app of the name runs (`AppIsDown`), and that the old app is stopped only when no
learner waited at the last look (`NobodyWaits`). Each action has a lemma that says it
keeps `IInv` and one that says it is `Considerate`. The proof found one
mistake of the model: `Restore` was a CASE with overlapping guards, where TLC took
the first and the formula promised neither.

`Succeeds` and `Restored` are the run's `UndisturbedRunSucceeds` and `Restores`: they speak
of a run from its first look to its end, so their invariants say for each place what
is in order there.
* `Tidy`: a container publishes what its kind does (`PortsFit`), a run's own password is
  nobody's before it makes a database (`PasswordsNew`), the run goes by the password
  of the database it found (`DatabaseKeyKnown`), and a database that lost its name in
  vain is never given it again (`LostForGood`).
* `Smooth`, for `Succeeds`: a run that met with no mishap and no obstacle is `Fine`: the
  names it will give are free, its ports are not another's, its database serves, and
  what it made is as planned. `StepGoesWell` has one lemma for each action or few alike.
* `PortsAlone`, for `Restored`: of what runs, no two publish a port. This is Docker's
  refusal in `CanStart`, but `RollBackByHand` starts one container as it stops another,
  and is sound since the state file names apps (`FileNamesApp`).
* `Lasting`, for `Restored`: a run that found the app up, with at most one mishap and
  none of `Unrecovered`, is `Recoverable`: `AppSide` and `DbSide` say for each place that the
  old app and its database are up, or are there with the name and the port free that
  the handlers need; and some places of the handlers are reached by a mishap only
  (`Handled`), which then was the one. Each action is shown to lead to such a place or to
  an end where the app is up (`Recovers`).
* `PortsAssumption` says that a database is published, and not on the port of the app:
  `DATABASE_HOST_PORT` has a default and is not `EXTERNAL_PORT`. The script does not compare
  the two; with one port for both no run gets past its first look while an app runs.
* The attempt at `Lasting` found `Restores` mis-stated. `Unrecovered` named mishaps on the
  way and lacked those of the handler, which a run can enter with no mishap at all;
  on the instance of the time (the second run repeated the first, and one port) TLC
  did not meet one. The exceptions were added and the instance was changed to one
  where each of them occurs.

**Only model-checked**, and why.
* Liveness, under fairness, is beyond the prover.
* The properties of `HandlerLocks` are liveness, too.

Every invariant and every action property of the runs that pass is a theorem.

## 5. Not modelled

See "components" in `PROJECT.json`. Left out: resume and daily
plan (each is one statement or reads only), the API contract, the acceptance
scripts of a running server (`qa_api.py`, `livecheck`), the shell scripts around
the deployment. In sessions, the scenario and listening modes and the
texts of replies are left out; in Live, tickets, turns and audio; among jobs,
speech, scenarios and packs (idempotent writes of one row). Of the start of a
release, the writing of scenarios and of review cues. Of the content, the wording
of texts and the tables themselves: that they hold 100, 425 and 50 rows and what
these say is data. Of the course pipeline, the quality of what a model writes
or judges, and `units_plan.json`, which no script writes and which gives a lesson its
level and its place in the path (in the repository a permutation in which levels rise,
as the application asks). Reviews, the state of listening, the read cache, the exercises of the
book before the course and the media store are still to come. The order of
two writes inside one transaction is not visible to others and is not
modelled.

## 6. Plan

In this order, the most important behaviour first:

1. **Review** (`audio.go`, `retry.go`, `engine.Schedule`, `sessions.go` and `jobs.go`
   where they add items): a review answer advances its interval once; help and
   typed answers never advance it; an item that failed is due again. The replay is
   by request id only, whatever the item.
2. **ReadCache** (`read_cache.go`, `appcache`): no response older than the last
   write that was invalidated; which writes are not, and for how long.
3. **Listening** (`listening.go`), composed with `EbookCourse`: counts, reveals and
   replays of a line while its shadowing is assessed.
4. An abstract specification of a course lesson (steps earned, lost in named ways,
   erased) that `EbookCourse` implements, and one of Live with a single holder that
   `LiveConnection` implements while nothing is swept.
5. Proofs: a refinement for 4.
6. Sign-in: the first password (`seed`, `bootstrap_admin.py`), which is changed before
   it is written down.
7. The exercises of the book before the course, and the media outbox.
