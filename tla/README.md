# Research Radar: verification project

Research Radar finds, reads and reports new research. A macOS App (Swift) and a
command line share one Python engine. The App owns the user's settings, a
durable serialized job queue, a report index and a schedule timer; for every job
it starts one engine process, which works in a job directory and leaves one
terminal artifact (`result.json` or `error.json`) there. The engine, or the
command line, discovers sources, reads papers with a model, reviews what it
claims, writes a report and publishes it. This directory holds TLA+ models of
the parts of that system where order, failure, concurrency and the flow of
evidence decide whether it is correct, the TLC runs that check them, and proofs
of what matters most.

## 1. Inventory

Paths: `Core` is `src/apps/macos/ResearchRadar/Sources/ResearchRadarCore`,
`Feature` is `.../ResearchRadarAppFeature`, `py` is `src/src/research_radar`.

| Component | State | Operations | What makes it correct |
|---|---|---|---|
| Job queue (`Core/Queue/JobQueue.swift`, `Core/Models/JobRecord.swift`) | the actor's snapshot; `state/queue.json` | enqueueResearch, enqueueDelivery, nextPending, transition, releaseUnstarted, loading | one claimed job; no duplicate active work; no unconfirmed repeat of a delivery; an ended job stays ended; the file never behind what was acknowledged |
| Atomic store, report index (`Core/Persistence`) | JSON files replaced atomically; the reports in memory | read, write; upsert, updateDelivery | a write that throws may or may not have replaced the file: both must be survivable |
| Job coordinator, terminal resolver (`Feature/Engine`) | none of its own beyond a running call | executeNext, cancel, reconcileAfterLaunch | an uncertain delivery is never resent unasked; verdicts are true; index and queue agree; every job ends |
| Execution gate, supervisor (`Feature/Engine`) | the lease, its cancellation; the running process | acquire, run, release, cancel, stopAdmission; run, cancel | one engine at a time; a cancellation reaches its target only |
| AppStore (`Feature/App/AppStore.swift`) | flags, the drain task, copies of jobs and reports, settings | run now/again, retry delivery, drain, commands, recovery, cancel, shutdown, settings | queued work is taken; nothing is started or left running by Quit |
| Schedule coordinator, evaluator (`Feature/Services`, `Core/Scheduling`) | lifecycle, timer generation, one timer | refresh, stop, block, recover, fire | each enabled day is enqueued exactly once; the timer is always armed while active |
| Event observer, notifications | read offset; notified jobs | observe, notify | advisory only: stages; one notification per job |
| Engine bridge (`py/app_bridge`) | terminal lock, cancelled and parent-lost flags | load, handlers of five commands, signal handler, parent watcher | exactly one terminal artifact, with the verdict the work earned; no success after parent loss |
| Model providers, model cache (`py/analysis`) | one file per answer and its temporary file | resolve a route, ask, retry, look up, write, evict | no request after a cancellation; no broken entry by a single process |
| Discovery (`py/discovery`) | none | plan, query, deduplicate, score, classify, select | a failed query never passes for "nothing new"; a source is listed once |
| Daily pipeline (`py/pipeline/daily.py`) | the run directory | discover, filter, select, ingest, read, review, report, append | what was read is not read again; the verdict is honest |
| Source history (`py/storage/source_history.py`) | one JSONL file per topic | annotate, append seen and outcomes, merge | a success is never hidden; rows are backed by a run; torn lines are survived |
| Ingestion, reading (`py/ingestion`, `py/analysis/paper_*.py`, `anchor_repair.py`) | none | pack, ask, parse, lint, resolve, repair | coverage within the budget; what is published is anchored; what lint held back stays back |
| Evidence policy, model review (`py/evidence`, `py/analysis/review.py`) | none | enforce, apply decisions, filter explanations | review never promotes; explanations need publishable support |
| Figures and gallery (`py/analysis/figures.py`, `py/compose`) | images in the run directory | extract, crop, match, prepare and show per channel | a figure belongs to the paper and the claim it stands by; a channel shows only images it has |
| Single-paper run (`py/pipeline/paper.py`) | its run directory | refuse, read, review, write file by file | a brief never stands without what backs it |
| Email (`py/publishers/email`) | attempt and result file per run | guard, announce, send, record | no second mail unasked |
| Archive (`py/publishers/archive`) | a git checkout and its remote | compare, export, commit, push | "published" means pushed; a crash is reconcilable |
| WeChat (`py/application/wechat.py`, `py/publishers/wechat`) | token cache, request and result file | load, upload, render, add | the schedule drafts a run once |
| Local scheduler (`py/scheduler/local.py`) | lock, `last_run_dir.txt`, state files, child groups | install, uninstall, execute, time out, publish | no overlapping attempts; publication follows its own run |
| Configuration, localization, composition, security, CLI, PDF helper, evaluation | settings; none | | what they refuse; a failed translation leaves the original |

How they interact. AppStore is on the main actor and *awaits* the queue, the
index, the coordinator and the schedule coordinator, which are actors: between
two awaits its code is atomic, at an await anything may happen. The gate is a
lock shared by the coordinator and the command client. The engine is another
process: the App learns its end from the supervisor and its outcome from files.
It may die with the App, outlive it, or outlive the attempt to kill it. Engines
and runs of the command line share, without a lock, the model cache, the history
of a topic, the directories of finished runs and the archive's checkout. Inside
a run everything is sequential, but every model, every server and the disk may
answer anything or nothing, and each stage trusts what the one before it kept.

What is hard: the two files (queue and report index) that are written one after
the other with a possible crash between them; deliveries whose outcome is
unknown; cancellations that race a launch, the end of a job, or Quit; a drain
task that must not stop looking while jobs are pending; schedule refreshes that
overlap and are suspended through whole drains; three threads that want to write
the one terminal artifact; children that outlive the scheduler; a history that
two runs read and append; claims that are held back by one stage and revived by
a later one; a report that says "nothing new" for the wrong reason.
`PROJECT.json` lists the hazards line by line, with the property that covers each.

## 2. Modules

| Group | Modules | Models |
|---|---|---|
| App: queue | `JobRecord`, `JobQueue` | a job, the queue and its file |
| App: coordinator | `DeliveryPromise`, `EngineCoordinator`, `EngineCoordinatorProofs` | abstract promise about deliveries; coordinator, index, engines, crashes; proofs, the queue's included |
| App: execution | `ExecutionControl`, `ExecutionControlProofs` | drain, commands, gate, supervisor, cancel, Quit |
| App: schedule | `AppScheduling`, `MCScheduling`, `SchedulingProofs` | schedule coordinator, timer, evaluator |
| Engine | `EngineRequest`, `TaskRoutes`, `ModelCalls`, `EngineBridge`, `MCBridge`, `EngineBridgeProofs` | request and configuration checks, choice of providers, one request and its cache, the process |
| Reading | `PaperSections`, `EvidenceReview`, `PaperReading`, `AnchorRepair`, `Localization`, `PdfCrop`, `Figures`, `Gallery`, `DeepReading`, `Ingestion`, `PaperRun`, `MCReading`, `ReadingProofs` | one paper, from its text to the reader |
| Daily run | `SourceHistory`, `SourceSelection`, `SourceSignals`, `Discovery`, `DailyRun`, `MCDaily`, `DailyRunProofs` | what a run finds, reads, reports and remembers |
| Command line | `RunDirectory`, `EmailDelivery`, `ArchivePublish`, `WeChatDraft`, `LocalSchedule`, `CommandLine`, `MCCommandLine`, `CommandLineProofs` | publishing and the schedule |
| Lists | `Lists`, `ListFacts` | selecting from a list, ranking and flattening lists, as recursive functions; what they compute, proved for every list |

A module that needs no definitions of its own for TLC is checked as it is, with
the cfg that bears its run's name; the others have an `MC` module.

Definitions keep the code's names where they can (`NextPending`,
`ReleaseUnstarted`, `EnforceEvidencePolicy`, `CropSizeHolds`);
`PROJECT.json` maps each to its lines. Operators whose comment starts with
*Mutant* are plausible bugs used to show that a property can fail; no action
uses them.

### The App

**JobQueue.** Every operation computes a candidate snapshot, writes it and then
adopts it. `Commit` is an acknowledged write. `WriteFails` leaves memory alone,
and the file either unchanged or already replaced, because `replaceAtomically`
sets permissions after the rename. `Relaunch` loads the file. An actor runs one
operation at a time, so each operation is one step.

**EngineCoordinator.** `co` says where `executeNext` or `reconcileAfterLaunch`
stands: *admit* (validate the delivery, ensure its record, build the request),
*launch*, *running*, *persist* (report index), *move* (queue), *restore*
(enqueue deliveries a report owes), *next* (the reconciliation's loop).
Every await at which the App can die or another actor can act is a step
boundary. `art[i]` is the artifact in job i's directory; `ready` and `empty` are
usable results with and without something effective to deliver, `invalid` is one
the resolver rejects. `proc[i]` is `orphan` when the App died under the process
or the supervisor failed to end its group; an orphan may still send and write.
`needsRecon` is the gate's flag, `stuck` the supervisor's `running` that was never
cleared. A research attempt creates a new run directory, so its run is
identified with the job. A fault stops the drain until the user asks for
recovery, which refuses when memory and files differ (the user then relaunches).

**ExecutionControl.** `store` holds AppStore's flags, `pc` the position of the
drain task and of the command (or reconciliation), `gate` the fields of
`EngineExecutionGate`, `canceller` the position of each caller of
`cancelActiveJob`. AppStore's own copy of the jobs is refreshed in the same
main-actor step that asks for a drain, so the queue stands for it. A process
group that survives SIGKILL is in `EngineCoordinator`, not here. A recovery may
fail in its other validations (`Ask` with `AfterRecovery`).

**AppScheduling.** A *task* is one call of `refresh` with its caller: launch,
wake or clock event and settings (`by = "start"`), the timer, or the user's
recovery. `task[p].pc` is the await it is suspended at: *inputs* (the settings'
copy was asked for), *evaluate*, *jobs* and *enqueue* (calls to the queue's
actor), *await* (the drain it woke), *arm*. `latest` stands for
`generation == timerGeneration`: a new refresh, a stop or a block takes it from
all others (`Superseded`), so no counter is needed. Calls to the queue's actor wait
in `mail` and are served in the order they were made; `stop` and `block` rely on
that when they wait behind it. `job[<<t, d>>]` is topic t's scheduled work for day
d, whether the queue or the report index remembers it: `none`, `open` (pending or
running) or `ended`. `on` are the topics scheduled and not paused, `inputs` the
coordinator's copy of them. `other` is any other pending work. The clock advances
at any time; `PunctualSpec` lets it advance only when everything but a drain's
job is done, an App that is never late. `failures` counts validations and writes
that fail; the launch's failed reconciliation is one.

### The engine

**EngineRequest** says which requests and configurations the engine accepts, a
JSON object being a function from its keys to classes of values. **TaskRoutes**
gives each task its provider, or the refusal of one. **ModelCalls** is one
request: lookup in the cache, the attempts of the OpenAI-compatible client on a
worker thread with their deadline and the one retry, the write through
`<key>.json.tmp` and the eviction, one file operation per step, by the engine and
by another process. **EngineBridge** is the process. `engine.pc` is the main
thread's position, `engine.work` the list of steps its handler still has
(`Work` computes it from the request and the configuration, in the order of
`handlers.py`), `engine.effects` what became visible outside. `watcher` is the
thread that waits for the App's end; `disk` the two artifacts; `world` whether
the App lives and a signal was sent. A signal, the watcher, a failing write and
the kill may come at any step. Looking whether a terminal artifact exists and
writing one are one step, for the code does both under one lock; between a flag
and the lock anything may happen.

### Reading

**DeepReading** follows one paper through `stage`: packet, reader with one retry,
validation, repair, policy, review together with claims of another paper,
figures, Chinese copy, entry of the report; the operators are in the modules it
extends. A text, a quote or an answer is a record of what the code tells apart,
and every answer is an input. **PaperSections** packs sections into a budget in
the code's three passes. **PaperReading** turns an answer into claims and lints
them. **AnchorRepair** holds quotes against the text and asks once for others:
`Match[q]` says what the search makes of a quote and which numbers and names are
in the lines around it, `states` which a claim has in its text, units and whole
sections alike; the lines of all quotes together must have them all.
**EvidenceReview** has the
policy, the reviewer's decisions and the filter of explanations.
**Localization** takes a translation only field by field. **Figures** gets the
figures of a paper out of its LaTeX sources or, when there are none, out of its
PDF (**PdfCrop**: caption line, column, the text above it, the sizes that hold),
binds each to a claim and keeps what a machine can convert. **Gallery** says for
the archive, mail, Zhihu and WeChat which images are prepared and, separately,
which are shown; how each upload to WeChat ends and whether the rest of the page
passes its check are inputs. **PaperRun** reuses these steps for a single paper and adds its
refusals and its artifacts, written one by one and cut short anywhere.
**Ingestion** decides how a source is fetched and whether it is a paper in full.

In the figure modules a caption is a set of words, lengths are in points, the
words of a line are evenly spread over it, and lines at one height share one top.
Legacy screenshots of whole pages are left out; so are the gists of sources in
the translation.

### Daily run

**SourceHistory** folds rows into records by the families of names a source has
and says what a source found again is. **SourceSelection** orders and limits what
is read and listed; **SourceSignals** computes relevance, role and centrality in
ten thousandths; **Discovery** plans queries, asks connectors, which may fail,
and removes duplicates. **DailyRun** has one `run[r]` per process: discovery is
one step (its queries touch nothing shared), and every read or write of the
history file, every ingestion, reading and review with its failure, and every
append that may be cut short is a step. `history` holds the rows of the file and
whether its last line is cut; a world is what the indexes would answer.

### Command line

**EmailDelivery**: the attempt file is written before the mail is sent, the
result after it. **ArchivePublish**: a checkout against its remote, with foreign
commits; export, commit and push are steps, and an operator reconciles what a
death leaves. **WeChatDraft**: the token of each run directory, which a newer one
may void at the service while it still looks valid, the uploads, and a request
that may create a draft whose answer is lost. **LocalSchedule**: executions
under the lock, their children in sessions of their own, `last_run_dir.txt`,
timeouts, and a scheduler that dies. **CommandLine** puts them side by side.

## 3. Runs

| Run | Expect | Distinct states | Shows |
|---|---|---|---|
| `queue` | pass | 105,573 | any client, any order, throwing writes, relaunch: serialized, no duplicates, confirmed repeats, durable, ended stays ended |
| `engine` | pass | 972,486 | any two of a throwing write, a crash and a clean-up that fails, with orphans: the delivery promise (refinement), the index agrees with the queue, a report is saved before its job succeeds, owed deliveries are enqueued once, known outcomes are protected |
| `engine_liveness` | pass | 335,005 | with a crash at any point every accepted job ends, or the drain has given up and nobody asks again (disagreement 4) |
| `control` | pass | 316,171 | two jobs, a command, two clicks, a fault, Quit: cancelled never runs, cancellations hit their target, nothing starts after Quit, Quit settles jobs, queued jobs are taken |
| `control_quit` | violation | | disagreement 1 of section 6 |
| `schedules` | pass | 1,257,208 | two topics, two days, two overlapping refreshes, drains, a failure, a change of the settings: each topic once a day and only if it is on, the timer armed in time, if one write fails at most |
| `schedules_live` | pass | 325,339 | one topic: what is due today is attempted; Quit leaves no timer and no enqueue under way |
| `schedules_fault` | violation | | disagreement 2 |
| `bridge` | pass | 1,734,213 | seventeen requests and configurations, signals, loss of the App, failing writes, another process on the cache: one terminal artifact, with the verdict that was earned; no request after a cancellation; a torn cache entry only if two processes wrote it |
| `reading` | pass | 122,778 | any answers of reader, repairer, reviewer and translator: the packet covers the paper, what is published is anchored, what lint held back stays back, explanations and figures rest on publishable claims of the paper, channels show images they have, a brief has what backs it |
| `daily` | pass | 236,295 | two runs on one topic that fail or die anywhere: nothing read is read again, every row of the history has its run, the verdict says what happened, a report lists a source once |
| `command_line` | pass | 451,071 | two processes that mail, one on the checkout, two executions of the schedule with children that outlive them: no unasked second mail, published means pushed, the schedule drafts a run once |

Every passing run explores its whole state space.

Bounds and why they are enough.

* `MaxJobs = 3` with one slot, run and channel in `queue`: three attempts of one
  piece of work are what the ordering properties need (an outcome, a repeat, a
  late change of the first); the research and the delivery job that compete for
  the claim also fit. More slots or channels add independent copies.
* In `engine`, three jobs are one research job, the delivery it owes and a manual
  repeat, or two attempts and a late artifact. `RoomFor` keeps room for the
  deliveries already owed, so that the bound never forbids what the code would
  do. Two faults of any kinds (`Faults`, `MaxFaults`) can be at any two points, so
  that a crash in the recovery from a failed write, or a second crash, is
  included. Error codes do not
  matter for safety and are told apart in `engine_liveness`.
* In `control`, two jobs let a cancellation be late for one and early for the
  next; two clicks let the first be lost and the second matter.
* In `schedules`, a day has two ticks: one topic is due at once, the other later,
  so that a timer, a missed time and midnight all occur. Two refreshes under way are
  enough for one to overtake the other at every await; a third could only
  overtake in the same way. `MaxFailures` and `MaxRequests` are 1: a failed
  launch, validation, drain or enqueue, and one event, settings change or other
  job. The tasks are interchangeable (symmetry), except under liveness.
  `ScheduledOnce` and `FollowsSettings` are proved without these bounds, `NextIsArmed`
  with `MaxFailures <= 1` only: it does not survive a second failing write
  (disagreement 3).
* In `schedules_live` one day and one topic suffice, for what is due today and for
  a Quit at any point; `schedules_fault` allows a second failure.
* In `bridge`, the requests of `MCBridge` reach every branch of the checks and of
  the routes. `Timeout = 2` lets an attempt and its retry both end by the
  deadline or before it; `CacheLimit = 1` with two keys makes every write evict
  something. `OtherWhileAsking` lets the other process move only while the engine
  uses the cache or has left it: its other steps commute with the engine's.
* In `reading`, seven texts include one whose sections exceed the budget and one
  whose required roles come last; five quotes include each result of the search,
  a table row of another method, and two that have the numbers and names of a
  claim only between them. The nine documents are a paper whose sources convert
  on one machine and not on another, a download that breaks off, one that is
  refused and has a PDF, PDFs with a wide and a narrow caption, with a table, a
  paragraph or a mention in the way and a figure at the margin, pages without
  text boxes, a helper that fails, a run below a directory named `figures`, and a
  text that was not stored. The two papers are both at OpenReview, where
  addresses differ only in their query.
* In `daily`, two runs are what a stale read needs; they are interchangeable. The
  worlds hold two versions of a paper, a paper under two names, and queries that
  fail. `OneAtATime` keeps the second run from moving between the first one's read
  of the history and its report, where it touches nothing the first one reads.
* In `command_line`, two senders on two reports are what the guard needs, and
  `MailLimit = 2` stops after the second mail, which is where the property is
  decided. `OneKind` has each behaviour follow mail, archive or schedule: they
  share no variable, which the proofs of section 4 also rest on. Of the two
  executions one belongs to launchd and needs the agent, the other is manual.

Deadlock is checked in `command_line` and is not checked where the bounds, the
end of a run or of the App let a behaviour stop.

Fairness. `EngineCoordinator!FairSpec`: a drain that is on and the reconciliation
go on (Swift tasks are scheduled; an engine run ends because the App can always
end it, and the run assumes that clean-ups work and writes succeed), a
cancellation settles, and a launch starts its reconciliation (`start()` does so
unconditionally). Nothing is assumed of a drain that has given up: it may find
the gate busy because a cancellation has not settled (`ClaimRefused`), or fail to
start a job that was enqueued after it had looked (`JobDone`), and then only a
request or a recovery puts it on again. Nothing is assumed of clients either, of
recovery by the user, or of orphans. `ExecutionControl!FairSpec`: the
drain, command and cancellation tasks are scheduled and an engine run is bounded.
Nothing is assumed of the user. `AppScheduling!FairSpec`: every task, the queue's
actor, an armed timer whose time has come, and the drain go on; nothing is
assumed of the clock, of the user, or of a failure or Quit. The modules of the
engine, the reading, the daily run and the command line state safety only: their
processes may die at any step, and nothing restarts them but the user.

`QueuedJobsTaken` excludes a quitting App, a fault that waits for recovery, and
the case that the user cancelled something: the last exclusion is disagreement 4.
`EveryJobEnds` excludes what it allows to follow: a drain that has given up for
good (`Stopped`), which includes that disagreement and a fault nobody recovers.
`HeldBackStaysBack` covers the units that came with quotes; those without are
disagreement 6.

The type definitions of `EngineCoordinator` and `ExecutionControl` document their
variables; no run checks them.

## 4. Proofs

Eight modules of proofs, beside the modules they are about. Every theorem is
about the specification that the runs check, for all values of its constants: any
number of jobs, channels, callers, refreshes, reports, processes, failures and
crashes, and any texts and answers of models; only the theorem about `NextIsArmed`
bounds one of them. No theorem rests on fairness. The method is the same throughout: the
property itself is not inductive, because it says nothing of what is under way,
so an invariant names what each position of each actor has established; TLC
checked the parts of that invariant on a run before they were proved; one lemma
per action shows that it is preserved. What follows says for each module which
facts had to be added, and why.

**The queue** (`EngineCoordinatorProofs`): each safety property of the run `queue`. The
properties of `jobs` are inductive, those of `saved` are not: a relaunch turns
the file into memory, and a write that threw after replacing the file leaves it
one operation ahead. Hence `QueueInv == Good(jobs) /\ Good(saved) /\
Ahead(jobs, saved)`: both snapshots are typed, serialized, free of duplicates,
ordered and confirmed, and the file has the same jobs, each in a state memory
could move to, plus at most one. Each operation preserves `Good` of its candidate
by a lemma of its own. `QueueEndedStaysEnded` uses `Ahead` for the relaunch.

**The promise** (`EngineCoordinatorProofs`): the abstract specification implies
`SecondSendConfirmed`, for any set of attempts that are numbers. Attempts of one
work are asked for in order, before an unconfirmed attempt all earlier ones have
failed, and what failed was not sent.

**The coordinator** (`EngineCoordinatorProofs`): the safety properties of the run
`engine`, and the refinement. `CoordinatorInv` ties together the records that
must not contradict one another:

* `QueueFacts`: the queue's invariant; memory and file differ by `OneChange` at
  most; there is room for what is owed; the queue says no more than the engine did
  (`Truthful`).
* `EngineFacts`, `ReportFacts`: a result comes after its send; a report is the
  result of its research job, and a record of a channel is owed or was made by a
  delivery job; successful research and the target of a delivery are indexed.
* `Synced`: memory and files are the same, except after a fault, when nothing is
  written until the App is relaunched or recovers.
* `IndexFacts`: the index shows the outcome of the last attempt. It is stated of
  the three pairs a crash can leave: both memories, the queue in memory with the
  index in its file (which is written first), and both files. The exception is a
  *late* result: an orphan finished after its delivery was recorded as unknown,
  the index may already say sent, and `Mending` says that the reconciliation
  has the job on its list.
* `Working`, `Deciding`, `Moving`, `Restoring`: what the coordinator holds at each
  await: a job that is running, an outcome its artifact justifies, an index that
  was written for it, and deliveries that are due and have not been enqueued.

`CoordinatorKeepsPromise` proves the refinement of `DeliveryPromise` with the
mapping of the run: the attempts are the delivery jobs of the queue's file or
memory, and `OneChange` makes each step at most one step of the promise
(`NextShape`). `CoordinatorNoUnconfirmedResend` carries the promise's consequence
over: no recipient gets a second copy that the user did not confirm.

**Execution** (`ExecutionControlProofs`): `EngineUnderLease`, `CancelsOnlyItsTarget`,
`NoLaunchAfterQuit`, `QuitSettlesJobs`. The lease belongs to whoever stands in a
place that holds it, or its release waits for a cancellation (`LeaseHeld`);
one cancellation at a time is under way, of a lease that is still held
(`OneCancellation`), and when it settles no engine lives (`EngineOwned`); a
drain and a command exclude each other (`OneWorker`), and a job is running only
while the drain has it in hand or a recovery is due (`JobInHand`).

**Schedules** (`SchedulingProofs`): `StopIsFinal`, `ScheduledOnce`, `FollowsSettings`,
`NextIsArmed`.
A refresh that was overtaken may still have an enqueue in the queue's mail, which
will be served. What makes that harmless is the order of the mail, so the
invariant is about it: each waits once and is known to wait (`Mailbox`); an
enqueue comes before the jobs that the latest refresh asks for (`OneLatest`),
before the barrier Quit waits behind (`Stopping`), and before the barrier of
whoever blocked the coordinator (`Behind`). What a refresh is about to enqueue has
not been scheduled since it looked (`Work`). Settings: the inputs of the
coordinator, of its latest refresh and of an enqueue in the mail are the user's,
or known to be old (`Follows`). That alone is not inductive, since a recovery takes
the fault back; `Renewed` says that nothing is old once a recovery has got past
its first step. The proof corrected the property: `FollowsSettings` used to
allow an old topic only while a refresh is to come or a fault *is shown*. With
two events, a drain that fails before an enqueue is served blocks the refresh
that was to correct it, and the fault is shown a step later (`FaultShows`).

`NextIsArmed` is proved for any number of topics, days, refreshes, events and
settings changes, and for one failing write (`MaxFailures <= 1`, a hypothesis of the
theorem, since a second one refutes it: disagreement 3). `ArmingInv` says why. With
one failure, what it began has ended before the user can recover, and nothing
fails after that (`OneFailure`); so whoever cancels the timer does so while the
coordinator is not active, and the fault is not taken back before the refresh
of the recovery is under way (`Inactive`). The latest refresh works from the
settings, or another one is to come; during a recovery only the former
(`SnapsAreNew`), because the fault would make the other give up. What was due when
it looked has been scheduled when it arms, or is on its way (`DueIsTaken`), so the
next time after that moment is in time, even when the drain it waited for
crossed midnight (`ArmsInTime`). Hence an active coordinator is always tended: the
timer is armed, or a refresh that will arm it is under way, or a fault is shown
or a refresh asked for (`KeptUp`).

**The engine** (`EngineBridgeProofs`): `TerminalEarned`, `OneTerminal`,
`CancelStopsRequests`, `TornOnlyByTwo`. For the calls: the one request that may
still be sent after a cancellation was prepared before it (`Late`), and what two
processes have not written at the same time has one writer, who finds what it
wrote or nothing (`OneWriter`, `Unmixed`). For the process: the last step of the
work that is left is the one the command is for, until it was made (`WorkLeft`,
`ResultMade`); an exception that says *cancelled* was raised when it was
(`RaisedFor`); and a flag is set by a signal, or by the watch after it has told
why (`ToldWhy`).

**The command line** (`CommandLineProofs`): `NoResendUnasked`, `PublishedIsPushed`,
`DraftedOnce`. The guard reads files and not the mail server, so `MailInv` relates
the two: a report of which there is a mail has an attempt file, and so has the
report of whoever is between the announcement and the record. `ArchiveInv` has
what each position of a command has established (`Underway`) and that the branch
the checkout remembers is part of the remote (`Tracked`). `ScheduleInv`: whoever is
not idle holds the lock; commands that draft, orphans included, work on
different runs, of which there is no draft before the last request; and what an
execution finds in `last_run_dir.txt` was written after it emptied the file, so
that nobody has drafted it, even if an orphan wrote it (`Handed`). As mail,
archive and schedule write different variables, each step of `CommandNext` is a
step of one of them.

**The reading** (`ReadingProofs`): `PublishedAnchored`, `HeldBackStaysBack`,
`ExplanationSupported`, `BriefBacked`, `CoverageHolds`, `FigureBacked`,
`ImagesThere`. The first four speak of the entry of a
report, which is made last; the invariant follows a claim from the answer to the
entry:

* `Validated`: from the validation on, a claim has its anchors in the paper and
  the reason of the very unit it was made from (identifiers are told apart by the
  parser), and is not publishable if that reason holds it back. `Earned` adds, from
  the resolution of anchors on, that all anchors of a publishable claim are in the
  text. After the review the claims of other papers are there too (`Stands`).
* Nothing after the resolution makes a claim publishable: `PolicyDemotes` and
  `ReviewDemotes` say so of every list of claims and every answer of the verifier,
  `LocalizedStanding` that a translation leaves the status alone. Only a repair
  may, and `RepairsMend` says of which claims and with what anchor; the anchors are
  resolved once more after it.
* `CopyAgrees`: the displayed copy stands as the claims do, claim by claim, so that
  the manifest, which counts the claims, counts what the brief shows.
* `EntryOrigin`, `FilesBacked`: what entry and files were made from.
  `BriefComesLate` is about the order of `run_paper`'s writes alone: wherever it
  breaks off, what is written before `paper.md` is there.

`CoverageHolds` is about the selection alone. The coverage pass takes at most five
chunks before the last required role has had its turn, none longer than its
role's limit; so what remains of the budget by then still holds more than a
stump, and the chunk with the highest priority of a role is not refused
(`SelectCovers`). What was taken is never taken back (`SeveralMore`, `PassAdds`).

`FigureBacked` needs the invariant `FiguresTaken`: the figures that wait for the
entry belong to claims that were publishable, with the same sources, when they
were bound, and claims do not change from there to the entry. For a crop,
`TopOfCrop` says that the widest gap above a caption exists and lies on the page,
and `CropIsBacked` goes through the two ways to a box, the check of its text
included. `ImagesShown` compares the galleries as sets of positions.

**The daily run** (`DailyRunProofs`): `NotReadTwice`, `HistoryBacked`,
`VerdictHonest`, `OncePerReport`. Two arguments meet in `DailyInv`.

* The history. The fold of its rows into records is a function over the number of
  rows, and its invariant is that records are coherent: a record is found under
  each of its keys and under no other (`Coherent`). Merging two records loses
  neither a key nor a version that was read (`MergedRecord`). So a row that tells
  of a reading is found again under every key it has, whatever rows came later:
  seen records, failures, drafts, other versions. What a run then calls eligible
  was not read in the version it carries, up to the place where the run read the
  file (`Unread`).
* A run. Its sources come from what it found, at each stage (`KeepsSources`);
  what is counted against the verdict is known when the sources are annotated and
  does not change until it is passed (`Judgeable`, `HonestRun`); what is listed
  as news and was seen is among the entries, and what is shown as seen is of
  another family than what was read (`OnceTold`). A row belongs to the run that
  appended it, of which the article stays, however the run ends (`Backed`).

**Lists** (`ListFacts`). Reading and daily run go through lists: decisions are
applied one after the other, sources ranked, selected and limited. What such an
operator computes for every list is proved by induction over its length, which
needs no operator as a parameter when it is stated of sets: `InductionOverNat`
follows from the well-foundedness of the numbers, and `Iteration` gives the
function a recursive definition asks for. `SiftList`, `SiftLength` and
`SiftShort` say what a selection has, `RankedList` that a ranking has the members
of its list, `FlattenList` what the concatenation of lists has; `DecisionsRestate`
and `RepairsMend` (`ReadingProofs`) what the answers of models make of claims.

Assumptions. The bounds are natural numbers; `Channels` and `Tasks` are finite
(rooms are counted, one barrier per caller); the names that stand for no one
(`""`, `"free"`, `"quit"`, `"drain"`, `NoChannel`) are not among the sets beside
them; `"engine"` is one of the cache's callers; a run is identified with its
research job; due times lie within the day; `terminal_invalid` is an error
and engines do not report it themselves; what the models answer with are lists
where the code goes through them; and what else a daily run has read has another
address and another title, which selection sees to for titles with a Latin
letter or a digit. For the packet and the figures: a text and a document have
the fields and sizes a parser gives them (`IsText`, `IsDocument`), the budget
holds five sections of the largest limit and a stump (it is 24,000 characters,
paper_sections.py:10), and another paper of the run is another one at
OpenReview, or has another address and another family at arXiv (`OtherPaper`),
which is what `dedupe.py` and `source_selection.py` merge by. For the daily run:
what a world's queries find is a list, and two sources with one address do not
differ in the identifier a version is read off, for it is read off the address
unless the index gives another. TLC evaluates all of them.

Some definitions were put into a form that can be reasoned about, with the same
values: the work a command is asked for is a set of sequences, `Resolution` a
chain of conditions, `job` of the schedules is applied to pairs, and what goes
through a list is a recursive function over its length: selections (`Sift`),
rankings (`RankedBy`, an insertion in order), decisions and repairs, the packet's
passes (`AddPass`), the figures of a paper, and the fold of the history. What a
channel prepares is a set of positions, from which it selects what it shows.

Only model-checked:

* liveness (`EveryJobEnds`, `QueuedJobsTaken`, `DueIsAttempted`), which is out of the
  prover's reach, as is what rests on fairness;
* `TypeOK` of the modules whose invariant proves only the types it needs; a
  cardinality such as "at most one latest refresh" is proved as uniqueness.

## 5. Not modelled

`PROJECT.json` lists every component. Left out for good: the App's views,
presentation and texts, its event observer and its notifications, secrets and
redaction, the parsing of PDF, HTML and LaTeX, the parsers of the connectors
(external: a hit is what they bring), prompts, rendering and MIME, and the smoke
evaluation, which only calls modelled parts. Left out inside modelled components:
dates, stages, user messages, file permissions and path containment, JSON
validation (an unusable artifact is one value), pipes and signals of the
supervisor, and settings that only choose what is enqueued. Left out of
`AppScheduling`: missing credentials that block scheduling, jumps of the clock
and daylight saving, and the inside of a job's run and of a reconciliation, which
the other modules have. Left out of the reading: the matching of texts (`Match`
is a table, in which no name begins in the lines around one quote and ends in
those around the next), gists, progress files and diagnostics. Left out of the
schedule: the text of the plist, the environment, and the presentation of status
and logs.

Smaller departures. A job that partly succeeded counts as succeeded in
`EngineCoordinator`, and `Crash` includes the loading at the next launch.
`Configure` refuses a bootstrap route before the event is written, not after.
Exporting a report again gives the same files. A token whose cache cannot be saved
is not told apart. `BoundedSize` ignores the white space that cutting removes. One
set of words of a figure stands for its caption, path and label; a claim matches a
source if any of its anchors does, where the code stops at the first that decides.

The modules are composed where the code shares state: queue, index and engine;
the drain and the gate; discovery, history and review in a daily run; the
commands on one root. `EngineBridge` and `DailyRun` meet only in a report that is
made or not, which `EngineBridge` takes as an outcome.

## 6. Disagreements with the documentation

The first two are shown by runs.

1. `control_quit`: the guide says "Quitting cancels current work"
   (docs/macos-app.md:183). A cancellation clicked while no lease is held sets
   `cancellationRequested` although the gate cancels nothing. The next job
   starts, and Quit's `cancelActiveJob` returns at its guard
   (AppStore.swift:778): Quit then waits for the whole run.
2. `schedules_fault`: the guide offers "Recheck and resume" whenever scheduling
   stopped after an error (docs/macos-app.md:273). `recoverScheduling` clears
   `scheduleFaulted` (AppStore.swift:591) after its refresh returned, even when a
   refresh that a wake event started beside it has failed meanwhile, blocked the
   coordinator and set the flag. The coordinator stays blocked without a timer
   and the button is gone until the App is relaunched or another fault occurs.

Three more are stated by definitions of the modules; no run of section 3 checks
them that way.

3. `NextIsArmed` (`AppScheduling`) with `MaxFailures = 2`, one topic: the coordinator
   "arms exactly one timer for the next enabled schedule"
   (ScheduleCoordinator.swift:52). `block()` waits behind the queue (line 147) and
   then cancels the timer (line 148) without asking whether the coordinator is
   still blocked. If a recovery has made it active and armed the timer before the
   blocked call is resumed, that timer is cancelled, and the recovery clears the
   fault: schedules are on, nothing is armed and nothing is shown until the next
   event. It takes two failing writes, and a call that is resumed after later
   ones, which the actors permit but seldom do.
4. `CancelledDoesNotBlock` (`ExecutionControl`; `ClaimRefused` in
   `EngineCoordinator`): when a cancellation settles after its job was persisted,
   the deferred release of the lease makes the next claim find the gate busy. The
   drain fails (AppStore.swift:1028-1031) and the next
   pending job, which a test says is not blocked by a cancelled one
   (AppStoreTests.swift:111), stays pending until something else asks for a drain.
5. `DailyWhileRunning` under `PunctualSpec` (`AppScheduling`): the guide names sleep
   and a closed App as the reasons for a skipped day (docs/macos-app.md:269). A
   refresh that enqueued a job arms the next timer only after the whole drain
   (ScheduleCoordinator.swift:124-131), so a topic whose time passes in a drain
   that lasts past midnight is skipped too.

The rest was met while modelling; the models have the code's behaviour.

6. Lint. A unit that came without quotes is "missing evidence" before its lint is
   looked at (paper_reading.py:860-863), so that the repair may find it a quote and
   the policy supports it; a test says that the repair does not upgrade a claim
   held back by lint (tests/test_anchor_repair.py:507).
7. Claims of another paper. `_claims_for_reading` also matches by the title the
   reader gave, where the documents say "same paper" (docs/usage.md:667,
   docs/architecture.md:63).
8. History. A torn line makes every later run raise, although the warning says
   that sources "may be reported again on the next run" (daily.py:861); the
   engine then reports a wrong configuration. A run whose finish fails after its
   append leaves sources suppressed that no finished run reports. Two sources
   with one address and different identifiers survive `dedupe_candidates`; the
   address is then a duplicate of itself (source_selection.py:180-219), and each
   of its candidates is replaced by the last that may be reported
   (daily.py:1260-1265). A paper may drop out of the deep selection that way,
   against "Listing history must not prevent the first successful deep read of a
   paper" (daily.py:254). `VerdictHonest` speaks of the candidates after that
   replacement, and `OncePerReport` leaves such runs out (`Distinguished`).
9. Figures. A download that breaks off (`http.client.IncompleteRead`) or a
   damaged archive raises past figures.py:327 and ends the whole daily run; a
   figure that could not be converted makes every WeChat draft of its report
   raise, as do the characters `figures/` in any text of it, a printed address
   included (compose/wechat.py:184). All against "An optional figure failure omits the image rather than
   discarding an otherwise usable report" (docs/architecture.md:40). Without
   pdftotext nothing checks a crop for text, against docs/architecture.md:126.
   A crop is placed at the first "Figure N" of the page, which may be a mention.
   Two papers whose names sanitize alike overwrite each other's images.
10. Paper run. A write that raises among the artifacts leaves a manifest with its
   counts, no paper.md and no run_error.json.
11. Discovery. A query of OpenAlex that fails while another answers is not
    counted (openalex.py:27-49), so that "nothing new" may be said although a
    query failed.
12. Email. "The same run is not sent twice unless `--allow-resend` is provided
    explicitly" (docs/usage.md:496): two processes that both passed the guard
    before either announced do.
13. Schedule. The lock goes with the scheduler while its child lives on, so that
    executions overlap, and the orphan may name its directory in
    `last_run_dir.txt`. Once the leader of a group has ended nothing kills its
    members (local.py:665-677). A publication that times out is "failed" although
    the draft may exist, and nothing keeps the user from a second one.
14. Archive. A failure after the commit and before the push blocks later
    publications as "ahead" until the user pushes; one between export and commit
    blocks them as dirty.
15. Bridge. A delivery that was cancelled after it went out is reported
    "cancelled"; an answer that is no JSON after a delivery is reported as a wrong
    configuration; a failing "completed" event makes an engine that has written
    its result exit with 1.
16. Model cache. All processes write an entry through the same temporary file, so
    that two at once may leave a torn entry; one that is no UTF-8 raises.

## 7. Plan

Done: every component that has state and order of its own, with the runs above,
and the theorems about each of them. Every safety property that a passing run
checks is proved for all values of the constants, but for the type definitions; of
`NextIsArmed` those with one failing write at most (section 4).

Left: liveness beyond the App, whose processes nothing restarts but the user; and
a run that composes `EngineBridge` with `DailyRun` through the report they share.
