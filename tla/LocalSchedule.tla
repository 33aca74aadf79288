---------------------------- MODULE LocalSchedule ----------------------------
(***************************************************************************)
(* The schedule of the command line (scheduler/local.py; run daily and     *)
(* schedule of cli.py).  launchd or a manual "run-now" executes one        *)
(* snapshot under a lock: a daily run in a process of its own leaves the   *)
(* name of its directory in last_run_dir.txt, and a second process makes a *)
(* WeChat draft of that directory.  Both are in sessions of their own: a   *)
(* scheduler that dies frees the lock and leaves its child running.  A     *)
(* process and its group are one here.                                     *)
(***************************************************************************)
EXTENDS WeChatDraft

CONSTANTS
  Scheduler,   \* executions that may be under way
  ByLaunchd,   \* those of them that launchd starts
  DailyChild   \* daily runs that may be under way

ASSUME SchedulerAssumption == ByLaunchd \subseteq Scheduler /\ "free" \notin Scheduler

VARIABLES
  scheduler,   \* execution -> [pc, child, dir]
  lock,        \* the execution that holds schedule.lock, or "free"
  runDirFile,  \* the report named in last_run_dir.txt, or ""
  schedule,    \* [dry, status, stage, dir, draft]: schedule.json and schedule_state.json
  agent,       \* [plist, loaded] in the launch agents of the user
  daily,       \* daily run -> [pc, report, exit]
  runs         \* run directories made so far

scheduleVars == <<scheduler, lock, runDirFile, schedule, agent, daily, runs>>
allScheduleVars == <<scheduleVars, draftVars>>

Asleep  == [pc |-> "idle", child |-> "", dir |-> ""]
NoDaily == [pc |-> "idle", report |-> "", exit |-> "none"]

ScheduleInit ==
  /\ scheduler = [s \in Scheduler |-> Asleep]
  /\ lock = "free"
  /\ runDirFile = ""
  /\ \E dry \in BOOLEAN : schedule = [dry |-> dry, status |-> "never_run", stage |-> "idle",
                                      dir |-> "", draft |-> "not_attempted"]
  /\ agent = [plist |-> FALSE, loaded |-> FALSE]
  /\ daily = [c \in DailyChild |-> NoDaily]
  /\ runs = {}

SchedulerAt(s, pc) == scheduler[s].pc = pc
SchedulerGoes(s, pc) == scheduler' = [scheduler EXCEPT ![s].pc = pc]
State(status, stage, dir, draft) ==
  schedule' = [schedule EXCEPT !.status = status, !.stage = stage, !.dir = dir, !.draft = draft]

\* The last state is written and the lock released.
Leaves(s) ==
  /\ scheduler' = [scheduler EXCEPT ![s] = Asleep]
  /\ lock' = "free"
DailyFailed(s) ==
  /\ State("failed", "daily", "", "not_attempted")
  /\ Leaves(s)
DraftFailed(s) ==
  /\ State("failed", "wechat_draft", scheduler[s].dir, "failed")
  /\ Leaves(s)

(***************************************************************************)
(* launchd.  A failed bootstrap leaves the copied plist, and so does a     *)
(* failed move to the Trash after the job was unloaded.                    *)
(***************************************************************************)
InstallSchedule ==
  /\ \E loaded \in {agent.loaded, TRUE} : agent' = [plist |-> TRUE, loaded |-> loaded]
  /\ UNCHANGED <<runs, scheduler, lock, runDirFile, schedule, daily, draftVars>>

UninstallSchedule ==
  /\ \/ agent.plist /\ UNCHANGED agent
     \/ \E plist \in {agent.plist, FALSE} : agent' = [plist |-> plist, loaded |-> FALSE]
  /\ UNCHANGED <<runs, scheduler, lock, runDirFile, schedule, daily, draftVars>>

(***************************************************************************)
(* One execution.                                                          *)
(***************************************************************************)
\* Mutant: a child that has ended has succeeded.
SucceededIfEnded(exit) == exit # "none"

Succeeded(exit) == exit = "done"

\* What finds the lock held ends with an error, and writes nothing.
ExecuteSchedule(s) ==
  /\ SchedulerAt(s, "idle")
  /\ s \in ByLaunchd => agent.loaded
  /\ lock = "free"
  /\ lock' = s
  /\ SchedulerGoes(s, "locked")
  /\ UNCHANGED <<runs, runDirFile, schedule, agent, daily, draftVars>>

EmptyRunDir(s) ==
  /\ SchedulerAt(s, "locked")
  /\ runDirFile' = ""
  /\ SchedulerGoes(s, "emptied")
  /\ UNCHANGED <<runs, lock, schedule, agent, daily, draftVars>>

\* The state says that the daily stage runs; then the process is started, or
\* cannot be.
StartDaily(s) ==
  /\ SchedulerAt(s, "emptied")
  /\ \/ \E c \in DailyChild :
          /\ daily[c].pc = "idle"
          /\ daily' = [daily EXCEPT ![c].pc = "running"]
          /\ scheduler' = [scheduler EXCEPT ![s].pc = "daily", ![s].child = c]
          /\ State("running", "daily", "", "not_attempted")
          /\ UNCHANGED lock
     \/ DailyFailed(s) /\ UNCHANGED daily
  /\ UNCHANGED <<runs, runDirFile, agent, draftVars>>

\* The run's directory, with the draft of its article, is complete when the
\* daily command names it; it may still fail afterwards.
DailyTellsRun(c) ==
  /\ daily[c].pc = "running"
  /\ \E r \in Report \ runs :
       /\ runs' = runs \union {r}
       /\ runDirFile' = r
       /\ daily' = [daily EXCEPT ![c].pc = "told", ![c].report = r]
  /\ UNCHANGED <<scheduler, lock, schedule, agent, draftVars>>

DailyExits(c) ==
  /\ \/ daily[c].pc = "told" /\ daily' = [daily EXCEPT ![c].pc = "ended", ![c].exit = "done"]
     \/ /\ daily[c].pc \in {"running", "told"}
        /\ daily' = [daily EXCEPT ![c].pc = "ended", ![c].exit = "failed"]
  /\ UNCHANGED <<runs, scheduler, lock, runDirFile, schedule, agent, draftVars>>

\* The directory named in the file, whoever wrote it, is checked: it must be a
\* run with an article draft.
DailyEnds(s) ==
  LET c == scheduler[s].child
  IN /\ SchedulerAt(s, "daily") /\ daily[c].pc = "ended"
     /\ daily' = [daily EXCEPT ![c] = NoDaily]
     /\ IF Succeeded(daily[c].exit) /\ runDirFile \in runs
        THEN /\ scheduler' = [scheduler EXCEPT ![s].pc = "publish", ![s].child = "",
                                               ![s].dir = runDirFile]
             /\ State("running", "wechat_draft", runDirFile, "running")
             /\ UNCHANGED lock
        ELSE DailyFailed(s)
     /\ UNCHANGED <<runs, runDirFile, agent, draftVars>>

\* Six hours are over: the group is terminated, or killed after the grace.
DailyTimesOut(s) ==
  /\ SchedulerAt(s, "daily") /\ daily[scheduler[s].child].pc # "ended"
  /\ daily' = [daily EXCEPT ![scheduler[s].child] = NoDaily]
  /\ DailyFailed(s)
  /\ UNCHANGED <<runs, runDirFile, agent, draftVars>>

StartDraft(s) ==
  /\ SchedulerAt(s, "publish")
  /\ \/ \E d \in Drafter :
          /\ DrafterAt(d, "idle")
          /\ drafter' = [drafter EXCEPT ![d] = Drafting(d, scheduler[s].dir, schedule.dry)]
          /\ scheduler' = [scheduler EXCEPT ![s].pc = "drafting", ![s].child = d]
          /\ UNCHANGED <<lock, schedule>>
     \/ DraftFailed(s) /\ UNCHANGED drafter
  /\ UNCHANGED <<runs, runDirFile, agent, daily, token, drafts, published>>

DraftEnds(s) ==
  LET d == scheduler[s].child
  IN /\ SchedulerAt(s, "drafting") /\ DrafterAt(d, "ended")
     /\ drafter' = [drafter EXCEPT ![d] = NoDrafter]
     /\ IF Succeeded(drafter[d].exit)
        THEN /\ State("succeeded", "completed", scheduler[s].dir,
                      IF schedule.dry THEN "dry_run" ELSE "created")
             /\ Leaves(s)
        ELSE DraftFailed(s)
     /\ UNCHANGED <<runs, runDirFile, agent, daily, token, drafts, published>>

\* Ten minutes are over.  A request that is under way may still create the
\* draft; the state says that it failed.
DraftTimesOut(s) ==
  LET d == scheduler[s].child
  IN /\ SchedulerAt(s, "drafting") /\ ~DrafterAt(d, "ended")
     /\ drafter' = [drafter EXCEPT ![d] = NoDrafter]
     /\ \/ UNCHANGED drafts
        \/ /\ DrafterAt(d, "add") /\ token[drafter[d].report] # "void"
           /\ drafts' = [drafts EXCEPT ![drafter[d].report] = @ + 1]
     /\ DraftFailed(s)
     /\ UNCHANGED <<runs, runDirFile, agent, daily, token, published>>

SchedulerDies(s) ==
  /\ ~SchedulerAt(s, "idle")
  /\ Leaves(s)
  /\ UNCHANGED <<runs, runDirFile, schedule, agent, daily, draftVars>>

\* A child that outlived its scheduler ends by itself.
OrphanEnds ==
  /\ \/ \E c \in DailyChild :
          /\ daily[c].pc = "ended" /\ \A s \in Scheduler : scheduler[s].child # c
          /\ daily' = [daily EXCEPT ![c] = NoDaily]
          /\ UNCHANGED drafter
     \/ \E d \in Drafter :
          /\ DrafterAt(d, "ended") /\ \A s \in Scheduler : scheduler[s].child # d
          /\ drafter' = [drafter EXCEPT ![d] = NoDrafter]
          /\ UNCHANGED daily
  /\ UNCHANGED <<runs, scheduler, lock, runDirFile, schedule, agent, token, drafts, published>>

ScheduleNext ==
  \/ InstallSchedule \/ UninstallSchedule \/ OrphanEnds
  \/ \E s \in Scheduler :
       \/ ExecuteSchedule(s) \/ EmptyRunDir(s) \/ StartDaily(s) \/ DailyEnds(s)
       \/ DailyTimesOut(s) \/ StartDraft(s) \/ DraftEnds(s) \/ DraftTimesOut(s) \/ SchedulerDies(s)
  \/ \E c \in DailyChild : DailyTellsRun(c) \/ DailyExits(c)
  \/ \E d \in Drafter : DraftStep(d) /\ UNCHANGED scheduleVars
  \/ \E r \in Report : TokenRunsOut(r) /\ UNCHANGED scheduleVars

(***************************************************************************)
(* Properties.                                                             *)
(***************************************************************************)
\* The executions of one schedule, manual ones included, never make two drafts
\* of a run, although a daily run that outlived its scheduler may write its
\* name into the file a later execution reads; and a state that says "created"
\* names a run of which there is a draft (execute_daily_draft_schedule,
\* _execute_locked_schedule, _validated_run_dir).
DraftedOnce ==
  /\ \A r \in Report : drafts[r] <= 1
  /\ schedule.draft = "created" => drafts[schedule.dir] = 1
=============================================================================
