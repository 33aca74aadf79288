--------------------------- MODULE AppScheduling ---------------------------
(***************************************************************************)
(* The App's daily schedules: AppStore, ScheduleCoordinator with its       *)
(* one-shot timer, the evaluator, and the drain a due job waits for.       *)
(*                                                                         *)
(* Several tasks refresh the schedules at the same time: launch, wake,     *)
(* clock and settings events (startScheduling), the timer, and the user's  *)
(* recovery from a fault.  Each runs on the main actor, the coordinator,   *)
(* the queue and the timer in turn and is suspended at every await; a      *)
(* refresh that is no longer the latest (generation # timerGeneration)     *)
(* must not enqueue or arm.  Quit and a fault cut in at any point.         *)
(*                                                                         *)
(* Calls to the queue's actor wait in `mail` and are served in order.  A   *)
(* call to the timer is made in the step that decides it.                  *)
(***************************************************************************)
EXTENDS Integers, Sequences, FiniteSets, FiniteSetsExt

CONSTANTS
  Topics,       \* the topics that can have a daily schedule
  DayLength,    \* a day, in ticks of the clock
  DueAt,        \* when in the day each topic is due
  LastDay,      \* bound: the last day considered, from 0
  Tasks,        \* bound: the refreshes under way at a time
  MaxFailures,  \* bound: writes that fail
  MaxRequests,  \* bound: events, and what the user asks for
  MayQuit       \* does the user quit in this instance?

ASSUME DayAssumption ==
  DayLength \in Nat \ {0} /\ DueAt \in [Topics -> 0 .. DayLength - 1]
ASSUME BoundAssumption == {LastDay, MaxFailures, MaxRequests} \subseteq Nat
ASSUME QuitAssumption == MayQuit \in BOOLEAN
ASSUME TasksAssumption == IsFiniteSet(Tasks) /\ {"quit", "drain"} \cap Tasks = {}

Days == 0 .. LastDay
End  == (LastDay + 1) * DayLength - 1

VARIABLES
  now,       \* the wall clock
  on,        \* the topics the user has scheduled and not paused
  inputs,    \* ScheduleStateSource: the coordinator's copy of them
  job,       \* the queue: a topic's scheduled work for a day
  other,     \* the queue holds other pending work
  task,      \* the refreshes
  lifecycle, \* ScheduleCoordinator.lifecycle
  timer,     \* the time the armed timer fires at, if any
  mail,      \* calls the queue has not served yet
  drain,     \* drainTask
  again,     \* drainRequested
  faulted,   \* scheduleFaulted
  recon,     \* requiresReconciliation
  quit,      \* shutdown
  failures, requests

clockVars == <<now, on, requests>>
queueVars == <<job, other, failures>>
coordVars == <<lifecycle, timer>>
drainVars == <<drain, again>>
shown     == <<faulted, recon>>
vars == <<now, on, inputs, job, other, task, lifecycle, timer, mail, drain,
          again, faulted, recon, quit, failures, requests>>

Idle == [pc |-> "idle", by |-> "start", latest |-> FALSE, told |-> FALSE,
         snap |-> {}, at |-> 0, todo |-> {}, topic |-> {}, woke |-> FALSE]

Asked == [Idle EXCEPT !.pc = "asked"]

\* The App was just launched.  Its reconciliation failed, and the launch's
\* startScheduling returned at its guard; or it left other work to drain,
\* which the first refresh waits for; or neither.
Init ==
  /\ now = 0 /\ on \in SUBSET Topics /\ inputs = on
  /\ job = [td \in Topics \X Days |-> "none"]
  /\ lifecycle = "active" /\ timer = {} /\ mail = <<>> /\ again = FALSE
  /\ faulted = FALSE /\ quit = "no" /\ requests = 0
  /\ failures \in {0, 1} \cap (0 .. MaxFailures) /\ recon = (failures = 1) /\ other \in BOOLEAN
  /\ drain = IF other /\ ~recon THEN "busy" ELSE "none"
  /\ \E p \in Tasks :
       task = [q \in Tasks |-> IF q # p \/ recon THEN Idle
                               ELSE [Asked EXCEPT !.pc = IF drain = "busy" THEN "launch" ELSE "asked"]]

-----------------------------------------------------------------------------
(* ScheduleEvaluator.                                                      *)

DayOf(t) == t \div DayLength
Due(topic, day) == day * DayLength + DueAt[topic]

DueTopics(snap, at) ==
  {t \in snap : at >= Due(t, DayOf(at)) /\ job[<<t, DayOf(at)>>] = "none"}

\* Mutant: only today's times are considered.
NextFireToday(snap, at) ==
  LET later == {Due(t, DayOf(at)) : t \in snap} \cap (at + 1 .. at + DayLength)
  IN  IF later = {} THEN {} ELSE {Min(later)}

\* Mutant: today's remaining times are forgotten.
NextFireTomorrow(snap, at) ==
  IF snap = {} THEN {} ELSE {Min({Due(t, DayOf(at) + 1) : t \in snap})}

\* The next time after `at`, today's or tomorrow's, of an enabled schedule.
NextFire(snap, at) ==
  LET next(t) == IF Due(t, DayOf(at)) > at THEN Due(t, DayOf(at)) ELSE Due(t, DayOf(at) + 1)
  IN  IF snap = {} THEN {} ELSE {Min({next(t) : t \in snap})}

-----------------------------------------------------------------------------
(* The store.                                                              *)

Quitting == quit # "no"
Open     == {td \in Topics \X Days : job[td] = "open"}
Pending  == other \/ Open # {}

\* admissionCount > 0: a task that does not merely wait to begin, and a
\* timer's refresh only until it reports its failure.
Admitted(p) ==
  /\ task[p].pc \notin {"idle", "launch", "asked", "fired"}
  /\ ~(task[p].by = "timer" /\ task[p].pc = "report")

behaviorChangesBlocked ==
  Quitting \/ recon \/ drain # "none" \/ Pending \/ \E p \in Tasks : Admitted(p)

\* requestDrain: a drain that is under way is asked to look again.
RequestDrain(pending) ==
  IF Quitting \/ recon' \/ ~pending THEN UNCHANGED drainVars
  ELSE /\ again' = (drain # "none")
       /\ drain' = IF drain = "none" THEN "busy" ELSE drain

Begin(p) == task[p].pc = "idle"
Move(p, pc) == task' = [task EXCEPT ![p].pc = pc]

\* A wake, clock or time zone event.
Event(p) ==
  /\ requests < MaxRequests /\ requests' = requests + 1
  /\ Begin(p)
  /\ task' = [task EXCEPT ![p] = Asked]
  /\ UNCHANGED <<now, on, inputs, queueVars, coordVars, mail, drainVars, shown, quit>>

\* setDailySchedule, setSchedulesPaused and pausing a topic.
Change(p, topics) ==
  /\ requests < MaxRequests /\ requests' = requests + 1
  /\ ~behaviorChangesBlocked
  /\ Begin(p)
  /\ on' = topics
  /\ task' = [task EXCEPT ![p] = Asked]
  /\ UNCHANGED <<now, inputs, queueVars, coordVars, mail, drainVars, shown, quit>>

\* Run Now and deliveries.
RunOther ==
  /\ requests < MaxRequests /\ requests' = requests + 1
  /\ ~Quitting /\ ~recon
  /\ other' = TRUE
  /\ UNCHANGED shown /\ RequestDrain(TRUE)
  /\ UNCHANGED <<now, on, inputs, job, failures, coordVars, task, mail, quit>>

\* Mutant: the coordinator's copy of the settings is not brought up to date.
StartWithOldInputs(p) ==
  /\ task[p].pc = "asked"
  /\ task' = [task EXCEPT ![p] = IF Quitting \/ recon \/ faulted THEN Idle
                                 ELSE [@ EXCEPT !.pc = "refresh"]]
  /\ UNCHANGED <<clockVars, inputs, queueVars, coordVars, mail, drainVars, shown, quit>>

\* startScheduling.
StartScheduling(p) ==
  /\ task[p].pc = "asked"
  /\ IF Quitting \/ recon \/ faulted
     THEN task' = [task EXCEPT ![p] = Idle] /\ UNCHANGED inputs
     ELSE Move(p, "refresh") /\ inputs' = on
  /\ UNCHANGED <<clockVars, queueVars, coordVars, mail, drainVars, shown, quit>>

\* recoverScheduling, offered while a fault is shown.
Recover(p) ==
  /\ Begin(p)
  /\ faulted \/ recon
  /\ ~Quitting /\ drain = "none" /\ ~\E q \in Tasks : Admitted(q)
  /\ task' = [task EXCEPT ![p] = [Idle EXCEPT !.pc = "validate", !.by = "recover"]]
  /\ UNCHANGED <<clockVars, inputs, queueVars, coordVars, mail, drainVars, shown, quit>>

\* Something is amiss, before or after the reconciliation; or it fails; or
\* all is well.
Validate(p) ==
  /\ task[p].pc = "validate"
  /\ \/ /\ failures < MaxFailures /\ failures' = failures + 1
        /\ task' = [task EXCEPT ![p].pc = "block", ![p].told = TRUE]
        /\ faulted' = TRUE /\ recon' \in {recon, FALSE}
        /\ UNCHANGED inputs
     \/ /\ failures < MaxFailures /\ failures' = failures + 1
        /\ recon /\ task' = [task EXCEPT ![p] = Idle]
        /\ UNCHANGED <<shown, inputs>>
     \/ /\ Quitting /\ task' = [task EXCEPT ![p] = Idle]
        /\ UNCHANGED <<shown, inputs, failures>>
     \/ /\ ~Quitting /\ Move(p, "reactivate")
        /\ recon' = FALSE /\ inputs' = on
        /\ UNCHANGED <<faulted, failures>>
  /\ UNCHANGED <<clockVars, job, other, coordVars, mail, drainVars, quit>>

-----------------------------------------------------------------------------
(* ScheduleCoordinator.                                                    *)

Current(p) == lifecycle = "active" /\ task[p].latest

\* Mutant: the generation is not advanced.
NeverSuperseded(tasks) == tasks

\* timerGeneration += 1.
Superseded(tasks) == [q \in Tasks |-> [tasks[q] EXCEPT !.latest = FALSE]]

Reactivate(p) ==
  /\ task[p].pc = "reactivate"
  /\ IF Quitting \/ lifecycle = "stopped"
     THEN Move(p, "return") /\ UNCHANGED lifecycle
     ELSE Move(p, "refresh") /\ lifecycle' = "active"
  /\ UNCHANGED <<clockVars, inputs, queueVars, timer, mail, drainVars, shown, quit>>

FireTimer(p) ==
  /\ Begin(p)
  /\ \E at \in timer : at <= now
  /\ timer' = {}
  /\ task' = [task EXCEPT ![p] = [Idle EXCEPT !.pc = "fired", !.by = "timer"]]
  /\ UNCHANGED <<clockVars, inputs, queueVars, lifecycle, mail, drainVars, shown, quit>>

HandleTimerFire(p) ==
  /\ task[p].pc = "fired"
  /\ Move(p, "refresh")
  /\ UNCHANGED <<clockVars, inputs, queueVars, coordVars, mail, drainVars, shown, quit>>

\* refreshAdmitted, from one await to the next.
Refresh(p) ==
  /\ \/ /\ task[p].pc = "refresh"
        /\ IF lifecycle = "active"
           THEN task' = [Superseded(task) EXCEPT ![p].latest = TRUE, ![p].pc = "inputs"]
           ELSE Move(p, "return")
        /\ UNCHANGED <<mail, timer>>
     \/ /\ task[p].pc = "inputs"
        /\ task' = [task EXCEPT ![p].snap = inputs, ![p].pc = "evaluate"]
        /\ UNCHANGED <<mail, timer>>
     \/ /\ task[p].pc = "evaluate"
        /\ IF Current(p)
           THEN /\ task' = [task EXCEPT ![p].at = now, ![p].pc = "jobs"]
                /\ mail' = Append(mail, p)
           ELSE Move(p, "return") /\ UNCHANGED mail
        /\ UNCHANGED timer
     \/ /\ task[p].pc = "arm"
        /\ Move(p, "return")
        /\ timer' = IF Current(p) THEN NextFire(task[p].snap, task[p].at) ELSE timer
        /\ UNCHANGED mail
  /\ UNCHANGED <<clockVars, inputs, queueVars, lifecycle, drainVars, shown, quit>>

\* Mutant: a refresh that was overtaken goes on enqueueing.
EnqueueOvertaken(p) ==
  /\ task[p].pc = "loop" /\ task[p].todo # {} /\ lifecycle = "active"
  /\ \E t \in task[p].todo :
       task' = [task EXCEPT ![p].topic = {t}, ![p].todo = @ \ {t}, ![p].pc = "enqueue"]
  /\ mail' = Append(mail, p)

Enqueue(p) ==
  /\ task[p].pc = "loop" /\ task[p].todo # {} /\ Current(p)
  /\ \E t \in task[p].todo :
       task' = [task EXCEPT ![p].topic = {t}, ![p].todo = @ \ {t}, ![p].pc = "enqueue"]
  /\ mail' = Append(mail, p)

\* Mutant: a refresh that was overtaken does not wake the drain.
WakeWhenCurrent(p) ==
  /\ task[p].pc = "loop" /\ (task[p].todo = {} \/ ~Current(p))
  /\ Move(p, IF ~Current(p) THEN "return" ELSE IF task[p].woke THEN "wake" ELSE "arm")
  /\ UNCHANGED mail

\* A newer refresh may replace the timer, but not revoke enqueued work.
EndLoop(p) ==
  /\ task[p].pc = "loop" /\ (task[p].todo = {} \/ ~Current(p))
  /\ Move(p, IF lifecycle # "active" THEN "return" ELSE IF task[p].woke THEN "wake" ELSE "arm")
  /\ UNCHANGED mail

Loop(p) ==
  /\ Enqueue(p) \/ EndLoop(p)
  /\ UNCHANGED <<clockVars, inputs, queueVars, coordVars, drainVars, shown, quit>>

\* onJobsEnqueued: the store drains the queue; the refresh waits for it.
Wake(p) ==
  /\ task[p].pc = "wake"
  /\ UNCHANGED shown /\ RequestDrain(Pending)
  /\ Move(p, IF drain' = "none" THEN "arm" ELSE "await")
  /\ UNCHANGED <<clockVars, inputs, queueVars, coordVars, mail, quit>>

\* block and stop: the coordinator refuses at once, then waits behind the
\* calls the queue has admitted, then cancels the timer.
Close(state, caller) ==
  /\ lifecycle' = state
  /\ mail' = Append(mail, caller)

\* Where a refresh goes that has been blocked: what called it learns of it.
Blocked(p) == [task EXCEPT ![p] = IF task[p].told THEN Idle ELSE [@ EXCEPT !.pc = "report"]]

Block(p) ==
  /\ task[p].pc = "block"
  /\ IF lifecycle = "stopped"
     THEN task' = Blocked(p) /\ UNCHANGED <<lifecycle, mail>>
     ELSE /\ task' = [Superseded(task) EXCEPT ![p].pc = "barrier"]
          /\ Close("blocked", p)
  /\ UNCHANGED <<clockVars, inputs, queueVars, timer, drainVars, shown, quit>>

CancelTimer(p) ==
  /\ task[p].pc = "cancel"
  /\ timer' = {} /\ task' = Blocked(p)
  /\ UNCHANGED <<clockVars, inputs, queueVars, lifecycle, mail, drainVars, shown, quit>>

\* recordScheduleFailure, or stopScheduling, which blocks once more.
Report(p) ==
  /\ task[p].pc = "report"
  /\ faulted' = TRUE
  /\ task' = [task EXCEPT ![p] = IF task[p].by = "timer" THEN Idle
                                 ELSE [@ EXCEPT !.pc = "block", !.told = TRUE]]

ReportFailure(p) ==
  /\ Report(p)
  /\ UNCHANGED <<clockVars, inputs, queueVars, coordVars, mail, drainVars, recon, quit>>

\* refresh returned to its caller: a recovery ends the fault.
Return(p) ==
  /\ task[p].pc = "return"
  /\ task' = [task EXCEPT ![p] = Idle]
  /\ UNCHANGED recon
  /\ IF task[p].by = "recover" /\ ~Quitting
     THEN faulted' = FALSE /\ RequestDrain(Pending)
     ELSE UNCHANGED <<faulted, again, drain>>
  /\ UNCHANGED <<clockVars, inputs, queueVars, coordVars, mail, quit>>

-----------------------------------------------------------------------------
(* The queue's actor: the jobs, one enqueue, or only its turn.             *)

EnqueueServed(p) ==
  LET t == CHOOSE x \in task[p].topic : TRUE
      d == DayOf(task[p].at)
      back == [task EXCEPT ![p].pc = "loop", ![p].topic = {}]
  IN  \/ /\ job' = [job EXCEPT ![<<t, d>>] = "open"]
         /\ task' = IF job[<<t, d>>] = "open" THEN back ELSE [back EXCEPT ![p].woke = TRUE]
         /\ UNCHANGED failures
      \/ /\ failures < MaxFailures /\ failures' = failures + 1
         /\ task' = [task EXCEPT ![p].pc = "block", ![p].topic = {}]
         /\ UNCHANGED job

Serve ==
  /\ mail # <<>>
  /\ mail' = Tail(mail)
  /\ LET p == Head(mail)
     IN  CASE p = "quit"  -> quit' = "cancel" /\ UNCHANGED <<task, job, failures, drain>>
           [] p = "drain" -> drain' = "cancel" /\ UNCHANGED <<task, job, failures, quit>>
           [] OTHER ->
                /\ UNCHANGED <<quit, drain>>
                /\ CASE task[p].pc = "jobs" ->
                          /\ task' = [task EXCEPT ![p].pc = "loop",
                                        ![p].todo = DueTopics(task[p].snap, task[p].at)]
                          /\ UNCHANGED <<job, failures>>
                     [] task[p].pc = "enqueue" -> EnqueueServed(p)
                     [] OTHER -> Move(p, "cancel") /\ UNCHANGED <<job, failures>>
  /\ UNCHANGED <<clockVars, inputs, other, coordVars, again, shown>>

-----------------------------------------------------------------------------
(* drainQueue, with one job's whole run as a step.                         *)

OneEnds ==
  \/ other /\ other' = FALSE /\ UNCHANGED job
  \/ \E td \in Open : job' = [job EXCEPT ![td] = "ended"] /\ UNCHANGED other

RunJob ==
  /\ drain = "busy" /\ ~Quitting
  /\ OneEnds
  /\ UNCHANGED <<clockVars, inputs, failures, coordVars, task, mail, drainVars, shown, quit>>

\* A write failed: the claim's, or one that a reconciliation makes up for.
DrainFails ==
  /\ drain = "busy" /\ Pending
  /\ failures < MaxFailures /\ failures' = failures + 1
  /\ OneEnds \/ UNCHANGED <<job, other>>
  /\ recon' = TRUE /\ faulted' = TRUE
  /\ IF lifecycle = "stopped"
     THEN drain' = "failed" /\ UNCHANGED <<task, lifecycle, mail>>
     ELSE /\ drain' = "barrier" /\ task' = Superseded(task) /\ Close("blocked", "drain")
  /\ UNCHANGED <<clockVars, inputs, timer, again, quit>>

DrainCancelsTimer ==
  /\ drain = "cancel"
  /\ timer' = {} /\ drain' = "failed"
  /\ UNCHANGED <<clockVars, inputs, queueVars, lifecycle, task, mail, again, shown, quit>>

DrainEnds ==
  /\ drain = "busy" /\ (Quitting \/ ~Pending)
  /\ drain' = "ended"
  /\ UNCHANGED <<clockVars, inputs, queueVars, coordVars, task, mail, again, shown, quit>>

\* The inputs are brought up to date, and what awaits this drain goes on.
DrainExits ==
  /\ drain \in {"failed", "ended"}
  /\ inputs' = on
  /\ task' = [p \in Tasks |-> CASE task[p].pc = "await"  -> [task[p] EXCEPT !.pc = "arm"]
                                [] task[p].pc = "launch" -> [task[p] EXCEPT !.pc = "asked"]
                                [] OTHER                 -> task[p]]
  /\ again' = FALSE
  /\ drain' = IF drain = "ended" /\ again /\ ~Quitting /\ ~recon /\ Pending
              THEN "busy" ELSE "none"
  /\ UNCHANGED <<clockVars, queueVars, coordVars, mail, shown, quit>>

-----------------------------------------------------------------------------
(* shutdown.                                                               *)

Quit ==
  /\ MayQuit /\ quit = "no"
  /\ quit' = "stop"
  /\ UNCHANGED <<clockVars, inputs, queueVars, coordVars, task, mail, drainVars, shown>>

\* Mutant: stop does not wait behind the queue.
StopAtOnce ==
  /\ quit = "stop"
  /\ quit' = "cancel" /\ lifecycle' = "stopped"
  /\ task' = Superseded(task)
  /\ UNCHANGED <<timer, mail>>

Stop ==
  \/ /\ quit = "stop"
     /\ quit' = "barrier" /\ Close("stopped", "quit")
     /\ task' = Superseded(task)
     /\ UNCHANGED timer
  \/ /\ quit = "cancel"
     /\ quit' = "stopped" /\ timer' = {}
     /\ UNCHANGED <<lifecycle, task, mail>>

StopScheduling ==
  /\ Stop
  /\ UNCHANGED <<clockVars, inputs, queueVars, drainVars, shown>>

-----------------------------------------------------------------------------

Tick ==
  /\ now < End
  /\ now' = now + 1
  /\ UNCHANGED <<on, requests, inputs, queueVars, coordVars, task, mail, drainVars, shown, quit>>

\* What goes on by itself.
Step(p) == \/ StartScheduling(p) \/ Validate(p) \/ Reactivate(p) \/ HandleTimerFire(p)
           \/ Refresh(p) \/ Loop(p) \/ Wake(p) \/ Block(p) \/ CancelTimer(p)
           \/ ReportFailure(p) \/ Return(p)

Timer   == \E p \in Tasks : FireTimer(p)
Drain   == RunJob \/ DrainCancelsTimer \/ DrainEnds \/ DrainExits
User    == RunOther \/ Quit \/ \E p \in Tasks :
             Event(p) \/ Recover(p) \/ \E topics \in SUBSET Topics : Change(p, topics)

Act == User \/ Timer \/ Serve \/ Drain \/ DrainFails \/ StopScheduling
       \/ \E p \in Tasks : Step(p)

Next == Tick \/ Act

Spec == Init /\ [][Next]_vars

\* Tasks, actors, an armed timer and the drain go on; nothing else must.
FairSpec == /\ Spec /\ WF_vars(Timer) /\ WF_vars(Serve) /\ WF_vars(Drain)
            /\ \A p \in Tasks : WF_vars(Step(p))

\* An App that is never late: the clock waits for all but the jobs' runs.
Settled ==
  /\ mail = <<>> /\ ~\E at \in timer : at <= now
  /\ drain = "none" \/ (drain = "busy" /\ Pending)
  /\ \A p \in Tasks : task[p].pc \in {"idle", "await"}

PunctualSpec == (Init /\ drain = "none") /\ [][(Tick /\ Settled) \/ Act]_vars

-----------------------------------------------------------------------------
(* Properties.                                                             *)

Steps == {"idle", "launch", "asked", "validate", "reactivate", "fired", "refresh",
          "inputs", "evaluate", "jobs", "loop", "enqueue", "wake", "await", "arm",
          "block", "barrier", "cancel", "report", "return"}

\* Type of the scheduler's state; one refresh at most is the latest.
TypeOK ==
  /\ now \in 0 .. End /\ on \subseteq Topics /\ inputs \subseteq Topics
  /\ job \in [Topics \X Days -> {"none", "open", "ended"}]
  /\ task \in [Tasks -> [pc : Steps, by : {"start", "timer", "recover"}, latest : BOOLEAN,
                         told : BOOLEAN, snap : SUBSET Topics, at : 0 .. End,
                         todo : SUBSET Topics, topic : SUBSET Topics, woke : BOOLEAN]]
  /\ Cardinality({p \in Tasks : task[p].latest}) <= 1
  /\ lifecycle \in {"active", "blocked", "stopped"}
  /\ timer \subseteq 0 .. End + DayLength /\ Cardinality(timer) <= 1
  /\ drain \in {"none", "busy", "barrier", "cancel", "failed", "ended"}
  /\ quit \in {"no", "stop", "barrier", "cancel", "stopped"}
  /\ again \in BOOLEAN /\ other \in BOOLEAN /\ faulted \in BOOLEAN /\ recon \in BOOLEAN

\* Nothing is under way and the user has not quit.
Quiet == /\ ~Quitting /\ drain = "none"
         /\ \A p \in Tasks : task[p].pc = "idle"

\* A topic is scheduled at most once for a day, however often and wherever
\* the refreshes overlap: failed attempts are repeated by the user only.
ScheduledOnce == [][\A td \in Topics \X Days : job[td] = "ended" => job'[td] = "ended"]_job

\* A fault is shown, or a refresh that failed is about to show it.
FaultShows == \/ faulted \/ recon
              \/ \E p \in Tasks : task[p].pc \in {"block", "barrier", "cancel", "report"}

\* Only topics the user has on are scheduled, until the refresh that a change
\* of the settings asked for has looked at the jobs; unless a fault, which
\* ends that refresh, is shown or Quit has begun.
FollowsSettings ==
  [][\A t \in Topics, d \in Days :
       job[<<t, d>>] = "none" /\ job'[<<t, d>>] = "open" =>
         \/ t \in on \/ Quitting \/ FaultShows
         \/ \E p \in Tasks : task[p].pc \in {"asked", "refresh", "inputs", "evaluate", "jobs"}]_job

\* After Quit has stopped the scheduling, nothing is enqueued, no timer is
\* left and nothing can undo it.
StopIsFinal ==
  /\ quit = "stopped" => timer = {} /\ lifecycle = "stopped"
  /\ quit \in {"cancel", "stopped"} => \A p \in Tasks : task[p].pc # "enqueue"

\* A blocked schedule is shown to the user, who alone can recover it.
BlockedIsShown == Quiet /\ lifecycle = "blocked" => faulted \/ recon

\* Once the refreshes have ended, each scheduled topic has been attempted
\* today or the timer fires in time for it.
NextIsArmed ==
  Quiet /\ lifecycle = "active" /\ ~faulted /\ ~recon => \A t \in on :
    LET next == IF job[<<t, DayOf(now)>>] = "none" THEN Due(t, DayOf(now)) ELSE Due(t, DayOf(now) + 1)
    IN  \E at \in timer : at <= now \/ at <= next

\* What is due today is attempted if the day is long enough for it, unless
\* the topic is switched off, a fault is shown or the user quits.
DueIsAttempted ==
  \A t \in Topics, d \in Days :
    t \in on /\ DayOf(now) = d /\ now >= Due(t, d)
      ~> job[<<t, d>>] # "none" \/ DayOf(now) # d \/ t \notin on \/ faulted \/ recon \/ Quitting

\* While the App runs, is not asleep, late or faulted, each scheduled topic
\* is attempted every day.
DailyWhileRunning ==
  \A t \in on, d \in Days : d < DayOf(now) => job[<<t, d>>] # "none"

=============================================================================
