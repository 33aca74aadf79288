------------------------- MODULE EngineCoordinator -------------------------
(***************************************************************************)
(* The App's job execution: EngineJobCoordinator over the durable queue    *)
(* (JobQueue), the report index (ReportIndexStore) and one engine process  *)
(* per job (EngineProcessSupervisor).  A job is claimed, admitted,         *)
(* launched, its terminal artifact is resolved and the outcome is          *)
(* persisted in two files, report index first; a launch or a recovery      *)
(* reconciles the artifacts of the jobs that were not finished.            *)
(*                                                                         *)
(* The App can die between any two steps.  An engine process survives it   *)
(* for a while (`proc` = "orphan") and may still send a message and write  *)
(* its terminal artifact, as may a process group the supervisor failed to  *)
(* end.  Either store write may throw, before or after the file changed.   *)
(*                                                                         *)
(* A research attempt makes a run directory of its own, so the run of the  *)
(* research job i is i.                                                    *)
(***************************************************************************)
EXTENDS JobQueue

CONSTANTS
  EngineErrors,    \* error codes a terminal error carries, told apart
  Faults,          \* of: a store write throws, a process group outlives
                   \* SIGKILL and its 2 s wait, the App dies
  MaxFaults        \* bound: how many of these happen

ASSUME RunsAssumption == Runs = 1 .. MaxJobs
ASSUME ChannelsFinite == IsFiniteSet(Channels)
ASSUME InvalidAssumption == "terminal_invalid" \in JobErrors
ASSUME EngineErrorsAssumption ==
  EngineErrors \subseteq {"cancelled", "interrupted", "failed"}
ASSUME FaultsAssumption == Faults \subseteq {"throw", "cleanup", "crash"} /\ MaxFaults \in Nat

VARIABLES
  reports, savedReports,   \* the report index: in memory, and its file
  art,        \* the terminal artifact in each job's directory
  proc,       \* each job's engine process
  sentBy,     \* the deliveries that reached their recipient
  co,         \* what the coordinator is doing
  app,        \* launched (not reconciled yet), ready, or faulted
  drain,      \* AppStore's drain, see Drains
  needsRecon, \* EngineExecutionGate.needsReconciliation
  stuck,      \* EngineProcessSupervisor.running was never cleared
  faults      \* how many faults happened

reportVars == <<reports, savedReports>>
engineVars == <<art, proc, sentBy>>
appVars    == <<app, needsRecon, drain>>
vars == <<jobs, saved, reports, savedReports, art, proc, sentBy,
          co, app, needsRecon, drain, stuck, faults>>

Result == {"ready", "empty", "invalid"}   \* a report or delivery, a report
                                          \* with nothing effective to
                                          \* deliver, an unusable result
Artifact == {"none"} \cup Result \cup EngineErrors

\* sent stands for sent (email) and created (WeChat); absent: no record.
DeliveryState == {"absent", "notRequested", "pending", "sent", "failed", "unknown"}
NoReport == [effective |-> FALSE, exists |-> FALSE,
             delivery |-> [ch \in Channels |-> "absent"]]
Report == [effective : BOOLEAN, exists : BOOLEAN, delivery : [Channels -> DeliveryState]]

\* Once the App is ready the drain is "on", or "over" until it is asked for
\* again; "held" and "refused" are the same while a cancellation that has not
\* settled yet keeps the lease of the last job.
Drains == {"on", "over", "held", "refused"}

NoOutcome == [state |-> "pending", error |-> "none", effective |-> FALSE]
Idle == [pc |-> "idle", mode |-> "run", job |-> 0, outcome |-> NoOutcome,
         work |-> {}, todo |-> {}]

Init ==
  /\ QueueInit
  /\ reports = [run \in Runs |-> NoReport] /\ savedReports = reports
  /\ art = [i \in Runs |-> "none"]
  /\ proc = [i \in Runs |-> "none"]
  /\ sentBy = {}
  /\ co = Idle /\ app = "launched" /\ needsRecon = FALSE /\ stuck = FALSE
  /\ drain = "on"
  /\ faults = 0

-----------------------------------------------------------------------------
(* Store writes: acknowledged, or throwing.                                *)

Happens(fault) ==
  /\ fault \in Faults /\ faults < MaxFaults
  /\ faults' = faults + 1

QueueWritten(q)   == Commit(q) /\ UNCHANGED <<reportVars, faults>>
QueueThrows(q)    == Happens("throw") /\ WriteFails(q) /\ UNCHANGED reportVars
ReportsWritten(r) == reports' = r /\ savedReports' = r /\ UNCHANGED <<queueVars, faults>>
ReportsThrow(r)   == /\ Happens("throw")
                     /\ savedReports' \in {savedReports, r}
                     /\ UNCHANGED <<reports, queueVars>>
NothingWritten    == UNCHANGED <<queueVars, reportVars, faults>>

\* EnginePersistenceError: draining stops until the state is reconciled.
Fault == needsRecon' = TRUE /\ app' = "faulted" /\ co' = Idle /\ UNCHANGED drain

Proceed(next) == co' = next /\ UNCHANGED appVars

\* The outcome a job is persisted with.
Outcome(state, error, effective) ==
  [state |-> state, error |-> error, effective |-> effective]
Lose(job) == IF job.kind = "delivery" THEN "deliveryUnknown" ELSE "interrupted"
Invalid(job)  == Outcome(Lose(job), "terminal_invalid", FALSE)
Failed        == Outcome("failed", "none", FALSE)
Persisting(outcome) == [co EXCEPT !.pc = "persist", !.outcome = outcome]

-----------------------------------------------------------------------------
(* Clients of the queue: the user and the schedule.  The bound leaves room *)
(* for the deliveries that the research jobs already in the queue owe.     *)

Delivers(job, run, ch) == job.kind = "delivery" /\ job.target = run /\ job.channel = ch

Owes(q, i, ch) ==
  /\ q[i].kind = "research" /\ ch \in q[i].requested
  /\ \A k \in DOMAIN q : ~Delivers(q[k], i, ch)

Owed(q) == {due \in (DOMAIN q) \X Channels : Owes(q, due[1], due[2])}
RoomFor(n) == Len(jobs) + Cardinality(Owed(jobs)) + n <= MaxJobs

\* requestDrain: the drain is on again, which does not free the lease.
Redrained == CASE drain = "refused" -> "held"
               [] drain = "over"    -> "on"
               [] OTHER             -> drain

\* An enqueue asks for a drain.  One whose write throws is reported to the
\* caller and changes nothing else.
ByClient ==
  /\ app \in {"launched", "ready"}
  /\ IF jobs' = jobs THEN Happens("throw") /\ UNCHANGED drain
     ELSE drain' = Redrained /\ UNCHANGED faults
  /\ UNCHANGED <<reportVars, engineVars, co, app, needsRecon, stuck>>

RequestResearch(slot, chs) ==
  /\ RoomFor(1 + Cardinality(chs))
  /\ EnqueueResearch(slot, chs)
  /\ ByClient

\* A delivery the user asked for and confirmed; the confirmation of an
\* unknown outcome also allows a resend.
RequestDelivery(run, ch, resend, ack) ==
  /\ RoomFor(1)
  /\ reports[run].exists /\ reports[run].effective
  /\ ack => resend
  /\ EnqueueDelivery(run, ch, TRUE, resend, ack)
  /\ ByClient

\* A request for work that is already pending only asks for a drain.
AskAgain ==
  /\ app = "ready" /\ \E i \in DOMAIN jobs : jobs[i].state = "pending"
  /\ drain \in {"refused", "over"} /\ drain' = Redrained
  /\ NothingWritten
  /\ UNCHANGED <<engineVars, co, app, needsRecon, stuck>>

-----------------------------------------------------------------------------
(* drainQueue and executeNext.                                             *)

Draining == co.pc = "idle" /\ app = "ready" /\ drain \in {"on", "held"}

\* Research that is not configured is cancelled before it is claimed.
RejectUnconfigured ==
  /\ Draining
  /\ \E i \in DOMAIN jobs : jobs[i].state = "pending"
  /\ jobs[FirstPending(jobs)].kind = "research"
  /\ LET q == SetState(jobs, FirstPending(jobs), "cancelled", "none")
     IN  \/ QueueWritten(q) /\ UNCHANGED <<co, appVars>>
         \/ QueueThrows(q) /\ app' = "faulted" /\ UNCHANGED <<co, needsRecon, drain>>
  /\ UNCHANGED <<engineVars, stuck>>

ClaimNext ==
  /\ Draining /\ ~needsRecon /\ drain = "on"
  /\ CanClaim(jobs)
  /\ LET q == SetState(jobs, FirstPending(jobs), "running", "none")
     IN  \/ QueueWritten(q)
            /\ Proceed([co EXCEPT !.pc = "admit", !.job = FirstPending(jobs)])
         \/ QueueThrows(q) /\ Fault
  /\ UNCHANGED <<engineVars, stuck>>

\* gate.cancel returns, and the lease of the job before is free.
CancellationSettles ==
  /\ drain \in {"held", "refused"}
  /\ drain' = IF drain = "held" THEN "on" ELSE "over"
  /\ NothingWritten
  /\ UNCHANGED <<engineVars, co, app, needsRecon, stuck>>

\* busy: the lease is not free yet; the drain ends and asks for no other.
ClaimRefused ==
  /\ Draining /\ ~needsRecon /\ drain = "held"
  /\ drain' = "refused"
  /\ NothingWritten
  /\ UNCHANGED <<engineVars, co, app, needsRecon, stuck>>

\* The gate refuses the next claim after a failed cleanup.
StopDrain ==
  /\ Draining /\ needsRecon
  /\ app' = "faulted"
  /\ NothingWritten
  /\ UNCHANGED <<engineVars, co, needsRecon, drain, stuck>>

\* ensureManualDeliveryRecord: a manual delivery gets a record in the report.
LacksRecord(job) ==
  /\ job.kind = "delivery" /\ job.manual
  /\ reports[job.target].exists
  /\ reports[job.target].delivery[job.channel] = "absent"

WithRecord(job, s) == [reports EXCEPT ![job.target].delivery[job.channel] = s]

\* validateDeliveryAdmission, on the reports after the record was ensured.
Admissible(job, r) ==
  job.kind = "delivery" =>
    /\ r[job.target].effective
    /\ r[job.target].delivery[job.channel] # "absent"
    /\ r[job.target].delivery[job.channel] = "unknown" => job.acknowledge
    /\ r[job.target].delivery[job.channel] = "sent" => job.allowResend

\* Admission, the request and the job directory; any of them may fail.
Admit ==
  /\ co.pc = "admit"
  /\ LET job == jobs[co.job]
         r   == IF LacksRecord(job) THEN WithRecord(job, "notRequested") ELSE reports
     IN  \/ /\ IF LacksRecord(job) THEN ReportsWritten(r) ELSE NothingWritten
            /\ \/ Admissible(job, r) /\ Proceed([co EXCEPT !.pc = "launch"])
               \/ Proceed(Persisting(Failed))
         \/ LacksRecord(job) /\ ReportsThrow(r) /\ Proceed(Persisting(Failed))
  /\ UNCHANGED <<engineVars, stuck>>

Launch ==
  /\ co.pc = "launch" /\ ~stuck
  /\ proc' = [proc EXCEPT ![co.job] = "alive"]
  /\ Proceed([co EXCEPT !.pc = "running"])
  /\ NothingWritten
  /\ UNCHANGED <<art, sentBy, stuck>>

\* The gate was cancelled or the process could not be started.
LaunchFails ==
  /\ co.pc = "launch"
  /\ \/ Proceed(Persisting(Outcome("cancelled", "none", FALSE)))
     \/ ~stuck /\ Proceed(Persisting(Failed))
  /\ NothingWritten
  /\ UNCHANGED <<engineVars, stuck>>

\* alreadyRunning: the claim is returned and the drain ends.
Release ==
  /\ co.pc = "launch" /\ stuck
  /\ LET q == Released(jobs, co.job)
     IN  \/ QueueWritten(q) /\ co' = Idle /\ drain' = "over" /\ UNCHANGED <<app, needsRecon>>
         \/ QueueThrows(q) /\ Fault
  /\ UNCHANGED <<engineVars, stuck>>

-----------------------------------------------------------------------------
(* The engine processes (the Python bridge), orphans included.  Delivery   *)
(* happens before the result is written; an error may be written at any    *)
(* time, even while the process is still about to send (the parent-loss    *)
(* watcher writes its error first); a killed process writes nothing.       *)

Living(i) == proc[i] \in {"alive", "orphan"}

EngineSends(i) ==
  /\ Living(i)
  /\ jobs[i].kind = "delivery" /\ i \notin sentBy
  /\ sentBy' = sentBy \cup {i}
  /\ UNCHANGED <<art, proc>>

EngineWrites(i, a) ==
  /\ Living(i) /\ art[i] = "none"
  /\ a \in Result /\ jobs[i].kind = "delivery" => i \in sentBy /\ a # "empty"
  /\ art' = [art EXCEPT ![i] = a]
  /\ UNCHANGED <<proc, sentBy>>

OrphanExits(i) ==
  /\ proc[i] = "orphan"
  /\ proc' = [proc EXCEPT ![i] = "gone"]
  /\ UNCHANGED <<art, sentBy>>

Engine ==
  /\ \E i \in DOMAIN jobs :
       \/ EngineSends(i)
       \/ \E a \in Artifact \ {"none"} : EngineWrites(i, a)
       \/ OrphanExits(i)
  /\ NothingWritten
  /\ UNCHANGED <<co, appVars, stuck>>

\* EngineTerminalResolver.resolve on a result or an error that is usable.
Succeeded(a) == Outcome("succeeded", "none", a = "ready")

\* Mutant: a delivery that left no result is taken to have failed.
ResolutionFailed(job, a) ==
  IF a \in {"ready", "empty"} THEN Succeeded(a) ELSE Failed

Resolution(job, a) ==
  IF a \in {"ready", "empty"} THEN Succeeded(a)
  ELSE IF a = "invalid" THEN Invalid(job)
  ELSE IF job.kind = "delivery" THEN Outcome("deliveryUnknown", "none", FALSE)
  ELSE Outcome(IF a = "none" THEN "interrupted" ELSE a, "none", FALSE)

\* The process group ended (by itself or after a cancellation).
Finish ==
  /\ co.pc = "running"
  /\ proc' = [proc EXCEPT ![co.job] = "gone"]
  /\ Proceed(Persisting(Resolution(jobs[co.job], art[co.job])))
  /\ NothingWritten
  /\ UNCHANGED <<art, sentBy, stuck>>

\* processGroupStillRunning: the supervisor stays occupied, and only a
\* success that is already on disk is believed.
CleanupFails ==
  /\ Happens("cleanup") /\ UNCHANGED <<queueVars, reportVars>>
  /\ co.pc = "running"
  /\ proc' = [proc EXCEPT ![co.job] = "orphan"]
  /\ stuck' = TRUE /\ needsRecon' = TRUE
  /\ co' = Persisting(IF art[co.job] \in {"ready", "empty"}
                      THEN Succeeded(art[co.job])
                      ELSE Invalid(jobs[co.job]))
  /\ UNCHANGED <<art, sentBy, app, drain>>

-----------------------------------------------------------------------------
(* persist: the record is ensured, the report index written, the job       *)
(* moved, and the deliveries a new report owes are enqueued.               *)

\* Mutant: an earlier attempt may overwrite the index too.
LatestOrNot(i) == i \in DOMAIN jobs

Latest(i) == \A k \in Prior(jobs, jobs[i]) : jobs[k].attempt <= jobs[i].attempt

\* A failure must not overwrite what an earlier attempt established.
Protected(job, s) ==
  \/ s = "sent" /\ ~job.allowResend
  \/ s = "unknown" /\ ~job.acknowledge

EnsureRecord ==
  /\ co.pc = "persist" /\ LacksRecord(jobs[co.job])
  /\ LET r == WithRecord(jobs[co.job], "notRequested")
     IN  \/ ReportsWritten(r) /\ Proceed(co)
         \/ ReportsThrow(r) /\ Fault
  /\ UNCHANGED <<engineVars, stuck>>

\* Mutant: an outcome is recorded afresh, whatever is known already.
RecordedAfresh(i) ==
  LET job == jobs[i]
  IN  IF job.kind = "delivery"
      THEN WithRecord(job, CASE co.outcome.state = "succeeded"       -> "sent"
                             [] co.outcome.state = "deliveryUnknown" -> "unknown"
                             [] OTHER                                -> "failed")
      ELSE [reports EXCEPT ![i] =
             [effective |-> co.outcome.effective, exists |-> TRUE,
              delivery |-> [ch \in Channels |->
                IF ch \in job.requested THEN "pending" ELSE "absent"]]]

\* What the report index says once a job's outcome is recorded in it.
RecordedReports(i) ==
  LET job == jobs[i]
      out == co.outcome
      old == reports[i]
  IN  IF job.kind = "research"
      THEN IF out.state # "succeeded" THEN reports
           ELSE [reports EXCEPT ![i] =
                  [effective |-> out.effective, exists |-> TRUE,
                   delivery |-> [ch \in Channels |->
                     IF out.effective /\ ch \in job.requested /\ old.delivery[ch] = "absent"
                     THEN "pending" ELSE old.delivery[ch]]]]
      ELSE LET was == reports[job.target].delivery[job.channel]
           IN  IF ~Latest(i) \/ (out.state # "succeeded" /\ Protected(job, was))
               THEN reports
               ELSE WithRecord(job, CASE out.state = "succeeded"       -> "sent"
                                      [] out.state = "deliveryUnknown" -> "unknown"
                                      [] OTHER                         -> "failed")

\* Mutant: an index write that throws is ignored.
RecordOutcomeAnyway ==
  /\ co.pc = "persist" /\ ~LacksRecord(jobs[co.job])
  /\ LET r == RecordedReports(co.job)
     IN  ReportsWritten(r) \/ ReportsThrow(r)
  /\ Proceed([co EXCEPT !.pc = "move"])
  /\ UNCHANGED <<engineVars, stuck>>

\* A failure does not touch a job that had succeeded.
RecordOutcome ==
  /\ co.pc = "persist" /\ ~LacksRecord(jobs[co.job])
  /\ IF co.outcome.state # "succeeded" /\ jobs[co.job].state \in {"succeeded", "partialSuccess"}
     THEN NothingWritten /\ Proceed([co EXCEPT !.pc = "next"])
     ELSE LET r == RecordedReports(co.job)
          IN  \/ ReportsWritten(r) /\ Proceed([co EXCEPT !.pc = "move"])
              \/ ReportsThrow(r) /\ Fault
  /\ UNCHANGED <<engineVars, stuck>>

\* Mutant: the deliveries looked for are those nobody requested.
MissingUnasked(q) == {due \in Runs \X Channels :
                        /\ reports[due[1]].effective
                        /\ reports[due[1]].delivery[due[2]] = "notRequested"
                        /\ \A k \in DOMAIN q : q[k].target # due[1]}

\* restoreMissingDeliveryJobs looks the jobs up once, before it enqueues.
Missing(q) == {due \in Runs \X Channels :
                 /\ reports[due[1]].effective
                 /\ reports[due[1]].delivery[due[2]] = "pending"
                 /\ \A k \in DOMAIN q : ~Delivers(q[k], due[1], due[2])}

MoveJob ==
  /\ co.pc = "move"
  /\ LET i == co.job
         q == SetState(jobs, i, co.outcome.state, co.outcome.error)
     IN  \/ /\ MayMove(jobs[i], co.outcome.state)
            /\ \/ /\ QueueWritten(q)
                  /\ Proceed(IF q[i].kind = "research" /\ q[i].state = "succeeded"
                             THEN [co EXCEPT !.pc = "restore", !.todo = Missing(q)]
                             ELSE [co EXCEPT !.pc = "next"])
               \/ QueueThrows(q) /\ Fault
         \/ ~MayMove(jobs[i], co.outcome.state) /\ NothingWritten /\ Fault
  /\ UNCHANGED <<engineVars, stuck>>

\* One delivery job is enqueued, found already active, or refused.
Restore ==
  /\ co.pc = "restore"
  /\ \E due \in co.todo :
       LET new  == NewDelivery(jobs, due[1], due[2], FALSE, FALSE, FALSE)
           rest == [co EXCEPT !.todo = @ \ {due}]
       IN  CASE HasActive(jobs, new) -> NothingWritten /\ Proceed(rest)
             [] Admits(jobs, new)    ->
                  \/ QueueWritten(Append(jobs, new)) /\ Proceed(rest)
                  \/ QueueThrows(Append(jobs, new)) /\ Fault
             [] OTHER                -> NothingWritten /\ Fault
  /\ UNCHANGED <<engineVars, stuck>>

\* A launch resumes what is pending; a recovery only if its other checks (of
\* the configuration, the schedule) succeed too.
Restored ==
  /\ co.pc = "restore" /\ co.todo = {}
  /\ IF co.job = 0
     THEN /\ co' = Idle /\ needsRecon' = FALSE /\ app' = "ready"
          /\ drain' \in IF app = "faulted" THEN {"on", "over"} ELSE {"on"}
     ELSE Proceed([co EXCEPT !.pc = "next"])
  /\ NothingWritten
  /\ UNCHANGED <<engineVars, stuck>>

\* executeNext returns or throws.  The user may have cancelled the job, and the
\* cancellation keeps the lease until it has settled.  A job that was enqueued
\* after the drain had looked for one, and that was not started, faults the App.
JobDone ==
  /\ co.pc = "next" /\ co.mode = "run"
  /\ co' = Idle
  /\ \/ drain' \in {"on", "held"} /\ UNCHANGED app
     \/ proc[co.job] = "none" /\ app' = "faulted" /\ UNCHANGED drain
  /\ NothingWritten
  /\ UNCHANGED <<engineVars, needsRecon, stuck>>

\* reconcileAfterLaunch turns to its final restore.
ReconcileDone ==
  /\ co.pc = "next" /\ co.mode = "reconcile" /\ co.work = {}
  /\ Proceed([co EXCEPT !.pc = "restore", !.job = 0, !.todo = Missing(jobs)])
  /\ NothingWritten
  /\ UNCHANGED <<engineVars, stuck>>

-----------------------------------------------------------------------------
(* reconcileAfterLaunch, after a launch or when the user asks to recover   *)
(* from a fault; recovery refuses when memory and files differ.            *)

\* Mutant: a job that was running is left as it is.
ReconcilableEnded == {"succeeded", "partialSuccess", "interrupted", "deliveryUnknown"}

Reconcilable == {"running", "cancelling", "succeeded", "partialSuccess",
                 "interrupted", "deliveryUnknown"}

StartReconcile ==
  /\ co.pc = "idle" /\ drain \in {"on", "over"}
  /\ \/ app = "launched"
     \/ app = "faulted" /\ jobs = saved /\ reports = savedReports
  /\ co' = [Idle EXCEPT !.pc = "next", !.mode = "reconcile",
                        !.work = {i \in DOMAIN jobs : jobs[i].state \in Reconcilable}]
  /\ NothingWritten
  /\ UNCHANGED <<engineVars, appVars, stuck>>

\* Ended jobs whose artifact was rejected before, or that have no result, are
\* left alone, and so is a success whose artifact is no longer valid.
Skips(job, a) ==
  \/ job.state \in Terminal /\ (job.error = "terminal_invalid" \/ a \notin Result)
  \/ job.state \in {"succeeded", "partialSuccess"} /\ a = "invalid"

\* The listed jobs are taken in the queue's order.
ReconcileNext ==
  /\ co.pc = "next" /\ co.work # {}
  /\ LET i    == Min(co.work)
         rest == [co EXCEPT !.work = @ \ {i}, !.job = i]
     IN  Proceed(IF Skips(jobs[i], art[i]) THEN rest
                 ELSE [rest EXCEPT !.pc = "persist", !.outcome = Resolution(jobs[i], art[i])])
  /\ NothingWritten
  /\ UNCHANGED <<engineVars, stuck>>

\* The App dies and is launched again from its files.
Crash ==
  /\ Happens("crash")
  /\ Relaunch
  /\ reports' = savedReports /\ UNCHANGED savedReports
  /\ proc' = [i \in Runs |-> IF proc[i] = "alive" THEN "orphan" ELSE proc[i]]
  /\ co' = Idle /\ app' = "launched" /\ needsRecon' = FALSE /\ stuck' = FALSE
  /\ drain' = "on"
  /\ UNCHANGED <<art, sentBy>>

-----------------------------------------------------------------------------

Request ==
  \/ \E slot \in Slots, chs \in SUBSET Channels : RequestResearch(slot, chs)
  \/ \E run \in Runs, ch \in Channels, resend, ack \in BOOLEAN :
       RequestDelivery(run, ch, resend, ack)

Execute == \/ ClaimNext \/ Admit \/ Launch \/ LaunchFails \/ Release
           \/ Finish \/ EnsureRecord \/ RecordOutcome \/ MoveJob
           \/ Restore \/ Restored \/ JobDone \/ ReconcileNext \/ ReconcileDone

Next == \/ Request \/ AskAgain \/ RejectUnconfigured \/ Execute \/ CancellationSettles
        \/ ClaimRefused \/ StopDrain \/ Engine \/ CleanupFails \/ StartReconcile \/ Crash

Spec == Init /\ [][Next]_vars

\* A drain that is on goes on while there is something to drain; an engine
\* process ends, and so does a cancellation; a launch reconciles.  A drain that
\* was refused, clients, faults and orphans owe nothing.
FairSpec == /\ Spec /\ WF_vars(Execute) /\ WF_vars(CancellationSettles)
            /\ WF_vars(app = "launched" /\ StartReconcile)

-----------------------------------------------------------------------------
(* Properties.                                                             *)

\* Type of the coordinator's state.
TypeOK ==
  /\ QueueTypeOK
  /\ reports \in [Runs -> Report] /\ savedReports \in [Runs -> Report]
  /\ art \in [Runs -> Artifact]
  /\ proc \in [Runs -> {"none", "alive", "orphan", "gone"}]
  /\ sentBy \subseteq Runs
  /\ co.pc \in {"idle", "admit", "launch", "running", "persist", "move", "restore", "next"}
  /\ co.job \in {0} \cup DOMAIN jobs
  /\ app \in {"launched", "ready", "faulted"}
  /\ needsRecon \in BOOLEAN /\ stuck \in BOOLEAN /\ drain \in Drains

\* The deliveries as the user is told about them.
VerdictOf(state) ==
  CASE state \in Active            -> "open"
    [] state = "succeeded"         -> "sent"
    [] state = "deliveryUnknown"   -> "unknown"
    [] OTHER                       -> "failed"

promised ==
  [i \in {k \in DOMAIN jobs : jobs[k].kind = "delivery"} |->
     [work      |-> <<jobs[i].target, jobs[i].channel>>,
      confirmed |-> jobs[i].allowResend \/ jobs[i].acknowledge,
      sent      |-> i \in sentBy,
      verdict   |-> VerdictOf(jobs[i].state)]]

Promise == INSTANCE DeliveryPromise WITH
             Attempts <- Runs, Works <- Runs \X Channels, attempts <- promised

\* The queue, the coordinator, crashes and surviving processes together keep
\* the delivery promise: no unconfirmed second send, no false verdict.
KeepsPromise == Promise!PromiseSpec

\* The recipient never gets a second copy the user did not confirm.
NoUnconfirmedResend == Promise!SecondSendConfirmed

\* What the user reads in the report agrees with the queue when nothing is
\* being recorded: the last attempt's success or unknown outcome is shown.
IndexAgrees ==
  app = "ready" /\ co.pc = "idle" =>
    \A i \in DOMAIN jobs :
      jobs[i].kind = "delivery" /\ Latest(i) =>
        LET shown == reports[jobs[i].target].delivery[jobs[i].channel]
        IN  /\ jobs[i].state = "succeeded" => shown = "sent"
            /\ jobs[i].state = "deliveryUnknown" => shown = "unknown"

\* A research job is only saved as succeeded when its report is saved: a
\* crash between the two files never loses a report.
ReportBeforeSuccess ==
  \A i \in DOMAIN saved :
    saved[i].kind = "research" /\ saved[i].state = "succeeded" => savedReports[i].exists

\* A channel the user turned on gets its delivery job exactly once, however
\* often the report is reconciled.
DeliveredOnce ==
  /\ \A i, k \in DOMAIN jobs :
       /\ jobs[i].kind = "delivery" /\ ~jobs[i].manual /\ ~jobs[k].manual
       /\ SameWork(jobs[i], jobs[k])
       => i = k
  /\ app = "ready" /\ co.pc = "idle" =>
       \A i \in DOMAIN jobs, ch \in Channels :
         jobs[i].kind = "research" /\ jobs[i].state = "succeeded" /\ reports[i].effective
           /\ ch \in jobs[i].requested =>
           \E k \in DOMAIN jobs : Delivers(jobs[k], i, ch)

\* In the saved index an unknown or sent delivery is only replaced by a
\* proof that it was sent, or by an attempt the user confirmed.
OutcomesProtected ==
  [][\A run \in Runs, ch \in Channels :
       LET was == savedReports[run].delivery[ch]
           is  == savedReports'[run].delivery[ch]
       IN  was \in {"unknown", "sent"} /\ is # was =>
             \/ is = "sent"
             \/ was = "unknown" /\ jobs[co.job].acknowledge
             \/ was = "sent" /\ jobs[co.job].allowResend]_savedReports

\* The drain gave up and waits to be asked for, or the App to be recovered.
Stopped == app = "faulted" \/ drain \in {"refused", "over"}

\* While writes succeed and process groups can be ended, every job the queue
\* accepted ends, across a crash at any point, unless the drain stays stopped:
\* its claim was refused while a cancellation settled, or it could not start a
\* job it had not seen, and since then nobody has asked for work or a recovery.
EveryJobEnds ==
  \A i \in Runs :
    i \in DOMAIN jobs ~> (i \in DOMAIN jobs /\ jobs[i].state \in Terminal) \/ []Stopped

=============================================================================
