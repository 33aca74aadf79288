-------------------------- MODULE ExecutionControl --------------------------
(***************************************************************************)
(* Who may run the engine, and how a running one is stopped: AppStore's    *)
(* drain task, its one-off commands (connection check, topic bootstrap,    *)
(* cover upload) and its reconciliation, the lease of EngineExecutionGate, *)
(* and the two callers that cancel, the user and Quit.                     *)
(*                                                                         *)
(* AppStore runs on the main actor: what it does between two awaits is one *)
(* step.  The gate is a lock, and the supervisor an actor: starting the    *)
(* process and looking at `shouldCancel` is one step, a cancellation comes *)
(* before or after it.                                                     *)
(*                                                                         *)
(* What a job does once it is claimed is the business of EngineCoordinator;*)
(* here it runs, it ends, or its outcome could not be written.  AppStore's *)
(* own copy of the jobs is refreshed by every step that asks for a drain,  *)
(* so the queue itself stands for it.                                      *)
(***************************************************************************)
EXTENDS Naturals, FiniteSets

CONSTANTS
  MaxJobs,      \* bound: jobs enqueued in this launch
  MaxCommands,  \* bound: one-off commands
  MaxClicks,    \* bound: cancellations by the user
  MaxFaults     \* bound: store writes that throw

ASSUME BoundsAssumption ==
  /\ MaxJobs \in Nat \ {0}
  /\ MaxCommands \in Nat /\ MaxClicks \in Nat /\ MaxFaults \in Nat

VARIABLES
  job,        \* each job's state in the queue
  asking,     \* callers that still have to ask for a drain
  store,      \* AppStore's flags
  pc,         \* what the drain task and the command are doing
  attempted,  \* drainQueue's attemptedID; 0: none
  failed,     \* drainQueue's failed
  gate,       \* EngineExecutionGate
  engine,     \* who started the living engine process
  canceller,  \* the user's and Quit's calls of cancelActiveJob
  commands, clicks, faults

drainVars == <<attempted, failed>>
counters  == <<commands, clicks, faults>>
vars == <<job, asking, store, pc, attempted, failed, gate, engine, canceller,
          commands, clicks, faults>>

Jobs == 1 .. MaxJobs
AfterLaunch == 0               \* asks once the launch is reconciled
AfterRecovery == MaxJobs + 1   \* asks once a recovery is complete
Workers == {"drain", "command"}
Pending == {j \in Jobs : job[j] = "pending"}

\* The first pending job, 0 when there is none.
First == IF Pending = {} THEN 0
         ELSE CHOOSE j \in Pending : \A k \in Pending : j <= k
Current == CHOOSE j \in Jobs : job[j] = "running"

\* The App has just begun to reconcile; a job may be left from before.
Init ==
  /\ \E old \in {{}, {1}} :
       job = [j \in Jobs |-> IF j \in old THEN "pending" ELSE "absent"]
  /\ asking = {}
  /\ store = [commandActive |-> TRUE, isEngineRunning |-> TRUE,
              cancellationRequested |-> FALSE, isShuttingDown |-> FALSE,
              requiresReconciliation |-> FALSE, scheduleFaulted |-> FALSE,
              drainRequested |-> FALSE]
  /\ pc = [drain |-> "none", command |-> "reconcile"]
  /\ attempted = 0 /\ failed = FALSE
  /\ gate = [accepting |-> TRUE, needsReconciliation |-> FALSE, lease |-> "none",
             cancelled |-> FALSE, cancelling |-> FALSE,
             releaseRequested |-> FALSE, runner |-> FALSE]
  /\ engine = "none"
  /\ canceller = [user |-> "idle", quit |-> "idle"]
  /\ commands = 0 /\ clicks = 0 /\ faults = 0

-----------------------------------------------------------------------------
(* EngineExecutionGate: one lease, each step under its lock.               *)

Refusal(reconciling) ==
  CASE ~gate.accepting                            -> "admissionStopped"
    [] gate.needsReconciliation /\ ~reconciling   -> "reconciliationRequired"
    [] gate.lease # "none"                        -> "busy"
    [] OTHER                                      -> "none"

Leased(w) == [gate EXCEPT !.lease = w, !.cancelled = FALSE, !.releaseRequested = FALSE]

\* Mutant: the lease is given back while its cancellation is under way.
ReleasedNow(g) == [g EXCEPT !.lease = "none", !.runner = FALSE]

\* A cancellation under way keeps the lease until it is over.
Released(g) == IF g.cancelling THEN [g EXCEPT !.releaseRequested = TRUE]
               ELSE [g EXCEPT !.lease = "none", !.runner = FALSE]

\* run: refused when the lease was cancelled or the App is quitting.
Refused == gate.cancelled \/ ~gate.accepting

-----------------------------------------------------------------------------
(* requestDrain: given the flags st and the program counters p.            *)

\* Mutant: a request made while a drain runs is not remembered.
ForgetfulRequestDrain(st, p) ==
  LET may == ~st.isShuttingDown /\ ~st.requiresReconciliation /\ Pending # {}
                /\ p.drain = "none"
  IN  /\ store' = IF may THEN [st EXCEPT !.drainRequested = TRUE] ELSE st
      /\ pc' = IF may /\ ~st.commandActive THEN [p EXCEPT !.drain = "created"] ELSE p

RequestDrain(st, p) ==
  LET may == ~st.isShuttingDown /\ ~st.requiresReconciliation /\ Pending # {}
  IN  /\ store' = IF may THEN [st EXCEPT !.drainRequested = TRUE] ELSE st
      /\ pc' = IF may /\ ~st.commandActive /\ p.drain = "none"
               THEN [p EXCEPT !.drain = "created"] ELSE p

\* A client enqueues a job, and later (executePendingJobs) asks for a drain.
Enqueue(j) ==
  /\ ~store.isShuttingDown /\ ~store.requiresReconciliation
  /\ job[j] = "absent" /\ \A k \in Jobs : k < j => job[k] # "absent"
  /\ job' = [job EXCEPT ![j] = "pending"]
  /\ asking' = asking \cup {j}
  /\ UNCHANGED <<store, pc, drainVars, gate, engine, canceller, counters>>

\* A recovery validates more than the queue before it asks, and may fail.
Ask ==
  /\ \E c \in asking :
       /\ asking' = asking \ {c}
       /\ IF c # AfterRecovery THEN RequestDrain(store, pc)
          ELSE \/ RequestDrain([store EXCEPT !.scheduleFaulted = FALSE], pc)
               \/ store' = [store EXCEPT !.scheduleFaulted = TRUE] /\ UNCHANGED pc
  /\ UNCHANGED <<job, drainVars, gate, engine, canceller, counters>>

-----------------------------------------------------------------------------
(* drainQueue: one lease per job.                                          *)

\* The drain task goes on at l, with the flags st.
DrainTo(l, st) == pc' = [pc EXCEPT !.drain = l] /\ store' = st

\* The drain stops and will not be requested again by itself.
DrainFails(st) == DrainTo("tail", st) /\ failed' = TRUE
Faulted == [store EXCEPT !.requiresReconciliation = TRUE, !.scheduleFaulted = TRUE]
CanFault == faults < MaxFaults /\ faults' = faults + 1

\* The drain task starts, or finds that it may not.
DrainStart ==
  /\ pc.drain = "created"
  /\ failed' = FALSE
  /\ LET st == [store EXCEPT !.drainRequested = FALSE]
     IN  IF store.isShuttingDown \/ ~gate.accepting \/ gate.needsReconciliation
         THEN DrainTo("none", [st EXCEPT !.isEngineRunning = FALSE,
                                         !.cancellationRequested = FALSE])
         ELSE DrainTo("peek", [st EXCEPT !.isEngineRunning = TRUE])
  /\ UNCHANGED <<job, asking, attempted, gate, engine, canceller, counters>>

\* The head of the loop.  Research that is not configured is cancelled.
Peek ==
  /\ pc.drain = "peek"
  /\ \/ /\ store.isShuttingDown
        /\ DrainTo("tail", store)
        /\ UNCHANGED <<job, attempted, failed, faults>>
     \/ /\ ~store.isShuttingDown
        /\ attempted' = First
        /\ \/ DrainTo("acquire", store) /\ UNCHANGED <<job, failed, faults>>
           \/ /\ First # 0
              /\ job' = [job EXCEPT ![First] = "ended"]
              /\ DrainTo("peek", store)
              /\ UNCHANGED <<failed, faults>>
           \/ First # 0 /\ CanFault /\ DrainFails(Faulted) /\ UNCHANGED job
  /\ UNCHANGED <<asking, gate, engine, canceller, commands, clicks>>

DrainAcquires ==
  /\ pc.drain = "acquire"
  /\ IF Refusal(FALSE) = "none"
     THEN gate' = Leased("drain") /\ DrainTo("claim", store) /\ UNCHANGED failed
     ELSE /\ DrainFails(IF Refusal(FALSE) = "reconciliationRequired" THEN Faulted ELSE store)
          /\ UNCHANGED gate
  /\ UNCHANGED <<job, asking, attempted, engine, canceller, counters>>

\* nextPending: nothing left, a job claimed, or the claim not written.
Claim ==
  /\ pc.drain = "claim"
  /\ \/ /\ First = 0
        /\ gate' = Released(gate) /\ DrainTo("tail", store)
        /\ UNCHANGED <<job, failed, faults>>
     \/ /\ First # 0
        /\ job' = [job EXCEPT ![First] = "running"]
        /\ DrainTo("launch", store)
        /\ UNCHANGED <<gate, failed, faults>>
     \/ /\ First # 0 /\ CanFault
        /\ gate' = Released([gate EXCEPT !.needsReconciliation = TRUE])
        /\ DrainFails(Faulted)
        /\ UNCHANGED job
  /\ UNCHANGED <<asking, attempted, engine, canceller, commands, clicks>>

\* The outcome is persisted and the lease released.  An error other than the
\* engine's own makes the drain stop unless the job it looked at has ended.
Persist ==
  /\ pc.drain \in {"refused", "finished"}
  /\ \/ /\ job' = [job EXCEPT ![Current] = "ended"]
        /\ gate' = Released(gate)
        /\ \/ /\ pc.drain = "finished" \/ attempted # 0
              /\ DrainTo("after", store) /\ UNCHANGED failed
           \/ attempted = 0 /\ DrainFails(Faulted)
        /\ UNCHANGED faults
     \/ /\ CanFault
        /\ gate' = Released([gate EXCEPT !.needsReconciliation = TRUE])
        /\ DrainFails(Faulted)
        /\ UNCHANGED job
  /\ UNCHANGED <<asking, attempted, engine, canceller, commands, clicks>>

\* The job's notification is decided, and a cancellation forgotten.
After ==
  /\ pc.drain = "after"
  /\ DrainTo("peek", [store EXCEPT !.cancellationRequested = FALSE])
  /\ UNCHANGED <<job, asking, drainVars, gate, engine, canceller, counters>>

\* The deferred exit: the flags are reset, and a drain that was requested in
\* the meantime is started unless this one failed.
DrainExit ==
  /\ pc.drain = "tail"
  /\ LET st == [store EXCEPT !.isEngineRunning = FALSE, !.cancellationRequested = FALSE]
         p  == [pc EXCEPT !.drain = "none"]
     IN  IF store.drainRequested /\ ~failed THEN RequestDrain(st, p)
         ELSE store' = st /\ pc' = p
  /\ UNCHANGED <<job, asking, drainVars, gate, engine, canceller, counters>>

-----------------------------------------------------------------------------
(* gate.run, for either worker.                                            *)

\* Admission by the gate; setting up the launch may fail as well.
Launch(w) ==
  /\ pc[w] = "launch"
  /\ \/ /\ ~Refused
        /\ gate' = [gate EXCEPT !.runner = TRUE]
        /\ pc' = [pc EXCEPT ![w] = "spawn"]
     \/ pc' = [pc EXCEPT ![w] = "refused"] /\ UNCHANGED gate
  /\ UNCHANGED <<job, asking, store, drainVars, engine, canceller, counters>>

\* Mutants: the supervisor does not look again; it looks for a cancellation
\* but not whether the App is quitting.
SpawnUnasked(w) ==
  /\ pc[w] = "spawn"
  /\ engine' = w /\ pc' = [pc EXCEPT ![w] = "running"]
  /\ UNCHANGED <<job, asking, store, drainVars, gate, canceller, counters>>

SpawnUnlessCancelled(w) ==
  /\ pc[w] = "spawn"
  /\ \/ ~gate.cancelled /\ engine' = w /\ pc' = [pc EXCEPT ![w] = "running"]
     \/ UNCHANGED engine /\ pc' = [pc EXCEPT ![w] = "refused"]
  /\ UNCHANGED <<job, asking, store, drainVars, gate, canceller, counters>>

\* The supervisor starts the process, or not.
Spawn(w) ==
  /\ pc[w] = "spawn"
  /\ \/ ~Refused /\ engine' = w /\ pc' = [pc EXCEPT ![w] = "running"]
     \/ UNCHANGED engine /\ pc' = [pc EXCEPT ![w] = "refused"]
  /\ UNCHANGED <<job, asking, store, drainVars, gate, canceller, counters>>

\* The engine ends by itself.
EngineExits ==
  /\ engine # "none"
  /\ engine' = "none"
  /\ UNCHANGED <<job, asking, store, pc, drainVars, gate, canceller, counters>>

\* gate.run returns once the process is gone.
RunReturns(w) ==
  /\ pc[w] = "running" /\ engine # w
  /\ pc' = [pc EXCEPT ![w] = "finished"]
  /\ UNCHANGED <<job, asking, store, drainVars, gate, engine, canceller, counters>>

-----------------------------------------------------------------------------
(* One-off commands and the reconciliation.                                *)

\* Mutant: a drain task does not block what the user may change.
BlockedByJobs ==
  \/ store.isShuttingDown \/ store.requiresReconciliation \/ asking # {}
  \/ \E j \in Jobs : job[j] = "running"

BehaviorChangesBlocked ==
  \/ store.isShuttingDown \/ store.requiresReconciliation \/ store.isEngineRunning
  \/ asking # {} \/ pc.drain # "none"
  \/ \E j \in Jobs : job[j] \in {"pending", "running"}

CommandTo(l, st) == pc' = [pc EXCEPT !.command = l] /\ store' = st

StartCommand ==
  /\ commands < MaxCommands /\ commands' = commands + 1
  /\ pc.command = "none" /\ ~BehaviorChangesBlocked
  /\ CommandTo("acquire", [store EXCEPT !.commandActive = TRUE, !.isEngineRunning = TRUE,
                                        !.cancellationRequested = FALSE])
  /\ UNCHANGED <<job, asking, drainVars, gate, engine, canceller, clicks, faults>>

CommandAcquires ==
  /\ pc.command = "acquire"
  /\ IF Refusal(FALSE) = "none"
     THEN gate' = Leased("command") /\ CommandTo("launch", store)
     ELSE CommandTo("finish", store) /\ UNCHANGED gate
  /\ UNCHANGED <<job, asking, drainVars, engine, canceller, counters>>

CommandReleases ==
  /\ pc.command \in {"refused", "finished"}
  /\ gate' = Released(gate)
  /\ CommandTo("finish", store)
  /\ UNCHANGED <<job, asking, drainVars, engine, canceller, counters>>

FinishCommand ==
  /\ pc.command = "finish"
  /\ RequestDrain([store EXCEPT !.commandActive = FALSE, !.isEngineRunning = FALSE,
                                !.cancellationRequested = FALSE],
                  [pc EXCEPT !.command = "none"])
  /\ UNCHANGED <<job, asking, drainVars, gate, engine, canceller, counters>>

\* recoverScheduling, when the user asks for it after a fault.
Recover ==
  /\ ~store.isShuttingDown /\ ~store.isEngineRunning
  /\ asking = {} /\ pc.drain = "none"
  /\ \/ /\ store.requiresReconciliation
        /\ CommandTo("recover", [store EXCEPT !.commandActive = TRUE, !.isEngineRunning = TRUE])
        /\ UNCHANGED asking
     \/ /\ ~store.requiresReconciliation /\ store.scheduleFaulted
        /\ asking' = {AfterRecovery}
        /\ UNCHANGED <<pc, store>>
  /\ UNCHANGED <<job, drainVars, gate, engine, canceller, counters>>

ReconcileOver(fault) ==
  CommandTo("none", [store EXCEPT !.commandActive = FALSE, !.isEngineRunning = FALSE,
                                  !.requiresReconciliation = fault])

\* reconcileAfterLaunch takes a lease even when the gate asks for it.
ReconcileAcquires ==
  /\ pc.command \in {"reconcile", "recover"}
  /\ IF Refusal(TRUE) = "none"
     THEN /\ gate' = Leased("command")
          /\ CommandTo(IF pc.command = "reconcile" THEN "reconciling" ELSE "recovering", store)
     ELSE ReconcileOver(TRUE) /\ UNCHANGED gate
  /\ UNCHANGED <<job, asking, drainVars, engine, canceller, counters>>

Reconciled == [j \in Jobs |-> IF job[j] = "running" THEN "ended" ELSE job[j]]

\* Jobs that were running end; a drain is asked for afterwards.
Reconcile ==
  /\ pc.command \in {"reconciling", "recovering"}
  /\ \/ /\ job' = Reconciled
        /\ gate' = Released([gate EXCEPT !.needsReconciliation = FALSE])
        /\ asking' = asking \cup
             {IF pc.command = "reconciling" THEN AfterLaunch ELSE AfterRecovery}
        /\ ReconcileOver(FALSE)
        /\ UNCHANGED faults
     \/ /\ CanFault
        /\ gate' = Released([gate EXCEPT !.needsReconciliation = TRUE])
        /\ ReconcileOver(TRUE)
        /\ UNCHANGED <<job, asking>>
  /\ UNCHANGED <<drainVars, engine, canceller, commands, clicks>>

-----------------------------------------------------------------------------
(* cancelActiveJob, by the user's button and by Quit.                      *)

Requested == [store EXCEPT !.cancellationRequested = TRUE]

ClickCancel ==
  /\ clicks < MaxClicks /\ clicks' = clicks + 1
  /\ canceller.user = "idle"
  /\ store.isEngineRunning /\ ~store.cancellationRequested
  /\ store' = Requested
  /\ canceller' = [canceller EXCEPT !.user = "gate"]
  /\ UNCHANGED <<job, asking, pc, drainVars, gate, engine, commands, faults>>

\* shutdown: admission ends before anything is cancelled.
Quit ==
  /\ canceller.quit = "idle"
  /\ store' = [store EXCEPT !.isShuttingDown = TRUE]
  /\ gate' = [gate EXCEPT !.accepting = FALSE]
  /\ canceller' = [canceller EXCEPT !.quit = "stopped"]
  /\ UNCHANGED <<job, asking, pc, drainVars, engine, counters>>

\* Quit cancels as the button does: not when a cancellation was requested.
QuitCancels ==
  /\ canceller.quit = "stopped"
  /\ IF store.isEngineRunning /\ ~store.cancellationRequested
     THEN store' = Requested /\ canceller' = [canceller EXCEPT !.quit = "gate"]
     ELSE UNCHANGED store /\ canceller' = [canceller EXCEPT !.quit = "await"]
  /\ UNCHANGED <<job, asking, pc, drainVars, gate, engine, counters>>

CancelDone(c) == IF c = "quit" THEN "await" ELSE "idle"

\* gate.cancel: only the current lease, and only once.
CancelLease(c) ==
  /\ canceller[c] = "gate"
  /\ IF gate.lease = "none" \/ gate.cancelled
     THEN UNCHANGED gate /\ canceller' = [canceller EXCEPT ![c] = CancelDone(c)]
     ELSE /\ gate' = [gate EXCEPT !.cancelled = TRUE, !.cancelling = gate.runner]
          /\ canceller' = [canceller EXCEPT ![c] =
                             IF gate.runner THEN "kill" ELSE CancelDone(c)]
  /\ UNCHANGED <<job, asking, store, pc, drainVars, engine, counters>>

\* supervisor.cancel ends whatever process is running.
Kill(c) ==
  /\ canceller[c] = "kill"
  /\ engine' = "none"
  /\ canceller' = [canceller EXCEPT ![c] = "settle"]
  /\ UNCHANGED <<job, asking, store, pc, drainVars, gate, counters>>

\* The cancellation is over; a lease that was given back meanwhile is free.
CancelSettles(c) ==
  /\ canceller[c] = "settle"
  /\ LET g == [gate EXCEPT !.cancelling = FALSE]
     IN  gate' = IF gate.releaseRequested THEN Released(g) ELSE g
  /\ canceller' = [canceller EXCEPT ![c] = CancelDone(c)]
  /\ UNCHANGED <<job, asking, store, pc, drainVars, engine, counters>>

\* Mutant: Quit does not wait for the drain task.
TerminateAtOnce ==
  /\ canceller.quit = "await"
  /\ canceller' = [canceller EXCEPT !.quit = "terminated"]
  /\ UNCHANGED <<job, asking, store, pc, drainVars, gate, engine, counters>>

\* Quit waits for the drain task, and the App is gone.
Terminate ==
  /\ canceller.quit = "await" /\ pc.drain = "none"
  /\ canceller' = [canceller EXCEPT !.quit = "terminated"]
  /\ UNCHANGED <<job, asking, store, pc, drainVars, gate, engine, counters>>

-----------------------------------------------------------------------------

Alive == canceller.quit # "terminated"

DrainStep == \/ DrainStart \/ Peek \/ DrainAcquires \/ Claim \/ Launch("drain")
             \/ Spawn("drain") \/ RunReturns("drain") \/ Persist \/ After \/ DrainExit

CommandStep == \/ CommandAcquires \/ Launch("command") \/ Spawn("command")
               \/ RunReturns("command") \/ CommandReleases \/ FinishCommand
               \/ ReconcileAcquires \/ Reconcile

Cancel(c) == CancelLease(c) \/ Kill(c) \/ CancelSettles(c)

UserStep == \/ \E j \in Jobs : Enqueue(j)
            \/ StartCommand \/ Recover \/ ClickCancel \/ Quit

Next ==
  /\ Alive
  /\ \/ UserStep \/ Ask \/ DrainStep \/ CommandStep \/ EngineExits
     \/ \E c \in {"user", "quit"} : Cancel(c)
     \/ QuitCancels \/ Terminate

Spec == Init /\ [][Next]_vars

\* Tasks and actors are scheduled, and an engine run is bounded; what the
\* user does owes nothing.
FairSpec ==
  /\ Spec
  /\ WF_vars(Alive /\ Ask)
  /\ WF_vars(Alive /\ DrainStep)
  /\ WF_vars(Alive /\ CommandStep)
  /\ WF_vars(Alive /\ EngineExits)
  /\ WF_vars(Alive /\ Cancel("user"))
  /\ WF_vars(Alive /\ Cancel("quit"))

-----------------------------------------------------------------------------
(* Properties.                                                             *)

\* Type of the execution state.
ControlTypeOK ==
  /\ job \in [Jobs -> {"absent", "pending", "running", "ended"}]
  /\ asking \subseteq Jobs \cup {AfterLaunch, AfterRecovery}
  /\ attempted \in 0 .. MaxJobs
  /\ failed \in BOOLEAN
  /\ gate.lease \in Workers \cup {"none"} /\ gate.cancelling \in BOOLEAN
  /\ engine \in Workers \cup {"none"}
  /\ canceller \in [{"user", "quit"} ->
                     {"idle", "stopped", "gate", "kill", "settle", "await", "terminated"}]
  /\ Cardinality({j \in Jobs : job[j] = "running"}) <= 1

\* The App shows that it is running, and lets the user cancel, whenever an
\* engine lives; that engine's starter holds the lease and is the one the
\* cancellation is sent to.
ShownWhileRunning ==
  engine # "none" =>
    /\ store.isEngineRunning
    /\ gate.lease = engine
    /\ engine = "command" <=> store.commandActive

\* Once a lease's cancellation is over its engine is not running, and is
\* never started later, wherever the launch was when it was cancelled.
CancelledNeverRuns ==
  gate.lease # "none" /\ gate.cancelled /\ ~gate.cancelling => engine # gate.lease

\* An engine that lives is under the lease of its starter: the App shows that
\* it runs and the cancellation is sent to that starter; and a lease that was
\* cancelled has no engine, now or later, wherever its launch was.
EngineUnderLease == ShownWhileRunning /\ CancelledNeverRuns

\* A cancellation that is late ends the engine it was meant for and never
\* the next one's.
CancelsOnlyItsTarget ==
  [][\A c \in {"user", "quit"} :
       canceller[c] = "kill" /\ canceller'[c] = "settle" /\ engine # "none" =>
         gate.lease = engine /\ gate.cancelled]_vars

\* No engine is started once Quit has begun.
NoLaunchAfterQuit ==
  [][engine' # engine /\ engine' # "none" => ~store.isShuttingDown]_vars

\* Quit ends the App with no job's engine alive and every job it had taken
\* settled in the queue, unless a write had failed.
QuitSettlesJobs ==
  canceller.quit = "terminated" =>
    /\ engine # "drain"
    /\ (\E j \in Jobs : job[j] = "running") => store.requiresReconciliation

\* A queued job is taken, whenever it was enqueued, as long as the App is not
\* quitting, does not need recovery, and the user has cancelled nothing.
QueuedJobsTaken ==
  \A j \in Jobs :
    job[j] = "pending" ~> \/ job[j] # "pending"
                          \/ store.isShuttingDown
                          \/ store.requiresReconciliation \/ store.scheduleFaulted
                          \/ clicks > 0

\* AppStoreTests: a job that is cancelled does not block the jobs after it.
CancelledDoesNotBlock ==
  \A j \in Jobs :
    job[j] = "pending" ~> \/ job[j] # "pending"
                          \/ store.isShuttingDown
                          \/ store.requiresReconciliation \/ store.scheduleFaulted

\* docs/macos-app.md: "Quitting cancels current work".  While Quit waits for
\* the drain's engine, that engine has been cancelled or is about to be.
QuittingCancelsCurrentWork ==
  canceller.quit = "await" /\ engine = "drain" =>
    gate.cancelled \/ canceller.user # "idle"

=============================================================================
