------------------------ MODULE ExecutionControlProofs ------------------------
(***************************************************************************)
(* Proofs about ExecutionControl, for any number of jobs, commands, clicks *)
(* and faults.                                                             *)
(***************************************************************************)
EXTENDS ExecutionControl, TLAPS, WellFoundedInduction

DrainPlace ==
  {"none", "created", "peek", "acquire", "claim", "launch", "spawn", "running", "refused",
   "finished", "after", "tail"}
CommandPlace ==
  {"none", "acquire", "launch", "spawn", "running", "refused", "finished", "finish",
   "reconcile", "reconciling", "recover", "recovering"}
CancelPlace == {"idle", "stopped", "gate", "kill", "settle", "await", "terminated"}

\* What an EXCEPT needs to know of a record is its fields.
IsStore(x) ==
  DOMAIN x = {"commandActive", "isEngineRunning", "cancellationRequested", "isShuttingDown",
              "requiresReconciliation", "scheduleFaulted", "drainRequested"}
IsGate(x) ==
  DOMAIN x = {"accepting", "needsReconciliation", "lease", "cancelled", "cancelling",
              "releaseRequested", "runner"}

JobsType ==
  /\ job \in [Jobs -> {"absent", "pending", "running", "ended"}]
  /\ asking \subseteq Jobs \cup {AfterLaunch, AfterRecovery}
  /\ attempted \in 0 .. MaxJobs /\ failed \in BOOLEAN

ControlType ==
  /\ IsStore(store) /\ IsGate(gate)
  /\ DOMAIN pc = Workers /\ pc.drain \in DrainPlace /\ pc.command \in CommandPlace
  /\ gate.lease \in Workers \cup {"none"} /\ gate.cancelling \in BOOLEAN
  /\ gate.runner \in BOOLEAN
  /\ engine \in Workers \cup {"none"}
  /\ DOMAIN canceller = {"user", "quit"}
  /\ canceller.user \in {"idle", "gate", "kill", "settle"}
  /\ canceller.quit \in CancelPlace

\* The places in which a worker holds the lease, and those in which the drain
\* task has a job in hand.
Holding(w) ==
  pc[w] \in {"claim", "launch", "spawn", "running", "refused", "finished", "reconciling",
             "recovering"}
InHand == pc.drain \in {"launch", "spawn", "running", "refused", "finished"}

\* A command and a drain do not run side by side, and the flags follow.
OneWorker ==
  /\ pc.command # "none" => pc.drain = "none" /\ store.isEngineRunning
  /\ pc.command # "none" <=> store.commandActive
  /\ pc.drain \notin {"none", "created"} => store.isEngineRunning

\* The lease is its holder's; one that was given back is free once its
\* cancellation is over.
LeaseHeld ==
  /\ \A w \in Workers : Holding(w) => gate.lease = w /\ ~gate.releaseRequested
  /\ gate.lease # "none" => Holding(gate.lease) \/ (gate.cancelling /\ gate.releaseRequested)
  /\ \A w \in Workers : pc[w] \in {"spawn", "running"} => gate.runner

\* One cancellation at a time is under way, of a lease that is still held.
Ending(c) == canceller[c] \in {"kill", "settle"}
OneCancellation ==
  /\ gate.cancelling <=> Ending("user") \/ Ending("quit")
  /\ ~(Ending("user") /\ Ending("quit"))
  /\ gate.cancelling => gate.cancelled /\ gate.lease # "none"

\* An engine that lives is its starter's, and none lives that was killed.
EngineOwned ==
  /\ engine # "none" => pc[engine] = "running"
  /\ canceller.user = "settle" \/ canceller.quit = "settle" => engine = "none"
  /\ gate.lease # "none" /\ gate.cancelled /\ ~gate.cancelling => engine = "none"

\* Quit closes the gate before anything else.
Quitting ==
  /\ store.isShuttingDown => ~gate.accepting
  /\ canceller.quit = "terminated" => pc.drain = "none"

\* A job is running while the drain task has it in hand, or until a recovery.
JobInHand ==
  /\ \A j, k \in Jobs : job[j] = "running" /\ job[k] = "running" => j = k
  /\ (\E j \in Jobs : job[j] = "running") => InHand \/ store.requiresReconciliation
  /\ InHand => \E j \in Jobs : job[j] = "running"
  /\ store.requiresReconciliation => pc.drain \in {"none", "tail"}

ControlInv ==
  /\ JobsType /\ ControlType /\ OneWorker /\ LeaseHeld /\ OneCancellation /\ EngineOwned
  /\ Quitting /\ JobInHand

-----------------------------------------------------------------------------
(* What the helpers of the steps do.                                       *)

\* EngineExecutionGate.release, during a cancellation and without one.
LEMMA ReleasedGate ==
  ASSUME NEW g, IsGate(g), g.cancelling \in BOOLEAN
  PROVE  /\ IsGate(Released(g)) /\ Released(g).cancelling = g.cancelling
         /\ Released(g).accepting = g.accepting /\ Released(g).cancelled = g.cancelled
         /\ g.cancelling => /\ Released(g).releaseRequested /\ Released(g).lease = g.lease
                            /\ Released(g).runner = g.runner
         /\ ~g.cancelling => Released(g).lease = "none" /\ Released(g).runner = FALSE
<1>1. CASE g.cancelling
  BY <1>1 DEF IsGate, Released
<1>2. CASE ~g.cancelling
  BY <1>2 DEF IsGate, Released
<1> QED BY <1>1, <1>2

\* EngineExecutionGate.acquire: a new lease begins with no cancellation of its own.
LEMMA LeasedGate ==
  ASSUME IsGate(gate), NEW w
  PROVE  /\ IsGate(Leased(w)) /\ Leased(w).lease = w /\ ~Leased(w).cancelled
         /\ ~Leased(w).releaseRequested
         /\ Leased(w).cancelling = gate.cancelling /\ Leased(w).accepting = gate.accepting
         /\ Leased(w).runner = gate.runner
BY DEF IsGate, Leased

\* AppStore.requestDrain changes the drain, and what is asked of it, only.
LEMMA DrainAskedFor ==
  ASSUME NEW st, IsStore(st), NEW p, DOMAIN p = Workers, RequestDrain(st, p)
  PROVE  /\ IsStore(store') /\ DOMAIN pc' = Workers
         /\ store'.commandActive = st.commandActive
         /\ store'.isEngineRunning = st.isEngineRunning
         /\ store'.isShuttingDown = st.isShuttingDown
         /\ store'.requiresReconciliation = st.requiresReconciliation
         /\ pc'.command = p.command
         /\ \/ pc'.drain = p.drain
            \/ /\ pc'.drain = "created" /\ p.drain = "none" /\ ~st.commandActive
               /\ ~st.isShuttingDown /\ ~st.requiresReconciliation
<1>1. store' = st \/ store' = [st EXCEPT !.drainRequested = TRUE]
  BY DEF RequestDrain
<1>2. /\ IsStore(store')
      /\ store'.commandActive = st.commandActive
      /\ store'.isEngineRunning = st.isEngineRunning
      /\ store'.isShuttingDown = st.isShuttingDown
      /\ store'.requiresReconciliation = st.requiresReconciliation
  BY <1>1 DEF IsStore
<1>3. \/ pc' = p
      \/ /\ pc' = [p EXCEPT !.drain = "created"] /\ p.drain = "none" /\ ~st.commandActive
         /\ ~st.isShuttingDown /\ ~st.requiresReconciliation
  BY DEF RequestDrain
<1>4. /\ DOMAIN pc' = Workers /\ pc'.command = p.command
      /\ \/ pc'.drain = p.drain
         \/ /\ pc'.drain = "created" /\ p.drain = "none" /\ ~st.commandActive
            /\ ~st.isShuttingDown /\ ~st.requiresReconciliation
  BY <1>3 DEF Workers
<1> QED BY <1>2, <1>4

\* A worker takes the lease that nobody holds.
LEMMA TakesLease ==
  ASSUME ControlInv, NEW w \in Workers, gate.lease = "none", gate' = Leased(w),
         pc'[w] \in {"claim", "launch", "reconciling", "recovering"},
         \A v \in Workers : v # w => pc'[v] = pc[v], UNCHANGED <<engine, canceller>>
  PROVE  /\ IsGate(gate') /\ gate'.accepting = gate.accepting
         /\ gate'.cancelling = gate.cancelling /\ gate'.lease = w /\ gate'.runner \in BOOLEAN
         /\ LeaseHeld' /\ OneCancellation' /\ EngineOwned'
<1>a. ControlType /\ LeaseHeld /\ OneCancellation /\ EngineOwned
  BY DEF ControlInv
<1>1. IsGate(gate)
  BY <1>a DEF ControlType
<1>2. /\ IsGate(gate') /\ gate'.lease = w /\ ~gate'.cancelled /\ ~gate'.releaseRequested
      /\ gate'.cancelling = gate.cancelling /\ gate'.accepting = gate.accepting
      /\ gate'.runner = gate.runner /\ gate.runner \in BOOLEAN
  BY <1>a, <1>1, LeasedGate DEF ControlType
<1>3. \A v \in Workers : ~Holding(v)
  BY <1>a DEF LeaseHeld, Workers
<1>4. engine = "none"
  BY <1>a, <1>3 DEF EngineOwned, ControlType, Holding
<1>5. ~gate.cancelling
  BY <1>a DEF OneCancellation
<1>6. LeaseHeld'
  BY <1>2, <1>3 DEF LeaseHeld, Holding
<1>7. OneCancellation'
  BY <1>a, <1>2, <1>5 DEF OneCancellation, Ending
<1>8. EngineOwned'
  BY <1>2, <1>4 DEF EngineOwned
<1> QED BY <1>2, <1>6, <1>7, <1>8

\* A worker that has no engine gives its lease back.
LEMMA GivesLeaseBack ==
  ASSUME ControlInv, NEW w \in Workers, Holding(w), pc[w] # "running",
         NEW g, g = gate \/ (\E needed : g = [gate EXCEPT !.needsReconciliation = needed]),
         gate' = Released(g), ~Holding(w)',
         \A v \in Workers : v # w => pc'[v] = pc[v], UNCHANGED <<engine, canceller>>
  PROVE  /\ IsGate(gate') /\ gate'.accepting = gate.accepting
         /\ gate'.cancelling = gate.cancelling /\ gate'.lease \in {gate.lease, "none"}
         /\ gate'.runner \in BOOLEAN
         /\ LeaseHeld' /\ OneCancellation' /\ EngineOwned'
<1>a. ControlType /\ LeaseHeld /\ OneCancellation /\ EngineOwned
  BY DEF ControlInv
<1>1. /\ IsGate(g) /\ g.cancelling \in BOOLEAN /\ g.cancelling = gate.cancelling
      /\ g.accepting = gate.accepting /\ g.cancelled = gate.cancelled /\ g.lease = gate.lease
      /\ g.runner = gate.runner /\ gate.runner \in BOOLEAN
  BY <1>a DEF ControlType, IsGate
<1>2. /\ IsGate(gate') /\ gate'.cancelling = gate.cancelling
      /\ gate'.accepting = gate.accepting /\ gate'.cancelled = gate.cancelled
      /\ gate.cancelling => gate'.releaseRequested /\ gate'.lease = gate.lease
                            /\ gate'.runner = gate.runner
      /\ ~gate.cancelling => gate'.lease = "none" /\ gate'.runner = FALSE
  BY <1>1, ReleasedGate
<1>3. gate.lease = w /\ \A v \in Workers : v # w => ~Holding(v) /\ ~Holding(v)'
  BY <1>a DEF LeaseHeld, Holding
<1>4. engine = "none"
  BY <1>a, <1>3 DEF EngineOwned, ControlType, Holding
<1>5. LeaseHeld'
  <2>1. \A v \in Workers : ~Holding(v)'
    BY <1>3
  <2> QED BY <1>2, <2>1 DEF LeaseHeld, Holding
<1>6. OneCancellation'
  BY <1>a, <1>2 DEF OneCancellation, Ending
<1>7. EngineOwned'
  BY <1>4 DEF EngineOwned
<1> QED BY <1>1, <1>2, <1>5, <1>6, <1>7

\* A step that takes no lease and gives none back, starts and ends nothing,
\* and has no job to do with.
LEMMA Turns ==
  ASSUME ControlInv, JobsType', UNCHANGED <<job, gate, engine, canceller>>,
         IsStore(store'), DOMAIN pc' = Workers, OneWorker',
         store'.isShuttingDown = store.isShuttingDown,
         store'.requiresReconciliation = store.requiresReconciliation,
         \/ pc'.command = pc.command
         \/ /\ pc.command \in {"none", "finish", "acquire", "reconcile", "recover"}
            /\ pc'.command \in {"none", "finish", "acquire", "recover"},
         \/ pc'.drain = pc.drain
         \/ /\ pc.drain \in {"none", "created", "after", "tail", "peek"}
            /\ pc'.drain \in {"none", "created", "peek", "tail", "acquire"}
            /\ store.requiresReconciliation => pc'.drain \in {"none", "tail"}
            /\ canceller.quit = "terminated" => pc'.drain = "none"
  PROVE  ControlInv'
<1>a. ControlType /\ LeaseHeld /\ OneCancellation /\ EngineOwned /\ Quitting /\ JobInHand
  BY DEF ControlInv
<1>1. ControlType'
  BY <1>a DEF ControlType, DrainPlace, CommandPlace
<1>2. \A w \in Workers : /\ Holding(w)' <=> Holding(w)
                         /\ pc'[w] \in {"spawn", "running"} <=> pc[w] \in {"spawn", "running"}
                         /\ pc'[w] = "running" <=> pc[w] = "running"
  BY DEF Holding, Workers
<1>3. LeaseHeld' /\ EngineOwned'
  BY <1>a, <1>2 DEF LeaseHeld, EngineOwned, ControlType
<1>4. OneCancellation' /\ Quitting'
  BY <1>a DEF OneCancellation, Ending, Quitting
<1>5. JobInHand'
  BY <1>a DEF JobInHand, InHand
<1> QED BY <1>1, <1>3, <1>4, <1>5 DEF ControlInv

\* Who asks for a drain starts at most one that may run.
LEMMA AskPreserves ==
  ASSUME ControlInv, Alive, Ask \/ FinishCommand \/ DrainExit
  PROVE  ControlInv'
<1>a. JobsType /\ ControlType /\ OneWorker
  BY DEF ControlInv
<1>b. canceller.quit # "terminated" /\ IsStore(store) /\ DOMAIN pc = Workers
  BY <1>a DEF Alive, ControlType
<1>c. UNCHANGED <<job, drainVars, gate, engine, canceller>> /\ asking' \subseteq asking
  BY DEF Ask, FinishCommand, DrainExit
<1>d. JobsType'
  BY <1>a, <1>c DEF JobsType, drainVars
<1>1. CASE Ask
  <2>1. \/ \E st : /\ st = store \/ st = [store EXCEPT !.scheduleFaulted = FALSE]
                   /\ RequestDrain(st, pc)
        \/ store' = [store EXCEPT !.scheduleFaulted = TRUE] /\ UNCHANGED pc
    BY <1>1 DEF Ask
  <2>2. /\ IsStore(store') /\ DOMAIN pc' = Workers
        /\ store'.commandActive = store.commandActive
        /\ store'.isEngineRunning = store.isEngineRunning
        /\ store'.isShuttingDown = store.isShuttingDown
        /\ store'.requiresReconciliation = store.requiresReconciliation
        /\ pc'.command = pc.command
        /\ \/ pc'.drain = pc.drain
           \/ /\ pc'.drain = "created" /\ pc.drain = "none" /\ ~store.commandActive
              /\ ~store.requiresReconciliation
    <3>1. ASSUME NEW st, st = store \/ st = [store EXCEPT !.scheduleFaulted = FALSE],
                 RequestDrain(st, pc)
          PROVE  <2>2
      <4>1. /\ IsStore(st) /\ st.commandActive = store.commandActive
            /\ st.isEngineRunning = store.isEngineRunning
            /\ st.isShuttingDown = store.isShuttingDown
            /\ st.requiresReconciliation = store.requiresReconciliation
        BY <1>b, <3>1 DEF IsStore
      <4> QED BY <1>b, <3>1, <4>1, DrainAskedFor
    <3>2. CASE store' = [store EXCEPT !.scheduleFaulted = TRUE] /\ UNCHANGED pc
      BY <1>b, <3>2 DEF IsStore
    <3> QED BY <2>1, <3>1, <3>2
  <2>3. OneWorker'
    BY <1>a, <2>2 DEF OneWorker
  <2> QED BY <1>b, <1>c, <1>d, <2>2, <2>3, Turns
<1>2. CASE FinishCommand
  <2> DEFINE st == [store EXCEPT !.commandActive = FALSE, !.isEngineRunning = FALSE,
                                 !.cancellationRequested = FALSE]
  <2> DEFINE p == [pc EXCEPT !.command = "none"]
  <2>1. RequestDrain(st, p) /\ pc.command = "finish"
    BY <1>2 DEF FinishCommand
  <2>2. /\ IsStore(st) /\ ~st.commandActive
        /\ st.isShuttingDown = store.isShuttingDown
        /\ st.requiresReconciliation = store.requiresReconciliation
    BY <1>b DEF IsStore
  <2>3. DOMAIN p = Workers /\ p.command = "none" /\ p.drain = pc.drain
    BY <1>b DEF Workers
  <2> HIDE DEF st, p
  <2>4. pc.drain = "none"
    BY <1>a, <2>1 DEF OneWorker
  <2>5. /\ IsStore(store') /\ DOMAIN pc' = Workers /\ ~store'.commandActive
        /\ store'.isShuttingDown = store.isShuttingDown
        /\ store'.requiresReconciliation = store.requiresReconciliation
        /\ pc'.command = "none"
        /\ pc'.drain = "none" \/ (pc'.drain = "created" /\ ~store.requiresReconciliation)
    BY <2>1, <2>2, <2>3, <2>4, DrainAskedFor
  <2>6. OneWorker'
    BY <2>5 DEF OneWorker
  <2> QED BY <1>b, <1>c, <1>d, <2>1, <2>4, <2>5, <2>6, Turns
<1>3. CASE DrainExit
  <2> DEFINE st == [store EXCEPT !.isEngineRunning = FALSE, !.cancellationRequested = FALSE]
  <2> DEFINE p == [pc EXCEPT !.drain = "none"]
  <2>1. pc.drain = "tail" /\ (RequestDrain(st, p) \/ (store' = st /\ pc' = p))
    BY <1>3 DEF DrainExit
  <2>2. /\ IsStore(st) /\ st.commandActive = store.commandActive
        /\ st.isShuttingDown = store.isShuttingDown
        /\ st.requiresReconciliation = store.requiresReconciliation
    BY <1>b DEF IsStore
  <2>3. DOMAIN p = Workers /\ p.command = pc.command /\ p.drain = "none"
    BY <1>b DEF Workers
  <2> HIDE DEF st, p
  <2>4. pc.command = "none"
    BY <1>a, <2>1 DEF OneWorker
  <2>5. /\ IsStore(store') /\ DOMAIN pc' = Workers /\ store'.commandActive = store.commandActive
        /\ store'.isShuttingDown = store.isShuttingDown
        /\ store'.requiresReconciliation = store.requiresReconciliation
        /\ pc'.command = "none"
        /\ pc'.drain = "none" \/ (pc'.drain = "created" /\ ~store.requiresReconciliation)
    BY <2>1, <2>2, <2>3, <2>4, DrainAskedFor
  <2>6. OneWorker'
    BY <1>a, <2>4, <2>5 DEF OneWorker
  <2> QED BY <1>b, <1>c, <1>d, <2>1, <2>4, <2>5, <2>6, Turns
<1> QED BY <1>1, <1>2, <1>3

\* The user enqueues a job, starts a command or a recovery, cancels, quits.
LEMMA UserPreserves ==
  ASSUME ControlInv, UserStep
  PROVE  ControlInv'
<1>a. /\ JobsType /\ ControlType /\ OneWorker /\ LeaseHeld /\ OneCancellation /\ EngineOwned
      /\ Quitting /\ JobInHand
  BY DEF ControlInv
<1>b. IsStore(store) /\ DOMAIN pc = Workers
  BY <1>a DEF ControlType
<1>1. ASSUME NEW j \in Jobs, Enqueue(j) PROVE ControlInv'
  <2>1. JobsType'
    BY <1>a, <1>1 DEF Enqueue, JobsType, drainVars
  <2>2. JobInHand'
    BY <1>a, <1>1 DEF Enqueue, JobsType, JobInHand, InHand
  <2>3. /\ ControlType' /\ OneWorker' /\ LeaseHeld' /\ OneCancellation' /\ EngineOwned'
        /\ Quitting'
    BY <1>a, <1>1 DEF Enqueue, ControlType, OneWorker, LeaseHeld, OneCancellation, EngineOwned,
       Quitting, Holding, Ending
  <2> QED BY <2>1, <2>2, <2>3 DEF ControlInv
<1>2. CASE StartCommand
  <2>1. /\ UNCHANGED <<job, asking, attempted, failed, gate, engine, canceller>>
        /\ pc.command = "none" /\ pc.drain = "none" /\ pc' = [pc EXCEPT !.command = "acquire"]
        /\ store' = [store EXCEPT !.commandActive = TRUE, !.isEngineRunning = TRUE,
                                  !.cancellationRequested = FALSE]
    BY <1>2 DEF StartCommand, BehaviorChangesBlocked, CommandTo, drainVars
  <2>2. /\ IsStore(store') /\ store'.commandActive /\ store'.isEngineRunning
        /\ store'.isShuttingDown = store.isShuttingDown
        /\ store'.requiresReconciliation = store.requiresReconciliation
    BY <1>b, <2>1 DEF IsStore
  <2>3. DOMAIN pc' = Workers /\ pc'.command = "acquire" /\ pc'.drain = "none"
    BY <1>b, <2>1 DEF Workers
  <2>4. JobsType' /\ OneWorker'
    BY <1>a, <2>1, <2>2, <2>3 DEF JobsType, OneWorker
  <2> QED BY <2>1, <2>2, <2>3, <2>4, Turns
<1>3. CASE Recover
  <2>1. CASE /\ CommandTo("recover", [store EXCEPT !.commandActive = TRUE,
                                                   !.isEngineRunning = TRUE])
             /\ UNCHANGED asking
    <3>1. /\ UNCHANGED <<job, asking, attempted, failed, gate, engine, canceller>>
          /\ pc.drain = "none" /\ pc' = [pc EXCEPT !.command = "recover"]
          /\ store' = [store EXCEPT !.commandActive = TRUE, !.isEngineRunning = TRUE]
          /\ ~store.isEngineRunning
      BY <1>3, <2>1 DEF Recover, CommandTo, drainVars
    <3>2. /\ IsStore(store') /\ store'.commandActive /\ store'.isEngineRunning
          /\ store'.isShuttingDown = store.isShuttingDown
          /\ store'.requiresReconciliation = store.requiresReconciliation
      BY <1>b, <3>1 DEF IsStore
    <3>3. /\ DOMAIN pc' = Workers /\ pc'.command = "recover" /\ pc'.drain = "none"
          /\ pc.command = "none"
      BY <1>a, <1>b, <3>1 DEF Workers, OneWorker
    <3>4. JobsType' /\ OneWorker'
      BY <1>a, <3>1, <3>2, <3>3 DEF JobsType, OneWorker
    <3> QED BY <3>1, <3>2, <3>3, <3>4, Turns
  <2>2. CASE asking' = {AfterRecovery} /\ UNCHANGED <<pc, store>>
    <3>1. UNCHANGED <<job, attempted, failed, gate, engine, canceller, pc, store>>
      BY <1>3, <2>2 DEF Recover, drainVars
    <3>2. JobsType' /\ OneWorker'
      BY <1>a, <2>2, <3>1 DEF JobsType, OneWorker
    <3> QED BY <1>b, <3>1, <3>2, Turns
  <2> QED BY <1>3, <2>1, <2>2 DEF Recover
<1>4. CASE ClickCancel
  <2>1. JobsType' /\ JobInHand'
    BY <1>a, <1>4 DEF ClickCancel, Requested, JobsType, JobInHand, InHand, ControlType, IsStore,
       drainVars
  <2>2. /\ ControlType' /\ OneWorker' /\ LeaseHeld' /\ OneCancellation' /\ EngineOwned'
        /\ Quitting'
    BY <1>a, <1>4 DEF ClickCancel, Requested, ControlType, OneWorker, LeaseHeld, OneCancellation,
       EngineOwned, Quitting, Holding, Ending, IsStore
  <2> QED BY <2>1, <2>2 DEF ControlInv
<1>5. CASE Quit
  <2>1. JobsType' /\ JobInHand'
    BY <1>a, <1>5 DEF Quit, JobsType, JobInHand, InHand, ControlType, IsStore, drainVars
  <2>2. /\ ControlType' /\ OneWorker' /\ LeaseHeld' /\ OneCancellation' /\ EngineOwned'
        /\ Quitting'
    BY <1>a, <1>5 DEF Quit, ControlType, OneWorker, LeaseHeld, OneCancellation,
       EngineOwned, Quitting, Holding, Ending, IsStore, IsGate, CancelPlace
  <2> QED BY <2>1, <2>2 DEF ControlInv
<1> QED BY <1>1, <1>2, <1>3, <1>4, <1>5 DEF UserStep

\* A non-empty set of naturals has a least element.
LEMMA LeastJob ==
  ASSUME NEW T \in SUBSET Nat, T # {}
  PROVE  \E m \in T : \A n \in T : m <= n
<1>1. IsWellFoundedOn(OpToRel(<, Nat), Nat)
  BY NatLessThanWellFounded
<1>2. PICK m \in T : \A n \in T : <<n, m>> \notin OpToRel(<, Nat)
  BY <1>1, WFMin
<1>3. \A n \in T : n \in Nat /\ m \in Nat /\ ~(n < m)
  BY <1>2 DEF OpToRel
<1> QED BY <1>3

\* The job the drain looks at, if any, is a pending one.
LEMMA FirstIsPending ==
  First \in 0 .. MaxJobs /\ (First # 0 => First \in Jobs /\ job[First] = "pending")
<1>1. CASE Pending = {}
  BY <1>1, BoundsAssumption DEF First
<1>2. CASE Pending # {}
  <2>1. Pending \in SUBSET Nat /\ Pending \subseteq Jobs
    BY DEF Pending, Jobs
  <2>2. \E j \in Pending : \A k \in Pending : j <= k
    BY <1>2, <2>1, LeastJob
  <2>3. First \in Pending
    BY <1>2, <2>2 DEF First
  <2> QED BY <2>1, <2>3, BoundsAssumption DEF Pending, Jobs
<1> QED BY <1>1, <1>2

\* The drain takes one job after the other.
LEMMA DrainPreserves ==
  ASSUME ControlInv, Alive,
         DrainStart \/ Peek \/ DrainAcquires \/ Claim \/ Persist \/ After
  PROVE  ControlInv'
<1>a. /\ JobsType /\ ControlType /\ OneWorker /\ LeaseHeld /\ OneCancellation /\ EngineOwned
      /\ Quitting /\ JobInHand
  BY DEF ControlInv
<1>b. IsStore(store) /\ DOMAIN pc = Workers /\ canceller.quit # "terminated"
  BY <1>a DEF ControlType, Alive
<1>c. UNCHANGED <<asking, engine, canceller>>
  BY DEF DrainStart, Peek, DrainAcquires, Claim, Persist, After, drainVars
<1>d. ASSUME NEW l, pc' = [pc EXCEPT !.drain = l]
      PROVE  DOMAIN pc' = Workers /\ pc'.drain = l /\ pc'.command = pc.command
  BY <1>b, <1>d DEF Workers
<1>e. ASSUME NEW st, st = store \/ st = Faulted, store' = st
      PROVE  /\ IsStore(store') /\ store'.commandActive = store.commandActive
             /\ store'.isEngineRunning = store.isEngineRunning
             /\ store'.isShuttingDown = store.isShuttingDown
             /\ st = store => store'.requiresReconciliation = store.requiresReconciliation
             /\ st = Faulted => store'.requiresReconciliation
  BY <1>b, <1>e DEF Faulted, IsStore
<1>f. First \in 0 .. MaxJobs /\ (First # 0 => First \in Jobs /\ job[First] = "pending")
  BY FirstIsPending
<1>1. CASE DrainStart
  <2>1. /\ UNCHANGED <<job, asking, attempted, gate, engine, canceller>> /\ failed' = FALSE
        /\ pc.drain = "created"
        /\ \/ /\ pc' = [pc EXCEPT !.drain = "none"]
              /\ store' = [[store EXCEPT !.drainRequested = FALSE]
                             EXCEPT !.isEngineRunning = FALSE, !.cancellationRequested = FALSE]
           \/ /\ pc' = [pc EXCEPT !.drain = "peek"]
              /\ store' = [[store EXCEPT !.drainRequested = FALSE]
                             EXCEPT !.isEngineRunning = TRUE]
    BY <1>1 DEF DrainStart, DrainTo
  <2>2. /\ IsStore(store') /\ store'.commandActive = store.commandActive
        /\ store'.isShuttingDown = store.isShuttingDown
        /\ store'.requiresReconciliation = store.requiresReconciliation
        /\ pc'.drain = "peek" => store'.isEngineRunning
    BY <1>b, <1>d, <2>1 DEF IsStore
  <2>3. DOMAIN pc' = Workers /\ pc'.drain \in {"none", "peek"} /\ pc'.command = pc.command
    BY <1>b, <1>d, <2>1
  <2>4. pc.command = "none" /\ ~store.requiresReconciliation
    BY <1>a, <2>1 DEF OneWorker, JobInHand
  <2>5. JobsType' /\ OneWorker'
    BY <1>a, <2>1, <2>2, <2>3, <2>4 DEF JobsType, OneWorker
  <2> QED BY <1>b, <2>1, <2>2, <2>3, <2>4, <2>5, Turns
<1>2. CASE Peek
  <2>0. UNCHANGED gate /\ pc.drain = "peek"
    BY <1>2 DEF Peek
  <2>1. /\ DOMAIN pc' = Workers /\ pc'.command = pc.command
        /\ pc'.drain \in {"tail", "acquire", "peek"}
        /\ IsStore(store') /\ store'.commandActive = store.commandActive
        /\ store'.isEngineRunning = store.isEngineRunning
        /\ store'.isShuttingDown = store.isShuttingDown
        /\ \/ store'.requiresReconciliation = store.requiresReconciliation
           \/ store'.requiresReconciliation /\ pc'.drain = "tail"
    BY <1>2, <1>d, <1>e DEF Peek, DrainTo, DrainFails
  <2>2. \/ UNCHANGED job
        \/ First # 0 /\ job' = [job EXCEPT ![First] = "ended"]
    BY <1>2 DEF Peek
  <2>3. attempted' \in 0 .. MaxJobs /\ failed' \in BOOLEAN
    BY <1>2, <1>a, <1>f DEF Peek, DrainFails, JobsType
  <2>4. JobsType'
    BY <1>a, <1>c, <1>f, <2>2, <2>3 DEF JobsType
  <2>5. OneWorker' /\ Quitting' /\ OneCancellation' /\ ControlType'
    BY <1>a, <1>b, <1>c, <2>0, <2>1
       DEF OneWorker, Quitting, OneCancellation, Ending, ControlType, DrainPlace
  <2>6. LeaseHeld' /\ EngineOwned'
    BY <1>a, <1>c, <2>0, <2>1 DEF LeaseHeld, EngineOwned, Holding, ControlType, Workers
  <2>7. JobInHand'
    <3>1. \A j \in Jobs : job'[j] = "running" => job[j] = "running"
      BY <1>a, <1>f, <2>2 DEF JobsType
    <3> QED BY <1>a, <2>0, <2>1, <3>1 DEF JobInHand, InHand
  <2> QED BY <2>4, <2>5, <2>6, <2>7 DEF ControlInv
<1>3. CASE DrainAcquires
  <2>0. UNCHANGED <<job, attempted>> /\ pc.drain = "acquire"
    BY <1>3 DEF DrainAcquires
  <2>1. CASE Refusal(FALSE) = "none"
    <3>1. /\ gate' = Leased("drain") /\ pc' = [pc EXCEPT !.drain = "claim"] /\ store' = store
          /\ UNCHANGED failed
      BY <1>3, <2>1 DEF DrainAcquires, DrainTo
    <3>2. gate.lease = "none"
      BY <2>1 DEF Refusal
    <3>3. DOMAIN pc' = Workers /\ pc'.drain = "claim" /\ pc'.command = pc.command
      BY <1>d, <3>1
    <3>4. /\ IsGate(gate') /\ gate'.accepting = gate.accepting
          /\ gate'.cancelling = gate.cancelling /\ gate'.lease = "drain"
          /\ gate'.runner \in BOOLEAN
          /\ LeaseHeld' /\ OneCancellation' /\ EngineOwned'
      BY <1>c, <3>1, <3>2, <3>3, TakesLease DEF Workers
    <3>5. JobsType' /\ JobInHand'
      BY <1>a, <1>c, <2>0, <3>1, <3>3 DEF JobsType, JobInHand, InHand
    <3>6. ControlType' /\ OneWorker' /\ Quitting'
      BY <1>a, <1>b, <1>c, <2>0, <3>1, <3>3, <3>4
         DEF ControlType, OneWorker, Quitting, DrainPlace, Workers
    <3> QED BY <3>4, <3>5, <3>6 DEF ControlInv
  <2>2. CASE Refusal(FALSE) # "none"
    <3>1. /\ \E st \in {store, Faulted} : store' = st
          /\ pc' = [pc EXCEPT !.drain = "tail"] /\ failed' = TRUE /\ UNCHANGED gate
      BY <1>3, <2>2 DEF DrainAcquires, DrainFails, DrainTo
    <3>2. /\ IsStore(store') /\ store'.commandActive = store.commandActive
          /\ store'.isEngineRunning = store.isEngineRunning
          /\ store'.isShuttingDown = store.isShuttingDown
          /\ store.requiresReconciliation => store'.requiresReconciliation
      BY <1>e, <3>1
    <3>3. DOMAIN pc' = Workers /\ pc'.drain = "tail" /\ pc'.command = pc.command
      BY <1>d, <3>1
    <3>4. JobsType' /\ JobInHand'
      BY <1>a, <1>c, <2>0, <3>1, <3>2, <3>3 DEF JobsType, JobInHand, InHand
    <3>5. ControlType' /\ OneWorker' /\ Quitting' /\ OneCancellation'
      BY <1>a, <1>b, <1>c, <2>0, <3>1, <3>2, <3>3
         DEF ControlType, OneWorker, Quitting, OneCancellation, Ending, DrainPlace
    <3>6. LeaseHeld' /\ EngineOwned'
      BY <1>a, <1>c, <2>0, <3>1, <3>3 DEF LeaseHeld, EngineOwned, Holding, ControlType, Workers
    <3> QED BY <3>4, <3>5, <3>6 DEF ControlInv
  <2> QED BY <2>1, <2>2
<1>4. CASE After
  <2>1. /\ UNCHANGED <<job, asking, attempted, failed, gate, engine, canceller>>
        /\ pc.drain = "after" /\ pc' = [pc EXCEPT !.drain = "peek"]
        /\ store' = [store EXCEPT !.cancellationRequested = FALSE]
    BY <1>4 DEF After, DrainTo, drainVars
  <2>2. /\ IsStore(store') /\ store'.commandActive = store.commandActive
        /\ store'.isEngineRunning = store.isEngineRunning
        /\ store'.isShuttingDown = store.isShuttingDown
        /\ store'.requiresReconciliation = store.requiresReconciliation
    BY <1>b, <2>1 DEF IsStore
  <2>3. DOMAIN pc' = Workers /\ pc'.drain = "peek" /\ pc'.command = pc.command
    BY <1>d, <2>1
  <2>4. ~store.requiresReconciliation
    BY <1>a, <2>1 DEF JobInHand
  <2>5. JobsType' /\ OneWorker'
    BY <1>a, <2>1, <2>2, <2>3 DEF JobsType, OneWorker
  <2> QED BY <1>b, <2>1, <2>2, <2>3, <2>4, <2>5, Turns
\* The lease goes back with a job that ends, or with none that was claimed.
<1>5. ASSUME NEW l \in {"tail", "after"}, pc' = [pc EXCEPT !.drain = l],
             NEW st \in {store, Faulted}, store' = st,
             NEW g, g = gate \/ (\E needed : g = [gate EXCEPT !.needsReconciliation = needed]),
             gate' = Released(g), failed' \in BOOLEAN, UNCHANGED attempted,
             pc.drain \in {"claim", "refused", "finished"},
             \/ UNCHANGED job /\ (st = Faulted \/ pc.drain = "claim")
             \/ InHand /\ job' = [job EXCEPT ![Current] = "ended"],
             l = "after" => st = store
      PROVE  ControlInv'
  <2>1. DOMAIN pc' = Workers /\ pc'.drain = l /\ pc'.command = pc.command
    BY <1>d, <1>5
  <2>2. /\ IsStore(store') /\ store'.commandActive = store.commandActive
        /\ store'.isEngineRunning = store.isEngineRunning
        /\ store'.isShuttingDown = store.isShuttingDown
        /\ st = store => store'.requiresReconciliation = store.requiresReconciliation
        /\ st = Faulted => store'.requiresReconciliation
    BY <1>e, <1>5
  <2>3. /\ "drain" \in Workers /\ Holding("drain") /\ ~Holding("drain")'
        /\ pc["drain"] # "running" /\ \A v \in Workers : v # "drain" => pc'[v] = pc[v]
    BY <1>5, <2>1 DEF Workers, Holding
  <2>4. /\ IsGate(gate') /\ gate'.accepting = gate.accepting
        /\ gate'.cancelling = gate.cancelling /\ gate'.lease \in {gate.lease, "none"}
        /\ gate'.runner \in BOOLEAN
        /\ LeaseHeld' /\ OneCancellation' /\ EngineOwned'
    BY <1>5, <1>c, <2>3, GivesLeaseBack
  <2>5. ControlType' /\ OneWorker' /\ Quitting'
    BY <1>a, <1>b, <1>c, <1>5, <2>1, <2>2, <2>4
       DEF ControlType, OneWorker, Quitting, DrainPlace, Workers
  <2>6. JobsType' /\ JobInHand'
    <3>1. CASE UNCHANGED job /\ (st = Faulted \/ pc.drain = "claim")
      BY <1>a, <1>c, <1>5, <2>1, <2>2, <3>1 DEF JobsType, JobInHand, InHand
    <3>2. CASE InHand /\ job' = [job EXCEPT ![Current] = "ended"]
      <4>1. Current \in Jobs /\ job[Current] = "running"
        BY <1>a, <3>2 DEF JobInHand, Current
      <4>2. \A j \in Jobs : job'[j] # "running"
        BY <1>a, <3>2, <4>1 DEF JobInHand, JobsType
      <4>3. JobsType'
        BY <1>a, <1>c, <1>5, <3>2, <4>1 DEF JobsType
      <4>4. ~store.requiresReconciliation
        BY <1>a, <1>5 DEF JobInHand
      <4> QED BY <1>5, <2>1, <2>2, <4>2, <4>3, <4>4 DEF JobInHand, InHand
    <3> QED BY <1>5, <3>1, <3>2
  <2> QED BY <2>4, <2>5, <2>6 DEF ControlInv
<1>6. CASE Claim
  <2>1. CASE First = 0 /\ gate' = Released(gate) /\ DrainTo("tail", store)
               /\ UNCHANGED <<job, failed>>
    BY <1>5, <1>6, <1>a, <2>1 DEF Claim, DrainTo, JobsType
  <2>2. CASE First # 0 /\ job' = [job EXCEPT ![First] = "running"]
               /\ DrainTo("launch", store) /\ UNCHANGED <<gate, failed>>
    <3>1. /\ pc.drain = "claim" /\ pc' = [pc EXCEPT !.drain = "launch"] /\ store' = store
          /\ UNCHANGED <<attempted, gate, failed>>
      BY <1>6, <2>2 DEF Claim, DrainTo
    <3>2. DOMAIN pc' = Workers /\ pc'.drain = "launch" /\ pc'.command = pc.command
      BY <1>d, <3>1
    <3>3. ~store.requiresReconciliation /\ \A j \in Jobs : job[j] # "running"
      BY <1>a, <3>1 DEF JobInHand, InHand
    <3>4. JobsType' /\ JobInHand'
      BY <1>a, <1>c, <1>f, <2>2, <3>1, <3>2, <3>3 DEF JobsType, JobInHand, InHand
    <3>5. ControlType' /\ OneWorker' /\ Quitting' /\ OneCancellation'
      BY <1>a, <1>b, <1>c, <3>1, <3>2
         DEF ControlType, OneWorker, Quitting, OneCancellation, Ending, DrainPlace
    <3>6. LeaseHeld' /\ EngineOwned'
      BY <1>a, <1>c, <3>1, <3>2 DEF LeaseHeld, EngineOwned, Holding, ControlType, Workers
    <3> QED BY <3>4, <3>5, <3>6 DEF ControlInv
  <2>3. CASE gate' = Released([gate EXCEPT !.needsReconciliation = TRUE])
               /\ DrainFails(Faulted) /\ UNCHANGED job
    BY <1>5, <1>6, <2>3 DEF Claim, DrainFails, DrainTo
  <2> QED BY <1>6, <2>1, <2>2, <2>3 DEF Claim
<1>7. CASE Persist
  <2>1. InHand /\ pc.drain \in {"refused", "finished"} /\ UNCHANGED attempted
    BY <1>7 DEF Persist, InHand
  <2>2. CASE /\ job' = [job EXCEPT ![Current] = "ended"] /\ gate' = Released(gate)
             /\ \/ DrainTo("after", store) /\ UNCHANGED failed
                \/ DrainFails(Faulted)
    <3>1. CASE DrainTo("after", store) /\ UNCHANGED failed
      BY <1>5, <1>a, <2>1, <2>2, <3>1 DEF DrainTo, JobsType
    <3>2. CASE DrainFails(Faulted)
      BY <1>5, <2>1, <2>2, <3>2 DEF DrainFails, DrainTo
    <3> QED BY <2>2, <3>1, <3>2
  <2>3. CASE gate' = Released([gate EXCEPT !.needsReconciliation = TRUE])
               /\ DrainFails(Faulted) /\ UNCHANGED job
    BY <1>5, <2>1, <2>3 DEF DrainFails, DrainTo
  <2> QED BY <1>7, <2>2, <2>3 DEF Persist
<1> QED BY <1>1, <1>2, <1>3, <1>4, <1>6, <1>7

\* A worker's run of the engine.
LEMMA RunPreserves ==
  ASSUME ControlInv,
         EngineExits \/ \E w \in Workers : Launch(w) \/ Spawn(w) \/ RunReturns(w)
  PROVE  ControlInv'
<1>a. /\ JobsType /\ ControlType /\ OneWorker /\ LeaseHeld /\ OneCancellation /\ EngineOwned
      /\ Quitting /\ JobInHand
  BY DEF ControlInv
<1>1. ASSUME NEW w \in Workers, Launch(w) PROVE ControlInv'
  <2>1. JobsType' /\ JobInHand'
    BY <1>a, <1>1 DEF Launch, JobsType, JobInHand, InHand, ControlType, Workers, drainVars
  <2>2. ControlType' /\ OneWorker' /\ Quitting'
    BY <1>a, <1>1 DEF Launch, ControlType, OneWorker, Quitting, DrainPlace, CommandPlace,
       Workers, IsGate
  <2>3. LeaseHeld' /\ OneCancellation' /\ EngineOwned'
    BY <1>a, <1>1 DEF Launch, ControlType, LeaseHeld, OneCancellation, EngineOwned, Holding,
       Ending, Workers, IsGate
  <2> QED BY <2>1, <2>2, <2>3 DEF ControlInv
<1>2. ASSUME NEW w \in Workers, Spawn(w) PROVE ControlInv'
  <2>1. JobsType' /\ JobInHand'
    BY <1>a, <1>2 DEF Spawn, JobsType, JobInHand, InHand, ControlType, Workers, drainVars
  <2>2. ControlType' /\ OneWorker' /\ Quitting'
    BY <1>a, <1>2 DEF Spawn, ControlType, OneWorker, Quitting, DrainPlace, CommandPlace, Workers
  <2>3. LeaseHeld' /\ OneCancellation' /\ EngineOwned'
    BY <1>a, <1>2 DEF Spawn, Refused, ControlType, LeaseHeld, OneCancellation, EngineOwned,
       Holding, Ending, Workers
  <2> QED BY <2>1, <2>2, <2>3 DEF ControlInv
<1>3. ASSUME NEW w \in Workers, RunReturns(w) PROVE ControlInv'
  <2>1. JobsType' /\ JobInHand'
    BY <1>a, <1>3 DEF RunReturns, JobsType, JobInHand, InHand, ControlType, Workers, drainVars
  <2>2. ControlType' /\ OneWorker' /\ Quitting'
    BY <1>a, <1>3 DEF RunReturns, ControlType, OneWorker, Quitting, DrainPlace, CommandPlace,
       Workers
  <2>3. LeaseHeld' /\ OneCancellation' /\ EngineOwned'
    BY <1>a, <1>3 DEF RunReturns, ControlType, LeaseHeld, OneCancellation, EngineOwned,
       Holding, Ending, Workers
  <2> QED BY <2>1, <2>2, <2>3 DEF ControlInv
<1>4. CASE EngineExits
  <2>1. JobsType' /\ JobInHand' /\ ControlType' /\ OneWorker' /\ Quitting'
    BY <1>a, <1>4 DEF EngineExits, JobsType, JobInHand, InHand, ControlType, OneWorker, Quitting,
       drainVars
  <2>2. LeaseHeld' /\ OneCancellation' /\ EngineOwned'
    BY <1>a, <1>4 DEF EngineExits, LeaseHeld, OneCancellation, EngineOwned, Holding, Ending
  <2> QED BY <2>1, <2>2 DEF ControlInv
<1> QED BY <1>1, <1>2, <1>3, <1>4

\* A command and the reconciliation.
LEMMA CommandPreserves ==
  ASSUME ControlInv, CommandAcquires \/ CommandReleases \/ ReconcileAcquires \/ Reconcile
  PROVE  ControlInv'
<1>a. /\ JobsType /\ ControlType /\ OneWorker /\ LeaseHeld /\ OneCancellation /\ EngineOwned
      /\ Quitting /\ JobInHand
  BY DEF ControlInv
<1>b. IsStore(store) /\ DOMAIN pc = Workers
  BY <1>a DEF ControlType
<1>c. UNCHANGED <<attempted, failed, engine, canceller>>
  BY DEF CommandAcquires, CommandReleases, ReconcileAcquires, Reconcile, drainVars
<1>d. pc.command # "none" /\ pc.drain = "none"
  BY <1>a DEF CommandAcquires, CommandReleases, ReconcileAcquires, Reconcile, OneWorker
<1>e. ASSUME NEW l, pc' = [pc EXCEPT !.command = l]
      PROVE  DOMAIN pc' = Workers /\ pc'.command = l /\ pc'.drain = "none"
  BY <1>b, <1>d, <1>e DEF Workers
<1>f. ASSUME NEW fault, ReconcileOver(fault)
      PROVE  /\ IsStore(store') /\ ~store'.commandActive
             /\ store'.isShuttingDown = store.isShuttingDown
             /\ store'.requiresReconciliation = fault
             /\ pc' = [pc EXCEPT !.command = "none"]
  BY <1>b, <1>f DEF ReconcileOver, CommandTo, IsStore
\* The lease is taken.
<1>1. ASSUME gate.lease = "none", gate' = Leased("command"),
             NEW l \in {"launch", "reconciling", "recovering"}, CommandTo(l, store),
             UNCHANGED <<job, asking>>
      PROVE  ControlInv'
  <2>1. DOMAIN pc' = Workers /\ pc'.command = l /\ pc'.drain = "none" /\ store' = store
    BY <1>1, <1>e DEF CommandTo
  <2>2. /\ IsGate(gate') /\ gate'.accepting = gate.accepting
        /\ gate'.cancelling = gate.cancelling /\ gate'.lease = "command"
        /\ gate'.runner \in BOOLEAN
        /\ LeaseHeld' /\ OneCancellation' /\ EngineOwned'
    <3>1. "command" \in Workers /\ \A v \in Workers : v # "command" => pc'[v] = pc[v]
      BY <1>d, <2>1 DEF Workers
    <3>2. pc'["command"] \in {"claim", "launch", "reconciling", "recovering"}
      BY <2>1
    <3> QED BY <1>1, <1>c, <3>1, <3>2, TakesLease
  <2>3. JobsType' /\ JobInHand'
    BY <1>a, <1>c, <1>d, <1>1, <2>1 DEF JobsType, JobInHand, InHand
  <2>4. ControlType' /\ OneWorker' /\ Quitting'
    BY <1>a, <1>c, <1>d, <2>1, <2>2
       DEF ControlType, OneWorker, Quitting, DrainPlace, CommandPlace, Workers
  <2> QED BY <2>2, <2>3, <2>4 DEF ControlInv
\* The lease is given back.
<1>2. ASSUME NEW g, g = gate \/ (\E needed : g = [gate EXCEPT !.needsReconciliation = needed]),
             gate' = Released(g), Holding("command"), pc.command # "running",
             NEW l \in {"finish", "none"}, pc' = [pc EXCEPT !.command = l],
             IsStore(store'), store'.isShuttingDown = store.isShuttingDown,
             OneWorker', JobsType', JobInHand'
      PROVE  ControlInv'
  <2>1. DOMAIN pc' = Workers /\ pc'.command = l /\ pc'.drain = "none"
    BY <1>2, <1>e
  <2>2. /\ IsGate(gate') /\ gate'.accepting = gate.accepting
        /\ gate'.cancelling = gate.cancelling /\ gate'.lease \in {gate.lease, "none"}
        /\ gate'.runner \in BOOLEAN
        /\ LeaseHeld' /\ OneCancellation' /\ EngineOwned'
    <3>1. /\ "command" \in Workers /\ ~Holding("command")'
          /\ \A v \in Workers : v # "command" => pc'[v] = pc[v]
      BY <1>d, <2>1 DEF Workers, Holding
    <3> QED BY <1>2, <1>c, <3>1, GivesLeaseBack
  <2>3. ControlType' /\ Quitting'
    BY <1>a, <1>c, <1>2, <2>1, <2>2 DEF ControlType, Quitting, DrainPlace, CommandPlace
  <2> QED BY <1>2, <2>2, <2>3 DEF ControlInv
<1>3. CASE CommandAcquires
  <2>1. CASE Refusal(FALSE) = "none"
    <3>1. gate.lease = "none"
      BY <2>1 DEF Refusal
    <3> QED BY <1>1, <1>3, <2>1, <3>1 DEF CommandAcquires
  <2>2. CASE Refusal(FALSE) # "none"
    <3>1. /\ UNCHANGED <<job, asking, gate, store>> /\ pc.command = "acquire"
          /\ pc' = [pc EXCEPT !.command = "finish"]
      BY <1>3, <2>2 DEF CommandAcquires, CommandTo
    <3>2. DOMAIN pc' = Workers /\ pc'.command = "finish" /\ pc'.drain = "none"
      BY <3>1, <1>e
    <3>3. JobsType' /\ OneWorker'
      BY <1>a, <1>c, <1>d, <3>1, <3>2 DEF JobsType, OneWorker
    <3> QED BY <1>b, <1>c, <1>d, <3>1, <3>2, <3>3, Turns
  <2> QED BY <2>1, <2>2
<1>4. CASE CommandReleases
  <2>1. /\ gate' = Released(gate) /\ pc.command \in {"refused", "finished"}
        /\ pc' = [pc EXCEPT !.command = "finish"] /\ UNCHANGED <<job, asking, store>>
    BY <1>4 DEF CommandReleases, CommandTo
  <2>2. pc'.command = "finish" /\ pc'.drain = "none" /\ Holding("command")
    BY <1>e, <2>1 DEF Holding
  <2>3. JobsType' /\ JobInHand' /\ OneWorker'
    BY <1>a, <1>c, <1>d, <2>1, <2>2 DEF JobsType, JobInHand, InHand, OneWorker
  <2> QED BY <1>2, <1>b, <2>1, <2>2, <2>3
<1>5. CASE ReconcileAcquires
  <2>1. CASE Refusal(TRUE) = "none"
    <3>1. gate.lease = "none"
      BY <2>1 DEF Refusal
    <3>2. /\ gate' = Leased("command") /\ UNCHANGED <<job, asking>>
          /\ CommandTo("reconciling", store) \/ CommandTo("recovering", store)
      BY <1>5, <2>1 DEF ReconcileAcquires
    <3> QED BY <1>1, <3>1, <3>2
  <2>2. CASE Refusal(TRUE) # "none"
    <3>1. /\ UNCHANGED <<job, asking, gate>> /\ ReconcileOver(TRUE)
          /\ pc.command \in {"reconcile", "recover"}
      BY <1>5, <2>2 DEF ReconcileAcquires
    <3>2. /\ IsStore(store') /\ ~store'.commandActive
          /\ store'.isShuttingDown = store.isShuttingDown
          /\ store'.requiresReconciliation
          /\ DOMAIN pc' = Workers /\ pc'.command = "none" /\ pc'.drain = "none"
      BY <1>e, <1>f, <3>1
    <3>3. JobsType' /\ JobInHand' /\ OneWorker'
      BY <1>a, <1>c, <1>d, <3>1, <3>2 DEF JobsType, JobInHand, InHand, OneWorker
    <3>4. ControlType' /\ Quitting' /\ OneCancellation'
      BY <1>a, <1>c, <3>1, <3>2
         DEF ControlType, Quitting, OneCancellation, Ending, DrainPlace, CommandPlace
    <3>5. LeaseHeld' /\ EngineOwned'
      BY <1>a, <1>c, <1>d, <3>1, <3>2
         DEF LeaseHeld, EngineOwned, Holding, ControlType, Workers
    <3> QED BY <3>3, <3>4, <3>5 DEF ControlInv
  <2> QED BY <2>1, <2>2
<1>6. CASE Reconcile
  <2>1. pc.command \in {"reconciling", "recovering"} /\ Holding("command")
    BY <1>6 DEF Reconcile, Holding
  <2>2. CASE /\ job' = Reconciled
             /\ gate' = Released([gate EXCEPT !.needsReconciliation = FALSE])
             /\ asking' = asking \cup
                  {IF pc.command = "reconciling" THEN AfterLaunch ELSE AfterRecovery}
             /\ ReconcileOver(FALSE)
    <3>1. /\ IsStore(store') /\ ~store'.commandActive
          /\ store'.isShuttingDown = store.isShuttingDown
          /\ ~store'.requiresReconciliation /\ pc' = [pc EXCEPT !.command = "none"]
          /\ pc'.command = "none" /\ pc'.drain = "none"
      BY <1>e, <1>f, <2>2
    <3>2. \A j \in Jobs : job'[j] # "running"
      BY <2>2 DEF Reconciled
    <3>3. JobsType'
      BY <1>a, <1>c, <2>2 DEF JobsType, Reconciled
    <3>4. JobInHand' /\ OneWorker'
      BY <3>1, <3>2 DEF JobInHand, InHand, OneWorker
    <3> QED BY <1>2, <2>1, <2>2, <3>1, <3>3, <3>4
  <2>3. CASE /\ gate' = Released([gate EXCEPT !.needsReconciliation = TRUE])
             /\ ReconcileOver(TRUE) /\ UNCHANGED <<job, asking>>
    <3>1. /\ IsStore(store') /\ ~store'.commandActive
          /\ store'.isShuttingDown = store.isShuttingDown
          /\ store'.requiresReconciliation /\ pc' = [pc EXCEPT !.command = "none"]
          /\ pc'.command = "none" /\ pc'.drain = "none"
      BY <1>e, <1>f, <2>3
    <3>2. JobsType' /\ JobInHand' /\ OneWorker'
      BY <1>a, <1>c, <1>d, <2>3, <3>1 DEF JobsType, JobInHand, InHand, OneWorker
    <3> QED BY <1>2, <2>1, <2>3, <3>1, <3>2
  <2> QED BY <1>6, <2>2, <2>3 DEF Reconcile
<1> QED BY <1>3, <1>4, <1>5, <1>6

\* A cancellation ends the engine of the lease it found, and no other.
LEMMA CancelPreserves ==
  ASSUME ControlInv,
         QuitCancels \/ Terminate \/ \E c \in {"user", "quit"} : Cancel(c)
  PROVE  ControlInv'
<1>a. /\ JobsType /\ ControlType /\ OneWorker /\ LeaseHeld /\ OneCancellation /\ EngineOwned
      /\ Quitting /\ JobInHand
  BY DEF ControlInv
<1>b. IsGate(gate) /\ DOMAIN canceller = {"user", "quit"}
  BY <1>a DEF ControlType
<1>1. ASSUME NEW c \in {"user", "quit"}, CancelLease(c) PROVE ControlInv'
  <2>0. UNCHANGED <<job, asking, store, pc, attempted, failed, engine>> /\ canceller[c] = "gate"
    BY <1>1 DEF CancelLease, drainVars
  <2>1. CASE UNCHANGED gate /\ canceller' = [canceller EXCEPT ![c] = CancelDone(c)]
    <3>1. /\ ControlType' /\ OneWorker' /\ LeaseHeld' /\ OneCancellation' /\ EngineOwned'
          /\ Quitting'
      BY <1>a, <2>0, <2>1 DEF ControlType, OneWorker, LeaseHeld, OneCancellation, EngineOwned,
         Quitting, Holding, Ending, CancelPlace, CancelDone
    <3>2. JobsType' /\ JobInHand'
      BY <1>a, <2>0 DEF JobsType, JobInHand, InHand
    <3> QED BY <3>1, <3>2 DEF ControlInv
  <2>2. CASE /\ gate.lease # "none" /\ ~gate.cancelled
             /\ gate' = [gate EXCEPT !.cancelled = TRUE, !.cancelling = gate.runner]
             /\ canceller' = [canceller EXCEPT ![c] = IF gate.runner THEN "kill"
                                                      ELSE CancelDone(c)]
    <3> DEFINE runner == gate.runner
    <3>1. gate' = [gate EXCEPT !.cancelled = TRUE, !.cancelling = runner]
      BY <2>2
    <3> HIDE DEF runner
    <3>2. /\ IsGate(gate') /\ gate'.cancelled /\ gate'.cancelling = runner
          /\ gate'.lease = gate.lease /\ gate'.accepting = gate.accepting
          /\ gate'.releaseRequested = gate.releaseRequested /\ gate'.runner = runner
          /\ runner \in BOOLEAN
      BY <1>a, <1>b, <3>1 DEF IsGate, ControlType, runner
    <3>3. ~gate.cancelling /\ ~Ending("user") /\ ~Ending("quit") /\ Holding(gate.lease)
      BY <1>a, <2>2 DEF OneCancellation, LeaseHeld
    <3>4. /\ DOMAIN canceller' = {"user", "quit"}
          /\ canceller'[c] = IF runner THEN "kill" ELSE CancelDone(c)
          /\ \A d \in {"user", "quit"} : d # c => canceller'[d] = canceller[d]
      BY <1>b, <2>2 DEF runner
    <3>5. JobsType' /\ JobInHand'
      BY <1>a, <2>0 DEF JobsType, JobInHand, InHand
    <3>6. LeaseHeld'
      BY <1>a, <2>0, <3>2, <3>3 DEF LeaseHeld, Holding, runner
    <3>7. CASE runner = TRUE
      <4>1. OneCancellation'
        BY <2>2, <3>2, <3>3, <3>4, <3>7 DEF OneCancellation, Ending
      <4>2. ControlType' /\ OneWorker' /\ Quitting'
        BY <1>a, <2>0, <3>2, <3>4, <3>7 DEF ControlType, OneWorker, Quitting, CancelPlace
      <4>3. EngineOwned'
        BY <1>a, <2>0, <3>2, <3>3, <3>4, <3>7 DEF EngineOwned, Ending
      <4> QED BY <3>5, <3>6, <4>1, <4>2, <4>3 DEF ControlInv
    <3>8. CASE runner = FALSE
      <4>0. engine = "none"
        BY <1>a, <3>8 DEF EngineOwned, LeaseHeld, ControlType, runner
      <4>1. OneCancellation'
        BY <3>2, <3>3, <3>4, <3>8 DEF OneCancellation, Ending, CancelDone
      <4>2. ControlType' /\ OneWorker' /\ Quitting'
        BY <1>a, <2>0, <3>2, <3>4, <3>8
           DEF ControlType, OneWorker, Quitting, CancelPlace, CancelDone
      <4>3. EngineOwned'
        BY <2>0, <4>0 DEF EngineOwned
      <4> QED BY <3>5, <3>6, <4>1, <4>2, <4>3 DEF ControlInv
    <3> QED BY <3>2, <3>7, <3>8
  <2> QED BY <1>1, <2>1, <2>2 DEF CancelLease
<1>2. ASSUME NEW c \in {"user", "quit"}, Kill(c) PROVE ControlInv'
  <2>1. JobsType' /\ JobInHand'
    BY <1>a, <1>2 DEF Kill, JobsType, JobInHand, InHand, drainVars
  <2>2. OneWorker' /\ LeaseHeld' /\ EngineOwned' /\ Quitting'
    BY <1>a, <1>2 DEF Kill, OneWorker, LeaseHeld, EngineOwned, Quitting, Holding, ControlType
  <2>3. OneCancellation'
    BY <1>a, <1>2 DEF Kill, OneCancellation, Ending, ControlType
  <2>4. ControlType'
    BY <1>a, <1>2 DEF Kill, ControlType, CancelPlace
  <2> QED BY <2>1, <2>2, <2>3, <2>4 DEF ControlInv
<1>3. ASSUME NEW c \in {"user", "quit"}, CancelSettles(c) PROVE ControlInv'
  <2> DEFINE g == [gate EXCEPT !.cancelling = FALSE]
  <2>0. /\ UNCHANGED <<job, asking, store, pc, attempted, failed, engine>>
        /\ canceller[c] = "settle" /\ canceller' = [canceller EXCEPT ![c] = CancelDone(c)]
        /\ gate' = IF gate.releaseRequested THEN Released(g) ELSE g
    BY <1>3 DEF CancelSettles, drainVars
  <2>1. /\ IsGate(g) /\ g.cancelling = FALSE /\ g.accepting = gate.accepting
        /\ g.lease = gate.lease /\ g.cancelled = gate.cancelled
        /\ g.releaseRequested = gate.releaseRequested /\ g.runner = gate.runner
        /\ gate.runner \in BOOLEAN
    BY <1>a, <1>b DEF IsGate, ControlType
  <2> HIDE DEF g
  <2>2. /\ IsGate(gate') /\ gate'.cancelling = FALSE /\ gate'.accepting = gate.accepting
        /\ gate'.runner \in BOOLEAN
        /\ \/ gate.releaseRequested /\ gate'.lease = "none"
           \/ /\ ~gate.releaseRequested /\ gate'.lease = gate.lease /\ ~gate'.releaseRequested
              /\ gate'.runner = gate.runner
    <3>1. CASE gate.releaseRequested
      <4>1. gate' = Released(g)
        BY <2>0, <3>1
      <4> QED BY <2>1, <3>1, <4>1, ReleasedGate
    <3>2. CASE ~gate.releaseRequested
      <4>1. gate' = g
        BY <2>0, <3>2
      <4> QED BY <2>1, <3>2, <4>1
    <3> QED BY <3>1, <3>2
  <2>3. engine = "none"
    BY <1>a, <2>0 DEF EngineOwned
  <2>4. \A d \in {"user", "quit"} : canceller'[d] \notin {"kill", "settle"}
    BY <1>a, <1>b, <2>0 DEF OneCancellation, Ending, CancelDone
  <2>5. JobsType' /\ JobInHand'
    BY <1>a, <2>0 DEF JobsType, JobInHand, InHand
  <2>6. LeaseHeld'
    <3>1. CASE gate.releaseRequested
      <4>1. \A w \in Workers : ~Holding(w)
        BY <1>a, <3>1 DEF LeaseHeld
      <4> QED BY <2>0, <2>2, <3>1, <4>1 DEF LeaseHeld, Holding
    <3>2. CASE ~gate.releaseRequested
      BY <1>a, <2>0, <2>2, <3>2 DEF LeaseHeld, Holding
    <3> QED BY <3>1, <3>2
  <2>7. OneCancellation' /\ EngineOwned'
    BY <2>0, <2>2, <2>3, <2>4 DEF OneCancellation, Ending, EngineOwned
  <2>8. ControlType' /\ OneWorker' /\ Quitting'
    <3>1. /\ DOMAIN canceller' = {"user", "quit"}
          /\ \A d \in {"user", "quit"} :
               canceller'[d] = IF d = c THEN CancelDone(c) ELSE canceller[d]
      BY <1>b, <2>0
    <3> QED BY <1>a, <2>0, <2>2, <3>1
            DEF ControlType, OneWorker, Quitting, CancelPlace, CancelDone
  <2> QED BY <2>5, <2>6, <2>7, <2>8 DEF ControlInv
<1>4. CASE QuitCancels
  <2>1. JobsType' /\ JobInHand'
    BY <1>a, <1>4 DEF QuitCancels, Requested, JobsType, JobInHand, InHand, ControlType, IsStore,
       drainVars
  <2>2. /\ ControlType' /\ OneWorker' /\ LeaseHeld' /\ OneCancellation' /\ EngineOwned'
        /\ Quitting'
    BY <1>a, <1>4 DEF QuitCancels, Requested, ControlType, OneWorker, LeaseHeld,
       OneCancellation, EngineOwned, Quitting, Holding, Ending, IsStore, CancelPlace
  <2> QED BY <2>1, <2>2 DEF ControlInv
<1>5. CASE Terminate
  <2>1. JobsType' /\ JobInHand'
    BY <1>a, <1>5 DEF Terminate, JobsType, JobInHand, InHand, drainVars
  <2>2. /\ ControlType' /\ OneWorker' /\ LeaseHeld' /\ OneCancellation' /\ EngineOwned'
        /\ Quitting'
    BY <1>a, <1>5 DEF Terminate, ControlType, OneWorker, LeaseHeld, OneCancellation,
       EngineOwned, Quitting, Holding, Ending, CancelPlace
  <2> QED BY <2>1, <2>2 DEF ControlInv
<1> QED BY <1>1, <1>2, <1>3, <1>4, <1>5 DEF Cancel

\* The invariant holds at first.
LEMMA ControlStarts == Init => ControlInv
<1> SUFFICES ASSUME Init PROVE ControlInv
  OBVIOUS
<1>1. JobsType /\ JobInHand
  <2>1. PICK old : job = [j \in Jobs |-> IF j \in old THEN "pending" ELSE "absent"]
    BY DEF Init
  <2>2. \A j \in Jobs : job[j] \in {"pending", "absent"}
    BY <2>1
  <2>3. JobsType
    <3>1. job \in [Jobs -> {"absent", "pending", "running", "ended"}]
      BY <2>1
    <3>2. asking = {} /\ attempted = 0 /\ failed = FALSE
      BY DEF Init
    <3>3. MaxJobs \in Nat /\ 0 \in 0 .. MaxJobs
      BY BoundsAssumption
    <3>4. failed \in BOOLEAN
      BY <3>2
    <3>5. attempted \in 0 .. MaxJobs /\ failed \in BOOLEAN
      BY <3>2, <3>3, <3>4
    <3>6. asking \subseteq Jobs \cup {AfterLaunch, AfterRecovery}
      BY <3>2
    <3> QED BY <3>1, <3>5, <3>6 DEF JobsType
  <2>4. JobInHand
    BY <2>2 DEF Init, JobInHand, InHand
  <2> QED BY <2>3, <2>4
<1>2. ControlType
  <2>1. IsStore(store) /\ IsGate(gate)
    BY DEF Init, IsStore, IsGate
  <2>2. DOMAIN pc = Workers /\ pc.drain \in DrainPlace /\ pc.command \in CommandPlace
    BY DEF Init, Workers, DrainPlace, CommandPlace
  <2>3. /\ DOMAIN canceller = {"user", "quit"} /\ canceller.user = "idle"
        /\ canceller.quit = "idle"
    BY DEF Init
  <2>4. gate.lease = "none" /\ gate.cancelling = FALSE /\ gate.runner = FALSE /\ engine = "none"
    BY DEF Init
  <2> QED BY <2>1, <2>2, <2>3, <2>4 DEF ControlType, CancelPlace
<1>3. OneWorker /\ Quitting
  BY DEF Init, OneWorker, Quitting
<1>4. LeaseHeld /\ OneCancellation /\ EngineOwned
  BY DEF Init, LeaseHeld, OneCancellation, EngineOwned, Holding, Ending, Workers
<1> QED BY <1>1, <1>2, <1>4, <1>3 DEF ControlInv

\* Every step preserves it.
LEMMA ControlStepPreserves == ControlInv /\ [Next]_vars => ControlInv'
<1> SUFFICES ASSUME ControlInv, [Next]_vars PROVE ControlInv'
  OBVIOUS
<1>1. CASE UNCHANGED vars
  BY <1>1 DEF vars, ControlInv, JobsType, ControlType, OneWorker, LeaseHeld, OneCancellation,
     EngineOwned, Quitting, JobInHand, InHand, Holding, Ending
<1>2. ASSUME Alive, DrainStep PROVE ControlInv'
  <2>1. "drain" \in Workers
    BY DEF Workers
  <2> QED BY <1>2, <2>1, DrainPreserves, AskPreserves, RunPreserves DEF DrainStep
<1>3. ASSUME Alive, CommandStep PROVE ControlInv'
  <2>1. "command" \in Workers
    BY DEF Workers
  <2> QED BY <1>3, <2>1, CommandPreserves, AskPreserves, RunPreserves DEF CommandStep
<1>4. ASSUME Alive, UserStep \/ Ask \/ EngineExits PROVE ControlInv'
  BY <1>4, UserPreserves, AskPreserves, RunPreserves
<1>5. ASSUME QuitCancels \/ Terminate \/ \E c \in {"user", "quit"} : Cancel(c) PROVE ControlInv'
  BY <1>5, CancelPreserves
<1> QED BY <1>1, <1>2, <1>3, <1>4, <1>5 DEF Next

\* So it holds always.
LEMMA ControlAlways == Spec => []ControlInv
  BY ControlStarts, ControlStepPreserves, PTL DEF Spec

-----------------------------------------------------------------------------
\* A living engine is under its starter's lease, shown by the App and within
\* reach of a cancellation, and none lives whose lease was cancelled, wherever
\* its launch had got to (EngineExecutionGate, AppStore).
THEOREM ControlEngineUnderLease == Spec => []EngineUnderLease
<1>1. ControlInv => EngineUnderLease
  <2> SUFFICES ASSUME ControlInv PROVE EngineUnderLease
    OBVIOUS
  <2>1. ControlType /\ OneWorker /\ LeaseHeld /\ EngineOwned
    BY DEF ControlInv
  <2>2. ShownWhileRunning
    <3>1. ASSUME engine # "none"
          PROVE  engine \in Workers /\ pc[engine] = "running" /\ gate.lease = engine
      BY <2>1, <3>1 DEF ControlType, EngineOwned, LeaseHeld, Holding
    <3>2. CASE engine = "drain"
      BY <2>1, <3>1, <3>2 DEF ShownWhileRunning, OneWorker
    <3>3. CASE engine = "command"
      BY <2>1, <3>1, <3>3 DEF ShownWhileRunning, OneWorker
    <3> QED BY <3>1, <3>2, <3>3 DEF ShownWhileRunning, Workers
  <2>3. CancelledNeverRuns
    BY <2>1 DEF CancelledNeverRuns, EngineOwned, ControlType, Workers
  <2> QED BY <2>2, <2>3 DEF EngineUnderLease
<1> QED BY <1>1, ControlAlways, PTL

\* A cancellation that is late ends the engine of the lease it was meant for
\* (EngineExecutionGate.cancel).
THEOREM ControlCancelsOnlyItsTarget == Spec => CancelsOnlyItsTarget
<1>1. ControlInv =>
        [\A c \in {"user", "quit"} :
           canceller[c] = "kill" /\ canceller'[c] = "settle" /\ engine # "none" =>
             gate.lease = engine /\ gate.cancelled]_vars
  <2> SUFFICES ASSUME ControlInv, NEW c \in {"user", "quit"}, canceller[c] = "kill",
                      engine # "none"
               PROVE  gate.lease = engine /\ gate.cancelled
    OBVIOUS
  <2>1. ControlType /\ LeaseHeld /\ OneCancellation /\ EngineOwned
    BY DEF ControlInv
  <2>2. gate.cancelled
    BY <2>1 DEF OneCancellation, Ending
  <2>3. engine \in Workers /\ pc[engine] = "running"
    BY <2>1 DEF ControlType, EngineOwned
  <2> QED BY <2>1, <2>2, <2>3 DEF LeaseHeld, Holding
<1> QED BY <1>1, ControlAlways, PTL DEF CancelsOnlyItsTarget

\* No engine is started once Quit has begun (AppStore.shutdown,
\* EngineExecutionGate.stopAccepting).
THEOREM ControlNoLaunchAfterQuit == Spec => NoLaunchAfterQuit
<1>1. ControlInv /\ [Next]_vars =>
        [engine' # engine /\ engine' # "none" => ~store.isShuttingDown]_vars
  <2> SUFFICES ASSUME ControlInv, Next, engine' # engine, engine' # "none"
               PROVE  ~store.isShuttingDown
    OBVIOUS
  <2>1. Quitting
    BY DEF ControlInv
  <2>2. ASSUME NEW w \in Workers, Spawn(w) PROVE ~store.isShuttingDown
    BY <2>1, <2>2 DEF Spawn, Refused, Quitting
  <2>3. CASE DrainStep
    <3>1. CASE Spawn("drain")
      BY <2>2, <3>1 DEF Workers
    <3>2. CASE ~Spawn("drain")
      BY <2>3, <3>2 DEF DrainStep, DrainStart, Peek, DrainAcquires, Claim, Launch, RunReturns,
         Persist, After, DrainExit
    <3> QED BY <3>1, <3>2
  <2>4. CASE CommandStep
    <3>1. CASE Spawn("command")
      BY <2>2, <3>1 DEF Workers
    <3>2. CASE ~Spawn("command")
      BY <2>4, <3>2 DEF CommandStep, CommandAcquires, Launch, RunReturns, CommandReleases,
         FinishCommand, ReconcileAcquires, Reconcile
    <3> QED BY <3>1, <3>2
  <2>5. CASE UserStep
    BY <2>5 DEF UserStep, Enqueue, StartCommand, Recover, ClickCancel, Quit
  <2>6. CASE Ask \/ EngineExits \/ QuitCancels \/ Terminate
    BY <2>6 DEF Ask, EngineExits, QuitCancels, Terminate
  <2>7. ASSUME NEW c \in {"user", "quit"}, Cancel(c) PROVE FALSE
    BY <2>7 DEF Cancel, CancelLease, Kill, CancelSettles
  <2> QED BY <2>3, <2>4, <2>5, <2>6, <2>7 DEF Next
<1> QED BY <1>1, ControlAlways, PTL DEF Spec, NoLaunchAfterQuit

\* When Quit ends the App no engine of a job is alive, and a job is left
\* running in the queue only where a write had failed (AppStore.shutdown).
THEOREM ControlQuitSettlesJobs == Spec => []QuitSettlesJobs
<1>1. ControlInv => QuitSettlesJobs
  BY DEF ControlInv, ControlType, EngineOwned, Quitting, JobInHand, InHand, QuitSettlesJobs
<1> QED BY <1>1, ControlAlways, PTL
=============================================================================
