------------------------------ MODULE JobQueue ------------------------------
(***************************************************************************)
(* The App's durable serialized job queue (JobQueue.swift over             *)
(* AtomicJSONStore.swift).  `jobs` is the actor's snapshot, `saved` is     *)
(* what state/queue.json holds.  Every operation computes a candidate      *)
(* snapshot, writes it, and only then adopts it.  A write that throws      *)
(* leaves `jobs` alone; it may throw before or after the file was          *)
(* replaced (the permissions of the replaced file are set afterwards), so  *)
(* `saved` keeps its value or already holds the candidate.                 *)
(***************************************************************************)
EXTENDS JobRecord, FiniteSetsExt

CONSTANT MaxJobs    \* bound: jobs ever enqueued

ASSUME MaxJobsAssumption == MaxJobs \in Nat

VARIABLES jobs, saved

queueVars == <<jobs, saved>>

QueueInit == jobs = <<>> /\ saved = <<>>

\* Mutant: the snapshot is adopted and never written.
CommitUnwritten(candidate) == jobs' = candidate /\ saved' = saved

Commit(candidate)     == jobs' = candidate /\ saved' = candidate
WriteFails(candidate) == jobs' = jobs /\ saved' \in {saved, candidate}
Persist(candidate)    == Commit(candidate) \/ WriteFails(candidate)

-----------------------------------------------------------------------------

Prior(q, work) == {i \in DOMAIN q : SameWork(q[i], work)}

\* Mutant: a job that is already running is not found.
HasPending(q, work) == \E i \in Prior(q, work) : q[i].state = "pending"

HasActive(q, work) == \E i \in Prior(q, work) : q[i].state \in Active

\* Mutant: the largest attempt count is reused.
LastAttempt(q, work) == Max({0} \cup {q[i].attempt : i \in Prior(q, work)})

\* One more than the largest attempt count of the same work.
NextAttempt(q, work) ==
  1 + Max({0} \cup {q[i].attempt : i \in Prior(q, work)})

NewResearch(q, slot, channels) ==
  LET work == [kind |-> "research", target |-> slot, channel |-> NoChannel]
  IN  [kind |-> "research", target |-> slot, channel |-> NoChannel,
       requested |-> channels, manual |-> FALSE,
       allowResend |-> FALSE, acknowledge |-> FALSE,
       state |-> "pending", error |-> "none", attempt |-> NextAttempt(q, work)]

NewDelivery(q, run, ch, manual, resend, ack) ==
  LET work == [kind |-> "delivery", target |-> run, channel |-> ch]
  IN  [kind |-> "delivery", target |-> run, channel |-> ch,
       requested |-> {}, manual |-> manual,
       allowResend |-> resend, acknowledge |-> ack,
       state |-> "pending", error |-> "none", attempt |-> NextAttempt(q, work)]

\* Mutant: an unknown outcome needs no acknowledgement.
AdmitsUnknown(q, new) ==
  /\ ~HasActive(q, new)
  /\ new.kind = "delivery" =>
       \A i \in Prior(q, new) : q[i].state = "succeeded" => new.allowResend

\* enqueueDelivery refuses a repeat the user has not confirmed.
Admits(q, new) ==
  /\ ~HasActive(q, new)
  /\ new.kind = "delivery" =>
       \A i \in Prior(q, new) :
         /\ q[i].state = "deliveryUnknown" => new.acknowledge
         /\ q[i].state = "succeeded" => new.allowResend

\* Mutant: a job is claimed beside the running one.
CanClaimAnyway(q) == \E i \in DOMAIN q : q[i].state = "pending"

CanClaim(q) ==
  /\ \A i \in DOMAIN q : q[i].state \notin Claimed
  /\ \E i \in DOMAIN q : q[i].state = "pending"

FirstPending(q) ==
  CHOOSE i \in DOMAIN q :
    /\ q[i].state = "pending"
    /\ \A k \in DOMAIN q : q[k].state = "pending" => i <= k

SetState(q, i, s, err) == [q EXCEPT ![i] = Moved(@, s, err)]
Released(q, i)         == [q EXCEPT ![i].state = "pending"]

-----------------------------------------------------------------------------
(* The operations.  An active duplicate is coalesced with the job already  *)
(* there, which changes nothing.                                           *)

Enqueue(new) ==
  /\ Len(jobs) < MaxJobs
  /\ Admits(jobs, new)
  /\ Persist(Append(jobs, new))

EnqueueResearch(slot, channels) ==
  Enqueue(NewResearch(jobs, slot, channels))

EnqueueDelivery(run, ch, manual, resend, ack) ==
  Enqueue(NewDelivery(jobs, run, ch, manual, resend, ack))

NextPending ==
  /\ CanClaim(jobs)
  /\ Persist(SetState(jobs, FirstPending(jobs), "running", "none"))

Transition(i, s, err) ==
  /\ i \in DOMAIN jobs
  /\ MayMove(jobs[i], s)
  /\ Persist(SetState(jobs, i, s, err))

\* Mutant: an ended job is put back too.
ReleaseAny(i) == i \in DOMAIN jobs /\ Persist(Released(jobs, i))

ReleaseUnstarted(i) ==
  /\ i \in DOMAIN jobs
  /\ jobs[i].state = "running"
  /\ Persist(Released(jobs, i))

\* The App dies and is launched again: bootstrap loads the saved snapshot.
Relaunch == jobs' = saved /\ UNCHANGED saved

-----------------------------------------------------------------------------
(* The states the clients of the queue ask for: EngineJobCoordinator       *)
(* (persist, complete, observe) and AppStore.drainQueue.  A delivery job   *)
(* is never made partial or interrupted: its lost outcome is               *)
(* deliveryUnknown.                                                        *)
Outcomes(job) ==
  IF job.kind = "delivery"
  THEN {"succeeded", "failed", "cancelled", "deliveryUnknown"}
  ELSE {"succeeded", "partialSuccess", "failed", "cancelled", "interrupted"}

QueueNext ==
  \/ \E slot \in Slots, chs \in SUBSET Channels : EnqueueResearch(slot, chs)
  \/ \E run \in Runs, ch \in Channels, resend, ack \in BOOLEAN :
       EnqueueDelivery(run, ch, TRUE, resend, ack)
  \/ \E run \in Runs, ch \in Channels :
       EnqueueDelivery(run, ch, FALSE, FALSE, FALSE)
  \/ NextPending
  \/ \E i \in DOMAIN jobs, err \in JobErrors :
       \E s \in Outcomes(jobs[i]) \cup {jobs[i].state} : Transition(i, s, err)
  \/ \E i \in DOMAIN jobs : ReleaseUnstarted(i)
  \/ Relaunch

QueueSpec == QueueInit /\ [][QueueNext]_queueVars

-----------------------------------------------------------------------------
(* Properties of a snapshot; each is an invariant of `jobs` and of         *)
(* `saved`, so that a launch finds it too.                                 *)

\* At most one job is running or being cancelled: the queue is serialized
\* across claims, releases, failed writes and relaunches.
OneClaim(q) ==
  \A i, k \in DOMAIN q : q[i].state \in Claimed /\ q[k].state \in Claimed => i = k

\* Work is enqueued again only when every earlier job for it has ended.
EarlierEnded(q) ==
  \A i, k \in DOMAIN q : i < k /\ SameWork(q[i], q[k]) => q[i].state \in Terminal

\* The attempts of one piece of work are numbered in the order they were made.
AttemptsOrdered(q) ==
  \A i, k \in DOMAIN q : i < k /\ SameWork(q[i], q[k]) => q[i].attempt < q[k].attempt

\* A delivery follows an unknown outcome only when the user acknowledged it,
\* and a successful one only when the user asked to send again (or had
\* acknowledged the outcome while it was still unknown).
RepeatsConfirmed(q) ==
  \A i, k \in DOMAIN q :
    i < k /\ SameWork(q[i], q[k]) /\ q[i].kind = "delivery" =>
      /\ q[i].state = "deliveryUnknown" => q[k].acknowledge
      /\ q[i].state = "succeeded" => q[k].allowResend \/ q[k].acknowledge

\* Type of both snapshots.
QueueTypeOK == jobs \in Seq(Job) /\ saved \in Seq(Job)

\* Only one engine job runs at a time, in memory and after a relaunch.
SerializedQueue == OneClaim(jobs) /\ OneClaim(saved)

\* At most one active job per piece of work, in memory and after a relaunch.
NoDuplicateWork == EarlierEnded(jobs) /\ EarlierEnded(saved)

\* isLatestDeliveryAttempt picks the last enqueued attempt.
AttemptsNumbered == AttemptsOrdered(jobs) /\ AttemptsOrdered(saved)

\* An uncertain or successful delivery is never repeated unasked.
NoUnconfirmedRepeat == RepeatsConfirmed(jobs) /\ RepeatsConfirmed(saved)

\* What the snapshot acknowledged is in the file, which is at most the one
\* unacknowledged write ahead of it: a relaunch never undoes an outcome.
NeverBehind(job, onDisk) ==
  /\ SameWork(job, onDisk)
  /\ job.attempt = onDisk.attempt
  /\ \/ MayMove(job, onDisk.state)
     \/ job.state = "running" /\ onDisk.state = "pending"

DurableNotBehind ==
  /\ Len(saved) \in {Len(jobs), Len(jobs) + 1}
  /\ \A i \in DOMAIN jobs : NeverBehind(jobs[i], saved[i])

\* A job that ended is never pending or running again, whatever is called,
\* and whatever the launch after a crash loads.
EndedStaysEnded ==
  [][\A i \in DOMAIN jobs :
       jobs[i].state \in Terminal =>
         i \in DOMAIN jobs' /\ jobs'[i].state \in Terminal]_queueVars

=============================================================================
