---------------------- MODULE EngineCoordinatorProofs ----------------------
(***************************************************************************)
(* Proofs about JobQueue and EngineCoordinator, for every bound on jobs    *)
(* and faults and every set of slots, topics and channels: what the queue  *)
(* guarantees by itself, that the coordinator implements DeliveryPromise,  *)
(* and that the report index and the queue agree however it dies between   *)
(* them.                                                                   *)
(*                                                                         *)
(* The queue: every snapshot it ever adopts or writes is Good, and the     *)
(* file is never behind the memory (Ahead).  Each operation is one lemma   *)
(* about snapshots: from a Good snapshot it makes a Good candidate that is *)
(* Ahead of it.  Persist and Relaunch only choose among `jobs`, `saved`    *)
(* and such a candidate, so the two facts are inductive together.          *)
(*                                                                         *)
(* The coordinator: its invariant, CoordinatorInv, has a part for each of  *)
(* the records that must not contradict one another: the queue in memory   *)
(* and in its file (at most one operation apart), the report index in      *)
(* memory and in its file, what the engine processes did, and what the     *)
(* coordinator is about to write.  A crash makes the files the memory, so  *)
(* what is said of the memory is said of the files too, and of the queue   *)
(* in memory beside the index in its file, which is written first.         *)
(***************************************************************************)
EXTENDS EngineCoordinator, TLAPS, SequenceTheorems, WellFoundedInduction, FiniteSetTheorems

-----------------------------------------------------------------------------
(* The queue by itself.                                                    *)


\* A delivery is never interrupted or partial: nothing but a late result of
\* an unknown outcome can make an ended delivery succeed.
DeliveryEnds(q) ==
  \A i \in DOMAIN q :
    q[i].kind = "delivery" => q[i].state \notin {"interrupted", "partialSuccess"}

\* Attempt counts are bounded by positions, so that the largest exists.
AttemptsBounded(q) == \A i \in DOMAIN q : q[i].attempt <= i

Good(q) ==
  /\ q \in Seq(Job)
  /\ OneClaim(q)
  /\ EarlierEnded(q)
  /\ AttemptsOrdered(q)
  /\ RepeatsConfirmed(q)
  /\ DeliveryEnds(q)
  /\ AttemptsBounded(q)

Ahead(q, c) ==
  /\ Len(c) \in {Len(q), Len(q) + 1}
  /\ \A i \in DOMAIN q : NeverBehind(q[i], c[i])

QueueInv == Good(jobs) /\ Good(saved) /\ Ahead(jobs, saved)

-----------------------------------------------------------------------------

(* A non-empty set of naturals has a least element.                        *)
LEMMA LeastExists ==
  ASSUME NEW T \in SUBSET Nat, T # {}
  PROVE  \E m \in T : \A n \in T : m <= n
<1>1. IsWellFoundedOn(OpToRel(<, Nat), Nat)
  BY NatLessThanWellFounded
<1>2. PICK m \in T : \A n \in T : <<n, m>> \notin OpToRel(<, Nat)
  BY <1>1, WFMin
<1>3. \A n \in T : n \in Nat /\ m \in Nat
  OBVIOUS
<1>4. \A n \in T : ~(n < m)
  BY <1>2, <1>3 DEF OpToRel
<1>5. \A n \in T : m <= n
  BY <1>3, <1>4
<1> QED
  BY <1>5

(* Max of a non-empty bounded set of naturals is its largest element.      *)
LEMMA MaxIsLargest ==
  ASSUME NEW S \in SUBSET Nat, S # {}, NEW b \in Nat, \A x \in S : x <= b
  PROVE  Max(S) \in S /\ \A x \in S : x <= Max(S)
<1> DEFINE U == {u \in Nat : \A x \in S : x <= u}
<1>1. PICK m \in U : \A u \in U : m <= u
  <2>1. U \in SUBSET Nat /\ b \in U
    OBVIOUS
  <2> QED
    BY <2>1, LeastExists
<1>2. m \in S
  <2> SUFFICES ASSUME m \notin S PROVE FALSE
    OBVIOUS
  <2>1. \A x \in S : x <= m /\ x # m
    BY <1>1
  <2>2. PICK y \in S : TRUE
    OBVIOUS
  <2>3. m - 1 \in Nat /\ \A x \in S : x <= m - 1
    BY <1>1, <2>1, <2>2
  <2>4. m <= m - 1
    BY <1>1, <2>3
  <2> QED
    BY <1>1, <2>4
<1>3. \E x \in S : \A y \in S : x >= y
  BY <1>1, <1>2
<1> QED
  BY <1>3 DEF Max

-----------------------------------------------------------------------------
(* Facts about single jobs.                                                *)

(* The fields of a job have their types.                                   *)
LEMMA JobFields ==
  ASSUME NEW job \in Job
  PROVE  /\ job.kind \in {"research", "delivery"}
         /\ job.state \in JobState
         /\ job.attempt \in Nat \ {0}
         /\ job.manual \in BOOLEAN
  BY DEF Job, ResearchJob, DeliveryJob

Restated(job, s, err) == [job EXCEPT !.state = s, !.error = err]

\* What no operation changes in a job that is already in the queue.
SameDuty(new, old) ==
  /\ SameWork(new, old)
  /\ new.attempt = old.attempt
  /\ new.allowResend = old.allowResend
  /\ new.acknowledge = old.acknowledge

(* Giving a job another state and error changes nothing else in it.        *)
LEMMA RestatedJob ==
  ASSUME NEW job \in Job, NEW s \in JobState, NEW err \in JobErrors
  PROVE  /\ Restated(job, s, err) \in Job
         /\ Restated(job, s, err).state = s
         /\ SameDuty(Restated(job, s, err), job)
<1>1. CASE job \in ResearchJob
  BY <1>1 DEF Job, ResearchJob, SameWork, SameDuty, Restated
<1>2. CASE job \in DeliveryJob
  BY <1>2 DEF Job, DeliveryJob, SameWork, SameDuty, Restated
<1> QED
  BY <1>1, <1>2 DEF Job

\* The error of a job is one of those the models distinguish.
LEMMA JobError ==
  ASSUME NEW job \in Job
  PROVE  job.error \in JobErrors
  BY DEF Job, ResearchJob, DeliveryJob

(* transition() is such a change.                                          *)
LEMMA MovedJob ==
  ASSUME NEW job \in Job, NEW s \in JobState, NEW err \in JobErrors
  PROVE  /\ Moved(job, s, err) \in Job
         /\ Moved(job, s, err).state = s
         /\ SameDuty(Moved(job, s, err), job)
<1>1. PICK e \in JobErrors : Moved(job, s, err) = Restated(job, s, e)
  BY JobError, JobErrorsAssumption DEF Moved, Restated
<1> QED
  BY <1>1, RestatedJob

(* releaseUnstarted() too.                                                 *)
LEMMA ReleasedJob ==
  ASSUME NEW job \in Job, NEW new, new = [job EXCEPT !.state = "pending"]
  PROVE  new \in Job /\ new.state = "pending" /\ SameDuty(new, job)
<1>1. CASE job \in ResearchJob
  BY <1>1 DEF Job, ResearchJob, SameWork, SameDuty, JobState, Active
<1>2. CASE job \in DeliveryJob
  BY <1>2 DEF Job, DeliveryJob, SameWork, SameDuty, JobState, Active
<1> QED
  BY <1>1, <1>2 DEF Job

(* An ended job can only be completed by a late result.                    *)
LEMMA EndedMoves ==
  ASSUME NEW job \in Job, NEW s, MayMove(job, s), job.state \in Terminal
  PROVE  /\ s \in Terminal
         /\ \/ s = job.state
            \/ job.state = "interrupted" /\ s \in {"succeeded", "partialSuccess"}
            \/ job.state = "deliveryUnknown" /\ s = "succeeded"
<1>1. job.state \in JobState
  BY JobFields
<1> QED
  BY <1>1 DEF MayMove, AllowedTransitions, Terminal, JobState, Active

(* A job that may move to a state moves to one of the states.              *)
LEMMA MoveTyped ==
  ASSUME NEW job \in Job, NEW s, MayMove(job, s)
  PROVE  s \in JobState
<1>1. job.state \in JobState
  BY JobFields
<1> QED
  BY <1>1 DEF MayMove, AllowedTransitions, Terminal, JobState, Active

\* To be the same work is an equivalence.
LEMMA SameWorkEquivalence ==
  /\ \A a : SameWork(a, a)
  /\ \A a, b : SameWork(a, b) => SameWork(b, a)
  /\ \A a, b, c : SameWork(a, b) /\ SameWork(b, c) => SameWork(a, c)
  BY DEF SameWork

-----------------------------------------------------------------------------
(* Snapshots: what replacing a job and appending a job preserve.           *)

\* A snapshot of the queue numbers its jobs from one.
LEMMA Positions ==
  ASSUME NEW q \in Seq(Job)
  PROVE  /\ Len(q) \in Nat
         /\ DOMAIN q = 1 .. Len(q)
         /\ \A i \in DOMAIN q : i \in Nat /\ q[i] \in Job
  BY LenProperties, ElementOfSeq

(* A job is replaced by one with the same duty.  The queue stays Good when *)
(* a claim meets no other claim and an ended job stays ended, a delivery   *)
(* even with its outcome unless a late result confirms it.                 *)
LEMMA ReplaceKeepsGood ==
  ASSUME NEW q, Good(q), NEW i \in DOMAIN q, NEW new \in Job,
         SameDuty(new, q[i]),
         new.state \in Claimed => \A k \in DOMAIN q : q[k].state \in Claimed => k = i,
         q[i].state \in Terminal => new.state \in Terminal,
         new.kind = "delivery" => new.state \notin {"interrupted", "partialSuccess"},
         new.kind = "delivery" /\ q[i].state \in Terminal =>
           \/ new.state = q[i].state
           \/ q[i].state = "deliveryUnknown" /\ new.state = "succeeded"
  PROVE  /\ Good([q EXCEPT ![i] = new])
         /\ Len([q EXCEPT ![i] = new]) = Len(q)
         /\ \A k \in DOMAIN q : [q EXCEPT ![i] = new][k] = IF k = i THEN new ELSE q[k]
<1> DEFINE c == [q EXCEPT ![i] = new]
<1>1. q \in Seq(Job)
  BY DEF Good
<1>2. /\ c \in Seq(Job)
      /\ Len(c) = Len(q)
      /\ \A k \in DOMAIN q : c[k] = IF k = i THEN new ELSE q[k]
  BY <1>1, Positions, ExceptSeq
<1>3. DOMAIN c = DOMAIN q
  BY <1>1, <1>2, Positions
<1> HIDE DEF c
<1>4. \A k \in DOMAIN q : SameDuty(c[k], q[k])
  BY <1>2, SameWorkEquivalence DEF SameDuty
<1>5. \A j, k \in DOMAIN q : SameWork(c[j], c[k]) => SameWork(q[j], q[k])
  BY <1>4 DEF SameDuty, SameWork
<1>6. OneClaim(c)
  BY <1>2, <1>3 DEF Good, OneClaim
<1>7. EarlierEnded(c)
  BY <1>2, <1>3, <1>5 DEF Good, EarlierEnded
<1>8. AttemptsOrdered(c)
  BY <1>3, <1>4, <1>5 DEF Good, AttemptsOrdered, SameDuty
<1>9. RepeatsConfirmed(c)
  <2> SUFFICES ASSUME NEW j \in DOMAIN q, NEW k \in DOMAIN q, j < k,
                      SameWork(c[j], c[k]), c[j].kind = "delivery"
               PROVE  /\ c[j].state = "deliveryUnknown" => c[k].acknowledge
                      /\ c[j].state = "succeeded" => c[k].allowResend \/ c[k].acknowledge
    BY <1>3 DEF RepeatsConfirmed
  <2>1. SameWork(q[j], q[k]) /\ q[j].kind = "delivery"
    BY <1>4, <1>5 DEF SameDuty, SameWork
  <2>2. q[j].state \in Terminal
    BY <2>1 DEF Good, EarlierEnded
  <2>3. /\ q[j].state = "deliveryUnknown" => q[k].acknowledge
        /\ q[j].state = "succeeded" => q[k].allowResend \/ q[k].acknowledge
    BY <2>1 DEF Good, RepeatsConfirmed
  <2>4. \/ c[j].state = q[j].state
        \/ q[j].state = "deliveryUnknown" /\ c[j].state = "succeeded"
    BY <1>2, <2>1, <2>2 DEF SameDuty, SameWork
  <2>5. c[k].acknowledge = q[k].acknowledge /\ c[k].allowResend = q[k].allowResend
    BY <1>4 DEF SameDuty
  <2> QED
    BY <2>3, <2>4, <2>5
<1>10. DeliveryEnds(c)
  BY <1>2, <1>3 DEF Good, DeliveryEnds
<1>11. AttemptsBounded(c)
  BY <1>3, <1>4 DEF Good, AttemptsBounded, SameDuty
<1> QED
  BY <1>2, <1>6, <1>7, <1>8, <1>9, <1>10, <1>11 DEF Good, c

(* A new attempt is numbered after every earlier one for the same work.    *)
LEMMA NextAttemptIsNext ==
  ASSUME NEW q, Good(q), NEW work
  PROVE  /\ NextAttempt(q, work) \in Nat \ {0}
         /\ NextAttempt(q, work) <= Len(q) + 1
         /\ \A i \in Prior(q, work) : q[i].attempt < NextAttempt(q, work)
<1> DEFINE S == {0} \cup {q[i].attempt : i \in Prior(q, work)}
<1>1. q \in Seq(Job) /\ Len(q) \in Nat
  BY Positions DEF Good
<1>2. \A i \in Prior(q, work) :
        q[i].attempt \in Nat /\ q[i].attempt <= i /\ i \in Nat /\ i <= Len(q)
  BY <1>1, Positions, JobFields DEF Prior, Good, AttemptsBounded
<1>3. S \in SUBSET Nat /\ S # {} /\ \A x \in S : x <= Len(q)
  BY <1>1, <1>2
<1>4. Max(S) \in S /\ \A x \in S : x <= Max(S)
  BY <1>1, <1>3, MaxIsLargest
<1>5. NextAttempt(q, work) = 1 + Max(S)
  BY DEF NextAttempt
<1>6. Max(S) \in Nat /\ Max(S) <= Len(q)
  BY <1>3, <1>4
<1>7. \A i \in Prior(q, work) : q[i].attempt <= Max(S)
  BY <1>4
<1> HIDE DEF S
<1> QED
  BY <1>1, <1>2, <1>5, <1>6, <1>7

(* Appending an admitted pending job keeps the queue Good.                 *)
LEMMA AppendKeepsGood ==
  ASSUME NEW q, Good(q), NEW new \in Job, new.state = "pending",
         Admits(q, new), new.attempt = NextAttempt(q, new)
  PROVE  /\ Good(Append(q, new))
         /\ Len(Append(q, new)) = Len(q) + 1
         /\ \A k \in DOMAIN q : Append(q, new)[k] = q[k]
<1> DEFINE c == Append(q, new)
           n == Len(q) + 1
<1>1. q \in Seq(Job) /\ Len(q) \in Nat /\ DOMAIN q = 1 .. Len(q)
  BY Positions DEF Good
<1>2. c \in Seq(Job) /\ Len(c) = n /\ DOMAIN c = 1 .. n
  BY <1>1, AppendProperties, Positions
<1>3. c[n] = new /\ \A k \in DOMAIN q : c[k] = q[k]
  BY <1>1, AppendProperties
<1>4. \A k \in DOMAIN c : k \in DOMAIN q \/ k = n
  BY <1>1, <1>2
<1>5. \A i, k \in DOMAIN c : i < k => i \in DOMAIN q
  BY <1>1, <1>2
<1>6. \A i \in DOMAIN q : SameWork(q[i], new) =>
        /\ i \in Prior(q, new)
        /\ q[i].state \in Terminal
        /\ q[i].attempt < new.attempt
  <2> SUFFICES ASSUME NEW i \in DOMAIN q, SameWork(q[i], new)
               PROVE  /\ i \in Prior(q, new)
                      /\ q[i].state \in Terminal
                      /\ q[i].attempt < new.attempt
    OBVIOUS
  <2>1. i \in Prior(q, new)
    BY DEF Prior
  <2>2. q[i].state \in JobState
    BY <1>1, Positions, JobFields
  <2>3. q[i].state \notin Active
    BY <2>1 DEF Admits, HasActive
  <2>4. q[i].attempt < new.attempt
    BY <2>1, NextAttemptIsNext
  <2> QED
    BY <2>1, <2>2, <2>3, <2>4 DEF JobState
<1> HIDE DEF c
<1>7. new.state \notin Claimed \cup {"interrupted", "partialSuccess"}
  BY DEF Claimed
<1>8. OneClaim(c)
  BY <1>3, <1>4, <1>7 DEF Good, OneClaim
<1>9. EarlierEnded(c)
  BY <1>3, <1>4, <1>5, <1>6 DEF Good, EarlierEnded
<1>10. AttemptsOrdered(c)
  BY <1>3, <1>4, <1>5, <1>6 DEF Good, AttemptsOrdered
<1>11. RepeatsConfirmed(c)
  <2> SUFFICES ASSUME NEW i \in DOMAIN q, NEW k \in DOMAIN c, i < k,
                      SameWork(c[i], c[k]), c[i].kind = "delivery"
               PROVE  /\ c[i].state = "deliveryUnknown" => c[k].acknowledge
                      /\ c[i].state = "succeeded" => c[k].allowResend \/ c[k].acknowledge
    BY <1>5 DEF RepeatsConfirmed
  <2>1. CASE k \in DOMAIN q
    BY <2>1, <1>3 DEF Good, RepeatsConfirmed
  <2>2. CASE k = n
    <3>1. SameWork(q[i], new) /\ new.kind = "delivery"
      BY <2>2, <1>3 DEF SameWork
    <3>2. i \in Prior(q, new)
      BY <3>1, <1>6
    <3> QED
      BY <2>2, <3>1, <3>2, <1>3 DEF Admits
  <2> QED
    BY <1>4, <2>1, <2>2
<1>12. DeliveryEnds(c)
  BY <1>3, <1>4, <1>7 DEF Good, DeliveryEnds
<1>13. AttemptsBounded(c)
  <2>1. new.attempt <= n
    BY NextAttemptIsNext
  <2> QED
    BY <1>3, <1>4, <2>1 DEF Good, AttemptsBounded
<1> QED
  BY <1>2, <1>3, <1>8, <1>9, <1>10, <1>11, <1>12, <1>13 DEF Good, c

-----------------------------------------------------------------------------
(* The operations: each makes a Good candidate that is ahead of its        *)
(* snapshot, whichever snapshot it starts from.                            *)

(* enqueueResearch and enqueueDelivery.                                    *)
LEMMA EnqueueCandidate ==
  ASSUME NEW q, Good(q), NEW new \in Job, new.state = "pending",
         Admits(q, new), new.attempt = NextAttempt(q, new)
  PROVE  Good(Append(q, new)) /\ Ahead(q, Append(q, new))
<1>1. \A k \in DOMAIN q : q[k] \in Job /\ NeverBehind(q[k], q[k])
  BY Positions DEF Good, NeverBehind, MayMove, SameWork
<1> QED
  BY <1>1, AppendKeepsGood DEF Ahead

\* enqueueResearch and enqueueDelivery make well-formed, pending, numbered jobs.
LEMMA NewResearchJob ==
  ASSUME NEW q, Good(q), NEW slot \in Slots, NEW chs \in SUBSET Channels
  PROVE  /\ NewResearch(q, slot, chs) \in Job
         /\ NewResearch(q, slot, chs).state = "pending"
         /\ NewResearch(q, slot, chs).attempt = NextAttempt(q, NewResearch(q, slot, chs))
<1> DEFINE work == [kind |-> "research", target |-> slot, channel |-> NoChannel]
           new  == NewResearch(q, slot, chs)
<1>1. NextAttempt(q, work) \in Nat \ {0}
  BY NextAttemptIsNext
<1>2. new \in ResearchJob /\ new.state = "pending" /\ new.attempt = NextAttempt(q, work)
  BY <1>1, JobErrorsAssumption DEF NewResearch, ResearchJob, JobState, Active
<1>3. Prior(q, work) = Prior(q, new)
  BY DEF Prior, SameWork, NewResearch
<1> QED
  BY <1>2, <1>3 DEF NextAttempt, Job

LEMMA NewDeliveryJob ==
  ASSUME NEW q, Good(q), NEW run \in Runs, NEW ch \in Channels,
         NEW manual \in BOOLEAN, NEW resend \in BOOLEAN, NEW ack \in BOOLEAN
  PROVE  LET new == NewDelivery(q, run, ch, manual, resend, ack)
         IN  /\ new \in Job
             /\ new.state = "pending"
             /\ new.attempt = NextAttempt(q, new)
<1> DEFINE work == [kind |-> "delivery", target |-> run, channel |-> ch]
           new  == NewDelivery(q, run, ch, manual, resend, ack)
<1>1. NextAttempt(q, work) \in Nat \ {0}
  BY NextAttemptIsNext
<1>2. new \in DeliveryJob /\ new.state = "pending" /\ new.attempt = NextAttempt(q, work)
  BY <1>1, JobErrorsAssumption DEF NewDelivery, DeliveryJob, JobState, Active
<1>3. Prior(q, work) = Prior(q, new)
  BY DEF Prior, SameWork, NewDelivery
<1> QED
  BY <1>2, <1>3 DEF NextAttempt, Job

(* nextPending.  A pending job that is first exists: positions are bounded *)
(* below.                                                                  *)
LEMMA FirstPendingExists ==
  ASSUME NEW q, Good(q), \E i \in DOMAIN q : q[i].state = "pending"
  PROVE  FirstPending(q) \in DOMAIN q /\ q[FirstPending(q)].state = "pending"
<1> DEFINE P == {i \in DOMAIN q : q[i].state = "pending"}
<1>1. P \in SUBSET Nat /\ P # {}
  BY Positions DEF Good
<1>2. \E i \in P : \A k \in P : i <= k
  BY <1>1, LeastExists
<1>3. \E i \in DOMAIN q :
        /\ q[i].state = "pending"
        /\ \A k \in DOMAIN q : q[k].state = "pending" => i <= k
  BY <1>2
<1> QED
  BY <1>3 DEF FirstPending

\* The snapshot with the first pending job claimed.
LEMMA ClaimCandidate ==
  ASSUME NEW q, Good(q), CanClaim(q), NEW c,
         c = SetState(q, FirstPending(q), "running", "none")
  PROVE  Good(c) /\ Ahead(q, c)
<1> DEFINE i   == FirstPending(q)
           new == Moved(q[i], "running", "none")
<1>1. i \in DOMAIN q /\ q[i].state = "pending" /\ q[i] \in Job
  BY FirstPendingExists, Positions DEF Good, CanClaim
<1>2. "running" \in JobState \ (Terminal \cup {"pending"})
  BY DEF JobState, Active, Terminal
<1>3. new \in Job /\ new.state = "running" /\ SameDuty(new, q[i])
  BY <1>1, <1>2, JobErrorsAssumption, MovedJob
<1>4. c = [q EXCEPT ![i] = new]
  BY DEF SetState
<1> HIDE DEF i, new
<1>5. q[i].state \notin Terminal
  BY <1>1 DEF Terminal
<1>6. \A k \in DOMAIN q : q[k].state \notin Claimed
  BY DEF CanClaim
<1>7. /\ Good(c)
      /\ Len(c) = Len(q)
      /\ \A k \in DOMAIN q : c[k] = IF k = i THEN new ELSE q[k]
  BY <1>1, <1>3, <1>4, <1>5, <1>6, ReplaceKeepsGood
<1>8. MayMove(q[i], "running")
  BY <1>1 DEF MayMove, AllowedTransitions, JobState, Active
<1>9. \A k \in DOMAIN q : NeverBehind(q[k], c[k])
  BY <1>1, <1>3, <1>7, <1>8 DEF NeverBehind, SameDuty, SameWork, MayMove
<1> QED
  BY <1>7, <1>9 DEF Ahead

(* transition, to a state its callers ask for.                             *)
LEMMA TransitionCandidate ==
  ASSUME NEW q, Good(q), NEW i \in DOMAIN q, NEW s, NEW err \in JobErrors,
         s \in Outcomes(q[i]) \cup {q[i].state}, MayMove(q[i], s),
         NEW c, c = SetState(q, i, s, err)
  PROVE  Good(c) /\ Ahead(q, c)
<1> DEFINE new == Moved(q[i], s, err)
<1>1. q[i] \in Job /\ s \in JobState
  BY Positions, MoveTyped DEF Good
<1>2. new \in Job /\ new.state = s /\ SameDuty(new, q[i])
  BY <1>1, MovedJob
<1>3. c = [q EXCEPT ![i] = new]
  BY DEF SetState
<1> HIDE DEF new
<1>0. Good(q) /\ i \in DOMAIN q
  OBVIOUS
<1>4. s \in Claimed => q[i].state \in Claimed
  BY DEF Outcomes, Claimed
<1>5. s \in Claimed => \A k \in DOMAIN q : q[k].state \in Claimed => k = i
  BY <1>4 DEF Good, OneClaim
<1>6. q[i].kind = "delivery" => s \notin {"interrupted", "partialSuccess"}
  BY DEF Outcomes, Good, DeliveryEnds
<1>7. q[i].state \in Terminal => s \in Terminal
  BY <1>1, EndedMoves
<1>8. q[i].kind = "delivery" /\ q[i].state \in Terminal =>
        \/ s = q[i].state
        \/ q[i].state = "deliveryUnknown" /\ s = "succeeded"
  BY <1>1, <1>6, EndedMoves DEF Good, DeliveryEnds
<1>9. /\ new.kind = "delivery" => new.state \notin {"interrupted", "partialSuccess"}
      /\ new.kind = "delivery" /\ q[i].state \in Terminal =>
           \/ new.state = q[i].state
           \/ q[i].state = "deliveryUnknown" /\ new.state = "succeeded"
      /\ new.state \in Claimed => \A k \in DOMAIN q : q[k].state \in Claimed => k = i
      /\ q[i].state \in Terminal => new.state \in Terminal
  BY <1>2, <1>5, <1>6, <1>7, <1>8 DEF SameDuty, SameWork
<1>10. /\ Good(c)
       /\ Len(c) = Len(q)
       /\ \A k \in DOMAIN q : c[k] = IF k = i THEN new ELSE q[k]
  BY ONLY <1>0, <1>2, <1>3, <1>9, ReplaceKeepsGood
<1>11. \A k \in DOMAIN q : NeverBehind(q[k], c[k])
  BY <1>2, <1>10 DEF NeverBehind, SameDuty, SameWork, MayMove
<1> QED
  BY <1>10, <1>11 DEF Ahead

(* releaseUnstarted.                                                       *)
LEMMA ReleaseCandidate ==
  ASSUME NEW q, Good(q), NEW i \in DOMAIN q, q[i].state = "running",
         NEW c, c = Released(q, i)
  PROVE  Good(c) /\ Ahead(q, c)
<1>0. Good(q) /\ i \in DOMAIN q
  OBVIOUS
<1>1. PICK new : new = [q[i] EXCEPT !.state = "pending"]
  OBVIOUS
<1>2. q[i] \in Job
  BY Positions DEF Good
<1>3. new \in Job /\ new.state = "pending" /\ SameDuty(new, q[i])
  BY <1>1, <1>2, ReleasedJob
<1>4. c = [q EXCEPT ![i] = new]
  BY <1>1 DEF Released
<1>5. /\ new.kind = "delivery" => new.state \notin {"interrupted", "partialSuccess"}
      /\ new.kind = "delivery" /\ q[i].state \in Terminal =>
           \/ new.state = q[i].state
           \/ q[i].state = "deliveryUnknown" /\ new.state = "succeeded"
      /\ new.state \in Claimed => \A k \in DOMAIN q : q[k].state \in Claimed => k = i
      /\ q[i].state \in Terminal => new.state \in Terminal
  BY <1>3 DEF Claimed, Terminal
<1>6. /\ Good(c)
      /\ Len(c) = Len(q)
      /\ \A k \in DOMAIN q : c[k] = IF k = i THEN new ELSE q[k]
  BY ONLY <1>0, <1>3, <1>4, <1>5, ReplaceKeepsGood
<1>7. \A k \in DOMAIN q : NeverBehind(q[k], c[k])
  BY <1>3, <1>6 DEF NeverBehind, SameDuty, SameWork, MayMove
<1> QED
  BY <1>6, <1>7 DEF Ahead

(* A write that persists a Good candidate ahead of the snapshot keeps the  *)
(* invariant, whether it is acknowledged, lost, or done and not            *)
(* acknowledged; and what the memory then holds is the old snapshot or the *)
(* candidate.                                                              *)
LEMMA PersistKeepsInv ==
  ASSUME QueueInv, NEW c, Good(c), Ahead(jobs, c), Persist(c)
  PROVE  QueueInv' /\ Ahead(jobs, jobs')
<1>1. \A q : Good(q) => Ahead(q, q)
  BY DEF Good, Ahead, NeverBehind, MayMove, SameWork
<1> QED
  BY <1>1 DEF QueueInv, Persist, Commit, WriteFails

-----------------------------------------------------------------------------
(* The theorems.                                                           *)

\* The invariant holds of the empty queue.
LEMMA InitQueueInv == QueueInit => QueueInv
<1> SUFFICES ASSUME QueueInit PROVE QueueInv
  OBVIOUS
<1>1. jobs = <<>> /\ saved = <<>>
  BY DEF QueueInit
<1>2. <<>> \in Seq(Job) /\ Len(<<>>) = 0 /\ DOMAIN <<>> = {}
  BY EmptySeq
<1> QED
  BY <1>1, <1>2 DEF QueueInv, Good, Ahead, OneClaim, EarlierEnded, AttemptsOrdered,
       RepeatsConfirmed, DeliveryEnds, AttemptsBounded

(* Every step of the queue keeps the invariant and moves the snapshot in   *)
(* memory to one that is ahead of it.                                      *)
LEMMA NextQueueInv ==
  ASSUME QueueInv, [QueueNext]_queueVars
  PROVE  QueueInv' /\ Ahead(jobs, jobs')
<1>1. Good(jobs) /\ Good(saved) /\ Ahead(jobs, saved)
  BY DEF QueueInv
<1>2. ASSUME NEW new \in Job, new.state = "pending",
             new.attempt = NextAttempt(jobs, new), Enqueue(new)
      PROVE  QueueInv' /\ Ahead(jobs, jobs')
  BY <1>1, <1>2, EnqueueCandidate, PersistKeepsInv DEF Enqueue
<1>3. ASSUME NEW slot \in Slots, NEW chs \in SUBSET Channels, EnqueueResearch(slot, chs)
      PROVE  QueueInv' /\ Ahead(jobs, jobs')
  BY <1>1, <1>2, <1>3, NewResearchJob DEF EnqueueResearch
<1>4. ASSUME NEW run \in Runs, NEW ch \in Channels, NEW manual \in BOOLEAN,
             NEW resend \in BOOLEAN, NEW ack \in BOOLEAN,
             EnqueueDelivery(run, ch, manual, resend, ack)
      PROVE  QueueInv' /\ Ahead(jobs, jobs')
  BY <1>1, <1>2, <1>4, NewDeliveryJob DEF EnqueueDelivery
<1>5. CASE NextPending
  BY <1>1, <1>5, ClaimCandidate, PersistKeepsInv DEF NextPending
<1>6. ASSUME NEW i \in DOMAIN jobs, NEW err \in JobErrors,
             NEW s \in Outcomes(jobs[i]) \cup {jobs[i].state}, Transition(i, s, err)
      PROVE  QueueInv' /\ Ahead(jobs, jobs')
  BY <1>1, <1>6, TransitionCandidate, PersistKeepsInv DEF Transition
<1>7. ASSUME NEW i \in DOMAIN jobs, ReleaseUnstarted(i)
      PROVE  QueueInv' /\ Ahead(jobs, jobs')
  BY <1>1, <1>7, ReleaseCandidate, PersistKeepsInv DEF ReleaseUnstarted
<1>8. CASE Relaunch
  <2>1. jobs' = saved /\ saved' = saved
    BY <1>8 DEF Relaunch
  <2>2. Ahead(saved, saved)
    BY DEF Ahead, NeverBehind, MayMove, SameWork
  <2> QED
    BY <1>1, <2>1, <2>2 DEF QueueInv
<1>9. CASE UNCHANGED queueVars
  <2>1. Ahead(jobs, jobs)
    BY DEF Ahead, NeverBehind, MayMove, SameWork
  <2> QED
    BY <1>9, <2>1 DEF queueVars, QueueInv
<1> QED
  BY <1>3, <1>4, <1>5, <1>6, <1>7, <1>8, <1>9 DEF QueueNext

(* The invariant holds of every behaviour of the queue.                    *)
THEOREM QueueInvariant == QueueSpec => []QueueInv
<1>1. QueueInv /\ [QueueNext]_queueVars => QueueInv'
  BY NextQueueInv
<1> QED
  BY InitQueueInv, <1>1, PTL DEF QueueSpec

(* Type correctness of the snapshot in memory and of the file.             *)
THEOREM QueueTypeCorrect == QueueSpec => []QueueTypeOK
<1>1. QueueInv => QueueTypeOK
  BY DEF QueueInv, Good, QueueTypeOK
<1> QED
  BY QueueInvariant, <1>1, PTL

(* At most one job is claimed, in memory and in what a launch would load.  *)
THEOREM QueueSerialized == QueueSpec => []SerializedQueue
<1>1. QueueInv => SerializedQueue
  BY DEF QueueInv, Good, SerializedQueue
<1> QED
  BY QueueInvariant, <1>1, PTL

(* Work is not duplicated, and its attempts are numbered in order.         *)
THEOREM QueueWorkOnce == QueueSpec => [](NoDuplicateWork /\ AttemptsNumbered)
<1>1. QueueInv => NoDuplicateWork /\ AttemptsNumbered
  BY DEF QueueInv, Good, NoDuplicateWork, AttemptsNumbered
<1> QED
  BY QueueInvariant, <1>1, PTL

(* A delivery whose outcome is unknown or which succeeded is never         *)
(* repeated unless the job that repeats it carries the user's consent.     *)
THEOREM QueueRepeatsConfirmed == QueueSpec => []NoUnconfirmedRepeat
<1>1. QueueInv => NoUnconfirmedRepeat
  BY DEF QueueInv, Good, NoUnconfirmedRepeat
<1> QED
  BY QueueInvariant, <1>1, PTL

(* What was acknowledged is in the file.                                   *)
THEOREM QueueDurable == QueueSpec => []DurableNotBehind
<1>1. QueueInv => DurableNotBehind
  BY DEF QueueInv, Ahead, DurableNotBehind
<1> QED
  BY QueueInvariant, <1>1, PTL

(* A snapshot ahead of another keeps every ended job ended.                *)
LEMMA AheadKeepsEnded ==
  ASSUME NEW q \in Seq(Job), NEW c \in Seq(Job), Ahead(q, c),
         NEW i \in DOMAIN q, q[i].state \in Terminal
  PROVE  i \in DOMAIN c /\ c[i].state \in Terminal
<1>1. /\ q[i] \in Job
      /\ i \in 1 .. Len(q)
      /\ Len(q) \in Nat
      /\ DOMAIN c = 1 .. Len(c)
  BY Positions
<1>2. Len(c) \in {Len(q), Len(q) + 1}
  BY DEF Ahead
<1>3. i \in DOMAIN c
  <2>1. i \in Nat /\ 1 <= i /\ i <= Len(q)
    BY <1>1
  <2>2. Len(c) = Len(q) \/ Len(c) = Len(q) + 1
    BY <1>2
  <2>3. Len(q) \in Nat /\ Len(c) \in Nat
    BY Positions
  <2>4. Len(q) <= Len(c)
    BY <2>2, <2>3
  <2> QED
    BY <1>1, <2>1, <2>3, <2>4
<1>4. NeverBehind(q[i], c[i])
  BY DEF Ahead
<1>5. q[i].state # "running"
  BY DEF Terminal
<1>6. MayMove(q[i], c[i].state)
  BY <1>4, <1>5 DEF NeverBehind
<1> QED
  BY <1>1, <1>3, <1>6, EndedMoves

(* An ended job stays ended in every step, relaunches included.            *)
THEOREM QueueEndedStaysEnded == QueueSpec => EndedStaysEnded
<1> DEFINE Stays == \A i \in DOMAIN jobs :
                      jobs[i].state \in Terminal =>
                        i \in DOMAIN jobs' /\ jobs'[i].state \in Terminal
<1>1. QueueInv /\ QueueInv' /\ [QueueNext]_queueVars => [Stays]_queueVars
  <2> SUFFICES ASSUME QueueInv, QueueInv', [QueueNext]_queueVars,
                      NEW i \in DOMAIN jobs, jobs[i].state \in Terminal
               PROVE  i \in DOMAIN jobs' /\ jobs'[i].state \in Terminal
    OBVIOUS
  <2>1. Ahead(jobs, jobs')
    BY NextQueueInv
  <2>2. jobs \in Seq(Job) /\ jobs' \in Seq(Job)
    BY DEF QueueInv, Good
  <2> QED
    BY <2>1, <2>2, AheadKeepsEnded
<1> QED
  BY QueueInvariant, <1>1, PTL DEF QueueSpec, EndedStaysEnded


-----------------------------------------------------------------------------
(* The queue under its coordinator.                                        *)

\* What no operation changes in a job.
SameRequest(new, old) ==
  /\ SameDuty(new, old)
  /\ new.requested = old.requested /\ new.manual = old.manual

Extends(q, c) ==
  DOMAIN q \subseteq DOMAIN c /\ \A k \in DOMAIN q : SameRequest(c[k], q[k])

\* c is q after one operation at most.
OneChange(q, c) ==
  /\ Ahead(q, c) /\ Extends(q, c)
  /\ \A i, k \in DOMAIN q : c[i] # q[i] /\ c[k] # q[k] => i = k
  /\ \A k \in DOMAIN c \ DOMAIN q :
       k = Len(q) + 1 /\ c[k].state = "pending" /\ \A i \in DOMAIN q : c[i] = q[i]

\* There is room for the deliveries that the research jobs still owe.
Room(q) == Len(q) <= MaxJobs /\ Len(q) + Cardinality(Owed(q)) <= MaxJobs

\* The confirmation of an unknown outcome allows a resend, and what nobody
\* asked for is enqueued once.
Asked(q) ==
  /\ \A i \in DOMAIN q : q[i].acknowledge => q[i].allowResend
  /\ \A i, k \in DOMAIN q :
       q[i].kind = "delivery" /\ ~q[i].manual /\ ~q[k].manual /\ SameWork(q[i], q[k]) => i = k

\* The queue says no more than the engine did.
Truthful(q) ==
  \A i \in DOMAIN q :
    /\ q[i].state = "pending" => proc[i] = "none"
    /\ q[i].kind = "delivery" =>
         /\ q[i].state = "succeeded" => art[i] = "ready"
         /\ q[i].state \in {"failed", "cancelled"} => proc[i] = "none"

QueueFacts ==
  /\ QueueInv /\ OneChange(jobs, saved)
  /\ Room(jobs) /\ Room(saved)
  /\ Asked(jobs) /\ Asked(saved)
  /\ Truthful(jobs) /\ Truthful(saved)

\* No process, no trace; and a delivery's result comes after it was sent.
EngineFacts ==
  \A i \in Runs :
    /\ proc[i] = "none" => art[i] = "none" /\ i \notin sentBy
    /\ proc[i] # "none" => i \in DOMAIN jobs
    /\ i \in DOMAIN jobs /\ jobs[i].kind = "delivery" /\ art[i] \in Result =>
         i \in sentBy /\ art[i] # "empty"

-----------------------------------------------------------------------------
(* The report index.                                                       *)

\* A report is the result of its research job; the records of its channels
\* are those it owes and those that a delivery job made.
Kept(r) ==
  \A i \in Runs :
    /\ r[i].exists =>
         /\ i \in DOMAIN jobs /\ jobs[i].kind = "research"
         /\ art[i] \in {"ready", "empty"} /\ r[i].effective = (art[i] = "ready")
    /\ r[i].effective => r[i].exists
    /\ \A ch \in Channels :
         /\ r[i].delivery[ch] # "absent" => r[i].exists
         /\ r[i].effective /\ ch \in jobs[i].requested => r[i].delivery[ch] # "absent"
         /\ r[i].delivery[ch] = "pending" => r[i].effective /\ ch \in jobs[i].requested
         /\ r[i].delivery[ch] \notin {"absent", "pending"} =>
              \E k \in DOMAIN jobs : Delivers(jobs[k], i, ch)
         /\ r[i].delivery[ch] = "sent" =>
              \E k \in DOMAIN jobs : Delivers(jobs[k], i, ch) /\ art[k] = "ready"

\* Successful research is in the index, and so is what is delivered.
Recorded(q) ==
  \A i \in DOMAIN q :
    /\ q[i].kind = "research" /\ q[i].state = "succeeded" => reports[i].exists
    /\ q[i].kind = "delivery" => reports[q[i].target].exists

ReportFacts ==
  /\ Kept(reports) /\ Kept(savedReports)
  /\ Recorded(jobs) /\ Recorded(saved)
  /\ \A i \in Runs : reports[i].exists => savedReports[i].exists

\* After a fault nothing is written until memory and files are the same.
Waits == app = "faulted" /\ co.pc = "idle"

Synced ==
  \/ Waits
  \/ /\ \A i \in DOMAIN jobs : saved[i] = jobs[i]
     /\ \A run \in Runs, ch \in Channels :
          \/ savedReports[run].delivery[ch] = reports[run].delivery[ch]
          \/ /\ reports[run].delivery[ch] = "absent"
             /\ savedReports[run].delivery[ch] = "notRequested"

LatestIn(q, i) == \A k \in Prior(q, q[i]) : q[k].attempt <= q[i].attempt

Shown(r, job) == r[job.target].delivery[job.channel]

\* A late result is in the index, and a reconciliation will move the job.
Late(job, a, r) ==
  /\ job.state = "deliveryUnknown" /\ Shown(r, job) = "sent"
  /\ job.error # "terminal_invalid" /\ a = "ready"

\* The index shows the outcome of the last attempt.
Agrees(q, r) ==
  \A i \in DOMAIN q :
    q[i].kind = "delivery" /\ LatestIn(q, i) =>
      /\ q[i].state = "succeeded" => Shown(r, q[i]) = "sent"
      /\ q[i].state = "deliveryUnknown" =>
           Shown(r, q[i]) = "unknown" \/ Late(q[i], art[i], r)

\* Late results are on the list of the reconciliation, or it is still due.
Mending ==
  \A i \in DOMAIN jobs :
    jobs[i].kind = "delivery" /\ LatestIn(jobs, i) /\ Late(jobs[i], art[i], reports) =>
      /\ app # "ready"
      /\ \/ co.pc = "idle" \/ i \in co.work
         \/ co.job = i /\ co.pc \in {"persist", "move"} /\ co.outcome.state = "succeeded"

IndexFacts ==
  /\ Agrees(jobs, reports) /\ Agrees(jobs, savedReports) /\ Agrees(saved, savedReports)
  /\ Mending

-----------------------------------------------------------------------------
(* The coordinator.                                                        *)

InHand == {"admit", "launch", "running", "persist", "move"}

Types ==
  /\ reports \in [Runs -> Report] /\ savedReports \in [Runs -> Report]
  /\ art \in [Runs -> Artifact]
  /\ proc \in [Runs -> {"none", "alive", "orphan", "gone"}]
  /\ sentBy \subseteq Runs
  /\ DOMAIN co = {"pc", "mode", "job", "outcome", "work", "todo"}
  /\ co.pc \in InHand \cup {"idle", "restore", "next"}
  /\ co.mode \in {"run", "reconcile"}
  /\ co.job \in {0} \cup DOMAIN jobs
  /\ co.work \subseteq DOMAIN jobs /\ co.todo \subseteq Runs \X Channels
  /\ app \in {"launched", "ready", "faulted"}
  /\ needsRecon \in BOOLEAN /\ stuck \in BOOLEAN

Working ==
  /\ co.pc = "idle" => co = Idle
  /\ co.pc # "idle" => (co.mode = "run" <=> app = "ready")
  /\ co.mode = "run" => co.work = {}
  /\ co.pc # "restore" => co.todo = {}
  /\ co.pc = "restore" /\ co.job = 0 => co.mode = "reconcile" /\ co.work = {}
  /\ co.pc \in {"admit", "launch", "running"} => co.mode = "run"
  /\ co.pc \in InHand => co.job \in DOMAIN jobs
  /\ co.pc \in InHand /\ co.mode = "run" => jobs[co.job].state = "running"
  /\ co.pc \in {"admit", "launch"} => proc[co.job] = "none"

\* The outcome that is being persisted is one the engine justifies.
Justified(i, out) ==
  /\ out.state \in Outcomes(jobs[i]) \ {"partialSuccess"}
  /\ out.error \in {"none", "terminal_invalid"}
  /\ out.state = "succeeded" =>
       /\ out.error = "none" /\ out.effective = (art[i] = "ready")
       /\ art[i] \in {"ready", "empty"}
       /\ jobs[i].kind = "delivery" => art[i] = "ready"
  /\ jobs[i].kind = "delivery" =>
       /\ out.state \in {"failed", "cancelled"} =>
            proc[i] = "none" /\ jobs[i].state # "deliveryUnknown"
       /\ jobs[i].state = "deliveryUnknown" => jobs[i].error # "terminal_invalid"
       /\ out.state = "deliveryUnknown" /\ ~jobs[i].allowResend /\ LatestIn(jobs, i) =>
            Shown(reports, jobs[i]) # "sent"

Deciding == co.pc \in {"persist", "move"} => Justified(co.job, co.outcome)

\* The index was written, and the queue is not yet.
Moving ==
  co.pc = "move" =>
    LET job == jobs[co.job]
        out == co.outcome
    IN  /\ out.state = "succeeded" \/ job.state \notin {"succeeded", "partialSuccess"}
        /\ job.kind = "research" /\ out.state = "succeeded" => reports[co.job].exists
        /\ job.kind = "delivery" /\ LatestIn(jobs, co.job) =>
             /\ out.state = "succeeded" => Shown(reports, job) = "sent"
             /\ out.state = "deliveryUnknown" => Shown(reports, job) = "unknown"
        /\ reports = savedReports

Due(i, ch) == Owes(jobs, i, ch) /\ reports[i].effective

\* What a report owes is enqueued in this round or has been.
Restoring ==
  /\ \A due \in co.todo :
       /\ due[1] \in DOMAIN jobs /\ jobs[due[1]].kind = "research"
       /\ due[2] \in jobs[due[1]].requested /\ reports[due[1]].exists
       /\ \A k \in DOMAIN jobs : Delivers(jobs[k], due[1], due[2]) =>
            jobs[k].manual /\ jobs[k].state = "pending"
  /\ co.pc = "restore" /\ co.job = 0 =>
       \A i \in DOMAIN jobs, ch \in Channels : Due(i, ch) => <<i, ch>> \in co.todo
  /\ app = "ready" =>
       \A i \in DOMAIN jobs, ch \in Channels :
         Due(i, ch) /\ jobs[i].state = "succeeded" =>
           co.pc = "restore" /\ <<i, ch>> \in co.todo

CoordinatorInv ==
  /\ Types /\ QueueFacts /\ EngineFacts /\ ReportFacts /\ Synced /\ IndexFacts
  /\ Working /\ Deciding /\ Moving /\ Restoring

-----------------------------------------------------------------------------
(* What the operations make of a snapshot of the queue.                    *)

\* Requests are the same as themselves, and pass that on.
LEMMA SameRequestEquivalence ==
  /\ \A a : SameRequest(a, a)
  /\ \A a, b, c : SameRequest(a, b) /\ SameRequest(b, c) => SameRequest(a, c)
  BY DEF SameRequest, SameDuty, SameWork

(* transition() and releaseUnstarted() keep what was requested.            *)
LEMMA MovedRequest ==
  ASSUME NEW job \in Job, NEW s \in JobState, NEW err \in JobErrors
  PROVE  /\ SameRequest(Moved(job, s, err), job)
         /\ Moved(job, s, err).error = "terminal_invalid" =>
              job.error = "terminal_invalid" \/ err = "terminal_invalid"
<1>1. CASE job \in ResearchJob
  BY <1>1, MovedJob DEF ResearchJob, SameRequest, Moved
<1>2. CASE job \in DeliveryJob
  BY <1>2, MovedJob DEF DeliveryJob, SameRequest, Moved
<1> QED
  BY <1>1, <1>2 DEF Job

\* A job that is released is the same request.
LEMMA ReleasedRequest ==
  ASSUME NEW job \in Job, NEW new, new = [job EXCEPT !.state = "pending"]
  PROVE  SameRequest(new, job) /\ new.error = job.error
<1>1. CASE job \in ResearchJob
  BY <1>1, ReleasedJob DEF ResearchJob, SameRequest
<1>2. CASE job \in DeliveryJob
  BY <1>2, ReleasedJob DEF DeliveryJob, SameRequest
<1> QED
  BY <1>1, <1>2 DEF Job

(* The kinds of jobs, and what only one kind has.                          *)
LEMMA Kinds ==
  ASSUME NEW job \in Job
  PROVE  /\ job.kind \in {"research", "delivery"}
         /\ job.requested \subseteq Channels
         /\ job.kind = "delivery" => job.target \in Runs /\ job.channel \in Channels
         /\ job.kind = "delivery" => job.requested = {}
         /\ job.kind = "research" => ~job.acknowledge
         /\ job.acknowledge \in BOOLEAN /\ job.allowResend \in BOOLEAN
  BY DEF Job, ResearchJob, DeliveryJob

(* Jobs that ask for the same owe the same.                                *)
LEMMA SameOwed ==
  ASSUME NEW q, NEW c, DOMAIN c = DOMAIN q, \A k \in DOMAIN q : SameRequest(c[k], q[k])
  PROVE  Owed(c) = Owed(q)
<1>1. \A k \in DOMAIN q : /\ c[k].kind = q[k].kind /\ c[k].target = q[k].target
                          /\ c[k].channel = q[k].channel /\ c[k].requested = q[k].requested
  BY DEF SameRequest, SameDuty, SameWork
<1> QED
  BY <1>1 DEF Owed, Owes, Delivers

(* A job is replaced by one that asks for the same.                        *)
LEMMA Restating ==
  ASSUME NEW q, Good(q), Room(q), Asked(q), NEW i \in DOMAIN q, NEW new,
         SameRequest(new, q[i]), NEW c, c = [q EXCEPT ![i] = new], Good(c), Ahead(q, c)
  PROVE  /\ DOMAIN c = DOMAIN q
         /\ \A k \in DOMAIN q : c[k] = IF k = i THEN new ELSE q[k]
         /\ OneChange(q, c) /\ Room(c) /\ Asked(c)
<1>1. DOMAIN c = DOMAIN q /\ \A k \in DOMAIN q : c[k] = IF k = i THEN new ELSE q[k]
  OBVIOUS
<1>2. \A k \in DOMAIN q : SameRequest(c[k], q[k])
  BY <1>1, SameRequestEquivalence
<1>3. OneChange(q, c)
  BY <1>1, <1>2 DEF OneChange, Extends
<1>4. Len(c) = Len(q)
  BY <1>1, Positions DEF Good
<1>5. Room(c)
  BY <1>1, <1>2, <1>4, SameOwed DEF Room
<1>6. Asked(c)
  BY <1>1, <1>2 DEF Asked, SameRequest, SameDuty, SameWork
<1> QED
  BY <1>1, <1>3, <1>5, <1>6

Appended(q, new, c) ==
  /\ Len(c) = Len(q) + 1 /\ DOMAIN c = DOMAIN q \cup {Len(q) + 1}
  /\ Len(q) + 1 \notin DOMAIN q
  /\ c[Len(q) + 1] = new /\ \A k \in DOMAIN q : c[k] = q[k]

(* A new job is appended.                                                  *)
LEMMA Appending ==
  ASSUME NEW q, Good(q), Asked(q), NEW new \in Job, new.state = "pending",
         Admits(q, new), new.attempt = NextAttempt(q, new),
         new.acknowledge => new.allowResend,
         new.kind = "delivery" /\ ~new.manual => Prior(q, new) = {},
         NEW c, c = Append(q, new)
  PROVE  Appended(q, new, c) /\ Good(c) /\ OneChange(q, c) /\ Asked(c)
<1>1. Len(q) \in Nat /\ DOMAIN q = 1 .. Len(q) /\ q \in Seq(Job)
  BY Positions DEF Good
<1>2. Good(c) /\ Len(c) = Len(q) + 1 /\ \A k \in DOMAIN q : c[k] = q[k]
  BY AppendKeepsGood
<1>3. Ahead(q, c)
  BY EnqueueCandidate
<1>4. c[Len(q) + 1] = new /\ DOMAIN c = 1 .. Len(q) + 1
  BY <1>1, <1>2, Positions DEF Good
<1>5. DOMAIN c = DOMAIN q \cup {Len(q) + 1} /\ Len(q) + 1 \notin DOMAIN q
  BY <1>1, <1>4
<1>6. OneChange(q, c)
  BY <1>2, <1>3, <1>4, <1>5, SameRequestEquivalence DEF OneChange, Extends
<1>7. Asked(c)
  BY <1>2, <1>4, <1>5 DEF Asked, Prior, SameWork
<1> QED
  BY <1>2, <1>4, <1>5, <1>6, <1>7 DEF Appended

(* The rooms are finite, so that they can be counted.                      *)
LEMMA OwedFinite ==
  ASSUME NEW q, Good(q)
  PROVE  IsFiniteSet(Owed(q)) /\ Cardinality(Owed(q)) \in Nat
<1>1. IsFiniteSet(DOMAIN q)
  BY Positions, FS_Interval DEF Good
<1>2. IsFiniteSet((DOMAIN q) \X Channels)
  BY <1>1, ChannelsFinite, FS_Product
<1>3. Owed(q) \in SUBSET ((DOMAIN q) \X Channels)
  BY DEF Owed
<1> QED
  BY <1>2, <1>3, FS_Subset, FS_CardinalityType

(* A new research job owes at most its channels.                           *)
LEMMA RoomForResearch ==
  ASSUME NEW q, Good(q), NEW c, Good(c), NEW chs \in SUBSET Channels,
         Len(c) = Len(q) + 1, DOMAIN c = DOMAIN q \cup {Len(q) + 1},
         \A k \in DOMAIN q : c[k] = q[k],
         c[Len(q) + 1].kind = "research", c[Len(q) + 1].requested = chs,
         Len(q) + Cardinality(Owed(q)) + 1 + Cardinality(chs) <= MaxJobs
  PROVE  Room(c)
<1> DEFINE new == {Len(q) + 1} \X chs
<1>1. Len(q) \in Nat /\ IsFiniteSet(chs)
  BY ChannelsFinite, FS_Subset, Positions DEF Good
<1>2. IsFiniteSet(new) /\ Cardinality(new) = Cardinality(chs) /\ Cardinality(chs) \in Nat
  <2>1. IsFiniteSet({Len(q) + 1}) /\ Cardinality({Len(q) + 1}) = 1
    BY FS_Singleton
  <2>2. IsFiniteSet(new) /\ Cardinality(new) = 1 * Cardinality(chs)
    BY <1>1, <2>1, FS_Product
  <2> QED
    BY <1>1, <2>2, FS_CardinalityType
<1> HIDE DEF new
<1>3. Owed(c) \subseteq Owed(q) \cup new
  <2> SUFFICES ASSUME NEW due \in Owed(c), due \notin new PROVE due \in Owed(q)
    OBVIOUS
  <2>1. due \in (DOMAIN c) \X Channels /\ Owes(c, due[1], due[2])
    BY DEF Owed
  <2>2. due[1] \in DOMAIN q
    BY <2>1 DEF Owes, new
  <2>3. Owes(q, due[1], due[2])
    BY <2>1, <2>2 DEF Owes
  <2> QED
    BY <2>1, <2>2, <2>3 DEF Owed
<1>4. /\ IsFiniteSet(Owed(q) \cup new)
      /\ Cardinality(Owed(q) \cup new) <= Cardinality(Owed(q)) + Cardinality(new)
  <2>1. IsFiniteSet(Owed(q) \cap new) /\ Cardinality(Owed(q) \cap new) \in Nat
    BY OwedFinite, FS_Intersection, FS_CardinalityType
  <2>2. IsFiniteSet(Owed(q)) /\ Cardinality(Owed(q)) \in Nat
    BY OwedFinite
  <2>3. IsFiniteSet(Owed(q) \cup new)
        /\ Cardinality(Owed(q) \cup new)
             = Cardinality(Owed(q)) + Cardinality(new) - Cardinality(Owed(q) \cap new)
    BY <1>2, <2>2, FS_Union
  <2> QED
    BY <1>2, <2>1, <2>2, <2>3
<1>5. Cardinality(Owed(c)) <= Cardinality(Owed(q) \cup new)
  BY <1>3, <1>4, FS_Subset
<1>6. Cardinality(Owed(c)) \in Nat /\ Cardinality(Owed(q)) \in Nat
      /\ Cardinality(Owed(q) \cup new) \in Nat
  BY <1>4, OwedFinite, FS_CardinalityType
<1> QED
  BY <1>1, <1>2, <1>4, <1>5, <1>6, MaxJobsAssumption DEF Room

(* A new delivery job owes nothing, and pays what is owed for its report   *)
(* on its channel.                                                         *)
LEMMA RoomForDelivery ==
  ASSUME NEW q, Good(q), NEW c, Good(c), Room(q),
         Len(c) = Len(q) + 1, DOMAIN c = DOMAIN q \cup {Len(q) + 1},
         \A k \in DOMAIN q : c[k] = q[k], c[Len(q) + 1].kind = "delivery",
         \/ Len(q) + Cardinality(Owed(q)) + 1 <= MaxJobs
         \/ <<c[Len(q) + 1].target, c[Len(q) + 1].channel>> \in Owed(q)
  PROVE  Room(c)
<1> DEFINE paid == <<c[Len(q) + 1].target, c[Len(q) + 1].channel>>
<1>1. Len(q) \in Nat /\ Cardinality(Owed(q)) \in Nat /\ Cardinality(Owed(c)) \in Nat
  BY OwedFinite, Positions DEF Good
<1>2. Owed(c) \subseteq Owed(q) \ {paid}
  <2> SUFFICES ASSUME NEW due \in Owed(c) PROVE due \in Owed(q) /\ due # paid
    OBVIOUS
  <2>1. due \in (DOMAIN c) \X Channels /\ Owes(c, due[1], due[2])
    BY DEF Owed
  <2>2. due[1] \in DOMAIN q /\ ~Delivers(c[Len(q) + 1], due[1], due[2])
    BY <2>1 DEF Owes
  <2>3. Owes(q, due[1], due[2])
    BY <2>1, <2>2 DEF Owes
  <2>4. due # paid
    BY <2>2 DEF Delivers
  <2> QED
    BY <2>1, <2>2, <2>3, <2>4 DEF Owed
<1>3. IsFiniteSet(Owed(q) \ {paid})
      /\ Cardinality(Owed(q) \ {paid}) = IF paid \in Owed(q) THEN Cardinality(Owed(q)) - 1
                                         ELSE Cardinality(Owed(q))
  BY OwedFinite, FS_RemoveElement
<1>4. Cardinality(Owed(c)) <= Cardinality(Owed(q) \ {paid})
  BY <1>2, <1>3, FS_Subset
<1>5. CASE Len(q) + Cardinality(Owed(q)) + 1 <= MaxJobs
  BY <1>1, <1>3, <1>4, <1>5, MaxJobsAssumption DEF Room
<1>6. CASE paid \in Owed(q)
  BY <1>1, <1>3, <1>4, <1>6, MaxJobsAssumption DEF Room
<1> QED
  BY <1>5, <1>6

-----------------------------------------------------------------------------
(* A write of the queue.                                                   *)

\* A snapshot that may be written next.
Candidate(c) ==
  /\ Good(c) /\ OneChange(jobs, c) /\ Room(c) /\ Asked(c) /\ Truthful(c)
  /\ Recorded(c) /\ Agrees(c, reports) /\ Agrees(c, savedReports)

\* Leaving the queue alone is a change of at most one job.
LEMMA Unchanging ==
  ASSUME NEW q, Good(q)
  PROVE  OneChange(q, q)
<1>1. Ahead(q, q)
  BY DEF Good, Ahead, NeverBehind, MayMove, SameWork
<1> QED
  BY <1>1, SameRequestEquivalence DEF OneChange, Extends

(* What is known of the reports only depends on what the jobs ask for.     *)
LEMMA KeptByExtension ==
  ASSUME NEW r, Kept(r), Extends(jobs, jobs'), UNCHANGED <<art>>
  PROVE  Kept(r)'
<1>1. \A k \in DOMAIN jobs : /\ jobs'[k].kind = jobs[k].kind /\ jobs'[k].target = jobs[k].target
                             /\ jobs'[k].channel = jobs[k].channel
                             /\ jobs'[k].requested = jobs[k].requested
  BY DEF Extends, SameRequest, SameDuty, SameWork
<1>2. \A i, ch : \A k \in DOMAIN jobs :
        Delivers(jobs[k], i, ch) => k \in DOMAIN jobs' /\ Delivers(jobs'[k], i, ch)
  BY <1>1 DEF Delivers, Extends
<1>3. \A i \in DOMAIN jobs : i \in DOMAIN jobs'
  BY DEF Extends
<1> QED
  BY <1>1, <1>2, <1>3 DEF Kept

(* Whether the write is acknowledged, lost, or done and not acknowledged.  *)
LEMMA QueueStep ==
  ASSUME CoordinatorInv, NEW c, Candidate(c), Persist(c), UNCHANGED <<reportVars, engineVars>>
  PROVE  /\ OneChange(jobs, jobs') /\ Extends(jobs, jobs')
         /\ QueueFacts' /\ EngineFacts' /\ ReportFacts'
         /\ Agrees(jobs, reports)' /\ Agrees(jobs, savedReports)' /\ Agrees(saved, savedReports)'
<1> USE DEF CoordinatorInv, Candidate
<1>1. \/ jobs' = c /\ saved' = c
      \/ jobs' = jobs /\ saved' \in {saved, c}
  BY DEF Persist, Commit, WriteFails
<1>2. /\ reports' = reports /\ savedReports' = savedReports
      /\ art' = art /\ proc' = proc /\ sentBy' = sentBy
  BY DEF reportVars, engineVars
<1>3. Good(jobs) /\ Good(saved) /\ QueueInv
  BY DEF QueueFacts, QueueInv
<1>4. OneChange(jobs, jobs) /\ OneChange(c, c)
  BY <1>3, Unchanging
<1>5. OneChange(jobs, jobs') /\ Extends(jobs, jobs')
  BY <1>1, <1>4 DEF OneChange
<1>6. QueueInv'
  BY <1>3, PersistKeepsInv DEF OneChange
<1>7. QueueFacts'
  BY <1>1, <1>2, <1>4, <1>6 DEF QueueFacts, Truthful
<1>8. EngineFacts'
  <2>1. \A i \in DOMAIN jobs : i \in DOMAIN jobs' /\ jobs'[i].kind = jobs[i].kind
    BY <1>5 DEF Extends, SameRequest, SameDuty, SameWork
  <2>2. \A i \in Runs : i \notin DOMAIN jobs => proc[i] = "none" /\ art[i] = "none"
    BY DEF EngineFacts
  <2> QED
    BY <1>2, <2>1, <2>2 DEF EngineFacts, Result
<1>9. ReportFacts'
  <2>1. Kept(reports)' /\ Kept(savedReports)'
    BY <1>2, <1>5, KeptByExtension DEF ReportFacts
  <2>2. Recorded(jobs)' /\ Recorded(saved)'
    BY <1>1, <1>2 DEF ReportFacts, Recorded
  <2> QED
    BY <1>2, <2>1, <2>2 DEF ReportFacts
<1>10. Agrees(jobs, reports)' /\ Agrees(jobs, savedReports)' /\ Agrees(saved, savedReports)'
  BY <1>1, <1>2 DEF IndexFacts, Agrees
<1> QED
  BY <1>5, <1>7, <1>8, <1>9, <1>10

(* The last attempt is the same one while nothing is enqueued, and an      *)
(* earlier one is never the last one again.                                *)
LEMMA LatestKept ==
  ASSUME NEW q, NEW c, Extends(q, c), NEW i \in DOMAIN q
  PROVE  /\ LatestIn(c, i) => LatestIn(q, i)
         /\ DOMAIN c = DOMAIN q => (LatestIn(q, i) <=> LatestIn(c, i))
  BY DEF Extends, SameRequest, SameDuty, SameWork, LatestIn, Prior

\* What a report shows of a request depends on the request only.
LEMMA ShownKept ==
  ASSUME NEW r, NEW new, NEW old, SameRequest(new, old)
  PROVE  Shown(r, new) = Shown(r, old) /\ new.kind = old.kind
  BY DEF SameRequest, SameDuty, SameWork, Shown

(* A job is moved to a state that the engine and the index justify.        *)
LEMMA RestateCandidate ==
  ASSUME CoordinatorInv, NEW i \in DOMAIN jobs, NEW new, SameRequest(new, jobs[i]),
         NEW c, c = [jobs EXCEPT ![i] = new], Good(c), Ahead(jobs, c),
         new.state = "pending" => proc[i] = "none",
         jobs[i].kind = "research" /\ new.state = "succeeded" => reports[i].exists,
         jobs[i].kind = "delivery" =>
           /\ new.state = "succeeded" => art[i] = "ready"
           /\ new.state \in {"failed", "cancelled"} => proc[i] = "none"
           /\ LatestIn(jobs, i) =>
                /\ new.state = "succeeded" =>
                     Shown(reports, jobs[i]) = "sent" /\ Shown(savedReports, jobs[i]) = "sent"
                /\ new.state = "deliveryUnknown" =>
                     Shown(reports, jobs[i]) = "unknown" /\ Shown(savedReports, jobs[i]) = "unknown"
  PROVE  /\ Candidate(c) /\ DOMAIN c = DOMAIN jobs
         /\ \A k \in DOMAIN jobs : c[k] = IF k = i THEN new ELSE jobs[k]
<1>1. Good(jobs) /\ Room(jobs) /\ Asked(jobs)
  BY DEF CoordinatorInv, QueueFacts, QueueInv
<1>2. /\ DOMAIN c = DOMAIN jobs
      /\ \A k \in DOMAIN jobs : c[k] = IF k = i THEN new ELSE jobs[k]
      /\ OneChange(jobs, c) /\ Room(c) /\ Asked(c)
  BY <1>1, Restating
<1>3. new.kind = jobs[i].kind
  BY ShownKept
<1>4. Truthful(c)
  BY <1>2, <1>3 DEF CoordinatorInv, QueueFacts, Truthful
<1>5. Recorded(c)
  BY <1>2, <1>3 DEF CoordinatorInv, ReportFacts, Recorded, SameRequest, SameDuty, SameWork
<1>6. ASSUME NEW r, Agrees(jobs, r),
             jobs[i].kind = "delivery" /\ LatestIn(jobs, i) =>
               /\ new.state = "succeeded" => Shown(r, jobs[i]) = "sent"
               /\ new.state = "deliveryUnknown" => Shown(r, jobs[i]) = "unknown"
      PROVE  Agrees(c, r)
  <2> SUFFICES ASSUME NEW k \in DOMAIN jobs, c[k].kind = "delivery", LatestIn(c, k)
               PROVE  /\ c[k].state = "succeeded" => Shown(r, c[k]) = "sent"
                      /\ c[k].state = "deliveryUnknown" =>
                           Shown(r, c[k]) = "unknown" \/ Late(c[k], art[k], r)
    BY <1>2 DEF Agrees
  <2>1. LatestIn(jobs, k)
    BY <1>2, LatestKept DEF OneChange
  <2>2. CASE k = i
    BY <2>1, <2>2, <1>2, <1>3, <1>6, ShownKept
  <2>3. CASE k # i
    BY <2>1, <2>3, <1>2, <1>6 DEF Agrees
  <2> QED
    BY <2>2, <2>3
<1>7. Agrees(c, reports) /\ Agrees(c, savedReports)
  BY <1>6 DEF CoordinatorInv, IndexFacts
<1> QED
  BY <1>2, <1>4, <1>5, <1>7 DEF Candidate

(* A job is appended, for which there is room.                             *)
LEMMA AppendCandidate ==
  ASSUME CoordinatorInv, NEW new \in Job, new.state = "pending",
         Admits(jobs, new), new.attempt = NextAttempt(jobs, new),
         new.acknowledge => new.allowResend,
         new.kind = "delivery" /\ ~new.manual => Prior(jobs, new) = {},
         new.kind = "delivery" => reports[new.target].exists,
         \/ /\ new.kind = "research"
            /\ Len(jobs) + Cardinality(Owed(jobs)) + 1 + Cardinality(new.requested) <= MaxJobs
         \/ /\ new.kind = "delivery"
            /\ \/ Len(jobs) + Cardinality(Owed(jobs)) + 1 <= MaxJobs
               \/ <<new.target, new.channel>> \in Owed(jobs),
         NEW c, c = Append(jobs, new)
  PROVE  Candidate(c) /\ Appended(jobs, new, c) /\ Len(jobs) + 1 \in Runs
<1>1. Good(jobs) /\ Room(jobs) /\ Asked(jobs)
  BY DEF CoordinatorInv, QueueFacts, QueueInv
<1>2. Appended(jobs, new, c) /\ Good(c) /\ OneChange(jobs, c) /\ Asked(c)
  BY <1>1, Appending, Zenon
<1> USE DEF Appended
<1> DEFINE n == Len(jobs) + 1
<1>3. Room(c)
  <2>1. CASE new.kind = "research"
    <3>1. new.requested \in SUBSET Channels
      BY Kinds
    <3> QED
      BY <1>1, <1>2, <2>1, <3>1, RoomForResearch
  <2>2. CASE new.kind = "delivery"
    BY <1>1, <1>2, <2>2, RoomForDelivery
  <2> QED
    BY <2>1, <2>2
<1>4. n \in Runs
  <2>1. Len(jobs) \in Nat /\ Len(jobs) + 1 <= MaxJobs
    BY <1>1, <1>2, <1>3, Positions DEF Good, Room
  <2> QED
    BY <2>1, RunsAssumption, MaxJobsAssumption
<1>5. proc[n] = "none"
  BY <1>2, <1>4 DEF CoordinatorInv, EngineFacts
<1>6. Truthful(c)
  BY <1>2, <1>5 DEF CoordinatorInv, QueueFacts, Truthful
<1>7. Recorded(c)
  BY <1>2 DEF CoordinatorInv, ReportFacts, Recorded
<1>8. ASSUME NEW r, Agrees(jobs, r) PROVE Agrees(c, r)
  BY <1>2, <1>8, LatestKept DEF Agrees, OneChange
<1> QED
  BY <1>2, <1>3, <1>4, <1>6, <1>7, <1>8 DEF Candidate, CoordinatorInv, IndexFacts

-----------------------------------------------------------------------------
(* The clients of the queue.                                               *)

(* A pending job more, whether the write is acknowledged or not.           *)
LEMMA ClientKeeps ==
  ASSUME CoordinatorInv, NEW new, NEW c, Candidate(c), Appended(jobs, new, c),
         Len(jobs) + 1 \in Runs, new.state = "pending",
         new.kind = "delivery" => new.manual,
         Persist(c), ByClient
  PROVE  CoordinatorInv' /\ OneChange(jobs, jobs')
<1> DEFINE n == Len(jobs) + 1
<1>1. /\ UNCHANGED <<reportVars, engineVars>>
      /\ UNCHANGED <<reports, savedReports, art, proc, sentBy, co, app, needsRecon, stuck>>
  BY DEF ByClient, reportVars, engineVars
<1>2. /\ QueueFacts' /\ EngineFacts' /\ ReportFacts'
      /\ Agrees(jobs, reports)' /\ Agrees(jobs, savedReports)' /\ Agrees(saved, savedReports)'
      /\ OneChange(jobs, jobs') /\ Extends(jobs, jobs')
  BY <1>1, QueueStep
<1>3. /\ DOMAIN jobs' = DOMAIN jobs \/ DOMAIN jobs' = DOMAIN jobs \cup {n}
      /\ \A k \in DOMAIN jobs : jobs'[k] = jobs[k]
      /\ n \in DOMAIN jobs' => jobs'[n] = new
      /\ n \notin DOMAIN jobs
  BY DEF Persist, Commit, WriteFails, Appended
<1>4. \A i \in DOMAIN jobs : LatestIn(jobs, i)' => LatestIn(jobs, i)
  BY <1>2, LatestKept
<1>5. Types'
  BY <1>1, <1>3 DEF CoordinatorInv, Types
<1>6. Synced'
  <2>1. CASE Waits
    BY <1>1, <2>1 DEF Synced, Waits
  <2>2. CASE ~Waits
    <3>1. \A i \in DOMAIN jobs : saved[i] = jobs[i]
      BY <2>2 DEF CoordinatorInv, Synced
    <3>2. \A i \in DOMAIN jobs' : saved'[i] = jobs'[i]
      BY <3>1 DEF Persist, Commit, WriteFails, Appended
    <3> QED
      BY <1>1, <2>2, <3>2 DEF CoordinatorInv, Synced
  <2> QED
    BY <2>1, <2>2
<1>7. IndexFacts'
  <2>1. Mending'
    BY <1>1, <1>3, <1>4 DEF CoordinatorInv, IndexFacts, Mending, Late
  <2> QED
    BY <1>2, <2>1 DEF IndexFacts
<1>8. Working'
  BY <1>1, <1>3 DEF CoordinatorInv, Working
<1>9. co.pc \in InHand => co.job \in DOMAIN jobs
  BY DEF CoordinatorInv, Working
<1>10. Deciding'
  BY <1>1, <1>3, <1>4, <1>9 DEF CoordinatorInv, Deciding, Justified, InHand
<1>11. Moving'
  BY <1>1, <1>3, <1>4, <1>9 DEF CoordinatorInv, Moving, InHand
<1>12. Restoring'
  <2>1. \A i \in DOMAIN jobs', ch \in Channels : Due(i, ch)' => i \in DOMAIN jobs /\ Due(i, ch)
    <3>1. ~reports[n].effective
      BY <1>3 DEF CoordinatorInv, ReportFacts, Kept
    <3> QED
      BY <1>1, <1>3, <3>1 DEF Due, Owes
  <2>2. \A due \in co.todo :
          /\ due[1] \in DOMAIN jobs /\ jobs[due[1]].kind = "research"
          /\ due[2] \in jobs[due[1]].requested /\ reports[due[1]].exists
          /\ \A k \in DOMAIN jobs' : Delivers(jobs'[k], due[1], due[2]) =>
               jobs'[k].manual /\ jobs'[k].state = "pending"
    BY <1>3 DEF CoordinatorInv, Restoring, Delivers
  <2> QED
    BY <1>1, <1>3, <2>1, <2>2 DEF CoordinatorInv, Restoring
<1> QED
  BY <1>2, <1>5, <1>6, <1>7, <1>8, <1>10, <1>11, <1>12 DEF CoordinatorInv

\* RequestResearch preserves the invariant.
LEMMA RequestResearchKeeps ==
  ASSUME CoordinatorInv, NEW slot \in Slots, NEW chs \in SUBSET Channels,
         RequestResearch(slot, chs)
  PROVE  CoordinatorInv' /\ OneChange(jobs, jobs')
<1> DEFINE new == NewResearch(jobs, slot, chs)
<1>1. Good(jobs)
  BY DEF CoordinatorInv, QueueFacts, QueueInv
<1>2. new \in Job /\ new.state = "pending" /\ new.attempt = NextAttempt(jobs, new)
  BY <1>1, NewResearchJob
<1>3. new.kind = "research" /\ new.requested = chs /\ ~new.acknowledge
  BY DEF NewResearch
<1>4. Admits(jobs, new) /\ Persist(Append(jobs, new)) /\ ByClient
  BY DEF RequestResearch, EnqueueResearch, Enqueue
<1>5. Len(jobs) + Cardinality(Owed(jobs)) + 1 + Cardinality(new.requested) <= MaxJobs
  <2>1. Len(jobs) \in Nat /\ Cardinality(Owed(jobs)) \in Nat /\ Cardinality(chs) \in Nat
    BY <1>1, OwedFinite, Positions, ChannelsFinite, FS_Subset, FS_CardinalityType DEF Good
  <2> QED
    BY <1>3, <2>1 DEF RequestResearch, RoomFor
<1> HIDE DEF new
<1>6. PICK c : c = Append(jobs, new)
  OBVIOUS
<1>7. Candidate(c) /\ Appended(jobs, new, c) /\ Len(jobs) + 1 \in Runs
  BY <1>2, <1>3, <1>4, <1>5, <1>6, AppendCandidate
<1> QED
  BY <1>2, <1>3, <1>4, <1>6, <1>7, ClientKeeps

\* RequestDelivery preserves the invariant.
LEMMA RequestDeliveryKeeps ==
  ASSUME CoordinatorInv, NEW run \in Runs, NEW ch \in Channels,
         NEW resend \in BOOLEAN, NEW ack \in BOOLEAN,
         RequestDelivery(run, ch, resend, ack)
  PROVE  CoordinatorInv' /\ OneChange(jobs, jobs')
<1> DEFINE new == NewDelivery(jobs, run, ch, TRUE, resend, ack)
<1>1. Good(jobs)
  BY DEF CoordinatorInv, QueueFacts, QueueInv
<1>2. new \in Job /\ new.state = "pending" /\ new.attempt = NextAttempt(jobs, new)
  <2>1. \A manual \in BOOLEAN :
          LET job == NewDelivery(jobs, run, ch, manual, resend, ack)
          IN  job \in Job /\ job.state = "pending" /\ job.attempt = NextAttempt(jobs, job)
    BY <1>1, NewDeliveryJob
  <2> QED
    BY <2>1, Zenon
<1>3. /\ new.kind = "delivery" /\ new.manual
      /\ new.acknowledge = ack /\ new.allowResend = resend /\ new.target = run
  BY DEF NewDelivery
<1>4. /\ Admits(jobs, new) /\ Persist(Append(jobs, new)) /\ ByClient
      /\ (ack => resend) /\ reports[run].exists
  BY DEF RequestDelivery, EnqueueDelivery, Enqueue
<1>5. Len(jobs) + Cardinality(Owed(jobs)) + 1 <= MaxJobs
  BY DEF RequestDelivery, RoomFor
<1> HIDE DEF new
<1>6. PICK c : c = Append(jobs, new)
  OBVIOUS
<1>7. Candidate(c) /\ Appended(jobs, new, c) /\ Len(jobs) + 1 \in Runs
  <2>1. new.acknowledge => new.allowResend
    BY <1>3, <1>4
  <2>2. new.kind = "delivery" /\ ~new.manual => Prior(jobs, new) = {}
    BY <1>3
  <2>3. new.kind = "delivery" => reports[new.target].exists
    BY <1>3, <1>4
  <2> QED
    BY <1>2, <1>3, <1>4, <1>5, <1>6, <2>1, <2>2, <2>3, AppendCandidate, Zenon
<1> QED
  BY <1>2, <1>3, <1>4, <1>6, <1>7, ClientKeeps

-----------------------------------------------------------------------------
(* The coordinator's writes of the queue.                                  *)

(* With no outcome in hand and the App not ready, nothing else is due: a   *)
(* reconciliation will look at every job.                                  *)
LEMMA IdleKeeps ==
  ASSUME Types', QueueFacts', EngineFacts', ReportFacts', Synced',
         Agrees(jobs, reports)', Agrees(jobs, savedReports)', Agrees(saved, savedReports)',
         co' = Idle, app' # "ready"
  PROVE  CoordinatorInv'
<1>1. /\ co'.pc = "idle" /\ co'.mode = "run" /\ co'.job = 0
      /\ co'.work = {} /\ co'.todo = {}
  BY DEF Idle
<1>2. IndexFacts'
  BY <1>1 DEF IndexFacts, Mending
<1>3. Working' /\ Deciding' /\ Moving' /\ Restoring'
  BY <1>1 DEF Working, Deciding, Moving, Restoring, InHand
<1> QED
  BY <1>2, <1>3 DEF CoordinatorInv

\* The coordinator between two jobs.
LEMMA IdleTypes ==
  /\ DOMAIN Idle = {"pc", "mode", "job", "outcome", "work", "todo"}
  /\ Idle.pc = "idle" /\ Idle.mode = "run" /\ Idle.job = 0
  /\ Idle.work = {} /\ Idle.todo = {}
  BY DEF Idle

(* A write of the queue throws: whatever the file holds now, the App is    *)
(* faulted.                                                                *)
LEMMA QueueThrowKeeps ==
  ASSUME CoordinatorInv, NEW c, Candidate(c), QueueThrows(c), UNCHANGED engineVars,
         UNCHANGED stuck, needsRecon' \in BOOLEAN, app' = "faulted", co' = Idle
  PROVE  CoordinatorInv' /\ OneChange(jobs, jobs')
<1>1. /\ Persist(c) /\ UNCHANGED reportVars /\ jobs' = jobs
  BY DEF QueueThrows, Persist, WriteFails
<1>2. /\ OneChange(jobs, jobs') /\ QueueFacts' /\ EngineFacts' /\ ReportFacts'
      /\ Agrees(jobs, reports)' /\ Agrees(jobs, savedReports)' /\ Agrees(saved, savedReports)'
  BY <1>1, QueueStep
<1>3. Types'
  BY <1>1, IdleTypes DEF CoordinatorInv, Types, reportVars, engineVars, InHand
<1>4. Synced'
  BY IdleTypes DEF Synced, Waits
<1> QED
  BY <1>2, <1>3, <1>4, IdleKeeps

(* A job is moved, and the write is acknowledged.                          *)
LEMMA QueueWrittenFacts ==
  ASSUME CoordinatorInv, ~Waits, NEW i \in DOMAIN jobs, NEW c, Candidate(c),
         DOMAIN c = DOMAIN jobs, \A k \in DOMAIN jobs : k # i => c[k] = jobs[k],
         QueueWritten(c), UNCHANGED engineVars
  PROVE  /\ jobs' = c /\ OneChange(jobs, jobs')
         /\ UNCHANGED <<reports, savedReports, art, proc, sentBy>>
         /\ QueueFacts' /\ EngineFacts' /\ ReportFacts' /\ Synced'
         /\ Agrees(jobs, reports)' /\ Agrees(jobs, savedReports)' /\ Agrees(saved, savedReports)'
         /\ \A k \in DOMAIN jobs : LatestIn(jobs, k)' <=> LatestIn(jobs, k)
         /\ \A k \in DOMAIN jobs : SameRequest(jobs'[k], jobs[k])
         /\ \A k \in DOMAIN jobs, ch \in Channels : Owes(jobs, k, ch)' <=> Owes(jobs, k, ch)
<1>1. /\ Persist(c) /\ UNCHANGED reportVars /\ jobs' = c /\ saved' = c
  BY DEF QueueWritten, Persist, Commit
<1>2. /\ QueueFacts' /\ EngineFacts' /\ ReportFacts'
      /\ Agrees(jobs, reports)' /\ Agrees(jobs, savedReports)' /\ Agrees(saved, savedReports)'
      /\ OneChange(jobs, jobs') /\ Extends(jobs, jobs')
  BY <1>1, QueueStep
<1>3. UNCHANGED <<reports, savedReports, art, proc, sentBy>>
  BY <1>1 DEF reportVars, engineVars
<1>4. Synced'
  BY <1>1, <1>3 DEF CoordinatorInv, Synced
<1>5. \A k \in DOMAIN jobs : LatestIn(jobs, k)' <=> LatestIn(jobs, k)
  BY <1>1, <1>2, LatestKept
<1>6. \A k \in DOMAIN jobs, ch \in Channels : Owes(jobs, k, ch)' <=> Owes(jobs, k, ch)
  BY <1>1, <1>2 DEF Extends, SameRequest, SameDuty, SameWork, Owes, Delivers
<1> QED
  BY <1>1, <1>2, <1>3, <1>4, <1>5, <1>6 DEF Extends

(* While the App is ready no late result waits, and what successful        *)
(* research owes is enqueued.                                              *)
LEMMA ReadyFacts ==
  ASSUME CoordinatorInv, app = "ready"
  PROVE  /\ \A k \in DOMAIN jobs :
              ~(jobs[k].kind = "delivery" /\ LatestIn(jobs, k) /\ Late(jobs[k], art[k], reports))
         /\ co.pc # "restore" => \A k \in DOMAIN jobs, ch \in Channels :
              ~(Due(k, ch) /\ jobs[k].state = "succeeded")
         /\ co.pc # "restore" => co.todo = {}
  BY DEF CoordinatorInv, IndexFacts, Mending, Restoring, Working

(* While the App is ready a job changes to a state that neither is a late  *)
(* result nor makes deliveries due.                                        *)
LEMMA ReadyWriteKeeps ==
  ASSUME CoordinatorInv, app = "ready", co.pc # "restore", co'.pc # "restore", co'.todo = {},
         UNCHANGED <<reports, art, app>>,
         NEW i \in DOMAIN jobs, DOMAIN jobs' = DOMAIN jobs,
         \A k \in DOMAIN jobs : k # i => jobs'[k] = jobs[k],
         \A k \in DOMAIN jobs : LatestIn(jobs, k)' <=> LatestIn(jobs, k),
         \A k \in DOMAIN jobs, ch \in Channels : Owes(jobs, k, ch)' <=> Owes(jobs, k, ch),
         jobs'[i].state \notin {"deliveryUnknown", "succeeded"}
  PROVE  Mending' /\ Restoring'
<1>1. Mending'
  BY ReadyFacts DEF Mending, Late
<1>2. Restoring'
  BY ReadyFacts DEF Restoring, Due
<1> QED
  BY <1>1, <1>2

\* RejectUnconfigured preserves the invariant.
LEMMA RejectKeeps ==
  ASSUME CoordinatorInv, RejectUnconfigured
  PROVE  CoordinatorInv' /\ OneChange(jobs, jobs')
<1> DEFINE i == FirstPending(jobs)
           new == Moved(jobs[i], "cancelled", "none")
<1>1. Good(jobs)
  BY DEF CoordinatorInv, QueueFacts, QueueInv
<1>2. /\ i \in DOMAIN jobs /\ jobs[i].state = "pending" /\ jobs[i].kind = "research"
      /\ jobs[i] \in Job /\ app = "ready" /\ co.pc = "idle"
  BY <1>1, FirstPendingExists, Positions DEF RejectUnconfigured, Draining, Good
<1> HIDE DEF i
<1>3. "cancelled" \in JobState /\ "cancelled" \in Outcomes(jobs[i]) /\ MayMove(jobs[i], "cancelled")
  BY <1>2 DEF JobState, Terminal, Outcomes, MayMove, AllowedTransitions, Active
<1>4. /\ new \in Job /\ new.state = "cancelled" /\ SameRequest(new, jobs[i])
  BY <1>2, <1>3, JobErrorsAssumption, MovedJob, MovedRequest
<1> DEFINE c == SetState(jobs, i, "cancelled", "none")
<1>5. Good(c) /\ Ahead(jobs, c)
  BY <1>1, <1>2, <1>3, JobErrorsAssumption, TransitionCandidate
<1>6. c = [jobs EXCEPT ![i] = new]
  BY DEF SetState
<1> HIDE DEF new, c
<1>7. /\ Candidate(c) /\ DOMAIN c = DOMAIN jobs
      /\ \A k \in DOMAIN jobs : c[k] = IF k = i THEN new ELSE jobs[k]
  BY <1>2, <1>4, <1>5, <1>6, RestateCandidate
<1>8. /\ UNCHANGED <<engineVars, stuck, co, needsRecon>>
      /\ \/ QueueWritten(c) /\ UNCHANGED app
         \/ QueueThrows(c) /\ app' = "faulted"
  BY DEF RejectUnconfigured, appVars, c, i
<1>9. co = Idle /\ ~Waits
  BY <1>2 DEF CoordinatorInv, Working, Waits
<1>10. CASE QueueThrows(c) /\ app' = "faulted"
  BY <1>7, <1>8, <1>9, <1>10, QueueThrowKeeps DEF CoordinatorInv, Types
<1>11. CASE QueueWritten(c) /\ UNCHANGED app
  <2>1. /\ jobs' = c /\ OneChange(jobs, jobs')
        /\ UNCHANGED <<reports, savedReports, art, proc, sentBy>>
        /\ QueueFacts' /\ EngineFacts' /\ ReportFacts' /\ Synced'
        /\ Agrees(jobs, reports)' /\ Agrees(jobs, savedReports)' /\ Agrees(saved, savedReports)'
        /\ \A k \in DOMAIN jobs : LatestIn(jobs, k)' <=> LatestIn(jobs, k)
        /\ \A k \in DOMAIN jobs, ch \in Channels : Owes(jobs, k, ch)' <=> Owes(jobs, k, ch)
    BY <1>2, <1>7, <1>8, <1>9, <1>11, QueueWrittenFacts
  <2>2. Mending' /\ Restoring'
    BY <1>2, <1>4, <1>7, <1>8, <1>9, <1>11, <2>1, IdleTypes, ReadyWriteKeeps
  <2>3. Types'
    BY <1>7, <1>8, <1>11, <2>1 DEF CoordinatorInv, Types
  <2>4. Working' /\ Deciding' /\ Moving'
    BY <1>8, <1>9, IdleTypes DEF Working, Deciding, Moving, InHand
  <2> QED
    BY <2>1, <2>2, <2>3, <2>4 DEF CoordinatorInv, IndexFacts
<1> QED
  BY <1>8, <1>10, <1>11

\* ClaimNext preserves the invariant.
LEMMA ClaimKeeps ==
  ASSUME CoordinatorInv, ClaimNext
  PROVE  CoordinatorInv' /\ OneChange(jobs, jobs')
<1> DEFINE i == FirstPending(jobs)
           new == Moved(jobs[i], "running", "none")
<1>1. Good(jobs)
  BY DEF CoordinatorInv, QueueFacts, QueueInv
<1>2. /\ i \in DOMAIN jobs /\ jobs[i].state = "pending"
      /\ jobs[i] \in Job /\ app = "ready" /\ co.pc = "idle"
  BY <1>1, FirstPendingExists, Positions DEF ClaimNext, CanClaim, Draining, Good
<1> DEFINE c == SetState(jobs, i, "running", "none")
<1>3. Good(c) /\ Ahead(jobs, c)
  BY <1>1, ClaimCandidate DEF ClaimNext
<1>4. /\ UNCHANGED <<engineVars, stuck>>
      /\ \/ QueueWritten(c) /\ Proceed([co EXCEPT !.pc = "admit", !.job = i])
         \/ QueueThrows(c) /\ Fault
  BY DEF ClaimNext
<1> HIDE DEF i
<1>5. /\ new \in Job /\ new.state = "running" /\ SameRequest(new, jobs[i])
  BY <1>2, JobErrorsAssumption, MovedJob, MovedRequest DEF JobState, Active
<1>6. c = [jobs EXCEPT ![i] = new]
  BY DEF SetState
<1> HIDE DEF new, c
<1>7. /\ Candidate(c) /\ DOMAIN c = DOMAIN jobs
      /\ \A k \in DOMAIN jobs : c[k] = IF k = i THEN new ELSE jobs[k]
  BY <1>2, <1>3, <1>5, <1>6, RestateCandidate
<1>9. co = Idle /\ ~Waits /\ proc[i] = "none"
  BY <1>2 DEF CoordinatorInv, Working, Waits, QueueFacts, Truthful
<1>10. CASE QueueThrows(c) /\ Fault
  BY <1>4, <1>7, <1>10, QueueThrowKeeps DEF Fault
<1>11. CASE QueueWritten(c) /\ Proceed([co EXCEPT !.pc = "admit", !.job = i])
  <2>1. /\ jobs' = c /\ OneChange(jobs, jobs')
        /\ UNCHANGED <<reports, savedReports, art, proc, sentBy>>
        /\ QueueFacts' /\ EngineFacts' /\ ReportFacts' /\ Synced'
        /\ Agrees(jobs, reports)' /\ Agrees(jobs, savedReports)' /\ Agrees(saved, savedReports)'
        /\ \A k \in DOMAIN jobs : LatestIn(jobs, k)' <=> LatestIn(jobs, k)
        /\ \A k \in DOMAIN jobs, ch \in Channels : Owes(jobs, k, ch)' <=> Owes(jobs, k, ch)
    BY <1>2, <1>4, <1>7, <1>9, <1>11, QueueWrittenFacts
  <2>2. /\ UNCHANGED <<app, needsRecon>>
        /\ DOMAIN co' = DOMAIN co /\ co'.pc = "admit" /\ co'.job = i
        /\ co'.mode = co.mode /\ co'.work = co.work /\ co'.todo = co.todo
    BY <1>9, <1>11, IdleTypes DEF Proceed, appVars
  <2>3. Mending' /\ Restoring'
    BY <1>2, <1>5, <1>7, <1>9, <2>1, <2>2, IdleTypes, ReadyWriteKeeps
  <2>4. Types'
    BY <1>2, <1>4, <1>7, <1>9, <2>1, <2>2 DEF CoordinatorInv, Types, InHand
  <2>5. Working' /\ Deciding' /\ Moving'
    BY <1>2, <1>5, <1>7, <1>9, <2>1, <2>2, IdleTypes DEF Working, Deciding, Moving, InHand
  <2> QED
    BY <2>1, <2>3, <2>4, <2>5 DEF CoordinatorInv, IndexFacts
<1> QED
  BY <1>4, <1>10, <1>11

\* Release preserves the invariant.
LEMMA ReleaseKeeps ==
  ASSUME CoordinatorInv, Release
  PROVE  CoordinatorInv' /\ OneChange(jobs, jobs')
<1> DEFINE i == co.job
<1>1. Good(jobs)
  BY DEF CoordinatorInv, QueueFacts, QueueInv
<1>2. /\ i \in DOMAIN jobs /\ jobs[i].state = "running" /\ jobs[i] \in Job
      /\ app = "ready" /\ co.pc = "launch" /\ proc[i] = "none"
  BY <1>1, Positions DEF Release, CoordinatorInv, Working, InHand, Good
<1> DEFINE c == Released(jobs, i)
<1>3. Good(c) /\ Ahead(jobs, c)
  BY <1>1, <1>2, ReleaseCandidate
<1>4. /\ UNCHANGED <<engineVars, stuck>>
      /\ \/ QueueWritten(c) /\ co' = Idle /\ UNCHANGED <<app, needsRecon>>
         \/ QueueThrows(c) /\ Fault
  BY DEF Release
<1> HIDE DEF i
<1>5. PICK new : new = [jobs[i] EXCEPT !.state = "pending"]
  OBVIOUS
<1>6. new.state = "pending" /\ SameRequest(new, jobs[i])
  BY <1>2, <1>5, ReleasedJob, ReleasedRequest
<1>7. c = [jobs EXCEPT ![i] = new]
  BY <1>5 DEF Released
<1> HIDE DEF c
<1>8. /\ Candidate(c) /\ DOMAIN c = DOMAIN jobs
      /\ \A k \in DOMAIN jobs : c[k] = IF k = i THEN new ELSE jobs[k]
  BY <1>2, <1>3, <1>6, <1>7, RestateCandidate
<1>9. ~Waits
  BY <1>2 DEF Waits
<1>10. CASE QueueThrows(c) /\ Fault
  BY <1>4, <1>8, <1>10, QueueThrowKeeps DEF Fault
<1>11. CASE QueueWritten(c) /\ co' = Idle /\ UNCHANGED <<app, needsRecon>>
  <2>1. /\ jobs' = c /\ OneChange(jobs, jobs')
        /\ UNCHANGED <<reports, savedReports, art, proc, sentBy>>
        /\ QueueFacts' /\ EngineFacts' /\ ReportFacts' /\ Synced'
        /\ Agrees(jobs, reports)' /\ Agrees(jobs, savedReports)' /\ Agrees(saved, savedReports)'
        /\ \A k \in DOMAIN jobs : LatestIn(jobs, k)' <=> LatestIn(jobs, k)
        /\ \A k \in DOMAIN jobs, ch \in Channels : Owes(jobs, k, ch)' <=> Owes(jobs, k, ch)
    BY <1>2, <1>4, <1>8, <1>9, <1>11, QueueWrittenFacts
  <2>2. UNCHANGED <<app, needsRecon>> /\ co' = Idle
    BY <1>11
  <2>3. Mending' /\ Restoring'
    BY <1>2, <1>6, <1>8, <2>1, <2>2, IdleTypes, ReadyWriteKeeps
  <2>4. Types'
    BY <1>4, <1>8, <2>1, <2>2, IdleTypes DEF CoordinatorInv, Types
  <2>5. Working' /\ Deciding' /\ Moving'
    BY <2>2, IdleTypes DEF Working, Deciding, Moving, InHand
  <2> QED
    BY <2>1, <2>3, <2>4, <2>5 DEF CoordinatorInv, IndexFacts
<1> QED
  BY <1>4, <1>10, <1>11

(* Memory and files stay as they are, and the App is faulted.              *)
LEMMA FaultKeeps ==
  ASSUME CoordinatorInv, NothingWritten, Fault, UNCHANGED engineVars, UNCHANGED stuck
  PROVE  CoordinatorInv' /\ OneChange(jobs, jobs')
<1>1. /\ UNCHANGED <<jobs, saved, reports, savedReports, art, proc, sentBy, stuck>>
      /\ app' = "faulted" /\ co' = Idle /\ needsRecon' = TRUE
  BY DEF NothingWritten, queueVars, reportVars, engineVars, Fault
<1>2. QueueFacts' /\ EngineFacts' /\ ReportFacts'
  BY <1>1 DEF CoordinatorInv, QueueFacts, QueueInv, Truthful, EngineFacts, ReportFacts, Kept,
     Recorded
<1>3. Agrees(jobs, reports)' /\ Agrees(jobs, savedReports)' /\ Agrees(saved, savedReports)'
  BY <1>1 DEF CoordinatorInv, IndexFacts, Agrees
<1>4. Types' /\ Synced'
  BY <1>1, IdleTypes DEF CoordinatorInv, Types, Synced, Waits, InHand
<1>5. OneChange(jobs, jobs')
  BY <1>1, Unchanging DEF CoordinatorInv, QueueFacts, QueueInv
<1> QED
  BY <1>1, <1>2, <1>3, <1>4, <1>5, IdleKeeps

(* A delivery that a report owes is missing, and what is missing is owed.  *)
LEMMA MissingIsOwed ==
  ASSUME CoordinatorInv, NEW c, DOMAIN c = DOMAIN jobs,
         \A k \in DOMAIN jobs : SameRequest(c[k], jobs[k])
  PROVE  /\ \A due \in Missing(c) :
              /\ due \in Runs \X Channels
              /\ due[1] \in DOMAIN jobs /\ c[due[1]].kind = "research"
              /\ due[2] \in c[due[1]].requested /\ reports[due[1]].exists
              /\ \A k \in DOMAIN c : ~Delivers(c[k], due[1], due[2])
         /\ \A i \in DOMAIN jobs, ch \in Channels : Due(i, ch) => <<i, ch>> \in Missing(c)
<1>1. \A k \in DOMAIN jobs : /\ c[k].kind = jobs[k].kind /\ c[k].requested = jobs[k].requested
                             /\ \A i, ch : Delivers(c[k], i, ch) <=> Delivers(jobs[k], i, ch)
  BY DEF SameRequest, SameDuty, SameWork, Delivers
<1>2. Kept(reports)
  BY DEF CoordinatorInv, ReportFacts
<1>3. ASSUME NEW due \in Missing(c)
      PROVE  /\ due \in Runs \X Channels
             /\ due[1] \in DOMAIN jobs /\ c[due[1]].kind = "research"
             /\ due[2] \in c[due[1]].requested /\ reports[due[1]].exists
             /\ \A k \in DOMAIN c : ~Delivers(c[k], due[1], due[2])
  <2>1. /\ due \in Runs \X Channels /\ due[1] \in Runs /\ due[2] \in Channels
        /\ reports[due[1]].effective /\ reports[due[1]].delivery[due[2]] = "pending"
        /\ \A k \in DOMAIN c : ~Delivers(c[k], due[1], due[2])
    BY <1>3 DEF Missing
  <2>2. /\ due[1] \in DOMAIN jobs /\ jobs[due[1]].kind = "research"
        /\ due[2] \in jobs[due[1]].requested /\ reports[due[1]].exists
    BY <1>2, <2>1 DEF Kept
  <2> QED
    BY <1>1, <2>1, <2>2
<1>4. ASSUME NEW i \in DOMAIN jobs, NEW ch \in Channels, Due(i, ch)
      PROVE  <<i, ch>> \in Missing(c)
  <2>1. i \in Runs
    <3>1. Len(jobs) \in Nat /\ Len(jobs) <= MaxJobs /\ DOMAIN jobs = 1 .. Len(jobs)
      BY Positions DEF CoordinatorInv, QueueFacts, QueueInv, Good, Room
    <3> QED
      BY <3>1, RunsAssumption, MaxJobsAssumption
  <2>2. /\ reports[i].effective /\ ch \in jobs[i].requested
        /\ \A k \in DOMAIN jobs : ~Delivers(jobs[k], i, ch)
    BY <1>4 DEF Due, Owes
  <2>3. reports[i].delivery[ch] = "pending"
    BY <1>2, <2>1, <2>2 DEF Kept
  <2> QED
    BY <1>1, <2>1, <2>2, <2>3 DEF Missing
<1> QED
  BY <1>3, <1>4

\* MoveJob preserves the invariant.
LEMMA MoveKeeps ==
  ASSUME CoordinatorInv, MoveJob
  PROVE  CoordinatorInv' /\ OneChange(jobs, jobs')
<1> DEFINE i == co.job
           out == co.outcome
           new == Moved(jobs[i], out.state, out.error)
           c == SetState(jobs, i, out.state, out.error)
<1>1. Good(jobs)
  BY DEF CoordinatorInv, QueueFacts, QueueInv
<1>2. i \in DOMAIN jobs /\ i # 0 /\ jobs[i] \in Job /\ co.pc = "move" /\ ~Waits
  <2>1. i \in DOMAIN jobs /\ co.pc = "move"
    BY DEF MoveJob, CoordinatorInv, Working, InHand
  <2> QED
    BY <1>1, <2>1, Positions DEF Good, Waits
<1>3. /\ out.state \in Outcomes(jobs[i]) \ {"partialSuccess"}
      /\ out.error \in {"none", "terminal_invalid"}
      /\ jobs[i].kind = "delivery" =>
           /\ out.state = "succeeded" => art[i] = "ready"
           /\ out.state \in {"failed", "cancelled"} => proc[i] = "none"
  BY <1>2 DEF CoordinatorInv, Deciding, Justified
<1>4. /\ jobs[i].kind = "research" /\ out.state = "succeeded" => reports[i].exists
      /\ jobs[i].kind = "delivery" /\ LatestIn(jobs, i) =>
           /\ out.state = "succeeded" => Shown(reports, jobs[i]) = "sent"
           /\ out.state = "deliveryUnknown" => Shown(reports, jobs[i]) = "unknown"
      /\ reports = savedReports
  BY <1>2 DEF CoordinatorInv, Moving
<1>5. \/ /\ MayMove(jobs[i], out.state)
         /\ QueueWritten(c)
         /\ Proceed(IF c[i].kind = "research" /\ c[i].state = "succeeded"
                    THEN [co EXCEPT !.pc = "restore", !.todo = Missing(c)]
                    ELSE [co EXCEPT !.pc = "next"])
      \/ MayMove(jobs[i], out.state) /\ QueueThrows(c) /\ Fault
      \/ NothingWritten /\ Fault
  BY DEF MoveJob
<1>6. UNCHANGED <<engineVars, stuck>>
  BY DEF MoveJob
<1> HIDE DEF i, out, c
<1>7. CASE NothingWritten /\ Fault
  BY <1>6, <1>7, FaultKeeps
<1>8. ASSUME MayMove(jobs[i], out.state)
      PROVE  /\ Candidate(c) /\ DOMAIN c = DOMAIN jobs
             /\ \A k \in DOMAIN jobs : c[k] = IF k = i THEN new ELSE jobs[k]
             /\ new.state = out.state /\ new.kind = jobs[i].kind
  <2>1. out.state \in JobState /\ out.error \in JobErrors /\ out.state # "pending"
    BY <1>3, JobErrorsAssumption, InvalidAssumption DEF Outcomes, JobState, Terminal
  <2>2. new \in Job /\ new.state = out.state /\ SameRequest(new, jobs[i])
    BY <1>2, <2>1, MovedJob, MovedRequest
  <2>3. Good(c) /\ Ahead(jobs, c)
    BY <1>1, <1>2, <1>3, <1>8, <2>1, TransitionCandidate DEF c
  <2>4. c = [jobs EXCEPT ![i] = new]
    BY DEF SetState, c
  <2> HIDE DEF new
  <2>5. new.kind = jobs[i].kind
    BY <2>2, ShownKept
  <2>6. /\ new.state = "pending" => proc[i] = "none"
        /\ jobs[i].kind = "research" /\ new.state = "succeeded" => reports[i].exists
        /\ jobs[i].kind = "delivery" =>
             /\ new.state = "succeeded" => art[i] = "ready"
             /\ new.state \in {"failed", "cancelled"} => proc[i] = "none"
             /\ LatestIn(jobs, i) =>
                  /\ new.state = "succeeded" =>
                       Shown(reports, jobs[i]) = "sent" /\ Shown(savedReports, jobs[i]) = "sent"
                  /\ new.state = "deliveryUnknown" =>
                       Shown(reports, jobs[i]) = "unknown" /\ Shown(savedReports, jobs[i]) = "unknown"
    BY <1>3, <1>4, <2>1, <2>2
  <2>7. /\ Candidate(c) /\ DOMAIN c = DOMAIN jobs
        /\ \A k \in DOMAIN jobs : c[k] = IF k = i THEN new ELSE jobs[k]
    BY <1>2, <2>2, <2>3, <2>4, <2>6, RestateCandidate
  <2> QED
    BY <2>2, <2>5, <2>7
<1>9. CASE MayMove(jobs[i], out.state) /\ QueueThrows(c) /\ Fault
  BY <1>6, <1>8, <1>9, QueueThrowKeeps DEF Fault
<1>10. CASE /\ MayMove(jobs[i], out.state)
            /\ QueueWritten(c)
            /\ Proceed(IF c[i].kind = "research" /\ c[i].state = "succeeded"
                       THEN [co EXCEPT !.pc = "restore", !.todo = Missing(c)]
                       ELSE [co EXCEPT !.pc = "next"])
  <2>0. /\ Candidate(c) /\ DOMAIN c = DOMAIN jobs
        /\ \A k \in DOMAIN jobs : c[k] = IF k = i THEN new ELSE jobs[k]
        /\ new.state = out.state /\ new.kind = jobs[i].kind
    BY <1>8, <1>10
  <2> HIDE DEF new
  <2>1. /\ jobs' = c /\ OneChange(jobs, jobs')
        /\ UNCHANGED <<reports, savedReports, art, proc, sentBy>>
        /\ QueueFacts' /\ EngineFacts' /\ ReportFacts' /\ Synced'
        /\ Agrees(jobs, reports)' /\ Agrees(jobs, savedReports)' /\ Agrees(saved, savedReports)'
        /\ \A k \in DOMAIN jobs : LatestIn(jobs, k)' <=> LatestIn(jobs, k)
        /\ \A k \in DOMAIN jobs : SameRequest(jobs'[k], jobs[k])
        /\ \A k \in DOMAIN jobs, ch \in Channels : Owes(jobs, k, ch)' <=> Owes(jobs, k, ch)
    BY <1>2, <1>6, <1>10, <2>0, QueueWrittenFacts
  <2>2. /\ UNCHANGED <<app, needsRecon>> /\ DOMAIN co' = DOMAIN co
        /\ co'.job = i /\ co'.mode = co.mode /\ co'.work = co.work
        /\ IF jobs[i].kind = "research" /\ out.state = "succeeded"
           THEN co'.pc = "restore" /\ co'.todo = Missing(c)
           ELSE co'.pc = "next" /\ co'.todo = co.todo
    BY <1>2, <1>10, <2>0 DEF Proceed, appVars, CoordinatorInv, Types, i
  <2>3. /\ \A due \in Missing(c) :
              /\ due \in Runs \X Channels
              /\ due[1] \in DOMAIN jobs /\ c[due[1]].kind = "research"
              /\ due[2] \in c[due[1]].requested /\ reports[due[1]].exists
              /\ \A k \in DOMAIN c : ~Delivers(c[k], due[1], due[2])
        /\ \A k \in DOMAIN jobs, ch \in Channels : Due(k, ch) => <<k, ch>> \in Missing(c)
    BY <2>0, <2>1, MissingIsOwed
  <2>4. co.todo = {} /\ (co.mode = "run" <=> app = "ready")
    BY <1>2 DEF CoordinatorInv, Working
  <2>5. Types'
    BY <1>2, <1>6, <2>0, <2>1, <2>2, <2>3, <2>4 DEF CoordinatorInv, Types, InHand
  <2>6. Working' /\ Deciding' /\ Moving'
    BY <1>2, <2>2, <2>4 DEF CoordinatorInv, Working, Deciding, Moving, InHand
  <2>7. Mending'
    <3> SUFFICES ASSUME NEW k \in DOMAIN jobs, jobs'[k].kind = "delivery", LatestIn(jobs, k)',
                        Late(jobs'[k], art[k], reports)
                 PROVE  app # "ready" /\ k \in co.work
      BY <2>0, <2>1, <2>2 DEF Mending
    <3>1. k # i
      <4> SUFFICES ASSUME k = i PROVE FALSE
        OBVIOUS
      <4>1. out.state = "deliveryUnknown" /\ Shown(reports, jobs'[i]) = "sent"
        BY <2>0, <2>1 DEF Late
      <4>2. Shown(reports, jobs'[i]) = Shown(reports, jobs[i]) /\ jobs[i].kind = "delivery"
        BY <1>2, <2>1, ShownKept
      <4> QED
        BY <1>4, <2>1, <4>1, <4>2
    <3>2. jobs'[k] = jobs[k] /\ LatestIn(jobs, k)
      BY <2>0, <2>1, <3>1
    <3> QED
      BY <1>2, <3>1, <3>2 DEF CoordinatorInv, IndexFacts, Mending, i
  <2>8. Restoring'
    <3>1. \A due \in co'.todo :
             /\ due[1] \in DOMAIN jobs' /\ jobs'[due[1]].kind = "research"
             /\ due[2] \in jobs'[due[1]].requested /\ reports'[due[1]].exists
             /\ \A k \in DOMAIN jobs' : Delivers(jobs'[k], due[1], due[2]) =>
                  jobs'[k].manual /\ jobs'[k].state = "pending"
      BY <2>0, <2>1, <2>2, <2>3, <2>4
    <3>2. ASSUME app = "ready", NEW k \in DOMAIN jobs, NEW ch \in Channels, Due(k, ch)',
                 jobs'[k].state = "succeeded"
          PROVE  co'.pc = "restore" /\ <<k, ch>> \in co'.todo
      <4>1. Due(k, ch)
        BY <2>1, <3>2 DEF Due
      <4>2. k = i
        BY <1>2, <2>0, <2>1, <3>2, <4>1, ReadyFacts
      <4>3. jobs[i].kind = "research" /\ out.state = "succeeded"
        BY <2>0, <2>1, <3>2, <4>1, <4>2 DEF Due, Owes
      <4> QED
        BY <2>2, <2>3, <4>1, <4>3
    <3> QED
      BY <1>2, <2>0, <2>1, <2>2, <3>1, <3>2 DEF Restoring
  <2> QED
    BY <2>1, <2>5, <2>6, <2>7, <2>8 DEF CoordinatorInv, IndexFacts
<1> QED
  BY <1>5, <1>7, <1>9, <1>10

-----------------------------------------------------------------------------
(* Steps of the coordinator that write nothing.                            *)

\* A step that writes nothing keeps what relates the queue to the index.
LEMMA QuietFacts ==
  ASSUME CoordinatorInv, NothingWritten, UNCHANGED engineVars
  PROVE  /\ UNCHANGED <<jobs, saved, reports, savedReports, art, proc, sentBy>>
         /\ QueueFacts' /\ EngineFacts' /\ ReportFacts'
         /\ Agrees(jobs, reports)' /\ Agrees(jobs, savedReports)' /\ Agrees(saved, savedReports)'
         /\ ~Waits \/ (jobs = saved /\ reports = savedReports) => Synced'
<1>1. UNCHANGED <<jobs, saved, reports, savedReports, art, proc, sentBy>>
  BY DEF NothingWritten, queueVars, reportVars, engineVars
<1>2. QueueFacts' /\ EngineFacts' /\ ReportFacts'
  BY <1>1 DEF CoordinatorInv, QueueFacts, QueueInv, Truthful, EngineFacts, ReportFacts, Kept,
     Recorded
<1>3. Agrees(jobs, reports)' /\ Agrees(jobs, savedReports)' /\ Agrees(saved, savedReports)'
  BY <1>1 DEF CoordinatorInv, IndexFacts, Agrees
<1>4. ~Waits \/ (jobs = saved /\ reports = savedReports) => Synced'
  BY <1>1 DEF CoordinatorInv, Synced
<1> QED
  BY <1>1, <1>2, <1>3, <1>4

\* StopDrain preserves the invariant.
LEMMA StopKeeps ==
  ASSUME CoordinatorInv, StopDrain
  PROVE  CoordinatorInv'
<1>1. /\ NothingWritten /\ UNCHANGED <<engineVars, stuck, co, needsRecon>>
      /\ app' = "faulted" /\ co = Idle
  BY DEF StopDrain, Draining, CoordinatorInv, Working
<1>2. /\ UNCHANGED <<jobs, saved, reports, savedReports, art, proc, sentBy>>
      /\ QueueFacts' /\ EngineFacts' /\ ReportFacts'
      /\ Agrees(jobs, reports)' /\ Agrees(jobs, savedReports)' /\ Agrees(saved, savedReports)'
  BY <1>1, QuietFacts
<1>3. Types' /\ Synced'
  BY <1>1, <1>2, IdleTypes DEF CoordinatorInv, Types, Synced, Waits
<1> QED
  BY <1>1, <1>2, <1>3, IdleKeeps

\* Restored preserves the invariant.
LEMMA RestoredKeeps ==
  ASSUME CoordinatorInv, Restored
  PROVE  CoordinatorInv'
<1>1. /\ NothingWritten /\ UNCHANGED <<engineVars, stuck>>
      /\ co.pc = "restore" /\ co.todo = {} /\ ~Waits
  BY DEF Restored, Waits
<1>2. /\ UNCHANGED <<jobs, saved, reports, savedReports, art, proc, sentBy>>
      /\ QueueFacts' /\ EngineFacts' /\ ReportFacts' /\ Synced'
      /\ Agrees(jobs, reports)' /\ Agrees(jobs, savedReports)' /\ Agrees(saved, savedReports)'
  BY <1>1, QuietFacts
<1>3. CASE co.job = 0
  <2>1. co' = Idle /\ needsRecon' = FALSE /\ app' = "ready"
    BY <1>3 DEF Restored
  <2>2. co.work = {} /\ \A i \in DOMAIN jobs, ch \in Channels : ~Due(i, ch)
    BY <1>1, <1>3 DEF CoordinatorInv, Working, Restoring
  <2>3. Types'
    BY <1>1, <1>2, <2>1, IdleTypes DEF CoordinatorInv, Types, InHand
  <2>4. Working' /\ Deciding' /\ Moving'
    BY <2>1, IdleTypes DEF Working, Deciding, Moving, InHand
  <2>5. Mending'
    BY <1>1, <1>2, <2>1, <2>2 DEF CoordinatorInv, IndexFacts, Mending, LatestIn, Prior
  <2>6. Restoring'
    BY <1>2, <2>1, <2>2, IdleTypes DEF Restoring, Due, Owes
  <2> QED
    BY <1>2, <2>3, <2>4, <2>5, <2>6 DEF CoordinatorInv, IndexFacts
<1>4. CASE co.job # 0
  <2>1. /\ UNCHANGED <<app, needsRecon>> /\ DOMAIN co' = DOMAIN co /\ co'.pc = "next"
        /\ co'.mode = co.mode /\ co'.job = co.job /\ co'.work = co.work /\ co'.todo = {}
    BY <1>1, <1>4 DEF Restored, Proceed, appVars, CoordinatorInv, Types
  <2>2. Types'
    BY <1>1, <1>2, <2>1 DEF CoordinatorInv, Types
  <2>3. Working' /\ Deciding' /\ Moving'
    BY <1>1, <2>1 DEF CoordinatorInv, Working, Deciding, Moving, InHand
  <2>4. Mending'
    BY <1>1, <1>2, <2>1 DEF CoordinatorInv, IndexFacts, Mending, LatestIn, Prior
  <2>5. Restoring'
    BY <1>1, <1>2, <2>1 DEF CoordinatorInv, Restoring, Due, Owes
  <2> QED
    BY <1>2, <2>2, <2>3, <2>4, <2>5 DEF CoordinatorInv, IndexFacts
<1> QED
  BY <1>3, <1>4

\* JobDone preserves the invariant.
LEMMA JobDoneKeeps ==
  ASSUME CoordinatorInv, JobDone
  PROVE  CoordinatorInv'
<1>1. /\ NothingWritten /\ UNCHANGED <<engineVars, stuck, needsRecon>>
      /\ co.pc = "next" /\ co.mode = "run" /\ ~Waits /\ app = "ready"
      /\ co' = Idle /\ app' \in {"ready", "faulted"}
  BY DEF JobDone, Waits, CoordinatorInv, Working
<1>2. /\ UNCHANGED <<jobs, saved, reports, savedReports, art, proc, sentBy>>
      /\ QueueFacts' /\ EngineFacts' /\ ReportFacts' /\ Synced'
      /\ Agrees(jobs, reports)' /\ Agrees(jobs, savedReports)' /\ Agrees(saved, savedReports)'
  BY <1>1, QuietFacts
<1>3. Types'
  BY <1>1, <1>2, IdleTypes DEF CoordinatorInv, Types, InHand
<1>4. CASE app' # "ready"
  BY <1>1, <1>2, <1>3, <1>4, IdleKeeps
<1>5. CASE app' = "ready"
  <2>1. Mending'
    BY <1>1, <1>2, <1>5 DEF CoordinatorInv, IndexFacts, Mending, LatestIn, Prior
  <2>2. Working' /\ Deciding' /\ Moving'
    BY <1>1, IdleTypes DEF Working, Deciding, Moving, InHand
  <2>3. Restoring'
    BY <1>1, <1>2, <1>5, IdleTypes DEF CoordinatorInv, Restoring, Due, Owes
  <2> QED
    BY <1>2, <1>3, <2>1, <2>2, <2>3 DEF CoordinatorInv, IndexFacts
<1> QED
  BY <1>4, <1>5

\* ReconcileDone preserves the invariant.
LEMMA ReconcileDoneKeeps ==
  ASSUME CoordinatorInv, ReconcileDone
  PROVE  CoordinatorInv'
<1>1. /\ NothingWritten /\ UNCHANGED <<engineVars, stuck, app, needsRecon>>
      /\ co.pc = "next" /\ co.mode = "reconcile" /\ co.work = {} /\ ~Waits
  BY DEF ReconcileDone, Waits, Proceed, appVars
<1>2. /\ UNCHANGED <<jobs, saved, reports, savedReports, art, proc, sentBy>>
      /\ QueueFacts' /\ EngineFacts' /\ ReportFacts' /\ Synced'
      /\ Agrees(jobs, reports)' /\ Agrees(jobs, savedReports)' /\ Agrees(saved, savedReports)'
  BY <1>1, QuietFacts
<1>3. Mending'
  BY <1>1, <1>2 DEF CoordinatorInv, IndexFacts, Mending, LatestIn, Prior
<1>4. /\ DOMAIN co' = DOMAIN co /\ co'.pc = "restore" /\ co'.job = 0
      /\ co'.mode = co.mode /\ co'.work = co.work /\ co'.todo = Missing(jobs)
  BY <1>1 DEF ReconcileDone, Proceed, CoordinatorInv, Types
<1>5. app # "ready"
  BY <1>1 DEF CoordinatorInv, Types, Working
<1>6. /\ \A due \in Missing(jobs) :
            /\ due \in Runs \X Channels
            /\ due[1] \in DOMAIN jobs /\ jobs[due[1]].kind = "research"
            /\ due[2] \in jobs[due[1]].requested /\ reports[due[1]].exists
            /\ \A k \in DOMAIN jobs : ~Delivers(jobs[k], due[1], due[2])
      /\ \A k \in DOMAIN jobs, ch \in Channels : Due(k, ch) => <<k, ch>> \in Missing(jobs)
  BY SameRequestEquivalence, MissingIsOwed
<1>7. Types'
  BY <1>1, <1>2, <1>4, <1>6 DEF CoordinatorInv, Types
<1>8. Working' /\ Deciding' /\ Moving'
  BY <1>1, <1>4, <1>5 DEF CoordinatorInv, Working, Deciding, Moving, InHand
<1>9. Restoring'
  BY <1>1, <1>2, <1>4, <1>5, <1>6 DEF Restoring, Due, Owes
<1> QED
  BY <1>2, <1>3, <1>7, <1>8, <1>9 DEF CoordinatorInv, IndexFacts

\* StartReconcile preserves the invariant.
LEMMA StartKeeps ==
  ASSUME CoordinatorInv, StartReconcile
  PROVE  CoordinatorInv'
<1> DEFINE found == {i \in DOMAIN jobs : jobs[i].state \in Reconcilable}
<1>1. /\ NothingWritten /\ UNCHANGED <<engineVars, stuck, app, needsRecon>>
      /\ app # "ready" /\ (~Waits \/ (jobs = saved /\ reports = savedReports))
      /\ co' = [Idle EXCEPT !.pc = "next", !.mode = "reconcile", !.work = found]
  BY DEF StartReconcile, Waits, appVars
<1>2. /\ UNCHANGED <<jobs, saved, reports, savedReports, art, proc, sentBy>>
      /\ QueueFacts' /\ EngineFacts' /\ ReportFacts' /\ Synced'
      /\ Agrees(jobs, reports)' /\ Agrees(jobs, savedReports)' /\ Agrees(saved, savedReports)'
  BY <1>1, QuietFacts
<1>3. /\ DOMAIN co' = DOMAIN Idle /\ co'.pc = "next" /\ co'.mode = "reconcile"
      /\ co'.job = 0 /\ co'.work = found /\ co'.todo = {}
  BY <1>1, IdleTypes
<1>4. Types'
  BY <1>1, <1>2, <1>3, IdleTypes DEF CoordinatorInv, Types
<1>5. Working' /\ Deciding' /\ Moving' /\ Restoring'
  BY <1>1, <1>3 DEF Working, Deciding, Moving, Restoring, InHand
<1>6. Mending'
  <2>1. "deliveryUnknown" \in Reconcilable
    BY DEF Reconcilable
  <2> QED
    BY <1>1, <1>2, <1>3, <2>1 DEF Mending, Late
<1> QED
  BY <1>2, <1>4, <1>5, <1>6 DEF CoordinatorInv, IndexFacts

-----------------------------------------------------------------------------
(* What the outcome of a job is taken to be.                               *)

(* Jobs are counted from 1, and their number is bounded.                   *)
LEMMA InRuns ==
  ASSUME CoordinatorInv
  PROVE  /\ DOMAIN jobs \subseteq Runs /\ DOMAIN saved \subseteq Runs
         /\ \A i \in DOMAIN jobs : i \in Nat \ {0} /\ jobs[i] \in Job
<1>1. /\ Len(jobs) \in Nat /\ Len(jobs) <= MaxJobs /\ DOMAIN jobs = 1 .. Len(jobs)
      /\ Len(saved) \in Nat /\ Len(saved) <= MaxJobs /\ DOMAIN saved = 1 .. Len(saved)
      /\ \A i \in DOMAIN jobs : jobs[i] \in Job
  BY Positions DEF CoordinatorInv, QueueFacts, QueueInv, Good, Room
<1> QED
  BY <1>1, RunsAssumption, MaxJobsAssumption

(* A delivery that was not sent, and may not be sent again, is the first   *)
(* one of its report on its channel that could have been sent: an earlier  *)
(* one that left a result was sent, or its outcome is unknown, and then    *)
(* this one may be sent again.                                             *)
LEMMA NotSentYet ==
  ASSUME CoordinatorInv, NEW i \in DOMAIN jobs, jobs[i].kind = "delivery",
         ~jobs[i].allowResend, LatestIn(jobs, i), art[i] # "ready"
  PROVE  Shown(reports, jobs[i]) # "sent"
<1> SUFFICES ASSUME Shown(reports, jobs[i]) = "sent" PROVE FALSE
  OBVIOUS
<1>1. Good(jobs) /\ Asked(jobs) /\ Truthful(jobs)
  BY DEF CoordinatorInv, QueueFacts, QueueInv
<1>2. \A k \in DOMAIN jobs : k \in Nat /\ jobs[k] \in Job
  BY <1>1, Positions DEF Good
<1>3. jobs[i].target \in Runs /\ jobs[i].channel \in Channels
  BY <1>2, Kinds
<1>4. PICK k \in DOMAIN jobs :
        Delivers(jobs[k], jobs[i].target, jobs[i].channel) /\ art[k] = "ready"
  BY <1>3 DEF CoordinatorInv, ReportFacts, Kept, Shown
<1>5. SameWork(jobs[k], jobs[i]) /\ SameWork(jobs[i], jobs[k]) /\ k # i
  BY <1>4 DEF Delivers, SameWork
<1>6. jobs[k].attempt <= jobs[i].attempt
  BY <1>5 DEF LatestIn, Prior
<1>7. k < i
  <2>1. \/ k < i \/ i < k
    BY <1>2, <1>5
  <2>2. i < k => jobs[i].attempt < jobs[k].attempt
    BY <1>1, <1>5 DEF Good, AttemptsOrdered
  <2>3. jobs[i].attempt \in Nat /\ jobs[k].attempt \in Nat
    BY <1>2, JobFields
  <2> QED
    BY <1>6, <2>1, <2>2, <2>3
<1>8. jobs[k].kind = "delivery" /\ jobs[k].state \in Terminal
  BY <1>1, <1>4, <1>5, <1>7 DEF Good, EarlierEnded, Delivers
<1>9. proc[k] # "none"
  <2>1. k \in Runs
    BY InRuns
  <2> QED
    BY <1>4, <2>1 DEF CoordinatorInv, EngineFacts
<1>10. jobs[k].state \in {"succeeded", "deliveryUnknown"}
  BY <1>1, <1>8, <1>9 DEF Good, DeliveryEnds, Truthful, Terminal
<1>11. jobs[i].acknowledge \/ jobs[i].allowResend
  BY <1>1, <1>5, <1>7, <1>8, <1>10 DEF Good, RepeatsConfirmed
<1> QED
  BY <1>1, <1>11 DEF Asked

(* What a job ends with that left no usable result.                        *)
LEMMA InvalidJustified ==
  ASSUME CoordinatorInv, NEW i \in DOMAIN jobs, art[i] \notin {"ready", "empty"},
         jobs[i].kind = "delivery" /\ jobs[i].state = "deliveryUnknown" =>
           jobs[i].error # "terminal_invalid"
  PROVE  Justified(i, Invalid(jobs[i]))
<1>1. jobs[i].kind \in {"research", "delivery"}
  BY InRuns, JobFields
<1>2. jobs[i].kind = "delivery" /\ ~jobs[i].allowResend /\ LatestIn(jobs, i) =>
        Shown(reports, jobs[i]) # "sent"
  BY NotSentYet
<1> QED
  BY <1>1, <1>2 DEF Justified, Invalid, Outcome, Lose, Outcomes

\* EngineTerminalResolver: a success is earned by the artifact it was read from.
LEMMA SuccessJustified ==
  ASSUME CoordinatorInv, NEW i \in DOMAIN jobs, art[i] \in {"ready", "empty"},
         jobs[i].kind = "delivery" /\ jobs[i].state = "deliveryUnknown" =>
           jobs[i].error # "terminal_invalid"
  PROVE  Justified(i, Succeeded(art[i]))
<1>1. jobs[i].kind \in {"research", "delivery"} /\ i \in Runs
  BY InRuns, JobFields
<1>2. jobs[i].kind = "delivery" => art[i] = "ready"
  BY <1>1 DEF CoordinatorInv, EngineFacts, Result
<1> QED
  BY <1>1, <1>2 DEF Justified, Succeeded, Outcome, Outcomes

(* EngineTerminalResolver.resolve.                                         *)
LEMMA ResolutionJustified ==
  ASSUME CoordinatorInv, NEW i \in DOMAIN jobs,
         jobs[i].kind = "delivery" /\ jobs[i].state = "deliveryUnknown" =>
           jobs[i].error # "terminal_invalid"
  PROVE  Justified(i, Resolution(jobs[i], art[i]))
<1>1. /\ jobs[i].kind \in {"research", "delivery"} /\ i \in Runs
      /\ art[i] \in {"none"} \cup Result \cup EngineErrors
  BY InRuns, JobFields DEF CoordinatorInv, Types, Artifact
<1>2. CASE art[i] \in {"ready", "empty"}
  BY <1>2, SuccessJustified DEF Resolution
<1>3. CASE art[i] = "invalid"
  BY <1>3, InvalidJustified DEF Resolution
<1>4. CASE art[i] \notin Result /\ jobs[i].kind = "delivery"
  <2>1. ~jobs[i].allowResend /\ LatestIn(jobs, i) => Shown(reports, jobs[i]) # "sent"
    BY <1>4, NotSentYet DEF Result
  <2>2. Resolution(jobs[i], art[i]) = Outcome("deliveryUnknown", "none", FALSE)
    BY <1>4 DEF Resolution, Result
  <2> QED
    BY <1>1, <1>4, <2>1, <2>2 DEF Justified, Outcome, Outcomes
<1>5. CASE art[i] \notin Result /\ jobs[i].kind = "research"
  <2>1. art[i] = "none" \/ art[i] \in {"cancelled", "interrupted", "failed"}
    BY <1>1, <1>5, EngineErrorsAssumption
  <2>2. Resolution(jobs[i], art[i]) \in
          {Outcome(s, "none", FALSE) : s \in {"cancelled", "interrupted", "failed"}}
    BY <1>5, <2>1 DEF Resolution, Result
  <2> QED
    BY <1>1, <1>5, <2>2 DEF Justified, Outcome, Outcomes
<1> QED
  BY <1>1, <1>2, <1>3, <1>4, <1>5 DEF Result

(* A late result is not skipped.                                           *)
LEMMA LateIsBelieved ==
  ASSUME NEW job, NEW a, NEW r, Late(job, a, r)
  PROVE  ~Skips(job, a) /\ Resolution(job, a).state = "succeeded"
<1>1. a = "ready" /\ job.state = "deliveryUnknown" /\ job.error # "terminal_invalid"
  BY DEF Late
<1>2. ~Skips(job, a)
  BY <1>1 DEF Skips, Result
<1>3. Resolution(job, a) = Succeeded(a)
  BY <1>1 DEF Resolution
<1> QED
  BY <1>2, <1>3 DEF Succeeded, Outcome

\* ReconcileNext preserves the invariant.
LEMMA ReconcileKeeps ==
  ASSUME CoordinatorInv, ReconcileNext
  PROVE  CoordinatorInv'
<1>0. co.pc = "next" /\ co.work # {} /\ co.work \subseteq DOMAIN jobs
  BY DEF ReconcileNext, CoordinatorInv, Types
<1>1. PICK i : i = Min(co.work)
  OBVIOUS
<1>2. i \in co.work /\ i \in DOMAIN jobs
  <2>1. co.work \in SUBSET Nat
    BY <1>0, InRuns
  <2>2. \E m \in co.work : \A n \in co.work : m <= n
    BY <1>0, <2>1, LeastExists
  <2> QED
    BY <1>0, <1>1, <2>2 DEF Min
<1>3. /\ NothingWritten /\ UNCHANGED <<engineVars, stuck, app, needsRecon>> /\ ~Waits
      /\ IF Skips(jobs[i], art[i])
         THEN co' = [co EXCEPT !.work = @ \ {i}, !.job = i]
         ELSE co' = [co EXCEPT !.work = @ \ {i}, !.job = i, !.pc = "persist",
                               !.outcome = Resolution(jobs[i], art[i])]
  BY <1>0, <1>1 DEF ReconcileNext, Proceed, appVars, Waits
<1>4. /\ UNCHANGED <<jobs, saved, reports, savedReports, art, proc, sentBy>>
      /\ QueueFacts' /\ EngineFacts' /\ ReportFacts' /\ Synced'
      /\ Agrees(jobs, reports)' /\ Agrees(jobs, savedReports)' /\ Agrees(saved, savedReports)'
  BY <1>3, QuietFacts
<1>5. /\ DOMAIN co' = DOMAIN co /\ co'.job = i /\ co'.work = co.work \ {i}
      /\ co'.mode = co.mode /\ co'.todo = co.todo
      /\ IF Skips(jobs[i], art[i]) THEN co'.pc = "next"
         ELSE co'.pc = "persist" /\ co'.outcome = Resolution(jobs[i], art[i])
  BY <1>0, <1>3 DEF CoordinatorInv, Types
<1>6. co.mode = "reconcile" /\ app # "ready"
  BY <1>0 DEF CoordinatorInv, Types, Working
<1>7. Types'
  BY <1>0, <1>2, <1>3, <1>4, <1>5 DEF CoordinatorInv, Types, InHand
<1>8. Working' /\ Moving'
  BY <1>0, <1>2, <1>3, <1>4, <1>5, <1>6 DEF CoordinatorInv, Working, Moving, InHand
<1>9. Deciding'
  <2> SUFFICES ASSUME ~Skips(jobs[i], art[i]) PROVE Justified(i, Resolution(jobs[i], art[i]))
    BY <1>4, <1>5 DEF Deciding, Justified, LatestIn, Prior
  <2>1. jobs[i].state = "deliveryUnknown" => jobs[i].error # "terminal_invalid"
    BY DEF Skips, Terminal
  <2> QED
    BY <1>2, <2>1, ResolutionJustified
<1>10. Mending'
  <2>1. Late(jobs[i], art[i], reports) =>
          ~Skips(jobs[i], art[i]) /\ Resolution(jobs[i], art[i]).state = "succeeded"
    BY LateIsBelieved
  <2>2. \A k \in DOMAIN jobs :
          jobs[k].kind = "delivery" /\ LatestIn(jobs, k) /\ Late(jobs[k], art[k], reports) =>
            k \in co.work
    BY <1>0 DEF CoordinatorInv, IndexFacts, Mending
  <2> QED
    BY <1>3, <1>4, <1>5, <1>6, <2>1, <2>2 DEF Mending, LatestIn, Prior
<1>11. Restoring'
  BY <1>0, <1>3, <1>4, <1>5, <1>6 DEF CoordinatorInv, Restoring
<1> QED
  BY <1>4, <1>7, <1>8, <1>9, <1>10, <1>11 DEF CoordinatorInv, IndexFacts

-----------------------------------------------------------------------------
(* A job in execution, from its claim to its outcome.                      *)

\* While a job runs, its claim is saved and nothing waits to be written.
LEMMA ExecutionFacts ==
  ASSUME CoordinatorInv, co.pc \in {"admit", "launch", "running"}
  PROVE  /\ co.job \in DOMAIN jobs /\ co.job \in Runs /\ jobs[co.job] \in Job
         /\ jobs[co.job].state = "running" /\ saved[co.job] = jobs[co.job]
         /\ app = "ready" /\ ~Waits /\ co.mode = "run" /\ co.work = {} /\ co.todo = {}
         /\ co.pc \in {"admit", "launch"} => proc[co.job] = "none"
<1>1. /\ co.job \in DOMAIN jobs /\ jobs[co.job].state = "running" /\ app = "ready"
      /\ co.mode = "run" /\ co.work = {} /\ co.todo = {} /\ ~Waits
      /\ co.pc \in {"admit", "launch"} => proc[co.job] = "none"
  BY DEF CoordinatorInv, Working, InHand, Waits
<1>2. saved[co.job] = jobs[co.job]
  BY <1>1 DEF CoordinatorInv, Synced
<1> QED
  BY <1>1, <1>2, InRuns

(* The engine's part of a step of the job in execution.                    *)
LEMMA ProcessStep ==
  ASSUME CoordinatorInv, co.pc \in {"launch", "running"},
         NEW p \in {"alive", "orphan", "gone"}, proc' = [proc EXCEPT ![co.job] = p],
         UNCHANGED <<jobs, saved, reports, savedReports, art, sentBy>>
  PROVE  /\ proc' \in [Runs -> {"none", "alive", "orphan", "gone"}]
         /\ QueueFacts' /\ EngineFacts' /\ ReportFacts'
         /\ Agrees(jobs, reports)' /\ Agrees(jobs, savedReports)' /\ Agrees(saved, savedReports)'
         /\ app' = "ready" => Synced'
<1>1. /\ co.job \in DOMAIN jobs /\ co.job \in Runs
      /\ jobs[co.job].state = "running" /\ saved[co.job].state = "running" /\ ~Waits
  BY ExecutionFacts
<1>2. /\ proc' \in [Runs -> {"none", "alive", "orphan", "gone"}]
      /\ \A i \in Runs : i # co.job => proc'[i] = proc[i]
      /\ proc'[co.job] # "none"
  BY <1>1 DEF CoordinatorInv, Types
<1>3. DOMAIN saved \subseteq Runs /\ DOMAIN jobs \subseteq Runs
  BY InRuns
<1>4. Truthful(jobs)' /\ Truthful(saved)'
  BY <1>1, <1>2, <1>3 DEF CoordinatorInv, QueueFacts, Truthful
<1>5. QueueFacts'
  BY <1>4 DEF CoordinatorInv, QueueFacts, QueueInv
<1>6. EngineFacts'
  BY <1>1, <1>2 DEF CoordinatorInv, EngineFacts
<1>7. ReportFacts'
  BY DEF CoordinatorInv, ReportFacts, Kept, Recorded
<1>8. Agrees(jobs, reports)' /\ Agrees(jobs, savedReports)' /\ Agrees(saved, savedReports)'
  BY DEF CoordinatorInv, IndexFacts, Agrees
<1>9. Synced'
  BY <1>1 DEF CoordinatorInv, Synced
<1> QED
  BY <1>2, <1>5, <1>6, <1>7, <1>8, <1>9

(* The coordinator's part.                                                 *)
LEMMA ExecutionStep ==
  ASSUME CoordinatorInv, co.pc \in {"admit", "launch", "running"},
         UNCHANGED <<jobs, art, app>>, DOMAIN co' = DOMAIN co,
         co'.job = co.job, co'.mode = co.mode, co'.work = co.work, co'.todo = co.todo,
         co'.pc \in {"launch", "running", "persist"},
         co'.pc = "launch" => proc'[co.job] = "none",
         co'.pc = "persist" => Justified(co.job, co.outcome)',
         \A i \in Runs : /\ reports'[i].effective = reports[i].effective
                         /\ reports'[i].exists = reports[i].exists,
         \A i \in DOMAIN jobs : jobs[i].kind = "delivery" /\ Shown(reports', jobs[i]) = "sent" =>
           Shown(reports, jobs[i]) = "sent"
  PROVE  Working' /\ Deciding' /\ Moving' /\ Restoring' /\ Mending'
<1>1. /\ co.job \in DOMAIN jobs /\ jobs[co.job].state = "running" /\ app = "ready"
      /\ co.mode = "run" /\ co.work = {} /\ co.todo = {}
  BY ExecutionFacts
<1>2. Working'
  BY <1>1 DEF Working, InHand
<1>3. Deciding' /\ Moving'
  BY DEF Deciding, Moving
<1>4. Restoring'
  BY <1>1, ReadyFacts, InRuns DEF Restoring, Due, Owes
<1>5. Mending'
  BY <1>1, ReadyFacts DEF Mending, Late, LatestIn, Prior
<1> QED
  BY <1>2, <1>3, <1>4, <1>5

\* Launch preserves the invariant.
LEMMA LaunchKeeps ==
  ASSUME CoordinatorInv, Launch
  PROVE  CoordinatorInv'
<1>1. /\ co.pc = "launch" /\ proc' = [proc EXCEPT ![co.job] = "alive"]
      /\ co' = [co EXCEPT !.pc = "running"]
      /\ UNCHANGED <<jobs, saved, reports, savedReports, art, sentBy, stuck, app, needsRecon>>
  BY DEF Launch, Proceed, NothingWritten, queueVars, reportVars, appVars
<1>2. /\ proc' \in [Runs -> {"none", "alive", "orphan", "gone"}]
      /\ QueueFacts' /\ EngineFacts' /\ ReportFacts'
      /\ Agrees(jobs, reports)' /\ Agrees(jobs, savedReports)' /\ Agrees(saved, savedReports)'
      /\ Synced'
  BY <1>1, ProcessStep, ExecutionFacts
<1>3. /\ DOMAIN co' = DOMAIN co /\ co'.pc = "running" /\ co'.job = co.job
      /\ co'.mode = co.mode /\ co'.work = co.work /\ co'.todo = co.todo
  BY <1>1 DEF CoordinatorInv, Types
<1>4. Working' /\ Deciding' /\ Moving' /\ Restoring' /\ Mending'
  BY <1>1, <1>3, ExecutionStep
<1>5. Types'
  BY <1>1, <1>2, <1>3 DEF CoordinatorInv, Types, InHand
<1> QED
  BY <1>2, <1>4, <1>5 DEF CoordinatorInv, IndexFacts

\* LaunchFails preserves the invariant.
LEMMA LaunchFailsKeeps ==
  ASSUME CoordinatorInv, LaunchFails
  PROVE  CoordinatorInv'
<1>1. /\ co.pc = "launch" /\ NothingWritten
      /\ UNCHANGED <<engineVars, stuck, app, needsRecon>>
      /\ \E out \in {Outcome("cancelled", "none", FALSE), Failed} : co' = Persisting(out)
  BY DEF LaunchFails, Proceed, appVars
<1>2. PICK out \in {Outcome("cancelled", "none", FALSE), Failed} : co' = Persisting(out)
  BY <1>1
<1>3. /\ UNCHANGED <<jobs, saved, reports, savedReports, art, proc, sentBy>>
      /\ QueueFacts' /\ EngineFacts' /\ ReportFacts' /\ Synced'
      /\ Agrees(jobs, reports)' /\ Agrees(jobs, savedReports)' /\ Agrees(saved, savedReports)'
  BY <1>1, QuietFacts, ExecutionFacts
<1>4. Justified(co.job, out)
  <2>1. /\ jobs[co.job].kind \in {"research", "delivery"}
        /\ jobs[co.job].state = "running" /\ proc[co.job] = "none"
    BY <1>1, ExecutionFacts, JobFields
  <2>2. out.state \in {"cancelled", "failed"} /\ out.error = "none"
    BY DEF Outcome, Failed
  <2> QED
    BY <2>1, <2>2 DEF Justified, Outcomes
<1>5. /\ DOMAIN co' = DOMAIN co /\ co'.pc = "persist" /\ co'.job = co.job
      /\ co'.mode = co.mode /\ co'.work = co.work /\ co'.todo = co.todo
      /\ co'.outcome = out
  BY <1>2 DEF Persisting, CoordinatorInv, Types
<1>6. Justified(co.job, co.outcome)'
  BY <1>3, <1>4, <1>5 DEF Justified, LatestIn, Prior
<1>7. Working' /\ Deciding' /\ Moving' /\ Restoring' /\ Mending'
  BY <1>1, <1>3, <1>5, <1>6, ExecutionStep
<1>8. Types'
  BY <1>1, <1>3, <1>5 DEF CoordinatorInv, Types, InHand
<1> QED
  BY <1>3, <1>7, <1>8 DEF CoordinatorInv, IndexFacts

(* The process group ended, or was left behind.                            *)
LEMMA EndedKeeps ==
  ASSUME CoordinatorInv, co.pc = "running",
         NEW p \in {"orphan", "gone"}, proc' = [proc EXCEPT ![co.job] = p],
         UNCHANGED <<jobs, saved, reports, savedReports, art, sentBy, app>>,
         needsRecon' \in BOOLEAN, stuck' \in BOOLEAN,
         NEW out, Justified(co.job, out), co' = Persisting(out),
         jobs[co.job].kind = "delivery" => out.state \in {"succeeded", "deliveryUnknown"}
  PROVE  CoordinatorInv'
<1>1. /\ proc' \in [Runs -> {"none", "alive", "orphan", "gone"}]
      /\ QueueFacts' /\ EngineFacts' /\ ReportFacts'
      /\ Agrees(jobs, reports)' /\ Agrees(jobs, savedReports)' /\ Agrees(saved, savedReports)'
      /\ Synced'
  BY ProcessStep, ExecutionFacts
<1>2. /\ DOMAIN co' = DOMAIN co /\ co'.pc = "persist" /\ co'.job = co.job
      /\ co'.mode = co.mode /\ co'.work = co.work /\ co'.todo = co.todo
      /\ co'.outcome = out
  BY DEF Persisting, CoordinatorInv, Types
<1>3. Justified(co.job, co.outcome)'
  BY <1>2 DEF Justified, LatestIn, Prior
<1>4. Working' /\ Deciding' /\ Moving' /\ Restoring' /\ Mending'
  BY <1>2, <1>3, ExecutionStep
<1>5. Types'
  BY <1>1, <1>2 DEF CoordinatorInv, Types, InHand
<1> QED
  BY <1>1, <1>4, <1>5 DEF CoordinatorInv, IndexFacts

(* The engine alone never makes a delivery fail.                           *)
LEMMA NeverFailed ==
  ASSUME NEW job, job.kind = "delivery", NEW a
  PROVE  /\ Resolution(job, a).state \in {"succeeded", "deliveryUnknown"}
         /\ Succeeded(a).state = "succeeded" /\ Invalid(job).state = "deliveryUnknown"
  BY DEF Resolution, Succeeded, Invalid, Lose, Outcome

\* Finish preserves the invariant.
LEMMA FinishKeeps ==
  ASSUME CoordinatorInv, Finish
  PROVE  CoordinatorInv'
<1>1. PICK out : out = Resolution(jobs[co.job], art[co.job])
  OBVIOUS
<1>2. /\ co.pc = "running" /\ proc' = [proc EXCEPT ![co.job] = "gone"]
      /\ UNCHANGED <<jobs, saved, reports, savedReports, art, sentBy, app>>
      /\ needsRecon' = needsRecon /\ stuck' = stuck /\ co' = Persisting(out)
  BY <1>1 DEF Finish, Proceed, NothingWritten, queueVars, reportVars, appVars
<1>3. Justified(co.job, out)
  BY <1>1, <1>2, ExecutionFacts, ResolutionJustified
<1>4. jobs[co.job].kind = "delivery" => out.state \in {"succeeded", "deliveryUnknown"}
  BY <1>1, NeverFailed
<1>5. needsRecon' \in BOOLEAN /\ stuck' \in BOOLEAN
  BY <1>2 DEF CoordinatorInv, Types
<1> QED
  BY <1>2, <1>3, <1>4, <1>5, EndedKeeps

\* CleanupFails preserves the invariant.
LEMMA CleanupKeeps ==
  ASSUME CoordinatorInv, CleanupFails
  PROVE  CoordinatorInv'
<1>1. PICK out : out = IF art[co.job] \in {"ready", "empty"} THEN Succeeded(art[co.job])
                       ELSE Invalid(jobs[co.job])
  OBVIOUS
<1>2. /\ co.pc = "running" /\ proc' = [proc EXCEPT ![co.job] = "orphan"]
      /\ UNCHANGED <<jobs, saved, reports, savedReports, art, sentBy, app>>
      /\ needsRecon' \in BOOLEAN /\ stuck' \in BOOLEAN /\ co' = Persisting(out)
  BY <1>1 DEF CleanupFails, queueVars, reportVars
<1>3. Justified(co.job, out)
  BY <1>1, <1>2, ExecutionFacts, SuccessJustified, InvalidJustified
<1>4. jobs[co.job].kind = "delivery" => out.state \in {"succeeded", "deliveryUnknown"}
  BY <1>1, NeverFailed
<1> QED
  BY <1>2, <1>3, <1>4, EndedKeeps

-----------------------------------------------------------------------------
(* The engine processes.                                                   *)

(* What a process may leave behind: a message, a terminal artifact, and,   *)
(* when nobody waits for it, its end.                                      *)
EngineMoves(i) ==
  /\ art' \in [Runs -> Artifact]
  /\ proc' \in [Runs -> {"none", "alive", "orphan", "gone"}] /\ sentBy' \subseteq Runs
  /\ \A k \in Runs :
       /\ proc'[k] = "none" <=> proc[k] = "none"
       /\ k # i => art'[k] = art[k]
       /\ art[k] # "none" => art'[k] = art[k]
  /\ proc[i] # "none" /\ sentBy \subseteq sentBy' /\ sentBy' \subseteq sentBy \cup {i}
  /\ jobs[i].kind = "delivery" /\ art'[i] \in Result => i \in sentBy' /\ art'[i] # "empty"

\* Engine preserves the invariant.
LEMMA EngineKeeps ==
  ASSUME CoordinatorInv, Engine
  PROVE  CoordinatorInv'
<1>1. UNCHANGED <<jobs, saved, reports, savedReports, co, app, needsRecon, stuck>>
  BY DEF Engine, NothingWritten, queueVars, reportVars, appVars
<1>2. PICK i \in DOMAIN jobs :
        \/ EngineSends(i)
        \/ \E a \in Artifact \ {"none"} : EngineWrites(i, a)
        \/ OrphanExits(i)
  BY DEF Engine
<1>3. i \in Runs
  BY InRuns
<1>4. EngineMoves(i)
  <2>1. CASE EngineSends(i)
    BY <1>3, <2>1 DEF EngineMoves, EngineSends, Living, CoordinatorInv, Types, EngineFacts
  <2>2. ASSUME NEW a \in Artifact \ {"none"}, EngineWrites(i, a)
        PROVE  EngineMoves(i)
    BY <1>3, <2>2 DEF EngineMoves, EngineWrites, Living, CoordinatorInv, Types
  <2>3. CASE OrphanExits(i)
    BY <1>3, <2>3 DEF EngineMoves, OrphanExits, CoordinatorInv, Types, EngineFacts
  <2> QED
    BY <1>2, <2>1, <2>2, <2>3
<1>5. Types'
  BY <1>1, <1>4 DEF CoordinatorInv, Types, EngineMoves
<1>6. QueueFacts'
  <2>1. Truthful(jobs)' /\ Truthful(saved)'
    BY <1>1, <1>4, InRuns DEF CoordinatorInv, QueueFacts, Truthful, EngineMoves
  <2> QED
    BY <1>1, <2>1 DEF CoordinatorInv, QueueFacts, QueueInv
<1>7. EngineFacts'
  BY <1>1, <1>3, <1>4 DEF CoordinatorInv, EngineFacts, EngineMoves
<1>8. ReportFacts'
  <2>1. ASSUME NEW r, Kept(r) PROVE Kept(r)'
    BY <1>1, <1>4, <2>1, InRuns DEF Kept, EngineMoves
  <2>2. Kept(reports)' /\ Kept(savedReports)'
    BY <1>1, <2>1 DEF CoordinatorInv, ReportFacts
  <2> QED
    BY <1>1, <2>2 DEF CoordinatorInv, ReportFacts, Recorded
<1>9. ASSUME NEW q, NEW r, DOMAIN q \subseteq Runs, Agrees(q, r) PROVE Agrees(q, r)'
  BY <1>4, <1>9 DEF Agrees, Late, EngineMoves
<1>10. Agrees(jobs, reports)' /\ Agrees(jobs, savedReports)' /\ Agrees(saved, savedReports)'
  BY <1>1, <1>9, InRuns DEF CoordinatorInv, IndexFacts
<1>11. Mending'
  <2> SUFFICES ASSUME NEW k \in DOMAIN jobs, jobs[k].kind = "delivery", LatestIn(jobs, k),
                      Late(jobs[k], art'[k], reports)
               PROVE  Late(jobs[k], art[k], reports)
    BY <1>1 DEF CoordinatorInv, IndexFacts, Mending, LatestIn, Prior
  <2>1. Shown(reports, jobs[k]) = "unknown" \/ Late(jobs[k], art[k], reports)
    BY DEF CoordinatorInv, IndexFacts, Agrees, Late
  <2> QED
    BY <2>1 DEF Late
<1>12. Synced' /\ Moving' /\ Restoring'
  BY <1>1 DEF CoordinatorInv, Synced, Waits, Moving, LatestIn, Prior, Restoring, Due, Owes
<1>13. Working'
  <2>1. co.pc \in {"admit", "launch"} => proc'[co.job] = "none"
    BY <1>4, ExecutionFacts DEF EngineMoves
  <2> QED
    BY <1>1, <2>1 DEF CoordinatorInv, Working
<1>14. Deciding'
  <2> SUFFICES ASSUME co.pc \in {"persist", "move"} PROVE Justified(co.job, co.outcome)'
    BY <1>1 DEF Deciding
  <2>1. co.job \in Runs /\ Justified(co.job, co.outcome)
    BY InRuns DEF CoordinatorInv, Working, InHand, Deciding
  <2> QED
    BY <1>1, <1>4, <2>1 DEF Justified, LatestIn, Prior, EngineMoves
<1> QED
  BY <1>5, <1>6, <1>7, <1>8, <1>10, <1>11, <1>12, <1>13, <1>14 DEF CoordinatorInv, IndexFacts

-----------------------------------------------------------------------------
(* The App dies, and finds at its launch what its files hold.              *)

\* Crash preserves the invariant.
LEMMA CrashKeeps ==
  ASSUME CoordinatorInv, Crash
  PROVE  CoordinatorInv'
<1>1. /\ jobs' = saved /\ saved' = saved /\ reports' = savedReports
      /\ savedReports' = savedReports /\ art' = art /\ sentBy' = sentBy
      /\ proc' = [i \in Runs |-> IF proc[i] = "alive" THEN "orphan" ELSE proc[i]]
      /\ co' = Idle /\ app' = "launched" /\ needsRecon' = FALSE /\ stuck' = FALSE
  BY DEF Crash, Relaunch
<1>2. /\ proc' \in [Runs -> {"none", "alive", "orphan", "gone"}]
      /\ \A i \in Runs : proc'[i] = "none" <=> proc[i] = "none"
  BY <1>1 DEF CoordinatorInv, Types
<1>3. OneChange(jobs, saved) /\ Extends(jobs, saved) /\ Good(saved) /\ OneChange(saved, saved)
  BY Unchanging DEF CoordinatorInv, QueueFacts, QueueInv, OneChange
<1>4. Types'
  BY <1>1, <1>2, IdleTypes DEF CoordinatorInv, Types
<1>5. QueueFacts'
  <2>1. Truthful(saved)'
    BY <1>1, <1>2, InRuns DEF CoordinatorInv, QueueFacts, Truthful
  <2> QED
    BY <1>1, <1>3, <2>1 DEF CoordinatorInv, QueueFacts, QueueInv, OneChange, Truthful
<1>6. EngineFacts'
  <2>1. \A i \in DOMAIN jobs : i \in DOMAIN saved /\ saved[i].kind = jobs[i].kind
    BY <1>3 DEF Extends, SameRequest, SameDuty, SameWork
  <2>2. \A i \in Runs : i \notin DOMAIN jobs => proc[i] = "none" /\ art[i] = "none"
    BY DEF CoordinatorInv, EngineFacts
  <2> QED
    BY <1>1, <1>2, <2>1, <2>2 DEF CoordinatorInv, EngineFacts, Result
<1>7. ReportFacts'
  <2>1. Kept(savedReports)' /\ Kept(reports)'
    BY <1>1, <1>3, KeptByExtension DEF CoordinatorInv, ReportFacts
  <2>2. Recorded(saved)' /\ Recorded(jobs)'
    <3>1. \A i \in DOMAIN saved : saved[i].kind = "delivery" => saved[i].target \in Runs
      BY <1>3, Positions, Kinds DEF Good
    <3> QED
      BY <1>1, <3>1, InRuns DEF CoordinatorInv, ReportFacts, Recorded
  <2> QED
    BY <1>1, <2>1, <2>2 DEF ReportFacts
<1>8. Agrees(jobs, reports)' /\ Agrees(jobs, savedReports)' /\ Agrees(saved, savedReports)'
  BY <1>1 DEF CoordinatorInv, IndexFacts, Agrees
<1>9. Synced'
  BY <1>1 DEF Synced
<1> QED
  BY <1>1, <1>4, <1>5, <1>6, <1>7, <1>8, <1>9, IdleKeeps

-----------------------------------------------------------------------------
(* The deliveries that a report owes.                                      *)

\* Restore preserves the invariant.
LEMMA RestoreKeeps ==
  ASSUME CoordinatorInv, Restore
  PROVE  CoordinatorInv' /\ OneChange(jobs, jobs')
<1>1. PICK due \in co.todo :
        LET new == NewDelivery(jobs, due[1], due[2], FALSE, FALSE, FALSE)
            rest == [co EXCEPT !.todo = @ \ {due}]
        IN  CASE HasActive(jobs, new) -> NothingWritten /\ Proceed(rest)
              [] Admits(jobs, new)    ->
                   \/ QueueWritten(Append(jobs, new)) /\ Proceed(rest)
                   \/ QueueThrows(Append(jobs, new)) /\ Fault
              [] OTHER                -> NothingWritten /\ Fault
  BY DEF Restore
<1> DEFINE new == NewDelivery(jobs, due[1], due[2], FALSE, FALSE, FALSE)
           rest == [co EXCEPT !.todo = @ \ {due}]
<1>2. UNCHANGED <<engineVars, stuck>> /\ co.pc = "restore" /\ ~Waits
  BY DEF Restore, Waits
<1>3. Good(jobs)
  BY DEF CoordinatorInv, QueueFacts, QueueInv
<1>4. due \in Runs \X Channels /\ due[1] \in Runs /\ due[2] \in Channels
  BY DEF CoordinatorInv, Types
<1>5. /\ due[1] \in DOMAIN jobs /\ jobs[due[1]].kind = "research"
      /\ due[2] \in jobs[due[1]].requested /\ reports[due[1]].exists
      /\ \A k \in DOMAIN jobs : Delivers(jobs[k], due[1], due[2]) => jobs[k].state = "pending"
  BY DEF CoordinatorInv, Restoring
<1>6. new \in Job /\ new.state = "pending" /\ new.attempt = NextAttempt(jobs, new)
  <2>1. \A manual \in BOOLEAN, resend \in BOOLEAN, ack \in BOOLEAN :
          LET job == NewDelivery(jobs, due[1], due[2], manual, resend, ack)
          IN  job \in Job /\ job.state = "pending" /\ job.attempt = NextAttempt(jobs, job)
    BY <1>3, <1>4, NewDeliveryJob
  <2>2. FALSE \in BOOLEAN
    OBVIOUS
  <2> QED
    BY <2>1, <2>2, Zenon
<1>7. /\ new.kind = "delivery" /\ ~new.manual /\ ~new.acknowledge
      /\ new.target = due[1] /\ new.channel = due[2]
  BY DEF NewDelivery
<1>8. \/ HasActive(jobs, new) /\ NothingWritten /\ Proceed(rest)
      \/ Admits(jobs, new) /\ QueueWritten(Append(jobs, new)) /\ Proceed(rest)
      \/ Admits(jobs, new) /\ QueueThrows(Append(jobs, new)) /\ Fault
      \/ NothingWritten /\ Fault
  BY <1>1
<1> HIDE DEF new
<1>9. \A k \in DOMAIN jobs : Delivers(jobs[k], due[1], due[2]) <=> k \in Prior(jobs, new)
  BY <1>7 DEF Delivers, Prior, SameWork
<1>10. Proceed(rest) =>
         /\ UNCHANGED <<app, needsRecon>> /\ DOMAIN co' = DOMAIN co /\ co'.pc = "restore"
         /\ co'.job = co.job /\ co'.mode = co.mode /\ co'.work = co.work
         /\ co'.todo = co.todo \ {due}
  BY <1>2 DEF Proceed, appVars, CoordinatorInv, Types
<1> HIDE DEF rest
<1>11. CASE NothingWritten /\ Fault
  BY <1>2, <1>11, FaultKeeps
<1>12. CASE HasActive(jobs, new) /\ NothingWritten /\ Proceed(rest)
  <2>1. /\ UNCHANGED <<jobs, saved, reports, savedReports, art, proc, sentBy>>
        /\ QueueFacts' /\ EngineFacts' /\ ReportFacts' /\ Synced'
        /\ Agrees(jobs, reports)' /\ Agrees(jobs, savedReports)' /\ Agrees(saved, savedReports)'
    BY <1>2, <1>12, QuietFacts
  <2>2. ~Due(due[1], due[2])
    BY <1>9, <1>12 DEF HasActive, Due, Owes, Prior
  <2>3. \A i \in DOMAIN jobs, ch \in Channels : Due(i, ch) => <<i, ch>> # due
    BY <2>2
  <2>4. Types'
    BY <1>2, <1>10, <1>12, <2>1 DEF CoordinatorInv, Types, InHand
  <2>5. Working' /\ Deciding' /\ Moving'
    BY <1>2, <1>10, <1>12 DEF CoordinatorInv, Working, Deciding, Moving, InHand
  <2>6. Mending'
    BY <1>2, <1>10, <1>12, <2>1 DEF CoordinatorInv, IndexFacts, Mending, LatestIn, Prior
  <2>7. Restoring'
    BY <1>2, <1>10, <1>12, <2>1, <2>3 DEF CoordinatorInv, Restoring, Due, Owes
  <2> QED
    BY <1>3, <2>1, <2>4, <2>5, <2>6, <2>7, Unchanging DEF CoordinatorInv, IndexFacts
<1>13. PICK c : c = Append(jobs, new)
  OBVIOUS
<1>14. ASSUME Admits(jobs, new)
       PROVE  Candidate(c) /\ Appended(jobs, new, c) /\ Len(jobs) + 1 \in Runs
  <2>1. Prior(jobs, new) = {}
    <3> SUFFICES ASSUME NEW k \in Prior(jobs, new) PROVE FALSE
      OBVIOUS
    <3>1. k \in DOMAIN jobs /\ jobs[k].state = "pending"
      BY <1>5, <1>9 DEF Prior
    <3> QED
      BY <1>14, <3>1 DEF Admits, HasActive, Active
  <2>2. <<new.target, new.channel>> \in Owed(jobs)
    BY <1>4, <1>5, <1>7, <1>9, <2>1 DEF Owed, Owes
  <2>3. /\ new.acknowledge => new.allowResend
        /\ new.kind = "delivery" /\ ~new.manual => Prior(jobs, new) = {}
        /\ new.kind = "delivery" => reports[new.target].exists
    BY <1>5, <1>7, <2>1
  <2> QED
    BY <1>6, <1>7, <1>13, <1>14, <2>2, <2>3, AppendCandidate, Zenon
<1>15. CASE Admits(jobs, new) /\ QueueThrows(c) /\ Fault
  BY <1>2, <1>14, <1>15, QueueThrowKeeps DEF Fault
<1>16. CASE Admits(jobs, new) /\ QueueWritten(c) /\ Proceed(rest)
  <2>1. Candidate(c) /\ Appended(jobs, new, c) /\ Len(jobs) + 1 \in Runs
    BY <1>14, <1>16
  <2>2. /\ Persist(c) /\ UNCHANGED reportVars /\ jobs' = c /\ saved' = c
        /\ UNCHANGED <<reports, savedReports, art, proc, sentBy, stuck>>
    BY <1>2, <1>16 DEF QueueWritten, Persist, Commit, reportVars, engineVars
  <2>3. /\ OneChange(jobs, jobs') /\ Extends(jobs, jobs')
        /\ QueueFacts' /\ EngineFacts' /\ ReportFacts'
        /\ Agrees(jobs, reports)' /\ Agrees(jobs, savedReports)' /\ Agrees(saved, savedReports)'
    BY <1>2, <2>1, <2>2, QueueStep
  <2> DEFINE n == Len(jobs) + 1
  <2>4. /\ DOMAIN jobs' = DOMAIN jobs \cup {n} /\ n \notin DOMAIN jobs
        /\ jobs'[n] = new /\ \A k \in DOMAIN jobs : jobs'[k] = jobs[k]
    BY <2>1, <2>2 DEF Appended
  <2> HIDE DEF n
  <2>5. Types'
    BY <1>2, <1>10, <1>16, <2>2, <2>4 DEF CoordinatorInv, Types, InHand
  <2>6. Synced'
    BY <1>2, <2>2 DEF CoordinatorInv, Synced
  <2>7. Working' /\ Deciding' /\ Moving'
    BY <1>2, <1>10, <1>16 DEF CoordinatorInv, Working, Deciding, Moving, InHand
  <2>8. Mending'
    <3> SUFFICES ASSUME NEW k \in DOMAIN jobs', jobs'[k].kind = "delivery", LatestIn(jobs, k)',
                        Late(jobs'[k], art[k], reports)
                 PROVE  app # "ready" /\ k \in co.work
      BY <1>10, <1>16, <2>2 DEF Mending
    <3>1. k \in DOMAIN jobs
      BY <1>6, <2>4 DEF Late
    <3>2. LatestIn(jobs, k)
      BY <2>3, <3>1, LatestKept
    <3> QED
      BY <1>2, <2>4, <3>1, <3>2 DEF CoordinatorInv, IndexFacts, Mending
  <2>9. \A i, ch : Delivers(new, i, ch) => i = due[1] /\ ch = due[2]
    BY <1>7 DEF Delivers
  <2>10. ASSUME NEW i \in DOMAIN jobs', NEW ch \in Channels, Due(i, ch)'
         PROVE  i \in DOMAIN jobs /\ jobs'[i] = jobs[i] /\ Due(i, ch) /\ <<i, ch>> # due
    <3>1. i \in DOMAIN jobs
      BY <1>7, <2>4, <2>10 DEF Due, Owes
    <3>2. Due(i, ch)
      BY <2>2, <2>4, <2>10, <3>1 DEF Due, Owes
    <3>3. <<i, ch>> # due
      <4>1. ~Delivers(new, i, ch)
        BY <2>4, <2>10 DEF Due, Owes
      <4> QED
        BY <1>7, <4>1 DEF Delivers
    <3> QED
      BY <2>4, <3>1, <3>2, <3>3
  <2>11. ASSUME NEW other \in co.todo, other # due
         PROVE  /\ other[1] \in DOMAIN jobs' /\ jobs'[other[1]].kind = "research"
                /\ other[2] \in jobs'[other[1]].requested /\ reports'[other[1]].exists
                /\ \A k \in DOMAIN jobs' : Delivers(jobs'[k], other[1], other[2]) =>
                     jobs'[k].manual /\ jobs'[k].state = "pending"
    <3>1. other \in Runs \X Channels
      BY DEF CoordinatorInv, Types
    <3>2. ~(other[1] = due[1] /\ other[2] = due[2])
      BY <1>4, <2>11, <3>1
    <3>3. /\ other[1] \in DOMAIN jobs /\ jobs[other[1]].kind = "research"
          /\ other[2] \in jobs[other[1]].requested /\ reports[other[1]].exists
          /\ \A k \in DOMAIN jobs : Delivers(jobs[k], other[1], other[2]) =>
               jobs[k].manual /\ jobs[k].state = "pending"
      BY DEF CoordinatorInv, Restoring
    <3> QED
      BY <2>2, <2>4, <2>9, <3>2, <3>3
  <2>12. Restoring'
    <3>1. co'.todo = co.todo \ {due} /\ co'.job = co.job /\ app' = app /\ co'.pc = "restore"
      BY <1>10, <1>16
    <3>2. \A i \in DOMAIN jobs, ch \in Channels :
            /\ co.job = 0 /\ Due(i, ch) => <<i, ch>> \in co.todo
            /\ app = "ready" /\ Due(i, ch) /\ jobs[i].state = "succeeded" => <<i, ch>> \in co.todo
      BY <1>2 DEF CoordinatorInv, Restoring
    <3> QED
      BY <2>10, <2>11, <3>1, <3>2 DEF Restoring
  <2> QED
    BY <2>3, <2>5, <2>6, <2>7, <2>8, <2>12 DEF CoordinatorInv, IndexFacts
<1> QED
  BY <1>8, <1>11, <1>12, <1>13, <1>15, <1>16

-----------------------------------------------------------------------------
(* A write of the report index.                                            *)

\* An index that may be written next.
Index(r) ==
  /\ r \in [Runs -> Report] /\ Kept(r)
  /\ Agrees(jobs, r)
  /\ \A i \in Runs : reports[i].exists => r[i].exists

(* Whether the write is acknowledged, lost, or done and not acknowledged.  *)
LEMMA IndexStep ==
  ASSUME CoordinatorInv, ~Waits, NEW r, Index(r),
         reports' \in {reports, r}, savedReports' \in {savedReports, r},
         reports' = reports \/ savedReports' = r,
         UNCHANGED <<jobs, saved, art, proc, sentBy>>
  PROVE  /\ reports' \in [Runs -> Report] /\ savedReports' \in [Runs -> Report]
         /\ QueueFacts' /\ EngineFacts' /\ ReportFacts'
         /\ Agrees(jobs, reports)' /\ Agrees(jobs, savedReports)' /\ Agrees(saved, savedReports)'
<1>1. reports' \in [Runs -> Report] /\ savedReports' \in [Runs -> Report]
  BY DEF CoordinatorInv, Types, Index
<1>2. QueueFacts' /\ EngineFacts'
  BY DEF CoordinatorInv, QueueFacts, QueueInv, Truthful, EngineFacts
<1>3. ReportFacts'
  <2>1. ASSUME NEW x, Kept(x) PROVE Kept(x)'
    BY <2>1 DEF Kept
  <2>2. Kept(reports)' /\ Kept(savedReports)'
    BY <2>1 DEF CoordinatorInv, ReportFacts, Index
  <2>3. \A i \in Runs : /\ reports[i].exists => reports'[i].exists
                        /\ reports'[i].exists => savedReports'[i].exists
    BY DEF CoordinatorInv, ReportFacts, Index
  <2>4. /\ \A i \in DOMAIN jobs : jobs[i].kind = "delivery" => jobs[i].target \in Runs
        /\ \A i \in DOMAIN saved : saved[i].kind = "delivery" => saved[i].target \in Runs
    BY Positions, Kinds DEF CoordinatorInv, QueueFacts, QueueInv, Good
  <2>5. Recorded(jobs)' /\ Recorded(saved)'
    BY <2>3, <2>4, InRuns DEF CoordinatorInv, ReportFacts, Recorded
  <2> QED
    BY <2>2, <2>3, <2>5 DEF ReportFacts
<1>4. ASSUME NEW x, Agrees(jobs, x) PROVE Agrees(jobs, x)' /\ Agrees(saved, x)'
  <2>1. Agrees(jobs, x)'
    BY <1>4 DEF Agrees
  <2>2. Agrees(saved, x)
    <3> SUFFICES ASSUME NEW i \in DOMAIN saved, saved[i].kind = "delivery", LatestIn(saved, i)
                 PROVE  /\ saved[i].state = "succeeded" => Shown(x, saved[i]) = "sent"
                        /\ saved[i].state = "deliveryUnknown" =>
                             Shown(x, saved[i]) = "unknown" \/ Late(saved[i], art[i], x)
      BY DEF Agrees
    <3>1. Extends(jobs, saved) /\ \A k \in DOMAIN jobs : saved[k] = jobs[k]
      BY DEF CoordinatorInv, QueueFacts, OneChange, Synced
    <3>2. CASE i \in DOMAIN jobs
      BY <1>4, <3>1, <3>2, LatestKept DEF Agrees
    <3>3. CASE i \notin DOMAIN jobs
      BY <3>3 DEF CoordinatorInv, QueueFacts, OneChange
    <3> QED
      BY <3>2, <3>3
  <2> QED
    BY <2>1, <2>2 DEF Agrees
<1>5. Agrees(jobs, reports)' /\ Agrees(jobs, savedReports)' /\ Agrees(saved, savedReports)'
  BY <1>4 DEF CoordinatorInv, IndexFacts, Index
<1> QED
  BY <1>1, <1>2, <1>3, <1>5

(* The write throws, and the App is faulted.                               *)
LEMMA IndexThrowKeeps ==
  ASSUME CoordinatorInv, ~Waits, NEW r, Index(r), ReportsThrow(r), Fault,
         UNCHANGED engineVars, UNCHANGED stuck
  PROVE  CoordinatorInv'
<1>1. /\ savedReports' \in {savedReports, r} /\ app' = "faulted" /\ co' = Idle
      /\ needsRecon' = TRUE
      /\ UNCHANGED <<reports, jobs, saved, art, proc, sentBy, stuck>>
  BY DEF ReportsThrow, queueVars, engineVars, Fault
<1>2. /\ reports' \in [Runs -> Report] /\ savedReports' \in [Runs -> Report]
      /\ QueueFacts' /\ EngineFacts' /\ ReportFacts'
      /\ Agrees(jobs, reports)' /\ Agrees(jobs, savedReports)' /\ Agrees(saved, savedReports)'
  BY <1>1, IndexStep
<1>3. Types' /\ Synced'
  BY <1>1, <1>2, IdleTypes DEF CoordinatorInv, Types, Synced, Waits
<1> QED
  BY <1>1, <1>2, <1>3, IdleKeeps

(* One record of the index is replaced.                                    *)
LEMMA RecordFacts ==
  ASSUME reports \in [Runs -> Report], NEW job, job.target \in Runs, job.channel \in Channels,
         NEW s \in DeliveryState, NEW r, r = WithRecord(job, s)
  PROVE  /\ r \in [Runs -> Report]
         /\ \A run \in Runs :
              /\ r[run].effective = reports[run].effective
              /\ r[run].exists = reports[run].exists
              /\ \A ch \in Channels :
                   r[run].delivery[ch] = IF run = job.target /\ ch = job.channel THEN s
                                         ELSE reports[run].delivery[ch]
<1>1. PICK old \in Report : old = reports[job.target]
  OBVIOUS
<1>2. PICK new : new = [old EXCEPT !.delivery = [@ EXCEPT ![job.channel] = s]]
  OBVIOUS
<1>3. r = [reports EXCEPT ![job.target] = new]
  BY <1>1, <1>2 DEF WithRecord
<1>4. /\ new \in Report /\ new.effective = old.effective /\ new.exists = old.exists
      /\ \A ch \in Channels :
           new.delivery[ch] = IF ch = job.channel THEN s ELSE old.delivery[ch]
  BY <1>2 DEF Report
<1> QED
  BY <1>1, <1>3, <1>4

(* Only one attempt is the last one.                                       *)
LEMMA OneLatest ==
  ASSUME CoordinatorInv, NEW i \in DOMAIN jobs, NEW k \in DOMAIN jobs,
         SameWork(jobs[i], jobs[k]), LatestIn(jobs, i), LatestIn(jobs, k)
  PROVE  i = k
<1>1. jobs[i].attempt <= jobs[k].attempt /\ jobs[k].attempt <= jobs[i].attempt
  BY DEF LatestIn, Prior, SameWork
<1>2. i \in Nat /\ k \in Nat /\ jobs[i].attempt \in Nat /\ jobs[k].attempt \in Nat
  BY InRuns, JobFields
<1>3. /\ i < k => jobs[i].attempt < jobs[k].attempt
      /\ k < i => jobs[k].attempt < jobs[i].attempt
  BY SameWorkEquivalence DEF CoordinatorInv, QueueFacts, QueueInv, Good, AttemptsOrdered
<1> QED
  BY <1>1, <1>2, <1>3

(* A job's record is made, or its outcome is recorded.                     *)
LEMMA RecordIndex ==
  ASSUME CoordinatorInv, NEW i \in DOMAIN jobs, jobs[i].kind = "delivery",
         NEW s \in DeliveryState \ {"absent", "pending"},
         s = "sent" => art[i] = "ready",
         \/ Shown(reports, jobs[i]) = "absent"
         \/ /\ LatestIn(jobs, i)
            /\ jobs[i].state = "succeeded" => s = "sent"
            /\ jobs[i].state = "deliveryUnknown" =>
                 \/ s = "unknown"
                 \/ s = "sent" /\ jobs[i].error # "terminal_invalid",
         NEW r, r = WithRecord(jobs[i], s)
  PROVE  Index(r)
<1>1. jobs[i].target \in Runs /\ jobs[i].channel \in Channels /\ reports[jobs[i].target].exists
  BY InRuns, Kinds DEF CoordinatorInv, ReportFacts, Recorded
<1>2. reports \in [Runs -> Report]
  BY DEF CoordinatorInv, Types
<1>3. /\ r \in [Runs -> Report]
      /\ \A run \in Runs :
           /\ r[run].effective = reports[run].effective
           /\ r[run].exists = reports[run].exists
           /\ \A ch \in Channels :
                r[run].delivery[ch] = IF run = jobs[i].target /\ ch = jobs[i].channel THEN s
                                      ELSE reports[run].delivery[ch]
  BY <1>1, <1>2, RecordFacts
<1>4. Kept(r)
  <2>1. Delivers(jobs[i], jobs[i].target, jobs[i].channel)
    BY DEF Delivers
  <2> QED
    BY <1>1, <1>3, <2>1 DEF CoordinatorInv, ReportFacts, Kept
<1>5. Agrees(jobs, r)
  <2> SUFFICES ASSUME NEW k \in DOMAIN jobs, jobs[k].kind = "delivery", LatestIn(jobs, k)
               PROVE  /\ jobs[k].state = "succeeded" => Shown(r, jobs[k]) = "sent"
                      /\ jobs[k].state = "deliveryUnknown" =>
                           Shown(r, jobs[k]) = "unknown" \/ Late(jobs[k], art[k], r)
    BY DEF Agrees
  <2>1. jobs[k].target \in Runs /\ jobs[k].channel \in Channels
    BY InRuns, Kinds
  <2>2. /\ jobs[k].state = "succeeded" => Shown(reports, jobs[k]) = "sent"
        /\ jobs[k].state = "deliveryUnknown" =>
             \/ Shown(reports, jobs[k]) = "unknown"
             \/ Late(jobs[k], art[k], reports) /\ Shown(reports, jobs[k]) = "sent"
    BY DEF CoordinatorInv, IndexFacts, Agrees, Late
  <2>3. CASE ~SameWork(jobs[i], jobs[k])
    <3>1. Shown(r, jobs[k]) = Shown(reports, jobs[k])
      BY <1>3, <2>1, <2>3 DEF Shown, SameWork
    <3> QED
      BY <2>2, <3>1 DEF Late
  <2>4. CASE SameWork(jobs[i], jobs[k])
    <3>1. Shown(r, jobs[k]) = s /\ Shown(reports, jobs[k]) = Shown(reports, jobs[i])
      BY <1>1, <1>3, <2>4 DEF Shown, SameWork
    <3>2. CASE Shown(reports, jobs[i]) = "absent"
      BY <2>2, <3>1, <3>2
    <3>3. CASE Shown(reports, jobs[i]) # "absent"
      <4>1. i = k
        BY <2>4, <3>3, OneLatest
      <4> QED
        BY <3>1, <3>3, <4>1 DEF Late
    <3> QED
      BY <3>2, <3>3
  <2> QED
    BY <2>3, <2>4
<1> QED
  BY <1>3, <1>4, <1>5 DEF Index

(* ensureManualDeliveryRecord, of the job in hand.                         *)
LEMMA EnsuredIndex ==
  ASSUME CoordinatorInv, co.job \in DOMAIN jobs, LacksRecord(jobs[co.job]),
         NEW r, r = WithRecord(jobs[co.job], "notRequested")
  PROVE  /\ Index(r)
         /\ \A i \in Runs : /\ r[i].effective = reports[i].effective
                            /\ r[i].exists = reports[i].exists
         /\ \A i \in DOMAIN jobs : jobs[i].kind = "delivery" /\ Shown(r, jobs[i]) = "sent" =>
              Shown(reports, jobs[i]) = "sent"
         /\ \A run \in Runs, ch \in Channels :
              \/ r[run].delivery[ch] = reports[run].delivery[ch]
              \/ /\ reports[run].delivery[ch] = "absent"
                 /\ r[run].delivery[ch] = "notRequested"
<1>1. jobs[co.job].kind = "delivery" /\ Shown(reports, jobs[co.job]) = "absent"
  BY DEF LacksRecord, Shown
<1>2. Index(r)
  <2>1. "notRequested" \in DeliveryState \ {"absent", "pending"}
    BY DEF DeliveryState
  <2> QED
    BY <1>1, <2>1, RecordIndex
<1>3. jobs[co.job].target \in Runs /\ jobs[co.job].channel \in Channels
  BY <1>1, InRuns, Kinds
<1>4. \A run \in Runs :
           /\ r[run].effective = reports[run].effective
           /\ r[run].exists = reports[run].exists
           /\ \A ch \in Channels :
                r[run].delivery[ch] = IF run = jobs[co.job].target /\ ch = jobs[co.job].channel
                                      THEN "notRequested" ELSE reports[run].delivery[ch]
  <2>1. reports \in [Runs -> Report] /\ "notRequested" \in DeliveryState
    BY DEF CoordinatorInv, Types, DeliveryState
  <2> QED
    BY <1>3, <2>1, RecordFacts
<1>5. \A i \in DOMAIN jobs : jobs[i].kind = "delivery" =>
        jobs[i].target \in Runs /\ jobs[i].channel \in Channels
  BY InRuns, Kinds
<1> QED
  BY <1>1, <1>2, <1>4, <1>5 DEF Shown

\* The report index in memory is well formed even if its write failed.
LEMMA UnwrittenIndex ==
  ASSUME CoordinatorInv
  PROVE  Index(reports)
  BY DEF CoordinatorInv, Types, ReportFacts, IndexFacts, Index

\* Admit preserves the invariant.
LEMMA AdmitKeeps ==
  ASSUME CoordinatorInv, Admit
  PROVE  CoordinatorInv'
<1>1. /\ co.pc = "admit" /\ UNCHANGED <<engineVars, stuck>>
      /\ jobs[co.job].state = "running" /\ proc[co.job] = "none" /\ co.job \in DOMAIN jobs
      /\ ~Waits /\ jobs[co.job].kind \in {"research", "delivery"}
  BY ExecutionFacts, JobFields DEF Admit
<1>2. PICK r : r = IF LacksRecord(jobs[co.job]) THEN WithRecord(jobs[co.job], "notRequested")
                   ELSE reports
  OBVIOUS
<1>3. /\ Index(r)
      /\ \A i \in Runs : /\ r[i].effective = reports[i].effective
                         /\ r[i].exists = reports[i].exists
      /\ \A i \in DOMAIN jobs : jobs[i].kind = "delivery" /\ Shown(r, jobs[i]) = "sent" =>
           Shown(reports, jobs[i]) = "sent"
      /\ \A run \in Runs, ch \in Channels :
           \/ r[run].delivery[ch] = reports[run].delivery[ch]
           \/ /\ reports[run].delivery[ch] = "absent"
              /\ r[run].delivery[ch] = "notRequested"
  <2>1. CASE LacksRecord(jobs[co.job])
    BY <1>1, <1>2, <2>1, EnsuredIndex
  <2>2. CASE ~LacksRecord(jobs[co.job])
    BY <1>2, <2>2, UnwrittenIndex
  <2> QED
    BY <2>1, <2>2
<1>4. /\ reports' \in {reports, r} /\ savedReports' \in {savedReports, r}
      /\ reports' = reports \/ savedReports' = r
      /\ reports' = r => r = reports \/ savedReports' = r
      /\ UNCHANGED <<jobs, saved, art, proc, sentBy, stuck, app, needsRecon>>
      /\ co' \in {[co EXCEPT !.pc = "launch"], Persisting(Failed)}
  BY <1>1, <1>2 DEF Admit, ReportsWritten, ReportsThrow, NothingWritten, Proceed,
     queueVars, reportVars, engineVars, appVars
<1>5. /\ DOMAIN co' = DOMAIN co /\ co'.pc \in {"launch", "persist"} /\ co'.job = co.job
      /\ co'.mode = co.mode /\ co'.work = co.work /\ co'.todo = co.todo
      /\ co'.pc = "persist" => co'.outcome = Failed
  BY <1>4 DEF Persisting, CoordinatorInv, Types
<1>6. /\ reports' \in [Runs -> Report] /\ savedReports' \in [Runs -> Report]
      /\ QueueFacts' /\ EngineFacts' /\ ReportFacts'
      /\ Agrees(jobs, reports)' /\ Agrees(jobs, savedReports)' /\ Agrees(saved, savedReports)'
  BY <1>1, <1>3, <1>4, IndexStep
<1>7. Synced'
  BY <1>1, <1>3, <1>4 DEF CoordinatorInv, Synced
<1>8. co'.pc = "persist" => Justified(co.job, co.outcome)'
  BY <1>1, <1>4, <1>5 DEF Justified, Failed, Outcome, Outcomes
<1>9. Working' /\ Deciding' /\ Moving' /\ Restoring' /\ Mending'
  BY <1>1, <1>3, <1>4, <1>5, <1>8, ExecutionStep
<1>10. Types'
  BY <1>1, <1>4, <1>5, <1>6 DEF CoordinatorInv, Types, InHand
<1> QED
  BY <1>6, <1>7, <1>9, <1>10 DEF CoordinatorInv, IndexFacts

\* EnsureRecord preserves the invariant.
LEMMA EnsureKeeps ==
  ASSUME CoordinatorInv, EnsureRecord
  PROVE  CoordinatorInv'
<1>1. /\ co.pc = "persist" /\ LacksRecord(jobs[co.job]) /\ UNCHANGED <<engineVars, stuck>>
      /\ co.job \in DOMAIN jobs /\ ~Waits
  BY DEF EnsureRecord, CoordinatorInv, Working, InHand, Waits
<1>2. PICK r : r = WithRecord(jobs[co.job], "notRequested")
  OBVIOUS
<1>3. \/ ReportsWritten(r) /\ Proceed(co)
      \/ ReportsThrow(r) /\ Fault
  BY <1>2 DEF EnsureRecord
<1>4. /\ Index(r)
      /\ \A i \in Runs : /\ r[i].effective = reports[i].effective
                         /\ r[i].exists = reports[i].exists
      /\ \A i \in DOMAIN jobs : jobs[i].kind = "delivery" /\ Shown(r, jobs[i]) = "sent" =>
           Shown(reports, jobs[i]) = "sent"
  BY <1>1, <1>2, EnsuredIndex
<1>5. CASE ReportsThrow(r) /\ Fault
  BY <1>1, <1>4, <1>5, IndexThrowKeeps
<1>6. CASE ReportsWritten(r) /\ Proceed(co)
  <2>1. /\ reports' = r /\ savedReports' = r
        /\ UNCHANGED <<jobs, saved, art, proc, sentBy, co, app, needsRecon, stuck>>
    BY <1>1, <1>6 DEF ReportsWritten, Proceed, queueVars, engineVars, appVars
  <2>2. /\ reports' \in [Runs -> Report] /\ savedReports' \in [Runs -> Report]
        /\ QueueFacts' /\ EngineFacts' /\ ReportFacts'
        /\ Agrees(jobs, reports)' /\ Agrees(jobs, savedReports)' /\ Agrees(saved, savedReports)'
    BY <1>1, <1>4, <2>1, IndexStep
  <2>3. Types' /\ Working'
    BY <2>1, <2>2 DEF CoordinatorInv, Types, Working
  <2>4. Synced'
    BY <1>1, <2>1 DEF CoordinatorInv, Synced
  <2>5. Deciding' /\ Moving'
    BY <1>1, <1>4, <2>1 DEF CoordinatorInv, Deciding, Justified, Moving, LatestIn, Prior
  <2>6. Mending'
    BY <1>4, <2>1 DEF CoordinatorInv, IndexFacts, Mending, Late, LatestIn, Prior
  <2>7. Restoring'
    <3>1. \A i \in DOMAIN jobs : /\ reports'[i].effective = reports[i].effective
                                 /\ reports'[i].exists = reports[i].exists
      BY <1>4, <2>1, InRuns
    <3> QED
      BY <2>1, <3>1 DEF CoordinatorInv, Restoring, Due, Owes
  <2> QED
    BY <2>2, <2>3, <2>4, <2>5, <2>6, <2>7 DEF CoordinatorInv, IndexFacts
<1> QED
  BY <1>3, <1>5, <1>6

\* What the index says once the outcome of the job in hand is recorded.
Told(r) ==
  LET job == jobs[co.job]
      out == co.outcome
  IN  /\ Index(r)
      /\ job.kind = "research" /\ out.state = "succeeded" => r[co.job].exists
      /\ job.kind = "delivery" /\ LatestIn(jobs, co.job) =>
           /\ out.state = "succeeded" => Shown(r, job) = "sent"
           /\ out.state = "deliveryUnknown" => Shown(r, job) = "unknown"
      /\ \A k \in DOMAIN jobs :
           jobs[k].kind = "delivery" /\ LatestIn(jobs, k) /\ Late(jobs[k], art[k], r) =>
             Late(jobs[k], art[k], reports) \/ (k = co.job /\ out.state = "succeeded")
      /\ \A k \in Runs : k # co.job => r[k].effective = reports[k].effective

\* The index with the outcome of a research job recorded shows that outcome.
LEMMA ResearchTold ==
  ASSUME CoordinatorInv, co.pc = "persist", jobs[co.job].kind = "research",
         NEW r, r = RecordedReports(co.job)
  PROVE  Told(r)
<1> DEFINE i == co.job
           out == co.outcome
<1>1. i \in DOMAIN jobs /\ i \in Runs /\ Justified(i, out) /\ jobs[i].requested \subseteq Channels
  BY InRuns, Kinds DEF CoordinatorInv, Working, InHand, Deciding
<1>2. CASE out.state # "succeeded"
  <2>1. r = reports
    BY <1>2 DEF RecordedReports
  <2> QED
    BY <1>2, <2>1, UnwrittenIndex DEF Told
<1>3. CASE out.state = "succeeded"
  <2>1. PICK new :
          new = [effective |-> out.effective, exists |-> TRUE,
                 delivery |-> [ch \in Channels |->
                   IF out.effective /\ ch \in jobs[i].requested /\ reports[i].delivery[ch] = "absent"
                   THEN "pending" ELSE reports[i].delivery[ch]]]
    OBVIOUS
  <2>2. r = [reports EXCEPT ![i] = new]
    BY <1>3, <2>1 DEF RecordedReports
  <2>3. reports \in [Runs -> Report] /\ reports[i] \in Report
    BY <1>1 DEF CoordinatorInv, Types
  <2>4. art[i] \in {"ready", "empty"} /\ out.effective = (art[i] = "ready")
    BY <1>1, <1>3 DEF Justified
  <2>5. /\ new \in Report /\ new.exists /\ new.effective = (art[i] = "ready")
        /\ \A ch \in Channels :
             new.delivery[ch] = IF new.effective /\ ch \in jobs[i].requested
                                   /\ reports[i].delivery[ch] = "absent"
                                THEN "pending" ELSE reports[i].delivery[ch]
    BY <2>1, <2>3, <2>4 DEF Report, DeliveryState
  <2>6. r \in [Runs -> Report] /\ r[i] = new /\ \A k \in Runs : k # i => r[k] = reports[k]
    BY <1>1, <2>2, <2>3, <2>5
  <2> HIDE DEF i, out
  <2>7. Kept(r)
    <3>1. Kept(reports) /\ jobs[i].kind = "research"
      BY DEF CoordinatorInv, ReportFacts, i
    <3>2. reports[i].effective => new.effective
      BY <1>1, <2>5, <3>1 DEF Kept
    <3> QED
      BY <1>1, <2>4, <2>5, <2>6, <3>1, <3>2 DEF Kept
  <2>8. \A k \in DOMAIN jobs : jobs[k].kind = "delivery" =>
          /\ Shown(r, jobs[k]) = "sent" <=> Shown(reports, jobs[k]) = "sent"
          /\ Shown(r, jobs[k]) = "unknown" <=> Shown(reports, jobs[k]) = "unknown"
    <3> SUFFICES ASSUME NEW k \in DOMAIN jobs, jobs[k].kind = "delivery"
                 PROVE  /\ Shown(r, jobs[k]) = "sent" <=> Shown(reports, jobs[k]) = "sent"
                        /\ Shown(r, jobs[k]) = "unknown" <=> Shown(reports, jobs[k]) = "unknown"
      OBVIOUS
    <3>1. jobs[k].target \in Runs /\ jobs[k].channel \in Channels
      BY InRuns, Kinds
    <3>2. \/ Shown(r, jobs[k]) = Shown(reports, jobs[k])
          \/ Shown(r, jobs[k]) = "pending" /\ Shown(reports, jobs[k]) = "absent"
      BY <2>5, <2>6, <3>1 DEF Shown
    <3> QED
      BY <3>2
  <2>9. Agrees(jobs, r)
    BY <2>8 DEF CoordinatorInv, IndexFacts, Agrees, Late
  <2>10. Index(r)
    BY <2>5, <2>6, <2>7, <2>9 DEF Index
  <2> QED
    BY <2>5, <2>6, <2>8, <2>10 DEF Told, Late, i
<1> QED
  BY <1>2, <1>3

\* The index with the outcome of a delivery recorded shows that outcome.
LEMMA DeliveryTold ==
  ASSUME CoordinatorInv, co.pc = "persist", jobs[co.job].kind = "delivery",
         \/ co.outcome.state = "succeeded"
         \/ jobs[co.job].state \notin {"succeeded", "partialSuccess"},
         NEW r, r = RecordedReports(co.job)
  PROVE  Told(r)
<1> DEFINE i == co.job
           out == co.outcome
           was == Shown(reports, jobs[i])
<1>1. /\ i \in DOMAIN jobs /\ Justified(i, out)
      /\ jobs[i].target \in Runs /\ jobs[i].channel \in Channels
  BY InRuns, Kinds DEF CoordinatorInv, Working, InHand, Deciding
<1>2. out.state \in {"succeeded", "failed", "cancelled", "deliveryUnknown"}
  BY <1>1 DEF Justified, Outcomes
<1>3. LatestIn(jobs, i) <=> Latest(i)
  BY DEF LatestIn, Latest
<1>4. CASE ~Latest(i) \/ (out.state # "succeeded" /\ Protected(jobs[i], was))
  <2>1. r = reports
    BY <1>4 DEF RecordedReports, Shown
  <2>2. Latest(i) => out.state # "succeeded"
    BY <1>4
  <2>3. Latest(i) /\ out.state = "deliveryUnknown" => was = "unknown"
    BY <1>1, <1>3, <1>4 DEF Protected, Justified
  <2> QED
    BY <1>3, <2>1, <2>2, <2>3, UnwrittenIndex DEF Told
<1>5. CASE Latest(i) /\ (out.state = "succeeded" \/ ~Protected(jobs[i], was))
  <2> DEFINE s == CASE out.state = "succeeded"       -> "sent"
                    [] out.state = "deliveryUnknown" -> "unknown"
                    [] OTHER                         -> "failed"
  <2>1. r = WithRecord(jobs[i], s)
    BY <1>5 DEF RecordedReports, Shown
  <2>2. /\ s \in DeliveryState \ {"absent", "pending"}
        /\ s = "sent" <=> out.state = "succeeded"
        /\ s = "unknown" <=> out.state = "deliveryUnknown"
        /\ s = "failed" <=> out.state \in {"failed", "cancelled"}
    BY <1>2 DEF DeliveryState
  <2> HIDE DEF s
  <2>3. /\ s = "sent" => art[i] = "ready"
        /\ jobs[i].state = "succeeded" => s = "sent"
        /\ jobs[i].state = "deliveryUnknown" =>
             \/ s = "unknown"
             \/ s = "sent" /\ jobs[i].error # "terminal_invalid"
    BY <1>1, <1>2, <2>2 DEF Justified
  <2>4. Index(r)
    BY <1>1, <1>3, <1>5, <2>1, <2>2, <2>3, RecordIndex
  <2>5. \A run \in Runs :
           /\ r[run].effective = reports[run].effective
           /\ r[run].exists = reports[run].exists
           /\ \A ch \in Channels :
                r[run].delivery[ch] = IF run = jobs[i].target /\ ch = jobs[i].channel THEN s
                                      ELSE reports[run].delivery[ch]
    <3>1. reports \in [Runs -> Report] /\ s \in DeliveryState
      BY <2>2 DEF CoordinatorInv, Types
    <3> QED
      BY <1>1, <2>1, <3>1, RecordFacts
  <2>6. Shown(r, jobs[i]) = s
    BY <1>1, <2>5 DEF Shown
  <2>7. ASSUME NEW k \in DOMAIN jobs, jobs[k].kind = "delivery", LatestIn(jobs, k),
               Late(jobs[k], art[k], r)
        PROVE  Late(jobs[k], art[k], reports) \/ (k = i /\ out.state = "succeeded")
    <3>1. jobs[k].target \in Runs /\ jobs[k].channel \in Channels
      BY <2>7, InRuns, Kinds
    <3>2. CASE SameWork(jobs[i], jobs[k])
      <4>1. i = k
        BY <1>1, <1>3, <1>5, <2>7, <3>2, OneLatest
      <4> QED
        BY <2>2, <2>6, <2>7, <4>1 DEF Late
    <3>3. CASE ~SameWork(jobs[i], jobs[k])
      <4>1. Shown(r, jobs[k]) = Shown(reports, jobs[k])
        BY <2>5, <2>7, <3>1, <3>3 DEF Shown, SameWork
      <4> QED
        BY <2>7, <4>1 DEF Late
    <3> QED
      BY <3>2, <3>3
  <2> QED
    BY <2>2, <2>4, <2>5, <2>6, <2>7 DEF Told
<1> QED
  BY <1>4, <1>5

\* RecordOutcome preserves the invariant.
LEMMA RecordKeeps ==
  ASSUME CoordinatorInv, RecordOutcome
  PROVE  CoordinatorInv'
<1> DEFINE i == co.job
           out == co.outcome
           ended == out.state # "succeeded" /\ jobs[i].state \in {"succeeded", "partialSuccess"}
<1>1. /\ co.pc = "persist" /\ UNCHANGED <<engineVars, stuck>> /\ ~Waits
      /\ i \in DOMAIN jobs /\ i \in Runs /\ Justified(i, out)
      /\ jobs[i].kind \in {"research", "delivery"}
  BY InRuns, JobFields DEF RecordOutcome, CoordinatorInv, Working, InHand, Waits, Deciding
<1>2. PICK r : r = RecordedReports(i)
  OBVIOUS
<1>3. \/ ended /\ NothingWritten /\ Proceed([co EXCEPT !.pc = "next"])
      \/ ~ended /\ ReportsWritten(r) /\ Proceed([co EXCEPT !.pc = "move"])
      \/ ~ended /\ ReportsThrow(r) /\ Fault
  BY <1>2 DEF RecordOutcome
<1>4. CASE ended /\ NothingWritten /\ Proceed([co EXCEPT !.pc = "next"])
  <2>1. /\ UNCHANGED <<jobs, saved, reports, savedReports, art, proc, sentBy>>
        /\ QueueFacts' /\ EngineFacts' /\ ReportFacts' /\ Synced'
        /\ Agrees(jobs, reports)' /\ Agrees(jobs, savedReports)' /\ Agrees(saved, savedReports)'
    BY <1>1, <1>4, QuietFacts
  <2>2. /\ UNCHANGED <<app, needsRecon, stuck>> /\ DOMAIN co' = DOMAIN co /\ co'.pc = "next"
        /\ co'.mode = co.mode /\ co'.job = co.job /\ co'.work = co.work /\ co'.todo = co.todo
    BY <1>1, <1>4 DEF Proceed, appVars, CoordinatorInv, Types
  <2>3. Types'
    BY <1>1, <2>1, <2>2 DEF CoordinatorInv, Types
  <2>4. Working' /\ Deciding' /\ Moving'
    BY <1>1, <2>2 DEF CoordinatorInv, Working, Deciding, Moving, InHand
  <2>5. Mending'
    BY <1>1, <1>4, <2>1, <2>2 DEF CoordinatorInv, IndexFacts, Mending, LatestIn, Prior
  <2>6. Restoring'
    BY <1>1, <2>1, <2>2 DEF CoordinatorInv, Restoring, Due, Owes
  <2> QED
    BY <2>1, <2>3, <2>4, <2>5, <2>6 DEF CoordinatorInv, IndexFacts
<1>5. ASSUME ~ended PROVE Told(r)
  BY <1>1, <1>2, <1>5, ResearchTold, DeliveryTold
<1>6. CASE ~ended /\ ReportsThrow(r) /\ Fault
  BY <1>1, <1>5, <1>6, IndexThrowKeeps DEF Told
<1>7. CASE ~ended /\ ReportsWritten(r) /\ Proceed([co EXCEPT !.pc = "move"])
  <2>1. /\ reports' = r /\ savedReports' = r /\ Told(r)
        /\ UNCHANGED <<jobs, saved, art, proc, sentBy, app, needsRecon, stuck>>
    BY <1>1, <1>5, <1>7 DEF ReportsWritten, Proceed, queueVars, engineVars, appVars
  <2>2. /\ reports' \in [Runs -> Report] /\ savedReports' \in [Runs -> Report]
        /\ QueueFacts' /\ EngineFacts' /\ ReportFacts'
        /\ Agrees(jobs, reports)' /\ Agrees(jobs, savedReports)' /\ Agrees(saved, savedReports)'
    BY <1>1, <2>1, IndexStep DEF Told
  <2>3. /\ DOMAIN co' = DOMAIN co /\ co'.pc = "move" /\ co'.outcome = co.outcome
        /\ co'.mode = co.mode /\ co'.job = co.job /\ co'.work = co.work /\ co'.todo = co.todo
    BY <1>1, <1>7 DEF Proceed, CoordinatorInv, Types
  <2>4. Types' /\ Working'
    BY <1>1, <2>1, <2>2, <2>3 DEF CoordinatorInv, Types, Working, InHand
  <2>5. Synced'
    BY <1>1, <2>1 DEF CoordinatorInv, Synced
  <2>6. Moving'
    BY <1>7, <2>1, <2>3 DEF Moving, Told, LatestIn, Prior
  <2>7. Deciding'
    <3>1. jobs[i].kind = "delivery" /\ LatestIn(jobs, i) /\ out.state = "deliveryUnknown" =>
            Shown(r, jobs[i]) # "sent"
      BY <2>1 DEF Told
    <3> QED
      BY <1>1, <2>1, <2>3, <3>1 DEF Deciding, Justified, LatestIn, Prior
  <2>8. Mending'
    <3> SUFFICES ASSUME NEW k \in DOMAIN jobs, jobs[k].kind = "delivery", LatestIn(jobs, k),
                        Late(jobs[k], art[k], r)
                 PROVE  app # "ready" /\ (k \in co.work \/ (k = i /\ out.state = "succeeded"))
      BY <2>1, <2>3 DEF Mending, LatestIn, Prior
    <3>1. Late(jobs[k], art[k], reports) \/ (k = i /\ out.state = "succeeded")
      BY <2>1 DEF Told
    <3>2. k = i => app # "ready"
      BY <1>1 DEF Late, CoordinatorInv, Working, InHand
    <3> QED
      BY <1>1, <3>1, <3>2 DEF CoordinatorInv, IndexFacts, Mending
  <2>9. Restoring'
    <3>1. co'.todo = {} /\ co.todo = {}
      BY <1>1, <2>3 DEF CoordinatorInv, Working
    <3>2. app = "ready" => jobs[i].state = "running"
      BY <1>1 DEF CoordinatorInv, Working, InHand
    <3>3. \A k \in DOMAIN jobs : k # i => reports'[k].effective = reports[k].effective
      BY <2>1, InRuns DEF Told
    <3> QED
      BY <1>1, <2>1, <2>3, <3>1, <3>2, <3>3 DEF CoordinatorInv, Restoring, Due, Owes
  <2> QED
    BY <2>2, <2>4, <2>5, <2>6, <2>7, <2>8, <2>9 DEF CoordinatorInv, IndexFacts
<1> QED
  BY <1>3, <1>4, <1>6, <1>7

-----------------------------------------------------------------------------
(* The invariant.                                                          *)

\* The invariant holds when the App is installed.
LEMMA InitCoordinator == Init => CoordinatorInv
<1> SUFFICES ASSUME Init PROVE CoordinatorInv
  OBVIOUS
<1>1. /\ jobs = <<>> /\ saved = <<>> /\ DOMAIN jobs = {} /\ DOMAIN saved = {}
      /\ Len(jobs) = 0 /\ Len(saved) = 0
      /\ savedReports = reports /\ reports = [run \in Runs |-> NoReport]
      /\ art = [i \in Runs |-> "none"] /\ proc = [i \in Runs |-> "none"] /\ sentBy = {}
      /\ co = Idle /\ app = "launched" /\ needsRecon = FALSE /\ stuck = FALSE
  BY EmptySeq DEF Init, QueueInit
<1>2. QueueInv
  BY InitQueueInv DEF Init
<1>3. /\ NoReport \in Report /\ ~NoReport.effective /\ ~NoReport.exists
      /\ \A ch \in Channels : NoReport.delivery[ch] = "absent"
  BY DEF NoReport, Report, DeliveryState
<1>4. Types
  BY <1>1, <1>3, IdleTypes DEF Types, Artifact
<1>5. QueueFacts
  <2>1. OneChange(jobs, saved)
    BY <1>1, <1>2, Unchanging DEF QueueInv
  <2>2. Cardinality(Owed(jobs)) = 0 /\ Cardinality(Owed(saved)) = 0
    <3>1. Owed(jobs) = {} /\ Owed(saved) = {}
      BY <1>1 DEF Owed
    <3> QED
      BY <3>1, FS_EmptySet, Zenon
  <2>3. Room(jobs) /\ Room(saved)
    BY <1>1, <2>2, MaxJobsAssumption DEF Room
  <2> QED
    BY <1>1, <1>2, <2>1, <2>3 DEF QueueFacts, Asked, Truthful
<1>6. EngineFacts
  BY <1>1 DEF EngineFacts
<1>7. ReportFacts /\ Synced /\ IndexFacts
  BY <1>1, <1>3 DEF ReportFacts, Kept, Recorded, Synced, IndexFacts, Agrees, Mending
<1>8. Working /\ Deciding /\ Moving /\ Restoring
  BY <1>1, IdleTypes DEF Working, Deciding, Moving, Restoring, InHand
<1> QED
  BY <1>4, <1>5, <1>6, <1>7, <1>8 DEF CoordinatorInv

\* What the drain waits for does not matter to it.
LEMMA DrainKeeps ==
  ASSUME CoordinatorInv, NothingWritten, UNCHANGED engineVars,
         UNCHANGED <<co, app, needsRecon, stuck>>
  PROVE  CoordinatorInv'
<1>1. /\ UNCHANGED <<jobs, saved, reports, savedReports, art, proc, sentBy>>
      /\ QueueFacts' /\ EngineFacts' /\ ReportFacts'
      /\ Agrees(jobs, reports)' /\ Agrees(jobs, savedReports)' /\ Agrees(saved, savedReports)'
  BY QuietFacts
<1>2. Types' /\ Synced' /\ Working' /\ Restoring'
  BY <1>1 DEF CoordinatorInv, Types, Synced, Waits, Working, Restoring, Due, Owes
<1>3. Mending' /\ Deciding' /\ Moving'
  BY <1>1 DEF CoordinatorInv, IndexFacts, Mending, Deciding, Justified, Moving, LatestIn, Prior
<1> QED
  BY <1>1, <1>2, <1>3 DEF CoordinatorInv, IndexFacts

\* Every step preserves it.
LEMMA NextCoordinator ==
  ASSUME CoordinatorInv, [Next]_vars
  PROVE  CoordinatorInv'
<1>1. ASSUME Request PROVE CoordinatorInv'
  BY <1>1, RequestResearchKeeps, RequestDeliveryKeeps DEF Request
<1>2. ASSUME AskAgain \/ CancellationSettles \/ ClaimRefused PROVE CoordinatorInv'
  BY <1>2, DrainKeeps DEF AskAgain, CancellationSettles, ClaimRefused
<1>3. ASSUME UNCHANGED vars PROVE CoordinatorInv'
  BY <1>3, DrainKeeps DEF vars, NothingWritten, queueVars, reportVars, engineVars
<1>4. ASSUME Execute PROVE CoordinatorInv'
  BY <1>4, ClaimKeeps, AdmitKeeps, LaunchKeeps, LaunchFailsKeeps, ReleaseKeeps, FinishKeeps,
     EnsureKeeps, RecordKeeps, MoveKeeps, RestoreKeeps, RestoredKeeps, JobDoneKeeps,
     ReconcileDoneKeeps, ReconcileKeeps DEF Execute
<1> QED
  BY <1>1, <1>2, <1>3, <1>4, RejectKeeps, StopKeeps, EngineKeeps, CleanupKeeps, StartKeeps,
     CrashKeeps DEF Next

(* Everything below follows from this one invariant.                       *)
THEOREM CoordinatorInvariant == Spec => []CoordinatorInv
  BY InitCoordinator, NextCoordinator, PTL DEF Spec

\* The drain is in one of its states.
LEMMA DrainTyped ==
  ASSUME drain \in Drains, [Next]_vars
  PROVE  drain' \in Drains
<1>1. CASE Request
  BY <1>1 DEF Request, RequestResearch, RequestDelivery, ByClient, Redrained, Drains
<1>2. CASE AskAgain \/ CancellationSettles \/ ClaimRefused
  BY <1>2 DEF AskAgain, CancellationSettles, ClaimRefused, Redrained, Drains
<1>3. CASE RejectUnconfigured \/ ClaimNext \/ Admit \/ Launch \/ LaunchFails
  BY <1>3 DEF RejectUnconfigured, ClaimNext, Admit, Launch, LaunchFails, Fault, Proceed, appVars
<1>4. CASE Release \/ Finish \/ EnsureRecord \/ RecordOutcome \/ MoveJob
  BY <1>4 DEF Release, Finish, EnsureRecord, RecordOutcome, MoveJob, Fault, Proceed, appVars, Drains
<1>5. CASE Restore
  BY <1>5, Zenon DEF Restore, Fault, Proceed, appVars
<1>6. CASE Restored \/ JobDone \/ ReconcileDone \/ ReconcileNext
  BY <1>6 DEF Restored, JobDone, ReconcileDone, ReconcileNext, Proceed, appVars, Drains
<1>7. CASE StopDrain \/ Engine \/ CleanupFails \/ StartReconcile \/ Crash
  BY <1>7 DEF StopDrain, Engine, CleanupFails, StartReconcile, Crash, appVars, Drains
<1>8. CASE UNCHANGED vars
  BY <1>8 DEF vars
<1> QED
  BY <1>1, <1>2, <1>3, <1>4, <1>5, <1>6, <1>7, <1>8 DEF Next, Execute

(* The coordinator's state has its types.                                  *)
THEOREM CoordinatorTypeCorrect == Spec => []TypeOK
<1>1. CoordinatorInv /\ drain \in Drains => TypeOK
  BY DEF CoordinatorInv, Types, TypeOK, InHand, QueueFacts, QueueInv, Good, QueueTypeOK
<1>2. Init => drain \in Drains
  BY DEF Init, Drains
<1>3. drain \in Drains /\ [Next]_vars => (drain \in Drains)'
  BY DrainTyped
<1> QED
  BY CoordinatorInvariant, <1>1, <1>2, <1>3, PTL DEF Spec

(* What the user reads in a report agrees with the queue.                  *)
THEOREM CoordinatorIndexAgrees == Spec => []IndexAgrees
<1>1. CoordinatorInv => IndexAgrees
  <2> SUFFICES ASSUME CoordinatorInv, app = "ready", NEW i \in DOMAIN jobs,
                      jobs[i].kind = "delivery", Latest(i)
               PROVE  /\ jobs[i].state = "succeeded" => Shown(reports, jobs[i]) = "sent"
                      /\ jobs[i].state = "deliveryUnknown" => Shown(reports, jobs[i]) = "unknown"
    BY DEF IndexAgrees, Shown
  <2>1. LatestIn(jobs, i)
    BY DEF Latest, LatestIn
  <2> QED
    BY <2>1, ReadyFacts DEF CoordinatorInv, IndexFacts, Agrees
<1> QED
  BY CoordinatorInvariant, <1>1, PTL

(* The report is saved before its research is saved as succeeded.          *)
THEOREM CoordinatorReportBeforeSuccess == Spec => []ReportBeforeSuccess
<1>1. CoordinatorInv => ReportBeforeSuccess
  BY InRuns DEF CoordinatorInv, ReportFacts, Recorded, ReportBeforeSuccess
<1> QED
  BY CoordinatorInvariant, <1>1, PTL

(* A channel that is turned on gets its delivery once.                     *)
THEOREM CoordinatorDeliveredOnce == Spec => []DeliveredOnce
<1>1. CoordinatorInv => DeliveredOnce
  <2> SUFFICES ASSUME CoordinatorInv PROVE DeliveredOnce
    OBVIOUS
  <2>1. \A i, k \in DOMAIN jobs :
          /\ jobs[i].kind = "delivery" /\ ~jobs[i].manual /\ ~jobs[k].manual
          /\ SameWork(jobs[i], jobs[k])
          => i = k
    BY DEF CoordinatorInv, QueueFacts, Asked
  <2>2. ASSUME app = "ready", co.pc = "idle", NEW i \in DOMAIN jobs, NEW ch \in Channels,
               jobs[i].kind = "research", jobs[i].state = "succeeded", reports[i].effective,
               ch \in jobs[i].requested
        PROVE  \E k \in DOMAIN jobs : Delivers(jobs[k], i, ch)
    BY <2>2, ReadyFacts DEF Due, Owes
  <2> QED
    BY <2>1, <2>2 DEF DeliveredOnce
<1> QED
  BY CoordinatorInvariant, <1>1, PTL

(* Three operations write the index.                                       *)
LEMMA IndexWriters ==
  ASSUME Next, savedReports' # savedReports
  PROVE  Admit \/ EnsureRecord \/ RecordOutcome
<1>1. ~Request
  BY DEF Request, RequestResearch, RequestDelivery, ByClient, reportVars
<1>2. ~RejectUnconfigured /\ ~ClaimNext /\ ~Release /\ ~MoveJob /\ ~Restore
  BY DEF RejectUnconfigured, ClaimNext, Release, MoveJob, Restore, QueueWritten, QueueThrows,
     NothingWritten, reportVars
<1>3. /\ ~Launch /\ ~LaunchFails /\ ~Finish /\ ~Restored /\ ~JobDone /\ ~ReconcileNext
      /\ ~ReconcileDone /\ ~StopDrain /\ ~Engine /\ ~StartReconcile
      /\ ~AskAgain /\ ~CancellationSettles /\ ~ClaimRefused
  BY DEF Launch, LaunchFails, Finish, Restored, JobDone, ReconcileNext, ReconcileDone, StopDrain,
     Engine, StartReconcile, AskAgain, CancellationSettles, ClaimRefused, NothingWritten, reportVars
<1>4. ~CleanupFails /\ ~Crash
  BY DEF CleanupFails, Crash, reportVars
<1> QED
  BY <1>1, <1>2, <1>3, <1>4 DEF Next, Execute

(* A record that is made replaces none.                                    *)
LEMMA EnsuringProtects ==
  ASSUME CoordinatorInv, ~Waits, co.job \in DOMAIN jobs, LacksRecord(jobs[co.job]),
         NEW r, r = WithRecord(jobs[co.job], "notRequested"),
         savedReports' \in {savedReports, r},
         NEW run \in Runs, NEW ch \in Channels,
         savedReports[run].delivery[ch] \in {"unknown", "sent"}
  PROVE  savedReports'[run].delivery[ch] = savedReports[run].delivery[ch]
<1>1. savedReports[run].delivery[ch] = reports[run].delivery[ch]
  BY DEF CoordinatorInv, Synced
<1>2. r[run].delivery[ch] = reports[run].delivery[ch]
  BY <1>1, EnsuredIndex
<1> QED
  BY <1>1, <1>2

\* EngineJobCoordinator.persist replaces a settled delivery for a reason only.
LEMMA RecordingProtects ==
  ASSUME CoordinatorInv, RecordOutcome, NEW run \in Runs, NEW ch \in Channels,
         savedReports[run].delivery[ch] \in {"unknown", "sent"},
         savedReports'[run].delivery[ch] # savedReports[run].delivery[ch]
  PROVE  \/ savedReports'[run].delivery[ch] = "sent"
         \/ savedReports[run].delivery[ch] = "unknown" /\ jobs[co.job].acknowledge
         \/ savedReports[run].delivery[ch] = "sent" /\ jobs[co.job].allowResend
<1> DEFINE i == co.job
           out == co.outcome
<1>1. /\ co.pc = "persist" /\ ~Waits /\ i \in DOMAIN jobs /\ i \in Runs
      /\ jobs[i].kind \in {"research", "delivery"}
      /\ jobs[i].kind = "delivery" => jobs[i].target \in Runs /\ jobs[i].channel \in Channels
  BY InRuns, Kinds DEF RecordOutcome, CoordinatorInv, Working, InHand, Waits
<1>2. PICK r : r = RecordedReports(i)
  OBVIOUS
<1>3. savedReports' = r
  BY <1>2 DEF RecordOutcome, ReportsWritten, ReportsThrow, NothingWritten, reportVars
<1>4. savedReports[run].delivery[ch] = reports[run].delivery[ch]
  BY <1>1 DEF CoordinatorInv, Synced
<1>5. reports \in [Runs -> Report]
  BY DEF CoordinatorInv, Types
<1>6. CASE jobs[i].kind = "research"
  <2>1. CASE out.state # "succeeded"
    BY <1>2, <1>3, <1>4, <1>6, <2>1 DEF RecordedReports
  <2>2. CASE out.state = "succeeded"
    <3>1. PICK new :
            new = [effective |-> out.effective, exists |-> TRUE,
                   delivery |-> [c \in Channels |->
                     IF out.effective /\ c \in jobs[i].requested /\ reports[i].delivery[c] = "absent"
                     THEN "pending" ELSE reports[i].delivery[c]]]
      OBVIOUS
    <3>2. r = [reports EXCEPT ![i] = new]
      BY <1>2, <1>6, <2>2, <3>1 DEF RecordedReports
    <3>3. new.delivery[ch] \in {"pending", reports[i].delivery[ch]}
          /\ (new.delivery[ch] = reports[i].delivery[ch] \/ reports[i].delivery[ch] = "absent")
      BY <3>1
    <3> HIDE DEF i, out
    <3>4. r[i] = new /\ \A k \in Runs : k # i => r[k] = reports[k]
      BY <1>1, <1>5, <3>2
    <3> QED
      BY <1>3, <1>4, <3>3, <3>4
  <2> QED
    BY <2>1, <2>2
<1>7. CASE jobs[i].kind = "delivery"
  <2> DEFINE was == Shown(reports, jobs[i])
  <2>1. \/ r = reports
        \/ /\ out.state = "succeeded" /\ r = WithRecord(jobs[i], "sent")
        \/ /\ ~Protected(jobs[i], was)
           /\ \E s \in {"unknown", "failed"} : r = WithRecord(jobs[i], s)
    BY <1>2, <1>7 DEF RecordedReports, Shown
  <2>2. PICK s \in {"sent", "unknown", "failed"} :
          /\ r = WithRecord(jobs[i], s)
          /\ s = "sent" \/ ~Protected(jobs[i], was)
    BY <1>3, <1>4, <2>1
  <2>3. r[run].delivery[ch] = IF run = jobs[i].target /\ ch = jobs[i].channel THEN s
                              ELSE reports[run].delivery[ch]
    <3>1. s \in DeliveryState
      BY DEF DeliveryState
    <3> QED
      BY <1>1, <1>5, <1>7, <2>2, <3>1, RecordFacts
  <2>4. run = jobs[i].target /\ ch = jobs[i].channel /\ was = reports[run].delivery[ch]
    BY <1>3, <1>4, <2>3 DEF Shown
  <2> QED
    BY <1>3, <1>4, <2>2, <2>3, <2>4 DEF Protected
<1> QED
  BY <1>1, <1>6, <1>7

(* What the saved index knows of a delivery is only replaced by proof or   *)
(* by an attempt that the user confirmed.                                  *)
THEOREM CoordinatorOutcomesProtected == Spec => OutcomesProtected
<1> DEFINE Protects ==
      \A run \in Runs, ch \in Channels :
        LET was == savedReports[run].delivery[ch]
            is  == savedReports'[run].delivery[ch]
        IN  was \in {"unknown", "sent"} /\ is # was =>
              \/ is = "sent"
              \/ was = "unknown" /\ jobs[co.job].acknowledge
              \/ was = "sent" /\ jobs[co.job].allowResend
<1>1. CoordinatorInv /\ [Next]_vars => [Protects]_savedReports
  <2> SUFFICES ASSUME CoordinatorInv, Next, savedReports' # savedReports,
                      NEW run \in Runs, NEW ch \in Channels,
                      savedReports[run].delivery[ch] \in {"unknown", "sent"},
                      savedReports'[run].delivery[ch] # savedReports[run].delivery[ch]
               PROVE  \/ savedReports'[run].delivery[ch] = "sent"
                      \/ savedReports[run].delivery[ch] = "unknown" /\ jobs[co.job].acknowledge
                      \/ savedReports[run].delivery[ch] = "sent" /\ jobs[co.job].allowResend
    BY DEF vars
  <2>1. ~Admit
    <3> SUFFICES ASSUME Admit PROVE FALSE
      OBVIOUS
    <3>1. co.job \in DOMAIN jobs /\ ~Waits
      BY ExecutionFacts DEF Admit
    <3>2. PICK r : r = WithRecord(jobs[co.job], "notRequested")
      OBVIOUS
    <3>3. LacksRecord(jobs[co.job]) /\ savedReports' \in {savedReports, r}
      BY <3>2 DEF Admit, ReportsWritten, ReportsThrow, NothingWritten, reportVars
    <3> QED
      BY <3>1, <3>2, <3>3, EnsuringProtects
  <2>2. ~EnsureRecord
    <3> SUFFICES ASSUME EnsureRecord PROVE FALSE
      OBVIOUS
    <3>1. co.job \in DOMAIN jobs /\ ~Waits
      BY DEF EnsureRecord, CoordinatorInv, Working, InHand, Waits
    <3>2. PICK r : r = WithRecord(jobs[co.job], "notRequested")
      OBVIOUS
    <3>3. LacksRecord(jobs[co.job]) /\ savedReports' \in {savedReports, r}
      BY <3>2 DEF EnsureRecord, ReportsWritten, ReportsThrow
    <3> QED
      BY <3>1, <3>2, <3>3, EnsuringProtects
  <2> QED
    BY <2>1, <2>2, IndexWriters, RecordingProtects
<1> QED
  BY CoordinatorInvariant, <1>1, PTL DEF Spec, OutcomesProtected


-----------------------------------------------------------------------------
(* What the deliveries promise: every step is one of DeliveryPromise's, or *)
(* none that concerns it.                                                  *)

\* One operation of the queue at most, or one message that is sent.
StepShape ==
  \/ OneChange(jobs, jobs') /\ sentBy' = sentBy
  \/ jobs' = jobs /\ \E i \in DOMAIN jobs : EngineSends(i)

\* What a step may do to the attempts of the promise.
LEMMA NextShape ==
  ASSUME CoordinatorInv, Next
  PROVE  StepShape
<1>1. OneChange(jobs, jobs) /\ OneChange(jobs, saved)
  BY Unchanging DEF CoordinatorInv, QueueFacts, QueueInv
<1>2. CASE Request
  <2>1. OneChange(jobs, jobs')
    BY <1>2, RequestResearchKeeps, RequestDeliveryKeeps DEF Request
  <2>2. sentBy' = sentBy
    BY <1>2 DEF Request, RequestResearch, RequestDelivery, ByClient, engineVars
  <2> QED
    BY <2>1, <2>2 DEF StepShape
<1>3. CASE RejectUnconfigured \/ ClaimNext \/ Release \/ MoveJob \/ Restore
  <2>1. OneChange(jobs, jobs')
    BY <1>3, RejectKeeps, ClaimKeeps, ReleaseKeeps, MoveKeeps, RestoreKeeps
  <2>2. sentBy' = sentBy
    BY <1>3 DEF RejectUnconfigured, ClaimNext, Release, MoveJob, Restore, engineVars
  <2> QED
    BY <2>1, <2>2 DEF StepShape
<1>4. CASE Admit \/ EnsureRecord \/ RecordOutcome
  BY <1>1, <1>4 DEF Admit, EnsureRecord, RecordOutcome, ReportsWritten, ReportsThrow,
     NothingWritten, queueVars, engineVars, StepShape
<1>5. CASE \/ Launch \/ LaunchFails \/ Finish \/ Restored \/ JobDone \/ ReconcileNext
           \/ ReconcileDone \/ StopDrain \/ StartReconcile \/ CleanupFails
           \/ AskAgain \/ CancellationSettles \/ ClaimRefused
  BY <1>1, <1>5 DEF Launch, LaunchFails, Finish, Restored, JobDone, ReconcileNext, ReconcileDone,
     StopDrain, StartReconcile, CleanupFails, AskAgain, CancellationSettles, ClaimRefused,
     NothingWritten, queueVars, engineVars, StepShape
<1>6. CASE Engine
  <2>1. jobs' = jobs
    BY <1>6 DEF Engine, NothingWritten, queueVars
  <2>2. sentBy' = sentBy \/ \E i \in DOMAIN jobs : EngineSends(i)
    BY <1>6 DEF Engine, EngineWrites, OrphanExits
  <2> QED
    BY <1>1, <2>1, <2>2 DEF StepShape
<1>7. CASE Crash
  BY <1>1, <1>7 DEF Crash, Relaunch, StepShape
<1> QED
  BY <1>2, <1>3, <1>4, <1>5, <1>6, <1>7 DEF Next, Execute

(* The verdicts that the states of a delivery job stand for.               *)
LEMMA Verdicts ==
  ASSUME NEW job \in Job, job.kind = "delivery",
         job.state \notin {"interrupted", "partialSuccess"}
  PROVE  /\ VerdictOf(job.state) \in {"open", "sent", "unknown", "failed"}
         /\ VerdictOf(job.state) = "open" <=> job.state \in Active
         /\ VerdictOf(job.state) = "sent" <=> job.state = "succeeded"
         /\ VerdictOf(job.state) = "unknown" <=> job.state = "deliveryUnknown"
         /\ VerdictOf(job.state) = "failed" <=> job.state \in {"failed", "cancelled"}
         /\ job.state \in Active <=> job.state \notin Terminal
<1>1. job.state \in JobState
  BY JobFields
<1> QED
  BY <1>1 DEF VerdictOf, JobState, Active, Terminal

AttemptOf(job, i, s) ==
  [work      |-> <<job.target, job.channel>>,
   confirmed |-> job.allowResend \/ job.acknowledge,
   sent      |-> i \in s,
   verdict   |-> VerdictOf(job.state)]

\* The fields of the attempt that a delivery job stands for.
LEMMA AttemptFields ==
  ASSUME NEW job, NEW i, NEW s
  PROVE  /\ AttemptOf(job, i, s).work = <<job.target, job.channel>>
         /\ AttemptOf(job, i, s).confirmed <=> job.allowResend \/ job.acknowledge
         /\ AttemptOf(job, i, s).sent <=> i \in s
         /\ AttemptOf(job, i, s).verdict = VerdictOf(job.state)
  BY DEF AttemptOf

\* A delivery job that changes its state changes the verdict of its attempt.
LEMMA AttemptMoves ==
  ASSUME NEW job, NEW new, NEW i, NEW s,
         new.target = job.target, new.channel = job.channel,
         new.allowResend = job.allowResend, new.acknowledge = job.acknowledge
  PROVE  AttemptOf(new, i, s) = [AttemptOf(job, i, s) EXCEPT !.verdict = VerdictOf(new.state)]
  BY DEF AttemptOf

\* An engine that sends makes the attempt a sent one.
LEMMA AttemptSent ==
  ASSUME NEW job, NEW i, NEW s, NEW t, i \in t
  PROVE  AttemptOf(job, i, t) = [AttemptOf(job, i, s) EXCEPT !.sent = TRUE]
<1>1. PICK was : was = (i \in s)
  OBVIOUS
<1>2. PICK is : is = TRUE
  OBVIOUS
<1>3. PICK confirmed : confirmed = (job.allowResend \/ job.acknowledge)
  OBVIOUS
<1>4. AttemptOf(job, i, s) = [work |-> <<job.target, job.channel>>, confirmed |-> confirmed,
                              sent |-> was, verdict |-> VerdictOf(job.state)]
  BY <1>1, <1>3, Zenon DEF AttemptOf
<1>5. AttemptOf(job, i, t) = [work |-> <<job.target, job.channel>>, confirmed |-> confirmed,
                              sent |-> is, verdict |-> VerdictOf(job.state)]
  <2>1. (i \in t) = is
    BY <1>2
  <2> QED
    BY <1>3, <2>1, Zenon DEF AttemptOf
<1>6. AttemptOf(job, i, t) = [AttemptOf(job, i, s) EXCEPT !.sent = is]
  BY <1>4, <1>5
<1> QED
  BY <1>2, <1>6, Zenon

\* A send for another job does not concern the attempt.
LEMMA AttemptKept ==
  ASSUME NEW job, NEW i, NEW s, NEW t, i \in s <=> i \in t
  PROVE  AttemptOf(job, i, t) = AttemptOf(job, i, s)
<1>1. (i \in t) = (i \in s)
  OBVIOUS
<1> QED
  BY <1>1, Zenon DEF AttemptOf

Promises(q, s, p) ==
  /\ p = [i \in DOMAIN p |-> p[i]]
  /\ DOMAIN p = {k \in DOMAIN q : q[k].kind = "delivery"}
  /\ \A i \in DOMAIN p : p[i] = AttemptOf(q[i], i, s)

\* The refinement mapping, and the same after a step.
LEMMA PromisedNow == Promises(jobs, sentBy, promised)
  BY DEF promised, Promises, AttemptOf

LEMMA PromisedNext == Promises(jobs', sentBy', promised')
  BY DEF promised, Promises, AttemptOf

(* A message that is sent is one whose outcome is still open or unknown.   *)
LEMMA SendStep ==
  ASSUME CoordinatorInv, UNCHANGED jobs, NEW i \in DOMAIN jobs, EngineSends(i)
  PROVE  i \in DOMAIN promised /\ Promise!Send(i)
<1>1. i \in Runs /\ jobs[i] \in Job /\ jobs[i].kind = "delivery" /\ i \notin sentBy /\ Living(i)
  BY InRuns DEF EngineSends
<1>2. i \in DOMAIN promised /\ DOMAIN promised' = DOMAIN promised
  BY <1>1, PromisedNow, PromisedNext DEF Promises
<1>3. VerdictOf(jobs[i].state) \in {"open", "unknown"}
  <2>1. jobs[i].state \notin {"interrupted", "partialSuccess"}
    BY <1>1 DEF CoordinatorInv, QueueFacts, QueueInv, Good, DeliveryEnds
  <2>2. jobs[i].state # "succeeded"
    BY <1>1 DEF CoordinatorInv, QueueFacts, Truthful, EngineFacts, Result
  <2>3. jobs[i].state \notin {"failed", "cancelled"}
    BY <1>1 DEF CoordinatorInv, QueueFacts, Truthful, Living
  <2> QED
    BY <1>1, <2>1, <2>2, <2>3, Verdicts
<1>4. ~promised[i].sent /\ promised[i].verdict \in {"open", "unknown"}
  <2>1. promised[i] = AttemptOf(jobs[i], i, sentBy)
    BY <1>2, PromisedNow DEF Promises
  <2> QED
    BY <1>1, <1>3, <2>1, AttemptFields
<1>5. sentBy' = sentBy \cup {i}
  BY DEF EngineSends
<1>6. \A k \in DOMAIN promised : /\ promised[k] = AttemptOf(jobs[k], k, sentBy)
                               /\ promised'[k] = AttemptOf(jobs[k], k, sentBy \cup {i})
  BY <1>2, <1>5, PromisedNow, PromisedNext, Zenon DEF Promises
<1>7. /\ promised'[i] = [promised[i] EXCEPT !.sent = TRUE]
      /\ \A k \in DOMAIN promised : k # i => promised'[k] = promised[k]
  <2>1. i \in sentBy \cup {i} /\ \A k : k # i => (k \in sentBy <=> k \in sentBy \cup {i})
    OBVIOUS
  <2>2. promised'[i] = [promised[i] EXCEPT !.sent = TRUE]
    BY <1>2, <1>6, <2>1, AttemptSent
  <2>3. \A k \in DOMAIN promised : k # i => promised'[k] = promised[k]
    BY <1>6, <2>1, AttemptKept
  <2> QED
    BY <2>2, <2>3
<1>8. promised' = [promised EXCEPT ![i].sent = TRUE]
  BY <1>2, <1>7, PromisedNow, PromisedNext DEF Promises
<1> QED
  BY <1>2, <1>4, <1>8 DEF Promise!Send

(* A job that is enqueued is an attempt that is asked for, if it delivers. *)
LEMMA AskStep ==
  ASSUME CoordinatorInv, CoordinatorInv', OneChange(jobs, jobs'), sentBy' = sentBy,
         NEW n \in DOMAIN jobs', n \notin DOMAIN jobs
  PROVE  \/ promised' = promised
         \/ \E work \in Runs \X Channels, confirmed \in BOOLEAN :
              n \in Runs /\ Promise!Ask(n, work, confirmed)
<1> DEFINE new == jobs'[n]
<1>1. /\ n = Len(jobs) + 1 /\ new.state = "pending" /\ \A i \in DOMAIN jobs : jobs'[i] = jobs[i]
      /\ DOMAIN jobs' = DOMAIN jobs \cup {n}
  <2>1. \A k \in DOMAIN jobs' \ DOMAIN jobs :
          k = Len(jobs) + 1 /\ jobs'[k].state = "pending" /\ \A i \in DOMAIN jobs : jobs'[i] = jobs[i]
    BY DEF OneChange
  <2>2. DOMAIN jobs \subseteq DOMAIN jobs'
    BY DEF OneChange, Extends
  <2>3. n \in DOMAIN jobs' \ DOMAIN jobs
    OBVIOUS
  <2> QED
    BY <2>1, <2>2, <2>3
<1>2. /\ Good(jobs) /\ Good(jobs') /\ Len(jobs) \in Nat /\ DOMAIN jobs = 1 .. Len(jobs)
      /\ new \in Job
  BY Positions DEF CoordinatorInv, QueueFacts, QueueInv, Good
<1>3. n \in Runs /\ \A i \in DOMAIN jobs : i < n /\ i # n
  <2>1. Len(jobs') \in Nat /\ Len(jobs') <= MaxJobs /\ DOMAIN jobs' = 1 .. Len(jobs')
    BY <1>2, Positions DEF CoordinatorInv, QueueFacts, Room, Good
  <2> QED
    BY <1>1, <1>2, <2>1, RunsAssumption, MaxJobsAssumption
<1>4. CASE new.kind # "delivery"
  <2>1. DOMAIN promised' = DOMAIN promised
    BY <1>1, <1>4, PromisedNow, PromisedNext DEF Promises
  <2>2. \A i \in DOMAIN promised : promised'[i] = promised[i]
    <3>1. \A i \in DOMAIN promised : i \in DOMAIN jobs /\ jobs'[i] = jobs[i]
      BY <1>1, PromisedNow DEF Promises
    <3>2. \A i \in DOMAIN promised : /\ promised[i] = AttemptOf(jobs[i], i, sentBy)
                                    /\ promised'[i] = AttemptOf(jobs'[i], i, sentBy)
      BY <2>1, PromisedNow, PromisedNext, Zenon DEF Promises
    <3> QED
      BY <3>1, <3>2
  <2> QED
    BY <2>1, <2>2, PromisedNow, PromisedNext DEF Promises
<1>5. CASE new.kind = "delivery"
  <2>1. PICK work \in Runs \X Channels : work = <<new.target, new.channel>>
    BY <1>2, <1>5, Kinds
  <2>2. PICK confirmed \in BOOLEAN : confirmed = (new.allowResend \/ new.acknowledge)
    BY <1>2, Kinds
  <2>3. n \notin sentBy
    <3>1. proc[n] = "none"
      BY <1>1, <1>3 DEF CoordinatorInv, EngineFacts
    <3> QED
      BY <1>3, <3>1 DEF CoordinatorInv, EngineFacts
  <2>4. VerdictOf(new.state) = "open"
    BY <1>1, <1>2, <1>5, Verdicts DEF Active
  <2>5. /\ DOMAIN promised' = DOMAIN promised \cup {n} /\ n \notin DOMAIN promised
        /\ DOMAIN promised \subseteq DOMAIN jobs
    BY <1>1, <1>5, PromisedNow, PromisedNext DEF Promises
  <2>6. \A i \in DOMAIN promised : i # n /\ promised'[i] = promised[i]
    <3>1. \A i \in DOMAIN promised :
            i # n /\ i \in DOMAIN jobs /\ jobs'[i] = jobs[i] /\ i \in DOMAIN promised'
      BY <1>1, <2>5
    <3>2. \A i \in DOMAIN promised : /\ promised[i] = AttemptOf(jobs[i], i, sentBy)
                                    /\ promised'[i] = AttemptOf(jobs'[i], i, sentBy)
      BY <3>1, PromisedNow, PromisedNext, Zenon DEF Promises
    <3> QED
      BY <3>1, <3>2
  <2>7. promised'[n] = AttemptOf(new, n, sentBy)
    BY <2>5, PromisedNext, Zenon DEF Promises
  <2>8. promised'[n] = [work |-> work, confirmed |-> confirmed, sent |-> FALSE, verdict |-> "open"]
    <3>1. (n \in sentBy) = FALSE
      BY <2>3
    <3> QED
      BY <2>1, <2>2, <2>4, <2>7, <3>1, Zenon DEF AttemptOf
  <2>9. promised' = [i \in DOMAIN promised \cup {n} |->
                       IF i = n THEN [work |-> work, confirmed |-> confirmed,
                                      sent |-> FALSE, verdict |-> "open"]
                       ELSE promised[i]]
    BY <2>5, <2>6, <2>8, PromisedNext DEF Promises
  <2>10. \A i \in DOMAIN promised : promised[i].work = work =>
           promised[i].verdict # "open" /\ (promised[i].verdict = "failed" \/ confirmed)
    <3> SUFFICES ASSUME NEW i \in DOMAIN promised, promised[i].work = work
                 PROVE  promised[i].verdict # "open"
                        /\ (promised[i].verdict = "failed" \/ confirmed)
      OBVIOUS
    <3>1. /\ i \in DOMAIN jobs /\ jobs[i].kind = "delivery" /\ i \in DOMAIN jobs'
          /\ jobs'[i] = jobs[i] /\ i < n /\ jobs[i] \in Job
      BY <1>1, <1>3, <2>5, InRuns, PromisedNow DEF Promises
    <3>2. promised[i].work = <<jobs[i].target, jobs[i].channel>>
          /\ promised[i].verdict = VerdictOf(jobs[i].state)
      BY PromisedNow, AttemptFields DEF Promises
    <3>3. SameWork(jobs'[i], new)
      BY <1>5, <2>1, <3>1, <3>2 DEF SameWork
    <3>4. jobs[i].state \in Terminal
      BY <1>2, <3>1, <3>3 DEF Good, EarlierEnded
    <3>5. /\ jobs[i].state = "deliveryUnknown" => new.acknowledge
          /\ jobs[i].state = "succeeded" => new.allowResend \/ new.acknowledge
      BY <1>2, <3>1, <3>3 DEF Good, RepeatsConfirmed
    <3>6. jobs[i].state \notin {"interrupted", "partialSuccess"}
      BY <1>2, <3>1 DEF Good, DeliveryEnds
    <3>7. /\ VerdictOf(jobs[i].state) # "open"
          /\ VerdictOf(jobs[i].state) \in {"sent", "unknown", "failed"}
          /\ VerdictOf(jobs[i].state) = "sent" => jobs[i].state = "succeeded"
          /\ VerdictOf(jobs[i].state) = "unknown" => jobs[i].state = "deliveryUnknown"
      BY <3>1, <3>4, <3>6, Verdicts
    <3> QED
      BY <2>2, <3>2, <3>5, <3>7
  <2>11. \A i \in DOMAIN promised : i < n
    BY <1>3, <2>5
  <2>12. Promise!Ask(n, work, confirmed)
    BY <2>9, <2>10, <2>11 DEF Promise!Ask, Promise!Earlier
  <2> QED
    BY <1>3, <2>12
<1> QED
  BY <1>4, <1>5

(* A job that moves gets another verdict, or none that is told.            *)
LEMMA ConcludeStep ==
  ASSUME CoordinatorInv, CoordinatorInv', OneChange(jobs, jobs'), sentBy' = sentBy,
         DOMAIN jobs' = DOMAIN jobs
  PROVE  \/ promised' = promised
         \/ \E i \in DOMAIN promised, verdict \in {"sent", "failed", "unknown"} :
              Promise!Conclude(i, verdict)
<1>1. \A k \in DOMAIN jobs : SameRequest(jobs'[k], jobs[k]) /\ NeverBehind(jobs[k], jobs'[k])
  BY DEF OneChange, Extends, Ahead
<1>2. /\ DOMAIN promised' = DOMAIN promised
      /\ DOMAIN promised = {k \in DOMAIN jobs : jobs[k].kind = "delivery"}
  <2>1. \A k \in DOMAIN jobs : jobs'[k].kind = jobs[k].kind
    BY <1>1 DEF SameRequest, SameDuty, SameWork
  <2> QED
    BY <2>1, PromisedNow, PromisedNext DEF Promises
<1>3. \A k \in DOMAIN promised :
        /\ promised'[k] = [promised[k] EXCEPT !.verdict = VerdictOf(jobs'[k].state)]
        /\ promised[k].verdict = VerdictOf(jobs[k].state)
        /\ promised[k].sent <=> k \in sentBy
  <2> SUFFICES ASSUME NEW k \in DOMAIN promised
               PROVE  /\ promised'[k] = [promised[k] EXCEPT !.verdict = VerdictOf(jobs'[k].state)]
                      /\ promised[k].verdict = VerdictOf(jobs[k].state)
                      /\ promised[k].sent <=> k \in sentBy
    OBVIOUS
  <2>1. /\ jobs'[k].target = jobs[k].target /\ jobs'[k].channel = jobs[k].channel
        /\ jobs'[k].allowResend = jobs[k].allowResend /\ jobs'[k].acknowledge = jobs[k].acknowledge
    BY <1>1, <1>2 DEF SameRequest, SameDuty, SameWork
  <2>2. promised[k] = AttemptOf(jobs[k], k, sentBy) /\ promised'[k] = AttemptOf(jobs'[k], k, sentBy)
    BY <1>2, PromisedNow, PromisedNext, Zenon DEF Promises
  <2>3. promised'[k] = [promised[k] EXCEPT !.verdict = VerdictOf(jobs'[k].state)]
    BY <2>1, <2>2, AttemptMoves
  <2> QED
    BY <2>2, <2>3, AttemptFields
<1>4. CASE \A k \in DOMAIN promised : promised'[k] = promised[k]
  BY <1>2, <1>4, PromisedNow, PromisedNext DEF Promises
<1>5. ASSUME NEW i \in DOMAIN promised, promised'[i] # promised[i]
      PROVE  \E verdict \in {"sent", "failed", "unknown"} : Promise!Conclude(i, verdict)
  <2> DEFINE was == VerdictOf(jobs[i].state)
             is  == VerdictOf(jobs'[i].state)
  <2>1. /\ i \in DOMAIN jobs /\ jobs[i].kind = "delivery" /\ jobs'[i].kind = "delivery"
        /\ jobs[i] \in Job /\ jobs'[i] \in Job
    BY <1>1, <1>2, InRuns, Positions
    DEF CoordinatorInv, QueueFacts, QueueInv, Good, SameRequest, SameDuty, SameWork
  <2>2. jobs'[i] # jobs[i] /\ is # was
    <3>1. promised[i] = AttemptOf(jobs[i], i, sentBy)
      BY PromisedNow DEF Promises
    <3>2. [AttemptOf(jobs[i], i, sentBy) EXCEPT !.verdict = was] = AttemptOf(jobs[i], i, sentBy)
      BY AttemptMoves
    <3> QED
      BY <1>3, <1>5, <3>1, <3>2
  <2>3. \A k \in DOMAIN promised : k # i => promised'[k] = promised[k]
    <3> SUFFICES ASSUME NEW k \in DOMAIN promised, k # i PROVE promised'[k] = promised[k]
      OBVIOUS
    <3>1. k \in DOMAIN jobs /\ jobs'[k] = jobs[k]
      BY <1>2, <2>1, <2>2 DEF OneChange
    <3> QED
      BY <1>2, <3>1, PromisedNow, PromisedNext, Zenon DEF Promises
  <2>4. promised' = [promised EXCEPT ![i].verdict = is]
    BY <1>2, <1>3, <2>3, PromisedNow, PromisedNext DEF Promises
  <2>5. /\ jobs[i].state \notin {"interrupted", "partialSuccess"}
        /\ jobs'[i].state \notin {"interrupted", "partialSuccess"}
    BY <2>1 DEF CoordinatorInv, QueueFacts, QueueInv, Good, DeliveryEnds
  <2>6. /\ was \in {"open", "sent", "unknown", "failed"} /\ is \in {"open", "sent", "unknown", "failed"}
        /\ was = "open" <=> jobs[i].state \notin Terminal
        /\ is = "open" <=> jobs'[i].state \notin Terminal
        /\ is = "sent" <=> jobs'[i].state = "succeeded"
        /\ was = "unknown" <=> jobs[i].state = "deliveryUnknown"
        /\ is = "failed" <=> jobs'[i].state \in {"failed", "cancelled"}
    BY <2>1, <2>5, Verdicts
  <2>7. MayMove(jobs[i], jobs'[i].state)
        \/ (jobs[i].state = "running" /\ jobs'[i].state = "pending")
    BY <1>1, <2>1 DEF NeverBehind
  <2>8. "running" \notin Terminal /\ "pending" \notin Terminal
    BY DEF Terminal
  <2>9. is # "open" /\ (was = "open" \/ (was = "unknown" /\ is = "sent"))
    <3>1. CASE jobs[i].state \in Terminal
      <4>1. MayMove(jobs[i], jobs'[i].state)
        BY <2>7, <2>8, <3>1
      <4>2. /\ jobs'[i].state \in Terminal
            /\ \/ jobs'[i].state = jobs[i].state
               \/ jobs[i].state = "deliveryUnknown" /\ jobs'[i].state = "succeeded"
        BY <2>1, <2>5, <3>1, <4>1, EndedMoves
      <4> QED
        BY <2>2, <2>6, <4>2
    <3>2. CASE jobs[i].state \notin Terminal
      BY <2>2, <2>6, <3>2
    <3> QED
      BY <3>1, <3>2
  <2>10. /\ is = "sent" => i \in sentBy
         /\ is = "failed" => i \notin sentBy
    <3>1. i \in Runs
      BY <2>1, InRuns
    <3>2. Truthful(jobs)' /\ EngineFacts'
      BY DEF CoordinatorInv, QueueFacts
    <3>3. /\ jobs'[i].state = "succeeded" => art'[i] = "ready"
          /\ jobs'[i].state \in {"failed", "cancelled"} => proc'[i] = "none"
      BY <2>1, <3>2 DEF Truthful
    <3>4. /\ art'[i] = "ready" => i \in sentBy
          /\ proc'[i] = "none" => i \notin sentBy
      BY <2>1, <3>1, <3>2 DEF EngineFacts, Result
    <3> QED
      BY <2>6, <3>3, <3>4
  <2>11. promised[i].verdict = was /\ (promised[i].sent <=> i \in sentBy)
    BY <1>3
  <2>12. Promise!Conclude(i, is)
    BY <2>4, <2>9, <2>10, <2>11 DEF Promise!Conclude
  <2> QED
    BY <2>6, <2>9, <2>12
<1> QED
  BY <1>4, <1>5

(* No delivery is promised before one is asked for.                        *)
LEMMA PromiseStarts ==
  ASSUME Init
  PROVE  Promise!PromiseInit
<1>1. jobs = <<>>
  BY DEF Init, QueueInit
<1>2. DOMAIN promised = {}
  BY <1>1, PromisedNow DEF Promises
<1> QED
  BY <1>2, PromisedNow DEF Promises, Promise!PromiseInit

(* The queue, the coordinator, crashes and surviving processes implement   *)
(* DeliveryPromise: no unconfirmed second send, no false verdict.          *)
THEOREM CoordinatorKeepsPromise == Spec => KeepsPromise
<1>1. CoordinatorInv /\ CoordinatorInv' /\ [Next]_vars => [Promise!PromiseNext]_promised
  <2> SUFFICES ASSUME CoordinatorInv, CoordinatorInv', [Next]_vars
               PROVE  [Promise!PromiseNext]_promised
    OBVIOUS
  <2>1. CASE UNCHANGED vars
    BY <2>1 DEF vars, promised
  <2>2. CASE Next
    <3>1. StepShape
      BY <2>2, NextShape
    <3>2. ASSUME jobs' = jobs, NEW i \in DOMAIN jobs, EngineSends(i)
          PROVE  Promise!PromiseNext
      BY <3>2, SendStep DEF Promise!PromiseNext
    <3>3. ASSUME OneChange(jobs, jobs'), sentBy' = sentBy, DOMAIN jobs' = DOMAIN jobs
          PROVE  [Promise!PromiseNext]_promised
      BY <3>3, ConcludeStep DEF Promise!PromiseNext
    <3>4. ASSUME OneChange(jobs, jobs'), sentBy' = sentBy,
                 NEW n \in DOMAIN jobs', n \notin DOMAIN jobs
          PROVE  [Promise!PromiseNext]_promised
      BY <3>4, AskStep DEF Promise!PromiseNext
    <3>5. OneChange(jobs, jobs') => DOMAIN jobs \subseteq DOMAIN jobs'
      BY DEF OneChange, Extends
    <3> QED
      BY <3>1, <3>2, <3>3, <3>4, <3>5 DEF StepShape
  <2> QED
    BY <2>1, <2>2
<1> QED
  BY CoordinatorInvariant, PromiseStarts, <1>1, PTL DEF Spec, KeepsPromise, Promise!PromiseSpec

(***************************************************************************)
(* What every implementation of the promise guarantees its recipients.     *)
(* SecondSendConfirmed is not inductive: it says nothing of two attempts   *)
(* of which one is not sent yet.  What an unconfirmed attempt really rests *)
(* on is that all the earlier ones of its work have failed, that a failure *)
(* is final, and that a failed attempt was not sent and never will be.     *)
(***************************************************************************)
AttemptsTyped(a) == \E asked \in SUBSET Runs : a \in [asked -> Promise!Attempt]

\* An attempt the user did not confirm came after failures only.
UnconfirmedAfterFailures(a) ==
  \A i, k \in DOMAIN a :
    i < k /\ a[i].work = a[k].work /\ ~a[k].confirmed => a[i].verdict = "failed"

FailedNotSent(a) ==
  \A i \in DOMAIN a : a[i].verdict = "failed" => ~a[i].sent

PromiseInv(a) == AttemptsTyped(a) /\ UnconfirmedAfterFailures(a) /\ FailedNotSent(a)

(* An attempt that is sent keeps its work, its confirmation and a verdict  *)
(* that is not a failure.                                                  *)
LEMMA SendKeeps ==
  ASSUME NEW a, PromiseInv(a), NEW i \in DOMAIN a, a[i].verdict \in {"open", "unknown"},
         NEW b, b = [a EXCEPT ![i].sent = TRUE]
  PROVE  PromiseInv(b)
<1>1. PICK asked \in SUBSET Runs : a \in [asked -> Promise!Attempt]
  BY DEF PromiseInv, AttemptsTyped
<1>2. a[i] \in Promise!Attempt
  BY <1>1
<1> DEFINE new == [a[i] EXCEPT !.sent = TRUE]
<1>3. /\ new \in Promise!Attempt /\ new.work = a[i].work /\ new.confirmed = a[i].confirmed
      /\ new.verdict = a[i].verdict /\ new.verdict # "failed"
  BY <1>2 DEF Promise!Attempt, Promise!Verdict
<1>4. b = [a EXCEPT ![i] = new]
  OBVIOUS
<1> HIDE DEF new
<1>5. /\ DOMAIN b = DOMAIN a /\ b \in [asked -> Promise!Attempt]
      /\ \A k \in DOMAIN a : b[k] = IF k = i THEN new ELSE a[k]
  BY <1>1, <1>3, <1>4
<1> QED
  BY <1>3, <1>5 DEF PromiseInv, AttemptsTyped, UnconfirmedAfterFailures, FailedNotSent

(* A verdict is given once, or a late proof replaces an unknown one: an    *)
(* attempt that failed keeps its verdict, and one that fails was not sent. *)
LEMMA ConcludeKeeps ==
  ASSUME NEW a, PromiseInv(a), NEW i \in DOMAIN a, a[i].verdict \in {"open", "unknown"},
         NEW verdict \in {"sent", "failed", "unknown"}, verdict = "failed" => ~a[i].sent,
         NEW b, b = [a EXCEPT ![i].verdict = verdict]
  PROVE  PromiseInv(b)
<1>1. PICK asked \in SUBSET Runs : a \in [asked -> Promise!Attempt]
  BY DEF PromiseInv, AttemptsTyped
<1>2. a[i] \in Promise!Attempt
  BY <1>1
<1> DEFINE new == [a[i] EXCEPT !.verdict = verdict]
<1>3. /\ new \in Promise!Attempt /\ new.work = a[i].work /\ new.confirmed = a[i].confirmed
      /\ new.verdict = "failed" => ~new.sent
      /\ a[i].verdict # "failed"
  BY <1>2 DEF Promise!Attempt, Promise!Verdict
<1>4. b = [a EXCEPT ![i] = new]
  OBVIOUS
<1> HIDE DEF new
<1>5. /\ DOMAIN b = DOMAIN a /\ b \in [asked -> Promise!Attempt]
      /\ \A k \in DOMAIN a : b[k] = IF k = i THEN new ELSE a[k]
  BY <1>1, <1>3, <1>4
<1> QED
  BY <1>3, <1>5 DEF PromiseInv, AttemptsTyped, UnconfirmedAfterFailures, FailedNotSent

(* A new attempt is the last one, and if it is not confirmed every earlier *)
(* attempt of its work has failed.                                         *)
LEMMA AskKeeps ==
  ASSUME NEW a, PromiseInv(a), NEW i \in Runs, NEW work \in Runs \X Channels,
         NEW confirmed \in BOOLEAN, \A k \in DOMAIN a : k < i,
         \A k \in DOMAIN a : a[k].work = work => a[k].verdict = "failed" \/ confirmed,
         NEW b, b = [k \in DOMAIN a \cup {i} |->
                       IF k = i THEN [work |-> work, confirmed |-> confirmed, sent |-> FALSE,
                                      verdict |-> "open"]
                       ELSE a[k]]
  PROVE  PromiseInv(b)
<1>1. PICK asked \in SUBSET Runs : a \in [asked -> Promise!Attempt]
  BY DEF PromiseInv, AttemptsTyped
<1> DEFINE new == [work |-> work, confirmed |-> confirmed, sent |-> FALSE, verdict |-> "open"]
<1>2. new \in Promise!Attempt /\ new.work = work /\ new.confirmed = confirmed /\ new.verdict = "open"
  BY DEF Promise!Attempt, Promise!Verdict
<1>3. b = [k \in DOMAIN a \cup {i} |-> IF k = i THEN new ELSE a[k]]
  OBVIOUS
<1> HIDE DEF new
<1>4. /\ DOMAIN b = DOMAIN a \cup {i} /\ b \in [asked \cup {i} -> Promise!Attempt]
      /\ asked \cup {i} \in SUBSET Runs
      /\ \A k \in DOMAIN b : b[k] = IF k = i THEN new ELSE a[k]
  BY <1>1, <1>2, <1>3
<1>5. (\A k \in DOMAIN a : k < i /\ k # i /\ ~(i < k)) /\ ~(i < i)
  BY <1>1, RunsAssumption
<1>6. AttemptsTyped(b)
  BY <1>4 DEF AttemptsTyped
<1>7. UnconfirmedAfterFailures(b)
  <2> SUFFICES ASSUME NEW j \in DOMAIN b, NEW k \in DOMAIN b,
                      j < k, b[j].work = b[k].work, ~b[k].confirmed
               PROVE  b[j].verdict = "failed"
    BY DEF UnconfirmedAfterFailures
  <2>1. CASE k = i
    BY <2>1, <1>2, <1>4, <1>5
  <2>2. CASE k # i
    BY <2>2, <1>4, <1>5 DEF PromiseInv, UnconfirmedAfterFailures
  <2> QED
    BY <2>1, <2>2
<1>8. FailedNotSent(b)
  BY <1>2, <1>4 DEF PromiseInv, FailedNotSent
<1> QED
  BY <1>6, <1>7, <1>8 DEF PromiseInv

(* The invariant behind the promise holds of every behaviour that keeps it. *)
THEOREM PromiseInvariant == Promise!PromiseSpec => []PromiseInv(promised)
<1>1. Promise!PromiseInit => PromiseInv(promised)
  BY DEF Promise!PromiseInit, PromiseInv, AttemptsTyped, UnconfirmedAfterFailures, FailedNotSent
<1>2. PromiseInv(promised) /\ [Promise!PromiseNext]_promised => PromiseInv(promised)'
  <2> SUFFICES ASSUME PromiseInv(promised), [Promise!PromiseNext]_promised
               PROVE  PromiseInv(promised)'
    OBVIOUS
  <2>1. ASSUME NEW i \in Runs, NEW work \in Runs \X Channels, NEW confirmed \in BOOLEAN,
               Promise!Ask(i, work, confirmed)
        PROVE  PromiseInv(promised)'
    <3>1. \A k \in DOMAIN promised : promised[k].work = work =>
            promised[k].verdict = "failed" \/ confirmed
      BY <2>1 DEF Promise!Ask, Promise!Earlier
    <3> QED BY <2>1, <3>1, AskKeeps DEF Promise!Ask
  <2>2. ASSUME NEW i \in DOMAIN promised, Promise!Send(i) PROVE PromiseInv(promised)'
    BY <2>2, SendKeeps DEF Promise!Send
  <2>3. ASSUME NEW i \in DOMAIN promised, NEW verdict \in {"sent", "failed", "unknown"},
               Promise!Conclude(i, verdict)
        PROVE  PromiseInv(promised)'
    BY <2>3, ConcludeKeeps DEF Promise!Conclude
  <2>4. CASE UNCHANGED promised
    BY <2>4
  <2> QED
    BY <2>1, <2>2, <2>3, <2>4 DEF Promise!PromiseNext
<1> QED
  BY <1>1, <1>2, PTL DEF Promise!PromiseSpec

(* Whatever is sent late, a recipient only gets a second copy of a report   *)
(* on a channel when the user confirmed the later attempt: the promise that *)
(* the coordinator is checked to keep has the consequence it is there for.  *)
THEOREM PromiseSecondSendConfirmed == Promise!PromiseSpec => []NoUnconfirmedResend
<1>1. PromiseInv(promised) => NoUnconfirmedResend
  <2> SUFFICES ASSUME PromiseInv(promised), NEW i \in DOMAIN promised, NEW k \in DOMAIN promised,
                      i < k, promised[i].work = promised[k].work,
                      promised[i].sent, promised[k].sent
               PROVE  promised[k].confirmed
    BY DEF NoUnconfirmedResend, Promise!SecondSendConfirmed
  <2> QED
    BY DEF PromiseInv, UnconfirmedAfterFailures, FailedNotSent
<1> QED
  BY <1>1, PromiseInvariant, PTL

(* So a recipient never gets a second copy the user did not confirm.       *)
THEOREM CoordinatorNoUnconfirmedResend == Spec => []NoUnconfirmedResend
BY CoordinatorKeepsPromise, PromiseSecondSendConfirmed, PTL DEF KeepsPromise

=============================================================================
