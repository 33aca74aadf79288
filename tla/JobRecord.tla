----------------------------- MODULE JobRecord -----------------------------
(***************************************************************************)
(* One durable job of the App's queue and its state machine                *)
(* (ResearchRadarCore/Models/JobRecord.swift).  A queue snapshot is a      *)
(* sequence of jobs: jobs are only ever appended, so a job's position is   *)
(* its identifier.  Dates, messages and the engine stage are left out, and *)
(* of the trigger only whether the user asked for the delivery (`manual`,  *)
(* trigger == .retry) is kept: nothing else in the queue depends on it.    *)
(***************************************************************************)
EXTENDS Naturals, Sequences

CONSTANTS
  Slots,       \* a topic on a report date: what a research job works on
  Runs,        \* run directories: what a delivery job works on
  Channels,    \* delivery channels
  NoChannel,   \* the channel field of a research job
  JobErrors    \* the error codes told apart: "none" stands for no error
               \* and for every code no decision depends on

ASSUME ChannelsAssumption == NoChannel \notin Channels
ASSUME JobErrorsAssumption == "none" \in JobErrors

Active   == {"pending", "running", "cancelling"}
Claimed  == {"running", "cancelling"}
Terminal == {"succeeded", "partialSuccess", "failed", "cancelled",
             "interrupted", "deliveryUnknown"}
JobState == Active \cup Terminal

ResearchJob ==
  [kind : {"research"}, target : Slots, channel : {NoChannel},
   requested : SUBSET Channels, manual : {FALSE},
   allowResend : {FALSE}, acknowledge : {FALSE},
   state : JobState, error : JobErrors, attempt : Nat \ {0}]

DeliveryJob ==
  [kind : {"delivery"}, target : Runs, channel : Channels,
   requested : {{}}, manual : BOOLEAN,
   allowResend : BOOLEAN, acknowledge : BOOLEAN,
   state : JobState, error : JobErrors, attempt : Nat \ {0}]

Job == ResearchJob \cup DeliveryJob

\* The states a job may move to; a state is also allowed to keep itself.
AllowedTransitions ==
  [s \in JobState |->
     CASE s = "pending"         -> {"running", "cancelled"}
       [] s = "running"         -> (Terminal \cup {"cancelling"})
       [] s = "cancelling"      -> Terminal
       [] s = "interrupted"     -> {"succeeded", "partialSuccess"}
       [] s = "deliveryUnknown" -> {"succeeded"}
       [] OTHER                 -> {}]

MayMove(job, s) == s = job.state \/ s \in AllowedTransitions[job.state]

\* transition(to:stage:error:at:); an error of "none" means none was passed.
Moved(job, s, err) ==
  [job EXCEPT
     !.state = s,
     !.error = IF s \in {"succeeded", "partialSuccess"}
               THEN IF s = job.state THEN @ ELSE "none"
               ELSE IF err = "none" THEN @ ELSE err]

\* Two jobs that do the same work: one topic and date, or one run and channel.
SameWork(a, b) ==
  /\ a.kind = b.kind
  /\ a.target = b.target
  /\ a.channel = b.channel

=============================================================================
