-------------------------- MODULE DeliveryPromise --------------------------
(***************************************************************************)
(* What the App promises about deliveries, whatever crashes, failed writes *)
(* and surviving processes happen: a report is delivered again on a        *)
(* channel only when the user confirmed it, and a delivery is only called  *)
(* sent or failed when that is known to be true.  Everything else is       *)
(* unknown.                                                                *)
(*                                                                         *)
(* An attempt is asked for, may be sent at most once, and gets a verdict.  *)
(* Attempts are numbered in the order they were asked for.                 *)
(***************************************************************************)
EXTENDS Naturals

CONSTANTS
  Attempts,   \* a set of numbers
  Works       \* what is delivered: a report on a channel

VARIABLE attempts   \* the attempts asked for so far

Verdict == {"open", "sent", "failed", "unknown"}
Attempt == [work : Works, confirmed : BOOLEAN, sent : BOOLEAN, verdict : Verdict]

PromiseTypeOK ==
  \E asked \in SUBSET Attempts : attempts \in [asked -> Attempt]

Earlier(i, work) == {k \in DOMAIN attempts : k < i /\ attempts[k].work = work}

PromiseInit == attempts = [i \in {} |-> {}]

\* A new attempt waits for the verdict on the earlier ones; unless all of
\* them failed, the user has to confirm it.
Ask(i, work, confirmed) ==
  /\ \A k \in DOMAIN attempts : k < i
  /\ \A k \in Earlier(i, work) :
       /\ attempts[k].verdict # "open"
       /\ attempts[k].verdict = "failed" \/ confirmed
  /\ attempts' = [k \in DOMAIN attempts \cup {i} |->
                    IF k = i
                    THEN [work |-> work, confirmed |-> confirmed,
                          sent |-> FALSE, verdict |-> "open"]
                    ELSE attempts[k]]

\* An attempt with an unknown verdict may still be sent: whatever carries it
\* out was not proved to have ended.
Send(i) ==
  /\ ~attempts[i].sent
  /\ attempts[i].verdict \in {"open", "unknown"}
  /\ attempts' = [attempts EXCEPT ![i].sent = TRUE]

\* Only a late proof changes a verdict, and only an unknown one.
Conclude(i, verdict) ==
  /\ \/ attempts[i].verdict = "open"
     \/ attempts[i].verdict = "unknown" /\ verdict = "sent"
  /\ verdict = "sent" => attempts[i].sent
  /\ verdict = "failed" => ~attempts[i].sent
  /\ attempts' = [attempts EXCEPT ![i].verdict = verdict]

PromiseNext ==
  \/ \E i \in Attempts, work \in Works, confirmed \in BOOLEAN : Ask(i, work, confirmed)
  \/ \E i \in DOMAIN attempts : Send(i)
  \/ \E i \in DOMAIN attempts, verdict \in {"sent", "failed", "unknown"} :
       Conclude(i, verdict)

PromiseSpec == PromiseInit /\ [][PromiseNext]_attempts

\* The consequence a recipient sees: whenever two attempts delivered the
\* same report on the same channel, in whichever order the messages arrived,
\* the user had confirmed the later attempt.
SecondSendConfirmed ==
  \A i, k \in DOMAIN attempts :
    i < k /\ attempts[i].work = attempts[k].work /\ attempts[i].sent /\ attempts[k].sent =>
      attempts[k].confirmed

=============================================================================
