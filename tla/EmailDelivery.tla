---------------------------- MODULE EmailDelivery ----------------------------
(***************************************************************************)
(* Sending a report by mail (publishers/email/client.py, application/     *)
(* email.py; the command of cli.py and the engine's redelivery both end    *)
(* here).  The directory of a report holds what is known of its delivery:  *)
(* the attempt, written before anything is handed to the mail server, and  *)
(* the result.  Several processes may work on one report, and any of them  *)
(* may die between two steps.                                              *)
(***************************************************************************)
EXTENDS RunDirectory

CONSTANTS
  Sender,     \* processes that send mail
  MailLimit   \* mails of one report the model follows

ASSUME MailAssumption == MailLimit \in Nat \ {0}

VARIABLES
  sender,     \* process -> the command it runs
  mailbox     \* report -> [attempt, result, mails]

mailVars == <<sender, mailbox>>

\* attempt and result are the statuses in the two files, and mails counts the
\* copies the mail server accepted.
NoMail == [attempt |-> "none", result |-> "none", mails |-> 0]
NoSender == [pc |-> "idle", report |-> "", dry |-> FALSE, resend |-> FALSE]

MailInit ==
  /\ sender = [s \in Sender |-> NoSender]
  /\ mailbox = [r \in Report |-> NoMail]

BoxOf(s)       == mailbox[sender[s].report]
At(s, pc)      == sender[s].pc = pc
Goes(s, pc)    == sender' = [sender EXCEPT ![s].pc = pc]
Ends(s)        == sender' = [sender EXCEPT ![s] = NoSender]
Files(s, box)  == mailbox' = [mailbox EXCEPT ![sender[s].report] = box]

\* Every failure leaves the error file, which nothing reads.
FailsEarly(s) == Ends(s) /\ UNCHANGED mailbox

StartMail(s, report, dry, resend) ==
  /\ At(s, "idle")
  /\ sender' = [sender EXCEPT ![s] = [pc |-> "prepare", report |-> report, dry |-> dry,
                                      resend |-> resend]]
  /\ UNCHANGED mailbox

\* Settings, draft and figures are checked and the two previews written; a dry
\* run ends there, with a result of its own.
PrepareMail(s) ==
  /\ At(s, "prepare")
  /\ Ends(s) \/ (~sender[s].dry /\ Goes(s, "guard"))
  /\ UNCHANGED mailbox

\* Mutant: only a finished delivery stops the next one.
AlreadySentIfDone(s) == ~sender[s].resend /\ BoxOf(s).result = "sent"

AlreadySent(s) == ~sender[s].resend /\ (BoxOf(s).result = "sent" \/ BoxOf(s).attempt # "none")

AssertNotAlreadySent(s) ==
  /\ At(s, "guard")
  /\ IF AlreadySent(s) THEN FailsEarly(s) ELSE Goes(s, "connect") /\ UNCHANGED mailbox

\* The attempt is marked unknown if there is one, this process's or an
\* earlier one's, unless that write fails too.
DeliveryFails(s) ==
  /\ Ends(s)
  /\ \E left \in {BoxOf(s).attempt, "delivery_unknown"} :
       /\ BoxOf(s).attempt = "none" => left = "none"
       /\ Files(s, [BoxOf(s) EXCEPT !.attempt = left])

\* The password, the connection and the login; a missing password leaves the
\* attempt alone.
Connect(s) ==
  /\ At(s, "connect")
  /\ \/ FailsEarly(s)
     \/ DeliveryFails(s)
     \/ Goes(s, "announce") /\ UNCHANGED mailbox

\* before_send, inside the open connection.
AnnounceMail(s) ==
  /\ At(s, "announce")
  /\ \/ Goes(s, "send") /\ Files(s, [BoxOf(s) EXCEPT !.attempt = "sending"])
     \/ DeliveryFails(s)

\* The server takes the message and answers; takes it and the answer is lost;
\* or refuses it.
SendMail(s) ==
  /\ At(s, "send")
  /\ \/ /\ BoxOf(s).mails < MailLimit
        /\ Goes(s, "sent")
        /\ Files(s, [BoxOf(s) EXCEPT !.mails = @ + 1])
     \/ /\ BoxOf(s).mails < MailLimit
        /\ Ends(s)
        /\ Files(s, [BoxOf(s) EXCEPT !.mails = @ + 1, !.attempt = "delivery_unknown"])
     \/ DeliveryFails(s)

RecordSent(s) ==
  /\ At(s, "sent")
  /\ \/ Goes(s, "record") /\ Files(s, [BoxOf(s) EXCEPT !.attempt = "sent"])
     \/ DeliveryFails(s)

RecordResult(s) ==
  /\ At(s, "record")
  /\ \/ Ends(s) /\ Files(s, [BoxOf(s) EXCEPT !.result = "sent"])
     \/ DeliveryFails(s)

SenderDies(s) ==
  /\ ~At(s, "idle")
  /\ Ends(s)
  /\ UNCHANGED mailbox

MailNext ==
  \E s \in Sender :
    \/ \E r \in Report, dry, resend \in BOOLEAN : StartMail(s, r, dry, resend)
    \/ PrepareMail(s) \/ AssertNotAlreadySent(s) \/ Connect(s) \/ AnnounceMail(s)
    \/ SendMail(s) \/ RecordSent(s) \/ RecordResult(s) \/ SenderDies(s)

(***************************************************************************)
(* Properties.                                                             *)
(***************************************************************************)
\* Once a mail has gone out, wherever the process that sent it dies and
\* whatever other processes write, nothing passes the guard for its report
\* except a command with --allow-resend (_assert_not_already_sent; the attempt
\* is announced before the message is handed over).
NoResendUnasked ==
  [][\A s \in Sender :
       At(s, "guard") /\ sender'[s].pc = "connect" /\ ~sender[s].resend => BoxOf(s).mails = 0]_mailVars
=============================================================================
