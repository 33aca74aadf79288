--------------------------- MODULE CommandLineProofs ---------------------------
(***************************************************************************)
(* What the commands that publish and the schedule promise, for any number *)
(* of reports, processes and executions.  The three parts write different  *)
(* variables, so each has an invariant of its own, and CommandSpec is      *)
(* taken apart once, in the theorems.                                      *)
(***************************************************************************)
EXTENDS CommandLine, Integers, TLAPS

-----------------------------------------------------------------------------
(* Mail.                                                                   *)

Command ==
  [pc : {"idle", "prepare", "guard", "connect", "announce", "send", "sent", "record"},
   report : Report \cup {""}, dry : BOOLEAN, resend : BOOLEAN]
Box ==
  [attempt : {"none", "sending", "sent", "delivery_unknown"}, result : {"none", "sent"},
   mails : Nat]

MailType ==
  /\ sender \in [Sender -> Command]
  /\ mailbox \in [Report -> Box]
  /\ \A s \in Sender : sender[s].pc # "idle" => sender[s].report \in Report

\* Whoever hands a mail to the server has announced it, and an announcement
\* is never taken back.
Announced ==
  /\ \A r \in Report : mailbox[r].mails # 0 => mailbox[r].attempt # "none"
  /\ \A s \in Sender :
       sender[s].pc \in {"send", "sent", "record"} => BoxOf(s).attempt # "none"

MailInv == MailType /\ Announced

\* No process and no mail at the start.
LEMMA MailInitial == MailInit => MailInv
<1> SUFFICES ASSUME MailInit PROVE MailInv
  OBVIOUS
<1>1. NoSender \in Command /\ NoSender.pc = "idle"
  BY DEF NoSender, Command
<1>2. NoMail \in Box /\ NoMail.mails = 0
  BY DEF NoMail, Box
<1> QED BY <1>1, <1>2 DEF MailInit, MailInv, MailType, Announced, BoxOf

\* The steps that move a process and write nothing: a start, the preparation,
\* the guard, a connection that is made or a password that is missing, death.
LEMMA MailMove ==
  ASSUME MailInv, NEW s \in Sender, UNCHANGED mailbox,
         NEW held \in [pc : {"idle", "prepare", "guard", "connect", "announce"},
                       report : Report \cup {""}, dry : BOOLEAN, resend : BOOLEAN],
         held.pc # "idle" => held.report \in Report,
         sender' = [sender EXCEPT ![s] = held]
  PROVE  MailInv'
BY DEF MailInv, MailType, Command, Box, Announced, BoxOf

\* The steps that write the files of the report a process works on: the
\* attempt stays announced, and mails are counted under an announcement.
LEMMA MailWrite ==
  ASSUME MailInv, NEW s \in Sender, sender[s].pc # "idle",
         NEW held \in Command,
         held.pc # "idle" => held.report = sender[s].report,
         NEW box \in Box,
         BoxOf(s).attempt # "none" => box.attempt # "none",
         box.mails # BoxOf(s).mails => box.attempt # "none",
         held.pc \in {"send", "sent", "record"} => box.attempt # "none",
         sender' = [sender EXCEPT ![s] = held], Files(s, box)
  PROVE  MailInv'
<1>1. sender[s].report \in Report
  BY DEF MailInv, MailType, Command, Box
<1>2. MailType'
  BY <1>1 DEF MailInv, MailType, Command, Box, Files
<1>3. mailbox'[sender[s].report] = box
      /\ \A r \in Report \ {sender[s].report} : mailbox'[r] = mailbox[r]
  BY <1>1 DEF MailInv, MailType, Command, Box, Files
<1>4. ASSUME NEW r \in Report, mailbox'[r].mails # 0 PROVE mailbox'[r].attempt # "none"
  BY <1>1, <1>3, <1>4 DEF MailInv, Announced, BoxOf
<1>5. ASSUME NEW t \in Sender, sender'[t].pc \in {"send", "sent", "record"}
      PROVE  BoxOf(t)'.attempt # "none"
  <2>1. CASE t = s
    <3>1. sender'[t] = held
      BY <2>1 DEF MailInv, MailType, Command, Box
    <3> QED BY <1>1, <1>3, <1>5, <3>1 DEF BoxOf
  <2>2. CASE t # s
    <3>1. sender'[t] = sender[t]
      BY <2>2 DEF MailInv, MailType, Command, Box
    <3>2. sender[t].report \in Report /\ mailbox[sender[t].report].attempt # "none"
      BY <1>5, <3>1 DEF MailInv, MailType, Command, Box, Announced, BoxOf
    <3> QED BY <1>3, <3>1, <3>2 DEF BoxOf
  <2> QED BY <2>1, <2>2
<1> QED BY <1>2, <1>4, <1>5 DEF MailInv, Announced

\* The files of the report a command works on, and what is known of them at
\* each of its steps.
LEMMA BoxTyped ==
  ASSUME MailInv, NEW s \in Sender, sender[s].pc # "idle"
  PROVE  /\ BoxOf(s) \in Box
         /\ sender[s].pc \in {"send", "sent", "record"} => BoxOf(s).attempt # "none"
<1>1. sender[s].report \in Report
  BY DEF MailInv, MailType
<1> QED BY <1>1 DEF MailInv, MailType, Announced, BoxOf

\* A write that leaves an announcement keeps the invariant.
LEMMA MailRecorded ==
  ASSUME MailInv, NEW s \in Sender, sender[s].pc # "idle",
         Ends(s) \/ \E pc \in {"send", "sent", "record"} : Goes(s, pc),
         NEW box \in Box, box.attempt # "none", Files(s, box)
  PROVE  MailInv'
<1>1. CASE Ends(s)
  <2>1. NoSender \in Command /\ NoSender.pc = "idle"
    BY DEF NoSender, Command
  <2>2. sender' = [sender EXCEPT ![s] = NoSender]
    BY <1>1 DEF Ends
  <2> QED BY <2>1, <2>2, MailWrite
<1>2. ASSUME NEW pc \in {"send", "sent", "record"}, Goes(s, pc) PROVE MailInv'
  <2> DEFINE held == [sender[s] EXCEPT !.pc = pc]
  <2>1. held \in Command /\ held.report = sender[s].report
    BY DEF MailInv, MailType, Command
  <2>2. sender' = [sender EXCEPT ![s] = held]
    BY <1>2 DEF Goes
  <2> HIDE DEF held
  <2> QED BY <2>1, <2>2, MailWrite
<1> QED BY <1>1, <1>2

\* What a failure writes takes no announcement back.
LEMMA MailFailure ==
  ASSUME MailInv, NEW s \in Sender, sender[s].pc # "idle", DeliveryFails(s)
  PROVE  MailInv'
<1>1. sender[s].report \in Report
  BY DEF MailInv, MailType, Command, Box
<1>2. BoxOf(s) \in Box
  BY <1>1 DEF MailInv, MailType, Command, Box, BoxOf
<1>3. PICK left \in {BoxOf(s).attempt, "delivery_unknown"} :
        Files(s, [BoxOf(s) EXCEPT !.attempt = left])
  BY DEF DeliveryFails
<1> DEFINE box == [BoxOf(s) EXCEPT !.attempt = left]
<1>4. /\ box \in Box
      /\ box.mails = BoxOf(s).mails
      /\ BoxOf(s).attempt # "none" => box.attempt # "none"
  BY <1>2 DEF Box
<1>5. sender' = [sender EXCEPT ![s] = NoSender]
  BY DEF DeliveryFails, Ends
<1>6. /\ NoSender \in Command
      /\ NoSender.pc = "idle"
  BY DEF NoSender, Command
<1> HIDE DEF box
<1> QED BY <1>3, <1>4, <1>5, <1>6, MailWrite DEF box

\* Every step of a process that mails keeps the announcements.
LEMMA MailPreserved == MailInv /\ [MailNext]_mailVars => MailInv'
<1> SUFFICES ASSUME MailInv, [MailNext]_mailVars PROVE MailInv'
  OBVIOUS
<1>1. CASE UNCHANGED mailVars
  BY <1>1 DEF MailInv, MailType, Command, Box, Announced, mailVars, BoxOf
<1>2. ASSUME NEW s \in Sender, FailsEarly(s) PROVE MailInv'
  BY <1>2, MailMove DEF FailsEarly, Ends, NoSender
<1>3. ASSUME NEW s \in Sender, UNCHANGED mailbox, sender[s].pc # "idle",
             NEW pc \in {"guard", "connect", "announce"}, Goes(s, pc)
      PROVE  MailInv'
  <2> DEFINE held == [sender[s] EXCEPT !.pc = pc]
  <2>1. held.report \in Report /\ held.pc = pc
        /\ held \in [pc : {"idle", "prepare", "guard", "connect", "announce"},
                     report : Report \cup {""}, dry : BOOLEAN, resend : BOOLEAN]
    BY <1>3 DEF MailInv, MailType, Command, Box
  <2>2. sender' = [sender EXCEPT ![s] = held]
    BY <1>3 DEF Goes
  <2> HIDE DEF held
  <2> QED BY <1>3, <2>1, <2>2, MailMove
<1>6. ASSUME NEW s \in Sender, NEW r \in Report, NEW dry \in BOOLEAN, NEW resend \in BOOLEAN,
             StartMail(s, r, dry, resend)
      PROVE  MailInv'
  BY <1>6, MailMove DEF StartMail
<1>7. ASSUME NEW s \in Sender, PrepareMail(s) PROVE MailInv'
  <2>1. CASE Ends(s)
    BY <1>2, <1>7, <2>1 DEF PrepareMail, FailsEarly
  <2> QED BY <1>3, <1>7, <2>1 DEF PrepareMail, At
<1>8. ASSUME NEW s \in Sender, AssertNotAlreadySent(s) PROVE MailInv'
  BY <1>2, <1>3, <1>8 DEF AssertNotAlreadySent, At
<1>9. ASSUME NEW s \in Sender, Connect(s) PROVE MailInv'
  BY <1>2, <1>3, <1>9, MailFailure DEF Connect, At
<1>10. ASSUME NEW s \in Sender, AnnounceMail(s) PROVE MailInv'
  <2>1. BoxOf(s) \in Box /\ sender[s].pc # "idle"
    BY <1>10, BoxTyped DEF AnnounceMail, At
  <2>2. CASE Goes(s, "send") /\ Files(s, [BoxOf(s) EXCEPT !.attempt = "sending"])
    <3> DEFINE box == [BoxOf(s) EXCEPT !.attempt = "sending"]
    <3>1. box \in Box /\ box.attempt # "none"
      BY <2>1 DEF Box
    <3> HIDE DEF box
    <3> QED BY <2>2, <2>1, <3>1, MailRecorded DEF box
  <2> QED BY <1>10, <2>1, <2>2, MailFailure DEF AnnounceMail
<1>11. ASSUME NEW s \in Sender, SendMail(s) PROVE MailInv'
  <2>1. BoxOf(s) \in Box /\ sender[s].pc # "idle" /\ BoxOf(s).attempt # "none"
    BY <1>11, BoxTyped DEF SendMail, At
  <2>2. CASE Goes(s, "sent") /\ Files(s, [BoxOf(s) EXCEPT !.mails = @ + 1])
    <3> DEFINE box == [BoxOf(s) EXCEPT !.mails = @ + 1]
    <3>1. box \in Box /\ box.attempt # "none"
      BY <2>1 DEF Box
    <3> HIDE DEF box
    <3> QED BY <2>2, <2>1, <3>1, MailRecorded DEF box
  <2>3. CASE Ends(s) /\ Files(s, [BoxOf(s) EXCEPT !.mails = @ + 1, !.attempt = "delivery_unknown"])
    <3> DEFINE more == [BoxOf(s) EXCEPT !.mails = @ + 1]
               box == [BoxOf(s) EXCEPT !.mails = @ + 1, !.attempt = "delivery_unknown"]
    <3>1. box \in Box /\ box.attempt # "none"
      <4>1. more \in Box
        BY <2>1 DEF Box
      <4>2. box = [more EXCEPT !.attempt = "delivery_unknown"]
        BY <2>1 DEF Box
      <4> HIDE DEF more, box
      <4> QED BY <4>1, <4>2 DEF Box
    <3> HIDE DEF box
    <3> QED BY <2>3, <2>1, <3>1, MailRecorded DEF box
  <2> QED BY <1>11, <2>1, <2>2, <2>3, MailFailure DEF SendMail
<1>12. ASSUME NEW s \in Sender, RecordSent(s) PROVE MailInv'
  <2>1. BoxOf(s) \in Box /\ sender[s].pc # "idle"
    BY <1>12, BoxTyped DEF RecordSent, At
  <2>2. CASE Goes(s, "record") /\ Files(s, [BoxOf(s) EXCEPT !.attempt = "sent"])
    <3> DEFINE box == [BoxOf(s) EXCEPT !.attempt = "sent"]
    <3>1. box \in Box /\ box.attempt # "none"
      BY <2>1 DEF Box
    <3> HIDE DEF box
    <3> QED BY <2>2, <2>1, <3>1, MailRecorded DEF box
  <2> QED BY <1>12, <2>1, <2>2, MailFailure DEF RecordSent
<1>13. ASSUME NEW s \in Sender, RecordResult(s) PROVE MailInv'
  <2>1. BoxOf(s) \in Box /\ sender[s].pc # "idle" /\ BoxOf(s).attempt # "none"
    BY <1>13, BoxTyped DEF RecordResult, At
  <2>2. CASE Ends(s) /\ Files(s, [BoxOf(s) EXCEPT !.result = "sent"])
    <3> DEFINE box == [BoxOf(s) EXCEPT !.result = "sent"]
    <3>1. box \in Box /\ box.attempt # "none"
      BY <2>1 DEF Box
    <3> HIDE DEF box
    <3> QED BY <2>2, <2>1, <3>1, MailRecorded DEF box
  <2> QED BY <1>13, <2>1, <2>2, MailFailure DEF RecordResult
<1>14. ASSUME NEW s \in Sender, SenderDies(s) PROVE MailInv'
  BY <1>2, <1>14 DEF SenderDies, FailsEarly
<1> QED
  BY <1>1, <1>6, <1>7, <1>8, <1>9, <1>10, <1>11, <1>12, <1>13, <1>14 DEF MailNext

\* What passes the guard unasked finds no announcement, hence no mail.
LEMMA GuardHolds ==
  ASSUME MailInv, [MailNext]_mailVars, NEW s \in Sender,
         At(s, "guard"), sender'[s].pc = "connect", ~sender[s].resend
  PROVE  BoxOf(s).mails = 0
<1>1. sender \in [Sender -> Command]
  BY DEF MailInv, MailType, Command, Box
<1> HIDE DEF MailInv
<1>2. ASSUME NEW t \in Sender, NEW held, t # s, sender' = [sender EXCEPT ![t] = held] PROVE FALSE
  <2>1. sender'[s] = sender[s]
    BY <1>1, <1>2
  <2> QED BY <2>1 DEF At
<1>3. AssertNotAlreadySent(s)
  <2>1. ASSUME NEW t \in Sender, NEW pc \in {"prepare", "guard", "connect", "announce", "send",
                                            "sent", "record"},
               At(t, pc), (pc # "guard") \/ t # s,
               \/ Ends(t)
               \/ \E to \in {"guard", "connect", "announce", "send", "sent", "record"} : Goes(t, to)
        PROVE  FALSE
    <3>1. CASE t = s
      BY <2>1, <3>1 DEF At
    <3>2. CASE t # s
      BY <1>2, <2>1, <3>2 DEF Ends, Goes
    <3> QED BY <3>1, <3>2
  <2>2. ASSUME NEW t \in Sender, NEW r \in Report, NEW dry \in BOOLEAN, NEW resend \in BOOLEAN,
               StartMail(t, r, dry, resend)
        PROVE  FALSE
    <3>1. t # s
      BY <2>2 DEF StartMail, At
    <3> QED BY <1>2, <2>2, <3>1 DEF StartMail
  <2>3. ASSUME NEW t \in Sender, PrepareMail(t) PROVE FALSE
    BY <2>1, <2>3 DEF PrepareMail
  <2>4. ASSUME NEW t \in Sender, Connect(t) PROVE FALSE
    BY <2>1, <2>4 DEF Connect, FailsEarly, DeliveryFails
  <2>5. ASSUME NEW t \in Sender, AnnounceMail(t) PROVE FALSE
    BY <2>1, <2>5 DEF AnnounceMail, DeliveryFails
  <2>6. ASSUME NEW t \in Sender, SendMail(t) PROVE FALSE
    BY <2>1, <2>6 DEF SendMail, DeliveryFails
  <2>7. ASSUME NEW t \in Sender, RecordSent(t) PROVE FALSE
    BY <2>1, <2>7 DEF RecordSent, DeliveryFails
  <2>8. ASSUME NEW t \in Sender, RecordResult(t) PROVE FALSE
    BY <2>1, <2>8 DEF RecordResult, DeliveryFails
  <2>9. ASSUME NEW t \in Sender, SenderDies(t) PROVE FALSE
    <3>1. CASE t = s
      <4>1. sender'[s] = NoSender
        BY <1>1, <2>9, <3>1 DEF SenderDies, Ends
      <4>2. NoSender.pc = "idle"
        BY DEF NoSender
      <4> QED BY <4>1, <4>2
    <3>2. CASE t # s
      BY <1>2, <2>9, <3>2 DEF SenderDies, Ends
    <3> QED BY <3>1, <3>2
  <2>10. ASSUME NEW t \in Sender, AssertNotAlreadySent(t) PROVE t = s
    <3>1. SUFFICES ASSUME t # s PROVE FALSE
      OBVIOUS
    <3> QED BY <1>2, <2>10, <3>1 DEF AssertNotAlreadySent, FailsEarly, Ends, Goes
  <2>11. ~UNCHANGED mailVars
    BY DEF mailVars, At
  <2> QED BY <2>2, <2>3, <2>4, <2>5, <2>6, <2>7, <2>8, <2>9, <2>10, <2>11 DEF MailNext
<1>4. ~AlreadySent(s)
  <2>1. SUFFICES ASSUME Ends(s) PROVE FALSE
    BY <1>3 DEF AssertNotAlreadySent, FailsEarly
  <2>2. sender'[s] = NoSender
    BY <1>1, <2>1 DEF Ends
  <2>3. NoSender.pc = "idle"
    BY DEF NoSender
  <2> QED BY <2>2, <2>3
<1>5. sender[s].report \in Report
  BY DEF MailInv, MailType, Command, Box, At
<1> QED BY <1>4, <1>5 DEF AlreadySent, MailInv, Announced, BoxOf

-----------------------------------------------------------------------------
(* The archive.                                                            *)

Commits == Report \cup Foreign
Archiver ==
  [pc : {"idle", "ready", "fetch", "sync", "preflight", "export", "stage", "commit", "push",
         "report"},
   report : Report \cup {""}, dry : BOOLEAN]
Checkout ==
  [head : SUBSET Commits, tracking : SUBSET Commits, files : SUBSET Commits,
   staged : SUBSET Commits, half : BOOLEAN]

ArchiveType ==
  /\ archiver \in Archiver
  /\ archiver.pc # "idle" => archiver.report \in Report
  /\ checkout \in Checkout
  /\ remote \in SUBSET Commits
  /\ archived \in [Report -> {"none", "dry_run", "unchanged", "published"}]

\* What is known of the report and of the checkout at each step of a command:
\* from the comparison with the remote to the commit, the checkout has nothing
\* that the remote has not.
Underway ==
  /\ archiver.pc \in {"preflight", "export", "stage", "commit"} => checkout.head \subseteq remote
  /\ archiver.pc = "stage" => archiver.report \in checkout.files
  /\ archiver.pc = "commit" => archiver.report \in checkout.staged
  /\ archiver.pc = "push" => archiver.report \in checkout.head
  /\ archiver.pc = "report" => archiver.report \in remote

Tracked == checkout.tracking \subseteq remote

ArchiveInv == ArchiveType /\ Tracked /\ Underway /\ PublishedIsPushed

\* An empty remote, an empty checkout and no results.
LEMMA ArchiveInitial == ArchiveInit => ArchiveInv
<1> SUFFICES ASSUME ArchiveInit PROVE ArchiveInv
  OBVIOUS
<1>1. archiver \in Archiver /\ archiver.pc = "idle"
  BY DEF ArchiveInit, NoArchiver, Archiver
<1>2. checkout \in Checkout /\ checkout.tracking = {}
  BY DEF ArchiveInit, Checkout
<1>3. archived \in [Report -> {"none", "dry_run", "unchanged", "published"}]
      /\ \A r \in Report : archived[r] = "none"
  BY DEF ArchiveInit
<1>4. remote \in SUBSET Commits
  BY DEF ArchiveInit
<1> QED BY <1>1, <1>2, <1>3, <1>4
        DEF ArchiveInv, ArchiveType, Tracked, Underway, PublishedIsPushed

\* A command that ends without a result leaves nothing to be known.
LEMMA ArchiveStops ==
  ASSUME ArchiveInv, archiver' = NoArchiver, UNCHANGED archived,
         checkout' \in Checkout, checkout'.tracking \subseteq remote',
         remote' \in SUBSET Commits, remote \subseteq remote'
  PROVE  ArchiveInv'
BY DEF ArchiveInv, ArchiveType, Archiver, Tracked, Underway, PublishedIsPushed, NoArchiver

\* A command that goes on knows what the step it goes to needs.
LEMMA ArchiveGoesOn ==
  ASSUME ArchiveInv, archiver.pc # "idle", UNCHANGED archived,
         NEW pc \in {"fetch", "sync", "preflight", "export", "stage", "commit", "push", "report"},
         ArchiverGoes(pc), checkout' \in Checkout,
         remote' \in SUBSET Commits, remote \subseteq remote',
         checkout'.tracking \subseteq remote',
         pc \in {"preflight", "export", "stage", "commit"} => checkout'.head \subseteq remote',
         pc = "stage" => archiver.report \in checkout'.files,
         pc = "commit" => archiver.report \in checkout'.staged,
         pc = "push" => archiver.report \in checkout'.head,
         pc = "report" => archiver.report \in remote'
  PROVE  ArchiveInv'
<1>1. archiver' \in Archiver /\ archiver'.pc = pc /\ archiver'.report = archiver.report
  BY DEF ArchiverGoes, ArchiveInv, ArchiveType, Archiver
<1> QED BY <1>1 DEF ArchiveInv, ArchiveType, Tracked, Underway, PublishedIsPushed

\* A result names a report that the remote has, or is that of a dry run.
LEMMA ArchiveReports ==
  ASSUME ArchiveInv, archiver.pc # "idle", NEW result \in {"dry_run", "unchanged", "published"},
         Reported(result), result # "dry_run" => archiver.report \in remote,
         UNCHANGED remote, checkout' \in Checkout, checkout'.tracking = checkout.tracking
  PROVE  ArchiveInv'
BY DEF ArchiveInv, ArchiveType, Archiver, Tracked, Underway, PublishedIsPushed, Reported, NoArchiver

\* Every step of a publication keeps the invariant.
LEMMA ArchivePreserved == ArchiveInv /\ [ArchiveNext]_archiveVars => ArchiveInv'
<1> SUFFICES ASSUME ArchiveInv, [ArchiveNext]_archiveVars PROVE ArchiveInv'
  OBVIOUS
<1> USE DEF ArchiverAt
<1>a. /\ checkout \in Checkout /\ checkout.tracking \subseteq remote
      /\ remote \in SUBSET Commits
  BY DEF ArchiveInv, ArchiveType, Tracked
<1>0. CASE UNCHANGED archiveVars
  BY <1>0 DEF ArchiveInv, ArchiveType, Archiver, Checkout, Tracked, Underway, PublishedIsPushed,
              archiveVars
<1>1. ASSUME NEW r \in Report, NEW dry \in BOOLEAN, StartArchive(r, dry) PROVE ArchiveInv'
  BY <1>1 DEF StartArchive, ArchiveInv, ArchiveType, Archiver, Tracked, Underway, PublishedIsPushed
<1>2. CASE CheckReady
  BY <1>a, <1>2, ArchiveStops, ArchiveGoesOn DEF CheckReady, Fails
<1>3. CASE Fetch
  <2> DEFINE fetched == [checkout EXCEPT !.tracking = remote]
  <2>1. remote \in SUBSET Commits => fetched \in Checkout /\ fetched.tracking = remote
    BY <1>a DEF Checkout
  <2> HIDE DEF fetched
  <2>2. archiver.pc = "fetch" /\ UNCHANGED remote
    BY <1>3 DEF Fetch
  <2>3. CASE checkout' = fetched /\ ArchiverGoes("sync") /\ UNCHANGED archived
    BY <1>a, <2>1, <2>2, <2>3, ArchiveGoesOn
  <2>4. CASE Fails /\ (UNCHANGED checkout \/ checkout' = fetched)
    BY <1>a, <2>1, <2>2, <2>4, ArchiveStops DEF Fails
  <2> QED BY <1>3, <2>3, <2>4 DEF Fetch, fetched
<1>4. CASE SyncRemote
  <2>0. archiver.pc = "sync" /\ UNCHANGED remote
    BY <1>4 DEF SyncRemote
  <2>1. CASE Fails /\ UNCHANGED checkout
    BY <1>a, <2>0, <2>1, ArchiveStops DEF Fails
  <2>2. CASE ~Ahead /\ ~Behind /\ UNCHANGED checkout /\ ArchiverGoes("preflight")
             /\ UNCHANGED archived
    BY <1>a, <2>0, <2>2, ArchiveGoesOn DEF Ahead
  <2>3. CASE /\ ~Ahead
             /\ checkout' = [checkout EXCEPT !.head = @ \union checkout.tracking,
                                             !.files = @ \union Reports(checkout.tracking),
                                             !.staged = @ \union Reports(checkout.tracking)]
             /\ ArchiverGoes("preflight") /\ UNCHANGED archived
    <3>1. /\ checkout' \in Checkout
          /\ checkout'.tracking = checkout.tracking
          /\ checkout'.head = checkout.head \cup checkout.tracking
      BY <1>a, <2>3 DEF Checkout, Reports
    <3> QED BY <1>a, <2>0, <2>3, <3>1, ArchiveGoesOn DEF Ahead
  <2> QED BY <1>4, <2>1, <2>2, <2>3 DEF SyncRemote
<1>5. CASE Preflight
  BY <1>a, <1>5, ArchiveStops, ArchiveReports, ArchiveGoesOn
     DEF Preflight, Fails, ArchiveInv, Underway
<1>6. CASE Export
  <2>0. archiver.pc = "export" /\ UNCHANGED remote /\ archiver.report \in Report
        /\ checkout.head \subseteq remote
    BY <1>6 DEF Export, ArchiveInv, ArchiveType, Underway
  <2>1. CASE /\ checkout' = [checkout EXCEPT !.files = @ \union {archiver.report}]
             /\ ArchiverGoes("stage") /\ UNCHANGED archived
    <3>1. /\ checkout' \in Checkout /\ archiver.report \in checkout'.files
          /\ checkout'.tracking = checkout.tracking /\ checkout'.head = checkout.head
      BY <1>a, <2>0, <2>1 DEF Checkout, Commits
    <3> QED BY <1>a, <2>0, <2>1, <3>1, ArchiveGoesOn
  <2>2. CASE checkout' = [checkout EXCEPT !.half = TRUE] /\ Fails
    <3>1. checkout' \in Checkout /\ checkout'.tracking = checkout.tracking
      BY <1>a, <2>2 DEF Checkout
    <3> QED BY <1>a, <2>0, <2>2, <3>1, ArchiveStops DEF Fails
  <2> QED BY <1>6, <2>1, <2>2 DEF Export
<1>7. CASE Stage
  <2>0. archiver.pc = "stage" /\ UNCHANGED remote /\ archiver.report \in checkout.files
        /\ archiver.report \in Report /\ checkout.head \subseteq remote
    BY <1>7 DEF Stage, ArchiveInv, ArchiveType, Underway
  <2> DEFINE added == [checkout EXCEPT !.staged = checkout.files]
  <2>1. /\ added \in Checkout /\ added.tracking = checkout.tracking
        /\ added.head = checkout.head /\ added.staged = checkout.files
    BY <1>a DEF Checkout
  <2> HIDE DEF added
  <2>2. CASE checkout' = added /\ checkout.files = Reports(checkout.head) /\ Reported("unchanged")
    BY <2>0, <2>1, <2>2, ArchiveReports DEF Reports
  <2>3. CASE checkout' = added /\ ArchiverGoes("commit") /\ UNCHANGED archived
    BY <1>a, <2>0, <2>1, <2>3, ArchiveGoesOn
  <2>4. CASE Fails /\ (UNCHANGED checkout \/ checkout' = added)
    BY <1>a, <2>0, <2>1, <2>4, ArchiveStops DEF Fails
  <2> QED BY <1>7, <2>2, <2>3, <2>4 DEF Stage, added
<1>8. CASE Commit
  <2>0. archiver.pc = "commit" /\ UNCHANGED remote /\ archiver.report \in checkout.staged
    BY <1>8 DEF Commit, ArchiveInv, Underway
  <2> DEFINE more == [checkout EXCEPT !.head = @ \union checkout.staged]
  <2>1. /\ more \in Checkout /\ more.tracking = checkout.tracking
        /\ more.head = checkout.head \cup checkout.staged
    BY <1>a DEF Checkout
  <2> HIDE DEF more
  <2>2. CASE Fails /\ (UNCHANGED checkout \/ checkout' = more)
    BY <1>a, <2>0, <2>1, <2>2, ArchiveStops DEF Fails
  <2>3. CASE checkout' = more /\ ArchiverGoes("push") /\ UNCHANGED archived
    BY <1>a, <2>0, <2>1, <2>3, ArchiveGoesOn
  <2> QED BY <1>8, <2>2, <2>3 DEF Commit, more
<1>9. CASE Push
  <2>0. archiver.pc = "push" /\ archiver.report \in checkout.head
    BY <1>9 DEF Push, ArchiveInv, Underway
  <2> DEFINE seen == [checkout EXCEPT !.tracking = checkout.head]
  <2>1. seen \in Checkout /\ seen.tracking = checkout.head /\ checkout.head \in SUBSET Commits
    BY <1>a DEF Checkout
  <2> HIDE DEF seen
  <2>2. CASE Fails /\ UNCHANGED checkout /\ remote \subseteq remote' /\ remote' \in SUBSET Commits
    BY <1>a, <2>2, ArchiveStops DEF Fails
  <2>3. CASE /\ remote \subseteq checkout.head /\ remote' = checkout.head /\ checkout' = seen
             /\ ArchiverGoes("report") /\ UNCHANGED archived
    BY <2>0, <2>1, <2>3, ArchiveGoesOn
  <2> QED BY <1>a, <1>9, <2>1, <2>2, <2>3 DEF Push, seen
<1>10. CASE WriteArchiveResult
  BY <1>a, <1>10, ArchiveReports, ArchiveStops DEF WriteArchiveResult, Fails, ArchiveInv, Underway
<1>11. CASE ArchiverDies
  <2>1. checkout' \in Checkout /\ checkout'.tracking = checkout.tracking
    BY <1>a, <1>11 DEF ArchiverDies, Checkout
  <2> QED BY <1>a, <1>11, <2>1, ArchiveStops DEF ArchiverDies
<1>12. ASSUME NEW c \in Foreign, OtherPush(c) PROVE ArchiveInv'
  BY <1>12 DEF OtherPush, ArchiveInv, ArchiveType, Commits, Tracked, Underway,
                   PublishedIsPushed
<1>13. CASE Reconcile
  <2>0. archiver.pc = "idle" /\ UNCHANGED <<archiver, archived>>
    BY <1>13 DEF Reconcile
  <2>1. ASSUME NEW all \in SUBSET Commits, remote \subseteq all, remote' = all,
               checkout' = [checkout EXCEPT !.head = all, !.tracking = all, !.half = FALSE,
                                            !.files = Reports(all), !.staged = Reports(all)]
        PROVE  ArchiveInv'
    <3>1. checkout' = [head |-> all, tracking |-> all, files |-> Reports(all),
                       staged |-> Reports(all), half |-> FALSE]
      BY <1>a, <2>1 DEF Checkout
    <3>2. checkout' \in Checkout /\ checkout'.tracking = all
      BY <2>1, <3>1 DEF Checkout, Reports
    <3> QED BY <2>0, <2>1, <3>2 DEF ArchiveInv, ArchiveType, Archiver, Tracked, Underway,
                                    PublishedIsPushed
  <2>2. remote \cup checkout.head \in SUBSET Commits
    BY <1>a DEF Checkout
  <2> QED BY <1>a, <1>13, <2>1, <2>2 DEF Reconcile
<1> QED
  BY <1>0, <1>1, <1>2, <1>3, <1>4, <1>5, <1>6, <1>7, <1>8, <1>9, <1>10, <1>11, <1>12, <1>13
     DEF ArchiveNext

-----------------------------------------------------------------------------
(* The schedule.                                                           *)

Execution ==
  [pc : {"idle", "locked", "emptied", "daily", "publish", "drafting"},
   child : DailyChild \cup Drafter \cup {""}, dir : Report \cup {""}]
DailyRun ==
  [pc : {"idle", "running", "told", "ended"}, report : Report \cup {""},
   exit : {"none", "done", "failed"}]
DraftCommand ==
  [pc : {"idle", "load", "token", "upload", "render", "add", "result", "ended"},
   report : Report \cup {""}, dry : BOOLEAN, uploads : Int, exit : {"none", "done", "failed"}]
Told ==
  [dry : BOOLEAN, status : {"never_run", "running", "failed", "succeeded"},
   stage : {"idle", "daily", "wechat_draft", "completed"}, dir : Report \cup {""},
   draft : {"not_attempted", "running", "failed", "dry_run", "created"}]

ScheduleType ==
  /\ scheduler \in [Scheduler -> Execution]
  /\ lock \in Scheduler \cup {"free"}
  /\ runDirFile \in Report \cup {""}
  /\ schedule \in Told
  /\ daily \in [DailyChild -> DailyRun]
  /\ runs \in SUBSET Report
  /\ drafter \in [Drafter -> DraftCommand]
  /\ drafts \in [Report -> Nat]

Drafts(d) == drafter[d].pc # "idle"

\* A run of which there is no draft, and none is being made.
Fresh(r) == drafts[r] = 0 /\ \A d \in Drafter : Drafts(d) => drafter[d].report # r

\* Whoever executes the schedule holds the lock.
Locked == \A s \in Scheduler : scheduler[s].pc # "idle" => lock = s

\* Commands that draft, orphans included, work on different runs.
Apart ==
  /\ \A d \in Drafter : Drafts(d) => drafter[d].report \in runs
  /\ \A d, e \in Drafter : Drafts(d) /\ Drafts(e) /\ drafter[d].report = drafter[e].report => d = e

\* A draft is made by the last request of a command, and only then.
Counted ==
  /\ \A r \in Report : drafts[r] <= 1 /\ (drafts[r] # 0 => r \in runs)
  /\ \A d \in Drafter :
       LET held == drafter[d]
       IN /\ held.pc \in {"load", "token", "upload", "render", "add"} => drafts[held.report] = 0
          /\ held.pc = "result" \/ (held.pc = "ended" /\ held.exit = "done" /\ ~held.dry)
               => drafts[held.report] = 1

\* What an execution finds in last_run_dir.txt was written after it emptied
\* the file, by whichever daily run: nobody has drafted it.
HandedTo(s) ==
  /\ scheduler[s].pc \in {"emptied", "daily"} /\ runDirFile # "" => Fresh(runDirFile)
  /\ scheduler[s].pc = "daily" => scheduler[s].child \in DailyChild
  /\ scheduler[s].pc = "publish" => scheduler[s].dir \in runs /\ Fresh(scheduler[s].dir)
  /\ scheduler[s].pc = "drafting" =>
       LET d == scheduler[s].child
       IN d \in Drafter /\ Drafts(d) /\ drafter[d].report = scheduler[s].dir
            /\ drafter[d].dry = schedule.dry
Handed == \A s \in Scheduler : HandedTo(s)

Created == schedule.draft = "created" => schedule.dir \in Report /\ drafts[schedule.dir] = 1

ScheduleInv == ScheduleType /\ Locked /\ Apart /\ Counted /\ Handed /\ Created

\* No execution, no run and no draft at the start.
LEMMA ScheduleInitial == DraftInit /\ ScheduleInit => ScheduleInv
<1> SUFFICES ASSUME DraftInit, ScheduleInit PROVE ScheduleInv
  OBVIOUS
<1>1. Asleep \in Execution /\ Asleep.pc = "idle"
  BY DEF Asleep, Execution
<1>2. NoDaily \in DailyRun /\ NoDaily.pc = "idle"
  BY DEF NoDaily, DailyRun
<1>3. NoDrafter \in DraftCommand /\ NoDrafter.pc = "idle"
  BY DEF NoDrafter, DraftCommand
<1>4. schedule \in Told /\ schedule.draft = "not_attempted"
  <2>1. PICK dry \in BOOLEAN :
          schedule = [dry |-> dry, status |-> "never_run", stage |-> "idle",
                      dir |-> "", draft |-> "not_attempted"]
    BY DEF ScheduleInit
  <2> QED BY <2>1 DEF Told
<1>5. ScheduleType
  BY <1>1, <1>2, <1>3, <1>4 DEF ScheduleInit, DraftInit, ScheduleType
<1>6. /\ \A s \in Scheduler : scheduler[s].pc = "idle"
      /\ \A d \in Drafter : drafter[d].pc = "idle"
      /\ \A r \in Report : drafts[r] = 0
  BY <1>1, <1>3 DEF ScheduleInit, DraftInit
<1>7. Locked /\ Apart
  BY <1>6 DEF Locked, Apart, Drafts
<1>8. Counted
  BY <1>6 DEF Counted
<1>9. Handed /\ Created
  BY <1>4, <1>6 DEF Handed, HandedTo, Created
<1> QED BY <1>5, <1>7, <1>8, <1>9 DEF ScheduleInv

\* A process that has not begun is a draft command.
LEMMA NoDrafterTyped == NoDrafter \in DraftCommand /\ NoDrafter.pc = "idle"
  BY DEF NoDrafter, DraftCommand

\* An execution that does not move keeps what it was handed while no run is
\* drafted anew and the command it waits for goes on.
LEMMA HandedKept ==
  ASSUME NEW s \in Scheduler, HandedTo(s), runs \in SUBSET Report, runDirFile \in Report \cup {""},
         scheduler'[s] = scheduler[s], schedule'.dry = schedule.dry,
         UNCHANGED <<runDirFile, runs>>,
         \A r \in Report : Fresh(r) => Fresh(r)',
         \A d \in Drafter : scheduler[s].pc = "drafting" /\ scheduler[s].child = d /\ Drafts(d)
           => Drafts(d)' /\ drafter'[d].report = drafter[d].report
                /\ drafter'[d].dry = drafter[d].dry
  PROVE  HandedTo(s)'
<1>1. scheduler'[s].pc = scheduler[s].pc /\ scheduler'[s].child = scheduler[s].child
      /\ scheduler'[s].dir = scheduler[s].dir
  OBVIOUS
<1>2. scheduler[s].pc \in {"emptied", "daily"} /\ runDirFile # "" => Fresh(runDirFile)'
  BY DEF HandedTo
<1>3. scheduler[s].pc = "publish" => scheduler[s].dir \in runs' /\ Fresh(scheduler[s].dir)'
  BY DEF HandedTo
<1>4. scheduler[s].pc = "drafting" =>
        LET d == scheduler[s].child
        IN d \in Drafter /\ Drafts(d)' /\ drafter'[d].report = scheduler[s].dir
             /\ drafter'[d].dry = schedule'.dry
  BY DEF HandedTo
<1>5. scheduler[s].pc = "daily" => scheduler[s].child \in DailyChild
  BY DEF HandedTo
<1> QED BY <1>1, <1>2, <1>3, <1>4, <1>5 DEF HandedTo

\* One step of a command that drafts: it stays with its report, and what it
\* adds is the draft of that report, the first.
LEMMA DrafterMoves ==
  ASSUME ScheduleInv, NEW d \in Drafter, Drafts(d), UNCHANGED scheduleVars,
         NEW held \in DraftCommand, NEW n \in Nat, n <= 1,
         held.pc # "idle", held.report = drafter[d].report, held.dry = drafter[d].dry,
         drafts[held.report] <= n,
         held.pc \in {"load", "token", "upload", "render", "add"} => n = 0,
         held.pc = "result" \/ (held.pc = "ended" /\ held.exit = "done" /\ ~held.dry) => n = 1,
         drafter' = [drafter EXCEPT ![d] = held],
         drafts' = [drafts EXCEPT ![held.report] = n]
  PROVE  ScheduleInv'
<1>a. ScheduleType /\ held.report \in Report /\ held.report \in runs
  BY DEF ScheduleInv, ScheduleType, Apart
<1>b. /\ drafter'[d] = held
      /\ \A e \in Drafter \ {d} : drafter'[e] = drafter[e]
      /\ drafts'[held.report] = n
      /\ \A r \in Report \ {held.report} : drafts'[r] = drafts[r]
  BY <1>a DEF ScheduleType
<1>c. UNCHANGED <<scheduler, lock, runDirFile, schedule, agent, daily, runs>>
  BY DEF scheduleVars
<1>d. \A e \in Drafter : Drafts(e)' <=> Drafts(e)
  BY <1>b DEF Drafts
<1>e. \A e \in Drafter : drafter'[e].report = drafter[e].report /\ drafter'[e].dry = drafter[e].dry
  BY <1>b
<1>1. ScheduleType'
  <2>1. drafter' \in [Drafter -> DraftCommand]
    BY <1>a DEF ScheduleType
  <2>2. drafts' \in [Report -> Nat]
    <3>1. drafts \in [Report -> Nat]
      BY <1>a DEF ScheduleType
    <3> QED BY <3>1
  <2> QED BY <1>a, <1>c, <2>1, <2>2 DEF ScheduleType
<1>2. Locked'
  BY <1>c DEF ScheduleInv, Locked
<1>3. Apart'
  BY <1>c, <1>d, <1>e DEF ScheduleInv, Apart
<1>4. Counted'
  <2>1. \A r \in Report : drafts'[r] <= 1 /\ (drafts'[r] # 0 => r \in runs')
    BY <1>a, <1>b, <1>c DEF ScheduleInv, Counted
  <2>2. ASSUME NEW e \in Drafter \ {d}, Drafts(e)
        PROVE  drafter[e].report \in Report /\ drafter[e].report # held.report
    BY <1>a, <2>2 DEF ScheduleInv, ScheduleType, Apart
  <2>3. ASSUME NEW e \in Drafter
        PROVE  /\ drafter'[e].pc \in {"load", "token", "upload", "render", "add"}
                    => drafts'[drafter'[e].report] = 0
               /\ drafter'[e].pc = "result"
                    \/ (drafter'[e].pc = "ended" /\ drafter'[e].exit = "done" /\ ~drafter'[e].dry)
                    => drafts'[drafter'[e].report] = 1
    <3>1. CASE e = d
      BY <1>b, <3>1
    <3>2. CASE e # d /\ Drafts(e)
      <4>1. drafter'[e] = drafter[e] /\ drafts'[drafter[e].report] = drafts[drafter[e].report]
        BY <1>b, <2>2, <3>2
      <4> QED BY <4>1 DEF ScheduleInv, Counted
    <3>3. CASE e # d /\ ~Drafts(e)
      BY <1>b, <3>3 DEF Drafts
    <3> QED BY <3>1, <3>2, <3>3
  <2> QED BY <2>1, <2>3 DEF Counted
<1>5. ASSUME NEW r \in Report, Fresh(r) PROVE Fresh(r)'
  BY <1>a, <1>b, <1>d, <1>e, <1>5 DEF Fresh
<1>6. Handed'
  <2>1. ASSUME NEW s \in Scheduler PROVE HandedTo(s)'
    <3>1. HandedTo(s) /\ runs \in SUBSET Report /\ runDirFile \in Report \cup {""}
      BY DEF ScheduleInv, ScheduleType, Handed
    <3> QED BY <1>c, <1>d, <1>e, <1>5, <3>1, HandedKept
  <2> QED BY <2>1 DEF Handed
<1>7. Created'
  <2>1. ASSUME NEW r \in Report, drafts[r] = 1 PROVE drafts'[r] = 1
    <3>1. CASE r = held.report
      <4>1. 1 <= n
        BY <2>1, <3>1
      <4> QED BY <1>b, <3>1, <4>1
    <3> QED BY <1>b, <2>1, <3>1
  <2> QED BY <1>c, <2>1 DEF ScheduleInv, Created
<1> QED BY <1>1, <1>2, <1>3, <1>4, <1>6, <1>7 DEF ScheduleInv

\* A command that adds no draft and goes on, or ends.
LEMMA DrafterWaits ==
  ASSUME ScheduleInv, NEW d \in Drafter, Drafts(d), UNCHANGED scheduleVars, UNCHANGED drafts,
         NEW held \in DraftCommand,
         held.pc \notin {"idle", "result"},
         held.report = drafter[d].report, held.dry = drafter[d].dry,
         held.pc \in {"load", "token", "upload", "render", "add"}
           => drafter[d].pc \in {"load", "token", "upload", "render", "add"},
         held.pc = "ended" /\ held.exit = "done" => held.dry \/ drafter[d].pc = "result",
         drafter' = [drafter EXCEPT ![d] = held]
  PROVE  ScheduleInv'
<1>1. held.report \in Report /\ drafts \in [Report -> Nat]
  BY DEF ScheduleInv, ScheduleType, Apart
<1> DEFINE n == drafts[held.report]
<1>2. n \in Nat /\ n <= 1 /\ n <= n
  <2>1. drafts[held.report] <= 1 /\ drafts[held.report] \in Nat
    BY <1>1 DEF ScheduleInv, Counted
  <2> QED BY <2>1
<1>3. drafts' = [drafts EXCEPT ![held.report] = n]
  BY <1>1
<1>4. held.pc \in {"load", "token", "upload", "render", "add"} => n = 0
  BY DEF ScheduleInv, Counted
<1>5. held.pc = "result" \/ (held.pc = "ended" /\ held.exit = "done" /\ ~held.dry) => n = 1
  BY DEF ScheduleInv, Counted
<1>6. drafts[held.report] <= n /\ held.pc # "idle"
  BY <1>2
<1> HIDE DEF n
<1> QED BY <1>2, <1>3, <1>4, <1>5, <1>6, DrafterMoves

\* Every step of a command that drafts keeps the invariant.
LEMMA DraftStepPreserves ==
  ASSUME ScheduleInv, NEW d \in Drafter, DraftStep(d), UNCHANGED scheduleVars
  PROVE  ScheduleInv'
<1>a. drafter \in [Drafter -> DraftCommand] /\ drafts \in [Report -> Nat]
  BY DEF ScheduleInv, ScheduleType
<1>0. Drafts(d)
  BY DEF DraftStep, LoadDraft, GetAccessToken, UploadArticleImage, RenderDraft, AddDraft,
         WriteDraftResult, DrafterAt, Drafts
<1>b. drafter[d].uploads \in Int /\ drafter[d].exit \in {"none", "done", "failed"}
      /\ drafter[d].pc \in {"idle", "load", "token", "upload", "render", "add", "result", "ended"}
  BY <1>a DEF DraftCommand
<1>c. ASSUME NEW pc \in {"token", "upload", "render", "add", "result"}, DrafterGoes(d, pc)
      PROVE  \E held \in DraftCommand :
               /\ held.pc = pc /\ held.report = drafter[d].report /\ held.dry = drafter[d].dry
               /\ drafter' = [drafter EXCEPT ![d] = held]
  <2> DEFINE held == [drafter[d] EXCEPT !.pc = pc]
  <2>1. held \in DraftCommand /\ held.pc = pc
        /\ held.report = drafter[d].report /\ held.dry = drafter[d].dry
    BY <1>a DEF DraftCommand
  <2>2. drafter' = [drafter EXCEPT ![d] = held]
    BY <1>c DEF DrafterGoes
  <2> HIDE DEF held
  <2> QED BY <2>1, <2>2
<1>d. ASSUME NEW exit \in {"done", "failed"}, Exits(d, exit)
      PROVE  \E held \in DraftCommand :
               /\ held.pc = "ended" /\ held.exit = exit
               /\ held.report = drafter[d].report /\ held.dry = drafter[d].dry
               /\ drafter' = [drafter EXCEPT ![d] = held]
  <2> DEFINE held == [drafter[d] EXCEPT !.pc = "ended", !.exit = exit]
  <2>1. held \in DraftCommand /\ held.pc = "ended" /\ held.exit = exit
        /\ held.report = drafter[d].report /\ held.dry = drafter[d].dry
    BY <1>a DEF DraftCommand
  <2>2. drafter' = [drafter EXCEPT ![d] = held]
    BY <1>d DEF Exits
  <2> HIDE DEF held
  <2> QED BY <2>1, <2>2
<1>e. ASSUME NEW pc \in {"token", "upload", "render", "add"}, DrafterGoes(d, pc),
             UNCHANGED drafts,
             drafter[d].pc \in {"load", "token", "upload", "render", "add"}
      PROVE  ScheduleInv'
  <2>1. PICK held \in DraftCommand :
          /\ held.pc = pc /\ held.report = drafter[d].report /\ held.dry = drafter[d].dry
          /\ drafter' = [drafter EXCEPT ![d] = held]
    BY <1>c, <1>e
  <2> QED BY <1>0, <1>e, <2>1, DrafterWaits
<1>f. ASSUME NEW exit \in {"done", "failed"}, Exits(d, exit), UNCHANGED drafts,
             exit = "done" => drafter[d].dry \/ drafter[d].pc = "result"
      PROVE  ScheduleInv'
  <2>1. PICK held \in DraftCommand :
          /\ held.pc = "ended" /\ held.exit = exit
          /\ held.report = drafter[d].report /\ held.dry = drafter[d].dry
          /\ drafter' = [drafter EXCEPT ![d] = held]
    BY <1>d, <1>f
  <2> QED BY <1>0, <1>f, <2>1, DrafterWaits
<1>g. CASE Exits(d, "failed") /\ UNCHANGED drafts
  BY <1>f, <1>g
<1>1. CASE LoadDraft(d)
  BY <1>1, <1>e, <1>f DEF LoadDraft, DraftFails, DrafterAt
<1>2. CASE GetAccessToken(d)
  BY <1>2, <1>e, <1>g DEF GetAccessToken, NextRequest, DraftFails, DrafterAt
<1>3. CASE UploadArticleImage(d)
  <2>1. ASSUME NEW pc \in {"token", "render"}, UNCHANGED drafts, drafter[d].pc = "upload",
               drafter' = [drafter EXCEPT ![d].uploads = @ - 1, ![d].pc = pc]
        PROVE  ScheduleInv'
    <3> DEFINE left == drafter[d].uploads - 1
    <3> DEFINE held == [drafter[d] EXCEPT !.uploads = left, !.pc = pc]
    <3>0. left \in Int
      BY <1>b
    <3>2. drafter' = [drafter EXCEPT ![d] = held]
      BY <2>1
    <3> HIDE DEF left
    <3>1. held \in DraftCommand /\ held.pc = pc
          /\ held.report = drafter[d].report /\ held.dry = drafter[d].dry
      BY <1>a, <3>0 DEF DraftCommand
    <3> HIDE DEF held
    <3> QED BY <1>0, <2>1, <3>1, <3>2, DrafterWaits
  <2> QED BY <1>3, <1>g, <2>1 DEF UploadArticleImage, DraftFails, DrafterAt
<1>4. CASE RenderDraft(d)
  BY <1>4, <1>e, <1>g DEF RenderDraft, DrafterAt
<1>5. CASE AddDraft(d)
  <2>0. /\ drafter[d].report \in Report /\ drafts[drafter[d].report] = 0
        /\ drafter[d].pc = "add"
    BY <1>0, <1>5 DEF AddDraft, DrafterAt, ScheduleInv, ScheduleType, Apart, Counted
  <2>1. ASSUME NEW held \in DraftCommand,
               held.pc \in {"result", "ended"}, held.pc = "ended" => held.exit = "failed",
               held.report = drafter[d].report, held.dry = drafter[d].dry,
               drafter' = [drafter EXCEPT ![d] = held],
               drafts' = [drafts EXCEPT ![drafter[d].report] = @ + 1]
        PROVE  ScheduleInv'
    <3> DEFINE n == 1
    <3>1. drafts' = [drafts EXCEPT ![held.report] = n]
      BY <1>a, <2>0, <2>1
    <3>2. n \in Nat /\ n <= 1 /\ drafts[held.report] <= n /\ held.pc # "idle"
      BY <2>0, <2>1
    <3>3. held.pc \in {"load", "token", "upload", "render", "add"} => n = 0
      BY <2>1
    <3>4. held.pc = "result" \/ (held.pc = "ended" /\ held.exit = "done" /\ ~held.dry) => n = 1
      OBVIOUS
    <3> HIDE DEF n
    <3> QED BY <1>0, <2>1, <3>1, <3>2, <3>3, <3>4, DrafterMoves
  <2>2. CASE DrafterGoes(d, "result") /\ drafts' = [drafts EXCEPT ![drafter[d].report] = @ + 1]
    BY <1>c, <2>1, <2>2
  <2>3. CASE Exits(d, "failed") /\ drafts' = [drafts EXCEPT ![drafter[d].report] = @ + 1]
    BY <1>d, <2>1, <2>3
  <2> QED BY <1>5, <1>g, <2>2, <2>3 DEF AddDraft, DraftFails
<1>6. CASE WriteDraftResult(d)
  BY <1>6, <1>f, <1>g DEF WriteDraftResult, DraftFails, DrafterAt
<1> QED BY <1>1, <1>2, <1>3, <1>4, <1>5, <1>6 DEF DraftStep

\* A step of an execution that lets nobody draft: what it hands on is a run
\* nobody has drafted, or nothing.
LEMMA ExecutionMoves ==
  ASSUME ScheduleInv, NEW s \in Scheduler, UNCHANGED draftVars,
         NEW held \in Execution, scheduler' = [scheduler EXCEPT ![s] = held],
         lock' \in Scheduler \cup {"free"}, held.pc # "idle" => lock' = s,
         lock = "free" \/ lock = s,
         runDirFile' = runDirFile \/ runDirFile' = "",
         held.pc \in {"emptied", "daily"} => scheduler[s].pc \in {"emptied", "daily"} \/ runDirFile' = "",
         held.pc = "daily" => held.child \in DailyChild,
         held.pc = "publish" => held.dir \in runs /\ Fresh(held.dir),
         held.pc # "drafting",
         schedule' \in Told, schedule'.draft = "created" => UNCHANGED schedule,
         daily' \in [DailyChild -> DailyRun], UNCHANGED runs
  PROVE  ScheduleInv'
<1>a. ScheduleType /\ Locked /\ Handed /\ Created
  BY DEF ScheduleInv
<1>b. UNCHANGED <<drafter, drafts>>
  BY DEF draftVars
<1>c. scheduler'[s] = held /\ \A t \in Scheduler : t # s => scheduler'[t] = scheduler[t]
  BY <1>a DEF ScheduleType
<1>d. \A t \in Scheduler : t # s => scheduler[t].pc = "idle"
  BY <1>a, SchedulerAssumption DEF Locked
<1>1. ScheduleType'
  <2>1. scheduler' \in [Scheduler -> Execution]
    BY <1>a DEF ScheduleType
  <2>2. runDirFile' \in Report \cup {""}
    BY <1>a DEF ScheduleType
  <2> QED BY <1>a, <1>b, <2>1, <2>2 DEF ScheduleType
<1>2. Locked'
  BY <1>c, <1>d DEF Locked
<1>3. Apart' /\ Counted'
  BY <1>b DEF ScheduleInv, Apart, Counted, Drafts
<1>4. \A r : Fresh(r)' <=> Fresh(r)
  BY <1>b DEF Fresh, Drafts
<1>5. Handed'
  <2>1. ASSUME NEW t \in Scheduler, t # s PROVE scheduler'[t].pc = "idle"
    BY <1>c, <1>d, <2>1
  <2>2. held.pc \in {"emptied", "daily"} /\ runDirFile' # "" => Fresh(runDirFile)'
    BY <1>4, <1>a DEF Handed, HandedTo
  <2>3. /\ held.pc = "daily" => held.child \in DailyChild
        /\ held.pc = "publish" => held.dir \in runs' /\ Fresh(held.dir)'
    BY <1>4
  <2> QED BY <1>c, <2>1, <2>2, <2>3 DEF Handed, HandedTo
<1>6. Created'
  BY <1>a, <1>b DEF Created
<1> QED BY <1>1, <1>2, <1>3, <1>5, <1>6 DEF ScheduleInv

\* A command that drafts is gone, and with it whoever waited for it.
LEMMA DrafterLeaves ==
  ASSUME ScheduleInv, NEW d \in Drafter, drafter' = [drafter EXCEPT ![d] = NoDrafter],
         drafts' \in [Report -> Nat],
         \A r \in Report : drafts'[r] = drafts[r]
                             \/ (Drafts(d) /\ drafter[d].report = r /\ drafts'[r] = 1),
         scheduler' \in [Scheduler -> Execution], lock' \in Scheduler \cup {"free"},
         \A s \in Scheduler : scheduler'[s].pc # "idle" => lock' = s,
         \A s \in Scheduler : scheduler'[s].pc # "idle"
           => scheduler'[s] = scheduler[s] /\ scheduler[s].child # d /\ UNCHANGED schedule,
         schedule' \in Told,
         schedule'.draft = "created" => schedule'.dir \in Report /\ drafts'[schedule'.dir] = 1,
         UNCHANGED <<runDirFile, runs, daily>>
  PROVE  ScheduleInv'
<1>a. ScheduleType /\ Apart /\ Counted /\ Handed
  BY DEF ScheduleInv
<1>0. NoDrafter \in DraftCommand /\ NoDrafter.pc = "idle"
  BY NoDrafterTyped
<1>b. drafter'[d].pc = "idle" /\ \A e \in Drafter : e # d => drafter'[e] = drafter[e]
  BY <1>a, <1>0 DEF ScheduleType
<1>c. \A e \in Drafter : Drafts(e)' => e # d /\ Drafts(e)
  BY <1>b DEF Drafts
<1>1. ScheduleType'
  <2>1. drafter' \in [Drafter -> DraftCommand]
    BY <1>a, <1>0 DEF ScheduleType
  <2> QED BY <1>a, <2>1 DEF ScheduleType
<1>2. Locked'
  BY DEF Locked
<1>3. Apart'
  BY <1>a, <1>b, <1>c DEF Apart
<1>4. Counted'
  <2>1. \A r \in Report : drafts'[r] <= 1 /\ (drafts'[r] # 0 => r \in runs')
    BY <1>a DEF Counted, Apart
  <2>2. ASSUME NEW e \in Drafter, e # d, Drafts(e)
        PROVE  drafter'[e] = drafter[e] /\ drafts'[drafter[e].report] = drafts[drafter[e].report]
    BY <1>a, <1>b, <2>2 DEF ScheduleType, Apart
  <2>3. ASSUME NEW e \in Drafter
        PROVE  /\ drafter'[e].pc \in {"load", "token", "upload", "render", "add"}
                    => drafts'[drafter'[e].report] = 0
               /\ drafter'[e].pc = "result"
                    \/ (drafter'[e].pc = "ended" /\ drafter'[e].exit = "done" /\ ~drafter'[e].dry)
                    => drafts'[drafter'[e].report] = 1
    <3>1. CASE e # d /\ Drafts(e)
      <4>1. drafter'[e] = drafter[e] /\ drafts'[drafter[e].report] = drafts[drafter[e].report]
        BY <2>2, <3>1
      <4> QED BY <1>a, <4>1 DEF Counted
    <3>2. CASE e = d \/ ~Drafts(e)
      BY <1>b, <3>2 DEF Drafts
    <3> QED BY <3>1, <3>2
  <2> QED BY <2>1, <2>3 DEF Counted
<1>5. ASSUME NEW r \in Report, Fresh(r) PROVE Fresh(r)'
  BY <1>b, <1>c, <1>5 DEF Fresh
<1>6. Handed'
  <2>1. ASSUME NEW s \in Scheduler, scheduler'[s].pc # "idle" PROVE HandedTo(s)'
    <3>1. /\ scheduler'[s] = scheduler[s] /\ scheduler[s].child # d
          /\ schedule'.dry = schedule.dry
      BY <2>1
    <3>2. HandedTo(s) /\ runs \in SUBSET Report /\ runDirFile \in Report \cup {""}
      BY <1>a DEF ScheduleType, Handed
    <3>3. ASSUME NEW e \in Drafter, scheduler[s].child = e, Drafts(e)
          PROVE  Drafts(e)' /\ drafter'[e] = drafter[e]
      BY <1>b, <3>1, <3>3 DEF Drafts
    <3>4. UNCHANGED <<runDirFile, runs>>
      OBVIOUS
    <3> QED BY <1>5, <3>1, <3>2, <3>3, <3>4, HandedKept
  <2>2. ASSUME NEW s \in Scheduler, scheduler'[s].pc = "idle" PROVE HandedTo(s)'
    BY <2>2 DEF HandedTo
  <2> QED BY <2>1, <2>2 DEF Handed
<1>7. Created'
  BY DEF Created
<1> QED BY <1>1, <1>2, <1>3, <1>4, <1>6, <1>7 DEF ScheduleInv

\* A schedule that sleeps is an execution.
LEMMA AsleepTyped == Asleep \in Execution /\ Asleep.pc = "idle"
  BY DEF Asleep, Execution

\* An execution that leaves lets go of its lock, whatever it writes last.
LEMMA ExecutionLeaves ==
  ASSUME ScheduleInv, NEW s \in Scheduler, scheduler[s].pc # "idle", Leaves(s),
         UNCHANGED draftVars, UNCHANGED <<runDirFile, runs>>,
         daily' \in [DailyChild -> DailyRun],
         schedule' \in Told, schedule'.draft = "created" => UNCHANGED schedule
  PROVE  ScheduleInv'
<1> DEFINE held == Asleep
<1>1. held \in Execution /\ held.pc = "idle"
  BY AsleepTyped
<1>2. scheduler' = [scheduler EXCEPT ![s] = held] /\ lock' = "free"
  BY DEF Leaves
<1>3. lock = s
  BY DEF ScheduleInv, Locked
<1> HIDE DEF held
<1> QED BY <1>1, <1>2, <1>3, ExecutionMoves

\* What the schedule's state is told keeps its type.
LEMMA StateTyped ==
  ASSUME ScheduleInv,
         NEW status \in {"never_run", "running", "failed", "succeeded"},
         NEW stage \in {"idle", "daily", "wechat_draft", "completed"},
         NEW dir \in Report \cup {""},
         NEW draft \in {"not_attempted", "running", "failed", "dry_run", "created"},
         State(status, stage, dir, draft)
  PROVE  /\ schedule' \in Told /\ schedule'.draft = draft /\ schedule'.dir = dir
         /\ schedule'.dry = schedule.dry
<1>1. schedule \in Told
  BY DEF ScheduleInv, ScheduleType
<1> QED BY <1>1 DEF State, Told

\* A daily run that failed, or was killed, leaves the drafts as they are.
LEMMA DailyFailedPreserves ==
  ASSUME ScheduleInv, NEW s \in Scheduler, scheduler[s].pc # "idle", DailyFailed(s),
         UNCHANGED draftVars, UNCHANGED <<runDirFile, runs>>,
         daily' \in [DailyChild -> DailyRun]
  PROVE  ScheduleInv'
<1>1. schedule' \in Told /\ schedule'.draft = "not_attempted"
  BY StateTyped DEF DailyFailed
<1> QED BY <1>1, ExecutionLeaves DEF DailyFailed

\* The steps of an execution up to its draft.
LEMMA ExecutionPreserves ==
  ASSUME ScheduleInv, NEW s \in Scheduler,
         \/ ExecuteSchedule(s) \/ EmptyRunDir(s) \/ StartDaily(s) \/ DailyEnds(s)
         \/ DailyTimesOut(s) \/ SchedulerDies(s)
  PROVE  ScheduleInv'
<1>a. ScheduleType /\ Locked /\ Handed
  BY DEF ScheduleInv
<1>b. scheduler[s] \in Execution /\ schedule \in Told
  BY <1>a DEF ScheduleType
<1>c. scheduler[s].pc # "idle" => lock = s
  BY <1>a DEF Locked
<1>1. CASE ExecuteSchedule(s)
  <2> DEFINE held == [scheduler[s] EXCEPT !.pc = "locked"]
  <2>1. held \in Execution /\ held.pc = "locked"
    BY <1>b DEF Execution
  <2>2. scheduler' = [scheduler EXCEPT ![s] = held]
    BY <1>1 DEF ExecuteSchedule, SchedulerGoes
  <2>3. lock = "free" /\ lock' = s /\ UNCHANGED <<runs, runDirFile, schedule, daily, draftVars>>
    BY <1>1 DEF ExecuteSchedule
  <2>4. daily' \in [DailyChild -> DailyRun]
    BY <1>a, <2>3 DEF ScheduleType
  <2> HIDE DEF held
  <2> QED BY <1>b, <2>1, <2>2, <2>3, <2>4, ExecutionMoves
<1>2. CASE EmptyRunDir(s)
  <2> DEFINE held == [scheduler[s] EXCEPT !.pc = "emptied"]
  <2>1. held \in Execution /\ held.pc = "emptied"
    BY <1>b DEF Execution
  <2>2. scheduler' = [scheduler EXCEPT ![s] = held]
    BY <1>2 DEF EmptyRunDir, SchedulerGoes
  <2>3. /\ scheduler[s].pc = "locked" /\ runDirFile' = ""
        /\ UNCHANGED <<runs, lock, schedule, daily, draftVars>>
    BY <1>2 DEF EmptyRunDir, SchedulerAt
  <2>4. daily' \in [DailyChild -> DailyRun] /\ lock' \in Scheduler \cup {"free"}
    BY <1>a, <2>3 DEF ScheduleType
  <2> HIDE DEF held
  <2> QED BY <1>b, <1>c, <2>1, <2>2, <2>3, <2>4, ExecutionMoves
<1>3. CASE StartDaily(s)
  <2>0. scheduler[s].pc = "emptied" /\ UNCHANGED <<runs, runDirFile, draftVars>>
    BY <1>3 DEF StartDaily, SchedulerAt
  <2>1. CASE DailyFailed(s) /\ UNCHANGED daily
    BY <1>a, <2>0, <2>1, DailyFailedPreserves DEF ScheduleType
  <2>2. ASSUME NEW c \in DailyChild, daily' = [daily EXCEPT ![c].pc = "running"],
               scheduler' = [scheduler EXCEPT ![s].pc = "daily", ![s].child = c],
               State("running", "daily", "", "not_attempted"), UNCHANGED lock
        PROVE  ScheduleInv'
    <3> DEFINE held == [scheduler[s] EXCEPT !.pc = "daily", !.child = c]
    <3>1. held \in Execution /\ held.pc = "daily" /\ held.child = c
      BY <1>b DEF Execution
    <3>2. scheduler' = [scheduler EXCEPT ![s] = held]
      BY <2>2
    <3>3. daily' \in [DailyChild -> DailyRun]
      BY <1>a, <2>2 DEF ScheduleType, DailyRun
    <3>4. schedule' \in Told /\ schedule'.draft = "not_attempted"
      BY <2>2, StateTyped
    <3>5. lock' \in Scheduler \cup {"free"}
      BY <1>a, <2>2 DEF ScheduleType
    <3> HIDE DEF held
    <3> QED BY <1>c, <2>0, <2>2, <3>1, <3>2, <3>3, <3>4, <3>5, ExecutionMoves
  <2> QED BY <1>3, <2>1, <2>2 DEF StartDaily
<1>4. CASE DailyEnds(s)
  <2> DEFINE c == scheduler[s].child
  <2>0. /\ scheduler[s].pc = "daily" /\ UNCHANGED <<runs, runDirFile, draftVars>>
        /\ daily' = [daily EXCEPT ![c] = NoDaily]
    BY <1>4 DEF DailyEnds, SchedulerAt
  <2>1. daily' \in [DailyChild -> DailyRun]
    BY <1>a, <2>0 DEF ScheduleType, DailyRun, NoDaily
  <2>2. CASE DailyFailed(s)
    BY <2>0, <2>1, <2>2, DailyFailedPreserves
  <2>3. CASE /\ runDirFile \in runs
             /\ scheduler' = [scheduler EXCEPT ![s].pc = "publish", ![s].child = "",
                                               ![s].dir = runDirFile]
             /\ State("running", "wechat_draft", runDirFile, "running")
             /\ UNCHANGED lock
    <3> DEFINE held == [scheduler[s] EXCEPT !.pc = "publish", !.child = "", !.dir = runDirFile]
    <3>0. runDirFile \in Report
      BY <1>a, <2>3 DEF ScheduleType
    <3>1. held \in Execution /\ held.pc = "publish" /\ held.dir = runDirFile
      BY <1>b, <3>0 DEF Execution
    <3>2. scheduler' = [scheduler EXCEPT ![s] = held]
      BY <2>3
    <3>3. runDirFile # "" /\ Fresh(runDirFile)
      BY <1>a, <2>0, <3>0, ReportAssumption DEF Handed, HandedTo
    <3>4. schedule' \in Told /\ schedule'.draft = "running"
      BY <2>3, <3>0, StateTyped
    <3>5. lock' \in Scheduler \cup {"free"}
      BY <1>a, <2>3 DEF ScheduleType
    <3> HIDE DEF held
    <3> QED BY <1>c, <2>0, <2>1, <2>3, <3>1, <3>2, <3>3, <3>4, <3>5, ExecutionMoves
  <2> QED BY <1>4, <2>2, <2>3 DEF DailyEnds
<1>5. CASE DailyTimesOut(s)
  <2>0. /\ scheduler[s].pc = "daily" /\ UNCHANGED <<runs, runDirFile, draftVars>>
        /\ daily' = [daily EXCEPT ![scheduler[s].child] = NoDaily] /\ DailyFailed(s)
    BY <1>5 DEF DailyTimesOut, SchedulerAt
  <2>1. daily' \in [DailyChild -> DailyRun]
    BY <1>a, <2>0 DEF ScheduleType, DailyRun, NoDaily
  <2> QED BY <2>0, <2>1, DailyFailedPreserves
<1>6. CASE SchedulerDies(s)
  BY <1>a, <1>6, ExecutionLeaves DEF SchedulerDies, SchedulerAt, ScheduleType
<1> QED BY <1>1, <1>2, <1>3, <1>4, <1>5, <1>6

\* What changes no execution, no command that drafts and no run.
LEMMA ScheduleWaits ==
  ASSUME ScheduleInv, daily' \in [DailyChild -> DailyRun],
         UNCHANGED <<scheduler, lock, runDirFile, schedule, runs, drafter, drafts>>
  PROVE  ScheduleInv'
<1>1. ScheduleType'
  BY DEF ScheduleInv, ScheduleType
<1>2. Locked' /\ Created'
  BY DEF ScheduleInv, Locked, Created
<1>3. Apart' /\ Counted'
  BY DEF ScheduleInv, Apart, Counted, Drafts
<1>4. Handed'
  BY DEF ScheduleInv, Handed, HandedTo, Fresh, Drafts
<1> QED BY <1>1, <1>2, <1>3, <1>4 DEF ScheduleInv

\* The run a daily command names is new: nobody drafts it.
LEMMA DailyPreserves ==
  ASSUME ScheduleInv, NEW c \in DailyChild, DailyTellsRun(c) \/ DailyExits(c)
  PROVE  ScheduleInv'
<1>a. ScheduleType /\ Apart /\ Counted /\ Handed
  BY DEF ScheduleInv
<1>1. CASE DailyExits(c)
  <2>1. daily' \in [DailyChild -> DailyRun]
    <3>1. daily \in [DailyChild -> DailyRun]
      BY <1>a DEF ScheduleType
    <3>2. PICK exit \in {"done", "failed"} :
            daily' = [daily EXCEPT ![c].pc = "ended", ![c].exit = exit]
      BY <1>1 DEF DailyExits
    <3> QED BY <3>1, <3>2 DEF DailyRun
  <2> QED BY <1>1, <2>1, ScheduleWaits DEF DailyExits, draftVars
<1>2. CASE DailyTellsRun(c)
  <2>0. PICK r \in Report \ runs :
          /\ runs' = runs \cup {r} /\ runDirFile' = r
          /\ daily' = [daily EXCEPT ![c].pc = "told", ![c].report = r]
    BY <1>2 DEF DailyTellsRun
  <2>1. UNCHANGED <<scheduler, lock, schedule, drafter, drafts>>
    BY <1>2 DEF DailyTellsRun, draftVars
  <2>2. daily' \in [DailyChild -> DailyRun]
    BY <1>a, <2>0 DEF ScheduleType, DailyRun
  <2>3. Fresh(r)
    BY <1>a, <2>0 DEF Fresh, Apart, Counted
  <2>4. ScheduleType'
    BY <1>a, <2>0, <2>1, <2>2 DEF ScheduleType
  <2>5. Locked' /\ Created'
    BY <2>1 DEF ScheduleInv, Locked, Created
  <2>6. Apart' /\ Counted'
    BY <1>a, <2>0, <2>1 DEF Apart, Counted, Drafts
  <2>7. \A x : Fresh(x) => Fresh(x)'
    BY <2>1 DEF Fresh, Drafts
  <2>8. \A d : Drafts(d) => Drafts(d)'
    BY <2>1 DEF Drafts
  <2>9. Handed'
    BY <1>a, <2>0, <2>1, <2>3, <2>7, <2>8 DEF Handed, HandedTo
  <2> QED BY <2>4, <2>5, <2>6, <2>9 DEF ScheduleInv
<1> QED BY <1>1, <1>2

\* A draft command that begins has its report to load.
LEMMA DraftingTyped ==
  ASSUME NEW d, NEW dir \in Report, NEW dry \in BOOLEAN
  PROVE  /\ Drafting(d, dir, dry) \in DraftCommand /\ Drafting(d, dir, dry).pc = "load"
         /\ Drafting(d, dir, dry).report = dir /\ Drafting(d, dir, dry).dry = dry
<1> DEFINE begun == [NoDrafter EXCEPT !.pc = "load", !.report = dir]
<1>1. begun \in DraftCommand /\ begun.pc = "load" /\ begun.report = dir
  BY NoDrafterTyped DEF DraftCommand
<1>2. Drafting(d, dir, dry) = [begun EXCEPT !.dry = dry, !.uploads = Images]
  BY DEF Drafting
<1>3. Images \in Int
  BY ImagesAssumption
<1> HIDE DEF begun
<1> QED BY <1>1, <1>2, <1>3 DEF DraftCommand

\* The command that is started drafts the run that was handed on, which nobody
\* else has drafted or drafts.
LEMMA StartDraftPreserves ==
  ASSUME ScheduleInv, NEW s \in Scheduler, StartDraft(s)
  PROVE  ScheduleInv'
<1>a. ScheduleType /\ Locked /\ Apart /\ Counted /\ Handed /\ Created
  BY DEF ScheduleInv
<1>b. scheduler[s] \in Execution /\ schedule \in Told /\ runs \in SUBSET Report
  BY <1>a DEF ScheduleType
<1>0. /\ scheduler[s].pc = "publish"
      /\ UNCHANGED <<runs, runDirFile, daily, token, drafts, published>>
  BY DEF StartDraft, SchedulerAt
<1> DEFINE dir == scheduler[s].dir
<1>c. dir \in runs /\ dir \in Report /\ Fresh(dir)
  BY <1>a, <1>b, <1>0 DEF Handed, HandedTo
<1>1. CASE DraftFailed(s) /\ UNCHANGED drafter
  <2>1. schedule' \in Told /\ schedule'.draft = "failed"
    BY <1>1, <1>c, StateTyped DEF DraftFailed
  <2>2. UNCHANGED draftVars /\ daily' \in [DailyChild -> DailyRun]
    BY <1>a, <1>0, <1>1 DEF draftVars, ScheduleType
  <2> QED BY <1>0, <1>1, <2>1, <2>2, ExecutionLeaves DEF DraftFailed
<1>2. ASSUME NEW d \in Drafter, drafter[d].pc = "idle",
             drafter' = [drafter EXCEPT ![d] = Drafting(d, dir, schedule.dry)],
             scheduler' = [scheduler EXCEPT ![s].pc = "drafting", ![s].child = d],
             UNCHANGED <<lock, schedule>>
      PROVE  ScheduleInv'
  <2> DEFINE command == Drafting(d, dir, schedule.dry)
  <2> DEFINE held == [scheduler[s] EXCEPT !.pc = "drafting", !.child = d]
  <2>1. command \in DraftCommand /\ command.pc = "load" /\ command.report = dir
        /\ command.dry = schedule.dry
    <3>1. schedule.dry \in BOOLEAN
      BY <1>b DEF Told
    <3> QED BY <1>c, <3>1, DraftingTyped
  <2>2. held \in Execution /\ held.pc = "drafting" /\ held.child = d /\ held.dir = dir
    BY <1>b DEF Execution
  <2>3. drafter' = [drafter EXCEPT ![d] = command] /\ scheduler' = [scheduler EXCEPT ![s] = held]
    BY <1>2
  <2> HIDE DEF command, held, dir
  <2>4. drafter'[d] = command /\ \A e \in Drafter : e # d => drafter'[e] = drafter[e]
    BY <1>a, <2>3 DEF ScheduleType
  <2>5. scheduler'[s] = held /\ \A t \in Scheduler : t # s => scheduler'[t] = scheduler[t]
    BY <1>a, <2>3 DEF ScheduleType
  <2>6. \A t \in Scheduler : t # s => scheduler'[t].pc = "idle"
    BY <1>a, <1>0, <2>5 DEF Locked
  <2>7. ScheduleType'
    <3>1. drafter' \in [Drafter -> DraftCommand]
      BY <1>a, <2>1, <2>3 DEF ScheduleType
    <3>2. scheduler' \in [Scheduler -> Execution]
      BY <1>a, <2>2, <2>3 DEF ScheduleType
    <3> QED BY <1>a, <1>0, <1>2, <3>1, <3>2 DEF ScheduleType
  <2>8. Locked' /\ Created'
    BY <1>a, <1>0, <1>2, <2>5 DEF Locked, Created
  <2>9. Apart'
    <3>1. \A e \in Drafter : e # d => (Drafts(e)' <=> Drafts(e)) /\ drafter'[e].report = drafter[e].report
      BY <2>4 DEF Drafts
    <3>2. \A e \in Drafter : e # d /\ Drafts(e) => drafter[e].report # dir
      BY <1>c DEF Fresh
    <3> QED BY <1>a, <1>c, <1>0, <2>1, <2>4, <3>1, <3>2 DEF Apart
  <2>10. Counted'
    <3>1. drafts' = drafts /\ runs' = runs /\ drafts[dir] = 0
      BY <1>c, <1>0 DEF Fresh
    <3>2. ASSUME NEW e \in Drafter
          PROVE  /\ drafter'[e].pc \in {"load", "token", "upload", "render", "add"}
                      => drafts[drafter'[e].report] = 0
                 /\ drafter'[e].pc = "result"
                      \/ (drafter'[e].pc = "ended" /\ drafter'[e].exit = "done" /\ ~drafter'[e].dry)
                      => drafts[drafter'[e].report] = 1
      <4>1. CASE e = d
        BY <2>1, <2>4, <3>1, <4>1
      <4>2. CASE e # d
        <5>1. drafter'[e] = drafter[e]
          BY <2>4, <4>2
        <5> QED BY <1>a, <5>1 DEF Counted
      <4> QED BY <4>1, <4>2
    <3> QED BY <1>a, <3>1, <3>2 DEF Counted
  <2>11. Handed'
    <3>1. Drafts(d)' /\ drafter'[d].report = dir /\ drafter'[d].dry = schedule'.dry
      BY <1>2, <2>1, <2>4 DEF Drafts
    <3>2. HandedTo(s)'
      BY <2>2, <2>5, <3>1 DEF HandedTo
    <3> QED BY <2>6, <3>2 DEF Handed, HandedTo
  <2> QED BY <2>7, <2>8, <2>9, <2>10, <2>11 DEF ScheduleInv
<1> QED BY <1>1, <1>2 DEF StartDraft, DrafterAt

\* The end of the command that drafts: "created" is told of a draft that was
\* made, and a command killed in its last request may have made it.
LEMMA DraftEndPreserves ==
  ASSUME ScheduleInv, NEW s \in Scheduler, DraftEnds(s) \/ DraftTimesOut(s)
  PROVE  ScheduleInv'
<1>a. ScheduleType /\ Locked /\ Apart /\ Counted /\ Handed
  BY DEF ScheduleInv
<1> DEFINE d == scheduler[s].child
<1>0. /\ scheduler[s].pc = "drafting" /\ drafter' = [drafter EXCEPT ![d] = NoDrafter]
      /\ Leaves(s) /\ UNCHANGED <<runs, runDirFile, daily>>
  BY DEF DraftEnds, DraftTimesOut, DraftFailed, SchedulerAt
<1>b. /\ d \in Drafter /\ Drafts(d) /\ drafter[d].report = scheduler[s].dir
      /\ drafter[d].dry = schedule.dry
  BY <1>a, <1>0 DEF Handed, HandedTo
<1>c. scheduler[s].dir \in Report /\ drafter[d].report \in runs
  BY <1>a, <1>b DEF ScheduleType, Apart
<1>1. /\ scheduler' \in [Scheduler -> Execution] /\ lock' \in Scheduler \cup {"free"}
      /\ \A t \in Scheduler : scheduler'[t].pc = "idle"
  <2>1. lock = s
    BY <1>a, <1>0 DEF Locked
  <2>2. scheduler' = [scheduler EXCEPT ![s] = Asleep] /\ lock' = "free"
    BY <1>0 DEF Leaves
  <2>3. \A t \in Scheduler : t # s => scheduler[t].pc = "idle"
    BY <1>a, <2>1 DEF Locked
  <2> QED BY <1>a, <2>2, <2>3, AsleepTyped DEF ScheduleType
<1>2. ASSUME NEW draft \in {"dry_run", "failed", "created"},
             NEW status \in {"failed", "succeeded"}, NEW stage \in {"wechat_draft", "completed"},
             State(status, stage, scheduler[s].dir, draft),
             drafts' \in [Report -> Nat],
             \A r \in Report : drafts'[r] = drafts[r] \/ (drafter[d].report = r /\ drafts'[r] = 1),
             draft = "created" => drafts'[scheduler[s].dir] = 1
      PROVE  ScheduleInv'
  <2>1. schedule' \in Told /\ schedule'.draft = draft /\ schedule'.dir = scheduler[s].dir
    <3>1. schedule \in Told /\ scheduler[s].dir \in Report
      BY <1>a, <1>c DEF ScheduleType
    <3>2. schedule' = [schedule EXCEPT !.status = status, !.stage = stage,
                                       !.dir = scheduler[s].dir, !.draft = draft]
      BY <1>2 DEF State
    <3> HIDE DEF d
    <3> QED BY <3>1, <3>2 DEF Told
  <2> HIDE DEF d
  <2>2. schedule'.draft = "created"
          => schedule'.dir \in Report /\ drafts'[schedule'.dir] = 1
    BY <1>2, <1>c, <2>1
  <2> QED BY <1>0, <1>b, <1>1, <1>2, <2>1, <2>2, DrafterLeaves
<1>3. drafts \in [Report -> Nat]
  BY <1>a DEF ScheduleType
<1>4. CASE DraftEnds(s)
  <2>1. drafter[d].pc = "ended" /\ UNCHANGED drafts
    BY <1>4 DEF DraftEnds, DrafterAt
  <2>2. CASE /\ drafter[d].exit = "done"
             /\ State("succeeded", "completed", scheduler[s].dir,
                      IF schedule.dry THEN "dry_run" ELSE "created")
    <3>1. ~schedule.dry => drafts[scheduler[s].dir] = 1
      BY <1>a, <1>b, <2>1, <2>2 DEF Counted
    <3> QED BY <1>2, <1>3, <2>1, <2>2, <3>1
  <2>3. CASE DraftFailed(s)
    BY <1>2, <1>3, <2>1, <2>3 DEF DraftFailed
  <2> QED BY <1>4, <2>2, <2>3 DEF DraftEnds, Succeeded
<1>5. CASE DraftTimesOut(s)
  <2>1. State("failed", "wechat_draft", scheduler[s].dir, "failed")
    BY <1>5 DEF DraftTimesOut, DraftFailed
  <2>2. CASE UNCHANGED drafts
    BY <1>2, <1>3, <2>1, <2>2
  <2>3. CASE drafter[d].pc = "add" /\ drafts' = [drafts EXCEPT ![drafter[d].report] = @ + 1]
    <3>1. drafts[drafter[d].report] = 0 /\ drafter[d].report \in Report
      BY <1>a, <1>b, <1>c, <2>3 DEF Counted
    <3>2. drafts' = [drafts EXCEPT ![drafter[d].report] = 1]
      BY <2>3, <3>1
    <3>3. /\ drafts' \in [Report -> Nat]
          /\ \A r \in Report : drafts'[r] = drafts[r] \/ (drafter[d].report = r /\ drafts'[r] = 1)
      BY <1>3, <3>1, <3>2
    <3> QED BY <1>2, <2>1, <3>3
  <2> QED BY <1>5, <2>2, <2>3 DEF DraftTimesOut, DrafterAt
<1> QED BY <1>4, <1>5

\* A child that outlived its scheduler has nobody who waits for it.
LEMMA OrphanPreserves ==
  ASSUME ScheduleInv, OrphanEnds
  PROVE  ScheduleInv'
<1>a. ScheduleType /\ Locked /\ Created
  BY DEF ScheduleInv
<1>0. UNCHANGED <<runs, scheduler, lock, runDirFile, schedule, drafts>>
  BY DEF OrphanEnds
<1>1. ASSUME NEW c \in DailyChild, daily' = [daily EXCEPT ![c] = NoDaily], UNCHANGED drafter
      PROVE  ScheduleInv'
  <2>1. daily' \in [DailyChild -> DailyRun]
    BY <1>a, <1>1 DEF ScheduleType, DailyRun, NoDaily
  <2> QED BY <1>0, <1>1, <2>1, ScheduleWaits
<1>2. ASSUME NEW d \in Drafter, \A s \in Scheduler : scheduler[s].child # d,
             drafter' = [drafter EXCEPT ![d] = NoDrafter], UNCHANGED daily
      PROVE  ScheduleInv'
  <2>1. /\ drafts' \in [Report -> Nat] /\ scheduler' \in [Scheduler -> Execution]
        /\ lock' \in Scheduler \cup {"free"} /\ schedule' \in Told
    BY <1>a, <1>0 DEF ScheduleType
  <2>2. \A s \in Scheduler : scheduler'[s].pc # "idle" => lock' = s
    BY <1>a, <1>0 DEF Locked
  <2>3. schedule'.draft = "created" => schedule'.dir \in Report /\ drafts'[schedule'.dir] = 1
    BY <1>a, <1>0 DEF Created
  <2> QED BY <1>0, <1>2, <2>1, <2>2, <2>3, DrafterLeaves
<1> QED BY <1>1, <1>2 DEF OrphanEnds

\* Every step of the schedule, of its children and of launchd.
LEMMA SchedulePreserved == ScheduleInv /\ [ScheduleNext]_allScheduleVars => ScheduleInv'
<1> SUFFICES ASSUME ScheduleInv, [ScheduleNext]_allScheduleVars PROVE ScheduleInv'
  OBVIOUS
<1>a. daily \in [DailyChild -> DailyRun]
  BY DEF ScheduleInv, ScheduleType
<1>0. CASE UNCHANGED allScheduleVars
  BY <1>a, <1>0, ScheduleWaits DEF allScheduleVars, scheduleVars, draftVars
<1>1. CASE InstallSchedule \/ UninstallSchedule
  BY <1>a, <1>1, ScheduleWaits DEF InstallSchedule, UninstallSchedule, draftVars
<1>2. CASE OrphanEnds
  BY <1>2, OrphanPreserves
<1>3. ASSUME NEW s \in Scheduler,
             \/ ExecuteSchedule(s) \/ EmptyRunDir(s) \/ StartDaily(s) \/ DailyEnds(s)
             \/ DailyTimesOut(s) \/ SchedulerDies(s)
      PROVE  ScheduleInv'
  BY <1>3, ExecutionPreserves
<1>4. ASSUME NEW s \in Scheduler, StartDraft(s) PROVE ScheduleInv'
  BY <1>4, StartDraftPreserves
<1>5. ASSUME NEW s \in Scheduler, DraftEnds(s) \/ DraftTimesOut(s) PROVE ScheduleInv'
  BY <1>5, DraftEndPreserves
<1>6. ASSUME NEW c \in DailyChild, DailyTellsRun(c) \/ DailyExits(c) PROVE ScheduleInv'
  BY <1>6, DailyPreserves
<1>7. ASSUME NEW d \in Drafter, DraftStep(d), UNCHANGED scheduleVars PROVE ScheduleInv'
  BY <1>7, DraftStepPreserves
<1>8. ASSUME NEW r \in Report, TokenRunsOut(r), UNCHANGED scheduleVars PROVE ScheduleInv'
  BY <1>a, <1>8, ScheduleWaits DEF TokenRunsOut, scheduleVars
<1> QED BY <1>0, <1>1, <1>2, <1>3, <1>4, <1>5, <1>6, <1>7, <1>8 DEF ScheduleNext

-----------------------------------------------------------------------------
(* The commands together.                                                  *)

\* NoResendUnasked, for any number of reports and processes.
THEOREM CommandNoResend == CommandSpec => NoResendUnasked
<1>1. CommandInit => MailInv
  BY MailInitial DEF CommandInit
<1>2. [CommandNext]_commandVars => [MailNext]_mailVars
  BY DEF CommandNext, commandVars
<1>3. MailInv /\ [MailNext]_mailVars
        => [\A s \in Sender :
              At(s, "guard") /\ sender'[s].pc = "connect" /\ ~sender[s].resend
                => BoxOf(s).mails = 0]_mailVars
  BY GuardHolds
<1> QED BY <1>1, <1>2, <1>3, MailPreserved, PTL DEF CommandSpec, NoResendUnasked

\* PublishedIsPushed, for any reports and any commits of others.
THEOREM CommandPublished == CommandSpec => []PublishedIsPushed
<1>1. CommandInit => ArchiveInv
  BY ArchiveInitial DEF CommandInit
<1>2. [CommandNext]_commandVars => [ArchiveNext]_archiveVars
  BY DEF CommandNext, commandVars
<1>3. ArchiveInv => PublishedIsPushed
  BY DEF ArchiveInv
<1> QED BY <1>1, <1>2, <1>3, ArchivePreserved, PTL DEF CommandSpec

\* DraftedOnce, for any number of executions, daily runs, commands and reports.
THEOREM CommandDraftedOnce == CommandSpec => []DraftedOnce
<1>1. CommandInit => ScheduleInv
  BY ScheduleInitial DEF CommandInit
<1>2. [CommandNext]_commandVars => [ScheduleNext]_allScheduleVars
  BY DEF CommandNext, commandVars, allScheduleVars
<1>3. ScheduleInv => DraftedOnce
  BY DEF ScheduleInv, Counted, Created, DraftedOnce
<1> QED BY <1>1, <1>2, <1>3, SchedulePreserved, PTL DEF CommandSpec
=============================================================================
