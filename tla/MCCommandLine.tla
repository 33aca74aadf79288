---------------------------- MODULE MCCommandLine ----------------------------
(***************************************************************************)
(* Two processes that mail, one that works on the checkout, and two        *)
(* executions of the schedule with two children of each kind, over two run *)
(* directories.                                                            *)
(***************************************************************************)
EXTENDS CommandLine, TLC

\* Mail, archive and schedule write different files of a run directory and
\* read none of each other's, so each behaviour follows one of them.
MailMoves == \E s \in Sender, r \in Report : sender'[s] # NoSender \/ mailbox'[r] # NoMail
ArchiveMoves ==
  \/ archiver' # NoArchiver \/ remote' # {} \/ checkout'.head # {} \/ checkout'.half
  \/ checkout'.files # {} \/ \E r \in Report : archived'[r] # "none"
ScheduleMoves ==
  \/ agent' # [plist |-> FALSE, loaded |-> FALSE] \/ schedule'.status # "never_run"
  \/ lock' # "free"
OneKind ==
  /\ MailMoves => ~ArchiveMoves /\ ~ScheduleMoves
  /\ ArchiveMoves => ~ScheduleMoves

Alike == Permutations(Report) \union Permutations(Sender)
           \union Permutations(Drafter) \union Permutations(DailyChild)
=============================================================================
