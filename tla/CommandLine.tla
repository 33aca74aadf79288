----------------------------- MODULE CommandLine -----------------------------
(***************************************************************************)
(* The commands that publish and the schedule, side by side on the         *)
(* directories of one root (cli.py).                                       *)
(***************************************************************************)
EXTENDS EmailDelivery, ArchivePublish, LocalSchedule

CommandInit == MailInit /\ ArchiveInit /\ DraftInit /\ ScheduleInit

commandVars == <<mailVars, archiveVars, allScheduleVars>>

CommandNext ==
  \/ MailNext /\ UNCHANGED <<archiveVars, allScheduleVars>>
  \/ ArchiveNext /\ UNCHANGED <<mailVars, allScheduleVars>>
  \/ ScheduleNext /\ UNCHANGED <<mailVars, archiveVars>>

CommandSpec == CommandInit /\ [][CommandNext]_commandVars
=============================================================================
