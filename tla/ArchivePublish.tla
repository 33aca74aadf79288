---------------------------- MODULE ArchivePublish ---------------------------
(***************************************************************************)
(* Publishing a report to the static archive (publishers/archive/git.py,   *)
(* compose/archive.py): a checkout is compared with its remote, the report *)
(* is exported, committed and pushed.  Commits are named by the report     *)
(* they add; those of other machines only make the checkout fall behind.   *)
(* One command at a time works on a checkout; it may die at any step, and  *)
(* the operator reconciles what it leaves.                                 *)
(***************************************************************************)
EXTENDS RunDirectory

CONSTANT
  Foreign    \* commits other machines push

VARIABLES
  archiver,  \* the command that is running
  checkout,  \* [head, tracking, files, staged, half]: commits and reports
  remote,    \* commits of the remote branch
  archived   \* report -> the status in archive_publish_result.json

archiveVars == <<archiver, checkout, remote, archived>>

NoArchiver == [pc |-> "idle", report |-> "", dry |-> FALSE]

\* files and staged are the reports in the working tree and in the index, and
\* half tells that an export was cut short.
ArchiveInit ==
  /\ archiver = NoArchiver
  /\ checkout = [head |-> {}, tracking |-> {}, files |-> {}, staged |-> {}, half |-> FALSE]
  /\ remote = {}
  /\ archived = [r \in Report |-> "none"]

Reports(commits) == commits \cap Report

Clean == /\ ~checkout.half
         /\ checkout.files = Reports(checkout.head)
         /\ checkout.staged = Reports(checkout.head)

ArchiverAt(pc)   == archiver.pc = pc
ArchiverGoes(pc) == archiver' = [archiver EXCEPT !.pc = pc]
Reported(result) ==
  /\ archiver' = NoArchiver
  /\ archived' = [archived EXCEPT ![archiver.report] = result]
\* The error file is written beside the last result, which stays.
Fails == archiver' = NoArchiver /\ UNCHANGED archived

StartArchive(report, dry) ==
  /\ ArchiverAt("idle")
  /\ archiver' = [pc |-> "ready", report |-> report, dry |-> dry]
  /\ UNCHANGED <<checkout, remote, archived>>

\* Paths, branch and working tree.
CheckReady ==
  /\ ArchiverAt("ready")
  /\ \/ Clean /\ ArchiverGoes("fetch") /\ UNCHANGED archived
     \/ Fails
  /\ UNCHANGED <<checkout, remote>>

Fetch ==
  /\ ArchiverAt("fetch")
  /\ \/ /\ checkout' = [checkout EXCEPT !.tracking = remote]
        /\ ArchiverGoes("sync")
        /\ UNCHANGED archived
     \/ Fails /\ (UNCHANGED checkout \/ checkout' = [checkout EXCEPT !.tracking = remote])
  /\ UNCHANGED remote

\* Mutant: only a checkout that has diverged is refused.
AheadAndBehind == checkout.head \ checkout.tracking # {} /\ checkout.tracking \ checkout.head # {}

\* Unpushed commits are left to the operator.
Ahead  == checkout.head \ checkout.tracking # {}
Behind == checkout.tracking \ checkout.head # {}

SyncRemote ==
  /\ ArchiverAt("sync")
  /\ \/ /\ ~Ahead /\ (Behind => ~archiver.dry)
        /\ checkout' = IF Behind
                       THEN [checkout EXCEPT !.head = @ \union checkout.tracking,
                                             !.files = @ \union Reports(checkout.tracking),
                                             !.staged = @ \union Reports(checkout.tracking)]
                       ELSE checkout
        /\ ArchiverGoes("preflight")
        /\ UNCHANGED archived
     \/ Fails /\ UNCHANGED checkout
  /\ UNCHANGED remote

\* The export is tried and checked in a temporary directory.  A dry run ends
\* there.
Preflight ==
  /\ ArchiverAt("preflight")
  /\ \/ Fails
     \/ archiver.dry /\ Reported("dry_run")
     \/ ~archiver.dry /\ ArchiverGoes("export") /\ UNCHANGED archived
  /\ UNCHANGED <<checkout, remote>>

\* A report that is already there is written again with the same content.
Export ==
  /\ ArchiverAt("export")
  /\ \/ /\ checkout' = [checkout EXCEPT !.files = @ \union {archiver.report}]
        /\ ArchiverGoes("stage")
        /\ UNCHANGED archived
     \/ checkout' = [checkout EXCEPT !.half = TRUE] /\ Fails
  /\ UNCHANGED remote

\* The archive is checked once more and added to the index; nothing to commit
\* means that the remote has the report.
Stage ==
  /\ ArchiverAt("stage")
  /\ \/ /\ checkout' = [checkout EXCEPT !.staged = checkout.files]
        /\ IF checkout.files = Reports(checkout.head)
           THEN Reported("unchanged")
           ELSE ArchiverGoes("commit") /\ UNCHANGED archived
     \/ Fails /\ (UNCHANGED checkout \/ checkout' = [checkout EXCEPT !.staged = checkout.files])
  /\ UNCHANGED remote

\* A command that times out may have done its work.
Commit ==
  /\ ArchiverAt("commit")
  /\ \/ /\ checkout' = [checkout EXCEPT !.head = @ \union checkout.staged]
        /\ (ArchiverGoes("push") /\ UNCHANGED archived) \/ Fails
     \/ Fails /\ UNCHANGED checkout
  /\ UNCHANGED remote

\* A push is rejected when the remote has moved; it may also arrive and be
\* reported as failed.
Push ==
  /\ ArchiverAt("push")
  /\ \/ /\ remote \subseteq checkout.head
        /\ remote' = checkout.head
        /\ \/ /\ checkout' = [checkout EXCEPT !.tracking = checkout.head]
              /\ ArchiverGoes("report")
              /\ UNCHANGED archived
           \/ Fails /\ UNCHANGED checkout
     \/ Fails /\ UNCHANGED <<checkout, remote>>

WriteArchiveResult ==
  /\ ArchiverAt("report")
  /\ Reported("published") \/ Fails
  /\ UNCHANGED <<checkout, remote>>

ArchiverDies ==
  /\ ~ArchiverAt("idle")
  /\ archiver' = NoArchiver
  /\ checkout' = IF ArchiverAt("export") THEN [checkout EXCEPT !.half = TRUE] ELSE checkout
  /\ UNCHANGED <<remote, archived>>

OtherPush(commit) ==
  /\ remote' = remote \union {commit}
  /\ UNCHANGED <<archiver, checkout, archived>>

\* The operator drops what was left in the checkout, or rebases it on the
\* remote and pushes.
Reconcile ==
  /\ ArchiverAt("idle")
  /\ \/ /\ checkout' = [checkout EXCEPT !.head = remote, !.tracking = remote, !.half = FALSE,
                                        !.files = Reports(remote), !.staged = Reports(remote)]
        /\ UNCHANGED remote
     \/ LET all == remote \union checkout.head
        IN /\ remote' = all
           /\ checkout' = [checkout EXCEPT !.head = all, !.tracking = all, !.half = FALSE,
                                           !.files = Reports(all), !.staged = Reports(all)]
  /\ UNCHANGED <<archiver, archived>>

ArchiveNext ==
  \/ \E r \in Report, dry \in BOOLEAN : StartArchive(r, dry)
  \/ CheckReady \/ Fetch \/ SyncRemote \/ Preflight \/ Export \/ Stage \/ Commit \/ Push
  \/ WriteArchiveResult \/ ArchiverDies \/ Reconcile
  \/ \E c \in Foreign : OtherPush(c)

(***************************************************************************)
(* Properties.                                                             *)
(***************************************************************************)
\* A report whose directory says that it was published, or that there was
\* nothing to publish, is in the remote branch, whatever pushes failed and
\* whatever the operator dropped before (_sync_remote, _publish_archive_git).
PublishedIsPushed ==
  \A r \in Report : archived[r] \in {"published", "unchanged"} => r \in remote
=============================================================================
