----------------------------- MODULE RunDirectory ----------------------------
(***************************************************************************)
(* The directories of finished runs, which the commands that publish share *)
(* (cli.py, publishers/, scheduler/local.py).                              *)
(***************************************************************************)
EXTENDS Naturals

CONSTANT Report   \* run directories, by their names

ASSUME ReportAssumption == "" \notin Report
=============================================================================
