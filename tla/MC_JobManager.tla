--------------------------- MODULE MC_JobManager ----------------------------
(***************************************************************************)
(* Small instances of JobManager for TLC.                                  *)
(***************************************************************************)
EXTENDS JobManager

CONSTANTS sync, expire
=============================================================================
