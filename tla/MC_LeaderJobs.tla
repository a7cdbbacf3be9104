--------------------------- MODULE MC_LeaderJobs ----------------------------
(***************************************************************************)
(* Small instances of LeaderJobs, and so of LeaderElection, for TLC.       *)
(***************************************************************************)
EXTENDS LeaderJobs
=============================================================================
