----------------------------- MODULE MC_Sessions -----------------------------
(***************************************************************************)
(* Small instances of Sessions for TLC.                                    *)
(***************************************************************************)
EXTENDS Sessions, TLC

CONSTANTS alice

\* Both browsers are alice's.
UserOfAlice == [b \in Browsers |-> alice]
=============================================================================
