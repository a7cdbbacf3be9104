------------------------- MODULE MC_ServiceAccounts -------------------------
(***************************************************************************)
(* Small instances of ServiceAccounts for TLC.                             *)
(***************************************************************************)
EXTENDS ServiceAccounts, TLC

CONSTANTS alice, bob, read, write, q, r

\* Users, scopes and requests are interchangeable.
Interchangeable ==
    Permutations({alice, bob}) \cup Permutations({read, write})
        \cup Permutations({q, r})
=============================================================================
