------------------------ MODULE MC_FirewallWhitelist ------------------------
(***************************************************************************)
(* Small instances of FirewallWhitelist for TLC.                           *)
(***************************************************************************)
EXTENDS FirewallWhitelist, TLC

CONSTANTS alice, bob, e1, e2, home, cafe, stray

\* alice asks twice for one address.
OwnerTwice == e1 :> alice @@ e2 :> alice
IpTwice == e1 :> home @@ e2 :> home

\* alice asks for two addresses.
OwnerAlice == e1 :> alice @@ e2 :> alice
IpEach == e1 :> home @@ e2 :> cafe

\* Two incarnations and a failure of any kind, or one with two, of which one
\* may move the system user.
OneOrTwo ==
    {[instances |-> {1, 2}, faults |-> FaultKinds \ {"url"}, maxFaults |-> 1,
      signers |-> {FirstUrl}],
     [instances |-> {1}, faults |-> FaultKinds, maxFaults |-> 2,
      signers |-> {}]}

\* One incarnation that nothing befalls.
Single ==
    {[instances |-> {1}, faults |-> {}, maxFaults |-> 0, signers |-> {}]}
=============================================================================
