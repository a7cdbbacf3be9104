-------------------------- MODULE AddressWhitelist --------------------------
(***************************************************************************)
(* What the whitelist of a firewall alias promises, without handlers,      *)
(* jobs, statuses or failures: an entry is admitted once, beside no other  *)
(* active one of its owner for its address, and ends for good; the         *)
(* router's alias takes in addresses of admitted entries only, and the     *)
(* firewall applies it as it is, and only when it holds no others.         *)
(***************************************************************************)
CONSTANTS
    Entries,  \* entries of the whitelist
    Owner,    \* who each entry belongs to
    Ip,       \* the address each entry is about
    Foreign   \* the addresses the alias begins with

VARIABLES
    stage,    \* of each entry: "new", "active" or "ended"
    alias,    \* the addresses in the router's alias
    applied   \* those the firewall lets in

vars == <<stage, alias, applied>>

Init ==
    /\ stage = [e \in Entries |-> "new"]
    /\ alias = Foreign
    /\ applied = Foreign

Rivals(e) == {f \in Entries : Ip[f] = Ip[e] /\ Owner[f] = Owner[e]}

Admit(e) ==
    /\ stage[e] = "new"
    /\ \A f \in Rivals(e) : stage[f] # "active"
    /\ stage' = [stage EXCEPT ![e] = "active"]
    /\ UNCHANGED <<alias, applied>>

\* One entry is removed, those that expired are, or those of an address are
\* blacklisted.
End(ending) ==
    /\ \A e \in ending : stage[e] # "new"
    /\ stage' = [e \in Entries |-> IF e \in ending THEN "ended" ELSE stage[e]]
    /\ UNCHANGED <<alias, applied>>

Admitted == {Ip[e] : e \in {f \in Entries : stage[f] # "new"}}

Configure ==
    /\ alias' \subseteq alias \cup Admitted
    /\ UNCHANGED <<stage, applied>>

Apply ==
    /\ alias \subseteq Admitted
    /\ applied' = alias
    /\ UNCHANGED <<stage, alias>>

Next ==
    \/ \E e \in Entries : Admit(e)
    \/ \E ending \in SUBSET Entries : End(ending)
    \/ Configure
    \/ Apply

Spec == Init /\ [][Next]_vars
=============================================================================
