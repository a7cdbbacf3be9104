------------------------- MODULE CertificateIssuance ------------------------
(***************************************************************************)
(* What the certificate feature promises, without handlers, jobs, statuses *)
(* or failures: a request is granted, certificates are made for granted    *)
(* requests only, a certificate once made stays with its request, and what *)
(* is published on a request is a certificate of the same owner.           *)
(***************************************************************************)
CONSTANTS
    Requests,  \* certificate requests
    Names,     \* names of certificates
    Owner,     \* who posted each request
    None       \* no request, no name

VARIABLES
    granted,   \* requests that somebody entitled to it has approved
    made,      \* the request each certificate was made for
    published  \* the certificate last published on each request

vars == <<granted, made, published>>

Init ==
    /\ granted = {}
    /\ made = [n \in Names |-> None]
    /\ published = [r \in Requests |-> None]

Grant(r) ==
    /\ granted' = granted \cup {r}
    /\ UNCHANGED <<made, published>>

Make(r, n) ==
    /\ r \in granted
    /\ made[n] = None
    /\ made' = [made EXCEPT ![n] = r]
    /\ UNCHANGED <<granted, published>>

Publish(r, n) ==
    /\ made[n] # None
    /\ Owner[made[n]] = Owner[r]
    /\ published' = [published EXCEPT ![r] = n]
    /\ UNCHANGED <<granted, made>>

Next ==
    \E r \in Requests :
        \/ Grant(r)
        \/ \E n \in Names : Make(r, n) \/ Publish(r, n)

Spec == Init /\ [][Next]_vars
=============================================================================
