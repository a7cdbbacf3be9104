---------------------- MODULE MC_CertificateLifecycle -----------------------
(* Small instances of CertificateLifecycle.                                *)
EXTENDS CertificateLifecycle, TLC

CONSTANTS alice, bob, r1, r2

\* alice posts both requests: the two can collide on a name.
OwnerAlice == [r \in Requests |-> alice]

\* Each user posts one request.
OwnerEach == [r \in Requests |-> IF r = r1 THEN alice ELSE bob]
=============================================================================
