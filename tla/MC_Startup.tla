----------------------------- MODULE MC_Startup -----------------------------
(* A small instance of Startup for TLC.                                    *)
EXTENDS Startup

CONSTANTS k1, k2, rsa, ec, u1, u2, u3

\* A first configuration, and others that differ from it in one respect.  With
\* three URLs, a start can be overtaken between its two statements.
OneChange ==
    {[key |-> k1, algorithm |-> rsa, url |-> u1],
     [key |-> k2, algorithm |-> rsa, url |-> u1],
     [key |-> k1, algorithm |-> ec, url |-> u1],
     [key |-> k1, algorithm |-> rsa, url |-> u2],
     [key |-> k1, algorithm |-> rsa, url |-> u3]}
=============================================================================
