-------------------------- MODULE OneTimeDelivery ---------------------------
(***************************************************************************)
(* What the download of a private key promises, without replicas, caches,  *)
(* calls or failures: a token is granted once, for a certificate to a      *)
(* principal entitled to it; it lets one request through, if any; and that *)
(* request delivers the key once, if at all, after it was logged.          *)
(***************************************************************************)
CONSTANTS
    Tokens,    \* one-time tokens
    Requests,  \* requests that present a token
    Grants,    \* [cert, by]: the certificates that principals are entitled to
    None       \* no grant

VARIABLES
    granted,   \* what each token was granted for
    live,      \* tokens that may still be redeemed
    held,      \* <<request, token>>: requests let through, not yet answered
    log,       \* the deliveries that were logged, some without taking place
    delivered  \* <<request, token>>: requests answered with a key

vars == <<granted, live, held, log, delivered>>

Init ==
    /\ granted = [t \in Tokens |-> None]
    /\ live = {}
    /\ held = {}
    /\ log = {}
    /\ delivered = {}

\* The row of the log about a request that was let through by a token.
Entry(d, t) == [download |-> d, cert |-> granted[t].cert, by |-> granted[t].by]

Grant(t, grant) ==
    /\ granted[t] = None
    /\ granted' = [granted EXCEPT ![t] = grant]
    /\ live' = live \cup {t}
    /\ UNCHANGED <<held, log, delivered>>

LetThrough(d, t) ==
    /\ t \in live
    /\ live' = live \ {t}
    /\ held' = held \cup {<<d, t>>}
    /\ UNCHANGED <<granted, log, delivered>>

\* Tokens expire or are redeemed by others than they were granted to, and
\* requests fail.  Neither comes back.
Lose ==
    /\ live' \subseteq live
    /\ held' \subseteq held
    /\ UNCHANGED <<granted, log, delivered>>

\* A request may fail although it was logged.
Log(d, t) ==
    /\ <<d, t>> \in held
    /\ log' = log \cup {Entry(d, t)}
    /\ held' \in {held, held \ {<<d, t>>}}
    /\ UNCHANGED <<granted, live, delivered>>

Deliver(d, t) ==
    /\ <<d, t>> \in held
    /\ Entry(d, t) \in log
    /\ held' = held \ {<<d, t>>}
    /\ delivered' = delivered \cup {<<d, t>>}
    /\ UNCHANGED <<granted, live, log>>

Next ==
    \/ \E t \in Tokens, grant \in Grants : Grant(t, grant)
    \/ \E d \in Requests, t \in Tokens :
          LetThrough(d, t) \/ Log(d, t) \/ Deliver(d, t)
    \/ Lose

Spec == Init /\ [][Next]_vars
=============================================================================
