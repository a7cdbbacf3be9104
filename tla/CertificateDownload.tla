------------------------ MODULE CertificateDownload ------------------------
(***************************************************************************)
(* The two-step download of a certificate and its private key: unlocking   *)
(* stores a one-time token in the key-value cache, downloading redeems it. *)
(* The cache is the memory of each replica or one Redis.  One action per   *)
(* cache, database or provider call.  Time is counted in ticks.            *)
(***************************************************************************)
EXTENDS Naturals

CONSTANTS
    Tokens,      \* unlock requests that get as far as a token
    Downloads,   \* download requests
    Certs,       \* rows of certificate_requests
    Principals,  \* users and service accounts
    Owner,       \* the owner of each row
    Downloaders, \* principals holding mtls:download
    Admins,      \* principals holding mtls:download_all
    Instances,   \* replicas
    Redis,       \* the key-value store that the replicas share
    Lifetime,    \* downloadTokenLifetime, in ticks
    Faults,      \* the calls that may fail, named below
    MaxFaults,   \* bound on the number of failures
    None         \* no token

(***************************************************************************)
(* A call whose answer is lost ("...Lost") took effect although the caller *)
(* saw an error; for the audit log that is the re-read of the new row.     *)
(***************************************************************************)
FaultKinds == {"setKey", "getDel", "getDelLost", "row", "data", "audit",
               "auditLost", "p12", "crash"}

ASSUME DownloadAssumption ==
    /\ Owner \in [Certs -> Principals]
    /\ Downloaders \subseteq Principals
    /\ Admins \subseteq Principals
    /\ Redis \notin Instances
    /\ Lifetime \in Nat
    /\ Faults \subseteq FaultKinds
    /\ MaxFaults \in Nat
    /\ None \notin Tokens
    /\ None \notin [cert : Certs, by : Principals]

VARIABLES
    backend,  \* Config.Cache.Type
    scoped,   \* principals whose scopes have not been withdrawn
    row,      \* status and provider data of each certificate request
    value,    \* the DownloadToken stored under each token's key, or None
    kv,       \* the keys present in each store
    left,     \* ticks until each key expires
    dl,       \* each download request
    audit,    \* table certificate_downloads
    faults    \* failures so far

cache == <<value, kv, left>>
config == <<backend, scoped>>
vars == <<config, row, cache, dl, audit, faults>>

Stores == Instances \cup {Redis}

\* Where a replica keeps its keys.
Store(i) == IF backend = "memory" THEN i ELSE Redis

IdleDownload == [pc |-> "idle", token |-> None, cert |-> None, by |-> None,
                 at |-> None, may |-> FALSE]

Init ==
    /\ backend \in {"memory", "redis"}
    /\ scoped = Principals
    /\ row = [c \in Certs |-> "pending"]
    /\ value = [t \in Tokens |-> None]
    /\ kv = [s \in Stores |-> {}]
    /\ left = [t \in Tokens |-> 0]
    /\ dl = [d \in Downloads |-> IdleDownload]
    /\ audit = {}
    /\ faults = 0

Fault(kind) ==
    /\ kind \in Faults
    /\ faults < MaxFaults
    /\ faults' = faults + 1

Entitled(p, c) == (p = Owner[c] /\ p \in Downloaders) \/ p \in Admins

MayDownload(p, c) == p \in scoped /\ Entitled(p, c)

-----------------------------------------------------------------------------
(* The key-value cache.                                                    *)

SetKey(i, t) ==
    /\ kv' = [kv EXCEPT ![Store(i)] = @ \cup {t}]
    /\ left' = [left EXCEPT ![t] = Lifetime]

\* GetDelKey finds a key that exists and has not expired, and deletes it in
\* either case.
Finds(i, t) == t \in kv[Store(i)] /\ left[t] > 0

\* A faulty GetDelKey: it only reads.
OnlyGetKey(i, t) == UNCHANGED kv

DelKey(i, t) == kv' = [kv EXCEPT ![Store(i)] = @ \ {t}]

\* A faulty timer: it deletes a key that has not expired yet.
TimerInverted(s, t) ==
    /\ t \in kv[s]
    /\ left[t] > 0
    /\ kv' = [kv EXCEPT ![s] = @ \ {t}]
    /\ UNCHANGED <<config, row, value, left, dl, audit, faults>>

\* The timer of SetKey deletes the key some time after it has expired.
Timer(s, t) ==
    /\ t \in kv[s]
    /\ left[t] = 0
    /\ kv' = [kv EXCEPT ![s] = @ \ {t}]
    /\ UNCHANGED <<config, row, value, left, dl, audit, faults>>

-----------------------------------------------------------------------------
(* POST /api/v1/certificates/{id}/unlock.                                  *)

\* The token is tied to the certificate and to the principal that asked,
\* whether or not the certificate has been issued.
Unlock(i, t, c, p) ==
    /\ value[t] = None
    /\ MayDownload(p, c)
    /\ \/ /\ value' = [value EXCEPT ![t] = [cert |-> c, by |-> p]]
          /\ SetKey(i, t)
          /\ UNCHANGED faults
       \/ /\ Fault("setKey")
          /\ UNCHANGED cache
    /\ UNCHANGED <<config, row, dl, audit>>

-----------------------------------------------------------------------------
(* GET /api/v1/certificates/{id}/download?token=...                        *)

Goes(d, pc) == dl' = [dl EXCEPT ![d].pc = pc]

\* A faulty comparison: whoever has the token may use it.
MatchesAnybody(t, c, p) == value[t].cert = c

\* The token names the principal and the certificate of the request.
Matches(t, c, p) == value[t] = [cert |-> c, by |-> p]

\* The middleware authenticates the principal: the scopes the handler goes by
\* are those of this moment.
Authenticate(d, i, t, c, p) ==
    /\ dl[d] = IdleDownload
    /\ value[t] # None
    /\ dl' = [dl EXCEPT ![d] = [pc |-> "token", token |-> t, cert |-> c,
                               by |-> p, at |-> i, may |-> MayDownload(p, c)]]
    /\ UNCHANGED <<config, row, cache, audit, faults>>

\* GetDelKey consumes the token before anything is compared.
Redeem(d) ==
    LET i == dl[d].at
        t == dl[d].token
    IN
    /\ dl[d].pc = "token"
    /\ \/ /\ Finds(i, t)
          /\ DelKey(i, t)
          /\ Goes(d, IF Matches(t, dl[d].cert, dl[d].by) THEN "row" ELSE "failed")
          /\ UNCHANGED faults
       \/ /\ ~Finds(i, t)
          /\ DelKey(i, t)
          /\ Goes(d, "failed")
          /\ UNCHANGED faults
       \/ /\ Fault("getDel")
          /\ Goes(d, "failed")
          /\ UNCHANGED kv
       \/ /\ Fault("getDelLost")
          /\ DelKey(i, t)
          /\ Goes(d, "failed")
    /\ UNCHANGED <<config, row, value, left, audit>>

\* A faulty download: it relies on the token for the scope.
LoadRowUnchecked(d) ==
    /\ dl[d].pc = "row"
    /\ Goes(d, IF row[dl[d].cert] = "issued" THEN "data" ELSE "failed")
    /\ UNCHANGED <<config, row, cache, audit, faults>>

\* GetCertificateRequestByID, and the checks on the row.
LoadRow(d) ==
    /\ dl[d].pc = "row"
    /\ \/ /\ row[dl[d].cert] = "issued"
          /\ dl[d].may
          /\ Goes(d, "data")
          /\ UNCHANGED faults
       \/ /\ \/ row[dl[d].cert] # "issued"
             \/ ~dl[d].may
          /\ Goes(d, "failed")
          /\ UNCHANGED faults
       \/ /\ Fault("row")
          /\ Goes(d, "failed")
    /\ UNCHANGED <<config, row, cache, audit>>

\* GetCertificateData: certificate, key and chain.
LoadData(d) ==
    /\ dl[d].pc = "data"
    /\ \/ Goes(d, "audit") /\ UNCHANGED faults
       \/ Goes(d, "failed") /\ Fault("data")
    /\ UNCHANGED <<config, row, cache, audit>>

Logged(d) == [download |-> d, cert |-> dl[d].cert, by |-> dl[d].by]

\* A faulty audit: its error is logged and the download goes on.
AuditAndGoOn(d) ==
    /\ dl[d].pc = "audit"
    /\ Goes(d, "deliver")
    /\ \/ audit' = audit \cup {Logged(d)} /\ UNCHANGED faults
       \/ UNCHANGED audit /\ Fault("audit")
    /\ UNCHANGED <<config, row, cache>>

\* InsertAuditLogCertificateDownload inserts a row and reads it back.
Audit(d) ==
    /\ dl[d].pc = "audit"
    /\ \/ /\ audit' = audit \cup {Logged(d)}
          /\ Goes(d, "deliver")
          /\ UNCHANGED faults
       \/ /\ Fault("audit")
          /\ Goes(d, "failed")
          /\ UNCHANGED audit
       \/ /\ Fault("auditLost")
          /\ audit' = audit \cup {Logged(d)}
          /\ Goes(d, "failed")
    /\ UNCHANGED <<config, row, cache>>

\* GenerateP12, and the response.
Deliver(d) ==
    /\ dl[d].pc = "deliver"
    /\ \/ Goes(d, "delivered") /\ UNCHANGED faults
       \/ Goes(d, "failed") /\ Fault("p12")
    /\ UNCHANGED <<config, row, cache, audit>>

-----------------------------------------------------------------------------
(* The environment.                                                        *)

\* The certificate jobs change a row, in the end to issued; an overlapping
\* creation job can take it back.
RowChanges(c) ==
    /\ row' = [row EXCEPT ![c] = IF @ = "issued" THEN "pending" ELSE "issued"]
    /\ UNCHANGED <<config, cache, dl, audit, faults>>

\* A principal loses its groups, and logs in again.
ScopesWithdrawn(p) ==
    /\ p \in scoped
    /\ scoped' = scoped \ {p}
    /\ UNCHANGED <<backend, row, cache, dl, audit, faults>>

\* Requests that have redeemed a token, and all that have begun.
Crossing == {"row", "data", "audit", "deliver"}

InFlight == {"token"} \cup Crossing

\* A replica dies with its requests in flight, and with its memory.
Crash(i) ==
    /\ Fault("crash")
    /\ dl' = [d \in Downloads |-> IF dl[d].at = i /\ dl[d].pc \in InFlight
                                  THEN [dl[d] EXCEPT !.pc = "failed"]
                                  ELSE dl[d]]
    /\ kv' = [kv EXCEPT ![i] = {}]
    /\ UNCHANGED <<config, row, value, left, audit>>

\* Time passes.  Redis does not find a key that has expired.
Tick ==
    /\ \E t \in Tokens : left[t] > 0
    /\ left' = [t \in Tokens |-> IF left[t] = 0 THEN 0 ELSE left[t] - 1]
    /\ kv' = [kv EXCEPT ![Redis] = {t \in @ : left[t] > 1}]
    /\ UNCHANGED <<config, row, value, dl, audit, faults>>

Handler(d) == Redeem(d) \/ LoadRow(d) \/ LoadData(d) \/ Audit(d) \/ Deliver(d)

Next ==
    \/ \E i \in Instances, t \in Tokens, c \in Certs, p \in Principals :
          \/ Unlock(i, t, c, p)
          \/ \E d \in Downloads : Authenticate(d, i, t, c, p)
    \/ \E d \in Downloads : Handler(d)
    \/ \E s \in Stores, t \in Tokens : Timer(s, t)
    \/ \E c \in Certs : RowChanges(c)
    \/ \E p \in Principals : ScopesWithdrawn(p)
    \/ \E i \in Instances : Crash(i)
    \/ Tick

Spec == Init /\ [][Next]_vars

\* Time passes, timers fire, and a handler that has started runs to its end.
Fairness ==
    /\ WF_vars(Tick)
    /\ \A s \in Stores, t \in Tokens : WF_vars(Timer(s, t))
    /\ \A d \in Downloads : WF_vars(Handler(d))

FairSpec == Spec /\ Fairness

-----------------------------------------------------------------------------
(* Properties.                                                             *)

Value == [cert : Certs, by : Principals]

Request == [pc : {"idle", "failed", "delivered"} \cup InFlight,
            token : Tokens \cup {None}, cert : Certs \cup {None},
            by : Principals \cup {None}, at : Instances \cup {None},
            may : BOOLEAN]

\* Every variable has its type.
TypeOK ==
    /\ backend \in {"memory", "redis"}
    /\ scoped \subseteq Principals
    /\ row \in [Certs -> {"pending", "issued"}]
    /\ value \in [Tokens -> Value \cup {None}]
    /\ kv \in [Stores -> SUBSET Tokens]
    /\ left \in [Tokens -> 0 .. Lifetime]
    /\ dl \in [Downloads -> Request]
    /\ audit \subseteq [download : Downloads, cert : Certs, by : Principals]
    /\ faults \in 0 .. MaxFaults

\* The requests that hold a private key, or will unless something fails.
Holds(d) == dl[d].pc \in Crossing \cup {"delivered"}

\* "A one-time download token": it never lets two requests through, however
\* many replicas are asked at once, whichever cache is configured, and
\* whatever fails after it was redeemed.
OneTimeToken ==
    \A d, e \in Downloads :
        Holds(d) /\ Holds(e) /\ dl[d].token = dl[e].token => d = e

\* A private key that leaves the server is in the audit log, under the
\* principal that got it, and that principal unlocked this certificate and
\* owns it or administers downloads: the checks are spread over two requests
\* and four calls that can each fail.
DeliveredIsAccountedFor ==
    \A d \in Downloads : dl[d].pc = "delivered" =>
        /\ Logged(d) \in audit
        /\ value[dl[d].token] = [cert |-> dl[d].cert, by |-> dl[d].by]
        /\ Entitled(dl[d].by, dl[d].cert)

\* The requests in one of some states, each with its token.
With(states) ==
    {<<d, dl[d].token>> : d \in {e \in Downloads : dl[e].pc \in states}}

\* The promise of the download: a token is live while some cache has its key,
\* and held from the moment it was redeemed.
Delivery == INSTANCE OneTimeDelivery WITH
    Requests <- Downloads,
    Grants <- {g \in Value : Entitled(g.by, g.cert)},
    granted <- value,
    live <- {t \in Tokens : \E s \in Stores : t \in kv[s]},
    held <- With(Crossing),
    log <- audit,
    delivered <- With({"delivered"})

\* Replicas, caches, expiring keys, lost answers and crashes implement it.
ImplementsDelivery == Delivery!Spec

\* A token is no right: unlocked before its principal lost the scopes, it is
\* worth nothing to a request that had not been authenticated by then.
WithdrawnScopeStops ==
    \A d \in Downloads, p \in Principals :
        [](p \notin scoped /\ dl[d].pc = "idle"
           => [](dl[d].by = p => dl[d].pc # "delivered"))

\* No passphrase stays in a cache: a token that nobody redeems leaves it,
\* also from the memory of a replica.
TokensLeave ==
    \A s \in Stores, t \in Tokens : t \in kv[s] ~> t \notin kv[s]

\* Why they hold: a key is in one store at most, in none once a request has
\* redeemed it or before it was set, and a request that goes on has passed
\* the checks before the call it waits for.
TokenInv ==
    /\ \A t \in Tokens, s1, s2 \in Stores :
          t \in kv[s1] /\ t \in kv[s2] => s1 = s2
    /\ \A t \in Tokens, s \in Stores : t \in kv[s] => value[t] # None
    /\ \A d \in Downloads : dl[d].pc # "idle" =>
          /\ dl[d].token \in Tokens
          /\ dl[d].cert \in Certs
          /\ dl[d].by \in Principals
          /\ dl[d].at \in Instances
          /\ dl[d].may => Entitled(dl[d].by, dl[d].cert)
    /\ \A d \in Downloads : Holds(d) =>
          /\ Matches(dl[d].token, dl[d].cert, dl[d].by)
          /\ \A s \in Stores : dl[d].token \notin kv[s]
    /\ \A d \in Downloads : dl[d].pc \in {"data", "audit", "deliver", "delivered"}
          => Entitled(dl[d].by, dl[d].cert)
    /\ \A d \in Downloads : dl[d].pc \in {"deliver", "delivered"}
          => Logged(d) \in audit
=============================================================================
