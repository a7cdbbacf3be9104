--------------------- MODULE CertificateDownload_proofs ---------------------
(***************************************************************************)
(* Proofs about CertificateDownload, for any number of replicas, tokens,   *)
(* requests and failures.                                                  *)
(***************************************************************************)
EXTENDS CertificateDownload, TLAPS

\* What every step keeps: types, where a key is, and who holds what.
IInv == TypeOK /\ TokenInv /\ OneTimeToken

\* A replica keeps its keys in a store.
LEMMA StoreType ==
    ASSUME TypeOK, NEW i \in Instances
    PROVE  Store(i) \in Stores
BY DEF Store, Stores

\* Initially every variable has its type.
LEMMA TypeInit == Init => TypeOK
BY DownloadAssumption DEF Init, TypeOK, IdleDownload, Request

\* Every step keeps the types.  A request that changes is replaced as a whole
\* or gets another step.
LEMMA TypeStep == TypeOK /\ TokenInv /\ [Next]_vars => TypeOK'
<1> SUFFICES ASSUME TypeOK, TokenInv, [Next]_vars
             PROVE  TypeOK'
    OBVIOUS
<1> USE DownloadAssumption
<1>0. ASSUME NEW k, Fault(k)
      PROVE  faults' \in 0 .. MaxFaults
    BY <1>0 DEF Fault, TypeOK
<1>00. ASSUME NEW d \in Downloads,
              NEW pc \in {"idle", "failed", "delivered"} \cup InFlight,
              Goes(d, pc)
       PROVE  dl' \in [Downloads -> Request]
    BY <1>00 DEF Goes, TypeOK, Request
<1>1. ASSUME NEW i \in Instances, NEW t \in Tokens, NEW c \in Certs,
             NEW p \in Principals, Unlock(i, t, c, p)
      PROVE  TypeOK'
    <2>1. CASE SetKey(i, t) /\ value' = [value EXCEPT ![t] = [cert |-> c, by |-> p]]
               /\ UNCHANGED faults
        BY <1>1, <2>1, StoreType DEF Unlock, SetKey, TypeOK, Value, config
    <2>2. CASE Fault("setKey") /\ UNCHANGED cache
        BY <1>1, <2>2, <1>0 DEF Unlock, TypeOK, cache, config
    <2>3. QED
        BY <1>1, <2>1, <2>2 DEF Unlock
<1>2. ASSUME NEW d \in Downloads, Redeem(d)
      PROVE  TypeOK'
    <2>1. kv' \in [Stores -> SUBSET Tokens]
        <3>1. Store(dl[d].at) \in Stores
            BY <1>2, StoreType DEF Redeem, TokenInv
        <3>2. QED
            BY <1>2, <3>1 DEF Redeem, DelKey, TypeOK
    <2>2. faults' \in 0 .. MaxFaults
        BY <1>2, <1>0 DEF Redeem, TypeOK
    <2>3. dl' \in [Downloads -> Request]
        BY <1>2, <1>00 DEF Redeem, InFlight, Crossing
    <2>4. QED
        BY <1>2, <2>1, <2>2, <2>3 DEF Redeem, TypeOK, config
<1>14. ASSUME NEW d \in Downloads, NEW i \in Instances, NEW t \in Tokens,
              NEW c \in Certs, NEW p \in Principals, Authenticate(d, i, t, c, p)
       PROVE  TypeOK'
    <2>1. [pc |-> "token", token |-> t, cert |-> c, by |-> p, at |-> i,
           may |-> MayDownload(p, c)] \in Request
        <3>1. MayDownload(p, c) \in BOOLEAN
            BY DEF MayDownload
        <3>2. QED
            BY <3>1 DEF Request, InFlight
    <2>2. dl' \in [Downloads -> Request]
        BY <1>14, <2>1 DEF Authenticate, TypeOK
    <2>3. QED
        BY <1>14, <2>2 DEF Authenticate, TypeOK, config, cache
<1>3. ASSUME NEW d \in Downloads, LoadRow(d)
      PROVE  TypeOK'
    <2>1. dl' \in [Downloads -> Request]
        BY <1>3, <1>00 DEF LoadRow, InFlight, Crossing
    <2>2. faults' \in 0 .. MaxFaults
        BY <1>3, <1>0 DEF LoadRow, TypeOK
    <2>3. QED
        BY <1>3, <2>1, <2>2 DEF LoadRow, TypeOK, cache, config
<1>4. ASSUME NEW d \in Downloads, LoadData(d)
      PROVE  TypeOK'
    <2>1. dl' \in [Downloads -> Request]
        BY <1>4, <1>00 DEF LoadData, InFlight, Crossing
    <2>2. faults' \in 0 .. MaxFaults
        BY <1>4, <1>0 DEF LoadData, TypeOK
    <2>3. QED
        BY <1>4, <2>1, <2>2 DEF LoadData, TypeOK, cache, config
<1>5. ASSUME NEW d \in Downloads, Audit(d)
      PROVE  TypeOK'
    <2>1. dl' \in [Downloads -> Request]
        BY <1>5, <1>00 DEF Audit, InFlight, Crossing
    <2>2. faults' \in 0 .. MaxFaults
        BY <1>5, <1>0 DEF Audit, TypeOK
    <2>3. Logged(d) \in [download : Downloads, cert : Certs, by : Principals]
        BY <1>5 DEF Audit, TokenInv, Logged
    <2>4. audit' \subseteq [download : Downloads, cert : Certs, by : Principals]
        BY <1>5, <2>3 DEF Audit, TypeOK
    <2>5. QED
        BY <1>5, <2>1, <2>2, <2>4 DEF Audit, TypeOK, cache, config
<1>6. ASSUME NEW d \in Downloads, Deliver(d)
      PROVE  TypeOK'
    <2>1. dl' \in [Downloads -> Request]
        BY <1>6, <1>00 DEF Deliver, InFlight, Crossing
    <2>2. faults' \in 0 .. MaxFaults
        BY <1>6, <1>0 DEF Deliver, TypeOK
    <2>3. QED
        BY <1>6, <2>1, <2>2 DEF Deliver, TypeOK, cache, config
<1>7. ASSUME NEW s \in Stores, NEW t \in Tokens, Timer(s, t)
      PROVE  TypeOK'
    BY <1>7 DEF Timer, TypeOK, config
<1>8. ASSUME NEW c \in Certs, RowChanges(c)
      PROVE  TypeOK'
    BY <1>8 DEF RowChanges, TypeOK, config, cache
<1>9. ASSUME NEW p \in Principals, ScopesWithdrawn(p)
      PROVE  TypeOK'
    BY <1>9 DEF ScopesWithdrawn, TypeOK, cache
<1>10. ASSUME NEW i \in Instances, Crash(i)
       PROVE  TypeOK'
    <2>1. dl' \in [Downloads -> Request]
        BY <1>10 DEF Crash, TypeOK, Request
    <2>2. kv' \in [Stores -> SUBSET Tokens]
        BY <1>10 DEF Crash, TypeOK, Stores
    <2>3. QED
        BY <1>10, <2>1, <2>2, <1>0 DEF Crash, TypeOK, config
<1>11. CASE Tick
    <2>1. kv' \in [Stores -> SUBSET Tokens]
        BY <1>11 DEF Tick, TypeOK, Stores
    <2>2. left' \in [Tokens -> 0 .. Lifetime]
        BY <1>11 DEF Tick, TypeOK
    <2>3. QED
        BY <1>11, <2>1, <2>2 DEF Tick, TypeOK, config
<1>12. CASE UNCHANGED vars
    BY <1>12 DEF vars, config, cache, TypeOK
<1>13. QED
    BY <1>1, <1>2, <1>3, <1>4, <1>5, <1>6, <1>7, <1>8, <1>9, <1>10, <1>11,
       <1>12, <1>14 DEF Next, Handler

-----------------------------------------------------------------------------
(* Where a key is, and who holds what.                                     *)

\* Initially no key is stored and no request has started.
LEMMA TokenInit == Init => TokenInv /\ OneTimeToken
BY DownloadAssumption
DEF Init, TokenInv, OneTimeToken, IdleDownload, Holds, Crossing

\* A step of the download handler touches one request and its step alone; it
\* keeps the invariants if the request has the checks of its new step behind
\* it and, where the new step holds a key, held one before.
LEMMA HandlerStep ==
    ASSUME TypeOK, TokenInv, OneTimeToken,
           NEW d \in Downloads, dl[d].pc \in Crossing,
           NEW pc \in {"data", "audit", "deliver", "delivered", "failed"},
           Goes(d, pc), UNCHANGED cache, audit \subseteq audit',
           pc # "failed" => Entitled(dl[d].by, dl[d].cert),
           pc \in {"deliver", "delivered"} => Logged(d) \in audit'
    PROVE  TokenInv' /\ OneTimeToken'
<1>1. /\ \A e \in Downloads : /\ dl'[e].token = dl[e].token
                              /\ dl'[e].cert = dl[e].cert
                              /\ dl'[e].by = dl[e].by
                              /\ dl'[e].at = dl[e].at
                              /\ dl'[e].may = dl[e].may
      /\ \A e \in Downloads \ {d} : dl'[e].pc = dl[e].pc
      /\ dl'[d].pc = pc
    BY DEF Goes, TypeOK, Request
<1>2. \A e \in Downloads : Holds(e)' => Holds(e)
    BY <1>1 DEF Holds, Crossing
<1>3. \A e \in Downloads : dl'[e].pc # "idle" => dl[e].pc # "idle"
    BY <1>1 DEF Crossing
<1>4. \A e \in Downloads : Logged(e)' = Logged(e)
    BY <1>1 DEF Logged
<1>5. value' = value /\ kv' = kv
    BY DEF cache
<1>6. \A e \in Downloads : Holds(e)' =>
          /\ Matches(dl[e].token, dl[e].cert, dl[e].by)'
          /\ \A s \in Stores : dl'[e].token \notin kv'[s]
    BY <1>1, <1>2, <1>5 DEF TokenInv, Matches
<1>7. \A e \in Downloads : dl'[e].pc # "idle" =>
          /\ dl'[e].token \in Tokens
          /\ dl'[e].cert \in Certs
          /\ dl'[e].by \in Principals
          /\ dl'[e].at \in Instances
          /\ dl'[e].may => Entitled(dl'[e].by, dl'[e].cert)
    BY <1>1, <1>3 DEF TokenInv
<1>8. \A e \in Downloads :
          dl'[e].pc \in {"data", "audit", "deliver", "delivered"}
          => Entitled(dl'[e].by, dl'[e].cert)
    BY <1>1 DEF TokenInv
<1>9. \A e \in Downloads : dl'[e].pc \in {"deliver", "delivered"}
          => Logged(e)' \in audit'
    BY <1>1, <1>4 DEF TokenInv
<1>10. TokenInv'
    BY <1>5, <1>6, <1>7, <1>8, <1>9 DEF TokenInv, Entitled
<1>11. OneTimeToken'
    BY <1>1, <1>2 DEF OneTimeToken
<1>12. QED
    BY <1>10, <1>11

\* Keys that leave their stores, and requests that fail, break nothing.
LEMMA LessKept ==
    ASSUME TypeOK, TokenInv, OneTimeToken, UNCHANGED <<value, audit>>,
           \A s \in Stores : kv'[s] \subseteq kv[s],
           \A e \in Downloads : /\ dl'[e].token = dl[e].token
                               /\ dl'[e].cert = dl[e].cert
                               /\ dl'[e].by = dl[e].by
                               /\ dl'[e].at = dl[e].at
                               /\ dl'[e].may = dl[e].may
                               /\ \/ dl'[e].pc = dl[e].pc
                                  \/ dl'[e].pc = "failed" /\ dl[e].pc # "idle"
    PROVE  TokenInv' /\ OneTimeToken'
<1>1. \A e \in Downloads : Holds(e)' => Holds(e)
    BY DEF Holds, Crossing
<1>2. \A e \in Downloads : Logged(e)' = Logged(e)
    BY DEF Logged
<1>3. /\ \A t \in Tokens, s1, s2 \in Stores :
            t \in kv'[s1] /\ t \in kv'[s2] => s1 = s2
      /\ \A t \in Tokens, s \in Stores : t \in kv'[s] => value'[t] # None
    BY DEF TokenInv
<1>4. \A e \in Downloads : dl'[e].pc # "idle" =>
          /\ dl'[e].token \in Tokens
          /\ dl'[e].cert \in Certs
          /\ dl'[e].by \in Principals
          /\ dl'[e].at \in Instances
          /\ dl'[e].may => Entitled(dl'[e].by, dl'[e].cert)
    BY DEF TokenInv
<1>5. \A e \in Downloads : Holds(e)' =>
          /\ Matches(dl[e].token, dl[e].cert, dl[e].by)'
          /\ \A s \in Stores : dl'[e].token \notin kv'[s]
    BY <1>1 DEF TokenInv, Matches
<1>6. \A e \in Downloads :
          dl'[e].pc \in {"data", "audit", "deliver", "delivered"}
          => Entitled(dl'[e].by, dl'[e].cert)
    BY DEF TokenInv
<1>7. \A e \in Downloads : dl'[e].pc \in {"deliver", "delivered"}
          => Logged(e)' \in audit'
    BY <1>2 DEF TokenInv
<1>8. TokenInv'
    BY <1>3, <1>4, <1>5, <1>6, <1>7 DEF TokenInv, Entitled
<1>9. OneTimeToken'
    BY <1>1 DEF OneTimeToken
<1>10. QED
    BY <1>8, <1>9

\* A new token is in no store and in no request's hands, so its key is in one
\* store afterwards.
LEMMA UnlockStep ==
    ASSUME TypeOK, TokenInv, OneTimeToken,
           NEW i \in Instances, NEW t \in Tokens, NEW c \in Certs,
           NEW p \in Principals, Unlock(i, t, c, p)
    PROVE  TokenInv' /\ OneTimeToken'
<1>1. CASE UNCHANGED cache
    <2>1. UNCHANGED <<value, kv, dl, audit>>
        BY <1>1 DEF Unlock, cache
    <2>2. QED
        BY <2>1, LessKept
<1>2. CASE /\ value' = [value EXCEPT ![t] = [cert |-> c, by |-> p]]
           /\ SetKey(i, t)
    <2>1. UNCHANGED <<dl, audit>> /\ value[t] = None
        BY DEF Unlock
    <2>2. \A s \in Stores : t \notin kv[s]
        BY <2>1 DEF TokenInv
    <2>3. /\ kv'[Store(i)] = kv[Store(i)] \cup {t}
          /\ \A s \in Stores \ {Store(i)} : kv'[s] = kv[s]
          /\ Store(i) \in Stores
        BY <1>2, StoreType DEF SetKey, TypeOK
    <2>4. value'[t] # None /\ \A u \in Tokens \ {t} : value'[u] = value[u]
        BY <1>2, DownloadAssumption DEF TypeOK
    <2>5. ASSUME NEW e \in Downloads, Holds(e)
          PROVE  dl[e].token \in Tokens \ {t}
        <3>1. dl[e].pc # "idle"
            BY <2>5 DEF Holds, Crossing
        <3>2. /\ dl[e].token \in Tokens
              /\ dl[e].cert \in Certs /\ dl[e].by \in Principals
              /\ Matches(dl[e].token, dl[e].cert, dl[e].by)
            BY <3>1, <2>5 DEF TokenInv
        <3>3. value[dl[e].token] \in [cert : Certs, by : Principals]
            BY <3>2 DEF Matches
        <3>4. value[dl[e].token] # None
            BY <3>3, DownloadAssumption
        <3>5. QED
            BY <3>2, <3>4, <2>1
    <2>6. /\ \A u \in Tokens, s1, s2 \in Stores :
                u \in kv'[s1] /\ u \in kv'[s2] => s1 = s2
          /\ \A u \in Tokens, s \in Stores : u \in kv'[s] => value'[u] # None
        BY <2>2, <2>3, <2>4 DEF TokenInv
    <2>7. \A e \in Downloads : Holds(e)' =>
              /\ Matches(dl[e].token, dl[e].cert, dl[e].by)'
              /\ \A s \in Stores : dl'[e].token \notin kv'[s]
        BY <2>1, <2>3, <2>4, <2>5 DEF TokenInv, Matches, Holds
    <2>8. TokenInv'
        BY <2>1, <2>6, <2>7 DEF TokenInv, Entitled, Logged
    <2>9. OneTimeToken'
        BY <2>1 DEF OneTimeToken, Holds
    <2>10. QED
        BY <2>8, <2>9
<1>3. QED
    BY <1>1, <1>2 DEF Unlock

\* A request gets a key past the cache only by taking it out of the one store
\* that has it, so no other request has it or can get it.
LEMMA RedeemStep ==
    ASSUME TypeOK, TokenInv, OneTimeToken,
           NEW d \in Downloads, Redeem(d)
    PROVE  TokenInv' /\ OneTimeToken'
<1> DEFINE i == dl[d].at
           t == dl[d].token
           c == dl[d].cert
           p == dl[d].by
<1>0. /\ i \in Instances /\ t \in Tokens /\ c \in Certs /\ p \in Principals
      /\ dl[d].may => Entitled(p, c)
    BY DEF Redeem, TokenInv
<1>1. PICK pc \in {"row", "failed"} :
        /\ Goes(d, pc)
        /\ pc = "row" => Finds(i, t) /\ Matches(t, c, p) /\ DelKey(i, t)
        /\ DelKey(i, t) \/ UNCHANGED kv
    BY DEF Redeem
<1>2. /\ dl'[d] = [dl[d] EXCEPT !.pc = pc]
      /\ dl[d] \in Request
      /\ \A e \in Downloads \ {d} : dl'[e] = dl[e]
    BY <1>1 DEF TypeOK, Goes
<1>02. /\ dl'[d].pc = pc /\ dl'[d].token = t /\ dl'[d].cert = c
       /\ dl'[d].by = p /\ dl'[d].at = i /\ dl'[d].may = dl[d].may
    BY <1>2 DEF Request
<1> HIDE DEF i, t, c, p
<1>3. UNCHANGED <<value, audit>>
    BY DEF Redeem
<1>4. Store(i) \in Stores
    BY <1>0, StoreType
<1>5. /\ \A s \in Stores : kv'[s] \subseteq kv[s]
      /\ DelKey(i, t) => t \notin kv'[Store(i)]
    BY <1>1, <1>4 DEF DelKey, TypeOK
<1>6. pc = "row" => /\ t \in kv[Store(i)]
                    /\ \A s \in Stores : t \notin kv'[s]
    BY <1>0, <1>1, <1>4, <1>5 DEF Finds, TokenInv
<1>7. /\ \A u \in Tokens, s1, s2 \in Stores :
            u \in kv'[s1] /\ u \in kv'[s2] => s1 = s2
      /\ \A u \in Tokens, s \in Stores : u \in kv'[s] => value'[u] # None
    BY <1>3, <1>5 DEF TokenInv
<1>8. \A e \in Downloads : dl'[e].pc # "idle" =>
          /\ dl'[e].token \in Tokens
          /\ dl'[e].cert \in Certs
          /\ dl'[e].by \in Principals
          /\ dl'[e].at \in Instances
          /\ dl'[e].may => Entitled(dl'[e].by, dl'[e].cert)
    BY <1>0, <1>2, <1>02 DEF TokenInv, Entitled
<1>9. \A e \in Downloads \ {d} : Holds(e)' => Holds(e)
    BY <1>2 DEF Holds
<1>10. Holds(d)' => pc = "row"
    BY <1>02 DEF Holds, Crossing
<1>11. \A e \in Downloads : Holds(e)' =>
          /\ Matches(dl[e].token, dl[e].cert, dl[e].by)'
          /\ \A s \in Stores : dl'[e].token \notin kv'[s]
    <2>1. ASSUME NEW e \in Downloads \ {d}, Holds(e)'
          PROVE  /\ Matches(dl[e].token, dl[e].cert, dl[e].by)'
                 /\ \A s \in Stores : dl'[e].token \notin kv'[s]
        BY <1>2, <1>3, <1>5, <1>9, <2>1 DEF TokenInv, Matches
    <2>2. ASSUME Holds(d)'
          PROVE  /\ Matches(dl[d].token, dl[d].cert, dl[d].by)'
                 /\ \A s \in Stores : dl'[d].token \notin kv'[s]
        BY <1>1, <1>02, <1>3, <1>6, <1>10, <2>2 DEF Matches
    <2>3. QED
        BY <2>1, <2>2
<1>12. \A e \in Downloads :
          /\ dl'[e].pc \in {"data", "audit", "deliver", "delivered"}
             => Entitled(dl'[e].by, dl'[e].cert)
          /\ dl'[e].pc \in {"deliver", "delivered"} => Logged(e)' \in audit'
    BY <1>2, <1>02, <1>3 DEF TokenInv, Logged, Entitled
<1>13. TokenInv'
    BY <1>7, <1>8, <1>11, <1>12 DEF TokenInv
<1>14. \A e \in Downloads \ {d} :
          Holds(e)' /\ Holds(d)' => dl'[e].token # dl'[d].token
    BY <1>2, <1>02, <1>4, <1>6, <1>9, <1>10 DEF TokenInv
<1>15. OneTimeToken'
    BY <1>2, <1>02, <1>9, <1>14 DEF OneTimeToken
<1>16. QED
    BY <1>13, <1>15

\* A request that is authenticated holds nothing yet.
LEMMA AuthenticateStep ==
    ASSUME TypeOK, TokenInv, OneTimeToken,
           NEW d \in Downloads, NEW i \in Instances, NEW t \in Tokens,
           NEW c \in Certs, NEW p \in Principals, Authenticate(d, i, t, c, p)
    PROVE  TokenInv' /\ OneTimeToken'
<1>1. /\ dl'[d] = [pc |-> "token", token |-> t, cert |-> c, by |-> p, at |-> i,
                   may |-> MayDownload(p, c)]
      /\ \A e \in Downloads \ {d} : dl'[e] = dl[e]
      /\ UNCHANGED <<value, kv, audit>>
    BY DEF Authenticate, TypeOK, cache
<1>2. /\ ~Holds(d)'
      /\ \A e \in Downloads \ {d} : Holds(e)' <=> Holds(e)
    BY <1>1 DEF Holds, Crossing
<1>03. dl'[d].may => Entitled(p, c)
    <2>1. dl'[d].may = MayDownload(p, c)
        BY <1>1
    <2>2. MayDownload(p, c) => Entitled(p, c)
        BY DEF MayDownload
    <2>3. QED
        BY <2>1, <2>2, Zenon
<1>3. \A e \in Downloads : dl'[e].pc # "idle" =>
          /\ dl'[e].token \in Tokens
          /\ dl'[e].cert \in Certs
          /\ dl'[e].by \in Principals
          /\ dl'[e].at \in Instances
          /\ dl'[e].may => Entitled(dl'[e].by, dl'[e].cert)
    <2>1. dl'[d].token = t /\ dl'[d].cert = c /\ dl'[d].by = p /\ dl'[d].at = i
        BY <1>1
    <2>2. QED
        BY <1>1, <1>03, <2>1 DEF TokenInv
<1>4. \A e \in Downloads : Holds(e)' =>
          /\ Matches(dl[e].token, dl[e].cert, dl[e].by)'
          /\ \A s \in Stores : dl'[e].token \notin kv'[s]
    BY <1>1, <1>2 DEF TokenInv, Matches
<1>5. \A e \in Downloads :
          /\ dl'[e].pc \in {"data", "audit", "deliver", "delivered"}
             => Entitled(dl'[e].by, dl'[e].cert)
          /\ dl'[e].pc \in {"deliver", "delivered"} => Logged(e)' \in audit'
    BY <1>1 DEF TokenInv, Logged
<1>6. TokenInv'
    BY <1>1, <1>3, <1>4, <1>5 DEF TokenInv, Entitled
<1>7. OneTimeToken'
    BY <1>1, <1>2 DEF OneTimeToken
<1>8. QED
    BY <1>6, <1>7

\* Every step keeps both.
LEMMA TokenStep ==
    TypeOK /\ TokenInv /\ OneTimeToken /\ [Next]_vars
    => TokenInv' /\ OneTimeToken'
<1> SUFFICES ASSUME TypeOK, TokenInv, OneTimeToken, [Next]_vars
             PROVE  TokenInv' /\ OneTimeToken'
    OBVIOUS
<1>1. ASSUME NEW d \in Downloads, LoadRow(d)
      PROVE  TokenInv' /\ OneTimeToken'
    <2>1. /\ dl[d].pc \in Crossing /\ UNCHANGED cache /\ audit' = audit
          /\ \/ Goes(d, "failed")
             \/ Goes(d, "data") /\ Entitled(dl[d].by, dl[d].cert)
        BY <1>1 DEF LoadRow, Crossing, TokenInv
    <2>2. QED
        BY <2>1, HandlerStep
<1>2. ASSUME NEW d \in Downloads, LoadData(d)
      PROVE  TokenInv' /\ OneTimeToken'
    <2>1. /\ dl[d].pc \in Crossing /\ UNCHANGED cache /\ audit' = audit
          /\ Goes(d, "failed") \/ Goes(d, "audit")
          /\ Entitled(dl[d].by, dl[d].cert)
        BY <1>2 DEF LoadData, Crossing, TokenInv
    <2>2. QED
        BY <2>1, HandlerStep
<1>3. ASSUME NEW d \in Downloads, Audit(d)
      PROVE  TokenInv' /\ OneTimeToken'
    <2>1. /\ dl[d].pc \in Crossing /\ UNCHANGED cache
          /\ audit \subseteq audit'
          /\ \/ Goes(d, "failed")
             \/ Goes(d, "deliver") /\ Logged(d) \in audit'
          /\ Entitled(dl[d].by, dl[d].cert)
        BY <1>3 DEF Audit, Crossing, TokenInv
    <2>2. QED
        BY <2>1, HandlerStep
<1>4. ASSUME NEW d \in Downloads, Deliver(d)
      PROVE  TokenInv' /\ OneTimeToken'
    <2>1. /\ dl[d].pc \in Crossing /\ UNCHANGED cache /\ audit' = audit
          /\ Goes(d, "failed") \/ Goes(d, "delivered")
          /\ Logged(d) \in audit'
          /\ Entitled(dl[d].by, dl[d].cert)
        BY <1>4 DEF Deliver, Crossing, TokenInv
    <2>2. QED
        BY <2>1, HandlerStep
<1>5. ASSUME NEW s \in Stores, NEW t \in Tokens, Timer(s, t)
      PROVE  TokenInv' /\ OneTimeToken'
    <2>1. UNCHANGED <<value, dl, audit>> /\ \A r \in Stores : kv'[r] \subseteq kv[r]
        BY <1>5 DEF Timer, TypeOK
    <2>2. QED
        BY <2>1, LessKept
<1>6. ASSUME NEW i \in Instances, Crash(i)
      PROVE  TokenInv' /\ OneTimeToken'
    <2>1. UNCHANGED <<value, audit>> /\ \A r \in Stores : kv'[r] \subseteq kv[r]
        BY <1>6 DEF Crash, TypeOK
    <2>2. \A e \in Downloads : /\ dl'[e].token = dl[e].token
                              /\ dl'[e].cert = dl[e].cert
                              /\ dl'[e].by = dl[e].by
                              /\ dl'[e].at = dl[e].at
                              /\ dl'[e].may = dl[e].may
                              /\ \/ dl'[e].pc = dl[e].pc
                                 \/ dl'[e].pc = "failed" /\ dl[e].pc # "idle"
        BY <1>6 DEF Crash, TypeOK, Request, InFlight, Crossing
    <2>3. QED
        BY <2>1, <2>2, LessKept
<1>7. CASE Tick
    <2>1. UNCHANGED <<value, dl, audit>> /\ \A r \in Stores : kv'[r] \subseteq kv[r]
        BY <1>7 DEF Tick, TypeOK
    <2>2. QED
        BY <2>1, LessKept
<1>8. ASSUME UNCHANGED <<cache, dl, audit>>
      PROVE  TokenInv' /\ OneTimeToken'
    <2>1. UNCHANGED <<value, kv, dl, audit>>
        BY <1>8 DEF cache
    <2>2. QED
        BY <2>1, LessKept
<1>9. ASSUME NEW c \in Certs, RowChanges(c)
      PROVE  TokenInv' /\ OneTimeToken'
    BY <1>8, <1>9 DEF RowChanges
<1>10. ASSUME NEW p \in Principals, ScopesWithdrawn(p)
       PROVE  TokenInv' /\ OneTimeToken'
    BY <1>8, <1>10 DEF ScopesWithdrawn
<1>11. CASE UNCHANGED vars
    BY <1>8, <1>11 DEF vars
<1>12. QED
    BY <1>1, <1>2, <1>3, <1>4, <1>5, <1>6, <1>7, <1>9, <1>10, <1>11,
       UnlockStep, AuthenticateStep, RedeemStep DEF Next, Handler

\* The invariant that the theorems follow from.
LEMMA IInvariant == Spec => []IInv
<1>1. Init => IInv
    BY TypeInit, TokenInit DEF IInv
<1>2. IInv /\ [Next]_vars => IInv'
    BY TypeStep, TokenStep DEF IInv
<1>3. QED
    BY <1>1, <1>2, PTL DEF Spec

\* Every variable keeps its type, for any number of replicas and requests.
THEOREM TypeCorrect == Spec => []TypeOK
<1>1. IInv => TypeOK
    BY DEF IInv
<1>2. QED
    BY <1>1, IInvariant, PTL

\* A token lets one request through at most, in any interleaving of requests
\* to any replicas, with either cache and whatever fails.
THEOREM OneTime == Spec => []OneTimeToken
<1>1. IInv => OneTimeToken
    BY DEF IInv
<1>2. QED
    BY <1>1, IInvariant, PTL

\* Every private key that leaves is in the audit log, and went to the principal
\* that unlocked it.
THEOREM Accounted == Spec => []DeliveredIsAccountedFor
<1>1. IInv => DeliveredIsAccountedFor
    BY DEF IInv, TokenInv, DeliveredIsAccountedFor, Holds, Matches
<1>2. QED
    BY <1>1, IInvariant, PTL

\* What a withdrawal of scopes leaves of a request: it was not authenticated
\* with them, and so has not got past the row.
Stopped(d, p) ==
    /\ p \notin scoped
    /\ dl[d].pc # "idle" /\ dl[d].by = p =>
          /\ ~dl[d].may
          /\ dl[d].pc \notin {"data", "audit", "deliver", "delivered"}

\* A step of a handler other than LoadRow does not get a stopped request past
\* the row, and LoadRow refuses it.
LEMMA StoppedStep ==
    ASSUME NEW d \in Downloads, NEW p \in Principals,
           IInv, Stopped(d, p), [Next]_vars
    PROVE  Stopped(d, p)'
<1>1. p \notin scoped'
    BY DEF Next, Stopped, Unlock, Authenticate, Handler, Redeem, LoadRow,
           LoadData, Audit, Deliver, Timer, RowChanges, ScopesWithdrawn, Crash,
           Tick, vars, config
<1>2. ASSUME dl'[d] = dl[d]
      PROVE  Stopped(d, p)'
    BY <1>1, <1>2 DEF Stopped
<1>3. ASSUME NEW pc, Goes(d, pc), dl[d].pc # "idle",
             dl[d].by = p => pc \notin {"data", "audit", "deliver", "delivered"}
      PROVE  Stopped(d, p)'
    <2>1. /\ dl'[d].pc = pc /\ dl'[d].by = dl[d].by /\ dl'[d].may = dl[d].may
        BY <1>3 DEF Goes, IInv, TypeOK, Request
    <2>2. QED
        BY <1>1, <1>3, <2>1 DEF Stopped
<1>4. ASSUME NEW e \in Downloads, Handler(e)
      PROVE  Stopped(d, p)'
    <2>1. CASE e # d
        <3>1. dl'[d] = dl[d]
            BY <1>4, <2>1 DEF Handler, Redeem, LoadRow, LoadData, Audit, Deliver,
                              Goes, IInv, TypeOK
        <3>2. QED
            BY <1>2, <3>1
    <2>2. CASE e = d /\ Redeem(d)
        <3>1. PICK pc \in {"row", "failed"} : Goes(d, pc)
            BY <2>2 DEF Redeem
        <3>2. QED
            BY <1>3, <2>2, <3>1 DEF Redeem
    <2>3. CASE e = d /\ LoadRow(d)
        <3>1. PICK pc \in {"data", "failed"} :
                Goes(d, pc) /\ (pc = "data" => dl[d].may)
            BY <2>3 DEF LoadRow
        <3>2. dl[d].pc = "row"
            BY <2>3 DEF LoadRow
        <3>3. QED
            BY <1>3, <3>1, <3>2 DEF Stopped
    <2>4. CASE e = d /\ (LoadData(d) \/ Audit(d) \/ Deliver(d))
        <3>1. PICK pc \in {"audit", "deliver", "delivered", "failed"} : Goes(d, pc)
            BY <2>4 DEF LoadData, Audit, Deliver
        <3>2. dl[d].pc \in {"data", "audit", "deliver"}
            BY <2>4 DEF LoadData, Audit, Deliver
        <3>3. QED
            BY <1>3, <3>1, <3>2 DEF Stopped
    <2>5. QED
        BY <1>4, <2>1, <2>2, <2>3, <2>4 DEF Handler
<1>5. ASSUME NEW e \in Downloads, NEW i \in Instances, NEW t \in Tokens,
             NEW c \in Certs, NEW q \in Principals, Authenticate(e, i, t, c, q)
      PROVE  Stopped(d, p)'
    <2>1. CASE e # d
        BY <1>2, <1>5, <2>1 DEF Authenticate, IInv, TypeOK
    <2>2. CASE e = d
        <3>1. /\ dl'[d].pc = "token" /\ dl'[d].by = q
              /\ dl'[d].may = MayDownload(q, c)
            BY <1>5, <2>2 DEF Authenticate, IInv, TypeOK
        <3>2. q = p => ~MayDownload(q, c)
            BY DEF Stopped, MayDownload
        <3>3. dl'[d].by = p => ~dl'[d].may
            BY <3>1, <3>2, Zenon
        <3>4. QED
            BY <1>1, <3>1, <3>3 DEF Stopped
    <2>3. QED
        BY <2>1, <2>2
<1>6. ASSUME NEW i \in Instances, Crash(i)
      PROVE  Stopped(d, p)'
    <2>1. \/ dl'[d] = dl[d]
          \/ dl[d].pc # "idle" /\ dl'[d] = [dl[d] EXCEPT !.pc = "failed"]
        BY <1>6 DEF Crash, IInv, TypeOK, InFlight, Crossing
    <2>2. CASE dl[d].pc # "idle" /\ dl'[d] = [dl[d] EXCEPT !.pc = "failed"]
        <3>1. /\ dl'[d].pc = "failed" /\ dl'[d].by = dl[d].by
              /\ dl'[d].may = dl[d].may
            BY <2>2 DEF IInv, TypeOK, Request
        <3>2. QED
            BY <1>1, <2>2, <3>1 DEF Stopped
    <2>3. QED
        BY <1>2, <2>1, <2>2
<1>7. ASSUME UNCHANGED dl
      PROVE  Stopped(d, p)'
    BY <1>2, <1>7
<1>8. QED
    BY <1>4, <1>5, <1>6, <1>7 DEF Next, Unlock, Timer, RowChanges,
       ScopesWithdrawn, Tick, vars

\* A principal that lost its scopes gets nothing by a request that comes later,
\* even with a token that was unlocked before.
THEOREM WithdrawnStops == Spec => WithdrawnScopeStops
<1> SUFFICES ASSUME NEW d \in Downloads, NEW p \in Principals
             PROVE  Spec => [](p \notin scoped /\ dl[d].pc = "idle"
                               => [](dl[d].by = p => dl[d].pc # "delivered"))
    BY DEF WithdrawnScopeStops
<1>1. p \notin scoped /\ dl[d].pc = "idle" => Stopped(d, p)
    BY DEF Stopped
<1>2. IInv /\ Stopped(d, p) /\ [Next]_vars => Stopped(d, p)'
    BY StoppedStep
<1>3. Stopped(d, p) => (dl[d].by = p => dl[d].pc # "delivered")
    BY DEF Stopped
<1>4. QED
    BY <1>1, <1>2, <1>3, IInvariant, PTL DEF Spec

-----------------------------------------------------------------------------
(* CertificateDownload implements OneTimeDelivery.                         *)

\* The tokens whose key is in some cache.
Live == {t \in Tokens : \E s \in Stores : t \in kv[s]}

Held == With(Crossing)

Delivered == With({"delivered"})

\* A request that goes on to another step joins or leaves those in some states
\* with its token, and nobody else does.
LEMMA GoesWith ==
    ASSUME TypeOK, NEW d \in Downloads, NEW pc, Goes(d, pc), NEW states
    PROVE  /\ pc \in states => With(states)' = With(states) \cup {<<d, dl[d].token>>}
           /\ pc \notin states => With(states)' = With(states) \ {<<d, dl[d].token>>}
<1>1. /\ dl'[d].pc = pc
      /\ \A e \in Downloads : /\ dl'[e].token = dl[e].token
                              /\ e # d => dl'[e].pc = dl[e].pc
    BY DEF Goes, TypeOK, Request
<1>2. \A e \in Downloads : \A t :
         <<e, t>> \in With(states) <=> dl[e].pc \in states /\ t = dl[e].token
    BY DEF With
<1>3. \A e \in Downloads : \A t :
         <<e, t>> \in With(states)' <=> dl'[e].pc \in states /\ t = dl'[e].token
    BY DEF With
<1>4. /\ \A x \in With(states) : \E e \in Downloads : \E t : x = <<e, t>>
      /\ \A x \in With(states)' : \E e \in Downloads : \E t : x = <<e, t>>
    BY DEF With
<1>5. CASE pc \in states
    BY <1>1, <1>2, <1>3, <1>4, <1>5
<1>6. CASE pc \notin states
    BY <1>1, <1>2, <1>3, <1>4, <1>6
<1>7. QED
    BY <1>5, <1>6

\* A pair tells the step of its request.
LEMMA WithPair ==
    ASSUME NEW d \in Downloads, NEW states
    PROVE  <<d, dl[d].token>> \in With(states) <=> dl[d].pc \in states
BY DEF With

\* Steps that only lose tokens and requests.
LEMMA Loses ==
    ASSUME UNCHANGED <<value, audit>>, Live' \subseteq Live,
           Held' \subseteq Held, Delivered' = Delivered
    PROVE  Delivery!Lose
BY DEF Delivery!Lose, Live, Held, Delivered

\* A request that leaves its step for another one or for none, no token lost
\* but by deletion from a cache: it is lost, or nothing is.
LEMMA GoesLoses ==
    ASSUME TypeOK, NEW d \in Downloads, dl[d].pc # "delivered",
           NEW pc, pc # "delivered",
           pc \in Crossing => dl[d].pc \in Crossing,
           Goes(d, pc), UNCHANGED <<value, audit>>,
           \A s \in Stores : kv'[s] \subseteq kv[s]
    PROVE  Delivery!Lose
<1>1. Live' \subseteq Live
    BY DEF Live
<1>2. Held' \subseteq Held
    BY GoesWith, WithPair DEF Held
<1>3. Delivered' = Delivered
    BY GoesWith, WithPair DEF Delivered
<1>4. QED
    BY <1>1, <1>2, <1>3, Loses

\* Initially there is no token.
LEMMA DeliveryInit == Init => Delivery!Init
<1> SUFFICES ASSUME Init
             PROVE  Delivery!Init
    OBVIOUS
<1>1. Live = {}
    BY DEF Init, Live
<1>2. Held = {} /\ Delivered = {}
    BY DEF Init, IdleDownload, Held, Delivered, With, Crossing
<1>3. QED
    BY <1>1, <1>2 DEF Init, Delivery!Init, Live, Held, Delivered

\* Unlocking grants a token that was not in use.
LEMMA UnlockGrants ==
    ASSUME TypeOK, NEW i \in Instances, NEW t \in Tokens, NEW c \in Certs,
           NEW p \in Principals, Unlock(i, t, c, p)
    PROVE  [Delivery!Next]_(Delivery!vars)
<1>1. UNCHANGED <<dl, audit>>
    BY DEF Unlock
<1>2. UNCHANGED <<Held, Delivered>>
    BY <1>1 DEF Held, Delivered, With
<1>3. CASE UNCHANGED cache
    <2>1. UNCHANGED <<value, Live>>
        BY <1>3 DEF cache, Live
    <2>2. QED
        BY <1>1, <1>2, <2>1 DEF Delivery!vars, Live, Held, Delivered
<1>4. CASE /\ value' = [value EXCEPT ![t] = [cert |-> c, by |-> p]]
           /\ SetKey(i, t)
    <2> DEFINE g == [cert |-> c, by |-> p]
    <2>1. g \in {v \in Value : Entitled(v.by, v.cert)}
        BY DEF Unlock, MayDownload, Value
    <2>2. Live' = Live \cup {t}
        BY <1>4, StoreType DEF SetKey, Live, TypeOK
    <2>3. value[t] = None
        BY DEF Unlock
    <2> HIDE DEF g
    <2>4. value' = [value EXCEPT ![t] = g]
        BY <1>4 DEF g
    <2>5. Delivery!Grant(t, g)
        BY <1>1, <1>2, <2>2, <2>3, <2>4
        DEF Delivery!Grant, Live, Held, Delivered
    <2>6. QED
        BY <2>1, <2>5 DEF Delivery!Next
<1>5. QED
    BY <1>3, <1>4 DEF Unlock

\* Authentication concerns no token yet.
LEMMA AuthenticateStutters ==
    ASSUME TypeOK, NEW d \in Downloads, NEW i \in Instances, NEW t \in Tokens,
           NEW c \in Certs, NEW p \in Principals, Authenticate(d, i, t, c, p)
    PROVE  UNCHANGED Delivery!vars
<1>1. /\ dl[d].pc = "idle" /\ dl'[d].pc = "token"
      /\ \A e \in Downloads : e # d => dl'[e] = dl[e]
    BY DEF Authenticate, IdleDownload, TypeOK
<1>2. ASSUME NEW states, "idle" \notin states, "token" \notin states
      PROVE  With(states)' = With(states)
    BY <1>1, <1>2 DEF With
<1>3. UNCHANGED <<Held, Delivered>>
    BY <1>2 DEF Held, Delivered, Crossing
<1>4. UNCHANGED <<value, Live, audit>>
    BY DEF Authenticate, cache, Live
<1>5. QED
    BY <1>3, <1>4 DEF Delivery!vars, Live, Held, Delivered

\* A token that is found and matches lets its request through; in every other
\* case the request fails, and the token may be gone with it.
LEMMA RedeemRedeems ==
    ASSUME TypeOK, TokenInv, NEW d \in Downloads, Redeem(d)
    PROVE  [Delivery!Next]_(Delivery!vars)
<1>1. dl[d].pc = "token" /\ UNCHANGED <<value, audit>>
    BY DEF Redeem
<1>2. dl[d].at \in Instances /\ dl[d].token \in Tokens
    BY <1>1 DEF TokenInv
<1>3. PICK i \in Instances, t \in Tokens : i = dl[d].at /\ t = dl[d].token
    BY <1>2
<1>4. CASE DelKey(i, t) /\ Finds(i, t) /\ Goes(d, "row")
    <2>1. t \in Live
        BY <1>4, StoreType DEF Finds, Live
    <2>2. Live' = Live \ {t}
        BY <1>4, StoreType DEF Finds, DelKey, Live, TypeOK, TokenInv
    <2>3. Held' = Held \cup {<<d, t>>}
        BY <1>3, <1>4, GoesWith DEF Held, Crossing
    <2>4. Delivered' = Delivered
        <3>1. Delivered' = Delivered \ {<<d, t>>}
            BY <1>3, <1>4, GoesWith DEF Delivered
        <3>2. <<d, t>> \notin Delivered
            BY <1>1, <1>3, WithPair DEF Delivered
        <3>3. QED
            BY <3>1, <3>2
    <2>5. Delivery!LetThrough(d, t)
        BY <1>1, <2>1, <2>2, <2>3, <2>4
        DEF Delivery!LetThrough, Live, Held, Delivered
    <2>6. QED
        BY <2>5 DEF Delivery!Next
<1>5. CASE (DelKey(i, t) \/ UNCHANGED kv) /\ Goes(d, "failed")
    <2>1. \A s \in Stores : kv'[s] \subseteq kv[s]
        BY <1>5, StoreType DEF DelKey, TypeOK
    <2>2. Delivery!Lose
        BY <1>1, <1>5, <2>1, GoesLoses DEF Crossing
    <2>3. QED
        BY <2>2 DEF Delivery!Next
<1>6. QED
    BY <1>3, <1>4, <1>5 DEF Redeem

\* Reading the row and the certificate loses a request or does nothing.
LEMMA LoadLoses ==
    ASSUME TypeOK, NEW d \in Downloads, LoadRow(d) \/ LoadData(d)
    PROVE  Delivery!Lose
<1>1. /\ dl[d].pc \in {"row", "data"}
      /\ UNCHANGED <<cache, audit>>
      /\ \E pc \in {"data", "audit", "failed"} : Goes(d, pc)
    BY DEF LoadRow, LoadData
<1>2. UNCHANGED <<value, audit>> /\ \A s \in Stores : kv'[s] \subseteq kv[s]
    BY <1>1 DEF cache
<1>3. QED
    BY <1>1, <1>2, GoesLoses DEF Crossing

\* What is written to the audit log is about the grant of the token.
LEMMA EntryIsLogged ==
    ASSUME TypeOK, TokenInv, NEW d \in Downloads, Holds(d)
    PROVE  Delivery!Entry(d, dl[d].token) = Logged(d)
<1>1. value[dl[d].token] = [cert |-> dl[d].cert, by |-> dl[d].by]
    BY DEF TokenInv, Matches
<1>2. QED
    BY <1>1 DEF Delivery!Entry, Logged

\* The audit logs a request that holds a token, loses it, or both.
LEMMA AuditLogs ==
    ASSUME TypeOK, TokenInv, NEW d \in Downloads, Audit(d)
    PROVE  [Delivery!Next]_(Delivery!vars)
<1>1. dl[d].pc = "audit" /\ UNCHANGED cache
    BY DEF Audit
<1>2. PICK t \in Tokens : t = dl[d].token
    BY <1>1 DEF TokenInv
<1>3. UNCHANGED <<value, Live>> /\ \A s \in Stores : kv'[s] \subseteq kv[s]
    BY <1>1 DEF cache, Live
<1>4. CASE UNCHANGED audit /\ Goes(d, "failed")
    <2>1. Delivery!Lose
        BY <1>1, <1>3, <1>4, GoesLoses DEF Crossing
    <2>2. QED
        BY <2>1 DEF Delivery!Next
<1>5. CASE /\ audit' = audit \cup {Logged(d)}
           /\ Goes(d, "deliver") \/ Goes(d, "failed")
    <2>1. <<d, t>> \in Held
        BY <1>1, <1>2, WithPair DEF Held, Crossing
    <2>2. Delivery!Entry(d, t) = Logged(d)
        BY <1>1, <1>2, EntryIsLogged DEF Holds, Crossing
    <2>3. Held' \in {Held, Held \ {<<d, t>>}}
        <3>1. CASE Goes(d, "deliver")
            <4>1. Held' = Held \cup {<<d, t>>}
                BY <1>2, <3>1, GoesWith DEF Held, Crossing
            <4>2. QED
                BY <2>1, <4>1
        <3>2. CASE Goes(d, "failed")
            BY <1>2, <3>2, GoesWith DEF Held, Crossing
        <3>3. QED
            BY <1>5, <3>1, <3>2
    <2>4. Delivered' = Delivered
        BY <1>1, <1>5, GoesWith, WithPair DEF Delivered
    <2>5. Delivery!Log(d, t)
        BY <1>3, <1>5, <2>1, <2>2, <2>3, <2>4
        DEF Delivery!Log, Live, Held, Delivered
    <2>6. QED
        BY <2>5 DEF Delivery!Next
<1>6. QED
    BY <1>4, <1>5 DEF Audit

\* A key that leaves was logged, and its token is used up.
LEMMA DeliverDelivers ==
    ASSUME TypeOK, TokenInv, NEW d \in Downloads, Deliver(d)
    PROVE  [Delivery!Next]_(Delivery!vars)
<1>1. dl[d].pc = "deliver" /\ UNCHANGED <<cache, audit>>
    BY DEF Deliver
<1>2. PICK t \in Tokens : t = dl[d].token
    BY <1>1 DEF TokenInv
<1>3. UNCHANGED <<value, Live>> /\ \A s \in Stores : kv'[s] \subseteq kv[s]
    BY <1>1 DEF cache, Live
<1>4. CASE Goes(d, "failed")
    <2>1. Delivery!Lose
        BY <1>1, <1>3, <1>4, GoesLoses DEF Crossing
    <2>2. QED
        BY <2>1 DEF Delivery!Next
<1>5. CASE Goes(d, "delivered")
    <2>1. <<d, t>> \in Held
        BY <1>1, <1>2, WithPair DEF Held, Crossing
    <2>2. Delivery!Entry(d, t) \in audit
        BY <1>1, <1>2, EntryIsLogged DEF TokenInv, Holds, Crossing
    <2>3. Held' = Held \ {<<d, t>>}
        BY <1>2, <1>5, GoesWith DEF Held, Crossing
    <2>4. Delivered' = Delivered \cup {<<d, t>>}
        BY <1>2, <1>5, GoesWith DEF Delivered
    <2>5. Delivery!Deliver(d, t)
        BY <1>1, <1>3, <2>1, <2>2, <2>3, <2>4
        DEF Delivery!Deliver, Live, Held, Delivered
    <2>6. QED
        BY <2>5 DEF Delivery!Next
<1>6. QED
    BY <1>4, <1>5 DEF Deliver

\* Timers, the passing of time and crashes lose tokens, and a crash requests.
LEMMA EnvironmentLoses ==
    ASSUME TypeOK, \/ \E s \in Stores, t \in Tokens : Timer(s, t)
                   \/ \E i \in Instances : Crash(i)
                   \/ Tick
    PROVE  Delivery!Lose
<1>1. UNCHANGED <<value, audit>> /\ \A s \in Stores : kv'[s] \subseteq kv[s]
    BY DEF Timer, Crash, Tick, TypeOK, Stores
<1>2. Live' \subseteq Live
    BY <1>1 DEF Live
<1>3. /\ \A d \in Downloads : /\ dl'[d].token = dl[d].token
                              /\ \/ dl'[d].pc = dl[d].pc
                                 \/ /\ dl[d].pc \in InFlight
                                    /\ dl'[d].pc = "failed"
    BY DEF Timer, Crash, Tick, TypeOK, Request
<1>4. Held' \subseteq Held
    BY <1>3 DEF Held, With, Crossing
<1>5. Delivered' = Delivered
    BY <1>3 DEF Delivered, With, InFlight, Crossing
<1>6. QED
    BY <1>1, <1>2, <1>4, <1>5, Loses

\* Every step is one of the abstract delivery or changes nothing it tells of.
LEMMA DeliveryStep ==
    ASSUME IInv, [Next]_vars
    PROVE  [Delivery!Next]_(Delivery!vars)
<1>0. TypeOK /\ TokenInv
    BY DEF IInv
<1>1. ASSUME Delivery!Lose
      PROVE  Delivery!Next
    BY <1>1 DEF Delivery!Next
<1>2. ASSUME UNCHANGED <<cache, dl, audit>>
      PROVE  UNCHANGED Delivery!vars
    BY <1>2 DEF Delivery!vars, cache, With
<1>3. CASE UNCHANGED vars
    BY <1>2, <1>3 DEF vars
<1>4. ASSUME NEW i \in Instances, NEW t \in Tokens, NEW c \in Certs,
             NEW p \in Principals,
             \/ Unlock(i, t, c, p)
             \/ \E d \in Downloads : Authenticate(d, i, t, c, p)
      PROVE  [Delivery!Next]_(Delivery!vars)
    BY <1>0, <1>4, UnlockGrants, AuthenticateStutters
<1>5. ASSUME NEW d \in Downloads, Handler(d)
      PROVE  [Delivery!Next]_(Delivery!vars)
    BY <1>0, <1>1, <1>5, RedeemRedeems, LoadLoses, AuditLogs, DeliverDelivers
    DEF Handler
<1>6. CASE \/ \E s \in Stores, t \in Tokens : Timer(s, t)
           \/ \E i \in Instances : Crash(i)
           \/ Tick
    BY <1>0, <1>1, <1>6, EnvironmentLoses
<1>7. CASE \/ \E c \in Certs : RowChanges(c)
           \/ \E p \in Principals : ScopesWithdrawn(p)
    BY <1>2, <1>7 DEF RowChanges, ScopesWithdrawn
<1>8. QED
    BY <1>3, <1>4, <1>5, <1>6, <1>7 DEF Next

\* Replicas, caches, expiring keys, lost answers and crashes implement the
\* abstract delivery.
THEOREM Implementation == Spec => ImplementsDelivery
<1>1. IInv /\ [Next]_vars => [Delivery!Next]_(Delivery!vars)
    BY DeliveryStep
<1>2. QED
    BY <1>1, DeliveryInit, IInvariant, PTL
    DEF Spec, ImplementsDelivery, Delivery!Spec
=============================================================================
