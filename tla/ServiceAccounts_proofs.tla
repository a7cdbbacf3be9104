----------------------- MODULE ServiceAccounts_proofs -----------------------
(***************************************************************************)
(* Proofs about ServiceAccounts, for any number of users, accounts,        *)
(* scopes, requests and failures, and any bound on the clock.              *)
(***************************************************************************)
EXTENDS ServiceAccounts, TLAPS

Creating(r) == manage[r].pc \in {"insert", "scopes", "commit"}

\* What the management requests rely on: a request that creates an account
\* has it to itself, asks for scopes its user had, and any other request
\* works on an account that is there.
ManageInv ==
    \A r \in Requests :
        /\ Creating(r) =>
               /\ row[manage[r].acct] = None
               /\ manage[r].scopes # {}
               /\ manage[r].scopes \subseteq ever[manage[r].by]
               /\ \A q \in Requests \ {r} : manage[q].acct # manage[r].acct
        /\ manage[r].pc \in Operations \cup {"reread"} =>
               row[manage[r].acct] # None

\* Every account has scopes, and only those its creator had.
RowInv ==
    \A a \in Accounts : row[a] # None =>
        /\ row[a].scopes # {}
        /\ row[a].scopes \subseteq ever[row[a].by]

\* A session's scopes are among those its user ever had.
EverHad == \A u \in Users : granted[u] \subseteq ever[u]

Seen(c) == call[c].pc \in {"scopes", "verify"}

\* The columns that pause, unpause and delete write.
Enabled(columns) == columns.deletedAt = None /\ ~columns.disabled

\* What a request with a token knows of its account.
CallInv ==
    /\ \A a \in tokens : row[a] # None
    /\ \A c \in Calls : call[c].pc # "idle" =>
        /\ row[call[c].acct] # None
        /\ Valid(call[c].acct) \in witness[c]
        /\ Seen(c) =>
               /\ call[c].seen \in Row
               /\ call[c].seen.expires = row[call[c].acct].expires
               /\ Passes(call[c].seen) => TRUE \in witness[c]
               /\ ~Enabled(call[c].seen) => FALSE \in witness[c]
        /\ call[c].pc \in {"verify", "authenticated"} =>
               call[c].scopes = row[call[c].acct].scopes

IInv ==
    /\ TypeOK
    /\ EverHad
    /\ ManageInv
    /\ RowInv
    /\ CallInv
    /\ AuthenticationIsAtomic

-----------------------------------------------------------------------------
(* Types.                                                                  *)

\* A counted failure stays within its bound.
LEMMA FaultType ==
    ASSUME NEW kind, Fault(kind), faults \in 0 .. MaxFaults
    PROVE  faults' \in 0 .. MaxFaults
BY AccountsAssumption DEF Fault

\* A request that is answered, or goes to its next step.
LEMMA RequestType ==
    ASSUME TypeOK, NEW r \in Requests,
           \/ Answered(r)
           \/ /\ manage[r].pc # "idle"
              /\ \E pc \in {"scopes", "commit", "reread"} : Goes(r, pc)
    PROVE  manage' \in [Requests -> Request]
<1>1. CASE Answered(r)
    BY <1>1 DEF TypeOK, Answered, Request
<1>2. ASSUME NEW pc \in {"scopes", "commit", "reread"}, Goes(r, pc),
             manage[r].pc # "idle"
      PROVE  manage' \in [Requests -> Request]
    <2>1. manage[r] \in Request \ {IdleRequest}
        BY <1>2 DEF TypeOK, IdleRequest
    <2>2. [manage[r] EXCEPT !.pc = pc] \in Request
        BY <1>2, <2>1 DEF Request
    <2> QED
        BY <1>2, <2>2 DEF TypeOK, Goes
<1> QED
    BY <1>1, <1>2

\* A call that goes to its next step.
LEMMA CallType ==
    ASSUME TypeOK, NEW c \in Calls, call[c].pc # "idle",
           NEW pc \in {"authenticated", "refused", "failed"}, CallGoes(c, pc)
    PROVE  call' \in [Calls -> Call]
<1>1. call[c] \in Call \ {IdleCall}
    BY DEF TypeOK, IdleCall
<1>2. [call[c] EXCEPT !.pc = pc] \in Call
    BY <1>1 DEF Call
<1> QED
    BY <1>2 DEF TypeOK, CallGoes

\* The account of a request that is working is an account.
LEMMA Working ==
    ASSUME TypeOK, NEW r \in Requests, manage[r].pc # "idle"
    PROVE  /\ manage[r] \in Request \ {IdleRequest}
           /\ manage[r].acct \in Accounts
           /\ manage[r].by \in Users
           /\ manage[r].scopes \in SUBSET Scopes
           /\ manage[r].expires \in Times
<1>1. manage[r] \in Request \ {IdleRequest}
    BY DEF TypeOK, IdleRequest
<1> QED
    BY <1>1 DEF Request

\* So is the account of a call.
LEMMA Calling ==
    ASSUME TypeOK, NEW c \in Calls, call[c].pc # "idle"
    PROVE  /\ call[c] \in Call \ {IdleCall}
           /\ call[c].acct \in Accounts
           /\ call[c].seen \in Row \cup {None}
           /\ call[c].scopes \in SUBSET Scopes
<1>1. call[c] \in Call \ {IdleCall}
    BY DEF TypeOK, IdleCall
<1> QED
    BY <1>1 DEF Call

\* The row a creating request commits.
LEMMA NewRowType ==
    ASSUME TypeOK, NEW r \in Requests, manage[r].pc # "idle"
    PROVE  NewRow(r, manage[r].scopes) \in Row
BY Working DEF NewRow, Row

\* Initially every variable has its type.
LEMMA TypeInit == Init => TypeOK
BY AccountsAssumption DEF Init, TypeOK, Request, Call, Times

\* Observing keeps the type of what was observed.
LEMMA WitnessType ==
    ASSUME witness \in [Calls -> SUBSET BOOLEAN], Observe
    PROVE  witness' \in [Calls -> SUBSET BOOLEAN]
<1>1. ASSUME NEW c \in Calls
      PROVE  Valid(call[c].acct)' \in BOOLEAN
    BY DEF Valid, Passes
<1> QED
    BY <1>1 DEF Observe

\* Pausing, unpausing and deleting keep the type of the rows.
LEMMA UpdateType ==
    ASSUME TypeOK, NEW r \in Requests, ManageUpdate(r),
           row[manage[r].acct] # None
    PROVE  row' \in [Accounts -> Row \cup {None}]
<1> DEFINE a == manage[r].acct
<1>1. manage[r].pc # "idle"
    BY DEF ManageUpdate, Operations
<1>2. a \in Accounts /\ row[a] \in Row
    BY <1>1, Working DEF TypeOK
<1>3. ASSUME NEW d \in BOOLEAN
      PROVE  [row[a] EXCEPT !.disabled = d] \in Row
    BY <1>2, <1>3 DEF Row
<1>4. [row[a] EXCEPT !.deletedAt = now, !.disabled = TRUE] \in Row
    BY <1>2 DEF Row, TypeOK
<1>5. CASE PauseServiceAccount(a)
    BY <1>2, <1>3, <1>5 DEF PauseServiceAccount, TypeOK
<1>6. CASE UnpauseServiceAccount(a)
    BY <1>2, <1>3, <1>6 DEF UnpauseServiceAccount, TypeOK
<1>7. CASE DeleteServiceAccount(a)
    BY <1>2, <1>4, <1>7 DEF DeleteServiceAccount, TypeOK
<1>8. CASE UNCHANGED row
    BY <1>8 DEF TypeOK
<1> QED
    BY <1>5, <1>6, <1>7, <1>8 DEF ManageUpdate

\* Every step keeps the types.
LEMMA TypeStep == TypeOK /\ ManageInv /\ CallInv /\ [Next]_vars => TypeOK'
<1> SUFFICES ASSUME TypeOK, ManageInv, CallInv, [Next]_vars
             PROVE  TypeOK'
    OBVIOUS
<1>0. CASE UNCHANGED vars
    BY <1>0 DEF vars, users, TypeOK
<1> SUFFICES ASSUME Step, Observe
             PROVE  TypeOK'
    BY <1>0 DEF Next
<1>w. witness' \in [Calls -> SUBSET BOOLEAN]
    BY WitnessType DEF TypeOK
<1>f. ASSUME NEW kind, Fault(kind)
      PROVE  faults' \in 0 .. MaxFaults
    BY <1>f, FaultType DEF TypeOK
<1>1. ASSUME NEW r \in Requests, NEW u \in Users, NEW a \in Accounts,
             NEW wanted \in SUBSET Scopes, NEW t \in Times,
             POSTServiceAccount(r, u, a, wanted, t)
      PROVE  TypeOK'
    <2>1. manage' \in [Requests -> Request]
        BY <1>1 DEF POSTServiceAccount, TypeOK, Request
    <2> QED
        BY <1>1, <1>w, <2>1 DEF POSTServiceAccount, TypeOK, users
<1>2. ASSUME NEW r \in Requests, InsertAccount(r)
      PROVE  TypeOK'
    <2>1. manage' \in [Requests -> Request]
        BY <1>2, RequestType DEF InsertAccount
    <2> QED
        BY <1>2, <1>w, <1>f, <2>1 DEF InsertAccount, TypeOK, users
<1>3. ASSUME NEW r \in Requests, InsertScopes(r)
      PROVE  TypeOK'
    <2>1. manage' \in [Requests -> Request]
        BY <1>3, RequestType DEF InsertScopes
    <2> QED
        BY <1>3, <1>w, <1>f, <2>1 DEF InsertScopes, TypeOK, users
<1>4. ASSUME NEW r \in Requests, Commit(r)
      PROVE  TypeOK'
    <2>1. manage' \in [Requests -> Request]
        BY <1>4, RequestType DEF Commit
    <2>2. NewRow(r, manage[r].scopes) \in Row
        BY <1>4, NewRowType DEF Commit
    <2>3. row' \in [Accounts -> Row \cup {None}]
        BY <1>4, <2>2 DEF Commit, TypeOK
    <2>4. faults' \in 0 .. MaxFaults
        BY <1>4, <1>f DEF Commit, TypeOK
    <2> QED
        BY <1>4, <1>w, <2>1, <2>3, <2>4 DEF Commit, TypeOK, users
<1>5. ASSUME NEW r \in Requests, HandOutToken(r)
      PROVE  TypeOK'
    <2>1. manage' \in [Requests -> Request]
        BY <1>5, RequestType DEF HandOutToken
    <2>2. manage[r].acct \in Accounts
        BY <1>5, Working DEF HandOutToken
    <2> QED
        BY <1>5, <1>w, <1>f, <2>1, <2>2 DEF HandOutToken, TypeOK, users
<1>6. ASSUME NEW r \in Requests, NEW u \in Users, NEW a \in Accounts,
             NEW operation \in Operations, ManageRead(r, u, a, operation)
      PROVE  TypeOK'
    <2>1. 0 \in Times
        BY AccountsAssumption DEF Times
    <2>2. [pc |-> operation, by |-> u, acct |-> a, scopes |-> {}, expires |-> 0]
              \in Request
        BY <2>1 DEF Request
    <2>3. manage' \in [Requests -> Request]
        BY <1>6, <2>2 DEF ManageRead, TypeOK
    <2> QED
        BY <1>6, <1>w, <2>3 DEF ManageRead, TypeOK, users
<1>7. ASSUME NEW r \in Requests, ManageUpdate(r)
      PROVE  TypeOK'
    <2>1. manage' \in [Requests -> Request]
        BY <1>7, RequestType DEF ManageUpdate
    <2>2. row' \in [Accounts -> Row \cup {None}]
        BY <1>7, UpdateType DEF ManageUpdate, ManageInv, Operations
    <2>3. faults' \in 0 .. MaxFaults
        BY <1>7, <1>f DEF ManageUpdate, TypeOK
    <2> QED
        BY <1>7, <1>w, <2>1, <2>2, <2>3 DEF ManageUpdate, TypeOK, users
<1>8. ASSUME NEW c \in Calls, NEW a \in Accounts, Arrive(c, a)
      PROVE  TypeOK'
    <2>2. [pc |-> "row", acct |-> a, seen |-> None, scopes |-> {}] \in Call
        BY DEF Call
    <2>3. call' \in [Calls -> Call]
        BY <1>8, <2>2 DEF Arrive, TypeOK
    <2> QED
        BY <1>8, <1>w, <2>3 DEF Arrive, TypeOK, users
<1>9. ASSUME NEW c \in Calls, QueryRow(c)
      PROVE  TypeOK'
    <2>1. call[c] \in Call \ {IdleCall} /\ call[c].acct \in Accounts
        BY <1>9, Calling DEF QueryRow
    <2>2. [call[c] EXCEPT !.pc = "scopes", !.seen = row[call[c].acct]] \in Call
        BY <2>1 DEF Call, TypeOK
    <2>3. call' \in [Calls -> Call]
        BY <1>9, <2>2, CallType DEF QueryRow, QueryFails, TypeOK
    <2> QED
        BY <1>9, <1>w, <1>f, <2>3 DEF QueryRow, QueryFails, TypeOK, users
<1>10. ASSUME NEW c \in Calls, QueryScopes(c)
       PROVE  TypeOK'
    <2>1. call[c] \in Call \ {IdleCall} /\ call[c].acct \in Accounts
        BY <1>10, Calling DEF QueryScopes
    <2>2. row[call[c].acct].scopes \in SUBSET Scopes
        BY <1>10, <2>1 DEF CallInv, QueryScopes, TypeOK, Row
    <2>3. [call[c] EXCEPT !.pc = "verify", !.scopes = row[call[c].acct].scopes]
              \in Call
        BY <2>1, <2>2 DEF Call
    <2>4. call' \in [Calls -> Call]
        BY <1>10, <2>3, CallType DEF QueryScopes, QueryFails, TypeOK
    <2> QED
        BY <1>10, <1>w, <1>f, <2>4 DEF QueryScopes, QueryFails, TypeOK, users
<1>11. ASSUME NEW c \in Calls, VerifyServiceAccount(c)
       PROVE  TypeOK'
    <2>1. call' \in [Calls -> Call]
        BY <1>11, CallType DEF VerifyServiceAccount
    <2> QED
        BY <1>11, <1>w, <2>1 DEF VerifyServiceAccount, TypeOK, users
<1>12. ASSUME NEW c \in Calls, CallAnswered(c)
       PROVE  TypeOK'
    <2>1. call' \in [Calls -> Call]
        BY <1>12 DEF CallAnswered, TypeOK, Call
    <2> QED
        BY <1>12, <1>w, <2>1 DEF CallAnswered, TypeOK, users
<1>13. ASSUME NEW u \in Users, NEW scopes \in SUBSET Scopes,
              SessionScopes(u, scopes)
       PROVE  TypeOK'
    BY <1>13, <1>w DEF SessionScopes, TypeOK
<1>14. CASE Tick
    <2>1. now' \in Times
        BY <1>14, AccountsAssumption DEF Tick, TypeOK, Times
    <2> QED
        BY <1>14, <1>w, <2>1 DEF Tick, TypeOK, users
<1> QED
    BY <1>1, <1>2, <1>3, <1>4, <1>5, <1>6, <1>7, <1>8, <1>9, <1>10, <1>11,
       <1>12, <1>13, <1>14 DEF Step, Manage, Authenticate

-----------------------------------------------------------------------------
(* Rows.                                                                   *)

\* A row stays, with its creator, scopes and expiry, and a deleted one does
\* not change at all.
RowsGrow ==
    \A a \in Accounts : row[a] # None =>
        /\ row'[a] # None
        /\ row'[a].by = row[a].by
        /\ row'[a].scopes = row[a].scopes
        /\ row'[a].expires = row[a].expires
        /\ row[a].deletedAt # None => row'[a] = row[a]

\* No step does anything else to a row: a commit meets none, and the updates
\* look for one that is not deleted.
LEMMA RowStep == TypeOK /\ ManageInv /\ [Next]_vars => RowsGrow
<1> SUFFICES ASSUME TypeOK, ManageInv, [Next]_vars
             PROVE  RowsGrow
    OBVIOUS
<1>1. CASE UNCHANGED row
    BY <1>1 DEF RowsGrow
<1>2. ASSUME NEW r \in Requests, Commit(r)
      PROVE  RowsGrow
    <2>1. manage[r].acct \in Accounts /\ row[manage[r].acct] = None
        BY <1>2, Working DEF Commit, ManageInv, Creating
    <2>2. \A a \in Accounts : row[a] # None => row'[a] = row[a]
        BY <1>2, <2>1 DEF Commit, TypeOK
    <2> QED
        BY <2>2 DEF RowsGrow
<1>3. ASSUME NEW r \in Requests, ManageUpdate(r)
      PROVE  RowsGrow
    <2> DEFINE b == manage[r].acct
    <2>1. b \in Accounts /\ row[b] \in Row
        BY <1>3, Working DEF ManageUpdate, ManageInv, Operations, TypeOK
    <2>2. \A a \in Accounts \ {b} : row'[a] = row[a]
        BY <1>3, <2>1 DEF ManageUpdate, PauseServiceAccount, TypeOK,
           UnpauseServiceAccount, DeleteServiceAccount
    <2>3. row[b].deletedAt # None => row'[b] = row[b]
        BY <1>3, <2>1 DEF ManageUpdate, PauseServiceAccount, NotDeleted,
           UnpauseServiceAccount, DeleteServiceAccount
    <2> DEFINE Same(new) == /\ new \in Row
                            /\ new.by = row[b].by
                            /\ new.scopes = row[b].scopes
                            /\ new.expires = row[b].expires
    <2>6. ASSUME NEW d \in BOOLEAN
          PROVE  Same([row[b] EXCEPT !.disabled = d])
        BY <2>1 DEF Row
    <2>7. Same([row[b] EXCEPT !.deletedAt = now, !.disabled = TRUE])
        BY <2>1 DEF Row, TypeOK
    <2>8. ASSUME PauseServiceAccount(b)
          PROVE  Same(row'[b])
        BY <2>1, <2>6, <2>8 DEF PauseServiceAccount, TypeOK
    <2>9. ASSUME UnpauseServiceAccount(b)
          PROVE  Same(row'[b])
        BY <2>1, <2>6, <2>9 DEF UnpauseServiceAccount, TypeOK
    <2>10. ASSUME DeleteServiceAccount(b)
          PROVE  Same(row'[b])
        BY <2>1, <2>7, <2>10 DEF DeleteServiceAccount, TypeOK
    <2>11. ASSUME UNCHANGED row
          PROVE  Same(row'[b])
        BY <2>1, <2>11
    <2>4. Same(row'[b])
        BY <1>3, <2>8, <2>9, <2>10, <2>11 DEF ManageUpdate
    <2>5. row'[b] # None
        BY <2>4, AccountsAssumption
    <2> QED
        BY <2>2, <2>3, <2>4, <2>5 DEF RowsGrow
<1> QED
    BY <1>1, <1>2, <1>3 DEF Next, Step, Manage, Authenticate, vars,
       POSTServiceAccount, InsertAccount, InsertScopes, HandOutToken, ManageRead,
       Arrive, QueryRow, QueryScopes, VerifyServiceAccount, CallAnswered,
       SessionScopes, Tick

\* A user has had at least the scopes it had before.
LEMMA EverStep ==
    ASSUME TypeOK, [Next]_vars, NEW u \in Users
    PROVE  ever[u] \subseteq ever'[u]
<1>1. CASE UNCHANGED ever
    BY <1>1
<1>2. ASSUME NEW v \in Users, NEW scopes \in SUBSET Scopes,
             SessionScopes(v, scopes)
      PROVE  ever[u] \subseteq ever'[u]
    BY <1>2 DEF SessionScopes, TypeOK
<1> QED
    BY <1>1, <1>2 DEF Next, Step, Manage, Authenticate, vars, users,
       POSTServiceAccount, InsertAccount, InsertScopes, Commit, HandOutToken,
       ManageRead, ManageUpdate, Arrive, QueryRow, QueryScopes,
       VerifyServiceAccount, CallAnswered, Tick

-----------------------------------------------------------------------------
(* Management requests.                                                    *)

\* What ManageInv says of one request.
ManageOK(r) ==
    /\ Creating(r) =>
           /\ row[manage[r].acct] = None
           /\ manage[r].scopes # {}
           /\ manage[r].scopes \subseteq ever[manage[r].by]
           /\ \A q \in Requests \ {r} : manage[q].acct # manage[r].acct
    /\ manage[r].pc \in Operations \cup {"reread"} =>
           row[manage[r].acct] # None

\* A request that is answered, or takes a step without changing a row.
LEMMA AnsweredKeeps ==
    ASSUME TypeOK, ManageInv, NEW q \in Requests, Answered(q),
           UNCHANGED <<row, ever>>
    PROVE  ManageInv'
<1>1. ASSUME NEW r \in Requests
      PROVE  ManageOK(r)'
    <2>1. CASE r = q
        BY <2>1 DEF Answered, IdleRequest, ManageOK, Creating, TypeOK, Operations
    <2>2. CASE r # q
        <3>1. manage'[r] = manage[r]
            BY <2>2 DEF Answered, TypeOK
        <3>2. Creating(r) => manage[r].acct # None
            BY Working, AccountsAssumption DEF Creating
        <3>3. ManageOK(r)
            BY DEF ManageInv, ManageOK
        <3>4. \A p \in Requests : manage'[p].acct \in {manage[p].acct, None}
            BY DEF Answered, IdleRequest, TypeOK
        <3>5. CASE Creating(r)
            <4>1. ASSUME NEW p \in Requests \ {r}
                  PROVE  manage'[p].acct # manage'[r].acct
                BY <3>1, <3>2, <3>3, <3>4, <3>5 DEF ManageOK
            <4> QED
                BY <3>1, <3>3, <3>5, <4>1 DEF ManageOK, Creating
        <3>6. CASE ~Creating(r)
            BY <3>1, <3>3, <3>6 DEF ManageOK, Creating
        <3> QED
            BY <3>5, <3>6
    <2> QED
        BY <2>1, <2>2
<1> QED
    BY <1>1 DEF ManageInv, ManageOK

\* After the commit the request is over, or reads the row back.
LEMMA Committed ==
    ASSUME TypeOK, NEW q \in Requests, Commit(q)
    PROVE  \/ manage'[q] = IdleRequest
           \/ /\ manage'[q].pc = "reread"
              /\ manage'[q].acct = manage[q].acct
<1>1. CASE Answered(q)
    BY <1>1 DEF Answered, TypeOK
<1>2. CASE Goes(q, "reread")
    <2>1. manage[q] \in Request \ {IdleRequest}
        BY Working DEF Commit
    <2> QED
        BY <1>2, <2>1 DEF Goes, TypeOK, Request
<1> QED
    BY <1>1, <1>2 DEF Commit

\* Every step keeps what the management requests rely on.
LEMMA ManageStep == TypeOK /\ ManageInv /\ EverHad /\ [Next]_vars => ManageInv'
<1> SUFFICES ASSUME TypeOK, ManageInv, EverHad, [Next]_vars
             PROVE  ManageInv'
    OBVIOUS
<1>0. \A r \in Requests : ManageOK(r)
    BY DEF ManageInv, ManageOK
<1>00. ASSUME NEW r \in Requests, manage[r].pc # "idle"
       PROVE  /\ manage[r].acct \in Accounts
              /\ manage[r].by \in Users
              /\ manage[r].acct # None
    BY <1>00, Working, AccountsAssumption
<1>1. CASE UNCHANGED <<row, manage>>
    <2>1. ASSUME NEW r \in Requests
          PROVE  ManageOK(r)'
        <3>1. manage[r].pc # "idle" =>
                  ever[manage[r].by] \subseteq ever'[manage[r].by]
            BY <1>00, EverStep
        <3>2. ManageOK(r)
            BY <1>0
        <3> QED
            BY <1>1, <3>1, <3>2 DEF ManageOK, Creating
    <2> QED
        BY <2>1 DEF ManageInv, ManageOK
<1>2. ASSUME NEW q \in Requests, NEW u \in Users, NEW a \in Accounts,
             NEW wanted \in SUBSET Scopes, NEW t \in Times,
             POSTServiceAccount(q, u, a, wanted, t)
      PROVE  ManageInv'
    <2>0. UNCHANGED <<row, ever>>
        BY <1>2 DEF POSTServiceAccount, users
    <2>1. ASSUME NEW r \in Requests
          PROVE  ManageOK(r)'
        <3>1. CASE r = q
            <4>1. manage'[r] = [pc |-> "insert", by |-> u, acct |-> a,
                                scopes |-> wanted, expires |-> t]
                BY <1>2, <3>1 DEF POSTServiceAccount, TypeOK
            <4>2. \A p \in Requests \ {r} : manage'[p].acct # a
                BY <1>2, <3>1 DEF POSTServiceAccount, TypeOK
            <4> QED
                BY <1>2, <2>0, <4>1, <4>2
                DEF POSTServiceAccount, HasAllScopes, ManageOK, Creating,
                    Operations, EverHad
        <3>2. CASE r # q
            BY <1>2, <2>0, <3>2, <1>0
            DEF POSTServiceAccount, ManageOK, Creating, TypeOK
        <3> QED
            BY <3>1, <3>2
    <2> QED
        BY <2>1 DEF ManageInv, ManageOK
<1>3. ASSUME NEW q \in Requests, NEW pc \in {"scopes", "commit"},
             manage[q].pc \in {"insert", "scopes"}, Goes(q, pc),
             UNCHANGED <<row, ever>>
      PROVE  ManageInv'
    <2>1. ASSUME NEW r \in Requests
          PROVE  ManageOK(r)'
        <3>1. \A p \in Requests : /\ manage'[p].acct = manage[p].acct
                                  /\ manage'[p].by = manage[p].by
                                  /\ manage'[p].scopes = manage[p].scopes
            BY <1>3, <1>00, Working DEF Goes, TypeOK, Request
        <3>2. Creating(r)' => Creating(r)
            BY <1>3 DEF Creating, Goes, TypeOK
        <3>3. manage'[r].pc \in Operations \cup {"reread"} =>
                  manage[r].pc \in Operations \cup {"reread"}
            BY <1>3 DEF Goes, TypeOK, Operations
        <3> QED
            BY <1>0, <1>3, <3>1, <3>2, <3>3 DEF ManageOK
    <2> QED
        BY <2>1 DEF ManageInv, ManageOK
<1>4. ASSUME NEW q \in Requests, NEW u \in Users, NEW a \in Accounts,
             NEW operation \in Operations, ManageRead(q, u, a, operation)
      PROVE  ManageInv'
    <2>0. UNCHANGED <<row, ever>>
        BY <1>4 DEF ManageRead, users
    <2>1. ASSUME NEW r \in Requests
          PROVE  ManageOK(r)'
        <3>1. CASE r = q
            BY <1>4, <2>0, <3>1 DEF ManageRead, ManageOK, Creating, TypeOK, Operations
        <3>2. CASE r # q
            <4>1. manage'[r] = manage[r]
                BY <1>4, <3>2 DEF ManageRead, TypeOK
            <4>2. \A p \in Requests : manage'[p].acct \in {manage[p].acct, a}
                BY <1>4 DEF ManageRead, TypeOK
            <4>3. Creating(r) => manage[r].acct # a
                BY <1>0, <1>4 DEF ManageOK, ManageRead
            <4> QED
                BY <1>0, <2>0, <4>1, <4>2, <4>3 DEF ManageOK, Creating
        <3> QED
            BY <3>1, <3>2
    <2> QED
        BY <2>1 DEF ManageInv, ManageOK
<1>5. ASSUME NEW q \in Requests, Commit(q)
      PROVE  ManageInv'
    <2> DEFINE b == manage[q].acct
    <2>0. ever' = ever /\ b \in Accounts
        BY <1>5, <1>00 DEF Commit, users
    <2>1. CASE UNCHANGED row
        BY <1>5, <2>0, <2>1, AnsweredKeeps, NewRowType, AccountsAssumption,
           <1>0 DEF Commit, TypeOK, ManageOK, Creating
    <2>2. CASE row' = [row EXCEPT ![b] = NewRow(q, manage[q].scopes)]
        <3>0. row'[b] # None
            BY <1>5, <2>0, <2>2, NewRowType, AccountsAssumption DEF Commit, TypeOK
        <3>1. ASSUME NEW r \in Requests
              PROVE  ManageOK(r)'
            <4>1. CASE r = q
                <5>1. \/ manage'[q] = IdleRequest
                      \/ manage'[q].pc = "reread" /\ manage'[q].acct = b
                    BY <1>5, Committed
                <5> QED
                    BY <3>0, <4>1, <5>1
                    DEF ManageOK, Creating, IdleRequest, Operations
            <4>2. CASE r # q
                <5>1. manage'[r] = manage[r]
                    BY <1>5, <4>2 DEF Commit, Answered, Goes, TypeOK
                <5>2. manage'[q].acct \in {b, None}
                    BY <1>5, Committed DEF IdleRequest
                <5>3. \A p \in Requests \ {q} : manage'[p] = manage[p]
                    BY <1>5 DEF Commit, Answered, Goes, TypeOK
                <5>4. manage[q].pc = "commit" /\ Creating(q)
                    BY <1>5 DEF Commit, Creating
                <5>5. Creating(r) => manage[r].acct # b /\ manage[r].acct # None
                    BY <1>0, <1>00, <4>2, <5>4 DEF ManageOK, Creating
                <5>6. Creating(r) => row'[manage[r].acct] = None
                    BY <1>0, <1>00, <2>2, <5>5 DEF ManageOK, Creating, TypeOK
                <5>7. manage[r].pc \in Operations \cup {"reread"} =>
                          row'[manage[r].acct] # None
                    BY <1>0, <1>00, <2>2, <3>0
                    DEF ManageOK, TypeOK, Operations
                <5>8. Creating(r) =>
                          \A p \in Requests \ {r} : manage'[p].acct # manage'[r].acct
                    BY <1>0, <5>1, <5>2, <5>3, <5>5 DEF ManageOK
                <5> QED
                    BY <1>0, <2>0, <5>1, <5>6, <5>7, <5>8 DEF ManageOK, Creating
            <4> QED
                BY <4>1, <4>2
        <3> QED
            BY <3>1 DEF ManageInv, ManageOK
    <2> QED
        BY <1>5, <2>1, <2>2 DEF Commit
<1>6. ASSUME NEW q \in Requests, ManageUpdate(q)
      PROVE  ManageInv'
    <2>0. ever' = ever /\ Answered(q)
        BY <1>6 DEF ManageUpdate, users
    <2>1. RowsGrow
        BY RowStep
    <2>2. \A a \in Accounts : row[a] = None => row'[a] = None
        <3>1. manage[q].acct \in Accounts /\ row[manage[q].acct] # None
            BY <1>0, <1>6, <1>00 DEF ManageUpdate, ManageOK, Operations
        <3> QED
            BY <1>6, <3>1 DEF ManageUpdate, PauseServiceAccount, TypeOK,
               UnpauseServiceAccount, DeleteServiceAccount
    <2>3. ASSUME NEW r \in Requests
          PROVE  ManageOK(r)'
        <3>1. CASE r = q
            BY <2>0, <3>1 DEF Answered, IdleRequest, ManageOK, Creating, TypeOK,
               Operations
        <3>2. CASE r # q
            <4>1. manage'[r] = manage[r]
                BY <2>0, <3>2 DEF Answered, TypeOK
            <4>2. \A p \in Requests : manage'[p].acct \in {manage[p].acct, None}
                BY <2>0 DEF Answered, IdleRequest, TypeOK
            <4>3. CASE Creating(r)
                <5>1. manage[r].acct \in Accounts /\ manage[r].acct # None
                    BY <1>00, <4>3 DEF Creating
                <5>2. row'[manage[r].acct] = None
                    BY <1>0, <2>2, <4>3, <5>1 DEF ManageOK
                <5>3. \A p \in Requests \ {r} : manage'[p].acct # manage[r].acct
                    BY <1>0, <4>2, <4>3, <5>1 DEF ManageOK
                <5> QED
                    BY <1>0, <2>0, <4>1, <4>3, <5>2, <5>3
                    DEF ManageOK, Creating, Operations
            <4>4. CASE ~Creating(r)
                BY <1>0, <1>00, <2>1, <4>1, <4>4
                DEF ManageOK, Creating, RowsGrow, Operations
            <4> QED
                BY <4>3, <4>4
        <3> QED
            BY <3>1, <3>2
    <2> QED
        BY <2>3 DEF ManageInv, ManageOK
<1>7. ASSUME NEW q \in Requests,
             InsertAccount(q) \/ InsertScopes(q) \/ HandOutToken(q)
      PROVE  ManageInv'
    BY <1>7, <1>3, AnsweredKeeps DEF InsertAccount, InsertScopes, HandOutToken, users
<1> QED
    BY <1>1, <1>2, <1>4, <1>5, <1>6, <1>7 DEF Next, Step, Manage, Authenticate,
       vars, Arrive, QueryRow, QueryScopes, VerifyServiceAccount, CallAnswered,
       SessionScopes, Tick

-----------------------------------------------------------------------------
(* Rows, and the sessions they were created in.                            *)

\* Initially nothing is going on.
LEMMA InvInit == Init => IInv
<1> SUFFICES ASSUME Init
             PROVE  IInv
    OBVIOUS
<1>1. TypeOK
    BY TypeInit
<1> QED
    BY <1>1 DEF Init, IInv, EverHad, ManageInv, RowInv, CallInv, Creating,
       Operations, IdleRequest, IdleCall, AuthenticationIsAtomic

\* What a user's session has is counted as had.
LEMMA EverHadStep == TypeOK /\ EverHad /\ [Next]_vars => EverHad'
<1> SUFFICES ASSUME TypeOK, EverHad, [Next]_vars
             PROVE  EverHad'
    OBVIOUS
<1>1. CASE UNCHANGED users
    BY <1>1 DEF users, EverHad
<1>2. ASSUME NEW u \in Users, NEW scopes \in SUBSET Scopes,
             SessionScopes(u, scopes)
      PROVE  EverHad'
    BY <1>2 DEF SessionScopes, EverHad, TypeOK
<1> QED
    BY <1>1, <1>2 DEF Next, Step, Manage, Authenticate, vars,
       POSTServiceAccount, InsertAccount, InsertScopes, Commit, HandOutToken,
       ManageRead, ManageUpdate, Arrive, QueryRow, QueryScopes,
       VerifyServiceAccount, CallAnswered, Tick

\* A row that was not there is one that a request commits.
LEMMA RowAppears ==
    ASSUME TypeOK, ManageInv, [Next]_vars, NEW a \in Accounts,
           row[a] = None, row'[a] # None
    PROVE  \E r \in Requests : /\ manage[r].pc = "commit"
                               /\ row'[a] = NewRow(r, manage[r].scopes)
                               /\ ever' = ever
<1>1. ASSUME NEW r \in Requests, Commit(r)
      PROVE  \E q \in Requests : /\ manage[q].pc = "commit"
                                 /\ row'[a] = NewRow(q, manage[q].scopes)
                                 /\ ever' = ever
    BY <1>1, Working DEF Commit, TypeOK, users
<1>2. ASSUME NEW r \in Requests, ManageUpdate(r)
      PROVE  FALSE
    <2>1. manage[r].acct \in Accounts /\ row[manage[r].acct] # None
        BY <1>2, Working DEF ManageUpdate, ManageInv, Operations
    <2> QED
        BY <1>2, <2>1 DEF ManageUpdate, PauseServiceAccount, TypeOK,
           UnpauseServiceAccount, DeleteServiceAccount
<1>3. CASE UNCHANGED row
    BY <1>3
<1> QED
    BY <1>1, <1>2, <1>3 DEF Next, Step, Manage, Authenticate, vars,
       POSTServiceAccount, InsertAccount, InsertScopes, HandOutToken, ManageRead,
       Arrive, QueryRow, QueryScopes, VerifyServiceAccount, CallAnswered,
       SessionScopes, Tick

\* Every account keeps the scopes it was given, and has no other.
LEMMA RowInvStep == TypeOK /\ ManageInv /\ RowInv /\ [Next]_vars => RowInv'
<1> SUFFICES ASSUME TypeOK, ManageInv, RowInv, [Next]_vars,
                    NEW a \in Accounts, row'[a] # None
             PROVE  /\ row'[a].scopes # {}
                    /\ row'[a].scopes \subseteq ever'[row'[a].by]
    BY DEF RowInv
<1>1. CASE row[a] # None
    <2>1. row[a].by \in Users
        BY <1>1 DEF TypeOK, Row
    <2> QED
        BY <1>1, <2>1, RowStep, EverStep DEF RowsGrow, RowInv
<1>2. CASE row[a] = None
    <2>1. PICK r \in Requests : /\ manage[r].pc = "commit"
                                /\ row'[a] = NewRow(r, manage[r].scopes)
                                /\ ever' = ever
        BY <1>2, RowAppears
    <2>2. /\ manage[r].scopes # {}
          /\ manage[r].scopes \subseteq ever[manage[r].by]
        BY <2>1 DEF ManageInv, Creating
    <2> QED
        BY <2>1, <2>2 DEF NewRow
<1> QED
    BY <1>1, <1>2

-----------------------------------------------------------------------------
(* Calls.                                                                  *)

\* What CallInv says of one call that is not idle.
CallOK(c) ==
    /\ row[call[c].acct] # None
    /\ Valid(call[c].acct) \in witness[c]
    /\ Seen(c) =>
           /\ call[c].seen \in Row
           /\ call[c].seen.expires = row[call[c].acct].expires
           /\ Passes(call[c].seen) => TRUE \in witness[c]
           /\ ~Enabled(call[c].seen) => FALSE \in witness[c]
    /\ call[c].pc \in {"verify", "authenticated"} =>
           call[c].scopes = row[call[c].acct].scopes
    /\ call[c].pc = "authenticated" => TRUE \in witness[c]
    /\ call[c].pc = "refused" => FALSE \in witness[c]

\* Time does not run backwards.
LEMMA NowGrows ==
    ASSUME TypeOK, [Next]_vars
    PROVE  now' >= now
<1>1. now \in Nat
    BY AccountsAssumption DEF TypeOK, Times
<1>2. CASE UNCHANGED now
    BY <1>1, <1>2
<1>3. CASE Tick
    BY <1>1, <1>3 DEF Tick
<1> QED
    BY <1>2, <1>3 DEF Next, Step, Manage, Authenticate, vars,
       POSTServiceAccount, InsertAccount, InsertScopes, Commit, HandOutToken,
       ManageRead, ManageUpdate, Arrive, QueryRow, QueryScopes,
       VerifyServiceAccount, CallAnswered, SessionScopes

\* What is observed of a call accumulates, and includes the present moment.
LEMMA Observed ==
    ASSUME TypeOK, Next, NEW c \in Calls, call'[c].pc # "idle"
    PROVE  /\ witness[c] \subseteq witness'[c]
           /\ Valid(call[c].acct)' \in witness'[c]
BY DEF Next, Observe

\* A call that does not move, whatever the others and the requests do.
LEMMA CallStays ==
    ASSUME TypeOK, TypeOK', ManageInv, Next, NEW c \in Calls,
           call[c].pc # "idle", call'[c] = call[c], CallOK(c)
    PROVE  CallOK(c)'
<1>1. call[c].acct \in Accounts
    BY Calling
<1>2. RowsGrow /\ row[call[c].acct] # None
    BY RowStep DEF CallOK
<1>3. /\ witness[c] \subseteq witness'[c]
      /\ Valid(call[c].acct)' \in witness'[c]
    BY Observed
<1>4. Seen(c) /\ Passes(call[c].seen)' => Passes(call[c].seen)
    <2> SUFFICES ASSUME Seen(c), Passes(call[c].seen)'
                 PROVE  Passes(call[c].seen)
        OBVIOUS
    <2>1. call[c].seen.expires \in Times
        BY DEF CallOK, Row
    <2>2. now' >= now /\ now \in Times /\ now' \in Times
        BY NowGrows DEF TypeOK
    <2>3. now' <= call[c].seen.expires
        BY DEF Passes
    <2>4. now <= call[c].seen.expires
        BY <2>1, <2>2, <2>3, AccountsAssumption DEF Times
    <2> QED
        BY <2>4 DEF Passes
<1> QED
    BY <1>1, <1>2, <1>3, <1>4 DEF CallOK, Seen, RowsGrow, Enabled

\* The row a call has just read is that of its account at that moment.
LEMMA CallReads ==
    ASSUME TypeOK, TypeOK', ManageInv, Next, NEW c \in Calls, CallOK(c),
           QueryRow(c)
    PROVE  CallOK(c)'
<1>0. call[c] \in Call \ {IdleCall} /\ call[c].acct \in Accounts
    BY Calling DEF QueryRow
<1>9. call'[c].pc # "idle"
    BY <1>0 DEF QueryRow, QueryFails, CallGoes, TypeOK, Call
<1>1. /\ witness[c] \subseteq witness'[c]
      /\ Valid(call[c].acct)' \in witness'[c]
    BY <1>9, Observed
<1>2. row' = row /\ now' = now
    BY DEF QueryRow
<1>3. row[call[c].acct] \in Row
    BY <1>0 DEF CallOK, TypeOK
<1>4. CASE QueryFails(c)
    BY <1>0, <1>1, <1>2, <1>4 DEF QueryFails, CallGoes, CallOK, Seen, TypeOK, Call
<1>5. CASE call' = [call EXCEPT ![c].pc = "scopes", ![c].seen = row[call[c].acct]]
    <2>1. /\ call'[c].pc = "scopes"
          /\ call'[c].acct = call[c].acct
          /\ call'[c].seen = row[call[c].acct]
        BY <1>0, <1>5 DEF TypeOK, Call
    <2>2. Valid(call[c].acct)' = Passes(call[c].seen)'
        BY <1>2, <2>1 DEF Valid, Passes, CallOK
    <2>3. Passes(call[c].seen)' \in BOOLEAN
        BY DEF Passes
    <2>4. Passes(call[c].seen)' => TRUE \in witness'[c]
        BY <1>1, <2>1, <2>2, <2>3
    <2>5. ~Passes(call[c].seen)' => FALSE \in witness'[c]
        BY <1>1, <2>1, <2>2, <2>3
    <2>6. ~Enabled(call[c].seen)' => ~Passes(call[c].seen)'
        BY DEF Enabled, Passes
    <2> QED
        BY <1>1, <1>2, <1>3, <2>1, <2>4, <2>5, <2>6 DEF CallOK, Seen
<1> QED
    BY <1>4, <1>5 DEF QueryRow

\* The scopes a call reads are those of its account, then and later.
LEMMA CallReadsScopes ==
    ASSUME TypeOK, ManageInv, Next, NEW c \in Calls, CallOK(c), QueryScopes(c)
    PROVE  CallOK(c)'
<1>0. call[c] \in Call \ {IdleCall} /\ call[c].acct \in Accounts
    BY Calling DEF QueryScopes
<1>9. call'[c].pc # "idle"
    BY <1>0 DEF QueryScopes, QueryFails, CallGoes, TypeOK, Call
<1>1. /\ witness[c] \subseteq witness'[c]
      /\ Valid(call[c].acct)' \in witness'[c]
    BY <1>9, Observed
<1>2. row' = row /\ now' = now
    BY DEF QueryScopes
<1>3. Seen(c)
    BY DEF QueryScopes, Seen
<1>4. CASE QueryFails(c)
    BY <1>0, <1>1, <1>2, <1>4 DEF QueryFails, CallGoes, CallOK, Seen, TypeOK, Call
<1>5. CASE call' = [call EXCEPT ![c].pc = "verify",
                                ![c].scopes = row[call[c].acct].scopes]
    <2>1. /\ call'[c].pc = "verify"
          /\ call'[c].acct = call[c].acct
          /\ call'[c].seen = call[c].seen
          /\ call'[c].scopes = row[call[c].acct].scopes
        BY <1>0, <1>5 DEF TypeOK, Call
    <2> QED
        BY <1>1, <1>2, <1>3, <2>1 DEF CallOK, Seen, Passes
<1> QED
    BY <1>4, <1>5 DEF QueryScopes

\* The decision rests on what was read, and on the time at which it is made.
LEMMA CallDecides ==
    ASSUME TypeOK, ManageInv, Next, NEW c \in Calls, CallOK(c),
           VerifyServiceAccount(c)
    PROVE  CallOK(c)'
<1>0. call[c] \in Call \ {IdleCall} /\ call[c].acct \in Accounts
    BY Calling DEF VerifyServiceAccount
<1>9. call'[c].pc # "idle"
    BY <1>0 DEF VerifyServiceAccount, CallGoes, TypeOK, Call
<1>1. /\ witness[c] \subseteq witness'[c]
      /\ Valid(call[c].acct)' \in witness'[c]
    BY <1>9, Observed
<1>2. row' = row /\ now' = now
    BY DEF VerifyServiceAccount
<1>3. /\ call'[c].acct = call[c].acct
      /\ call'[c].scopes = call[c].scopes
      /\ call'[c].pc = IF Passes(call[c].seen) THEN "authenticated" ELSE "refused"
    BY <1>0 DEF VerifyServiceAccount, CallGoes, TypeOK, Call
<1>4. Seen(c) /\ call[c].pc = "verify"
    BY DEF VerifyServiceAccount, Seen
<1>5. CASE Passes(call[c].seen)
    BY <1>1, <1>2, <1>3, <1>4, <1>5 DEF CallOK, Seen
<1>6. CASE ~Passes(call[c].seen)
    <2>1. FALSE \in witness[c]
        <3>1. CASE ~Enabled(call[c].seen)
            BY <1>4, <3>1 DEF CallOK
        <3>2. CASE ~(now <= call[c].seen.expires)
            <4>1. ~Valid(call[c].acct)
                BY <1>4, <3>2 DEF CallOK, Valid, Passes
            <4>2. Valid(call[c].acct) \in BOOLEAN
                BY DEF Valid
            <4> QED
                BY <4>1, <4>2 DEF CallOK
        <3> QED
            BY <1>6, <3>1, <3>2 DEF Passes, Enabled
    <2> QED
        BY <1>1, <1>2, <1>3, <1>4, <1>6, <2>1 DEF CallOK, Seen
<1> QED
    BY <1>5, <1>6

\* A call that moves on does so by a query or by the decision.
LEMMA CallMoves ==
    ASSUME TypeOK, Next, NEW c \in Calls, call[c].pc # "idle",
           call'[c] # call[c], call'[c].pc # "idle"
    PROVE  QueryRow(c) \/ QueryScopes(c) \/ VerifyServiceAccount(c)
<1>1. PICK d \in Calls : Authenticate(d)
    BY DEF Next, Step, Manage, POSTServiceAccount, InsertAccount, InsertScopes,
       Commit, HandOutToken, ManageRead, ManageUpdate, SessionScopes, Tick
<1>2. d = c
    BY <1>1 DEF Authenticate, Arrive, QueryRow, QueryScopes, QueryFails, CallGoes,
       VerifyServiceAccount, CallAnswered, TypeOK
<1>3. \A a \in Accounts : ~Arrive(c, a)
    BY DEF Arrive
<1>4. ~CallAnswered(c)
    BY DEF CallAnswered, TypeOK, IdleCall
<1> QED
    BY <1>1, <1>2, <1>3, <1>4 DEF Authenticate

\* Every step keeps what is known of the calls.
LEMMA CallStep == IInv /\ TypeOK' /\ [Next]_vars => CallInv' /\ AuthenticationIsAtomic'
<1> SUFFICES ASSUME IInv, TypeOK', [Next]_vars
             PROVE  CallInv' /\ AuthenticationIsAtomic'
    OBVIOUS
<1>1. CASE UNCHANGED vars
    BY <1>1 DEF vars, IInv, CallInv, AuthenticationIsAtomic, Seen, Valid, Passes
<1>2. CASE Next
    <2>1. ASSUME NEW c \in Calls, call'[c].pc # "idle"
          PROVE  CallOK(c)'
        <3>1. CASE call[c].pc = "idle"
            <4>1. PICK a \in Accounts : Arrive(c, a)
                BY <1>2, <2>1, <3>1 DEF Next, Step, Manage, Authenticate, IInv,
                   TypeOK, POSTServiceAccount, InsertAccount, InsertScopes, Commit,
                   HandOutToken, ManageRead, ManageUpdate, Arrive, QueryRow,
                   QueryScopes, QueryFails, CallGoes, VerifyServiceAccount,
                   CallAnswered, SessionScopes, Tick
            <4>2. row[a] # None /\ row' = row
                BY <4>1 DEF Arrive, IInv, CallInv
            <4>3. call'[c] = [pc |-> "row", acct |-> a, seen |-> None, scopes |-> {}]
                BY <4>1 DEF Arrive, IInv, TypeOK
            <4>4. Valid(call[c].acct)' \in witness'[c]
                BY <1>2, <2>1, Observed DEF IInv
            <4> QED
                BY <4>2, <4>3, <4>4 DEF CallOK, Seen
        <3>2. CASE call[c].pc # "idle"
            <4>1. CallOK(c)
                BY <3>2 DEF IInv, CallInv, CallOK, AuthenticationIsAtomic
            <4>2. CASE call'[c] = call[c]
                BY <1>2, <3>2, <4>1, <4>2, CallStays DEF IInv
            <4>3. CASE call'[c] # call[c]
                <5>1. QueryRow(c) \/ QueryScopes(c) \/ VerifyServiceAccount(c)
                    BY <1>2, <2>1, <3>2, <4>3, CallMoves DEF IInv
                <5> QED
                    BY <1>2, <4>1, <5>1, CallReads, CallReadsScopes, CallDecides
                    DEF IInv
            <4> QED
                BY <4>2, <4>3
        <3> QED
            BY <3>1, <3>2
    <2>2. ASSUME NEW a \in tokens'
          PROVE  row'[a] # None
        <3>1. CASE a \in tokens
            BY <3>1, RowStep DEF IInv, RowsGrow, TypeOK, CallInv
        <3>2. CASE a \notin tokens
            <4>1. PICK r \in Requests : HandOutToken(r) /\ a = manage[r].acct
                BY <1>2, <2>2, <3>2 DEF Next, Step, Manage, Authenticate,
                   POSTServiceAccount, InsertAccount, InsertScopes, Commit,
                   HandOutToken, ManageRead, ManageUpdate, Arrive, QueryRow,
                   QueryScopes, VerifyServiceAccount, CallAnswered,
                   SessionScopes, Tick
            <4> QED
                BY <4>1 DEF HandOutToken, IInv, ManageInv
        <3> QED
            BY <3>1, <3>2
    <2>3. \A c \in Calls : call'[c].pc = "idle" =>
              call'[c].pc # "authenticated" /\ call'[c].pc # "refused"
        OBVIOUS
    <2> QED
        BY <2>1, <2>2, <2>3 DEF CallInv, CallOK, AuthenticationIsAtomic
<1> QED
    BY <1>1, <1>2

-----------------------------------------------------------------------------
(* The theorems.                                                           *)

\* The invariant is inductive.
LEMMA Inductive == Spec => []IInv
<1>1. IInv /\ [Next]_vars => IInv'
    BY TypeStep, EverHadStep, ManageStep, RowInvStep, CallStep DEF IInv
<1> QED
    BY <1>1, InvInit, PTL DEF Spec

\* Every variable of the service accounts keeps its type.
THEOREM TypeCorrect == Spec => []TypeOK
<1>1. IInv => TypeOK
    BY DEF IInv
<1> QED
    BY <1>1, Inductive, PTL

\* VerifyServiceAccount, two queries and a check, decides as if it had looked
\* at the account at one moment after the request arrived.
THEOREM Atomic == Spec => []AuthenticationIsAtomic
<1>1. IInv => AuthenticationIsAtomic
    BY DEF IInv
<1> QED
    BY <1>1, Inductive, PTL

\* A request let through acts with its account's scopes, which its creator
\* had in some session.
THEOREM Granted == Spec => []ActsWithinGrant
<1>1. IInv => ActsWithinGrant
    <2> SUFFICES ASSUME IInv, NEW c \in Calls, call[c].pc = "authenticated"
                 PROVE  /\ call[c].scopes = row[call[c].acct].scopes
                        /\ row[call[c].acct].scopes
                               \subseteq ever[row[call[c].acct].by]
        BY DEF ActsWithinGrant
    <2>1. call[c].acct \in Accounts
        BY Calling DEF IInv
    <2> QED
        BY <2>1 DEF IInv, CallInv, RowInv
<1> QED
    BY <1>1, Inductive, PTL

\* A deleted account never changes again, whatever overlapping requests read.
THEOREM Deletion == Spec => DeletionIsFinal
<1>1. IInv /\ [Next]_vars =>
          [\A a \in Accounts :
               row[a] # None /\ row[a].deletedAt # None => row'[a] = row[a]]_vars
    BY RowStep DEF IInv, RowsGrow
<1> QED
    BY <1>1, Inductive, PTL DEF Spec, DeletionIsFinal
=============================================================================
