--------------------------- MODULE Sessions_proofs ---------------------------
(***************************************************************************)
(* Proofs about Sessions, for any number of browsers, users, tokens,       *)
(* logins, requests and failures, and any lifetimes.                       *)
(***************************************************************************)
EXTENDS Sessions, TLAPS

\* Who has a login: the session it is stored in, the request that will store
\* it, and the request that will delete its session.
Stores(t, l) == store[t] # None /\ store[t].login = l

Redeemed(r) == req[r].pc \in {"userInfo", "upsert", "reread"}

Writes(r, l) ==
    \/ req[r].pc = "respond" /\ req[r].data.login = l
    \/ Redeemed(r) /\ req[r].login = l

Destroys(r, l) == req[r].pc = "destroy" /\ req[r].data.login = l

\* Who has logged in has no other login under way, and a callback starts from
\* a session in which nobody has.
Either(data) == data.login = None \/ data.state = None

Neither(data) == data.login = None /\ data.state = None

DataInv ==
    /\ \A t \in Tokens : store[t] # None => Either(store[t])
    /\ \A r \in Requests :
           /\ req[r].pc = "respond" => Either(req[r].data)
           /\ req[r].pc = "exchange" \/ Redeemed(r) =>
                  Neither(req[r].data) /\ req[r].login \in Logins
           /\ req[r].pc = "destroy" => req[r].data.login # None

\* A login is redeemed once.  Until its callback is answered nobody else has
\* it; then one session does, until a request deletes it that no other copy
\* outlives.
LoginInv ==
    \A l \in Logins :
        /\ l \in ended => login[l] = "redeemed"
        /\ \A r \in Requests : Writes(r, l) =>
               /\ login[l] = "redeemed"
               /\ l \notin ended
               /\ \A t \in Tokens : ~Stores(t, l)
               /\ \A q \in Requests \ {r} : ~Writes(q, l)
               /\ \A q \in Requests : ~Destroys(q, l)
        /\ \A s \in Tokens : Stores(s, l) =>
               /\ login[l] = "redeemed"
               /\ l \notin ended
               /\ \A t \in Tokens : Stores(t, l) => s = t
        /\ \A r \in Requests : Destroys(r, l) =>
               /\ login[l] = "redeemed"
               /\ \A t \in Tokens : Stores(t, l) => t = req[r].token

Between(r) == req[r].pc \in {"upsert", "reread"}

\* A login that is alone finds in the table what it wrote there.
AloneInv ==
    \A r \in Requests : Between(r) /\ req[r].alone =>
        /\ \A q \in Requests \ {r} : Between(q) => User(q) # User(r)
        /\ req[r].pc = "reread" => db[User(r)] = req[r].groups

IInv == TypeOK /\ DataInv /\ LoginInv /\ AloneInv

-----------------------------------------------------------------------------
(* Types.                                                                  *)

\* What a request loads.
LEMMA LoadedType ==
    ASSUME TypeOK, NEW b \in Browsers
    PROVE  /\ Loaded(b) \in Data
           /\ LoadedToken(b) \in Tokens \cup {None}
           /\ LoadedToken(b) # None =>
                  store[LoadedToken(b)] # None /\ Loaded(b) = store[LoadedToken(b)]
           /\ LoadedToken(b) = None => Loaded(b) = EmptyData
<1>1. EmptyData \in Data
    BY SessionsAssumption DEF EmptyData, Data, LoginOrNone
<1> QED
    BY <1>1, SessionsAssumption DEF TypeOK, Loaded, LoadedToken, Found

Working == [pc : {"respond", "destroy", "exchange", "userInfo", "upsert", "reread"},
            browser : Browsers, token : Tokens \cup {None}, data : Data,
            login : LoginOrNone, groups : SUBSET Groups, expires : 0 .. TokenLife,
            alone : BOOLEAN]

\* A request that is not idle.
LEMMA WorkingType ==
    ASSUME TypeOK, NEW r \in Requests, req[r].pc # "idle"
    PROVE  /\ req[r] \in Working
           /\ req[r].browser \in Browsers
           /\ req[r].token \in Tokens \cup {None}
           /\ req[r].data \in Data
           /\ req[r].login \in LoginOrNone
           /\ req[r].groups \in SUBSET Groups
           /\ req[r].expires \in 0 .. TokenLife
           /\ User(r) \in Users
<1>1. req[r] \in Working
    BY DEF TypeOK, Request, Working, IdleRequest
<1> QED
    BY <1>1, SessionsAssumption DEF Working, User

\* A request that becomes another.
LEMMA RequestType ==
    ASSUME TypeOK, NEW r \in Requests, NEW new \in Working \cup {IdleRequest},
           req' = [req EXCEPT ![r] = new]
    PROVE  req' \in [Requests -> Request]
BY DEF TypeOK, Request, Working

\* A request that arrives.
LEMMA ArrivesType ==
    ASSUME TypeOK, NEW r \in Requests, NEW b \in Browsers,
           NEW pc \in {"respond", "destroy", "exchange"}, NEW data \in Data,
           NEW l \in LoginOrNone, Arrives(r, b, pc, data, l)
    PROVE  req' \in [Requests -> Request]
<1>1. LoadedToken(b) \in Tokens \cup {None}
    BY LoadedType
<1>2. [pc |-> pc, browser |-> b, token |-> LoadedToken(b), data |-> data,
       login |-> l, groups |-> {}, expires |-> 0, alone |-> FALSE] \in Working
    BY <1>1, SessionsAssumption DEF Working
<1> QED
    BY <1>2, RequestType DEF Arrives

\* A request that is answered, or goes on.
LEMMA GoesType ==
    ASSUME TypeOK, NEW r \in Requests, req[r].pc # "idle",
           \/ Answered(r)
           \/ \E pc \in {"respond", "reread"} : Goes(r, pc)
    PROVE  req' \in [Requests -> Request]
<1>1. CASE Answered(r)
    BY <1>1, RequestType DEF Answered
<1>2. ASSUME NEW pc \in {"respond", "reread"}, Goes(r, pc)
      PROVE  req' \in [Requests -> Request]
    <2>1. [req[r] EXCEPT !.pc = pc] \in Working
        BY WorkingType DEF Working
    <2>2. req' = [req EXCEPT ![r] = [req[r] EXCEPT !.pc = pc]]
        BY <1>2 DEF Goes
    <2> QED
        BY <2>1, <2>2, RequestType
<1> QED
    BY <1>1, <1>2

\* Data gets older, and stays data.
LEMMA OlderType ==
    ASSUME NEW data \in Data
    PROVE  /\ Older(data) \in Data
           /\ Older(data).login = data.login
           /\ Older(data).state = data.state
<1>1. \A n \in Nat : \A k \in 0 .. n : Less(k) \in 0 .. n
    BY DEF Less
<1>2. data.expires \in 0 .. TokenLife /\ data.left \in 0 .. Lifetime
    BY DEF Data
<1>3. Less(data.expires) \in 0 .. TokenLife /\ Less(data.left) \in 0 .. Lifetime
    BY <1>1, <1>2, SessionsAssumption
<1> QED
    BY <1>3 DEF Data, Older

\* What time leaves of a request.
LEMMA TickRequest ==
    ASSUME TypeOK, Tick, NEW r \in Requests
    PROVE  /\ req'[r].pc = req[r].pc
           /\ req'[r].token = req[r].token
           /\ req'[r].browser = req[r].browser
           /\ req'[r].login = req[r].login
           /\ req'[r].groups = req[r].groups
           /\ req'[r].alone = req[r].alone
           /\ req'[r].data.login = req[r].data.login
           /\ req'[r].data.state = req[r].data.state
<1>1. CASE req[r].pc = "idle"
    BY <1>1 DEF Tick
<1>2. CASE req[r].pc # "idle"
    <2>1. req[r] \in Working
        BY <1>2, WorkingType
    <2>2. /\ Older(req[r].data).login = req[r].data.login
          /\ Older(req[r].data).state = req[r].data.state
        BY <1>2, WorkingType, OlderType
    <2>3. req'[r] = [req[r] EXCEPT !.data = Older(@), !.expires = Less(@)]
        BY <1>2 DEF Tick
    <2>4. req'[r].data = Older(req[r].data)
        BY <2>1, <2>3 DEF Working
    <2> QED
        BY <2>1, <2>2, <2>3, <2>4 DEF Working
<1> QED
    BY <1>1, <1>2

\* What the answer of the user-info endpoint leaves of a request.
LEMMA FetchRequest ==
    ASSUME TypeOK, NEW r \in Requests, FetchUserInfo(r), NEW q \in Requests
    PROVE  /\ q # r => req'[q].pc = req[q].pc
           /\ req'[r].pc = "upsert"
           /\ req'[q].browser = req[q].browser
           /\ req'[q].token = req[q].token
           /\ req'[q].data = req[q].data
           /\ req'[q].login = req[q].login
           /\ q # r => req'[q].groups = req[q].groups
<1>1. ASSUME q # r
      PROVE  /\ req'[q].pc = req[q].pc
             /\ req'[q].browser = req[q].browser
             /\ req'[q].token = req[q].token
             /\ req'[q].data = req[q].data
             /\ req'[q].login = req[q].login
             /\ req'[q].groups = req[q].groups
    <2>1. req'[q] = [req[q] EXCEPT !.alone = @ /\ q \notin Overlapping(r)]
        BY <1>1 DEF FetchUserInfo
    <2>2. CASE req[q] = IdleRequest
        BY <2>1, <2>2 DEF IdleRequest
    <2>3. CASE req[q] \in Working
        BY <2>1, <2>3 DEF Working
    <2> QED
        BY <2>2, <2>3 DEF TypeOK, Request, Working
<1>2. /\ req'[r].pc = "upsert"
      /\ req'[r].browser = req[r].browser
      /\ req'[r].token = req[r].token
      /\ req'[r].data = req[r].data
      /\ req'[r].login = req[r].login
    <2>1. req[r] \in Working
        BY WorkingType DEF FetchUserInfo
    <2>2. PICK groups \in {req[r].groups, UserInfoGroups(r)} :
              req'[r] = [req[r] EXCEPT !.pc = "upsert", !.groups = groups,
                                       !.alone = (Overlapping(r) = {})]
        BY DEF FetchUserInfo
    <2> QED
        BY <2>1, <2>2 DEF Working
<1> QED
    BY <1>1, <1>2

\* Who is alone afterwards.
LEMMA FetchAlone ==
    ASSUME TypeOK, NEW r \in Requests, FetchUserInfo(r), NEW q \in Requests,
           req'[q].alone
    PROVE  IF q = r THEN Overlapping(r) = {}
                    ELSE req[q].alone /\ q \notin Overlapping(r)
<1>1. CASE q # r
    <2>1. req'[q] = [req[q] EXCEPT !.alone = @ /\ q \notin Overlapping(r)]
        BY <1>1 DEF FetchUserInfo
    <2>2. req'[q].alone = (req[q].alone /\ q \notin Overlapping(r))
        <3>1. CASE req[q] = IdleRequest
            BY <2>1, <3>1 DEF IdleRequest
        <3>2. CASE req[q] \in Working
            BY <2>1, <3>2 DEF Working
        <3> QED
            BY <3>1, <3>2 DEF TypeOK, Request, Working
    <2> QED
        BY <1>1, <2>2
<1>2. CASE q = r
    <2>1. req[r] \in Working
        BY WorkingType DEF FetchUserInfo
    <2>2. PICK groups \in {req[r].groups, UserInfoGroups(r)} :
              req'[r] = [req[r] EXCEPT !.pc = "upsert", !.groups = groups,
                                       !.alone = (Overlapping(r) = {})]
        BY DEF FetchUserInfo
    <2>3. req'[r].alone = (Overlapping(r) = {})
        BY <2>1, <2>2 DEF Working
    <2> QED
        BY <1>2, <2>3
<1> QED
    BY <1>1, <1>2

\* A counted failure stays within its bound.
LEMMA FaultType ==
    ASSUME TypeOK, NEW kind, Fault(kind)
    PROVE  faults' \in 0 .. MaxFaults
BY SessionsAssumption DEF TypeOK, Fault

\* Initially every variable has its type.
LEMMA TypeInit == Init => TypeOK
BY SessionsAssumption DEF Init, TypeOK, Request

\* Every step keeps the types.
LEMMA TypeStep == TypeOK /\ DataInv /\ [Next]_vars => TypeOK'
<1> SUFFICES ASSUME TypeOK, DataInv, [Next]_vars
             PROVE  TypeOK'
    OBVIOUS
<1>f. ASSUME NEW kind, Fault(kind)
      PROVE  faults' \in 0 .. MaxFaults
    BY <1>f, FaultType
<1>1. ASSUME NEW r \in Requests, NEW b \in Browsers, POSTLogoutHandler(r, b)
      PROVE  TypeOK'
    <2>1. req' \in [Requests -> Request]
        BY <1>1, LoadedType, ArrivesType DEF POSTLogoutHandler, LoginOrNone
    <2> QED
        BY <1>1, <2>1 DEF POSTLogoutHandler, TypeOK
<1>2. ASSUME NEW r \in Requests, NEW b \in Browsers, NEW l \in Logins,
             GETLoginHandler(r, b, l)
      PROVE  TypeOK'
    <2>1. [Loaded(b) EXCEPT !.state = l] \in Data
        BY LoadedType DEF Data, LoginOrNone
    <2>2. req' \in [Requests -> Request]
        BY <1>2, <2>1, ArrivesType DEF GETLoginHandler, LoginOrNone
    <2> QED
        BY <1>2, <2>2 DEF GETLoginHandler, TypeOK
<1>3. ASSUME NEW r \in Requests, NEW b \in Browsers, NEW l \in Logins,
             HandleCallback(r, b, l)
      PROVE  TypeOK'
    <2>1. WithoutState(Loaded(b)) \in Data
        BY LoadedType DEF WithoutState, Data, LoginOrNone
    <2>2. req' \in [Requests -> Request]
        BY <1>3, <2>1, ArrivesType DEF HandleCallback, LoginOrNone
    <2> QED
        BY <1>3, <2>2 DEF HandleCallback, TypeOK
<1>4. ASSUME NEW r \in Requests, Exchange(r)
      PROVE  TypeOK'
    <2> DEFINE one == [req[r] EXCEPT !.pc = "userInfo"]
               two == [one EXCEPT !.expires = TokenLife]
    <2>1. provider[User(r)] \in SUBSET Groups
        BY <1>4, WorkingType DEF Exchange, TypeOK
    <2>2. one \in Working
        BY <1>4, WorkingType DEF Exchange, Working
    <2>3. two \in Working
        <3>1. TokenLife \in 0 .. TokenLife
            BY SessionsAssumption
        <3> HIDE DEF one
        <3> QED
            BY <2>2, <3>1 DEF Working
    <2>4. [two EXCEPT !.groups = provider[User(r)]] \in Working
        BY <2>1, <2>3 DEF Working
    <2>5. req' \in [Requests -> Request]
        <3>1. CASE Goes(r, "respond")
            BY <1>4, <3>1, GoesType DEF Exchange
        <3>2. CASE req' = [req EXCEPT ![r] =
                               [two EXCEPT !.groups = provider[User(r)]]]
            BY <2>4, <3>2, RequestType
        <3> QED
            BY <1>4, <3>1, <3>2 DEF Exchange
    <2>6. login' \in [Logins -> {"unused", "started", "granted", "redeemed"}]
        BY <1>4 DEF Exchange, TypeOK
    <2>7. faults' \in 0 .. MaxFaults
        BY <1>4, <1>f DEF Exchange, TypeOK
    <2> QED
        BY <1>4, <2>5, <2>6, <2>7 DEF Exchange, TypeOK
<1>5. ASSUME NEW r \in Requests, FetchUserInfo(r)
      PROVE  TypeOK'
    <2>1. UserInfoGroups(r) \in SUBSET Groups /\ req[r].groups \in SUBSET Groups
        BY <1>5, WorkingType DEF FetchUserInfo, UserInfoGroups, TypeOK
    <2>2. ASSUME NEW groups \in {req[r].groups, UserInfoGroups(r)}
          PROVE  [req[r] EXCEPT !.pc = "upsert", !.groups = groups,
                                !.alone = (Overlapping(r) = {})] \in Request
        <3> DEFINE one == [req[r] EXCEPT !.pc = "upsert"]
                   two == [one EXCEPT !.groups = groups]
        <3>1. one \in Working
            BY <1>5, WorkingType DEF FetchUserInfo, Working
        <3>2. two \in Working
            BY <2>1, <2>2, <3>1 DEF Working
        <3> QED
            BY <3>2 DEF Working, Request
    <2>3. ASSUME NEW q \in Requests, NEW alone \in BOOLEAN, q \notin Overlapping(r)
          PROVE  [req[q] EXCEPT !.alone = @ /\ q \notin Overlapping(r)] \in Request
        <3>1. req[q].alone \in BOOLEAN
            <4>1. CASE req[q] = IdleRequest
                BY <4>1 DEF IdleRequest
            <4>2. CASE req[q] \in Working
                BY <4>2 DEF Working
            <4> QED
                BY <4>1, <4>2 DEF TypeOK, Request, Working
        <3>2. [req[q] EXCEPT !.alone = @ /\ q \notin Overlapping(r)] = req[q]
            BY <2>3, <3>1 DEF TypeOK, Request, IdleRequest
        <3> QED
            BY <3>2 DEF TypeOK
    <2>4. ASSUME NEW q \in Requests, q \in Overlapping(r)
          PROVE  [req[q] EXCEPT !.alone = @ /\ q \notin Overlapping(r)] \in Request
        <3>1. req[q] \in Working
            BY <2>4, WorkingType DEF Overlapping
        <3> QED
            BY <2>4, <3>1 DEF Working, Request
    <2>5. req' \in [Requests -> Request]
        BY <1>5, <2>2, <2>3, <2>4 DEF FetchUserInfo
    <2>6. faults' \in 0 .. MaxFaults
        BY <1>5, <1>f DEF FetchUserInfo, TypeOK
    <2> QED
        BY <1>5, <2>5, <2>6 DEF FetchUserInfo, TypeOK
<1>6. ASSUME NEW r \in Requests, UpsertUser(r)
      PROVE  TypeOK'
    <2>1. req' \in [Requests -> Request]
        BY <1>6, GoesType DEF UpsertUser
    <2>2. db' \in [Users -> SUBSET Groups]
        BY <1>6, WorkingType DEF UpsertUser, GroupsReplaced, TypeOK
    <2>3. faults' \in 0 .. MaxFaults
        BY <1>6, <1>f DEF UpsertUser, TypeOK
    <2> QED
        BY <1>6, <2>1, <2>2, <2>3 DEF UpsertUser, TypeOK
<1>7. ASSUME NEW r \in Requests, CreateSession(r)
      PROVE  TypeOK'
    <2>1. db[User(r)] \in SUBSET Groups
        BY <1>7, WorkingType DEF CreateSession, TypeOK
    <2> DEFINE one == [req[r].data EXCEPT !.login = req[r].login]
               two == [one EXCEPT !.groups = db[User(r)]]
               data == [two EXCEPT !.expires = req[r].expires]
    <2>2. one \in Data
        BY <1>7, WorkingType DEF CreateSession, Data
    <2>3. two \in Data
        BY <2>1, <2>2 DEF Data
    <2>4. data \in Data
        BY <1>7, <2>3, WorkingType DEF CreateSession, Data
    <2>6. [[req[r] EXCEPT !.pc = "respond"] EXCEPT !.data = data] \in Working
        <3>1. [req[r] EXCEPT !.pc = "respond"] \in Working
            BY <1>7, WorkingType DEF CreateSession, Working
        <3> HIDE DEF data
        <3> QED
            BY <2>4, <3>1 DEF Working
    <2>7. req' \in [Requests -> Request]
        <3>1. CASE Goes(r, "respond")
            BY <1>7, <3>1, GoesType DEF CreateSession
        <3>2. CASE req' = [req EXCEPT ![r] =
                     [req[r] EXCEPT !.pc = "respond", !.data = data]]
            BY <2>6, <3>2, RequestType
        <3> QED
            BY <1>7, <3>1, <3>2 DEF CreateSession
    <2>5. faults' \in 0 .. MaxFaults
        BY <1>7, <1>f DEF CreateSession, TypeOK
    <2> QED
        BY <1>7, <2>7, <2>5 DEF CreateSession, TypeOK
<1>8. ASSUME NEW r \in Requests, Logout(r)
      PROVE  TypeOK'
    <2>1. req' \in [Requests -> Request]
        BY <1>8, GoesType DEF Logout
    <2>2. req[r].data.login \in Logins
        BY <1>8, WorkingType DEF Logout, DataInv, Data, LoginOrNone
    <2>3. faults' \in 0 .. MaxFaults
        BY <1>8, <1>f DEF Logout, TypeOK
    <2> QED
        BY <1>8, <2>1, <2>2, <2>3 DEF Logout, TypeOK
<1>9. ASSUME NEW r \in Requests, Save(r)
      PROVE  TypeOK'
    <2>1. req' \in [Requests -> Request]
        BY <1>9, GoesType DEF Save
    <2>2. req[r].data \in Data
        BY <1>9, WorkingType DEF Save
    <2>3. store' \in [Tokens -> Data \cup {None}]
        BY <1>9, <2>2 DEF Save, TypeOK
    <2>4. login' \in [Logins -> {"unused", "started", "granted", "redeemed"}]
        BY <1>9 DEF Save, TypeOK
    <2>5. cookie' \in [Browsers -> Tokens \cup {None}]
        BY <1>9 DEF Save, TypeOK
    <2> QED
        BY <1>9, <2>1, <2>3, <2>4, <2>5 DEF Save, TypeOK
<1>10. ASSUME NEW l \in Logins, Grant(l)
       PROVE  TypeOK'
    BY <1>10 DEF Grant, TypeOK
<1>11. ASSUME NEW u \in Users, NEW groups \in SUBSET Groups, ChangeGroups(u, groups)
       PROVE  TypeOK'
    BY <1>11 DEF ChangeGroups, TypeOK
<1>12. CASE Tick
    <2>1. store' \in [Tokens -> Data \cup {None}]
        BY <1>12, OlderType DEF Tick, TypeOK
    <2>2. ASSUME NEW r \in Requests, req[r].pc # "idle"
          PROVE  [req[r] EXCEPT !.data = Older(@), !.expires = Less(@)] \in Request
        <3>1. req[r] \in Working /\ Older(req[r].data) \in Data
            BY <2>2, WorkingType, OlderType
        <3>2. Less(req[r].expires) \in 0 .. TokenLife
            BY <2>2, WorkingType, SessionsAssumption DEF Less
        <3> QED
            BY <3>1, <3>2 DEF Working, Request
    <2>3. req' \in [Requests -> Request]
        BY <1>12, <2>2 DEF Tick, TypeOK
    <2> QED
        BY <1>12, <2>1, <2>3 DEF Tick, TypeOK
<1>13. CASE UNCHANGED vars
    BY <1>13 DEF vars, TypeOK
<1> QED
    BY <1>1, <1>2, <1>3, <1>4, <1>5, <1>6, <1>7, <1>8, <1>9, <1>10, <1>11,
       <1>12, <1>13 DEF Next, Callback

-----------------------------------------------------------------------------
(* Data.                                                                   *)

\* One request changes, and no session.
LEMMA OneRequest ==
    ASSUME TypeOK, DataInv, NEW r \in Requests, UNCHANGED store,
           \A q \in Requests \ {r} : req'[q] = req[q],
           /\ req'[r].pc = "respond" => Either(req'[r].data)
           /\ req'[r].pc \in {"exchange", "userInfo", "upsert", "reread"} =>
                  Neither(req'[r].data) /\ req'[r].login \in Logins
           /\ req'[r].pc = "destroy" => req'[r].data.login # None
    PROVE  DataInv'
<1>1. ASSUME NEW q \in Requests
      PROVE  /\ req'[q].pc = "respond" => Either(req'[q].data)
             /\ req'[q].pc = "exchange" \/ Redeemed(q)' =>
                    Neither(req'[q].data) /\ req'[q].login \in Logins
             /\ req'[q].pc = "destroy" => req'[q].data.login # None
    <2>1. CASE q = r
        BY <2>1 DEF Redeemed
    <2>2. CASE q # r
        BY <2>2 DEF DataInv, Redeemed
    <2> QED
        BY <2>1, <2>2
<1> QED
    BY <1>1 DEF DataInv, Either, Neither

\* Every step keeps what is known of the data.
LEMMA DataStep == TypeOK /\ DataInv /\ [Next]_vars => DataInv'
<1> SUFFICES ASSUME TypeOK, DataInv, [Next]_vars
             PROVE  DataInv'
    OBVIOUS
<1>a. ASSUME NEW b \in Browsers
      PROVE  Loaded(b) \in Data /\ Either(Loaded(b))
    BY LoadedType DEF Loaded, Found, DataInv, Either, EmptyData, TypeOK
<1>b. ASSUME NEW r \in Requests, UNCHANGED store,
             req[r].pc = "exchange" \/ Redeemed(r), Goes(r, "respond")
      PROVE  DataInv'
    <2>1. Neither(req[r].data)
        BY <1>b DEF DataInv
    <2>2. req'[r].pc = "respond" /\ req'[r].data = req[r].data
        BY <1>b, WorkingType DEF Goes, TypeOK, Working, Redeemed
    <2> QED
        BY <1>b, <2>1, <2>2, OneRequest DEF Goes, TypeOK, Either, Neither
<1>1. ASSUME NEW r \in Requests, NEW b \in Browsers, POSTLogoutHandler(r, b)
      PROVE  DataInv'
    <2>1. req'[r].pc = "destroy" /\ req'[r].data.login # None
        BY <1>1 DEF POSTLogoutHandler, Arrives, IsUserAuthenticated,
                    IsAuthenticated, TypeOK
    <2> QED
        BY <1>1, <2>1, OneRequest DEF POSTLogoutHandler, Arrives, TypeOK
<1>2. ASSUME NEW r \in Requests, NEW b \in Browsers, NEW l \in Logins,
             GETLoginHandler(r, b, l)
      PROVE  DataInv'
    <2>1. [Loaded(b) EXCEPT !.state = l].login = None
        BY <1>2, <1>a DEF GETLoginHandler, IsAuthenticated, Data
    <2>2. req'[r].pc = "respond" /\ Either(req'[r].data)
        BY <1>2, <2>1 DEF GETLoginHandler, Arrives, TypeOK, Either
    <2> QED
        BY <1>2, <2>2, OneRequest DEF GETLoginHandler, Arrives, TypeOK
<1>3. ASSUME NEW r \in Requests, NEW b \in Browsers, NEW l \in Logins,
             HandleCallback(r, b, l)
      PROVE  DataInv'
    <2>1. Loaded(b).login = None
        BY <1>3, <1>a, SessionsAssumption DEF HandleCallback, Either
    <2>2. Neither(WithoutState(Loaded(b)))
        BY <1>a, <2>1 DEF WithoutState, Data, Neither
    <2>3. /\ req'[r].pc = "exchange"
          /\ req'[r].data = WithoutState(Loaded(b))
          /\ req'[r].login = l
        BY <1>3 DEF HandleCallback, Arrives, TypeOK
    <2> QED
        BY <1>3, <2>2, <2>3, OneRequest DEF HandleCallback, Arrives, TypeOK
<1>4. ASSUME NEW r \in Requests, Exchange(r)
      PROVE  DataInv'
    <2>1. CASE Goes(r, "respond")
        BY <1>4, <1>b, <2>1 DEF Exchange
    <2>2. CASE req' = [req EXCEPT ![r] =
                   [@ EXCEPT !.pc = "userInfo", !.expires = TokenLife,
                             !.groups = provider[User(r)]]]
        <3>1. /\ req'[r].pc = "userInfo"
              /\ req'[r].data = req[r].data
              /\ req'[r].login = req[r].login
            BY <1>4, <2>2, WorkingType DEF Exchange, TypeOK, Working
        <3> QED
            BY <1>4, <2>2, <3>1, OneRequest DEF Exchange, TypeOK, DataInv
    <2> QED
        BY <1>4, <2>1, <2>2 DEF Exchange
<1>5. ASSUME NEW r \in Requests, FetchUserInfo(r)
      PROVE  DataInv'
    <2>1. UNCHANGED store
        BY <1>5 DEF FetchUserInfo
    <2>2. ASSUME NEW q \in Requests
          PROVE  /\ req'[q].pc = req[q].pc \/ (q = r /\ req'[q].pc = "upsert")
                 /\ req'[q].data = req[q].data
                 /\ req'[q].login = req[q].login
        <3>1. /\ q # r => req'[q].pc = req[q].pc
              /\ req'[r].pc = "upsert"
            BY <1>5, FetchRequest
        <3>2. req'[q].data = req[q].data /\ req'[q].login = req[q].login
            BY <1>5, FetchRequest
        <3> QED
            BY <3>1, <3>2
    <2>3. Redeemed(r)
        BY <1>5 DEF FetchUserInfo, Redeemed
    <2> QED
        BY <2>1, <2>2, <2>3 DEF DataInv, Redeemed, Either, Neither
<1>6. ASSUME NEW r \in Requests, UpsertUser(r)
      PROVE  DataInv'
    <2>1. CASE Goes(r, "respond")
        BY <1>6, <1>b, <2>1 DEF UpsertUser, Redeemed
    <2>2. CASE Goes(r, "reread")
        <3>1. /\ req'[r].pc = "reread"
              /\ req'[r].data = req[r].data
              /\ req'[r].login = req[r].login
            BY <1>6, <2>2, WorkingType DEF UpsertUser, Goes, TypeOK, Working
        <3> QED
            BY <1>6, <2>2, <3>1, OneRequest
            DEF UpsertUser, Goes, TypeOK, DataInv, Redeemed
    <2> QED
        BY <1>6, <2>1, <2>2 DEF UpsertUser
<1>7. ASSUME NEW r \in Requests, CreateSession(r)
      PROVE  DataInv'
    <2>1. CASE Goes(r, "respond")
        BY <1>7, <1>b, <2>1 DEF CreateSession, Redeemed
    <2>2. CASE req' = [req EXCEPT ![r] = [@ EXCEPT
                   !.pc = "respond",
                   !.data = [req[r].data EXCEPT
                       !.login = req[r].login, !.groups = db[User(r)],
                       !.expires = req[r].expires]]]
        <3>1. Neither(req[r].data) /\ req[r].data \in Data
            BY <1>7, WorkingType DEF CreateSession, DataInv, Redeemed
        <3>2. [req[r].data EXCEPT !.login = req[r].login, !.groups = db[User(r)],
                                  !.expires = req[r].expires].state = None
            BY <3>1 DEF Data, Neither
        <3>3. req'[r].pc = "respond" /\ req'[r].data.state = None
            BY <1>7, <2>2, <3>2, WorkingType DEF CreateSession, TypeOK, Working
        <3> QED
            BY <1>7, <2>2, <3>3, OneRequest DEF CreateSession, TypeOK, Either
    <2> QED
        BY <1>7, <2>1, <2>2 DEF CreateSession
<1>8. ASSUME NEW r \in Requests, Logout(r)
      PROVE  DataInv'
    <2>1. \A q \in Requests : req'[q] = req[q] \/ req'[q].pc = "idle"
        BY <1>8 DEF Logout, Answered, IdleRequest, TypeOK
    <2>2. \A t \in Tokens : store'[t] = store[t] \/ store'[t] = None
        BY <1>8 DEF Logout, TypeOK
    <2> QED
        BY <2>1, <2>2 DEF DataInv, Redeemed, Either, Neither
<1>9. ASSUME NEW r \in Requests, Save(r)
      PROVE  DataInv'
    <2>1. \A q \in Requests : req'[q] = req[q] \/ req'[q].pc = "idle"
        BY <1>9 DEF Save, Answered, IdleRequest, TypeOK
    <2>2. \A t \in Tokens :
              store'[t] = store[t] \/ store'[t] = None \/ store'[t] = req[r].data
        BY <1>9 DEF Save, TypeOK
    <2>3. Either(req[r].data)
        BY <1>9 DEF Save, DataInv
    <2> QED
        BY <2>1, <2>2, <2>3 DEF DataInv, Redeemed, Either, Neither
<1>10. ASSUME UNCHANGED <<store, req>>
       PROVE  DataInv'
    BY <1>10 DEF DataInv, Redeemed, Either, Neither
<1>11. CASE Tick
    <2>1. ASSUME NEW t \in Tokens, store[t] # None, store'[t] # None
          PROVE  /\ store'[t].login = store[t].login
                 /\ store'[t].state = store[t].state
        BY <1>11, <2>1, OlderType DEF Tick, TypeOK
    <2>2. ASSUME NEW t \in Tokens, store[t] = None
          PROVE  store'[t] = None
        BY <1>11, <2>2 DEF Tick
    <2>3. ASSUME NEW r \in Requests
          PROVE  /\ req'[r].pc = req[r].pc
                 /\ req'[r].login = req[r].login
                 /\ req'[r].data.login = req[r].data.login
                 /\ req'[r].data.state = req[r].data.state
        BY <1>11, TickRequest
    <2> QED
        BY <2>1, <2>2, <2>3 DEF DataInv, Redeemed, Either, Neither
<1> QED
    BY <1>1, <1>2, <1>3, <1>4, <1>5, <1>6, <1>7, <1>8, <1>9, <1>10, <1>11
    DEF Next, Callback, Grant, ChangeGroups, vars

-----------------------------------------------------------------------------
(* Logins.                                                                 *)

\* A step that gives no login to anybody.
LEMMA QuietStep ==
    ASSUME TypeOK, LoginInv, UNCHANGED ended,
           \A l \in Logins : login[l] = "redeemed" => login'[l] = "redeemed",
           \A t \in Tokens, l \in Logins : Stores(t, l)' => Stores(t, l),
           \A r \in Requests, l \in Logins :
               /\ Writes(r, l)' => Writes(r, l)
               /\ Destroys(r, l)' => Destroys(r, l) /\ req'[r].token = req[r].token
    PROVE  LoginInv'
<1> SUFFICES ASSUME NEW l \in Logins
             PROVE  /\ l \in ended' => login'[l] = "redeemed"
                    /\ \A r \in Requests : Writes(r, l)' =>
                           /\ login'[l] = "redeemed"
                           /\ l \notin ended'
                           /\ \A t \in Tokens : ~Stores(t, l)'
                           /\ \A q \in Requests \ {r} : ~Writes(q, l)'
                           /\ \A q \in Requests : ~Destroys(q, l)'
                    /\ \A s \in Tokens : Stores(s, l)' =>
                           /\ login'[l] = "redeemed"
                           /\ l \notin ended'
                           /\ \A t \in Tokens : Stores(t, l)' => s = t
                    /\ \A r \in Requests : Destroys(r, l)' =>
                           /\ login'[l] = "redeemed"
                           /\ \A t \in Tokens : Stores(t, l)' => t = req'[r].token
    BY DEF LoginInv
<1> QED
    BY DEF LoginInv

\* Every step keeps what is known of the logins.
LEMMA LoginStep == TypeOK /\ DataInv /\ LoginInv /\ [Next]_vars => LoginInv'
<1> SUFFICES ASSUME TypeOK, DataInv, LoginInv, [Next]_vars
             PROVE  LoginInv'
    OBVIOUS
<1>a. ASSUME UNCHANGED <<store, req, ended>>,
             \A l \in Logins : login[l] = "redeemed" => login'[l] = "redeemed"
      PROVE  LoginInv'
    BY <1>a, QuietStep DEF Stores, Writes, Destroys, Redeemed
<1>b. ASSUME NEW r \in Requests, UNCHANGED <<store, ended>>,
             \A l \in Logins : login[l] = "redeemed" => login'[l] = "redeemed",
             \A q \in Requests \ {r} : req'[q] = req[q],
             \A l \in Logins : Writes(r, l)' => Writes(r, l),
             \A l \in Logins : ~Destroys(r, l)'
      PROVE  LoginInv'
    <2>1. \A t \in Tokens, l \in Logins : Stores(t, l)' => Stores(t, l)
        BY <1>b DEF Stores
    <2>2. \A q \in Requests \ {r}, l \in Logins :
              /\ Writes(q, l)' => Writes(q, l)
              /\ Destroys(q, l)' => Destroys(q, l) /\ req'[q].token = req[q].token
        BY <1>b DEF Writes, Destroys, Redeemed
    <2> QED
        BY <1>b, <2>1, <2>2, QuietStep
<1>c. ASSUME NEW r \in Requests, UNCHANGED <<store, ended>>,
             \A l \in Logins : login[l] = "redeemed" => login'[l] = "redeemed",
             req[r].pc = "exchange" \/ Redeemed(r), Goes(r, "respond")
      PROVE  LoginInv'
    <2>1. req'[r].pc = "respond" /\ req'[r].data.login = None
        BY <1>c, WorkingType DEF Goes, TypeOK, Working, Redeemed, DataInv, Neither
    <2>2. \A l \in Logins : ~Writes(r, l)' /\ ~Destroys(r, l)'
        BY <2>1, SessionsAssumption DEF Writes, Destroys, Redeemed
    <2> QED
        BY <1>c, <2>2, <1>b DEF Goes, TypeOK
<1>1. ASSUME NEW r \in Requests, NEW b \in Browsers, POSTLogoutHandler(r, b)
      PROVE  LoginInv'
    <2> DEFINE t0 == LoadedToken(b)
               l0 == Loaded(b).login
    <2>1. /\ t0 \in Tokens
          /\ Stores(t0, l0)
          /\ l0 \in Logins
        BY <1>1, LoadedType DEF POSTLogoutHandler, IsUserAuthenticated,
               IsAuthenticated, EmptyData, Stores, Data, LoginOrNone
    <2>2. req'[r].pc = "destroy" /\ req'[r].data.login = l0 /\ req'[r].token = t0
        BY <1>1 DEF POSTLogoutHandler, Arrives, TypeOK
    <2>3. \A l \in Logins :
              /\ ~Writes(r, l)'
              /\ Destroys(r, l)' => l = l0
        BY <2>2 DEF Writes, Destroys, Redeemed
    <2>4. \A q \in Requests \ {r}, l \in Logins :
              /\ Writes(q, l)' => Writes(q, l)
              /\ Destroys(q, l)' => Destroys(q, l) /\ req'[q].token = req[q].token
        BY <1>1 DEF POSTLogoutHandler, Arrives, TypeOK, Writes, Destroys, Redeemed
    <2>5. /\ \A t \in Tokens, l \in Logins : Stores(t, l)' <=> Stores(t, l)
          /\ UNCHANGED <<login, ended>>
        BY <1>1 DEF POSTLogoutHandler, Stores
    <2>6. ASSUME NEW l \in Logins
          PROVE  /\ l \in ended' => login'[l] = "redeemed"
                 /\ \A q \in Requests : Writes(q, l)' =>
                        /\ login'[l] = "redeemed"
                        /\ l \notin ended'
                        /\ \A t \in Tokens : ~Stores(t, l)'
                        /\ \A p \in Requests \ {q} : ~Writes(p, l)'
                        /\ \A p \in Requests : ~Destroys(p, l)'
        <3> HIDE DEF t0, l0
        <3> QED
            BY <2>1, <2>3, <2>4, <2>5 DEF LoginInv
    <2>7. ASSUME NEW l \in Logins
          PROVE  /\ \A s \in Tokens : Stores(s, l)' =>
                        /\ login'[l] = "redeemed"
                        /\ l \notin ended'
                        /\ \A t \in Tokens : Stores(t, l)' => s = t
                 /\ \A q \in Requests : Destroys(q, l)' =>
                        /\ login'[l] = "redeemed"
                        /\ \A t \in Tokens : Stores(t, l)' => t = req'[q].token
        <3> HIDE DEF t0, l0
        <3> QED
            BY <2>1, <2>2, <2>3, <2>4, <2>5 DEF LoginInv
    <2> QED
        BY <2>6, <2>7 DEF LoginInv
<1>2. ASSUME NEW r \in Requests, NEW b \in Browsers, NEW l \in Logins,
             GETLoginHandler(r, b, l)
      PROVE  LoginInv'
    <2>1. [Loaded(b) EXCEPT !.state = l].login = None
        BY <1>2, LoadedType DEF GETLoginHandler, IsAuthenticated, Data
    <2>2. req'[r].pc = "respond" /\ req'[r].data.login = None
        BY <1>2, <2>1 DEF GETLoginHandler, Arrives, TypeOK
    <2>3. \A m \in Logins : ~Writes(r, m)' /\ ~Destroys(r, m)'
        BY <2>2, SessionsAssumption DEF Writes, Destroys, Redeemed
    <2> QED
        BY <1>2, <2>3, <1>b DEF GETLoginHandler, Arrives, TypeOK
<1>3. ASSUME NEW r \in Requests, NEW b \in Browsers, NEW l \in Logins,
             HandleCallback(r, b, l)
      PROVE  LoginInv'
    <2>1. req'[r].pc = "exchange"
        BY <1>3 DEF HandleCallback, Arrives, TypeOK
    <2>2. \A m \in Logins : ~Writes(r, m)' /\ ~Destroys(r, m)'
        BY <2>1 DEF Writes, Destroys, Redeemed
    <2> QED
        BY <1>3, <2>2, <1>b DEF HandleCallback, Arrives, TypeOK
<1>4. ASSUME NEW r \in Requests, Exchange(r)
      PROVE  LoginInv'
    <2> DEFINE l0 == req[r].login
    <2>0. l0 \in Logins
        BY <1>4 DEF Exchange, DataInv
    <2>1. \A l \in Logins : login[l] = "redeemed" => login'[l] = "redeemed"
        BY <1>4 DEF Exchange, TypeOK
    <2>2. CASE Goes(r, "respond")
        BY <1>4, <1>c, <2>1, <2>2 DEF Exchange
    <2>3. CASE /\ login[l0] = "granted"
               /\ login' = [login EXCEPT ![l0] = "redeemed"]
               /\ req' = [req EXCEPT ![r] =
                      [@ EXCEPT !.pc = "userInfo", !.expires = TokenLife,
                                !.groups = provider[User(r)]]]
        <3>1. req'[r].pc = "userInfo" /\ req'[r].login = l0
            BY <1>4, <2>3, WorkingType DEF Exchange, TypeOK, Working
        <3>2. \A l \in Logins :
                  /\ Writes(r, l)' => l = l0
                  /\ ~Destroys(r, l)'
            BY <3>1 DEF Writes, Destroys, Redeemed
        <3>3. \A q \in Requests \ {r}, l \in Logins :
                  /\ Writes(q, l)' => Writes(q, l)
                  /\ Destroys(q, l)' => Destroys(q, l) /\ req'[q].token = req[q].token
            BY <2>3 DEF TypeOK, Writes, Destroys, Redeemed
        <3>4. /\ \A t \in Tokens, l \in Logins : Stores(t, l)' <=> Stores(t, l)
              /\ UNCHANGED ended
            BY <1>4 DEF Exchange, Stores
        <3>5. login'[l0] = "redeemed" /\ login[l0] # "redeemed"
            BY <2>0, <2>3 DEF TypeOK
        <3>6. ASSUME NEW l \in Logins
              PROVE  /\ l \in ended' => login'[l] = "redeemed"
                     /\ \A q \in Requests : Writes(q, l)' =>
                            /\ login'[l] = "redeemed"
                            /\ l \notin ended'
                            /\ \A t \in Tokens : ~Stores(t, l)'
                            /\ \A p \in Requests \ {q} : ~Writes(p, l)'
                            /\ \A p \in Requests : ~Destroys(p, l)'
            <4> HIDE DEF l0
            <4> QED
                BY <2>0, <2>1, <3>2, <3>3, <3>4, <3>5 DEF LoginInv
        <3>7. ASSUME NEW l \in Logins
              PROVE  /\ \A s \in Tokens : Stores(s, l)' =>
                            /\ login'[l] = "redeemed"
                            /\ l \notin ended'
                            /\ \A t \in Tokens : Stores(t, l)' => s = t
                     /\ \A q \in Requests : Destroys(q, l)' =>
                            /\ login'[l] = "redeemed"
                            /\ \A t \in Tokens : Stores(t, l)' => t = req'[q].token
            <4> HIDE DEF l0
            <4> QED
                BY <2>0, <2>1, <3>2, <3>3, <3>4, <3>5 DEF LoginInv
        <3> QED
            BY <3>6, <3>7 DEF LoginInv
    <2> QED
        BY <1>4, <2>2, <2>3 DEF Exchange
<1>5. ASSUME NEW r \in Requests, FetchUserInfo(r)
      PROVE  LoginInv'
    <2>1. UNCHANGED <<store, login, ended>>
        BY <1>5 DEF FetchUserInfo
    <2>2. \A t \in Tokens, l \in Logins : Stores(t, l)' => Stores(t, l)
        BY <2>1 DEF Stores
    <2>3. ASSUME NEW q \in Requests
          PROVE  /\ req'[q].pc = req[q].pc
                     \/ (req[q].pc = "userInfo" /\ req'[q].pc = "upsert")
                 /\ req'[q].data = req[q].data
                 /\ req'[q].login = req[q].login
                 /\ req'[q].token = req[q].token
        <3>1. /\ q # r => req'[q].pc = req[q].pc
              /\ req'[r].pc = "upsert"
            BY <1>5, FetchRequest
        <3>2. req'[q].data = req[q].data
            BY <1>5, FetchRequest
        <3>3. req'[q].login = req[q].login /\ req'[q].token = req[q].token
            BY <1>5, FetchRequest
        <3>4. req[r].pc = "userInfo"
            BY <1>5 DEF FetchUserInfo
        <3> QED
            BY <3>1, <3>2, <3>3, <3>4
    <2>4. \A q \in Requests, l \in Logins :
              /\ Writes(q, l)' => Writes(q, l)
              /\ Destroys(q, l)' => Destroys(q, l) /\ req'[q].token = req[q].token
        BY <2>3 DEF Writes, Destroys, Redeemed
    <2> QED
        BY <2>1, <2>2, <2>4, QuietStep
<1>6. ASSUME NEW r \in Requests, UpsertUser(r)
      PROVE  LoginInv'
    <2>1. CASE Goes(r, "respond")
        BY <1>6, <1>c, <2>1 DEF UpsertUser, Redeemed
    <2>2. CASE Goes(r, "reread")
        <3>1. req'[r].pc = "reread" /\ req'[r].login = req[r].login
            BY <1>6, <2>2, WorkingType DEF UpsertUser, Goes, TypeOK, Working
        <3>2. \A l \in Logins : (Writes(r, l)' => Writes(r, l)) /\ ~Destroys(r, l)'
            BY <1>6, <3>1 DEF UpsertUser, Writes, Destroys, Redeemed
        <3> QED
            BY <1>6, <2>2, <3>2, <1>b DEF UpsertUser, Goes, TypeOK
    <2> QED
        BY <1>6, <2>1, <2>2 DEF UpsertUser
<1>7. ASSUME NEW r \in Requests, CreateSession(r)
      PROVE  LoginInv'
    <2>1. CASE Goes(r, "respond")
        BY <1>7, <1>c, <2>1 DEF CreateSession, Redeemed
    <2>2. CASE req' = [req EXCEPT ![r] = [@ EXCEPT
                   !.pc = "respond",
                   !.data = [req[r].data EXCEPT
                       !.login = req[r].login, !.groups = db[User(r)],
                       !.expires = req[r].expires]]]
        <3>1. [req[r].data EXCEPT !.login = req[r].login, !.groups = db[User(r)],
                                  !.expires = req[r].expires].login = req[r].login
            BY <1>7, WorkingType DEF CreateSession, Data
        <3>2. req'[r].pc = "respond" /\ req'[r].data.login = req[r].login
            BY <1>7, <2>2, <3>1, WorkingType DEF CreateSession, TypeOK, Working
        <3>3. \A l \in Logins : (Writes(r, l)' => Writes(r, l)) /\ ~Destroys(r, l)'
            BY <1>7, <3>2 DEF CreateSession, Writes, Destroys, Redeemed
        <3> QED
            BY <1>7, <2>2, <3>3, <1>b DEF CreateSession, TypeOK
    <2> QED
        BY <1>7, <2>1, <2>2 DEF CreateSession
<1>8. ASSUME NEW r \in Requests, Logout(r)
      PROVE  LoginInv'
    <2>1. /\ req'[r].pc = "idle"
          /\ \A q \in Requests \ {r} : req'[q] = req[q]
          /\ UNCHANGED login
        BY <1>8 DEF Logout, Answered, IdleRequest, TypeOK
    <2>2. \A l \in Logins : ~Writes(r, l)' /\ ~Destroys(r, l)'
        BY <2>1 DEF Writes, Destroys, Redeemed
    <2>3. CASE UNCHANGED <<store, ended>>
        BY <2>1, <2>2, <2>3, <1>b
    <2>4. CASE /\ store' = [store EXCEPT ![req[r].token] = None]
               /\ ended' = ended \cup {req[r].data.login}
        <3> DEFINE l0 == req[r].data.login
                   t0 == req[r].token
        <3>1. Destroys(r, l0)
            BY <1>8 DEF Logout, Destroys
        <3>2. \A t \in Tokens, l \in Logins :
                  Stores(t, l)' => Stores(t, l) /\ t # t0
            BY <2>4 DEF Stores, TypeOK
        <3>3. \A q \in Requests, l \in Logins :
                  /\ Writes(q, l)' => Writes(q, l)
                  /\ Destroys(q, l)' => Destroys(q, l) /\ req'[q].token = req[q].token
            BY <2>1, <2>2 DEF Writes, Destroys, Redeemed
        <3>4. \A l \in Logins : l \in ended' => l \in ended \/ l = l0
            BY <2>4
        <3>5. ASSUME NEW l \in Logins
              PROVE  /\ l \in ended' => login'[l] = "redeemed"
                     /\ \A q \in Requests : Writes(q, l)' =>
                            /\ login'[l] = "redeemed"
                            /\ l \notin ended'
                            /\ \A t \in Tokens : ~Stores(t, l)'
                            /\ \A p \in Requests \ {q} : ~Writes(p, l)'
                            /\ \A p \in Requests : ~Destroys(p, l)'
            <4> HIDE DEF l0, t0
            <4> QED
                BY <2>1, <3>1, <3>2, <3>3, <3>4 DEF LoginInv
        <3>6. ASSUME NEW l \in Logins
              PROVE  /\ \A s \in Tokens : Stores(s, l)' =>
                            /\ login'[l] = "redeemed"
                            /\ l \notin ended'
                            /\ \A t \in Tokens : Stores(t, l)' => s = t
                     /\ \A q \in Requests : Destroys(q, l)' =>
                            /\ login'[l] = "redeemed"
                            /\ \A t \in Tokens : Stores(t, l)' => t = req'[q].token
            <4>1. \A t \in Tokens : Stores(t, l) /\ l = l0 => t = t0
                BY <3>1 DEF LoginInv
            <4> HIDE DEF l0, t0
            <4> QED
                BY <2>1, <3>2, <3>3, <3>4, <4>1 DEF LoginInv
        <3> QED
            BY <3>5, <3>6 DEF LoginInv
    <2> QED
        BY <1>8, <2>3, <2>4 DEF Logout
<1>9. ASSUME NEW r \in Requests, Save(r)
      PROVE  LoginInv'
    <2> DEFINE l0 == req[r].data.login
    <2>1. /\ req'[r].pc = "idle"
          /\ \A q \in Requests \ {r} : req'[q] = req[q]
          /\ UNCHANGED ended
          /\ \A l \in Logins : login[l] = "redeemed" => login'[l] = "redeemed"
        BY <1>9 DEF Save, Answered, IdleRequest, TypeOK
    <2>2. \A l \in Logins : ~Writes(r, l)' /\ ~Destroys(r, l)'
        BY <2>1 DEF Writes, Destroys, Redeemed
    <2>3. \A q \in Requests, l \in Logins :
              /\ Writes(q, l)' => Writes(q, l) /\ q # r
              /\ Destroys(q, l)' => Destroys(q, l) /\ req'[q].token = req[q].token
        BY <2>1, <2>2 DEF Writes, Destroys, Redeemed
    <2>4. Writes(r, l0)
        BY <1>9 DEF Save, Writes
    <2>5. PICK t0 \in Tokens :
              store' = [store EXCEPT ![t0] =
                  IF req[r].data.left > 0 THEN req[r].data ELSE None]
        BY <1>9 DEF Save
    <2>6. \A t \in Tokens, l \in Logins :
              Stores(t, l)' => Stores(t, l) \/ (t = t0 /\ l = l0)
        BY <2>5 DEF Stores, TypeOK
    <2>7. ASSUME NEW l \in Logins
          PROVE  /\ l \in ended' => login'[l] = "redeemed"
                 /\ \A q \in Requests : Writes(q, l)' =>
                        /\ login'[l] = "redeemed"
                        /\ l \notin ended'
                        /\ \A t \in Tokens : ~Stores(t, l)'
                        /\ \A p \in Requests \ {q} : ~Writes(p, l)'
                        /\ \A p \in Requests : ~Destroys(p, l)'
        <3> HIDE DEF l0
        <3> QED
            BY <2>1, <2>3, <2>4, <2>6 DEF LoginInv
    <2>8. ASSUME NEW l \in Logins
          PROVE  /\ \A s \in Tokens : Stores(s, l)' =>
                        /\ login'[l] = "redeemed"
                        /\ l \notin ended'
                        /\ \A t \in Tokens : Stores(t, l)' => s = t
                 /\ \A q \in Requests : Destroys(q, l)' =>
                        /\ login'[l] = "redeemed"
                        /\ \A t \in Tokens : Stores(t, l)' => t = req'[q].token
        <3> HIDE DEF l0
        <3> QED
            BY <2>1, <2>3, <2>4, <2>6 DEF LoginInv
    <2> QED
        BY <2>7, <2>8 DEF LoginInv
<1>10. ASSUME NEW l \in Logins, Grant(l)
       PROVE  LoginInv'
    BY <1>10, <1>a DEF Grant, TypeOK
<1>11. CASE Tick
    <2>1. UNCHANGED <<login, ended>>
        BY <1>11 DEF Tick
    <2>2. ASSUME NEW t \in Tokens, NEW l \in Logins, Stores(t, l)'
          PROVE  Stores(t, l)
        <3>1. store[t] \in Data
            BY <1>11, <2>2 DEF Tick, Stores, TypeOK
        <3>2. store'[t] = Older(store[t]) /\ store[t] # None
            BY <1>11, <2>2 DEF Tick, Stores
        <3> QED
            BY <2>2, <3>1, <3>2, OlderType DEF Stores
    <2>3. ASSUME NEW q \in Requests, NEW l \in Logins
          PROVE  /\ Writes(q, l)' => Writes(q, l)
                 /\ Destroys(q, l)' => Destroys(q, l) /\ req'[q].token = req[q].token
        BY <1>11, TickRequest DEF Writes, Destroys, Redeemed
    <2> QED
        BY <2>1, <2>2, <2>3, QuietStep
<1>12. ASSUME UNCHANGED <<store, req, ended, login>>
       PROVE  LoginInv'
    BY <1>12, <1>a
<1> QED
    BY <1>1, <1>2, <1>3, <1>4, <1>5, <1>6, <1>7, <1>8, <1>9, <1>10, <1>11, <1>12
    DEF Next, Callback, ChangeGroups, vars

-----------------------------------------------------------------------------
(* Groups.                                                                 *)

\* A step after which nobody is alone, or between two calls, who was not, and
\* the groups and the table are the same.
LEMMA AloneKept ==
    ASSUME TypeOK, AloneInv, UNCHANGED db,
           \A r \in Requests : Between(r)' =>
               /\ Between(r)
               /\ req'[r].pc = req[r].pc
               /\ User(r)' = User(r)
               /\ req'[r].groups = req[r].groups
               /\ req'[r].alone => req[r].alone
    PROVE  AloneInv'
<1> SUFFICES ASSUME NEW r \in Requests, Between(r)', req'[r].alone
             PROVE  /\ \A q \in Requests \ {r} : Between(q)' => User(q)' # User(r)'
                    /\ req'[r].pc = "reread" => db'[User(r)'] = req'[r].groups
    BY DEF AloneInv
<1> QED
    BY DEF AloneInv

\* One request changes, and is not between the two calls afterwards.
LEMMA AloneOne ==
    ASSUME TypeOK, AloneInv, UNCHANGED db, NEW r \in Requests,
           \A q \in Requests \ {r} : req'[q] = req[q],
           req'[r].pc \notin {"upsert", "reread"}
    PROVE  AloneInv'
BY AloneKept DEF Between, User

\* Every step keeps what is known of the table.
LEMMA AloneStep == TypeOK /\ AloneInv /\ [Next]_vars => AloneInv'
<1> SUFFICES ASSUME TypeOK, AloneInv, [Next]_vars
             PROVE  AloneInv'
    OBVIOUS
<1>a. ASSUME NEW r \in Requests, req[r].pc # "idle", UNCHANGED db,
             Goes(r, "respond") \/ Answered(r)
      PROVE  AloneInv'
    <2>1. CASE Goes(r, "respond")
        <3>1. req'[r].pc = "respond"
            BY <1>a, <2>1, WorkingType DEF Goes, TypeOK, Working
        <3> QED
            BY <1>a, <2>1, <3>1, AloneOne DEF Goes, TypeOK
    <2>2. CASE Answered(r)
        BY <1>a, <2>2, AloneOne DEF Answered, TypeOK, IdleRequest
    <2> QED
        BY <1>a, <2>1, <2>2
<1>b. ASSUME NEW r \in Requests, NEW b, NEW data, NEW l,
             NEW pc \in {"respond", "destroy", "exchange"},
             Arrives(r, b, pc, data, l), UNCHANGED db
      PROVE  AloneInv'
    BY <1>b, AloneOne DEF Arrives, TypeOK
<1>1. ASSUME NEW r \in Requests, NEW b \in Browsers, POSTLogoutHandler(r, b)
      PROVE  AloneInv'
    BY <1>1, <1>b DEF POSTLogoutHandler
<1>2. ASSUME NEW r \in Requests, NEW b \in Browsers, NEW l \in Logins,
             GETLoginHandler(r, b, l)
      PROVE  AloneInv'
    BY <1>2, <1>b DEF GETLoginHandler
<1>3. ASSUME NEW r \in Requests, NEW b \in Browsers, NEW l \in Logins,
             HandleCallback(r, b, l)
      PROVE  AloneInv'
    BY <1>3, <1>b DEF HandleCallback
<1>4. ASSUME NEW r \in Requests, Exchange(r)
      PROVE  AloneInv'
    <2>1. CASE Goes(r, "respond")
        BY <1>4, <1>a, <2>1 DEF Exchange
    <2>2. CASE req' = [req EXCEPT ![r] =
                   [@ EXCEPT !.pc = "userInfo", !.expires = TokenLife,
                             !.groups = provider[User(r)]]]
        <3>1. req'[r].pc = "userInfo"
            BY <1>4, <2>2, WorkingType DEF Exchange, TypeOK, Working
        <3> QED
            BY <1>4, <2>2, <3>1, AloneOne DEF Exchange, TypeOK
    <2> QED
        BY <1>4, <2>1, <2>2 DEF Exchange
<1>5. ASSUME NEW r \in Requests, FetchUserInfo(r)
      PROVE  AloneInv'
    <2>1. UNCHANGED db
        BY <1>5 DEF FetchUserInfo
    <2>2. ASSUME NEW q \in Requests
          PROVE  User(q)' = User(q)
        BY <1>5, FetchRequest DEF User
    <2>3. /\ \A q \in Requests \ {r} : req'[q].pc = req[q].pc
          /\ req'[r].pc = "upsert"
        BY <1>5, FetchRequest
    <2>4. \A q \in Requests \ {r} : req'[q].groups = req[q].groups
        BY <1>5, FetchRequest
    <2>5. ASSUME NEW p \in Requests, Between(p)', req'[p].alone
          PROVE  /\ \A q \in Requests \ {p} : Between(q)' => User(q) # User(p)
                 /\ req'[p].pc = "reread" => db[User(p)] = req'[p].groups
        <3>1. CASE p = r
            <4>1. Overlapping(r) = {}
                BY <1>5, <2>5, <3>1, FetchAlone
            <4> QED
                BY <2>3, <3>1, <4>1 DEF Between, Overlapping
        <3>2. CASE p # r
            <4>1. req[p].alone /\ p \notin Overlapping(r)
                BY <1>5, <2>5, <3>2, FetchAlone
            <4>2. Between(p) /\ User(p) # User(r)
                BY <2>3, <2>5, <3>2, <4>1 DEF Between, Overlapping
            <4>3. \A q \in Requests \ {p} : Between(q)' => User(q) # User(p)
                BY <2>3, <3>2, <4>1, <4>2 DEF AloneInv, Between
            <4>4. req'[p].pc = "reread" => db[User(p)] = req'[p].groups
                BY <2>3, <2>4, <3>2, <4>1, <4>2 DEF AloneInv
            <4> QED
                BY <4>3, <4>4
        <3> QED
            BY <3>1, <3>2
    <2> QED
        BY <2>1, <2>2, <2>5 DEF AloneInv
<1>6. ASSUME NEW r \in Requests, UpsertUser(r)
      PROVE  AloneInv'
    <2>1. CASE Goes(r, "respond") /\ UNCHANGED db
        BY <1>6, <1>a, <2>1 DEF UpsertUser
    <2>2. CASE GroupsReplaced(r) /\ Goes(r, "reread")
        <3>1. Between(r) /\ User(r) \in Users
            BY <1>6, WorkingType DEF UpsertUser, Between
        <3>2. /\ req'[r].pc = "reread"
              /\ req'[r].alone = req[r].alone
              /\ req'[r].groups = req[r].groups
              /\ req'[r].browser = req[r].browser
            BY <1>6, <2>2, WorkingType DEF UpsertUser, Goes, TypeOK, Working
        <3>3. \A q \in Requests \ {r} : req'[q] = req[q]
            BY <2>2 DEF Goes, TypeOK
        <3>4. \A q \in Requests : (Between(q)' <=> Between(q)) /\ User(q)' = User(q)
            BY <3>1, <3>2, <3>3 DEF Between, User
        <3>5. db'[User(r)] = req[r].groups
            BY <2>2, <3>1 DEF GroupsReplaced, TypeOK
        <3>6. \A u \in Users : u # User(r) => db'[u] = db[u]
            BY <2>2 DEF GroupsReplaced, TypeOK
        <3>7. ASSUME NEW p \in Requests, Between(p), req'[p].alone
              PROVE  /\ \A q \in Requests \ {p} : Between(q) => User(q) # User(p)
                     /\ req'[p].pc = "reread" => db'[User(p)] = req'[p].groups
            <4>1. req[p].alone
                BY <3>2, <3>3, <3>7
            <4>2. \A q \in Requests \ {p} : Between(q) => User(q) # User(p)
                BY <3>7, <4>1 DEF AloneInv
            <4>3. CASE p = r
                BY <3>2, <3>5, <4>2, <4>3
            <4>4. CASE p # r
                <5>1. User(p) # User(r) /\ User(p) \in Users
                    BY <3>1, <3>7, <4>2, <4>4, WorkingType DEF Between
                <5> QED
                    BY <3>3, <3>6, <3>7, <4>1, <4>2, <4>4, <5>1 DEF AloneInv
            <4> QED
                BY <4>3, <4>4
        <3> QED
            BY <3>4, <3>7 DEF AloneInv
    <2> QED
        BY <1>6, <2>1, <2>2 DEF UpsertUser
<1>7. ASSUME NEW r \in Requests, CreateSession(r)
      PROVE  AloneInv'
    <2>1. CASE Goes(r, "respond")
        BY <1>7, <1>a, <2>1 DEF CreateSession
    <2>2. CASE req' = [req EXCEPT ![r] = [@ EXCEPT
                   !.pc = "respond",
                   !.data = [req[r].data EXCEPT
                       !.login = req[r].login, !.groups = db[User(r)],
                       !.expires = req[r].expires]]]
        <3>1. req'[r].pc = "respond"
            BY <1>7, <2>2, WorkingType DEF CreateSession, TypeOK, Working
        <3> QED
            BY <1>7, <2>2, <3>1, AloneOne DEF CreateSession, TypeOK
    <2> QED
        BY <1>7, <2>1, <2>2 DEF CreateSession
<1>8. ASSUME NEW r \in Requests, Logout(r)
      PROVE  AloneInv'
    BY <1>8, <1>a DEF Logout
<1>9. ASSUME NEW r \in Requests, Save(r)
      PROVE  AloneInv'
    BY <1>9, <1>a DEF Save
<1>10. ASSUME UNCHANGED <<req, db>>
       PROVE  AloneInv'
    BY <1>10, AloneKept DEF Between, User
<1>11. CASE Tick
    <2>1. UNCHANGED db
        BY <1>11 DEF Tick
    <2>2. ASSUME NEW r \in Requests
          PROVE  /\ req'[r].pc = req[r].pc
                 /\ req'[r].browser = req[r].browser
                 /\ req'[r].groups = req[r].groups
        BY <1>11, TickRequest
    <2>3. ASSUME NEW r \in Requests
          PROVE  req'[r].alone = req[r].alone
        BY <1>11, TickRequest
    <2> QED
        BY <2>1, <2>2, <2>3, AloneKept DEF Between, User
<1> QED
    BY <1>1, <1>2, <1>3, <1>4, <1>5, <1>6, <1>7, <1>8, <1>9, <1>10, <1>11
    DEF Next, Callback, Grant, ChangeGroups, vars

\* Between the re-read and the answer, only the creation of its session puts a
\* login into a request's copy.
LEMMA Reread ==
    ASSUME TypeOK, [Next]_vars, NEW r \in Requests, req[r].pc = "reread",
           req'[r].data.login # req[r].data.login
    PROVE  req'[r].data.groups = db[User(r)]
<1>1. ASSUME NEW q \in Requests, NEW new, req' = [req EXCEPT ![q] = new]
      PROVE  q = r
    BY <1>1 DEF TypeOK
<1>2. ~Goes(r, "respond")
    BY WorkingType DEF Goes, TypeOK, Working
<1>3. ASSUME NEW q \in Requests, CreateSession(q)
      PROVE  req'[r].data.groups = db[User(r)]
    <2>1. q = r
        BY <1>1, <1>3 DEF CreateSession, Goes
    <2>2. req' = [req EXCEPT ![r] = [@ EXCEPT
              !.pc = "respond",
              !.data = [req[r].data EXCEPT
                  !.login = req[r].login, !.groups = db[User(r)],
                  !.expires = req[r].expires]]]
        BY <1>2, <1>3, <2>1 DEF CreateSession
    <2>3. [req[r].data EXCEPT !.login = req[r].login, !.groups = db[User(r)],
                              !.expires = req[r].expires].groups = db[User(r)]
        BY WorkingType DEF Data
    <2> QED
        BY <2>2, <2>3, WorkingType DEF TypeOK, Working
<1>4. ASSUME NEW q \in Requests, NEW b \in Browsers, POSTLogoutHandler(q, b)
      PROVE  FALSE
    BY <1>1, <1>4 DEF POSTLogoutHandler, Arrives
<1>5. ASSUME NEW q \in Requests, NEW b \in Browsers, NEW l \in Logins,
             GETLoginHandler(q, b, l)
      PROVE  FALSE
    BY <1>1, <1>5 DEF GETLoginHandler, Arrives
<1>6. ASSUME NEW q \in Requests, NEW b \in Browsers, NEW l \in Logins,
             HandleCallback(q, b, l)
      PROVE  FALSE
    BY <1>1, <1>6 DEF HandleCallback, Arrives
<1>7. ASSUME NEW q \in Requests, Exchange(q)
      PROVE  FALSE
    BY <1>1, <1>7 DEF Exchange, Goes
<1>8. ASSUME NEW q \in Requests, UpsertUser(q)
      PROVE  FALSE
    BY <1>1, <1>8 DEF UpsertUser, Goes
<1>9. ASSUME NEW q \in Requests, Logout(q) \/ Save(q)
      PROVE  FALSE
    BY <1>1, <1>9 DEF Logout, Save, Answered
<1>10. ASSUME NEW q \in Requests, FetchUserInfo(q)
       PROVE  FALSE
    BY <1>10, FetchRequest
<1>11. CASE Tick
    BY <1>11, TickRequest
<1>12. ASSUME UNCHANGED req
       PROVE  FALSE
    BY <1>12
<1> QED
    BY <1>3, <1>4, <1>5, <1>6, <1>7, <1>8, <1>9, <1>10, <1>11, <1>12
    DEF Next, Callback, Grant, ChangeGroups, vars

-----------------------------------------------------------------------------
(* The theorems.                                                           *)

\* It holds initially.
LEMMA Initially == Init => IInv
<1> SUFFICES ASSUME Init
             PROVE  IInv
    OBVIOUS
<1>1. /\ \A r \in Requests : req[r].pc = "idle"
      /\ \A t \in Tokens : store[t] = None
      /\ ended = {}
    BY DEF Init, IdleRequest
<1>2. DataInv
    BY <1>1 DEF DataInv, Redeemed
<1>3. LoginInv
    BY <1>1 DEF LoginInv, Stores, Writes, Destroys, Redeemed
<1>4. AloneInv
    BY <1>1 DEF AloneInv, Between
<1> QED
    BY <1>2, <1>3, <1>4, TypeInit DEF IInv

\* Every step keeps it.
LEMMA Inductive == IInv /\ [Next]_vars => IInv'
BY TypeStep, DataStep, LoginStep, AloneStep DEF IInv

\* So it holds always.
LEMMA Invariant == Spec => []IInv
BY Initially, Inductive, PTL DEF Spec

\* Every variable keeps its type: lifetimes stay within their bounds, and only
\* logins end.
THEOREM TypeCorrect == Spec => []TypeOK
<1>1. IInv => TypeOK
    BY DEF IInv
<1> QED
    BY <1>1, Invariant, PTL

\* A logout is not undone by the requests it overlaps: when the session of a
\* login is deleted, no copy of it is about to be written back, since a
\* request that loads the session of somebody logged in does not change it.
THEOREM LogoutIsFinal == Spec => []LogoutSticks
<1>1. IInv => LogoutSticks
    <2> SUFFICES ASSUME IInv, NEW t \in Tokens, store[t] # None,
                        store[t].login \in ended
                 PROVE  FALSE
        BY DEF LogoutSticks
    <2>1. Stores(t, store[t].login) /\ store[t].login \in Logins
        BY DEF Stores, IInv, TypeOK
    <2> QED
        BY <2>1 DEF IInv, LoginInv
<1> QED
    BY <1>1, Invariant, PTL

\* A session gets the groups that the provider gave to its login, unless
\* another login of the user was writing and reading them at the same time.
THEOREM GroupsOfTheLogin == Spec => LoginGetsItsGroups
<1> DEFINE Gets == \A r \in Requests :
               req[r].pc = "reread" /\ req'[r].data.login = req[r].login
                   /\ req[r].alone
               => req'[r].data.groups = req[r].groups
<1>1. IInv /\ [Next]_vars => [Gets]_vars
    <2> SUFFICES ASSUME IInv, [Next]_vars, NEW r \in Requests,
                        req[r].pc = "reread", req[r].alone,
                        req'[r].data.login = req[r].login
                 PROVE  req'[r].data.groups = req[r].groups
        OBVIOUS
    <2>1. /\ req[r].data.login = None
          /\ req[r].login # None
          /\ db[User(r)] = req[r].groups
        BY SessionsAssumption
        DEF IInv, DataInv, AloneInv, Redeemed, Neither, Between
    <2>2. req'[r].data.login # req[r].data.login
        BY <2>1
    <2> QED
        BY <2>1, <2>2, Reread DEF IInv
<1> QED
    BY <1>1, Invariant, PTL DEF Spec, LoginGetsItsGroups

=============================================================================
