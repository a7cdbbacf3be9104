------------------------------ MODULE Sessions ------------------------------
(***************************************************************************)
(* Logins through OpenID Connect, and the sessions they fill.  A request   *)
(* loads its session's data when it arrives, works on a copy, and writes   *)
(* the whole copy back when it is answered, if it changed it: whichever    *)
(* request of a session is answered last has written the session.  One     *)
(* action per call to the provider, the database or the session store.     *)
(* All times are relative: the ticks that are left.                        *)
(***************************************************************************)
EXTENDS Naturals

CONSTANTS
    Browsers,    \* browsers, each of one user
    Users,       \* users of the provider
    UserOf,      \* who logs in from each browser
    Groups,      \* names of groups
    Tokens,      \* session tokens
    Logins,      \* visits to the login endpoint
    Requests,    \* requests in flight
    TokenLife,   \* lifetime of an ID token, in ticks
    Lifetime,    \* Sessions.FixedTimeout, in ticks
    Faults,      \* the calls that may fail, named below
    MaxFaults,   \* bound on the number of failures
    None         \* no token, login, data or user

(***************************************************************************)
(* "exchangeLost" spends the code although the caller sees an error; the   *)
(* others fail without effect.  "userInfo" is the one the callback         *)
(* survives.                                                               *)
(***************************************************************************)
FaultKinds == {"exchange", "exchangeLost", "userInfo", "upsert", "reread",
               "destroy"}

ASSUME SessionsAssumption ==
    /\ UserOf \in [Browsers -> Users]
    /\ TokenLife \in Nat
    /\ Lifetime \in Nat
    /\ Faults \subseteq FaultKinds
    /\ MaxFaults \in Nat
    /\ None \notin Tokens
    /\ None \notin Logins

VARIABLES
    cookie,    \* the session token of each browser
    store,     \* the session store
    req,       \* each request
    login,     \* what the provider knows of each login
    provider,  \* the groups of each user, at the provider
    db,        \* table user_groups
    ended,     \* logins that were logged out
    faults     \* failures so far

vars == <<cookie, store, req, login, provider, db, ended, faults>>

\* No login in progress, nobody logged in.  What is always set together has
\* one field: login stands for the user data, the flag "authenticated" and the
\* expiry, and state for the state, the verifier and the nonce of a login.
EmptyData == [login |-> None, groups |-> {}, expires |-> 0, state |-> None,
              left |-> Lifetime]

IdleRequest == [pc |-> "idle", browser |-> None, token |-> None,
                data |-> EmptyData, login |-> None, groups |-> {},
                expires |-> 0, alone |-> FALSE]

Init ==
    /\ cookie = [b \in Browsers |-> None]
    /\ store = [t \in Tokens |-> None]
    /\ req = [r \in Requests |-> IdleRequest]
    /\ login = [l \in Logins |-> "unused"]
    /\ provider \in [Users -> SUBSET Groups]
    /\ db = [u \in Users |-> {}]
    /\ ended = {}
    /\ faults = 0

Fault(kind) ==
    /\ kind \in Faults
    /\ faults < MaxFaults
    /\ faults' = faults + 1

-----------------------------------------------------------------------------
(* LoadAndSave, of the session library.                                    *)

Found(t) == t # None /\ store[t] # None

\* A request starts out with the data of its cookie, or with an empty session.
Loaded(b) == IF Found(cookie[b]) THEN store[cookie[b]] ELSE EmptyData

LoadedToken(b) == IF Found(cookie[b]) THEN cookie[b] ELSE None

\* A request of this browser has loaded its session, and goes on with this
\* data, and, in a callback, with this login.
Arrives(r, b, pc, data, l) ==
    /\ req[r].pc = "idle"
    /\ req' = [req EXCEPT ![r] =
           [pc |-> pc, browser |-> b, token |-> LoadedToken(b), data |-> data,
            login |-> l, groups |-> {}, expires |-> 0, alone |-> FALSE]]

\* A token is random: nobody holds it from before.
Fresh(t) ==
    /\ store[t] = None
    /\ \A b \in Browsers : cookie[b] # t
    /\ \A r \in Requests : req[r].token # t

Answered(r) == req' = [req EXCEPT ![r] = IdleRequest]

\* A request that changed its copy is answered: the copy becomes the session,
\* whatever the session has become since, and the browser gets its token.
\* What has outlived its time is not found again.
Save(r) ==
    /\ req[r].pc = "respond"
    /\ \E t \in Tokens :
           /\ IF req[r].token = None THEN Fresh(t) ELSE t = req[r].token
           /\ store' = [store EXCEPT ![t] =
                  IF req[r].data.left > 0 THEN req[r].data ELSE None]
           /\ cookie' = [cookie EXCEPT ![req[r].browser] = t]
    /\ login' = [l \in Logins |->
           IF login[l] = "unused" /\ l = req[r].data.state
             THEN "started" ELSE login[l]]
    /\ Answered(r)
    /\ UNCHANGED <<provider, db, ended, faults>>

-----------------------------------------------------------------------------
(* The session manager.                                                    *)

IsAuthenticated(data) == data.login # None

IsUserAuthenticated(data) == IsAuthenticated(data) /\ data.expires > 0

\* GET /api/auth/login, and StartLogin: whoever is authenticated is not sent
\* to the provider; others get a state, a verifier and a nonce, here the login.
GETLoginHandler(r, b, l) ==
    /\ ~IsAuthenticated(Loaded(b))
    /\ login[l] = "unused"
    /\ \A q \in Requests : req[q].data.state # l
    /\ Arrives(r, b, "respond", [Loaded(b) EXCEPT !.state = l], None)
    /\ UNCHANGED <<cookie, store, login, provider, db, ended, faults>>

\* POST /api/auth/logout: the check on the data as loaded, then the deletion.
POSTLogoutHandler(r, b) ==
    /\ IsUserAuthenticated(Loaded(b))
    /\ Arrives(r, b, "destroy", Loaded(b), None)
    /\ UNCHANGED <<cookie, store, login, provider, db, ended, faults>>

\* The deletion, and the answer that takes the cookie away.
Logout(r) ==
    /\ req[r].pc = "destroy"
    /\ Answered(r)
    /\ \/ /\ store' = [store EXCEPT ![req[r].token] = None]
          /\ cookie' = [cookie EXCEPT ![req[r].browser] = None]
          /\ ended' = ended \cup {req[r].data.login}
          /\ UNCHANGED faults
       \/ /\ Fault("destroy")
          /\ UNCHANGED <<cookie, store, ended>>
    /\ UNCHANGED <<login, provider, db>>

-----------------------------------------------------------------------------
(* GET /api/auth/callback.                                                 *)

Goes(r, pc) == req' = [req EXCEPT ![r].pc = pc]

\* A faulty start: the state stays in the session.
StateKept(data) == data

\* The state and the verifier leave the session before they are used.
WithoutState(data) == [data EXCEPT !.state = None]

\* The provider redirects the browser here with the state of one of its
\* logins; the browser may ask again.  Without the same state in the session
\* nothing changes.
HandleCallback(r, b, l) ==
    /\ login[l] \in {"granted", "redeemed"}
    /\ Loaded(b).state = l
    /\ Arrives(r, b, "exchange", WithoutState(Loaded(b)), l)
    /\ UNCHANGED <<cookie, store, login, provider, db, ended, faults>>

User(r) == UserOf[req[r].browser]

\* The code is redeemed once.  The ID token carries the nonce of its login,
\* and the groups of the moment.
Exchange(r) ==
    /\ req[r].pc = "exchange"
    /\ \/ /\ login[req[r].login] = "granted"
          /\ login' = [login EXCEPT ![req[r].login] = "redeemed"]
          /\ \/ /\ req' = [req EXCEPT
                      ![r] = [@ EXCEPT !.pc = "userInfo", !.expires = TokenLife,
                                       !.groups = provider[User(r)]]]
                /\ UNCHANGED faults
             \/ /\ Goes(r, "respond")
                /\ Fault("exchangeLost")
       \/ /\ login[req[r].login] = "redeemed"
          /\ Goes(r, "respond")
          /\ UNCHANGED <<login, faults>>
       \/ /\ Goes(r, "respond")
          /\ Fault("exchange")
          /\ UNCHANGED login
    /\ UNCHANGED <<cookie, store, provider, db, ended>>

\* The groups of the user-info endpoint, or those of the ID token if there
\* are none or the call fails.
UserInfoGroups(r) == IF provider[User(r)] = {} THEN req[r].groups
                                               ELSE provider[User(r)]

\* The other logins of the user that are about to write or re-read its groups.
Overlapping(r) == {q \in Requests \ {r} :
                       req[q].pc \in {"upsert", "reread"} /\ User(q) = User(r)}

\* From here to the re-read, the login is alone if no other overlaps it.
FetchUserInfo(r) ==
    /\ req[r].pc = "userInfo"
    /\ \E groups \in {req[r].groups, UserInfoGroups(r)} :
           /\ req' = [q \in Requests |->
                  IF q = r
                    THEN [req[r] EXCEPT !.pc = "upsert", !.groups = groups,
                                        !.alone = (Overlapping(r) = {})]
                    ELSE [req[q] EXCEPT !.alone = @ /\ q \notin Overlapping(r)]]
           /\ IF groups = UserInfoGroups(r) THEN UNCHANGED faults
                                            ELSE Fault("userInfo")
    /\ UNCHANGED <<cookie, store, login, provider, db, ended>>

\* A faulty upsert: the old groups stay.
GroupsAdded(r) == db' = [db EXCEPT ![User(r)] = @ \cup req[r].groups]

GroupsReplaced(r) == db' = [db EXCEPT ![User(r)] = req[r].groups]

\* The user and the groups in one transaction.
UpsertUser(r) ==
    /\ req[r].pc = "upsert"
    /\ \/ /\ GroupsReplaced(r)
          /\ Goes(r, "reread")
          /\ UNCHANGED faults
       \/ /\ Goes(r, "respond")
          /\ Fault("upsert")
          /\ UNCHANGED db
    /\ UNCHANGED <<cookie, store, login, provider, ended>>

\* GetUserByID reads back what the table says by now, and
\* CreateSessionWithTokenExpiry puts it in the session, unless the ID token
\* has expired.
CreateSession(r) ==
    /\ req[r].pc = "reread"
    /\ \/ /\ req[r].expires > 0
          /\ req' = [req EXCEPT ![r] = [@ EXCEPT
                 !.pc = "respond",
                 !.data = [req[r].data EXCEPT
                     !.login = req[r].login, !.groups = db[User(r)],
                     !.expires = req[r].expires]]]
          /\ UNCHANGED faults
       \/ /\ req[r].expires = 0
          /\ Goes(r, "respond")
          /\ UNCHANGED faults
       \/ /\ Goes(r, "respond")
          /\ Fault("reread")
    /\ UNCHANGED <<cookie, store, login, provider, db, ended>>

-----------------------------------------------------------------------------
(* The provider, and time.                                                 *)

\* Somebody authenticates at the provider, which issues a code.
Grant(l) ==
    /\ login[l] = "started"
    /\ login' = [login EXCEPT ![l] = "granted"]
    /\ UNCHANGED <<cookie, store, req, provider, db, ended, faults>>

ChangeGroups(u, groups) ==
    /\ provider' = [provider EXCEPT ![u] = groups]
    /\ UNCHANGED <<cookie, store, req, login, db, ended, faults>>

Less(n) == IF n > 0 THEN n - 1 ELSE 0

\* A faulty lifetime: the token gets older, the session does not.
Ageless(data) == [data EXCEPT !.expires = Less(@)]

Older(data) == [data EXCEPT !.expires = Less(@), !.left = Less(@)]

Tick ==
    /\ store' = [t \in Tokens |->
           IF store[t] = None \/ Older(store[t]).left = 0 THEN None
           ELSE Older(store[t])]
    /\ req' = [r \in Requests |->
           IF req[r].pc = "idle" THEN req[r]
           ELSE [req[r] EXCEPT !.data = Older(@), !.expires = Less(@)]]
    /\ UNCHANGED <<cookie, login, provider, db, ended, faults>>

-----------------------------------------------------------------------------
Callback(r) ==
    \/ \E b \in Browsers, l \in Logins : HandleCallback(r, b, l)
    \/ Exchange(r) \/ FetchUserInfo(r) \/ UpsertUser(r) \/ CreateSession(r)

Next ==
    \/ \E r \in Requests :
           \/ \E b \in Browsers : POSTLogoutHandler(r, b)
           \/ \E b \in Browsers, l \in Logins : GETLoginHandler(r, b, l)
           \/ Callback(r) \/ Logout(r) \/ Save(r)
    \/ \E l \in Logins : Grant(l)
    \/ \E u \in Users, groups \in SUBSET Groups : ChangeGroups(u, groups)
    \/ Tick

Spec == Init /\ [][Next]_vars

\* Time passes.
FairSpec == Spec /\ WF_vars(Tick)

-----------------------------------------------------------------------------
LoginOrNone == Logins \cup {None}

Data == [login : LoginOrNone, groups : SUBSET Groups, expires : 0 .. TokenLife,
         state : LoginOrNone, left : 0 .. Lifetime]

Request ==
    {IdleRequest} \cup
    [pc : {"respond", "destroy", "exchange", "userInfo", "upsert", "reread"},
     browser : Browsers, token : Tokens \cup {None}, data : Data,
     login : LoginOrNone, groups : SUBSET Groups, expires : 0 .. TokenLife,
     alone : BOOLEAN]

\* Every variable has its type.
TypeOK ==
    /\ cookie \in [Browsers -> Tokens \cup {None}]
    /\ store \in [Tokens -> Data \cup {None}]
    /\ req \in [Requests -> Request]
    /\ login \in [Logins -> {"unused", "started", "granted", "redeemed"}]
    /\ provider \in [Users -> SUBSET Groups]
    /\ db \in [Users -> SUBSET Groups]
    /\ ended \subseteq Logins
    /\ faults \in 0 .. MaxFaults

\* A logout is not undone: although requests that overlap it write back the
\* session as they loaded it, no session is ever again that of the login that
\* was logged out.
LogoutSticks ==
    \A t \in Tokens : store[t] # None => store[t].login \notin ended

\* The session gets exactly the groups that the provider gave to this login,
\* although they take the way through a table that the logins of a user share:
\* unless another login of the user is between fetching and re-reading them.
LoginGetsItsGroups ==
    [][\A r \in Requests :
           req[r].pc = "reread" /\ req'[r].data.login = req[r].login /\ req[r].alone
               => req'[r].data.groups = req[r].groups]_vars

\* A session whose token has expired counts as authenticated for the login
\* endpoint, which refuses to start over, and as unauthenticated for the status
\* and for the logout, which refuses to end it (while the middleware goes on
\* accepting its user).  Every browser gets out of it, when the session's own
\* lifetime ends.
Stuck(b) == IsAuthenticated(Loaded(b)) /\ ~IsUserAuthenticated(Loaded(b))

StuckEnds == \A b \in Browsers : []<>~Stuck(b)
=============================================================================
