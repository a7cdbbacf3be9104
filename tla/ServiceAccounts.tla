--------------------------- MODULE ServiceAccounts ---------------------------
(***************************************************************************)
(* Service accounts: users create, pause, unpause and delete them, and     *)
(* requests authenticate with their bearer tokens.  Handlers read a row,   *)
(* decide, and update it later; the authentication reads the row and the   *)
(* scopes in two queries and decides after both.  One action per database  *)
(* statement.  Tokens that name no account are refused by the first query  *)
(* and left out.                                                           *)
(***************************************************************************)
EXTENDS Naturals

CONSTANTS
    Users,      \* users with a session
    Accounts,   \* service accounts, one for each uuid ever drawn
    Scopes,     \* names of scopes
    Requests,   \* requests to the management handlers
    Calls,      \* requests with a bearer token
    MaxTime,    \* bound on the clock
    Faults,     \* the statements that may fail, named below
    MaxFaults,  \* bound on the number of failures
    None        \* no row, no user, no time

(***************************************************************************)
(* "commitLost" commits although the caller sees an error.  The others     *)
(* fail without effect: the statements of the creating transaction, the    *)
(* re-read of the new row, the update of a row, a query of the             *)
(* authentication.                                                         *)
(***************************************************************************)
FaultKinds == {"insert", "commitLost", "reread", "update", "query"}

Times == 0 .. MaxTime

\* Columns of service_accounts, and the rows of service_account_scopes.
Row == [by : Users, scopes : SUBSET Scopes, expires : Times,
        disabled : BOOLEAN, deletedAt : Times \cup {None}]

ASSUME AccountsAssumption ==
    /\ MaxTime \in Nat
    /\ Faults \subseteq FaultKinds
    /\ MaxFaults \in Nat
    /\ None \notin Users \cup Accounts \cup Nat \cup Row

VARIABLES
    granted,  \* the scopes of each user's session
    ever,     \* all the scopes each user's sessions have had so far
    row,      \* tables service_accounts and service_account_scopes
    tokens,   \* accounts whose token was handed out
    manage,   \* each management request
    call,     \* each request with a bearer token
    witness,  \* for each of those, whether its account was valid, over time
    now,      \* the clock
    faults    \* failures so far

users == <<granted, ever>>
vars == <<users, row, tokens, manage, call, witness, now, faults>>

IdleRequest == [pc |-> "idle", by |-> None, acct |-> None, scopes |-> {},
                expires |-> 0]

IdleCall == [pc |-> "idle", acct |-> None, seen |-> None, scopes |-> {}]

Init ==
    /\ granted \in [Users -> SUBSET Scopes]
    /\ ever = granted
    /\ row = [a \in Accounts |-> None]
    /\ tokens = {}
    /\ manage = [r \in Requests |-> IdleRequest]
    /\ call = [c \in Calls |-> IdleCall]
    /\ witness = [c \in Calls |-> {}]
    /\ now = 0
    /\ faults = 0

Fault(kind) ==
    /\ kind \in Faults
    /\ faults < MaxFaults
    /\ faults' = faults + 1

Goes(r, pc) == manage' = [manage EXCEPT ![r].pc = pc]

Answered(r) == manage' = [manage EXCEPT ![r] = IdleRequest]

-----------------------------------------------------------------------------
(* POST /api/service-accounts.                                             *)

\* A faulty HasAllScopes: one of them is enough.
HasSomeScope(held, wanted) == held \cap wanted # {}

HasAllScopes(held, wanted) == wanted \subseteq held

\* The checks, on the session as the request found it.  A uuid is drawn for
\* the new account, different from every other one.
POSTServiceAccount(r, u, a, wanted, expires) ==
    /\ manage[r].pc = "idle"
    /\ row[a] = None
    /\ \A q \in Requests : manage[q].acct # a
    /\ wanted # {}
    /\ expires >= now
    /\ HasAllScopes(granted[u], wanted)
    /\ manage' = [manage EXCEPT ![r] =
           [pc |-> "insert", by |-> u, acct |-> a, scopes |-> wanted,
            expires |-> expires]]
    /\ UNCHANGED <<users, row, tokens, call, now, faults>>

NewRow(r, scopes) ==
    [by |-> manage[r].by, scopes |-> scopes, expires |-> manage[r].expires,
     disabled |-> FALSE, deletedAt |-> None]

\* The account and its scopes are inserted in a transaction, which nobody
\* else sees before it commits; a failure rolls it back.
InsertAccount(r) ==
    /\ manage[r].pc = "insert"
    /\ \/ Goes(r, "scopes") /\ UNCHANGED faults
       \/ Answered(r) /\ Fault("insert")
    /\ UNCHANGED <<users, row, tokens, call, now>>

InsertScopes(r) ==
    /\ manage[r].pc = "scopes"
    /\ \/ Goes(r, "commit") /\ UNCHANGED faults
       \/ Answered(r) /\ Fault("insert")
    /\ UNCHANGED <<users, row, tokens, call, now>>

Commit(r) ==
    /\ manage[r].pc = "commit"
    /\ \/ /\ row' = [row EXCEPT ![manage[r].acct] = NewRow(r, manage[r].scopes)]
          /\ \/ Goes(r, "reread") /\ UNCHANGED faults
             \/ Answered(r) /\ Fault("commitLost")
       \/ /\ Answered(r)
          /\ Fault("insert")
          /\ UNCHANGED row
    /\ UNCHANGED <<users, tokens, call, now>>

\* The new row is read back, and the token handed out with it.  Without an
\* answer the token is lost, and the account stays.
HandOutToken(r) ==
    /\ manage[r].pc = "reread"
    /\ Answered(r)
    /\ \/ tokens' = tokens \cup {manage[r].acct} /\ UNCHANGED faults
       \/ Fault("reread") /\ UNCHANGED tokens
    /\ UNCHANGED <<users, row, call, now>>

-----------------------------------------------------------------------------
(* PATCH .../pause, PATCH .../unpause and DELETE /api/service-accounts.    *)

Operations == {"pause", "unpause", "delete"}

\* GetServiceAccountByID and the checks on what it returned; a request that
\* fails one is answered without changing anything.
ManageRead(r, u, a, operation) ==
    /\ manage[r].pc = "idle"
    /\ row[a] # None
    /\ row[a].by = u
    /\ row[a].deletedAt = None
    /\ manage' = [manage EXCEPT ![r] =
           [pc |-> operation, by |-> u, acct |-> a, scopes |-> {}, expires |-> 0]]
    /\ UNCHANGED <<users, row, tokens, call, now, faults>>

NotDeleted(a) == row[a].deletedAt = None

\* UPDATE service_accounts ... WHERE deleted_at IS NULL: without such a row
\* the request fails.
PauseServiceAccount(a) ==
    row' = IF NotDeleted(a) THEN [row EXCEPT ![a].disabled = TRUE] ELSE row

\* A faulty unpause: it enables whatever is there.
UnpauseAnyServiceAccount(a) == row' = [row EXCEPT ![a].disabled = FALSE]

UnpauseServiceAccount(a) ==
    row' = IF NotDeleted(a) THEN [row EXCEPT ![a].disabled = FALSE] ELSE row

DeleteServiceAccount(a) ==
    row' = IF NotDeleted(a)
             THEN [row EXCEPT ![a].deletedAt = now, ![a].disabled = TRUE]
             ELSE row

ManageUpdate(r) ==
    /\ \/ /\ \/ manage[r].pc = "pause" /\ PauseServiceAccount(manage[r].acct)
             \/ manage[r].pc = "unpause" /\ UnpauseServiceAccount(manage[r].acct)
             \/ manage[r].pc = "delete" /\ DeleteServiceAccount(manage[r].acct)
          /\ UNCHANGED faults
       \/ /\ manage[r].pc \in Operations
          /\ Fault("update")
          /\ UNCHANGED row
    /\ Answered(r)
    /\ UNCHANGED <<users, tokens, call, now>>

-----------------------------------------------------------------------------
(* VerifyServiceAccount, called by OptionalAuth and again by RequireAuth.  *)

CallGoes(c, pc) == call' = [call EXCEPT ![c].pc = pc]

QueryFails(c) == CallGoes(c, "failed") /\ Fault("query")

\* A request arrives with the token of an account.
Arrive(c, a) ==
    /\ call[c].pc = "idle"
    /\ a \in tokens
    /\ call' = [call EXCEPT ![c] =
           [pc |-> "row", acct |-> a, seen |-> None, scopes |-> {}]]
    /\ UNCHANGED <<users, row, tokens, manage, now, faults>>

\* GetServiceAccountByLookupId: the row first, then its scopes.
QueryRow(c) ==
    /\ call[c].pc = "row"
    /\ \/ /\ call' = [call EXCEPT ![c].pc = "scopes",
                                  ![c].seen = row[call[c].acct]]
          /\ UNCHANGED faults
       \/ QueryFails(c)
    /\ UNCHANGED <<users, row, tokens, manage, now>>

QueryScopes(c) ==
    /\ call[c].pc = "scopes"
    /\ \/ /\ call' = [call EXCEPT ![c].pc = "verify",
                                  ![c].scopes = row[call[c].acct].scopes]
          /\ UNCHANGED faults
       \/ QueryFails(c)
    /\ UNCHANGED <<users, row, tokens, manage, now>>

\* What the columns of a row say at the present time.
Passes(columns) ==
    /\ columns.deletedAt = None
    /\ ~columns.disabled
    /\ now <= columns.expires

\* A faulty verification: a disabled account passes.
VerifyDeletedOnly(c) ==
    /\ call[c].pc = "verify"
    /\ CallGoes(c, IF call[c].seen.deletedAt = None /\ now <= call[c].seen.expires
                     THEN "authenticated" ELSE "refused")
    /\ UNCHANGED <<users, row, tokens, manage, now, faults>>

\* The checks, on the row as it was read and the time as it is.
VerifyServiceAccount(c) ==
    /\ call[c].pc = "verify"
    /\ CallGoes(c, IF Passes(call[c].seen) THEN "authenticated" ELSE "refused")
    /\ UNCHANGED <<users, row, tokens, manage, now, faults>>

\* The handler, or the refusal, has answered the request.
CallAnswered(c) ==
    /\ call[c].pc \in {"authenticated", "refused", "failed"}
    /\ call' = [call EXCEPT ![c] = IdleCall]
    /\ UNCHANGED <<users, row, tokens, manage, now, faults>>

-----------------------------------------------------------------------------
(* Logins, and time.                                                       *)

\* A user logs in again, with the groups of the day.
SessionScopes(u, scopes) ==
    /\ granted' = [granted EXCEPT ![u] = scopes]
    /\ ever' = [ever EXCEPT ![u] = @ \cup scopes]
    /\ UNCHANGED <<row, tokens, manage, call, now, faults>>

Tick ==
    /\ now < MaxTime
    /\ now' = now + 1
    /\ UNCHANGED <<users, row, tokens, manage, call, faults>>

-----------------------------------------------------------------------------
Manage(r) ==
    \/ \E u \in Users, a \in Accounts, wanted \in SUBSET Scopes, t \in Times :
           POSTServiceAccount(r, u, a, wanted, t)
    \/ InsertAccount(r) \/ InsertScopes(r) \/ Commit(r) \/ HandOutToken(r)
    \/ \E u \in Users, a \in Accounts, operation \in Operations :
           ManageRead(r, u, a, operation)
    \/ ManageUpdate(r)

Authenticate(c) ==
    \/ \E a \in Accounts : Arrive(c, a)
    \/ QueryRow(c) \/ QueryScopes(c) \/ VerifyServiceAccount(c)
    \/ CallAnswered(c)

Step ==
    \/ \E r \in Requests : Manage(r)
    \/ \E c \in Calls : Authenticate(c)
    \/ \E u \in Users, scopes \in SUBSET Scopes : SessionScopes(u, scopes)
    \/ Tick

\* An account that a request arriving and being decided now may use.
Valid(a) == row[a] # None /\ Passes(row[a])

\* What is true of a call's account at each moment from its arrival on.
Observe ==
    witness' = [c \in Calls |->
        IF call'[c].pc = "idle" THEN {} ELSE witness[c] \cup {Valid(call[c].acct)'}]

Next == Step /\ Observe

Spec == Init /\ [][Next]_vars

-----------------------------------------------------------------------------
Request ==
    {IdleRequest} \cup
    [pc : {"insert", "scopes", "commit", "reread"} \cup Operations,
     by : Users, acct : Accounts, scopes : SUBSET Scopes, expires : Times]

Call ==
    {IdleCall} \cup
    [pc : {"row", "scopes", "verify", "authenticated", "refused", "failed"},
     acct : Accounts, seen : Row \cup {None}, scopes : SUBSET Scopes]

\* Every variable has its type.
TypeOK ==
    /\ granted \in [Users -> SUBSET Scopes]
    /\ ever \in [Users -> SUBSET Scopes]
    /\ row \in [Accounts -> Row \cup {None}]
    /\ tokens \subseteq Accounts
    /\ manage \in [Requests -> Request]
    /\ call \in [Calls -> Call]
    /\ witness \in [Calls -> SUBSET BOOLEAN]
    /\ now \in Times
    /\ faults \in 0 .. MaxFaults

\* Authentication looks atomic although it is made of two queries and a check
\* that come later than each other: a request that is let through had a valid
\* account at some moment after it arrived, and one that is refused had an
\* invalid one.  So a token is of no use to requests that arrive after its
\* account was paused, deleted or has expired.
AuthenticationIsAtomic ==
    \A c \in Calls :
        /\ call[c].pc = "authenticated" => TRUE \in witness[c]
        /\ call[c].pc = "refused" => FALSE \in witness[c]

\* A request let through acts with exactly the scopes of its account, and
\* those are scopes that the account's creator has had in some session.
ActsWithinGrant ==
    \A c \in Calls : call[c].pc = "authenticated" =>
        LET account == row[call[c].acct] IN
            /\ call[c].scopes = account.scopes
            /\ account.scopes \subseteq ever[account.by]

\* A deletion is final: no request that overlaps it, whatever it read before,
\* enables the account again or moves the time of its deletion.
DeletionIsFinal ==
    [][\A a \in Accounts :
           row[a] # None /\ row[a].deletedAt # None => row'[a] = row[a]]_vars
=============================================================================
