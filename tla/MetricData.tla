----------------------------- MODULE MetricData -----------------------------
(***************************************************************************)
(* The metrics a dashboard shows: the leader's job runs the configured     *)
(* queries and caches each result together with the rule that says who may *)
(* read it, and the handlers of every replica answer from the cache.       *)
(* Replicas are redeployed with other configurations, lose and regain      *)
(* leadership, and start while Redis is away.  A result stands for the     *)
(* configuration it was fetched under, since that decides who reads it.    *)
(***************************************************************************)
EXTENDS Naturals

CONSTANTS
    Replicas,   \* processes
    Queries,    \* names of queries
    Readers,    \* users, signed in or not
    Groups,     \* groups of users
    Member,     \* the groups of each reader
    Last,       \* configurations are 1 .. Last, the newest last
    Rule,       \* what each configuration says of each query
    Broken,     \* queries the metrics server always refuses
    Types,      \* the cache types that are deployed
    MaxFaults   \* bound on failed calls, lost leaders and missing caches

(***************************************************************************)
(* A query is disabled (or not configured), readable by everybody, or      *)
(* readable by one group (require_auth and required_group).                *)
(***************************************************************************)
Rules == {"disabled", "open"} \cup Groups

Configs == 1 .. Last

ASSUME DataAssumption ==
    /\ {"disabled", "open"} \cap Groups = {}
    /\ Member \in [Readers -> SUBSET Groups]
    /\ Last \in Nat \ {0}
    /\ Rule \in [Configs -> [Queries -> Rules]]
    /\ Broken \subseteq Queries
    /\ Types \subseteq {"memory", "redis"}
    /\ {"redis", "nobody"} \cap Replicas = {}
    /\ MaxFaults \in Nat

VARIABLES
    type,     \* the cache type, the same for all replicas
    cache,    \* per cache and query: the configuration of its entry, 0 if none
    config,   \* the configuration of each replica
    up,       \* the replicas whose process runs
    attached, \* those of them whose cache provider is usable
    leads,    \* the replicas whose data_fetch job runs
    todo,     \* the queries left in the current ExecuteQueries of each replica
    result,   \* the query whose result a replica is about to cache
    late,     \* SETs in flight of which nobody waits for the answer any more
    wanted,   \* the names that are left in the answer to each reader
    answer,   \* what is in the answer: queries and configurations
    faults    \* faults so far

job == <<todo, result>>
requests == <<wanted, answer>>
vars == <<type, cache, config, up, attached, leads, job, late, requests,
          faults>>

\* One Redis for all, or the memory of each replica.
Caches == Replicas \cup {"redis"}

Cache(r) == IF type = "redis" THEN "redis" ELSE r

Enabled(c) == {q \in Queries : Rule[c][q] # "disabled"}

Init ==
    /\ type \in Types
    /\ cache = [s \in Caches |-> [q \in Queries |-> 0]]
    /\ config = [r \in Replicas |-> 1]
    /\ up = {}
    /\ attached = {}
    /\ leads = {}
    /\ todo = [r \in Replicas |-> {}]
    /\ result = [r \in Replicas |-> {}]
    /\ late = {}
    /\ wanted = [u \in Readers |-> [from |-> "nobody", names |-> {}]]
    /\ answer = [u \in Readers |-> {}]
    /\ faults = 0

Fault ==
    /\ faults < MaxFaults
    /\ faults' = faults + 1

\* A faulty job, which goes on with the configuration of the first deployment.
WrittenUnderFirst(r) == 1

WrittenUnder(r) == config[r]

\* A SET that has been sent outlives the process and the context it was sent
\* with.
LeavesBehind(r) ==
    late' = late \cup (IF type = "redis" THEN result[r] \X {WrittenUnder(r)}
                                        ELSE {})

\* The answers that a process was writing are lost with it.
Dropped(r) ==
    /\ wanted' = [u \in Readers |->
                    IF wanted[u].from = r THEN [from |-> "nobody", names |-> {}]
                                          ELSE wanted[u]]
    /\ answer' = [u \in Readers |->
                    IF wanted[u].from = r THEN {} ELSE answer[u]]

Ends(r) ==
    /\ up' = up \ {r}
    /\ attached' = attached \ {r}
    /\ leads' = leads \ {r}
    /\ todo' = [todo EXCEPT ![r] = {}]
    /\ result' = [result EXCEPT ![r] = {}]
    /\ LeavesBehind(r)
    /\ Dropped(r)
    /\ cache' = [cache EXCEPT ![r] = [q \in Queries |-> 0]]

-----------------------------------------------------------------------------
(* The process and its leadership.                                         *)

\* setupDataService logs a cache provider that cannot be had and goes on
\* without.
Start(r) ==
    /\ r \notin up
    /\ up' = up \cup {r}
    /\ \/ attached' = attached \cup {r} /\ UNCHANGED faults
       \/ type = "redis" /\ Fault /\ UNCHANGED attached
    /\ UNCHANGED <<type, cache, config, leads, job, late, requests>>

\* A replica is stopped to run the next configuration.
Deploy(r) ==
    /\ config[r] < Last
    /\ config' = [config EXCEPT ![r] = @ + 1]
    /\ Ends(r)
    /\ UNCHANGED <<type, faults>>

\* The job manager starts the job of a replica that leads.  Two may lead for
\* a while.
BecomeLeader(r) ==
    /\ r \in up \ leads
    /\ leads' = leads \cup {r}
    /\ UNCHANGED <<type, cache, config, up, attached, job, late, requests,
                   faults>>

Put(r, names) ==
    cache' = [cache EXCEPT ![Cache(r)] =
                [q \in Queries |-> IF q \in names THEN WrittenUnder(r)
                                                  ELSE @[q]]]

\* The job's context is cancelled: queries fail from now on, a result is still
\* put in memory, and nobody waits any more for Redis to SET one.
LoseLeadership(r) ==
    /\ r \in leads
    /\ Fault
    /\ leads' = leads \ {r}
    /\ todo' = [todo EXCEPT ![r] = {}]
    /\ result' = [result EXCEPT ![r] = {}]
    /\ LeavesBehind(r)
    /\ Put(r, IF type = "memory" THEN result[r] ELSE {})
    /\ UNCHANGED <<type, config, up, attached, requests>>

-----------------------------------------------------------------------------
(* ExecuteQueries and executeQuery.                                        *)

\* The ticker fires, or the job starts.  A missing cache is not found out by
\* the test for nil, because the interface holds a nil *RedisCache: its first
\* use panics and ends the process.
ExecuteQueries(r) ==
    /\ r \in leads
    /\ todo[r] = {}
    /\ result[r] = {}
    /\ \/ /\ r \in attached
          /\ todo' = [todo EXCEPT ![r] = Enabled(config[r])]
          /\ UNCHANGED <<cache, up, attached, leads, result, late, requests>>
       \/ /\ r \notin attached
          /\ Ends(r)
    /\ UNCHANGED <<type, config, faults>>

\* A faulty ExecuteQueries: a query that fails ends the round.
WithoutAll(queries, q) == {}

WithoutFailed(queries, q) == queries \ {q}

\* The query is sent; one that fails is logged and left out.
Query(r, q) ==
    /\ q \in todo[r]
    /\ result[r] = {}
    /\ \/ /\ q \notin Broken
          /\ result' = [result EXCEPT ![r] = {q}]
          /\ UNCHANGED <<todo, faults>>
       \/ /\ IF q \in Broken THEN UNCHANGED faults ELSE Fault
          /\ todo' = [todo EXCEPT ![r] = WithoutFailed(@, q)]
          /\ UNCHANGED result
    /\ UNCHANGED <<type, cache, config, up, attached, leads, late, requests>>

Done(r) ==
    /\ todo' = [todo EXCEPT ![r] = @ \ result[r]]
    /\ result' = [result EXCEPT ![r] = {}]

\* cache.Set, without expiry.  An error of Redis is logged; the command may
\* be on its way still.
Set(r) ==
    /\ result[r] # {}
    /\ Done(r)
    /\ \/ Put(r, result[r]) /\ UNCHANGED <<late, faults>>
       \/ type = "redis" /\ Fault /\ LeavesBehind(r) /\ UNCHANGED cache
    /\ UNCHANGED <<type, config, up, attached, leads, requests>>

\* Redis executes a SET in flight, whatever was written since, or it is lost.
LateSet(q, c) ==
    /\ <<q, c>> \in late
    /\ late' = late \ {<<q, c>>}
    /\ \/ cache' = [cache EXCEPT !["redis"][q] = c]
       \/ UNCHANGED cache
    /\ UNCHANGED <<type, config, up, attached, leads, job, requests, faults>>

-----------------------------------------------------------------------------
(* GET /api/data and /api/queries.                                         *)

Cached(r) == {q \in Queries : cache[Cache(r)][q] # 0}

Asked(u, r, names) ==
    wanted' = [wanted EXCEPT ![u] = [from |-> r, names |-> names]]

\* A request for some names, or for all that are cached; if they cannot be
\* listed, none are.
GetMetrics(u, r) ==
    /\ wanted[u].from = "nobody"
    /\ r \in attached
    /\ \/ Asked(u, r, Cached(r)) /\ UNCHANGED faults
       \/ Asked(u, r, Queries) /\ UNCHANGED faults
       \/ type = "redis" /\ Fault /\ Asked(u, r, {})
    /\ UNCHANGED <<type, cache, config, up, attached, leads, job, late,
                   answer>>

\* A faulty test, which asks only whether the reader is in any group.
ReadableIfSignedIn(u, q, r) ==
    \/ Rule[cache[Cache(r)][q]][q] = "open"
    \/ Member[u] # {}

\* The entry carries its rule.
Readable(u, q, r) == Rule[cache[Cache(r)][q]][q] \in {"open"} \cup Member[u]

\* One turn of addRecordsIfAuthorized.  An entry that Redis does not return is
\* left out.
AddRecord(u, q) ==
    LET r == wanted[u].from
    IN  /\ q \in wanted[u].names
        /\ wanted' = [wanted EXCEPT ![u].names = @ \ {q}]
        /\ \/ /\ answer' =
                  [answer EXCEPT ![u] =
                     IF q \in Cached(r) /\ Readable(u, q, r)
                        THEN @ \cup {<<q, cache[Cache(r)][q]>>}
                        ELSE @]
              /\ UNCHANGED faults
           \/ type = "redis" /\ Fault /\ UNCHANGED answer
        /\ UNCHANGED <<type, cache, config, up, attached, leads, job, late>>

\* WriteJSON; the answer is the reader's.
Answer(u) ==
    /\ wanted[u].from # "nobody"
    /\ wanted[u].names = {}
    /\ wanted' = [wanted EXCEPT ![u].from = "nobody"]
    /\ answer' = [answer EXCEPT ![u] = {}]
    /\ UNCHANGED <<type, cache, config, up, attached, leads, job, late,
                   faults>>

-----------------------------------------------------------------------------

JobStep(r) ==
    \/ ExecuteQueries(r)
    \/ \E q \in Queries : Query(r, q)
    \/ Set(r)

Handler(u) == (\E q \in Queries : AddRecord(u, q)) \/ Answer(u)

Next ==
    \/ \E r \in Replicas : \/ Start(r) \/ Deploy(r)
                           \/ BecomeLeader(r) \/ LoseLeadership(r)
                           \/ JobStep(r)
    \/ \E q \in Queries : \E c \in Configs : LateSet(q, c)
    \/ \E u \in Readers : (\E r \in Replicas : GetMetrics(u, r)) \/ Handler(u)

Spec == Init /\ [][Next]_vars

\* Processes are started again, a replica is elected where none leads, the
\* job of a leader runs off its ticker, handlers go on, and a SET in flight
\* arrives or is lost.  Nobody need deploy or ask anything.
Fairness ==
    /\ \A r \in Replicas : WF_vars(Start(r)) /\ WF_vars(JobStep(r))
    /\ WF_vars(leads = {} /\ \E r \in Replicas : BecomeLeader(r))
    /\ \A u \in Readers : WF_vars(Handler(u))
    /\ WF_vars(\E q \in Queries : \E c \in Configs : LateSet(q, c))

FairSpec == Spec /\ Fairness

-----------------------------------------------------------------------------
(* Properties.                                                             *)

\* Every variable has the type its Go variable or Redis key has; a result is
\* that of a query of the current round, and only a replica that was asked has
\* names left to answer.
TypeOK ==
    /\ type \in Types
    /\ cache \in [Caches -> [Queries -> 0 .. Last]]
    /\ config \in [Replicas -> Configs]
    /\ leads \subseteq up /\ attached \subseteq up /\ up \subseteq Replicas
    /\ todo \in [Replicas -> SUBSET Queries]
    /\ result \in [Replicas -> SUBSET Queries]
    /\ \A r \in Replicas : \/ result[r] = {}
                           \/ \E q \in todo[r] : result[r] = {q}
    /\ late \subseteq Queries \X Configs
    /\ wanted \in [Readers -> [from : Replicas \cup {"nobody"},
                               names : SUBSET Queries]]
    /\ \A u \in Readers : wanted[u].from = "nobody" => wanted[u].names = {}
    /\ answer \in [Readers -> SUBSET (Queries \X Configs)]
    /\ faults \in 0 .. MaxFaults

RolledOut == \A r \in Replicas : config[r] = Last

\* Once every replica has the newest configuration, no step leaves a result of
\* an older one in a cache, except a SET that was in flight before, each of
\* them once, and no more of those come to be.
NewRuleStands ==
    [][RolledOut =>
          /\ RolledOut'
          /\ late' \ late \subseteq Queries \X {Last}
          /\ \A s \in Caches : \A q \in Queries :
                \/ cache'[s][q] \in {0, Last, cache[s][q]}
                \/ <<q, cache'[s][q]>> \in late \ late']_vars

\* After a deployment everywhere, the entry of every query that works is, for
\* good, one of the newest configuration, in the cache of whoever leads for
\* good: failed and refused queries, lost leaders, failed SETs, SETs of
\* processes long gone that overwrite newer ones, and replicas that started
\* without their cache delay it only.
NewRuleIsReached ==
    \A r \in Replicas : \A q \in Enabled(Last) \ Broken :
        <>[](RolledOut /\ r \in leads) => <>[](cache[Cache(r)][q] = Last)

Excluded(q) == {u \in Readers : Rule[Last][q] \notin {"open"} \cup Member[u]}

\* After a deployment everywhere, a reader whom the new rule of such a query
\* excludes is, for good, sent no result of it, of no configuration and by no
\* replica, although handlers judge each entry by the rule it carries and list
\* names before they get the entries.
NewRuleIsObeyed ==
    \A r \in Replicas, q \in Enabled(Last) \ Broken : \A u \in Excluded(q) :
        <>[](RolledOut /\ r \in leads)
            => <>[](\A c \in Configs : <<q, c>> \notin answer[u])
=============================================================================
