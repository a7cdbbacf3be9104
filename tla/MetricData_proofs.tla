------------------------- MODULE MetricData_proofs --------------------------
(***************************************************************************)
(* Proofs about MetricData, for every set of replicas, queries, readers    *)
(* and groups, any sequence of configurations and every bound on faults.   *)
(***************************************************************************)
EXTENDS MetricData, TLAPS

\* The types without result, and what the operators below are typed by.
Rows == [Queries -> 0 .. Last]

Requests == [from : Replicas \cup {"nobody"}, names : SUBSET Queries]

\* A row of zeros, and the row that Put leaves, are rows.
LEMMA EmptyRow == [q \in Queries |-> 0] \in Rows
BY DataAssumption DEF Rows

\* The cache of a replica is one of the caches.
LEMMA CacheType == \A r \in Replicas : Cache(r) \in Caches
BY DEF Cache, Caches

\* Put keeps the type of the cache: what it writes is a configuration.
LEMMA PutType ==
    ASSUME TypeOK, NEW r \in Replicas, NEW names \in SUBSET Queries,
           Put(r, names)
    PROVE  cache' \in [Caches -> [Queries -> 0 .. Last]]
<1>1. config[r] \in 0 .. Last
    BY DataAssumption DEF TypeOK, Configs
<1>2. Cache(r) \in Caches
    BY CacheType
<1>3. [q \in Queries |-> IF q \in names THEN config[r] ELSE cache[Cache(r)][q]]
         \in [Queries -> 0 .. Last]
    BY <1>1, <1>2 DEF TypeOK
<1>4. QED
    BY <1>2, <1>3 DEF Put, WrittenUnder, TypeOK

\* What is left in flight is a result of a query and a configuration.
LEMMA LeavesType ==
    ASSUME TypeOK, NEW r \in Replicas, LeavesBehind(r)
    PROVE  late' \subseteq Queries \X Configs
<1>1. result[r] \subseteq Queries /\ config[r] \in Configs
    BY DEF TypeOK
<1>2. QED
    BY <1>1 DEF LeavesBehind, WrittenUnder, TypeOK

\* What the end of a process leaves has the right types.
LEMMA EndsType ==
    ASSUME TypeOK, NEW r \in Replicas, Ends(r)
    PROVE  /\ cache' \in [Caches -> [Queries -> 0 .. Last]]
           /\ leads' \subseteq up' /\ attached' \subseteq up'
           /\ up' \subseteq Replicas
           /\ todo' \in [Replicas -> SUBSET Queries]
           /\ result' \in [Replicas -> SUBSET Queries]
           /\ \A s \in Replicas : \/ result'[s] = {}
                                  \/ \E q \in todo'[s] : result'[s] = {q}
           /\ late' \subseteq Queries \X Configs
           /\ wanted' \in [Readers -> [from : Replicas \cup {"nobody"},
                                       names : SUBSET Queries]]
           /\ \A u \in Readers :
                 wanted'[u].from = "nobody" => wanted'[u].names = {}
           /\ answer' \in [Readers -> SUBSET (Queries \X Configs)]
<1>1. cache' \in [Caches -> [Queries -> 0 .. Last]]
    BY EmptyRow DEF Ends, TypeOK, Rows
<1>2. /\ todo' \in [Replicas -> SUBSET Queries]
      /\ result' \in [Replicas -> SUBSET Queries]
    BY DEF Ends, TypeOK
<1>3. \A s \in Replicas : \/ result'[s] = {}
                          \/ \E q \in todo'[s] : result'[s] = {q}
    BY DEF Ends, TypeOK
<1>4. /\ wanted' \in [Readers -> [from : Replicas \cup {"nobody"},
                                  names : SUBSET Queries]]
      /\ \A u \in Readers : wanted'[u].from = "nobody" => wanted'[u].names = {}
    BY DEF Ends, Dropped, TypeOK
<1>5. answer' \in [Readers -> SUBSET (Queries \X Configs)]
    BY DEF Ends, Dropped, TypeOK
<1>6. late' \subseteq Queries \X Configs
    BY LeavesType DEF Ends
<1>7. QED
    BY <1>1, <1>2, <1>3, <1>4, <1>5, <1>6 DEF Ends, TypeOK

\* Initially nothing is cached and nobody asks.
LEMMA TypeInit == Init => TypeOK
<1> SUFFICES ASSUME Init
             PROVE  TypeOK
    OBVIOUS
<1>1. cache \in [Caches -> [Queries -> 0 .. Last]]
    BY EmptyRow DEF Init, Rows
<1>2. config \in [Replicas -> Configs]
    BY DataAssumption DEF Init, Configs
<1>3. faults \in 0 .. MaxFaults
    BY DataAssumption DEF Init
<1>4. QED
    BY <1>1, <1>2, <1>3 DEF Init, TypeOK

\* A counted fault stays within its bound.
LEMMA FaultType ==
    ASSUME TypeOK, Fault
    PROVE  faults' \in 0 .. MaxFaults
BY DataAssumption DEF TypeOK, Fault

\* Every step of the process and of its leadership keeps the types.
LEMMA ProcessType ==
    ASSUME TypeOK, NEW r \in Replicas,
           Start(r) \/ Deploy(r) \/ BecomeLeader(r) \/ LoseLeadership(r)
    PROVE  TypeOK'
<1>1. CASE Start(r)
    <2>1. faults' \in 0 .. MaxFaults
        BY <1>1, FaultType DEF Start, TypeOK
    <2>2. QED
        BY <1>1, <2>1 DEF Start, TypeOK, job, requests
<1>2. CASE Deploy(r)
    <2>1. Ends(r) /\ UNCHANGED <<type, faults>>
        BY <1>2 DEF Deploy
    <2>2. config' \in [Replicas -> Configs]
        BY <1>2, DataAssumption DEF Deploy, TypeOK, Configs
    <2>3. QED
        BY <2>1, <2>2, EndsType DEF TypeOK
<1>3. CASE BecomeLeader(r)
    BY <1>3 DEF BecomeLeader, TypeOK, job, requests
<1>4. CASE LoseLeadership(r)
    <2>1. faults' \in 0 .. MaxFaults
        BY <1>4, FaultType DEF LoseLeadership
    <2>2. cache' \in [Caches -> [Queries -> 0 .. Last]]
        <3>1. (IF type = "memory" THEN result[r] ELSE {}) \in SUBSET Queries
            BY DEF TypeOK
        <3>2. Put(r, IF type = "memory" THEN result[r] ELSE {})
            BY <1>4 DEF LoseLeadership
        <3>3. QED
            BY <3>1, <3>2, PutType
    <2>3. late' \subseteq Queries \X Configs
        BY <1>4, LeavesType DEF LoseLeadership
    <2>4. QED
        BY <1>4, <2>1, <2>2, <2>3 DEF LoseLeadership, TypeOK, requests
<1>5. QED
    BY <1>1, <1>2, <1>3, <1>4

\* Every step of the job keeps the types.
LEMMA JobType ==
    ASSUME TypeOK, NEW r \in Replicas, JobStep(r)
    PROVE  TypeOK'
<1>1. CASE ExecuteQueries(r)
    <2>1. CASE Ends(r)
        BY <1>1, <2>1, EndsType DEF ExecuteQueries, TypeOK
    <2>2. CASE /\ todo' = [todo EXCEPT ![r] = Enabled(config[r])]
               /\ UNCHANGED <<cache, up, attached, leads, result, late,
                              requests>>
        <3>1. Enabled(config[r]) \in SUBSET Queries
            BY DEF Enabled
        <3>2. result[r] = {}
            BY <1>1 DEF ExecuteQueries
        <3>3. QED
            BY <1>1, <2>2, <3>1, <3>2 DEF ExecuteQueries, TypeOK, requests
    <2>3. QED
        BY <1>1, <2>1, <2>2 DEF ExecuteQueries
<1>2. ASSUME NEW q \in Queries, Query(r, q)
      PROVE  TypeOK'
    <2>1. faults' \in 0 .. MaxFaults
        BY <1>2, FaultType DEF Query, TypeOK
    <2>2. /\ todo' \in [Replicas -> SUBSET Queries]
          /\ result' \in [Replicas -> SUBSET Queries]
        BY <1>2 DEF Query, WithoutFailed, TypeOK
    <2>3. ASSUME NEW s \in Replicas
          PROVE  result'[s] = {} \/ \E p \in todo'[s] : result'[s] = {p}
        BY <1>2, <2>3 DEF Query, WithoutFailed, TypeOK
    <2>4. QED
        BY <1>2, <2>1, <2>2, <2>3 DEF Query, TypeOK, requests
<1>3. CASE Set(r)
    <2>1. faults' \in 0 .. MaxFaults
        BY <1>3, FaultType DEF Set, TypeOK
    <2>2. cache' \in [Caches -> [Queries -> 0 .. Last]]
        BY <1>3, PutType DEF Set, TypeOK
    <2>3. /\ todo' \in [Replicas -> SUBSET Queries]
          /\ result' \in [Replicas -> SUBSET Queries]
        BY <1>3 DEF Set, Done, TypeOK
    <2>4. ASSUME NEW s \in Replicas
          PROVE  result'[s] = {} \/ \E p \in todo'[s] : result'[s] = {p}
        BY <1>3, <2>4 DEF Set, Done, TypeOK
    <2>5. late' \subseteq Queries \X Configs
        BY <1>3, LeavesType DEF Set, TypeOK
    <2>6. QED
        BY <1>3, <2>1, <2>2, <2>3, <2>4, <2>5 DEF Set, TypeOK, requests
<1>4. QED
    BY <1>1, <1>2, <1>3 DEF JobStep

\* A SET that arrives late writes a result of a configuration there is.
LEMMA LateType ==
    ASSUME TypeOK, NEW q \in Queries, NEW c \in Configs, LateSet(q, c)
    PROVE  TypeOK'
<1>1. c \in 0 .. Last
    BY DataAssumption DEF Configs
<1>2. cache' \in [Caches -> [Queries -> 0 .. Last]]
    BY <1>1 DEF LateSet, TypeOK, Caches
<1>3. late' \subseteq Queries \X Configs
    BY DEF LateSet, TypeOK
<1>4. QED
    BY <1>2, <1>3 DEF LateSet, TypeOK, job, requests

\* Every step of a request keeps the types.
LEMMA RequestType ==
    ASSUME TypeOK, NEW u \in Readers,
           (\E r \in Replicas : GetMetrics(u, r)) \/ Handler(u)
    PROVE  TypeOK'
<1>1. ASSUME NEW r \in Replicas, GetMetrics(u, r)
      PROVE  TypeOK'
    <2>1. PICK names \in SUBSET Queries : Asked(u, r, names)
        BY <1>1 DEF GetMetrics, Cached
    <2>2. wanted' \in [Readers -> [from : Replicas \cup {"nobody"},
                                   names : SUBSET Queries]]
        BY <2>1 DEF Asked, TypeOK
    <2>3. \A v \in Readers : wanted'[v].from = "nobody" => wanted'[v].names = {}
        BY <2>1, DataAssumption DEF Asked, TypeOK
    <2>4. faults' \in 0 .. MaxFaults
        BY <1>1, FaultType DEF GetMetrics, TypeOK
    <2>5. QED
        BY <1>1, <2>2, <2>3, <2>4 DEF GetMetrics, TypeOK, job
<1>2. ASSUME NEW q \in Queries, AddRecord(u, q)
      PROVE  TypeOK'
    <2> DEFINE r == wanted[u].from
    <2>1. r \in Replicas
        BY <1>2 DEF AddRecord, TypeOK
    <2>2. /\ wanted' \in [Readers -> [from : Replicas \cup {"nobody"},
                                      names : SUBSET Queries]]
          /\ \A v \in Readers : wanted'[v].from = "nobody" => wanted'[v].names = {}
        BY <1>2, <2>1 DEF AddRecord, TypeOK
    <2>3. answer' \in [Readers -> SUBSET (Queries \X Configs)]
        <3>1. cache[Cache(r)][q] \in 0 .. Last
            BY <2>1, CacheType DEF TypeOK
        <3>2. q \in Cached(r) => cache[Cache(r)][q] \in Configs
            BY <3>1, DataAssumption DEF Cached, Configs
        <3>3. QED
            BY <1>2, <3>2 DEF AddRecord, TypeOK
    <2>4. faults' \in 0 .. MaxFaults
        BY <1>2, FaultType DEF AddRecord, TypeOK
    <2>5. QED
        BY <1>2, <2>2, <2>3, <2>4 DEF AddRecord, TypeOK, job
<1>3. CASE Answer(u)
    BY <1>3 DEF Answer, TypeOK, job
<1>4. QED
    BY <1>1, <1>2, <1>3 DEF Handler

\* Every step keeps the types.
LEMMA TypeStep == TypeOK /\ [Next]_vars => TypeOK'
<1> SUFFICES ASSUME TypeOK, [Next]_vars
             PROVE  TypeOK'
    OBVIOUS
<1>1. CASE UNCHANGED vars
    BY <1>1 DEF vars, job, requests, TypeOK
<1>2. CASE Next
    BY <1>2, ProcessType, JobType, LateType, RequestType DEF Next
<1>3. QED
    BY <1>1, <1>2

\* Every cache holds results of configurations there are, every answer queries
\* and configurations there are; a replica that is not asked has nothing left
\* to answer, whoever ends, leads or is redeployed.
THEOREM TypeCorrect == Spec => []TypeOK
BY TypeInit, TypeStep, PTL DEF Spec

-----------------------------------------------------------------------------
(* Deployments.                                                            *)

\* With the newest configuration everywhere there is nothing left to deploy.
LEMMA StaysRolledOut ==
    TypeOK /\ RolledOut /\ [Next]_vars => config' = config
<1> SUFFICES ASSUME TypeOK, RolledOut, [Next]_vars
             PROVE  config' = config
    OBVIOUS
<1>1. ASSUME NEW r \in Replicas
      PROVE  ~Deploy(r)
    BY DataAssumption DEF Deploy, RolledOut
<1>2. QED
    BY <1>1
    DEF Next, JobStep, Handler, vars, Start, BecomeLeader, LoseLeadership,
        ExecuteQueries, Query, Set, LateSet, GetMetrics, AddRecord, Answer

\* What a step does to the caches: nothing, one result, the execution of one
\* SET in flight, or the memory of a process that ends.
CacheStep ==
    \/ UNCHANGED cache
    \/ \E r \in Replicas : Ends(r) \/ \E names : Put(r, names)
    \/ \E q \in Queries : \E c \in Configs : LateSet(q, c)

\* What a step does to the SETs in flight: nothing, the end of one, or one
\* more.
LateStep ==
    \/ UNCHANGED late
    \/ \E r \in Replicas : LeavesBehind(r)
    \/ \E q \in Queries : \E c \in Configs : LateSet(q, c)

LEMMA DataSteps ==
    ASSUME [Next]_vars
    PROVE  CacheStep /\ LateStep
<1>1. CASE UNCHANGED vars
    BY <1>1 DEF vars, CacheStep, LateStep
<1>2. ASSUME NEW r \in Replicas,
             Start(r) \/ Deploy(r) \/ BecomeLeader(r) \/ LoseLeadership(r)
      PROVE  CacheStep /\ LateStep
    BY <1>2
    DEF Start, Deploy, BecomeLeader, LoseLeadership, Ends, CacheStep, LateStep
<1>3. ASSUME NEW r \in Replicas, JobStep(r)
      PROVE  CacheStep /\ LateStep
    BY <1>3
    DEF JobStep, ExecuteQueries, Query, Set, Ends, CacheStep, LateStep
<1>4. ASSUME NEW u \in Readers,
             (\E r \in Replicas : GetMetrics(u, r)) \/ Handler(u)
      PROVE  CacheStep /\ LateStep
    BY <1>4 DEF Handler, GetMetrics, AddRecord, Answer, CacheStep, LateStep
<1>5. QED
    BY <1>1, <1>2, <1>3, <1>4 DEF Next, CacheStep, LateStep

\* With the newest configuration everywhere, what is left in flight from then
\* on is of that configuration.
LEMMA NewInFlight ==
    ASSUME TypeOK, RolledOut, [Next]_vars
    PROVE  late' \ late \subseteq Queries \X {Last}
<1>1. ASSUME NEW r \in Replicas, LeavesBehind(r)
      PROVE  late' \ late \subseteq Queries \X {Last}
    <2>1. result[r] \subseteq Queries /\ WrittenUnder(r) = Last
        BY DEF TypeOK, RolledOut, WrittenUnder
    <2>2. QED
        BY <1>1, <2>1 DEF LeavesBehind
<1>2. QED
    BY <1>1, DataSteps DEF LateStep, LateSet

\* With the newest configuration everywhere, an entry is replaced by one of
\* that configuration, lost with its memory, or overwritten by a SET that was
\* in flight.
LEMMA NewEntry ==
    ASSUME TypeOK, RolledOut, [Next]_vars, NEW s \in Caches, NEW q \in Queries
    PROVE  \/ cache'[s][q] \in {0, Last, cache[s][q]}
           \/ <<q, cache'[s][q]>> \in late \ late'
<1>1. ASSUME NEW r \in Replicas, Ends(r)
      PROVE  cache'[s][q] \in {0, cache[s][q]}
    BY <1>1 DEF Ends, TypeOK
<1>2. ASSUME NEW r \in Replicas, NEW names, Put(r, names)
      PROVE  cache'[s][q] \in {Last, cache[s][q]}
    <2>1. WrittenUnder(r) = Last
        BY DEF WrittenUnder, RolledOut
    <2>2. QED
        BY <1>2, <2>1 DEF Put, TypeOK
<1>3. ASSUME NEW p \in Queries, NEW c \in Configs, LateSet(p, c)
      PROVE  \/ cache'[s][q] = cache[s][q]
             \/ <<q, cache'[s][q]>> \in late \ late'
    <2>1. CASE s = "redis" /\ p = q
        <3>1. cache'[s][q] \in {cache[s][q], c}
            BY <1>3, <2>1 DEF LateSet, TypeOK
        <3>2. <<q, c>> \in late \ late'
            BY <1>3, <2>1 DEF LateSet
        <3>3. QED
            BY <3>1, <3>2
    <2>2. CASE ~(s = "redis" /\ p = q)
        BY <1>3, <2>2 DEF LateSet, TypeOK
    <2>3. QED
        BY <2>1, <2>2
<1>4. QED
    BY <1>1, <1>2, <1>3, DataSteps DEF CacheStep

\* Once every replica has the newest configuration, nothing but a SET that was
\* in flight before brings a result of an older one back: the others are gone
\* with the processes that fetched them.
THEOREM RuleStands == Spec => NewRuleStands
<1>1. TypeOK /\ [Next]_vars =>
         [RolledOut =>
             /\ RolledOut'
             /\ late' \ late \subseteq Queries \X {Last}
             /\ \A s \in Caches : \A q \in Queries :
                   \/ cache'[s][q] \in {0, Last, cache[s][q]}
                   \/ <<q, cache'[s][q]>> \in late \ late']_vars
    BY StaysRolledOut, NewInFlight, NewEntry DEF RolledOut
<1>2. QED
    BY <1>1, TypeCorrect, PTL DEF Spec, NewRuleStands
=============================================================================
