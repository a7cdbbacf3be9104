-------------------------- MODULE Leadership_proofs -------------------------
(***************************************************************************)
(* Proofs about leadership: how the replicas elect a leader, for every     *)
(* number of replicas, every time to live, every slack and every bound on  *)
(* failures and restarts; and how the job manager of a replica obeys any   *)
(* election, for every set of jobs.                                        *)
(***************************************************************************)
EXTENDS LeaderJobs, JobManager, TLAPS

-----------------------------------------------------------------------------
(* The election.                                                           *)


\* The campaign interval is a third of the time to live, rounded down.
LEMMA IntervalType == Interval \in Nat
BY ElectionAssumption DEF Interval

\* The three kinds of assignment that an action is made of.
LEMMA LeadType ==
    ASSUME isLeader \in [Instances -> BOOLEAN],
           NEW i \in Instances, NEW leads \in BOOLEAN, Lead(i, leads)
    PROVE  isLeader' \in [Instances -> BOOLEAN]
BY DEF Lead

\* A replica goes to one of its steps.
LEMMA GoesType ==
    ASSUME TypeOK, NEW i \in Instances,
           NEW step \in {"new", "idle", "get", "expire", "down"}, Goes(i, step)
    PROVE  pc' \in [Instances -> {"new", "idle", "get", "expire", "down"}]
BY DEF Goes, TypeOK

\* A counted failure stays within its bound.
LEMMA FaultType ==
    ASSUME NEW kind, Fault(kind), faults \in 0 .. MaxFaults
    PROVE  faults' \in 0 .. MaxFaults
BY ElectionAssumption DEF Fault

\* Initially there is no key and nobody leads.
LEMMA TypeInit == Init => TypeOK
<1> SUFFICES ASSUME Init
             PROVE  TypeOK
    OBVIOUS
<1>1. inherited \in BOOLEAN
    BY DEF Init
<1>2. /\ age \in [Instances -> 0 .. Interval + Slack]
      /\ left \in 0 .. TTL
      /\ faults \in 0 .. MaxFaults
      /\ exits \in 0 .. MaxExits
    BY ElectionAssumption, IntervalType DEF Init
<1>3. isLeader \in [Instances -> BOOLEAN]
    BY DEF Init
<1>4. QED
    BY <1>1, <1>2, <1>3 DEF Init, TypeOK

\* Every step keeps the types.
LEMMA TypeStep == TypeOK /\ [Next]_vars => TypeOK'
<1> SUFFICES ASSUME TypeOK, [Next]_vars
             PROVE  TypeOK'
    OBVIOUS
<1> USE ElectionAssumption, IntervalType
<1>1. ASSUME NEW i \in Instances, Start(i)
      PROVE  TypeOK'
    BY <1>1 DEF Start, Goes, redis, TypeOK
<1>2. ASSUME NEW i \in Instances, SetNX(i)
      PROVE  TypeOK'
    <2>1. isLeader' \in [Instances -> BOOLEAN]
        BY <1>2, LeadType DEF SetNX, TypeOK
    <2>2. pc' \in [Instances -> {"new", "idle", "get", "expire", "down"}]
        BY <1>2, GoesType DEF SetNX, TypeOK
    <2>3. faults' \in 0 .. MaxFaults
        BY <1>2, FaultType DEF SetNX, TypeOK
    <2>4. Hold(i) \/ UNCHANGED redis
        BY <1>2 DEF SetNX
    <2>5. /\ holder' \in Instances \cup {None}
          /\ left' \in 0 .. TTL
          /\ holder' = None <=> left' = 0
        BY <2>4 DEF Hold, redis, TypeOK
    <2>6. age' \in [Instances -> 0 .. Interval + Slack]
        BY <1>2 DEF SetNX, TypeOK
    <2>7. exits' = exits /\ inherited' = inherited
        BY <1>2 DEF SetNX
    <2>8. QED
        BY <2>1, <2>2, <2>3, <2>5, <2>6, <2>7 DEF TypeOK
<1>3. ASSUME NEW i \in Instances, Get(i)
      PROVE  TypeOK'
    <2>1. isLeader' \in [Instances -> BOOLEAN]
        BY <1>3, LeadType DEF Get, TypeOK
    <2>2. pc' \in [Instances -> {"new", "idle", "get", "expire", "down"}]
        BY <1>3, GoesType DEF Get
    <2>3. faults' \in 0 .. MaxFaults
        BY <1>3, FaultType DEF Get, TypeOK
    <2>4. QED
        BY <1>3, <2>1, <2>2, <2>3 DEF Get, redis, TypeOK
<1>4. ASSUME NEW i \in Instances, Expire(i)
      PROVE  TypeOK'
    <2>1. faults' \in 0 .. MaxFaults
        BY <1>4 DEF Expire, Fault, TypeOK
    <2>2. left' \in 0 .. TTL /\ (holder' = None <=> left' = 0)
        BY <1>4 DEF Expire, TypeOK
    <2>3. QED
        BY <1>4, <2>1, <2>2 DEF Expire, Goes, TypeOK
<1>5. ASSUME NEW i \in Instances, Resign(i)
      PROVE  TypeOK'
    <2>1. /\ holder' \in Instances \cup {None}
          /\ left' \in 0 .. TTL
          /\ holder' = None <=> left' = 0
        BY <1>5 DEF Resign, redis, TypeOK
    <2>2. QED
        BY <1>5, <2>1 DEF Resign, Ended, Goes, Lead, TypeOK
<1>6. ASSUME NEW i \in Instances, Exit(i)
      PROVE  TypeOK'
    BY <1>6 DEF Exit, Ended, Goes, Lead, redis, TypeOK
<1>7. CASE Tick
    <2>1. ASSUME NEW i \in Instances
          PROVE  age'[i] \in 0 .. Interval + Slack
        BY <1>7, <2>1 DEF Tick, OnTime, Running, TypeOK
    <2>2. age' \in [Instances -> 0 .. Interval + Slack]
        BY <1>7, <2>1 DEF Tick
    <2>3. /\ left' \in 0 .. TTL
          /\ holder' \in Instances \cup {None}
          /\ holder' = None <=> left' = 0
        BY <1>7 DEF Tick, TypeOK
    <2>4. QED
        BY <1>7, <2>2, <2>3 DEF Tick, TypeOK
<1>8. CASE UNCHANGED vars
    BY <1>8 DEF vars, redis, TypeOK
<1>9. QED
    BY <1>1, <1>2, <1>3, <1>4, <1>5, <1>6, <1>7, <1>8 DEF Next, Campaign

\* Type correctness of the election, and a key exists as long as it has time.
THEOREM TypeCorrect == Spec => []TypeOK
BY TypeInit, TypeStep, PTL DEF Spec

-----------------------------------------------------------------------------
(* The lease.                                                              *)

\* The longest distance between two campaigns is a number of ticks.
LEMMA ReachType == Reach \in Nat
BY IntervalType, ElectionAssumption DEF Reach

\* One failure more allows for one campaign more.
LEMMA ReachStep ==
    ASSUME NEW n \in Nat
    PROVE  /\ n * Reach \in Nat
           /\ (n + 1) * Reach = n * Reach + Reach
           /\ (n + 0) * Reach = n * Reach
           /\ (n + 1 + 1) * Reach = n * Reach + Reach + Reach
BY ReachType

\* More failures allow for more time.
LEMMA ReachMonotone ==
    ASSUME NEW m \in Nat, NEW n \in Nat, m <= n
    PROVE  m * Reach <= n * Reach
BY ReachType

\* Initially nobody holds the key, so every lease is in order.
LEMMA LeaseInit == Init => LeaseInv
BY ElectionAssumption DEF Init, LeaseInv, Running

\* A failure adds a campaign to what the key has to outlive.
LEMMA FaultReach ==
    ASSUME TypeOK, NEW kind, Fault(kind)
    PROVE  faults' * Reach = faults * Reach + Reach
BY ReachStep, ElectionAssumption DEF Fault, TypeOK

\* A running holder's key has more than one tick left when time may pass.
LEMMA KeyOutlives ==
    ASSUME TypeOK, LeaseInv, Timely, NEW i \in Instances,
           holder = i, Running(i), OnTime(i)
    PROVE  left > 1
<1>1. left + age[i] + (faults + Begun(i)) * Reach >= TTL
    BY DEF LeaseInv
<1>2. /\ faults \in Nat /\ left \in Nat /\ age[i] \in Nat
    BY ElectionAssumption, IntervalType DEF TypeOK
<1>3. /\ faults * Reach \in Nat
      /\ (faults + 1) * Reach = faults * Reach + Reach
      /\ (faults + 0) * Reach = faults * Reach
    BY <1>2, ReachStep
<1>4. faults * Reach + Reach + Slack < TTL
    BY <1>3 DEF Timely
<1>5. CASE pc[i] = "idle"
    <2>1. age[i] < Reach /\ Begun(i) = 0
        BY <1>5 DEF OnTime, Running, Begun, Reach
    <2>2. QED
        BY <1>1, <1>2, <1>3, <1>4, <2>1, ReachType, ElectionAssumption
<1>6. CASE pc[i] \in {"get", "expire"}
    <2>1. age[i] < Slack /\ Begun(i) = 1
        BY <1>6 DEF OnTime, Running, Begun
    <2>2. QED
        BY <1>1, <1>2, <1>3, <1>4, <2>1, ReachType, ElectionAssumption
<1>7. QED
    BY <1>5, <1>6 DEF Running

\* Every step keeps LeaseInv.
LEMMA LeaseStep ==
    Timely' /\ TypeOK /\ LeaseInv /\ [Next]_vars => LeaseInv'
<1> SUFFICES ASSUME Timely', TypeOK, LeaseInv, [Next]_vars,
                    NEW i \in Instances
             PROVE  /\ isLeader'[i] => holder' = i /\ Running(i)'
                    /\ pc'[i] = "new" => holder' # i
                    /\ pc'[i] = "expire" => isLeader'[i]
                    /\ holder' = i /\ Running(i)' =>
                          left' + age'[i] + (faults' + Begun(i)') * Reach >= TTL
    BY DEF LeaseInv
<1> DEFINE Covered == left + age[i] + (faults + Begun(i)) * Reach >= TTL
<1>0. /\ isLeader[i] => holder = i /\ Running(i)
      /\ pc[i] = "new" => holder # i
      /\ pc[i] = "expire" => isLeader[i]
      /\ holder = i /\ Running(i) => Covered
    BY DEF LeaseInv
<1>1. /\ faults \in Nat /\ left \in Nat /\ age[i] \in 0 .. Reach
      /\ faults * Reach \in Nat
      /\ (faults + 1) * Reach = faults * Reach + Reach
      /\ (faults + 0) * Reach = faults * Reach
      /\ Reach \in Nat /\ TTL \in Nat /\ i # None
    BY ReachStep, ReachType, ElectionAssumption, IntervalType DEF TypeOK, Reach
<1> DEFINE Goal == /\ isLeader'[i] => holder' = i /\ Running(i)'
                   /\ pc'[i] = "new" => holder' # i
                   /\ pc'[i] = "expire" => isLeader'[i]
                   /\ holder' = i /\ Running(i)' =>
                         left' + age'[i] + (faults' + Begun(i)') * Reach >= TTL
\* A step of another replica, or one that leaves replica i as it is: the key
\* does not come to i, and what i's key has to outlive does not shrink.
<1>2. ASSUME isLeader'[i] = isLeader[i], pc'[i] = pc[i], age'[i] = age[i],
             holder' = i => holder = i /\ left' \in Nat /\ left' >= left,
             isLeader[i] => holder' = i,
             \/ faults' = faults
             \/ faults' = faults + 1
      PROVE  Goal
    <2>1. /\ Begun(i)' = Begun(i) /\ Begun(i) \in {0, 1}
          /\ Running(i)' = Running(i)
        BY <1>2 DEF Begun, Running
    <2>2. (faults' + Begun(i)) * Reach >= (faults + Begun(i)) * Reach
        BY <1>1, <1>2, <2>1, ReachMonotone
    <2>3. /\ (faults' + Begun(i)) * Reach \in Nat
          /\ (faults + Begun(i)) * Reach \in Nat
        BY <1>1, <1>2, <2>1, ReachStep
    <2>4. CASE holder' = i /\ Running(i)
        <3>1. left + age[i] + (faults + Begun(i)) * Reach >= TTL
            BY <1>0, <1>2, <2>4
        <3>2. left' + age[i] + (faults' + Begun(i)) * Reach >= TTL
            BY <1>1, <1>2, <2>2, <2>3, <2>4, <3>1
        <3>3. QED
            BY <1>0, <1>2, <2>1, <2>4, <3>2
    <2>5. QED
        BY <1>0, <1>2, <2>1, <2>4
<1>3. ASSUME NEW j \in Instances, j # i, Campaign(j)
      PROVE  Goal
    <2>1. isLeader'[i] = isLeader[i] /\ pc'[i] = pc[i] /\ age'[i] = age[i]
        BY <1>3 DEF Campaign, SetNX, Get, Expire, Goes, Lead, TypeOK
    <2>2. faults' = faults \/ faults' = faults + 1
        BY <1>3 DEF Campaign, SetNX, Get, Expire, Fault
    <2>3. pc[j] = "expire" => holder # i
        BY <1>3 DEF LeaseInv
    <2>4. CASE SetNX(j)
        <3>1. \/ holder = None /\ holder' = j
              \/ holder' = holder /\ left' = left
            BY <2>4 DEF SetNX, Hold, redis
        <3>2. QED
            BY <1>0, <1>1, <1>2, <1>3, <2>1, <2>2, <3>1
    <2>5. CASE Get(j)
        BY <1>0, <1>1, <1>2, <2>1, <2>2, <2>5 DEF Get, redis
    <2>6. CASE Expire(j)
        BY <1>0, <1>1, <1>2, <2>1, <2>2, <2>3, <2>6 DEF Expire
    <2>7. QED
        BY <1>3, <2>4, <2>5, <2>6 DEF Campaign
<1>4. CASE SetNX(i)
    <2>1. /\ pc[i] = "idle" /\ age'[i] = 0
          /\ pc'[i] \in {"idle", "get"}
          /\ Begun(i) = 0
        BY <1>4 DEF SetNX, Goes, TypeOK, Begun
    <2>2. CASE Hold(i) /\ UNCHANGED pc
        <3>1. holder' = i /\ left' = TTL /\ pc'[i] = "idle"
            BY <2>1, <2>2 DEF Hold
        <3>2. Begun(i)' = 0 /\ Running(i)'
            BY <3>1 DEF Begun, Running
        <3>3. faults' \in Nat
            <4>1. faults' = faults \/ faults' = faults + 1
                BY <1>4 DEF SetNX, Fault
            <4>2. QED
                BY <1>1, <4>1
        <3>4. (faults' + 0) * Reach \in Nat
            BY <3>3, ReachStep
        <3>5. (faults' + Begun(i)') * Reach \in Nat
            BY <3>2, <3>4
        <3>6. left' + age'[i] + (faults' + Begun(i)') * Reach >= TTL
            BY <1>1, <2>1, <3>1, <3>5
        <3>7. QED
            BY <3>1, <3>2, <3>6
    <2>3. CASE holder # None /\ Goes(i, "get") /\ UNCHANGED <<redis, isLeader, faults>>
        <3>1. pc'[i] = "get" /\ Begun(i)' = 1 /\ Running(i)'
            BY <2>3 DEF Goes, TypeOK, Begun, Running
        <3>2. holder' = holder /\ left' = left /\ isLeader' = isLeader /\ faults' = faults
            BY <2>3 DEF redis
        <3>3. holder = i => left + age[i] + faults * Reach >= TTL
            BY <1>0, <1>1, <2>1 DEF Running
        <3>4. holder = i => left + 0 + (faults + 1) * Reach >= TTL
            BY <1>1, <3>3
        <3>5. QED
            BY <1>0, <2>1, <3>1, <3>2, <3>4
    <2>4. CASE Fault("setNX") /\ UNCHANGED <<redis, isLeader, pc>>
        <3>1. /\ holder' = holder /\ left' = left /\ isLeader' = isLeader
              /\ pc' = pc /\ Begun(i)' = 0 /\ Running(i) /\ Running(i)'
            BY <2>1, <2>4 DEF redis, Begun, Running
        <3>2. /\ faults' = faults + 1
              /\ (faults' + 0) * Reach = faults * Reach + Reach
            BY <1>1, <2>4, ReachStep DEF Fault
        <3>3. holder = i => left + age[i] + faults * Reach >= TTL
            BY <1>0, <1>1, <2>1, <3>1
        <3>4. holder = i => left + 0 + (faults' + 0) * Reach >= TTL
            BY <1>1, <3>2, <3>3
        <3>5. QED
            BY <1>0, <2>1, <3>1, <3>4
    <2>5. QED
        BY <1>4, <2>2, <2>3, <2>4 DEF SetNX
<1>5. CASE Get(i)
    <2>1. /\ pc[i] = "get" /\ Begun(i) = 1 /\ Running(i)
          /\ holder' = holder /\ left' = left /\ age' = age
        BY <1>5 DEF Get, Begun, Running, redis
    <2>2. holder = i => left + age[i] + (faults + 1) * Reach >= TTL
        BY <1>0, <2>1
    <2>3. CASE holder = i /\ Lead(i, TRUE) /\ Goes(i, "expire") /\ UNCHANGED faults
        <3>1. isLeader'[i] /\ pc'[i] = "expire"
            BY <2>3 DEF Lead, Goes, TypeOK
        <3>2. Begun(i)' = 1 /\ Running(i)'
            BY <3>1 DEF Begun, Running
        <3>3. QED
            BY <2>1, <2>2, <2>3, <3>1, <3>2
    <2>4. CASE Lead(i, FALSE) /\ Goes(i, "idle") /\ (holder = i => Fault("get"))
        <3>1. ~isLeader'[i] /\ pc'[i] = "idle"
            BY <2>4 DEF Lead, Goes, TypeOK
        <3>2. Begun(i)' = 0
            BY <3>1 DEF Begun
        <3>3. holder = i => (faults' + 0) * Reach = (faults + 1) * Reach
            BY <1>1, <2>4, ReachStep DEF Fault
        <3>4. QED
            BY <2>1, <2>2, <3>1, <3>2, <3>3
    <2>5. QED
        BY <1>5, <2>3, <2>4 DEF Get
<1>6. CASE Expire(i)
    <2>1. /\ pc[i] = "expire" /\ pc'[i] = "idle" /\ Begun(i) = 1 /\ Begun(i)' = 0
          /\ isLeader' = isLeader /\ holder' = holder /\ age' = age
          /\ Running(i) /\ Running(i)' /\ isLeader[i] /\ holder = i
        BY <1>0, <1>6 DEF Expire, Goes, Begun, Running, TypeOK
    <2>2. CASE left' = TTL /\ faults' = faults
        BY <1>1, <2>1, <2>2
    <2>3. CASE Fault("expire") /\ UNCHANGED left
        <3>1. (faults' + 0) * Reach = (faults + 1) * Reach
            BY <1>1, <2>3, ReachStep DEF Fault
        <3>2. left + age[i] + (faults + 1) * Reach >= TTL
            BY <1>0, <2>1
        <3>3. QED
            BY <2>1, <2>3, <3>1, <3>2
    <2>4. QED
        BY <1>1, <1>6, <2>1, <2>2, <2>3 DEF Expire
<1>7. ASSUME NEW j \in Instances, Start(j)
      PROVE  Goal
    <2>1. holder # j /\ faults' = faults /\ holder' = holder
          /\ left' = left /\ isLeader' = isLeader
        BY <1>7 DEF Start, redis, Timely
    <2>2. CASE j = i
        <3>1. holder # i /\ pc'[i] = "idle"
            BY <1>7, <2>1, <2>2 DEF Start, Goes, TypeOK
        <3>2. QED
            BY <1>0, <2>1, <3>1
    <2>3. CASE j # i
        <3>1. pc'[i] = pc[i] /\ age'[i] = age[i]
            BY <1>7, <2>3 DEF Start, Goes, TypeOK
        <3>2. QED
            BY <1>0, <1>1, <1>2, <2>1, <3>1
    <2>4. QED
        BY <2>2, <2>3
<1>8. ASSUME NEW j \in Instances, Resign(j) \/ Exit(j)
      PROVE  Goal
    <2>1. /\ faults' = faults /\ age' = age
          /\ \/ holder' = holder /\ left' = left
             \/ holder = j /\ holder' = None
        BY <1>8 DEF Resign, Exit, redis
    <2>2. Goes(j, "down") /\ Lead(j, FALSE)
        BY <1>8 DEF Resign, Exit, Ended
    <2>3. CASE j = i
        <3>1. pc'[i] = "down" /\ ~isLeader'[i]
            BY <2>2, <2>3 DEF Goes, Lead, TypeOK
        <3>2. QED
            BY <3>1 DEF Running
    <2>4. CASE j # i
        <3>1. pc'[i] = pc[i] /\ isLeader'[i] = isLeader[i]
            BY <2>2, <2>4 DEF Goes, Lead, TypeOK
        <3>2. QED
            BY <1>0, <1>1, <1>2, <2>1, <2>4, <3>1
    <2>5. QED
        BY <2>3, <2>4
<1>9. CASE Tick
    <2>1. /\ isLeader' = isLeader /\ pc' = pc /\ faults' = faults
          /\ Begun(i)' = Begun(i) /\ Running(i)' = Running(i)
        BY <1>9 DEF Tick, Begun, Running
    <2>2. holder = i /\ Running(i) => left > 1
        <3>1. Timely
            BY <1>9 DEF Tick, Timely, Reach, Interval
        <3>2. QED
            BY <1>9, <3>1, KeyOutlives DEF Tick
    <2>3. /\ holder' \in {holder, None}
          /\ holder = i /\ Running(i) =>
                holder' = i /\ left' = left - 1 /\ age'[i] = age[i] + 1
        BY <1>1, <1>9, <2>2 DEF Tick
    <2>4. Begun(i) \in {0, 1} /\ (faults + Begun(i)) * Reach \in Nat
        BY <1>1 DEF Begun
    <2>5. QED
        BY <1>0, <1>1, <2>1, <2>2, <2>3, <2>4
<1>10. CASE UNCHANGED vars
    BY <1>0, <1>1, <1>2, <1>10 DEF vars, redis
<1>11. QED
    BY <1>3, <1>4, <1>5, <1>6, <1>7, <1>8, <1>9, <1>10 DEF Next, Campaign

\* What was not timely does not become so: neither failures nor a key that
\* was inherited are forgotten.
LEMMA TimelyStep == TypeOK /\ [Next]_vars /\ Timely' => Timely
<1> SUFFICES ASSUME TypeOK, [Next]_vars, Timely'
             PROVE  Timely
    OBVIOUS
<1>1. faults \in Nat /\ (faults' = faults \/ faults' = faults + 1)
    <2>1. ASSUME NEW i \in Instances, Campaign(i)
          PROVE  faults' = faults \/ faults' = faults + 1
        BY <2>1 DEF Campaign, SetNX, Get, Expire, Fault
    <2>2. ASSUME NEW i \in Instances, Start(i) \/ Resign(i) \/ Exit(i)
          PROVE  faults' = faults
        BY <2>2 DEF Start, Resign, Exit
    <2>3. Tick \/ UNCHANGED vars => faults' = faults
        BY DEF Tick, vars
    <2>4. faults \in Nat
        BY ElectionAssumption DEF TypeOK
    <2>5. QED
        BY <2>1, <2>2, <2>3, <2>4 DEF Next
<1>2. inherited => inherited'
    BY DEF Next, Start, Campaign, SetNX, Get, Expire, Resign, Exit, Tick, vars
<1>3. (faults + 1) * Reach <= (faults' + 1) * Reach
    BY <1>1, ReachMonotone
<1>4. (faults + 1) * Reach \in Nat /\ (faults' + 1) * Reach \in Nat
    BY <1>1, ReachType
<1>5. ~inherited' /\ (faults' + 1) * Reach + Slack < TTL
    BY DEF Timely, Reach, Interval
<1>6. (faults + 1) * Reach + Slack < TTL
    BY <1>3, <1>4, <1>5, ElectionAssumption
<1>7. QED
    BY <1>2, <1>5, <1>6 DEF Timely

\* As long as campaigns are on time, failures few enough and no key inherited,
\* at most one replica leads, however many replicas start, stop and compete.
THEOREM AtMostOne == Spec => []AtMostOneLeader
<1> DEFINE IInv == TypeOK /\ (Timely => LeaseInv)
<1>1. Init => IInv
    BY TypeInit, LeaseInit
<1>2. IInv /\ [Next]_vars => IInv'
    BY TypeStep, TimelyStep, LeaseStep
<1>3. IInv => AtMostOneLeader
    BY DEF LeaseInv, AtMostOneLeader, OneLeader
<1>4. QED
    <2>1. Spec => []IInv
        <3> HIDE DEF IInv
        <3>1. QED
            BY <1>1, <1>2, PTL DEF Spec
    <2>2. QED
        <3> HIDE DEF IInv
        <3>1. QED
            BY <1>3, <2>1, PTL

-----------------------------------------------------------------------------
(* The election and the job managers of all replicas.                      *)

\* Whatever the managers do, the election goes on as it does alone.
LEMMA ClusterElectsInit == ClusterInit => Init
BY DEF ClusterInit

LEMMA ClusterElects == [ClusterNext]_clusterVars => [Next]_vars
<1> SUFFICES ASSUME [ClusterNext]_clusterVars
             PROVE  [Next]_vars
    OBVIOUS
<1>1. CASE ElectionStep
    BY <1>1 DEF ElectionStep, Next
<1>2. ASSUME NEW i \in Instances, ManagerStep(i)
      PROVE  [Next]_vars
    <2>1. CASE ProcessEnds(i)
        BY <1>2, <2>1 DEF ProcessEnds, Next
    <2>2. CASE AskIsLeader(i) \/ Obey(i) \/ StopOnSignal(i) \/ ContextEnds(i)
        <3>1. UNCHANGED vars
            BY <2>2 DEF AskIsLeader, Obey, StopOnSignal, ContextEnds
        <3>2. QED
            BY <3>1
    <2>3. QED
        BY <1>2, <2>1, <2>2 DEF ManagerStep
<1>3. CASE UNCHANGED clusterVars
    BY <1>3 DEF clusterVars
<1>4. QED
    BY <1>1, <1>2, <1>3 DEF ClusterNext

\* Initially no manager has done anything.
LEMMA ManagersInit == ClusterInit => ManagersTypeOK
BY DEF ClusterInit, ManagersTypeOK

\* Every step keeps the types of the managers.
LEMMA ManagersStep ==
    ManagersTypeOK /\ [ClusterNext]_clusterVars => ManagersTypeOK'
<1> SUFFICES ASSUME ManagersTypeOK, [ClusterNext]_clusterVars
             PROVE  ManagersTypeOK'
    OBVIOUS
<1>1. CASE UNCHANGED managers
    BY <1>1 DEF managers, ManagersTypeOK
<1>2. ASSUME NEW i \in Instances, ManagerStep(i)
      PROVE  ManagersTypeOK'
    <2>1. CASE AskIsLeader(i)
        BY <2>1 DEF AskIsLeader, ManagersTypeOK
    <2>2. CASE Obey(i)
        <3>1. (heard[i] = "leads") \in BOOLEAN
            OBVIOUS
        <3>2. acted' \in [Instances -> BOOLEAN]
            BY <2>2, <3>1 DEF Obey, ManagersTypeOK
        <3>3. /\ heard' \in [Instances -> {"nothing", "leads", "follows"}]
              /\ runners' \subseteq Instances
              /\ UNCHANGED process
            BY <2>2 DEF Obey, ManagersTypeOK
        <3>4. QED
            BY <3>2, <3>3 DEF ManagersTypeOK
    <2>3. CASE StopOnSignal(i)
        BY <2>3 DEF StopOnSignal, ManagersTypeOK
    <2>4. CASE ContextEnds(i)
        BY <2>4 DEF ContextEnds, ManagersTypeOK
    <2>5. CASE ProcessEnds(i)
        <3>1. acted' \in [Instances -> BOOLEAN]
            BY <2>5 DEF ProcessEnds, ManagersTypeOK
        <3>2. /\ heard' \in [Instances -> {"nothing", "leads", "follows"}]
              /\ runners' \subseteq Instances
              /\ process' \in [Instances -> {"up", "stopping", "cancelled"}]
            BY <2>5 DEF ProcessEnds, ManagersTypeOK
        <3>3. QED
            BY <3>1, <3>2 DEF ManagersTypeOK
    <2>6. QED
        BY <1>2, <2>1, <2>2, <2>3, <2>4, <2>5 DEF ManagerStep
<1>3. QED
    BY <1>1, <1>2 DEF ClusterNext, ElectionStep, clusterVars

\* The variables of the election and of the managers keep their types while
\* both go on together.
THEOREM ClusterTypeCorrect == ClusterSpec => [](TypeOK /\ ManagersTypeOK)
<1>1. ClusterInit => TypeOK /\ ManagersTypeOK
    BY ClusterElectsInit, TypeInit, ManagersInit
<1>2. TypeOK /\ ManagersTypeOK /\ [ClusterNext]_clusterVars
      => (TypeOK /\ ManagersTypeOK)'
    BY ClusterElects, TypeStep, ManagersStep
<1>3. QED
    BY <1>1, <1>2, PTL DEF ClusterSpec

\* While the election is timely a replica that holds the key and goes on
\* running keeps it: nobody else may set it, and it does not expire.
LEMMA HolderStays ==
    ASSUME Timely, TypeOK, LeaseInv, [Next]_vars,
           NEW i \in Instances, holder = i, Running(i), Running(i)'
    PROVE  holder' = i
<1>0. i # None
    BY ElectionAssumption
<1>1. ASSUME NEW j \in Instances, Start(j)
      PROVE  holder' = i
    BY <1>1 DEF Start, redis
<1>2. ASSUME NEW j \in Instances, Campaign(j)
      PROVE  holder' = i
    BY <1>0, <1>2 DEF Campaign, SetNX, Get, Expire, redis
<1>3. ASSUME NEW j \in Instances, Resign(j)
      PROVE  holder' = i
    <2>1. pc'[j] = "down"
        BY <1>3 DEF Resign, Ended, Goes, TypeOK
    <2>2. j # i
        BY <2>1 DEF Running
    <2>3. QED
        BY <1>3, <2>2 DEF Resign, redis
<1>4. ASSUME NEW j \in Instances, Exit(j)
      PROVE  holder' = i
    BY <1>4 DEF Exit, redis
<1>5. CASE Tick
    <2>1. left > 1
        BY <1>5, KeyOutlives DEF Tick
    <2>2. left \in Nat
        BY ElectionAssumption DEF TypeOK
    <2>3. QED
        BY <1>5, <2>1, <2>2 DEF Tick
<1>6. CASE UNCHANGED vars
    BY <1>6 DEF vars, redis
<1>7. QED
    BY <1>1, <1>2, <1>3, <1>4, <1>5, <1>6 DEF Next

\* Initially nobody runs jobs.
LEMMA RunnersInit == ClusterInit => RunnersInv
BY DEF ClusterInit, RunnersInv

\* Every step of a timely election keeps RunnersInv.
LEMMA RunnersStep ==
    ASSUME Timely, TypeOK, ManagersTypeOK, LeaseInv, RunnersInv,
           [ClusterNext]_clusterVars
    PROVE  RunnersInv'
<1> SUFFICES ASSUME NEW i \in Instances
             PROVE  /\ ~Running(i)' => heard'[i] = "nothing" /\ i \notin runners'
                    /\ heard'[i] = "leads" \/ i \in runners' => holder' = i
    BY DEF RunnersInv
<1> DEFINE Goal == /\ ~Running(i)' => heard'[i] = "nothing" /\ i \notin runners'
                   /\ heard'[i] = "leads" \/ i \in runners' => holder' = i
<1>0. /\ ~Running(i) => heard[i] = "nothing" /\ i \notin runners
      /\ heard[i] = "leads" \/ i \in runners => holder = i
    BY DEF RunnersInv
<1>1. CASE ElectionStep
    <2>1. UNCHANGED <<heard, runners>>
        BY <1>1 DEF ElectionStep, managers
    <2>2. Running(i) => Running(i)'
        BY <1>1 DEF ElectionStep, Start, Campaign, SetNX, Get, Expire, Tick,
                    Goes, Running, TypeOK
    <2>3. [Next]_vars
        BY ClusterElects
    <2>4. CASE heard[i] = "leads" \/ i \in runners
        <3>1. holder = i /\ Running(i) /\ Running(i)'
            BY <1>0, <2>2, <2>4
        <3>2. holder' = i
            BY <2>3, <3>1, HolderStays
        <3>3. QED
            BY <2>1, <3>1, <3>2
    <2>5. CASE ~(heard[i] = "leads" \/ i \in runners)
        BY <1>0, <2>1, <2>2, <2>5
    <2>6. QED
        BY <2>4, <2>5
\* A manager's step other than the end of its process leaves the election
\* alone, and changes what its own replica has heard and runs.
<1>2. ASSUME NEW j \in Instances, UNCHANGED vars,
             j # i => heard'[i] = heard[i] /\ (i \in runners' => i \in runners),
             j = i => /\ ~Running(i) => heard'[i] = "nothing" /\ i \notin runners'
                      /\ heard'[i] = "leads" \/ i \in runners' => holder = i
      PROVE  Goal
    <2>1. Running(i)' = Running(i) /\ holder' = holder
        BY <1>2 DEF vars, redis, Running
    <2>2. QED
        BY <1>0, <1>2, <2>1
<1>3. ASSUME NEW j \in Instances, AskIsLeader(j)
      PROVE  Goal
    <2>1. /\ UNCHANGED vars
          /\ runners' = runners
          /\ heard' = [heard EXCEPT ![j] = IF isLeader[j] THEN "leads"
                                                          ELSE "follows"]
        BY <1>3 DEF AskIsLeader
    <2>2. Running(j)
        BY <1>3 DEF AskIsLeader, Running
    <2>3. isLeader[j] => holder = j
        BY DEF LeaseInv
    <2>4. QED
        BY <1>0, <1>2, <2>1, <2>2, <2>3 DEF ManagersTypeOK
<1>4. ASSUME NEW j \in Instances, Obey(j)
      PROVE  Goal
    <2>1. /\ UNCHANGED vars
          /\ Running(j)
          /\ heard' = [heard EXCEPT ![j] = "nothing"]
        BY <1>4 DEF Obey
    <2>2. /\ i \in runners' /\ j # i => i \in runners
          /\ i \in runners' /\ j = i => i \in runners \/ heard[i] = "leads"
        BY <1>4 DEF Obey
    <2>3. QED
        BY <1>0, <1>2, <2>1, <2>2 DEF ManagersTypeOK
<1>5. ASSUME NEW j \in Instances, StopOnSignal(j) \/ ContextEnds(j)
      PROVE  Goal
    <2>1. /\ UNCHANGED vars
          /\ runners' = runners \ {j}
          /\ \/ heard' = heard
             \/ heard' = [heard EXCEPT ![j] = "nothing"]
        BY <1>5 DEF StopOnSignal, ContextEnds
    <2>2. QED
        BY <1>0, <1>2, <2>1 DEF ManagersTypeOK
<1>6. ASSUME NEW j \in Instances, ProcessEnds(j)
      PROVE  Goal
    <2>1. /\ runners' = runners \ {j}
          /\ heard' = [heard EXCEPT ![j] = "nothing"]
        BY <1>6 DEF ProcessEnds
    <2>2. pc' = [pc EXCEPT ![j] = "down"]
        BY <1>6 DEF ProcessEnds, Resign, Exit, Ended, Goes
    <2>3. CASE j = i
        BY <2>1, <2>3 DEF ManagersTypeOK
    <2>4. CASE j # i
        <3>1. /\ heard'[i] = heard[i]
              /\ i \in runners' <=> i \in runners
            BY <2>1, <2>4 DEF ManagersTypeOK
        <3>2. Running(i)' = Running(i)
            BY <2>2, <2>4 DEF Running, TypeOK
        <3>3. [Next]_vars
            BY ClusterElects
        <3>4. holder = i /\ Running(i) => holder' = i
            BY <3>2, <3>3, HolderStays
        <3>5. QED
            BY <1>0, <3>1, <3>2, <3>4
    <2>5. QED
        BY <2>3, <2>4
<1>7. CASE UNCHANGED clusterVars
    <2>1. UNCHANGED <<vars, heard, runners>>
        BY <1>7 DEF clusterVars, managers
    <2>2. QED
        BY <1>0, <1>2, <2>1
<1>8. QED
    BY <1>1, <1>3, <1>4, <1>5, <1>6, <1>7 DEF ClusterNext, ManagerStep

\* While the election is timely no job runs on two replicas, and none runs on
\* one while another believes that it leads: for any number of replicas,
\* however late their monitors look and act, and whatever fails or ends.
THEOREM RunOnce == ClusterSpec => []JobsRunOnce
<1> DEFINE Inv == Timely => LeaseInv /\ RunnersInv
<1>1. ClusterInit => Inv
    BY ClusterElectsInit, LeaseInit, RunnersInit
<1>2. TypeOK /\ ManagersTypeOK /\ Inv /\ [ClusterNext]_clusterVars => Inv'
    <2> SUFFICES ASSUME TypeOK, ManagersTypeOK, Inv, Timely',
                        [ClusterNext]_clusterVars
                 PROVE  (LeaseInv /\ RunnersInv)'
        OBVIOUS
    <2>1. [Next]_vars
        BY ClusterElects
    <2>2. Timely
        BY <2>1, TimelyStep
    <2>3. QED
        BY <2>1, <2>2, LeaseStep, RunnersStep
<1>3. Inv => JobsRunOnce
    BY DEF LeaseInv, RunnersInv, JobsRunOnce, OneActive, Active
<1>4. QED
    BY <1>1, <1>2, <1>3, ClusterTypeCorrect, PTL DEF ClusterSpec

-----------------------------------------------------------------------------
(* The job manager: starting and stopping jobs.                            *)

\* Starting and stopping keep the types, and the agreement of the map and the
\* goroutines.
Good == JobsTypeOK /\ OneLiveRun

\* startLeaderJobs leaves one live goroutine of each job.
LEMMA StartGood ==
    ASSUME Good, startLeaderJobs
    PROVE  /\ cancelFuncs' = Jobs
           /\ live' \in [Jobs -> Nat]
           /\ ending' \in [Jobs -> Nat]
           /\ \A j \in Jobs : live'[j] <= 1
BY DEF Good, startLeaderJobs, JobsTypeOK, OneLiveRun

\* After stopLeaderJobs no goroutine is without a cancelled context.
LEMMA StopGood ==
    ASSUME Good, stopLeaderJobs
    PROVE  /\ cancelFuncs' = {}
           /\ live' \in [Jobs -> Nat]
           /\ ending' \in [Jobs -> Nat]
           /\ \A j \in Jobs : live'[j] = 0
BY DEF Good, stopLeaderJobs, JobsTypeOK, OneLiveRun

\* Initially nothing runs.
LEMMA GoodInit == JobsInit => Good
<1> SUFFICES ASSUME JobsInit
             PROVE  Good
    OBVIOUS
<1>1. /\ live \in [Jobs -> Nat] /\ ending \in [Jobs -> Nat]
      /\ \A j \in Jobs : live[j] = 0
    BY DEF JobsInit
<1>2. /\ election \in {"none", "follower"} /\ seen \in BOOLEAN /\ wasLeader \in BOOLEAN
      /\ cancelled \in BOOLEAN
      /\ monitor = "none" /\ phase = "new" /\ cancelFuncs = {}
    BY DEF JobsInit
<1>3. QED
    BY <1>1, <1>2 DEF Good, JobsTypeOK, OneLiveRun

\* Every step keeps the types and OneLiveRun, action by action.
LEMMA GoodStep == Good /\ [JobsNext]_jobVars => Good'
<1> SUFFICES ASSUME Good, [JobsNext]_jobVars
             PROVE  Good'
    OBVIOUS
<1>0. JobsTypeOK /\ OneLiveRun
    BY DEF Good
<1>1. CASE StartManager
    <2>1. CASE startLeaderJobs /\ UNCHANGED monitor
        BY <1>0, <1>1, <2>1, StartGood DEF StartManager, Good, JobsTypeOK, OneLiveRun
    <2>2. CASE monitor' = "idle" /\ UNCHANGED runs
        BY <1>0, <1>1, <2>2 DEF StartManager, runs, Good, JobsTypeOK, OneLiveRun
    <2>3. QED
        BY <1>1, <2>1, <2>2 DEF StartManager
<1>2. CASE CancelContext
    BY <1>0, <1>2 DEF CancelContext, mon, Good, JobsTypeOK, OneLiveRun
<1>3. CASE Signal
    BY <1>0, <1>3 DEF Signal, mon, runs, Good, JobsTypeOK, OneLiveRun
<1>4. CASE stopAllJobs
    BY <1>0, <1>4, StopGood DEF stopAllJobs, mon, Good, JobsTypeOK, OneLiveRun
<1>5. CASE WaitReturns
    BY <1>0, <1>5 DEF WaitReturns, mon, runs, Good, JobsTypeOK, OneLiveRun
<1>6. CASE WaitTimesOut
    BY <1>0, <1>6 DEF WaitTimesOut, Gone, Good, JobsTypeOK, OneLiveRun
<1>7. CASE MonitorAsks
    BY <1>0, <1>7 DEF MonitorAsks, runs, Good, JobsTypeOK, OneLiveRun
<1>8. CASE MonitorActs
    <2>1. /\ election' = election /\ monitor' = "idle" /\ seen' \in BOOLEAN
          /\ wasLeader' \in BOOLEAN /\ cancelled' = cancelled
          /\ phase' = phase
        BY <1>0, <1>8 DEF MonitorActs, JobsTypeOK
    <2>2. CASE startLeaderJobs
        BY <1>0, <2>1, <2>2, StartGood DEF Good, JobsTypeOK, OneLiveRun
    <2>3. CASE stopLeaderJobs
        BY <1>0, <2>1, <2>3, StopGood DEF Good, JobsTypeOK, OneLiveRun
    <2>4. CASE UNCHANGED runs
        BY <1>0, <2>1, <2>4 DEF runs, Good, JobsTypeOK, OneLiveRun
    <2>5. QED
        BY <1>8, <2>2, <2>3, <2>4 DEF MonitorActs
<1>9. CASE MonitorEnds
    BY <1>0, <1>9, StopGood DEF MonitorEnds, Good, JobsTypeOK, OneLiveRun
<1>10. ASSUME NEW j \in Jobs, JobReturns(j)
       PROVE  Good'
    BY <1>0, <1>10 DEF JobReturns, mon, Good, JobsTypeOK, OneLiveRun
<1>11. ASSUME NEW j \in Jobs, JobFails(j)
       PROVE  Good'
    BY <1>0, <1>11 DEF JobFails, mon, Good, JobsTypeOK, OneLiveRun
<1>12. CASE LeadershipChanges
    BY <1>0, <1>12 DEF LeadershipChanges, mon, runs, Good, JobsTypeOK, OneLiveRun
<1>13. CASE UNCHANGED jobVars
    BY <1>0, <1>13 DEF jobVars, mon, runs, Good, JobsTypeOK, OneLiveRun
<1>14. QED
    BY <1>1, <1>2, <1>3, <1>4, <1>5, <1>6, <1>7, <1>8, <1>9, <1>10, <1>11,
       <1>12, <1>13
    DEF JobsNext, Monitor

\* Every variable has the type its Go variable has: in particular the counts of
\* goroutines never fall below zero, whoever ends them.
THEOREM JobsTypeCorrect == JobsSpec => []JobsTypeOK
<1>1. Good => JobsTypeOK
    BY DEF Good
<1>2. QED
    BY <1>1, GoodInit, GoodStep, PTL DEF JobsSpec

\* Through any sequence of leadership flips, failing jobs and shutdown, no job
\* runs twice unstopped, and every run can be stopped.
THEOREM OneRun == JobsSpec => []OneLiveRun
<1>1. Good => OneLiveRun
    BY DEF Good
<1>2. QED
    BY <1>1, GoodInit, GoodStep, PTL DEF JobsSpec

-----------------------------------------------------------------------------
(* Shutdown.                                                               *)

\* Initially the process has not started.
LEMMA MonitorInit == JobsInit => MonitorInv
BY DEF JobsInit, MonitorInv, CleanShutdown, NoGoroutine

\* Every step keeps MonitorInv.
LEMMA MonitorStep == Good /\ MonitorInv /\ [JobsNext]_jobVars => MonitorInv'
<1> SUFFICES ASSUME Good, MonitorInv, [JobsNext]_jobVars
             PROVE  MonitorInv'
    OBVIOUS
<1>0. JobsTypeOK
    BY DEF Good
<1> USE <1>0 DEF MonitorInv, CleanShutdown, NoGoroutine, Distributed
<1>1. CASE StartManager
    BY <1>1 DEF StartManager
<1>2. CASE CancelContext
    BY <1>2 DEF CancelContext, mon, ProcessRuns
<1>3. CASE Signal
    BY <1>3 DEF Signal, mon, runs
<1>4. CASE stopAllJobs
    BY <1>4 DEF stopAllJobs, mon
<1>5. CASE WaitReturns
    BY <1>5 DEF WaitReturns, mon, runs
<1>6. CASE WaitTimesOut
    BY <1>6 DEF WaitTimesOut
<1>7. CASE Monitor
    BY <1>7 DEF Monitor, MonitorAsks, MonitorActs, MonitorEnds, ProcessRuns
<1>8. ASSUME NEW j \in Jobs, JobReturns(j) \/ JobFails(j)
      PROVE  MonitorInv'
    BY <1>8 DEF JobReturns, JobFails, mon, JobsTypeOK
<1>9. CASE LeadershipChanges
    BY <1>9 DEF LeadershipChanges, mon, runs, ProcessRuns
<1>10. CASE UNCHANGED jobVars
    BY <1>10 DEF jobVars, mon, runs
<1>11. QED
    BY <1>1, <1>2, <1>3, <1>4, <1>5, <1>6, <1>7, <1>8, <1>9, <1>10 DEF JobsNext

\* A clean shutdown leaves no goroutine behind, and a replica with an election
\* only shuts down cleanly after its own context was cancelled.
THEOREM Shutdown == JobsSpec => []CleanShutdown
<1>1. MonitorInv => CleanShutdown
    BY DEF MonitorInv
<1>2. QED
    BY <1>1, GoodInit, GoodStep, MonitorInit, MonitorStep, PTL DEF JobsSpec

-----------------------------------------------------------------------------
(* Who runs, with and without an election.                                 *)

\* Nothing runs before the start, and nothing but the start, the end and a
\* failing job then concerns the jobs of a replica without an election.
ElectedInv ==
    /\ JobsRunAsElected
    /\ phase = "new" => cancelFuncs = {} /\ NoGoroutine
    /\ ~Distributed => monitor = "none"

\* Initially the process has not started.
LEMMA ElectedInit == JobsInit => ElectedInv
BY DEF JobsInit, ElectedInv, JobsRunAsElected, NoGoroutine

\* The monitor starts the jobs only of a replica that it found leading, and
\* stops them all when it found that it no longer leads, or when it ends.
LEMMA ElectedMonitor ==
    ASSUME Good, ElectedInv, Monitor
    PROVE  ElectedInv'
<1>0. JobsTypeOK
    BY DEF Good
<1>1. Distributed /\ phase # "new" /\ UNCHANGED <<election, phase>>
    BY DEF Monitor, MonitorAsks, MonitorActs, MonitorEnds, ProcessRuns,
           ElectedInv
<1>2. SUFFICES ASSUME NEW j \in Jobs, live'[j] > 0
               PROVE  wasLeader' /\ monitor' \in {"idle", "asked"}
    BY <1>1 DEF ElectedInv, JobsRunAsElected, Distributed
<1>3. ~stopLeaderJobs
    BY <1>2, StopGood
<1>4. CASE MonitorAsks
    BY <1>1, <1>2, <1>4
    DEF MonitorAsks, runs, ElectedInv, JobsRunAsElected
<1>5. CASE MonitorActs
    <2>1. CASE seen /\ ~wasLeader
        BY <1>5, <2>1 DEF MonitorActs
    <2>2. CASE seen = wasLeader /\ UNCHANGED runs
        <3>1. live[j] > 0
            BY <1>2, <2>2 DEF runs
        <3>2. wasLeader
            BY <1>1, <3>1 DEF ElectedInv, JobsRunAsElected
        <3>3. QED
            BY <1>5, <2>2, <3>2 DEF MonitorActs
    <2>3. QED
        BY <1>3, <1>5, <2>1, <2>2 DEF MonitorActs
<1>6. CASE MonitorEnds
    BY <1>3, <1>6 DEF MonitorEnds
<1>7. QED
    BY <1>4, <1>5, <1>6 DEF Monitor

\* Every step keeps ElectedInv.
LEMMA ElectedStep == Good /\ ElectedInv /\ [JobsNext]_jobVars => ElectedInv'
<1> SUFFICES ASSUME Good, ElectedInv, [JobsNext]_jobVars
             PROVE  ElectedInv'
    OBVIOUS
<1>0. JobsTypeOK
    BY DEF Good
<1> USE <1>0 DEF ElectedInv, JobsRunAsElected, NoGoroutine, Distributed
<1>1. CASE StartManager
    <2>1. phase = "new" /\ phase' = "up" /\ UNCHANGED <<election, cancelled>>
        BY <1>1 DEF StartManager
    <2>2. CASE Distributed
        BY <1>1, <2>1, <2>2 DEF StartManager, runs
    <2>3. CASE ~Distributed
        <3>1. startLeaderJobs /\ UNCHANGED monitor
            BY <1>1, <2>3 DEF StartManager
        <3>2. ~cancelled => \A j \in Jobs : live'[j] = 1
            BY <2>1, <3>1 DEF startLeaderJobs, JobsTypeOK
        <3>3. QED
            BY <2>1, <2>3, <3>1, <3>2
    <2>4. QED
        BY <2>2, <2>3
<1>2. CASE CancelContext
    BY <1>2 DEF CancelContext, mon, ProcessRuns
<1>3. CASE Signal
    BY <1>3 DEF Signal, mon, runs
<1>4. CASE stopAllJobs
    <2>1. \A j \in Jobs : live'[j] = 0
        BY <1>4, StopGood DEF stopAllJobs
    <2>2. QED
        BY <1>4, <2>1 DEF stopAllJobs, mon
<1>5. CASE WaitReturns
    BY <1>5 DEF WaitReturns, mon, runs
<1>6. CASE WaitTimesOut
    BY <1>6 DEF WaitTimesOut, Gone
<1>7. CASE Monitor
    BY <1>7, ElectedMonitor
<1>8. ASSUME NEW j \in Jobs, JobReturns(j)
      PROVE  ElectedInv'
    BY <1>8 DEF JobReturns, mon, JobsTypeOK
<1>9. ASSUME NEW j \in Jobs, JobFails(j)
      PROVE  ElectedInv'
    BY <1>9 DEF JobFails, mon, JobsTypeOK
<1>10. CASE LeadershipChanges
    BY <1>10 DEF LeadershipChanges, mon, runs, ProcessRuns
<1>11. CASE UNCHANGED jobVars
    BY <1>11 DEF jobVars, mon, runs
<1>12. QED
    BY <1>1, <1>2, <1>3, <1>4, <1>5, <1>6, <1>7, <1>8, <1>9, <1>10, <1>11
    DEF JobsNext

\* Without an election the jobs that work run from the start to the end, since
\* no monitor runs that could stop them and a failing job takes no other with
\* it; with one, no job runs on that its monitor would not stop.
THEOREM RunAsElected == JobsSpec => []JobsRunAsElected
<1>1. ElectedInv => JobsRunAsElected
    BY DEF ElectedInv
<1>2. QED
    BY <1>1, ElectedInit, ElectedStep, GoodInit, GoodStep, PTL DEF JobsSpec
=============================================================================
