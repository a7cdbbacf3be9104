---------------------- MODULE FirewallWhitelist_proofs ----------------------
(***************************************************************************)
(* Proofs about FirewallWhitelist, for every set of entries, users,        *)
(* addresses, issuers and deployments: any limits, instances and faults.   *)
(***************************************************************************)
EXTENDS FirewallWhitelist, TLAPS

-----------------------------------------------------------------------------
(* Types.                                                                  *)

\* Nothing is requested at first.
LEMMA TypeInit == Init => TypeOK
<1> SUFFICES ASSUME Init
             PROVE  TypeOK
    OBVIOUS
<1>1. deployment.signers \subseteq Urls /\ deployment.maxFaults \in Nat
    BY WhitelistAssumption DEF Init, WhitelistAssumption
<1>2. IdleSync \in SyncState
    BY DEF IdleSync, SyncState
<1>3. QED
    BY <1>1, <1>2, WhitelistAssumption
       DEF Init, TypeOK, Statuses, WhitelistAssumption

\* A counted failure stays within the bound of the deployment.
LEMMA FaultType ==
    ASSUME TypeOK, UNCHANGED deployment, NEW kind, Fault(kind)
    PROVE  faults' \in 0 .. deployment.maxFaults
<1>1. deployment.maxFaults \in Nat
    BY WhitelistAssumption DEF TypeOK, WhitelistAssumption
<1>2. QED
    BY <1>1 DEF Fault, TypeOK

\* Steps of the handlers keep the types.
LEMMA HandlerTypes ==
    ASSUME TypeOK, UNCHANGED deployment,
           NEW e \in Entries, Add(e) \/ Remove(e) \/ Expire(e)
    PROVE  TypeOK'
<1>1. CASE AddChecksBlacklist(e)
    BY <1>1 DEF AddChecksBlacklist, AddGoes, router, events, TypeOK
<1>2. CASE AddCountsUser(e)
    BY <1>2 DEF AddCountsUser, AddGoes, router, events, TypeOK
<1>3. CASE AddCountsTotal(e)
    BY <1>3 DEF AddCountsTotal, AddGoes, router, events, TypeOK
<1>4. CASE AddIPToWhitelist(e)
    <2>1. status' \in [Entries -> Statuses]
        BY <1>4 DEF AddIPToWhitelist, TypeOK, Statuses
    <2>2. QED
        BY <1>4, <2>1 DEF AddIPToWhitelist, AddGoes, router, events, TypeOK
<1>5. CASE RemoveChecks(e)
    BY <1>5 DEF RemoveChecks, router, events, TypeOK
<1>6. CASE RemoveIPFromWhitelist(e)
    BY <1>6 DEF RemoveIPFromWhitelist, router, events, TypeOK, Statuses
<1>7. CASE Expire(e)
    BY <1>7 DEF Expire, handlers, router, events, TypeOK
<1>8. QED
    BY <1>1, <1>2, <1>3, <1>4, <1>5, <1>6, <1>7 DEF Add, Remove

\* Blacklisting keeps the types.
LEMMA BlacklistTypes ==
    ASSUME TypeOK, UNCHANGED deployment, NEW e \in Entries, Blacklist(e)
    PROVE  TypeOK'
BY DEF Blacklist, BlacklistIPAddress, handlers, router, events, TypeOK,
       Statuses

\* Moving the system user keeps the types.
LEMMA SystemUserTypes ==
    ASSUME TypeOK, UNCHANGED deployment,
           NEW url \in Urls, EnsureSystemUser(url)
    PROVE  TypeOK'
BY FaultType DEF EnsureSystemUser, handlers, router, TypeOK

\* An incarnation whose expiration job is idle holds and signs nothing.
LEMMA IdleTypes ==
    ASSUME TypeOK, NEW i \in Instances, ExpirerIdle(i)
    PROVE  /\ expirer' \in [Instances -> SUBSET Entries]
           /\ acting' \in [Instances -> SUBSET Urls]
BY DEF ExpirerIdle, TypeOK

\* Steps of the expiration job keep the types.
LEMMA ExpirationTypes ==
    ASSUME TypeOK, UNCHANGED deployment,
           NEW i \in Instances, ExpirationJob(i)
    PROVE  TypeOK'
<1>1. CASE ExpireSelects(i)
    <2>1. expirer' \in [Instances -> SUBSET Entries]
        BY <1>1 DEF ExpireSelects, ActiveEntries, TypeOK
    <2>2. acting' \in [Instances -> SUBSET Urls]
        BY <1>1 DEF ExpireSelects, TypeOK
    <2>3. QED
        BY <1>1, <2>1, <2>2 DEF ExpireSelects, handlers, router, TypeOK
<1>2. CASE ExpireUpdates(i)
    <2>1. status' \in [Entries -> Statuses]
        BY <1>2 DEF ExpireUpdates, TypeOK, Statuses
    <2>2. signers' \subseteq Urls
        BY <1>2 DEF ExpireUpdates, Sign, TypeOK
    <2>3. QED
        BY <1>2, <2>1, <2>2, IdleTypes
           DEF ExpireUpdates, handlers, router, TypeOK
<1>3. QED
    BY <1>1, <1>2 DEF ExpirationJob

\* So does what a failed sync leaves.
LEMMA SyncFailTypes ==
    ASSUME TypeOK, UNCHANGED deployment,
           NEW i \in Instances, NEW kind, SyncFails(i, kind)
    PROVE  /\ faults' \in 0 .. deployment.maxFaults
           /\ signers' \subseteq Urls
           /\ SyncGoes(i, IdleSync)
<1>1. signers' \subseteq Urls
    BY DEF SyncFails, Sign, SyncState, TypeOK
<1>2. QED
    BY <1>1, FaultType DEF SyncFails

\* Steps of the sync job, and a crash, keep the types.
LEMMA SyncTypes ==
    ASSUME TypeOK, UNCHANGED deployment,
           NEW i \in Instances, SyncJob(i) \/ Crash(i)
    PROVE  TypeOK'
<1>0. /\ sync \in [Instances -> SyncState]
      /\ sync[i] \in SyncState
      /\ IdleSync \in SyncState
      /\ signers \subseteq Urls
      /\ faults \in 0 .. deployment.maxFaults
    BY DEF TypeOK, SyncState, IdleSync
<1>a. ASSUME NEW s \in SyncState, SyncGoes(i, s)
      PROVE  sync' \in [Instances -> SyncState]
    BY <1>0, <1>a DEF SyncGoes
<1>1. CASE SyncReadsAlias(i)
    <2> DEFINE s == [IdleSync EXCEPT !.pc = "entries", !.current = alias,
                                     !.signs = {issuer}]
    <2>1. s \in SyncState
        BY DEF IdleSync, SyncState, TypeOK
    <2>2. SyncGoes(i, s)
        BY <1>1 DEF SyncReadsAlias
    <2> HIDE DEF s
    <2>3. QED
        BY <1>1, <1>a, <2>1, <2>2
           DEF SyncReadsAlias, handlers, router, events, TypeOK
<1>2. CASE SyncReadsEntries(i)
    <2>1. {Ip[e] : e \in ActiveEntries} \subseteq Ips
        BY WhitelistAssumption DEF ActiveEntries, WhitelistAssumption
    <2>2. sync' \in [Instances -> SyncState]
        BY <1>0, <1>2, <2>1 DEF SyncReadsEntries, SyncGoes, SyncState, TypeOK
    <2>3. QED
        BY <1>2, <2>2 DEF SyncReadsEntries, handlers, router, events, TypeOK
<1>3. CASE SyncPanics(i)
    BY <1>0, <1>3, <1>a, IdleTypes DEF SyncPanics, handlers, router, TypeOK
<1>4. ASSUME NEW ip \in Ips, MarkIPsAsAdded(i, ip)
      PROVE  TypeOK'
    <2>1. sync' \in [Instances -> SyncState]
        BY <1>0, <1>4 DEF MarkIPsAsAdded, SyncGoes, SyncState, TypeOK
    <2>2. status' \in [Entries -> Statuses]
        BY <1>4 DEF MarkIPsAsAdded, TypeOK, Statuses
    <2>3. faults' \in 0 .. deployment.maxFaults
        BY <1>0, <1>4, FaultType DEF MarkIPsAsAdded
    <2>4. signers' \subseteq Urls
        BY <1>0, <1>4 DEF MarkIPsAsAdded, Sign, SyncState
    <2>5. QED
        BY <1>4, <2>1, <2>2, <2>3, <2>4
           DEF MarkIPsAsAdded, handlers, router, TypeOK
<1>5. CASE SyncCompares(i)
    <2> DEFINE add == sync[i].desired \ sync[i].current
               remove == sync[i].current \ sync[i].desired
               wanted == (alias \ remove) \cup add
               next == [IdleSync EXCEPT !.pc = "set", !.desired = wanted,
                                        !.signs = sync[i].signs]
    <2>a. wanted \subseteq Ips
        BY <1>0 DEF SyncState, TypeOK
    <2>b. next \in SyncState
        BY <1>0, <2>a DEF IdleSync, SyncState
    <2>c. \/ SyncGoes(i, IdleSync) /\ UNCHANGED <<signers, faults>>
          \/ SyncGoes(i, next) /\ UNCHANGED <<signers, faults>>
          \/ SyncFails(i, "get")
        BY <1>5 DEF SyncCompares
    <2> HIDE DEF next
    <2>1. sync' \in [Instances -> SyncState]
        BY <1>0, <1>a, <2>b, <2>c, SyncFailTypes
    <2>2. signers' \subseteq Urls /\ faults' \in 0 .. deployment.maxFaults
        BY <1>0, <2>c, SyncFailTypes
    <2>3. QED
        BY <1>5, <2>1, <2>2 DEF SyncCompares, handlers, router, TypeOK
<1>6. CASE SyncSets(i)
    <2> DEFINE next == [IdleSync EXCEPT !.pc = "reconfigure",
                                        !.signs = sync[i].signs]
    <2>a. next \in SyncState
        BY <1>0 DEF IdleSync, SyncState
    <2>b. /\ \/ SyncGoes(i, next) /\ UNCHANGED <<signers, faults>>
             \/ \E kind \in FaultKinds : SyncFails(i, kind)
          /\ alias' \in {alias, sync[i].desired}
        BY <1>6 DEF SyncSets, FaultKinds
    <2> HIDE DEF next
    <2>1. sync' \in [Instances -> SyncState]
        BY <1>0, <1>a, <2>a, <2>b, SyncFailTypes
    <2>2. signers' \subseteq Urls /\ faults' \in 0 .. deployment.maxFaults
        BY <1>0, <2>b, SyncFailTypes
    <2>3. alias' \subseteq Ips
        BY <1>0, <2>b DEF SyncState, TypeOK
    <2>4. QED
        BY <1>6, <2>1, <2>2, <2>3 DEF SyncSets, handlers, TypeOK
<1>7. CASE SyncReconfigures(i)
    <2>1. /\ \/ SyncGoes(i, IdleSync) /\ UNCHANGED <<signers, faults>>
             \/ SyncFails(i, "reconfigure")
          /\ applied' \in {applied, alias}
        BY <1>7 DEF SyncReconfigures
    <2>2. sync' \in [Instances -> SyncState]
        BY <1>0, <1>a, <2>1, SyncFailTypes
    <2>3. signers' \subseteq Urls /\ faults' \in 0 .. deployment.maxFaults
        BY <1>0, <2>1, SyncFailTypes
    <2>4. applied' \subseteq Ips
        BY <2>1 DEF TypeOK
    <2>5. QED
        BY <1>7, <2>2, <2>3, <2>4 DEF SyncReconfigures, handlers, TypeOK
<1>8. CASE Crash(i)
    <2>1. faults' \in 0 .. deployment.maxFaults
        BY <1>8, FaultType DEF Crash
    <2>2. sync' \in [Instances -> SyncState]
        BY <1>0, <1>8, <1>a DEF Crash
    <2>3. QED
        BY <1>8, <2>1, <2>2, IdleTypes DEF Crash, handlers, router, TypeOK
<1>9. QED
    BY <1>1, <1>2, <1>3, <1>4, <1>5, <1>6, <1>7, <1>8 DEF SyncJob

\* Every step keeps the types.
LEMMA TypeStep == TypeOK /\ [Next]_vars => TypeOK'
<1> SUFFICES ASSUME TypeOK, [Next]_vars
             PROVE  TypeOK'
    OBVIOUS
<1>1. CASE UNCHANGED vars
    BY <1>1 DEF vars, handlers, router, events, TypeOK
<1>2. CASE Next
    BY <1>2, HandlerTypes, BlacklistTypes, SystemUserTypes, ExpirationTypes,
       SyncTypes
       DEF Next
<1>3. QED
    BY <1>1, <1>2

\* Every variable has the type its column or Go variable has: the handlers and
\* the jobs, however they interleave, write only values the schema admits.
THEOREM TypeCorrect == Spec => []TypeOK
BY TypeInit, TypeStep, PTL DEF Spec

-----------------------------------------------------------------------------
(* What the handlers and the jobs hold between two of their steps.         *)

\* At first nothing is held.
LEMMA HeldInit == Init => HeldInv /\ SyncInv
BY DEF Init, HeldInv, SyncInv, Inserted, IdleSync

\* What each step does to the statuses of the entries.
StatusSteps ==
    \/ UNCHANGED status
    \/ \E e \in Entries : /\ adding[e] = "insert"
                          /\ adding' = [adding EXCEPT ![e] = "idle"]
                          /\ status' = [status EXCEPT ![e] = "requested"]
                          /\ \A f \in ActiveEntries :
                                ~(Ip[f] = Ip[e] /\ Owner[f] = Owner[e])
    \/ \E E \in SUBSET Inserted, to \in {"removed", "blacklisted_by_admin"} :
          status' = [e \in Entries |-> IF e \in E THEN to ELSE status[e]]
    \/ \E E \in SUBSET Entries :
          status' = [e \in Entries |->
                        IF e \in E /\ status[e] = "requested" THEN "added"
                                                              ELSE status[e]]

\* Every action changes the statuses in one of these four ways: the statement
\* the other lemmas use in place of the actions.
LEMMA StatusStep ==
    ASSUME TypeOK, HeldInv, [Next]_vars
    PROVE  StatusSteps
<1>1. CASE UNCHANGED vars
    BY <1>1 DEF vars, StatusSteps
<1>2. ASSUME NEW e \in Entries, Add(e)
      PROVE  StatusSteps
    BY <1>2 DEF Add, AddChecksBlacklist, AddCountsUser, AddCountsTotal,
                AddIPToWhitelist, AddGoes, StatusSteps
<1>3. ASSUME NEW e \in Entries, Remove(e) \/ Expire(e)
      PROVE  StatusSteps
    <2>1. CASE RemoveChecks(e) \/ Expire(e)
        BY <2>1 DEF RemoveChecks, Expire, StatusSteps
    <2>2. CASE RemoveIPFromWhitelist(e)
        <3>1. {e} \in SUBSET Inserted
            BY <2>2 DEF RemoveIPFromWhitelist, HeldInv
        <3>2. status' = [f \in Entries |->
                            IF f \in {e} THEN "removed" ELSE status[f]]
            BY <2>2 DEF RemoveIPFromWhitelist, TypeOK
        <3>3. QED
            BY <3>1, <3>2 DEF StatusSteps
    <2>3. QED
        BY <1>3, <2>1, <2>2 DEF Remove
<1>4. ASSUME NEW b \in Entries, Blacklist(b)
      PROVE  StatusSteps
    <2> DEFINE ids == {e \in Entries : /\ Ip[e] = Ip[b]
                                       /\ e \in Inserted
                                       /\ status[e] # "blacklisted_by_admin"}
    <2>1. status' = [e \in Entries |-> IF e \in ids THEN "blacklisted_by_admin"
                                                    ELSE status[e]]
        BY <1>4 DEF Blacklist, BlacklistIPAddress
    <2>2. ids \in SUBSET Inserted
        OBVIOUS
    <2> HIDE DEF ids
    <2>3. QED
        BY <2>1, <2>2 DEF StatusSteps
<1>5. ASSUME NEW i \in Instances, ExpirationJob(i)
      PROVE  StatusSteps
    <2>1. CASE ExpireSelects(i)
        BY <2>1 DEF ExpireSelects, StatusSteps
    <2>2. CASE ExpireUpdates(i)
        <3>1. expirer[i] \in SUBSET Inserted
            BY DEF HeldInv
        <3>2. QED
            BY <2>2, <3>1 DEF ExpireUpdates, StatusSteps
    <2>3. QED
        BY <1>5, <2>1, <2>2 DEF ExpirationJob
<1>6. ASSUME NEW i \in Instances, SyncJob(i) \/ Crash(i)
      PROVE  StatusSteps
    <2>1. ASSUME NEW ip \in Ips, MarkIPsAsAdded(i, ip)
          PROVE  StatusSteps
        <3> DEFINE ids == {e \in sync[i].pending : Ip[e] = ip}
        <3>1. ids \in SUBSET Entries
            BY DEF TypeOK, SyncState
        <3>2. \/ UNCHANGED status
              \/ status' = [e \in Entries |->
                               IF e \in ids /\ status[e] = "requested"
                               THEN "added" ELSE status[e]]
            BY <2>1 DEF MarkIPsAsAdded
        <3> HIDE DEF ids
        <3>3. QED
            BY <3>1, <3>2 DEF StatusSteps
    <2>2. CASE \/ SyncReadsAlias(i) \/ SyncReadsEntries(i) \/ SyncPanics(i)
               \/ SyncCompares(i) \/ SyncSets(i) \/ SyncReconfigures(i)
               \/ Crash(i)
        BY <2>2 DEF SyncReadsAlias, SyncReadsEntries, SyncPanics, SyncCompares,
                    SyncSets, SyncReconfigures, Crash, StatusSteps
    <2>3. QED
        BY <1>6, <2>1, <2>2 DEF SyncJob
<1>7. ASSUME NEW url \in Urls, EnsureSystemUser(url)
      PROVE  StatusSteps
    BY <1>7 DEF EnsureSystemUser, StatusSteps
<1>8. QED
    BY <1>1, <1>2, <1>3, <1>4, <1>5, <1>6, <1>7 DEF Next

\* No row disappears, so what was requested once remains so.
LEMMA RowsGrow ==
    ASSUME TypeOK, HeldInv, [Next]_vars
    PROVE  /\ Inserted \subseteq Inserted'
           /\ Requested \subseteq Requested'
<1>1. Inserted \subseteq Inserted'
    BY StatusStep DEF StatusSteps, Inserted, TypeOK, HeldInv
<1>2. QED
    BY <1>1 DEF Requested

\* A POST is about an entry that does not exist yet.
LEMMA AddingStep ==
    ASSUME TypeOK, HeldInv, [Next]_vars, NEW e \in Entries, adding'[e] # "idle"
    PROVE  e \notin Inserted'
<1>1. e \notin Inserted
    <2>1. ASSUME NEW f \in Entries, Add(f)
          PROVE  e \notin Inserted
        BY <2>1 DEF Add, AddChecksBlacklist, AddCountsUser, AddCountsTotal,
                    AddIPToWhitelist, AddGoes, Inserted, TypeOK, HeldInv
    <2>2. CASE UNCHANGED adding
        BY <2>2 DEF HeldInv
    <2>3. QED
        BY <2>1, <2>2
           DEF Next, vars, handlers, Remove, RemoveChecks,
               RemoveIPFromWhitelist, Expire, Blacklist, BlacklistIPAddress,
               ExpirationJob, ExpireSelects, ExpireUpdates, SyncJob,
               SyncReadsAlias, SyncReadsEntries, SyncPanics, MarkIPsAsAdded,
               SyncCompares, SyncSets, SyncReconfigures, Crash,
               EnsureSystemUser
<1>2. QED
    BY <1>1, StatusStep DEF StatusSteps, Inserted, TypeOK

\* A DELETE and an expiry are about entries that exist.
LEMMA RemovingStep ==
    ASSUME TypeOK, HeldInv, [Next]_vars
    PROVE  /\ removing' \subseteq Inserted'
           /\ \A i \in Instances : expirer'[i] \subseteq Inserted'
<1>1. /\ removing' \subseteq Inserted
      /\ \A i \in Instances : expirer'[i] \subseteq Inserted
    <2>1. ASSUME NEW e \in Entries, Remove(e)
          PROVE  /\ removing' \subseteq Inserted
                 /\ \A i \in Instances : expirer'[i] \subseteq Inserted
        BY <2>1 DEF Remove, RemoveChecks, RemoveIPFromWhitelist, Active,
                    Inserted, HeldInv
    <2>2. ASSUME NEW i \in Instances,
                 ExpirationJob(i) \/ SyncPanics(i) \/ Crash(i)
          PROVE  /\ removing' \subseteq Inserted
                 /\ \A k \in Instances : expirer'[k] \subseteq Inserted
        BY <2>2 DEF ExpirationJob, ExpireSelects, ExpireUpdates, SyncPanics,
                    Crash, ExpirerIdle, handlers, ActiveEntries, Active,
                    Inserted, TypeOK, HeldInv
    <2>3. CASE UNCHANGED <<removing, expirer>>
        BY <2>3 DEF HeldInv
    <2>4. QED
        BY <2>1, <2>2, <2>3
           DEF Next, vars, handlers, Add, AddChecksBlacklist, AddCountsUser,
               AddCountsTotal, AddIPToWhitelist, Expire, Blacklist,
               BlacklistIPAddress, SyncJob, SyncReadsAlias, SyncReadsEntries,
               MarkIPsAsAdded, SyncCompares, SyncSets, SyncReconfigures,
               EnsureSystemUser
<1>2. QED
    BY <1>1, RowsGrow

\* The two lemmas together.
LEMMA HeldStep == TypeOK /\ HeldInv /\ [Next]_vars => HeldInv'
BY AddingStep, RemovingStep DEF HeldInv

-----------------------------------------------------------------------------
(* What the syncs know of the alias.                                       *)

\* SyncInv for one sync, given the alias and what was requested.
Knows(s, content, requested) ==
    /\ s.pc \in {"entries", "mark"} => content \subseteq s.current \cup requested
    /\ s.pc \in {"mark", "set"} => s.desired \subseteq requested
    /\ s.pc = "reconfigure" => content \subseteq requested

\* It outlives more requests, and a change of the alias by another sync, which
\* adds only what was requested.
LEMMA KnowsStays ==
    ASSUME NEW s, NEW content, NEW requested, Knows(s, content, requested),
           NEW content1, content1 \subseteq content \cup requested,
           NEW requested1, requested \subseteq requested1
    PROVE  Knows(s, content1, requested1)
BY DEF Knows

\* An idle sync knows nothing and need not.
LEMMA IdleKnows ==
    ASSUME NEW content, NEW requested
    PROVE  Knows(IdleSync, content, requested)
BY DEF IdleSync, Knows

\* What a step of sync i does: it writes the alias or applies it with
\* requested addresses only, and still knows what SyncInv says.
SyncStep(i) ==
    /\ \E s \in SyncState : SyncGoes(i, s) /\ Knows(s, alias', Requested)
    /\ alias' \subseteq alias \cup Requested
    /\ applied' \subseteq applied \cup Requested

\* Every step of the sync job and every crash is such a step.
LEMMA SyncSteps ==
    ASSUME TypeOK, SyncInv, NEW i \in Instances, SyncJob(i) \/ Crash(i)
    PROVE  SyncStep(i)
<1>0. /\ sync[i] \in SyncState
      /\ IdleSync \in SyncState
      /\ Knows(sync[i], alias, Requested)
      /\ Knows(IdleSync, alias', Requested)
    BY IdleKnows DEF TypeOK, SyncInv, SyncState, IdleSync, Knows
<1>1. CASE SyncReadsAlias(i)
    <2> DEFINE s == [IdleSync EXCEPT !.pc = "entries", !.current = alias,
                                     !.signs = {issuer}]
    <2>1. SyncGoes(i, s) /\ UNCHANGED router
        BY <1>1 DEF SyncReadsAlias
    <2>2. s \in SyncState /\ Knows(s, alias, Requested)
        BY DEF IdleSync, SyncState, Knows, TypeOK
    <2> HIDE DEF s
    <2>3. QED
        BY <2>1, <2>2 DEF SyncStep, router
<1>2. CASE SyncReadsEntries(i)
    <2> DEFINE s == [sync[i] EXCEPT
                       !.pc = "mark",
                       !.desired = {Ip[e] : e \in ActiveEntries},
                       !.pending = {e \in Entries : status[e] = "requested"}]
    <2>1. SyncGoes(i, s) /\ UNCHANGED router
        BY <1>2 DEF SyncReadsEntries
    <2>2. /\ {Ip[e] : e \in ActiveEntries} \subseteq Requested
          /\ {Ip[e] : e \in ActiveEntries} \subseteq Ips
        BY WhitelistAssumption
           DEF ActiveEntries, Active, Inserted, Requested, WhitelistAssumption
    <2>3. s \in SyncState
        BY <1>0, <2>2 DEF SyncState
    <2>4. Knows(s, alias, Requested)
        BY <1>0, <1>2, <2>2 DEF SyncState, Knows, SyncReadsEntries
    <2> HIDE DEF s
    <2>5. QED
        BY <2>1, <2>3, <2>4 DEF SyncStep, router
<1>3. ASSUME NEW ip \in Ips, MarkIPsAsAdded(i, ip)
      PROVE  SyncStep(i)
    <2> DEFINE ids == {e \in sync[i].pending : Ip[e] = ip}
               s == [sync[i] EXCEPT !.pending = @ \ ids]
    <2>1. SyncGoes(i, s) /\ UNCHANGED router
        BY <1>3 DEF MarkIPsAsAdded
    <2>2. s \in SyncState /\ Knows(s, alias, Requested)
        BY <1>0 DEF SyncState, Knows
    <2> HIDE DEF s
    <2>3. QED
        BY <2>1, <2>2 DEF SyncStep, router
<1>4. CASE SyncCompares(i)
    <2> DEFINE add == sync[i].desired \ sync[i].current
               remove == sync[i].current \ sync[i].desired
               wanted == (alias \ remove) \cup add
               s == [IdleSync EXCEPT !.pc = "set", !.desired = wanted,
                                     !.signs = sync[i].signs]
    <2>1. SyncGoes(i, IdleSync) \/ SyncGoes(i, s)
        BY <1>4 DEF SyncCompares, SyncFails
    <2>2. UNCHANGED router
        BY <1>4 DEF SyncCompares
    <2>3. wanted \subseteq Requested /\ wanted \subseteq Ips
        BY <1>0, <1>4 DEF SyncCompares, Knows, SyncState, TypeOK
    <2>4. s \in SyncState /\ Knows(s, alias, Requested)
        BY <1>0, <2>3 DEF IdleSync, SyncState, Knows
    <2> HIDE DEF s
    <2>5. QED
        BY <1>0, <2>1, <2>2, <2>4 DEF SyncStep, router
<1>5. CASE SyncSets(i)
    <2> DEFINE s == [IdleSync EXCEPT !.pc = "reconfigure",
                                     !.signs = sync[i].signs]
    <2>1. sync[i].desired \subseteq Requested
        BY <1>0, <1>5 DEF SyncSets, Knows
    <2>2. \/ SyncGoes(i, IdleSync)
          \/ SyncGoes(i, s) /\ alias' = sync[i].desired
        BY <1>5 DEF SyncSets, SyncFails
    <2>3. /\ UNCHANGED applied
          /\ alias' = sync[i].desired \/ UNCHANGED alias
        BY <1>5 DEF SyncSets
    <2>4. s \in SyncState /\ (s.pc = "reconfigure")
        BY <1>0 DEF IdleSync, SyncState
    <2>5. alias' \subseteq Requested => Knows(s, alias', Requested)
        BY DEF IdleSync, Knows
    <2> HIDE DEF s
    <2>6. QED
        BY <1>0, <2>1, <2>2, <2>3, <2>4, <2>5 DEF SyncStep
<1>6. CASE SyncReconfigures(i)
    <2>1. alias \subseteq Requested
        BY <1>0, <1>6 DEF SyncReconfigures, Knows
    <2>2. /\ SyncGoes(i, IdleSync)
          /\ UNCHANGED alias
          /\ applied' = alias \/ UNCHANGED applied
        BY <1>6 DEF SyncReconfigures, SyncFails
    <2>3. QED
        BY <1>0, <2>1, <2>2 DEF SyncStep
<1>7. CASE SyncPanics(i) \/ Crash(i)
    BY <1>0, <1>7 DEF SyncPanics, Crash, SyncStep, router
<1>8. QED
    BY <1>1, <1>2, <1>3, <1>4, <1>5, <1>6, <1>7 DEF SyncJob

\* The other actions leave the syncs and the router alone.
LEMMA OtherSteps ==
    ASSUME [Next]_vars
    PROVE  \/ UNCHANGED <<sync, router>>
           \/ \E i \in Instances : SyncJob(i) \/ Crash(i)
BY DEF Next, vars, Add, AddChecksBlacklist, AddCountsUser, AddCountsTotal,
       AddIPToWhitelist, Remove, RemoveChecks, RemoveIPFromWhitelist, Expire,
       Blacklist, BlacklistIPAddress, ExpirationJob, ExpireSelects,
       ExpireUpdates, EnsureSystemUser

\* SyncInv is inductive: a sync that writes the alias writes only requested
\* addresses, which leaves what the other syncs know true.
LEMMA SyncInvStep == TypeOK /\ HeldInv /\ SyncInv /\ [Next]_vars => SyncInv'
<1> SUFFICES ASSUME TypeOK, HeldInv, SyncInv, [Next]_vars,
                    NEW k \in Instances
             PROVE  Knows(sync'[k], alias', Requested')
    BY DEF SyncInv, Knows
<1>0. /\ Knows(sync[k], alias, Requested)
      /\ Requested \subseteq Requested'
    BY RowsGrow DEF SyncInv, Knows
<1>1. CASE UNCHANGED <<sync, router>>
    BY <1>0, <1>1, KnowsStays DEF router
<1>2. ASSUME NEW i \in Instances, SyncJob(i) \/ Crash(i)
      PROVE  Knows(sync'[k], alias', Requested')
    <2>1. SyncStep(i)
        BY <1>2, SyncSteps
    <2>2. PICK s \in SyncState : SyncGoes(i, s) /\ Knows(s, alias', Requested)
        BY <2>1 DEF SyncStep
    <2>3. CASE k = i
        <3>1. sync'[k] = s
            BY <2>2, <2>3 DEF SyncGoes, TypeOK
        <3>2. QED
            BY <1>0, <2>2, <3>1, KnowsStays
    <2>4. CASE k # i
        <3>1. sync'[k] = sync[k]
            BY <2>2, <2>4 DEF SyncGoes, TypeOK
        <3>2. alias' \subseteq alias \cup Requested
            BY <2>1 DEF SyncStep
        <3>3. QED
            BY <1>0, <3>1, <3>2, KnowsStays
    <2>5. QED
        BY <2>3, <2>4
<1>3. QED
    BY <1>1, <1>2, OtherSteps

-----------------------------------------------------------------------------
(* The theorems.                                                           *)

\* What is held between steps, as an invariant of the specification.
LEMMA Held == Spec => [](TypeOK /\ HeldInv /\ SyncInv)
<1>1. Init => TypeOK /\ HeldInv /\ SyncInv
    BY TypeInit, HeldInit
<1>2. TypeOK /\ HeldInv /\ SyncInv /\ [Next]_vars
        => TypeOK' /\ HeldInv' /\ SyncInv'
    BY TypeStep, HeldStep, SyncInvStep
<1>3. QED
    BY <1>1, <1>2, PTL DEF Spec

\* Whatever the syncs read before it changed, however many of them overlap and
\* wherever they fail or die, only requested addresses enter the alias and the
\* firewall.
THEOREM OnlyRequested == Spec => OnlyRequestedIPs
<1>1. TypeOK /\ SyncInv /\ [Next]_vars
        => [/\ alias' \ alias \subseteq Requested
            /\ applied' \ applied \subseteq Requested]_router
    <2> SUFFICES ASSUME TypeOK, SyncInv, [Next]_vars
                 PROVE  /\ alias' \subseteq alias \cup Requested
                        /\ applied' \subseteq applied \cup Requested
        OBVIOUS
    <2>1. CASE UNCHANGED router
        BY <2>1 DEF router
    <2>2. ASSUME NEW i \in Instances, SyncJob(i) \/ Crash(i)
          PROVE  /\ alias' \subseteq alias \cup Requested
                 /\ applied' \subseteq applied \cup Requested
        BY <2>2, SyncSteps DEF SyncStep
    <2>3. QED
        BY <2>1, <2>2, OtherSteps
<1>2. QED
    BY <1>1, Held, PTL DEF Spec, OnlyRequestedIPs

\* An owner never has two active entries for one address: the INSERT is the
\* only step that makes an entry active, and it looks for another one.
THEOREM OneActive == Spec => []OneActiveEntry
<1>1. Init => OneActiveEntry
    BY DEF Init, OneActiveEntry, ActiveEntries, Active
<1>2. TypeOK /\ HeldInv /\ OneActiveEntry /\ [Next]_vars => OneActiveEntry'
    <2> SUFFICES ASSUME TypeOK, HeldInv, OneActiveEntry, [Next]_vars
                 PROVE  OneActiveEntry'
        OBVIOUS
    <2>1. StatusSteps
        BY StatusStep
    <2>2. CASE ActiveEntries' \subseteq ActiveEntries
        BY <2>2 DEF OneActiveEntry
    <2>3. ASSUME NEW e \in Entries,
                 status' = [status EXCEPT ![e] = "requested"],
                 \A f \in ActiveEntries : ~(Ip[f] = Ip[e] /\ Owner[f] = Owner[e])
          PROVE  OneActiveEntry'
        <3>1. ActiveEntries' \subseteq ActiveEntries \cup {e}
            BY <2>3 DEF ActiveEntries, Active, TypeOK
        <3>2. QED
            BY <2>3, <3>1 DEF OneActiveEntry
    <2>4. QED
        BY <2>1, <2>2, <2>3 DEF StatusSteps, ActiveEntries, Active, TypeOK
<1>3. QED
    BY <1>1, <1>2, TypeCorrect, Held, PTL DEF Spec

\* An entry that was removed, expired or blacklisted never becomes active
\* again: a sync that still holds it as pending marks only what is requested,
\* and a POST inserts only entries that did not exist.
THEOREM NeverRevived == Spec => NoRevival
<1>1. TypeOK /\ HeldInv /\ [Next]_vars
        => [\A e \in Entries : status[e] \in {"removed", "blacklisted_by_admin"}
              => status'[e] \in {"removed", "blacklisted_by_admin"}]_status
    <2> SUFFICES ASSUME TypeOK, HeldInv, [Next]_vars,
                        NEW e \in Entries,
                        status[e] \in {"removed", "blacklisted_by_admin"}
                 PROVE  status'[e] \in {"removed", "blacklisted_by_admin"}
        OBVIOUS
    <2>1. adding[e] = "idle"
        BY DEF HeldInv, Inserted
    <2>2. QED
        BY <2>1, StatusStep DEF StatusSteps, TypeOK
<1>2. QED
    BY <1>1, TypeCorrect, Held, PTL DEF Spec, NoRevival

-----------------------------------------------------------------------------
(* Blacklisted addresses.                                                  *)

\* What Settled says of each entry of the address.
Quiet(e) ==
    /\ status[e] \notin Active
    /\ adding[e] = "idle"
    /\ e \notin removing
    /\ \A i \in Instances : e \notin expirer[i]

\* A blacklisted address, and every entry of it at rest.
LEMMA SettledIsQuiet ==
    ASSUME NEW ip \in Ips
    PROVE  Settled(ip) <=> /\ IsIPBlacklisted(ip)
                           /\ \A e \in Entries : Ip[e] = ip => Quiet(e)
BY DEF Settled, Wanted, ActiveEntries, Quiet

\* An entry at rest whose address is blacklisted stays at rest, and stays
\* blacklisted if it is: a POST for it is refused, a DELETE and an expiry
\* concern active entries only, and a sync marks requested ones only.
LEMMA QuietStep ==
    ASSUME TypeOK, [Next]_vars,
           NEW e \in Entries, Quiet(e), IsIPBlacklisted(Ip[e])
    PROVE  /\ Quiet(e)'
           /\ status[e] = "blacklisted_by_admin" => status'[e] = status[e]
<1>1. CASE UNCHANGED vars
    BY <1>1 DEF vars, handlers, Quiet
<1>2. ASSUME NEW f \in Entries, Add(f)
      PROVE  /\ Quiet(e)'
             /\ status[e] = "blacklisted_by_admin" => status'[e] = status[e]
    <2>1. f # e /\ UNCHANGED <<removing, expirer>>
        BY <1>2 DEF Add, AddChecksBlacklist, AddCountsUser, AddCountsTotal,
                    AddIPToWhitelist, Quiet
    <2>2. adding'[e] = adding[e] /\ status'[e] = status[e]
        BY <1>2, <2>1 DEF Add, AddChecksBlacklist, AddCountsUser,
                          AddCountsTotal, AddIPToWhitelist, AddGoes, TypeOK
    <2>3. QED
        BY <2>1, <2>2 DEF Quiet
<1>3. ASSUME NEW f \in Entries, Remove(f) \/ Expire(f)
      PROVE  /\ Quiet(e)'
             /\ status[e] = "blacklisted_by_admin" => status'[e] = status[e]
    BY <1>3 DEF Remove, RemoveChecks, RemoveIPFromWhitelist, Expire, handlers,
                Quiet, TypeOK
<1>4. ASSUME NEW f \in Entries, Blacklist(f)
      PROVE  /\ Quiet(e)'
             /\ status[e] = "blacklisted_by_admin" => status'[e] = status[e]
    <2>1. status'[e] \in {status[e], "blacklisted_by_admin"}
        BY <1>4 DEF Blacklist, BlacklistIPAddress
    <2>2. UNCHANGED <<adding, removing, expirer>>
        BY <1>4 DEF Blacklist, BlacklistIPAddress, handlers
    <2>3. QED
        BY <2>1, <2>2 DEF Quiet, Active
<1>5. ASSUME NEW i \in Instances, ExpirationJob(i)
      PROVE  /\ Quiet(e)'
             /\ status[e] = "blacklisted_by_admin" => status'[e] = status[e]
    BY <1>5 DEF ExpirationJob, ExpireSelects, ExpireUpdates, ExpirerIdle,
                ActiveEntries, handlers, Quiet, TypeOK
<1>6. ASSUME NEW i \in Instances, SyncJob(i) \/ Crash(i)
      PROVE  /\ Quiet(e)'
             /\ status[e] = "blacklisted_by_admin" => status'[e] = status[e]
    <2>1. status'[e] = status[e]
        BY <1>6 DEF SyncJob, SyncReadsAlias, SyncReadsEntries, SyncPanics,
                    MarkIPsAsAdded, SyncCompares, SyncSets, SyncReconfigures,
                    Crash, Quiet, Active, TypeOK
    <2>2. /\ UNCHANGED <<adding, removing>>
          /\ \A k \in Instances : expirer'[k] \subseteq expirer[k]
        BY <1>6 DEF SyncJob, SyncReadsAlias, SyncReadsEntries, SyncPanics,
                    MarkIPsAsAdded, SyncCompares, SyncSets, SyncReconfigures,
                    Crash, ExpirerIdle, handlers, TypeOK
    <2>3. QED
        BY <2>1, <2>2 DEF Quiet
<1>7. ASSUME NEW url \in Urls, EnsureSystemUser(url)
      PROVE  /\ Quiet(e)'
             /\ status[e] = "blacklisted_by_admin" => status'[e] = status[e]
    BY <1>7 DEF EnsureSystemUser, handlers, Quiet
<1>8. QED
    BY <1>1, <1>2, <1>3, <1>4, <1>5, <1>6, <1>7 DEF Next

\* A blacklisted address whose readers are done stays out for good, however
\* many entries the address has and whoever asks for it again.
THEOREM BlacklistsStand == Spec => BlacklistStands
<1>1. TypeOK /\ [Next]_vars
        => [\A ip \in Ips : Settled(ip) => Settled(ip)']_vars
    <2> SUFFICES ASSUME TypeOK, [Next]_vars, NEW ip \in Ips, Settled(ip)
                 PROVE  Settled(ip)'
        OBVIOUS
    <2>1. \A e \in Entries : Ip[e] = ip => Quiet(e)'
        BY SettledIsQuiet, QuietStep
    <2>2. PICK b \in Entries : Ip[b] = ip /\ status[b] = "blacklisted_by_admin"
        BY DEF Settled, IsIPBlacklisted
    <2>3. status'[b] = "blacklisted_by_admin"
        BY <2>2, SettledIsQuiet, QuietStep
    <2>4. IsIPBlacklisted(ip)'
        BY <2>2, <2>3 DEF IsIPBlacklisted
    <2>5. QED
        BY <2>1, <2>4 DEF Settled, Wanted, ActiveEntries, Quiet
<1>2. QED
    BY <1>1, TypeCorrect, PTL DEF Spec, BlacklistStands

-----------------------------------------------------------------------------
(* FirewallWhitelist implements AddressWhitelist.                          *)

\* The stage of an entry, by its status.
Stage == [e \in Entries |-> CASE status[e] = "none" -> "new"
                              [] status[e] \in Active -> "active"
                              [] OTHER -> "ended"]

\* The stage tells the three kinds of status apart.
LEMMA StageOf ==
    ASSUME NEW e \in Entries
    PROVE  /\ Stage[e] = "new" <=> status[e] = "none"
           /\ Stage[e] = "active" <=> status[e] \in Active
BY DEF Stage, Active

\* What was admitted is what was requested.
LEMMA AdmittedIsRequested == Whitelist!Admitted = Requested
BY StageOf DEF Whitelist!Admitted, Requested, Inserted, Stage

\* At first nothing is requested.
LEMMA StageInit == Init => Whitelist!Init
<1> SUFFICES ASSUME Init
             PROVE  Whitelist!Init
    OBVIOUS
<1>1. \A e \in Entries : Stage[e] = "new"
    BY StageOf DEF Init
<1>2. Stage = [e \in Entries |-> "new"]
    BY <1>1 DEF Stage
<1>3. QED
    BY <1>2 DEF Init, Whitelist!Init, Stage

\* No step changes both the table and the router.
LEMMA TableOrRouter ==
    ASSUME [Next]_vars
    PROVE  UNCHANGED status \/ UNCHANGED router
<1>1. ASSUME NEW i \in Instances, SyncJob(i) \/ Crash(i)
      PROVE  UNCHANGED status \/ UNCHANGED router
    BY <1>1 DEF SyncJob, SyncReadsAlias, SyncReadsEntries, SyncPanics,
                MarkIPsAsAdded, SyncCompares, SyncSets, SyncReconfigures, Crash
<1>2. QED
    BY <1>1, OtherSteps

\* Inserting an entry admits it.
LEMMA InsertAdmits ==
    ASSUME TypeOK, HeldInv, UNCHANGED router, NEW e \in Entries,
           adding[e] = "insert", status' = [status EXCEPT ![e] = "requested"],
           \A f \in ActiveEntries : ~(Ip[f] = Ip[e] /\ Owner[f] = Owner[e])
    PROVE  Whitelist!Admit(e)
<1>1. Stage[e] = "new"
    BY StageOf DEF HeldInv, Inserted
<1>2. \A f \in Whitelist!Rivals(e) : Stage[f] # "active"
    BY StageOf DEF Whitelist!Rivals, ActiveEntries
<1>3. Stage' = [Stage EXCEPT ![e] = "active"]
    BY DEF Stage, Active, TypeOK
<1>4. QED
    BY <1>1, <1>2, <1>3 DEF Whitelist!Admit, Stage, router

\* Removing, expiring and blacklisting end entries, some of them again.
LEMMA RemovalEnds ==
    ASSUME TypeOK, UNCHANGED router, NEW E \in SUBSET Inserted,
           NEW to \in {"removed", "blacklisted_by_admin"},
           status' = [e \in Entries |-> IF e \in E THEN to ELSE status[e]]
    PROVE  Whitelist!End(E)
<1>1. \A e \in E : Stage[e] # "new"
    BY StageOf DEF Inserted
<1>2. Stage' = [e \in Entries |-> IF e \in E THEN "ended" ELSE Stage[e]]
    BY DEF Stage, Active, TypeOK
<1>3. QED
    BY <1>1, <1>2 DEF Whitelist!End, Stage, router

\* What becomes added was active before.
LEMMA MarkingStutters ==
    ASSUME TypeOK, NEW E \in SUBSET Entries,
           status' = [e \in Entries |->
                        IF e \in E /\ status[e] = "requested" THEN "added"
                                                              ELSE status[e]]
    PROVE  Stage' = Stage
BY DEF Stage, Active, TypeOK

\* A sync configures the alias or has it applied, and then knows that nothing
\* foreign is left in it.
LEMMA RouterSteps ==
    ASSUME TypeOK, SyncInv, NEW i \in Instances, SyncJob(i) \/ Crash(i)
    PROVE  \/ alias' \subseteq alias \cup Requested /\ applied' = applied
           \/ alias \subseteq Requested /\ applied' = alias /\ alias' = alias
<1>1. CASE SyncReconfigures(i)
    BY <1>1 DEF SyncReconfigures, SyncInv
<1>2. CASE ~SyncReconfigures(i)
    <2>1. applied' = applied
        BY <1>2 DEF SyncJob, SyncReadsAlias, SyncReadsEntries, SyncPanics,
                    MarkIPsAsAdded, SyncCompares, SyncSets, Crash, router
    <2>2. QED
        BY <2>1, SyncSteps DEF SyncStep
<1>3. QED
    BY <1>1, <1>2

\* Every step is one of the abstract whitelist or changes nothing it tells of.
LEMMA WhitelistStep ==
    ASSUME TypeOK, HeldInv, SyncInv, [Next]_vars
    PROVE  [Whitelist!Next]_(Whitelist!vars)
<1>1. CASE UNCHANGED router
    <2>1. CASE Stage' = Stage
        BY <1>1, <2>1 DEF Whitelist!vars, Stage, router
    <2>2. CASE \E e \in Entries : Whitelist!Admit(e)
        BY <2>2 DEF Whitelist!Next
    <2>3. CASE \E E \in SUBSET Inserted : Whitelist!End(E)
        <3>1. SUBSET Inserted \subseteq SUBSET Entries
            BY DEF Inserted
        <3>2. QED
            BY <2>3, <3>1 DEF Whitelist!Next
    <2>4. CASE UNCHANGED status
        BY <2>1, <2>4 DEF Stage
    <2>5. StatusSteps
        BY StatusStep
    <2>6. QED
        BY <1>1, <2>1, <2>2, <2>3, <2>4, <2>5, InsertAdmits, RemovalEnds,
           MarkingStutters
        DEF StatusSteps
<1>2. CASE UNCHANGED status
    <2>1. Stage' = Stage
        BY <1>2 DEF Stage
    <2>2. CASE UNCHANGED router
        BY <1>1, <2>2
    <2>3. CASE alias' \subseteq alias \cup Requested /\ applied' = applied
        BY <2>1, <2>3, AdmittedIsRequested
        DEF Whitelist!Next, Whitelist!Configure, Stage
    <2>4. CASE alias \subseteq Requested /\ applied' = alias /\ alias' = alias
        BY <2>1, <2>4, AdmittedIsRequested
        DEF Whitelist!Next, Whitelist!Apply, Stage
    <2>5. QED
        BY <2>2, <2>3, <2>4, OtherSteps, RouterSteps
<1>3. QED
    BY <1>1, <1>2, TableOrRouter

\* The handlers, the jobs, their overlapping incarnations and their failures
\* implement the abstract whitelist.
THEOREM Implementation == Spec => ImplementsWhitelist
<1>1. TypeOK /\ HeldInv /\ SyncInv /\ [Next]_vars
        => [Whitelist!Next]_(Whitelist!vars)
    BY WhitelistStep
<1>2. QED
    BY <1>1, StageInit, Held, PTL DEF Spec, ImplementsWhitelist, Whitelist!Spec
=============================================================================
