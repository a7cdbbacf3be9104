--------------------------- MODULE Startup_proofs ---------------------------
(***************************************************************************)
(* Proofs about Startup, for every number of replicas and migrations, all  *)
(* configurations, and every bound on deployments and faults.              *)
(***************************************************************************)
EXTENDS Startup, TLAPS

\* The type of what a process holds.
ProcessType ==
    /\ config \in [Replicas -> Configs]
    /\ pc \in [Replicas -> Steps]
    /\ next \in [Replicas -> 1 .. Last + 1]
    /\ held \in [Replicas -> Urls \cup {None}]
    /\ caCert \in [Replicas -> Authority \cup {None}]

\* A counted fault stays within its bound.
LEMMA FaultType ==
    ASSUME faults \in 0 .. MaxFaults, Fault
    PROVE  faults' \in 0 .. MaxFaults
BY StartupAssumption DEF Fault

\* A step to another place of the startup.
LEMMA GoesType ==
    ASSUME ProcessType, NEW r \in Replicas, NEW step \in Steps, Goes(r, step)
    PROVE  ProcessType'
BY DEF Goes, ProcessType

\* The end of a process.
LEMMA EndsType ==
    ASSUME ProcessType, NEW r \in Replicas, Ends(r)
    PROVE  ProcessType'
BY DEF Ends, ProcessType, Steps

\* A replica that begins to serve with an authority.
LEMMA ServesType ==
    ASSUME ProcessType, NEW r \in Replicas, NEW ca \in Authority,
           Serves(r, ca)
    PROVE  ProcessType'
BY DEF Serves, ProcessType, Steps

\* An answer that arrives or is lost.
LEMMA AnsweredType ==
    ASSUME ProcessType, faults \in 0 .. MaxFaults,
           NEW r \in Replicas, NEW step \in Steps, Answered(r, step)
    PROVE  ProcessType' /\ faults' \in 0 .. MaxFaults
<1>1. CASE Goes(r, step) /\ UNCHANGED faults
    BY <1>1, GoesType
<1>2. CASE Fault /\ Ends(r)
    BY <1>2, FaultType, EndsType
<1>3. QED
    BY <1>1, <1>2 DEF Answered

\* What a replica generates is an authority.
LEMMA GenerateType ==
    ASSUME ProcessType, NEW r \in Replicas
    PROVE  GenerateCA(r) \in Authority
BY StartupAssumption DEF ProcessType, GenerateCA, Authority

\* The types split into those of the database, the processes and the counters.
DatabaseType ==
    /\ schema \subseteq Migrations
    /\ recorded \subseteq Migrations
    /\ system \in Urls \cup {None}
    /\ references \subseteq Urls
    /\ validation \subseteq Keys
    /\ authority \in Authority \cup {None}

\* The types, in two parts.
LEMMA TypeParts ==
    TypeOK <=> /\ DatabaseType /\ ProcessType
               /\ deployments \in 0 .. MaxDeployments
               /\ faults \in 0 .. MaxFaults
BY DEF TypeOK, DatabaseType, ProcessType

\* Initially all replicas are down and the database is empty.
LEMMA TypeInit == Init => TypeOK
<1> SUFFICES ASSUME Init
             PROVE  TypeOK
    OBVIOUS
<1>1. next \in [Replicas -> 1 .. Last + 1]
    BY StartupAssumption DEF Init
<1>2. faults \in 0 .. MaxFaults /\ deployments \in 0 .. MaxDeployments
    BY StartupAssumption DEF Init
<1>3. ProcessType
    BY <1>1 DEF Init, ProcessType, Steps
<1>4. DatabaseType
    BY DEF Init, DatabaseType
<1>5. QED
    BY <1>2, <1>3, <1>4, TypeParts

\* Where a replica stands among the migrations: those before the one it is at
\* are recorded, and one that it applies exists.
Behind(r) == \A m \in Migrations : m < next[r] => m \in recorded

ProgressInv ==
    \A r \in Replicas :
        /\ pc[r] # "down" => Behind(r)
        /\ pc[r] \in {"apply", "record"} => next[r] \in Migrations

\* Every step keeps the types.
LEMMA TypeStep == TypeOK /\ ProgressInv /\ [Next]_vars => TypeOK'
<1> SUFFICES ASSUME TypeOK, ProgressInv, [Next]_vars
             PROVE  TypeOK'
    OBVIOUS
<1>0. /\ DatabaseType /\ ProcessType
      /\ deployments \in 0 .. MaxDeployments
      /\ faults \in 0 .. MaxFaults
    BY TypeParts
<1>a. SUFFICES /\ DatabaseType' /\ ProcessType'
               /\ deployments' \in 0 .. MaxDeployments
               /\ faults' \in 0 .. MaxFaults
    BY DEF TypeOK, DatabaseType, ProcessType
<1>b. ASSUME UNCHANGED database
      PROVE  DatabaseType'
    BY <1>0, <1>b DEF database, DatabaseType
<1>1. ASSUME NEW r \in Replicas, Start(r)
      PROVE  /\ DatabaseType' /\ ProcessType'
             /\ UNCHANGED <<deployments, faults>>
    <2>1. ProcessType'
        BY <1>0, <1>1, StartupAssumption DEF Start, ProcessType, Steps
    <2>2. QED
        BY <1>1, <1>b, <2>1 DEF Start
<1>2. ASSUME NEW r \in Replicas, CheckMigration(r)
      PROVE  /\ DatabaseType' /\ ProcessType'
             /\ UNCHANGED <<deployments, faults>>
    <2>1. ASSUME Goes(r, "system") \/ Goes(r, "apply")
          PROVE  ProcessType'
        BY <1>0, <2>1, GoesType DEF Steps
    <2>2. ASSUME /\ IsLeft(next[r])
                 /\ next' = [next EXCEPT ![r] = @ + 1]
                 /\ UNCHANGED <<config, pc, held, caCert>>
          PROVE  ProcessType'
        <3>1. next[r] + 1 \in 1 .. Last + 1
            BY <1>0, <2>2, StartupAssumption DEF ProcessType, IsLeft
        <3>2. QED
            BY <1>0, <2>2, <3>1 DEF ProcessType
    <2>3. ProcessType'
        BY <1>2, <2>1, <2>2 DEF CheckMigration
    <2>4. QED
        BY <1>2, <1>b, <2>3 DEF CheckMigration
<1>3. ASSUME NEW r \in Replicas, ApplyMigration(r)
      PROVE  /\ DatabaseType' /\ ProcessType'
             /\ UNCHANGED <<deployments, faults>>
    <2>1. ProcessType'
        BY <1>0, <1>3, GoesType, EndsType DEF ApplyMigration, Steps
    <2>2. QED
        BY <1>3, <1>b, <2>1 DEF ApplyMigration
<1>4. ASSUME NEW r \in Replicas, RecordMigration(r)
      PROVE  /\ DatabaseType' /\ ProcessType'
             /\ UNCHANGED deployments
             /\ faults' \in 0 .. MaxFaults
    <2>1. ProcessType' /\ faults' \in 0 .. MaxFaults
        BY <1>0, <1>4, AnsweredType DEF RecordMigration, Steps
    <2>2. next[r] \in Migrations
        BY <1>4 DEF RecordMigration, ProgressInv
    <2>3. schema' \subseteq Migrations /\ recorded' \subseteq Migrations
        BY <1>0, <1>4, <2>2 DEF RecordMigration, CommitMigration, DatabaseType
    <2>4. QED
        BY <1>0, <1>4, <2>1, <2>3 DEF RecordMigration, DatabaseType
<1>5. ASSUME NEW r \in Replicas, SelectSystemUser(r)
      PROVE  /\ DatabaseType' /\ ProcessType'
             /\ UNCHANGED <<deployments, faults>>
    <2>1. CASE Goes(r, "key")
        BY <1>0, <1>5, <1>b, <2>1, GoesType DEF SelectSystemUser, Steps
    <2>2. CASE /\ pc' = [pc EXCEPT ![r] = "user"]
               /\ held' = [held EXCEPT ![r] = system]
               /\ UNCHANGED <<config, next, caCert>>
        <3>1. ProcessType'
            BY <1>0, <2>2 DEF ProcessType, DatabaseType, Steps
        <3>2. QED
            BY <1>5, <1>b, <3>1 DEF SelectSystemUser
    <2>3. QED
        BY <1>5, <2>1, <2>2 DEF SelectSystemUser
<1>6. ASSUME NEW r \in Replicas, WriteSystemUser(r)
      PROVE  /\ DatabaseType' /\ ProcessType'
             /\ UNCHANGED deployments
             /\ faults' \in 0 .. MaxFaults
    <2>1. config[r].url \in Urls
        BY <1>0, StartupAssumption DEF ProcessType
    <2>2. ASSUME Ends(r) /\ UNCHANGED faults
          PROVE  ProcessType' /\ faults' \in 0 .. MaxFaults
        BY <1>0, <2>2, EndsType
    <2>3. ASSUME /\ pc' = [pc EXCEPT ![r] = "key"]
                 /\ held' = [held EXCEPT ![r] = None]
                 /\ UNCHANGED <<config, next, caCert, faults>>
          PROVE  ProcessType' /\ faults' \in 0 .. MaxFaults
        BY <1>0, <2>3 DEF ProcessType, Steps
    <2>4. ASSUME Fault /\ Ends(r)
          PROVE  ProcessType' /\ faults' \in 0 .. MaxFaults
        BY <1>0, <2>4, FaultType, EndsType
    <2>5. ProcessType' /\ faults' \in 0 .. MaxFaults
        BY <1>6, <2>2, <2>3, <2>4 DEF WriteSystemUser
    <2>6. system' \in Urls \cup {None} /\ references' \subseteq Urls
        BY <1>0, <1>6, <2>1 DEF WriteSystemUser, EventsMoved, DatabaseType
    <2>7. QED
        BY <1>0, <1>6, <2>5, <2>6 DEF WriteSystemUser, DatabaseType
<1>7. ASSUME NEW r \in Replicas, GetEncryptionValidation(r)
      PROVE  /\ DatabaseType' /\ ProcessType'
             /\ UNCHANGED <<deployments, faults>>
    <2>1. Goes(r, "setKey") \/ Goes(r, "authority") \/ Ends(r)
        BY <1>7 DEF GetEncryptionValidation
    <2>2. ProcessType'
        BY <1>0, <2>1, GoesType, EndsType DEF Steps
    <2>3. QED
        BY <1>7, <1>b, <2>2 DEF GetEncryptionValidation
<1>8. ASSUME NEW r \in Replicas, SetEncryptionValidation(r)
      PROVE  /\ DatabaseType' /\ ProcessType'
             /\ UNCHANGED deployments
             /\ faults' \in 0 .. MaxFaults
    <2>1. ProcessType' /\ faults' \in 0 .. MaxFaults
        BY <1>0, <1>8, AnsweredType DEF SetEncryptionValidation, Steps
    <2>2. config[r].key \in Keys
        BY <1>0, StartupAssumption DEF ProcessType
    <2>3. validation' \subseteq Keys
        BY <1>0, <1>8, <2>2 DEF SetEncryptionValidation, DatabaseType
    <2>4. QED
        BY <1>0, <1>8, <2>1, <2>3 DEF SetEncryptionValidation, DatabaseType
<1>9. ASSUME NEW r \in Replicas, GetCertificateAuthority(r)
      PROVE  /\ DatabaseType' /\ ProcessType'
             /\ UNCHANGED <<deployments, faults>>
    <2>1. ASSUME Goes(r, "generate") \/ Ends(r)
          PROVE  ProcessType'
        BY <1>0, <2>1, GoesType, EndsType DEF Steps
    <2>2. ASSUME authority # None /\ Serves(r, authority)
          PROVE  ProcessType'
        BY <1>0, <2>2, ServesType DEF DatabaseType
    <2>3. ProcessType'
        BY <1>9, <2>1, <2>2 DEF GetCertificateAuthority
    <2>4. QED
        BY <1>9, <1>b, <2>3 DEF GetCertificateAuthority
<1>10. ASSUME NEW r \in Replicas, InsertCertificateAuthority(r)
       PROVE  /\ DatabaseType' /\ ProcessType'
              /\ UNCHANGED deployments
              /\ faults' \in 0 .. MaxFaults
    <2>1. GenerateCA(r) \in Authority
        BY <1>0, GenerateType
    <2>2. ASSUME Serves(r, GenerateCA(r)) /\ UNCHANGED faults
          PROVE  ProcessType' /\ faults' \in 0 .. MaxFaults
        BY <1>0, <2>1, <2>2, ServesType
    <2>3. ASSUME Fault /\ Ends(r)
          PROVE  ProcessType' /\ faults' \in 0 .. MaxFaults
        BY <1>0, <2>3, FaultType, EndsType
    <2>4. ASSUME Ends(r) /\ UNCHANGED faults
          PROVE  ProcessType' /\ faults' \in 0 .. MaxFaults
        BY <1>0, <2>4, EndsType
    <2>5. ProcessType' /\ faults' \in 0 .. MaxFaults
        BY <1>10, <2>2, <2>3, <2>4 DEF InsertCertificateAuthority
    <2>6. authority' \in Authority \cup {None}
        BY <1>0, <1>10, <2>1 DEF InsertCertificateAuthority, DatabaseType
    <2>7. QED
        BY <1>0, <1>10, <2>5, <2>6 DEF InsertCertificateAuthority, DatabaseType
<1>11. ASSUME NEW r \in Replicas, JobGetsSystemUser(r)
       PROVE  /\ DatabaseType' /\ ProcessType'
              /\ UNCHANGED <<deployments, faults>>
    <2>1. ProcessType'
        BY <1>0, <1>11 DEF JobGetsSystemUser, ProcessType, DatabaseType
    <2>2. QED
        BY <1>11, <1>b, <2>1 DEF JobGetsSystemUser
<1>12. ASSUME NEW r \in Replicas, JobInsertsEvent(r)
       PROVE  /\ DatabaseType' /\ ProcessType'
              /\ UNCHANGED <<deployments, faults>>
    <2>1. held[r] \in Urls
        BY <1>0, <1>12 DEF JobInsertsEvent, ProcessType
    <2>2. ProcessType'
        BY <1>0, <1>12 DEF JobInsertsEvent, process, ProcessType
    <2>3. QED
        BY <1>0, <1>12, <2>1, <2>2 DEF JobInsertsEvent, DatabaseType
<1>13. ASSUME NEW r \in Replicas, Crash(r)
       PROVE  /\ DatabaseType' /\ ProcessType'
              /\ UNCHANGED deployments
              /\ faults' \in 0 .. MaxFaults
    BY <1>0, <1>13, <1>b, FaultType, EndsType DEF Crash
<1>14. ASSUME NEW r \in Replicas, Deploy(r)
       PROVE  /\ DatabaseType' /\ ProcessType'
              /\ deployments' \in 0 .. MaxDeployments
              /\ UNCHANGED faults
    <2>1. ProcessType'
        BY <1>0, <1>14 DEF Deploy, ProcessType, Steps
    <2>2. deployments' \in 0 .. MaxDeployments
        BY <1>0, <1>14, StartupAssumption DEF Deploy
    <2>3. QED
        BY <1>14, <1>b, <2>1, <2>2 DEF Deploy
<1>15. CASE UNCHANGED vars
    BY <1>0, <1>15, <1>b DEF vars, process, ProcessType
<1>16. ASSUME NEW r \in Replicas, StartupStep(r)
       PROVE  /\ DatabaseType' /\ ProcessType'
              /\ UNCHANGED deployments
              /\ faults' \in 0 .. MaxFaults
    <2>1. CASE \/ Start(r) \/ CheckMigration(r) \/ ApplyMigration(r)
               \/ RecordMigration(r) \/ SelectSystemUser(r)
        BY <1>0, <2>1, <1>1, <1>2, <1>3, <1>4, <1>5
    <2>2. CASE \/ WriteSystemUser(r) \/ GetEncryptionValidation(r)
               \/ SetEncryptionValidation(r) \/ GetCertificateAuthority(r)
               \/ InsertCertificateAuthority(r)
        BY <1>0, <2>2, <1>6, <1>7, <1>8, <1>9, <1>10
    <2>3. QED
        BY <1>16, <2>1, <2>2 DEF StartupStep
<1>17. QED
    BY <1>0, <1>11, <1>12, <1>13, <1>14, <1>15, <1>16 DEF Next, JobStep

-----------------------------------------------------------------------------
(* The migrations.                                                         *)

\* The places of a startup that is not past the migrations.
Migrating(r) == pc[r] \in {"down", "check", "apply", "record"}

\* Initially nothing is migrated and nobody is past that.
LEMMA WholeInit == Init => MigrationsAreWhole /\ ProgressInv
BY DEF Init, MigrationsAreWhole, ProgressInv

\* Every step keeps the migrations whole, and knows where each replica stands.
LEMMA WholeStep ==
    TypeOK /\ MigrationsAreWhole /\ ProgressInv /\ [Next]_vars
        => MigrationsAreWhole' /\ ProgressInv'
<1> SUFFICES ASSUME TypeOK, MigrationsAreWhole, ProgressInv, [Next]_vars
             PROVE  MigrationsAreWhole' /\ ProgressInv'
    OBVIOUS
<1>0. /\ pc \in [Replicas -> Steps]
      /\ next \in [Replicas -> 1 .. Last + 1]
      /\ recorded \subseteq Migrations
    BY DEF TypeOK
<1>t. Last \in Nat
    BY StartupAssumption
\* A step of one replica that leaves the migrations and its place in them.
<1>a. ASSUME NEW r \in Replicas, NEW step \in Steps,
             UNCHANGED <<schema, recorded, next>>,
             pc' = [pc EXCEPT ![r] = step],
             pc[r] # "down" \/ step = "down",
             step \in {"apply", "record"} => next[r] \in Migrations,
             step \notin {"down", "check", "apply", "record"}
                => Migrations \subseteq schema
      PROVE  MigrationsAreWhole' /\ ProgressInv'
    <2>1. \A q \in Replicas : pc'[q] = IF q = r THEN step ELSE pc[q]
        BY <1>0, <1>a
    <2>2. MigrationsAreWhole'
        BY <1>a, <2>1 DEF MigrationsAreWhole
    <2>3. ProgressInv'
        BY <1>a, <2>1 DEF ProgressInv, Behind
    <2>4. QED
        BY <2>2, <2>3
\* A process that ends.
<1>b. ASSUME NEW r \in Replicas, UNCHANGED <<schema, recorded, next>>,
             pc' = [pc EXCEPT ![r] = "down"]
      PROVE  MigrationsAreWhole' /\ ProgressInv'
    <2>1. "down" \in Steps
        BY DEF Steps
    <2>2. QED
        BY <1>a, <1>b, <2>1
\* A step past the migrations.
<1>c. ASSUME NEW r \in Replicas, UNCHANGED <<schema, recorded, next>>,
             ~Migrating(r),
             NEW step \in Steps \ {"down", "check", "apply", "record"},
             pc' = [pc EXCEPT ![r] = step]
      PROVE  MigrationsAreWhole' /\ ProgressInv'
    <2>1. Migrations \subseteq schema /\ pc[r] # "down"
        BY <1>c DEF MigrationsAreWhole, Migrating
    <2>2. QED
        BY <1>a, <1>c, <2>1
\* A step that changes no place.
<1>d. ASSUME UNCHANGED <<schema, recorded, next, pc>>
      PROVE  MigrationsAreWhole' /\ ProgressInv'
    BY <1>d DEF MigrationsAreWhole, ProgressInv, Behind
<1>1. ASSUME NEW r \in Replicas, Start(r)
      PROVE  MigrationsAreWhole' /\ ProgressInv'
    <2>1. \A q \in Replicas :
             /\ pc'[q] = IF q = r THEN "check" ELSE pc[q]
             /\ next'[q] = IF q = r THEN 1 ELSE next[q]
        BY <1>0, <1>1 DEF Start
    <2>2. UNCHANGED <<schema, recorded>>
        BY <1>1 DEF Start, database
    <2>3. MigrationsAreWhole'
        BY <2>1, <2>2 DEF MigrationsAreWhole
    <2>4. ASSUME NEW q \in Replicas
          PROVE  /\ pc'[q] # "down" => Behind(q)'
                 /\ pc'[q] \in {"apply", "record"} => next'[q] \in Migrations
        <3>1. CASE q = r
            BY <2>1, <2>2, <3>1 DEF Behind, Migrations
        <3>2. CASE q # r
            BY <2>1, <2>2, <3>2 DEF Behind, ProgressInv
        <3>3. QED
            BY <3>1, <3>2
    <2>5. QED
        BY <2>3, <2>4 DEF ProgressInv
<1>2. ASSUME NEW r \in Replicas, CheckMigration(r)
      PROVE  MigrationsAreWhole' /\ ProgressInv'
    <2>1. UNCHANGED <<schema, recorded>> /\ pc[r] = "check" /\ Behind(r)
        BY <1>2 DEF CheckMigration, database, ProgressInv
    <2>2. CASE ~IsLeft(next[r]) /\ Goes(r, "system")
        <3>1. Migrations \subseteq schema
            BY <1>0, <1>t, <2>1, <2>2
            DEF IsLeft, Behind, Migrations, MigrationsAreWhole
        <3>2. QED
            BY <1>a, <2>1, <2>2, <3>1 DEF Goes, Steps
    <2>3. CASE IsLeft(next[r]) /\ Goes(r, "apply")
        <3>1. next[r] \in Migrations
            BY <1>0, <1>t, <2>3 DEF IsLeft, Migrations
        <3>2. QED
            BY <1>a, <2>1, <2>3, <3>1 DEF Goes, Steps
    <2>4. CASE /\ IsLeft(next[r]) /\ IsRecorded(next[r])
               /\ next' = [next EXCEPT ![r] = @ + 1]
               /\ UNCHANGED <<config, pc, held, caCert>>
        <3>1. MigrationsAreWhole'
            BY <2>1, <2>4 DEF MigrationsAreWhole
        <3>2. \A q \in Replicas :
                 next'[q] = IF q = r THEN next[r] + 1 ELSE next[q]
            BY <1>0, <2>4
        <3>3. ASSUME NEW m \in Migrations, m < next[r] + 1
              PROVE  m \in recorded
            <4>1. m < next[r] \/ m = next[r]
                BY <1>0, <1>t, <3>3 DEF Migrations
            <4>2. QED
                BY <2>1, <2>4, <4>1 DEF Behind, IsRecorded
        <3>4. ProgressInv'
            BY <2>1, <2>4, <3>2, <3>3 DEF ProgressInv, Behind
        <3>5. QED
            BY <3>1, <3>4
    <2>5. QED
        BY <1>2, <2>2, <2>3, <2>4 DEF CheckMigration
<1>3. ASSUME NEW r \in Replicas, ApplyMigration(r)
      PROVE  MigrationsAreWhole' /\ ProgressInv'
    <2>1. UNCHANGED <<schema, recorded>> /\ pc[r] = "apply"
        BY <1>3 DEF ApplyMigration, database
    <2>2. CASE Ends(r)
        BY <1>b, <2>1, <2>2 DEF Ends
    <2>3. CASE Goes(r, "record")
        BY <1>a, <2>1, <2>3 DEF Goes, Steps, ProgressInv
    <2>4. QED
        BY <1>3, <2>2, <2>3 DEF ApplyMigration
<1>4. ASSUME NEW r \in Replicas, RecordMigration(r)
      PROVE  MigrationsAreWhole' /\ ProgressInv'
    <2>1. /\ pc[r] = "record"
          /\ next[r] \in Migrations
          /\ Behind(r)
          /\ schema' = schema \cup {next[r]}
          /\ recorded' = recorded \cup {next[r]}
        BY <1>4 DEF RecordMigration, CommitMigration, ProgressInv
    <2>2. next' = next /\ (pc' = [pc EXCEPT ![r] = "check"]
                           \/ pc' = [pc EXCEPT ![r] = "down"])
        BY <1>4 DEF RecordMigration, Answered, Goes, Ends
    <2>3. \A q \in Replicas :
             /\ q # r => pc'[q] = pc[q]
             /\ q = r => pc'[q] \in {"check", "down"}
        BY <1>0, <2>2
    <2>4. \A m \in recorded' : 1 .. m \subseteq recorded'
        <3>1. 1 .. next[r] \subseteq recorded \cup {next[r]}
            BY <1>t, <2>1 DEF Behind, Migrations
        <3>2. QED
            BY <2>1, <3>1 DEF MigrationsAreWhole
    <2>5. MigrationsAreWhole'
        BY <2>1, <2>3, <2>4 DEF MigrationsAreWhole
    <2>6. ProgressInv'
        BY <2>1, <2>2, <2>3 DEF ProgressInv, Behind
    <2>7. QED
        BY <2>5, <2>6
<1>5. ASSUME NEW r \in Replicas, SelectSystemUser(r)
      PROVE  MigrationsAreWhole' /\ ProgressInv'
    <2>1. /\ UNCHANGED <<schema, recorded, next>>
          /\ ~Migrating(r)
          /\ pc' = [pc EXCEPT ![r] = "key"] \/ pc' = [pc EXCEPT ![r] = "user"]
        BY <1>5 DEF SelectSystemUser, Goes, database, Migrating
    <2>2. QED
        BY <1>c, <2>1 DEF Steps
<1>6. ASSUME NEW r \in Replicas, WriteSystemUser(r)
      PROVE  MigrationsAreWhole' /\ ProgressInv'
    <2>1. /\ UNCHANGED <<schema, recorded, next>>
          /\ ~Migrating(r)
          /\ pc' = [pc EXCEPT ![r] = "key"] \/ pc' = [pc EXCEPT ![r] = "down"]
        BY <1>6 DEF WriteSystemUser, Ends, Migrating
    <2>2. QED
        BY <1>b, <1>c, <2>1 DEF Steps
<1>7. ASSUME NEW r \in Replicas,
             \/ GetEncryptionValidation(r) \/ SetEncryptionValidation(r)
      PROVE  MigrationsAreWhole' /\ ProgressInv'
    <2>1. /\ UNCHANGED <<schema, recorded, next>>
          /\ ~Migrating(r)
          /\ \/ pc' = [pc EXCEPT ![r] = "setKey"]
             \/ pc' = [pc EXCEPT ![r] = "authority"]
             \/ pc' = [pc EXCEPT ![r] = "key"]
             \/ pc' = [pc EXCEPT ![r] = "down"]
        BY <1>7 DEF GetEncryptionValidation, SetEncryptionValidation, Goes,
                    Ends, Answered, database, Migrating
    <2>2. QED
        BY <1>b, <1>c, <2>1 DEF Steps
<1>8. ASSUME NEW r \in Replicas,
             \/ GetCertificateAuthority(r) \/ InsertCertificateAuthority(r)
      PROVE  MigrationsAreWhole' /\ ProgressInv'
    <2>1. /\ UNCHANGED <<schema, recorded, next>>
          /\ ~Migrating(r)
          /\ \/ pc' = [pc EXCEPT ![r] = "generate"]
             \/ pc' = [pc EXCEPT ![r] = "serving"]
             \/ pc' = [pc EXCEPT ![r] = "down"]
        BY <1>8 DEF GetCertificateAuthority, InsertCertificateAuthority, Goes,
                    Ends, Serves, database, Migrating
    <2>2. QED
        BY <1>b, <1>c, <2>1 DEF Steps
<1>9. ASSUME NEW r \in Replicas, JobStep(r)
      PROVE  MigrationsAreWhole' /\ ProgressInv'
    BY <1>d, <1>9
    DEF JobStep, JobGetsSystemUser, JobInsertsEvent, database, process
<1>10. ASSUME NEW r \in Replicas, Crash(r) \/ Deploy(r)
       PROVE  MigrationsAreWhole' /\ ProgressInv'
    BY <1>b, <1>10 DEF Crash, Deploy, Ends, database
<1>11. CASE UNCHANGED vars
    BY <1>d, <1>11 DEF vars, database, process
<1>12. QED
    BY <1>1, <1>2, <1>3, <1>4, <1>5, <1>6, <1>7, <1>8, <1>9, <1>10, <1>11
    DEF Next, StartupStep

\* The invariant that the types and the migrations need together.
IInv == TypeOK /\ MigrationsAreWhole /\ ProgressInv

\* It holds always.
LEMMA Invariant == Spec => []IInv
<1>1. Init => IInv
    BY TypeInit, WholeInit DEF IInv
<1>2. IInv /\ [Next]_vars => IInv'
    BY TypeStep, WholeStep DEF IInv
<1>3. QED
    BY <1>1, <1>2, PTL DEF Spec

\* Every column and every Go variable keeps its type.
THEOREM TypeCorrect == Spec => []TypeOK
<1>1. IInv => TypeOK
    BY DEF IInv
<1>2. QED
    BY <1>1, Invariant, PTL

\* However many replicas migrate at once, the migrations in effect are those
\* recorded, without a gap, and complete for whoever is past them.
THEOREM Whole == Spec => []MigrationsAreWhole
<1>1. IInv => MigrationsAreWhole
    BY DEF IInv
<1>2. QED
    BY <1>1, Invariant, PTL

-----------------------------------------------------------------------------
(* The authority.                                                          *)

\* Initially nobody serves.
LEMMA AuthorityInit == Init => OneAuthority
BY DEF Init, OneAuthority

\* Every step keeps the authority that somebody serves with.
LEMMA AuthorityStep == TypeOK /\ OneAuthority /\ [Next]_vars => OneAuthority'
<1> SUFFICES ASSUME TypeOK, OneAuthority, [Next]_vars
             PROVE  OneAuthority'
    OBVIOUS
<1>0. /\ pc \in [Replicas -> Steps]
      /\ caCert \in [Replicas -> Authority \cup {None}]
      /\ config \in [Replicas -> Configs]
    BY DEF TypeOK
\* A replica goes where it does not serve; nothing else of it is served with.
<1>a. ASSUME NEW r \in Replicas, NEW step \in Steps \ {"serving"},
             authority' = authority,
             pc' = [pc EXCEPT ![r] = step],
             \A q \in Replicas \ {r} : /\ caCert'[q] = caCert[q]
                                      /\ config'[q] = config[q]
      PROVE  OneAuthority'
    <2>1. \A q \in Replicas : pc'[q] = IF q = r THEN step ELSE pc[q]
        BY <1>0, <1>a
    <2>2. QED
        BY <1>a, <2>1 DEF OneAuthority
<1>b. ASSUME NEW r \in Replicas, authority' = authority, Ends(r)
      PROVE  OneAuthority'
    BY <1>0, <1>a, <1>b DEF Ends, Steps
<1>c. ASSUME NEW r \in Replicas, authority' = authority,
             NEW step \in Steps \ {"serving"}, Goes(r, step)
      PROVE  OneAuthority'
    BY <1>0, <1>a, <1>c DEF Goes
<1>1. ASSUME NEW r \in Replicas,
             \/ Start(r) \/ CheckMigration(r) \/ ApplyMigration(r)
             \/ RecordMigration(r) \/ SelectSystemUser(r)
      PROVE  OneAuthority'
    <2>1. CASE Start(r)
        BY <1>0, <1>a, <2>1 DEF Start, database, Steps
    <2>2. CASE CheckMigration(r)
        <3>1. CASE UNCHANGED <<config, pc, held, caCert>>
            BY <2>2, <3>1 DEF CheckMigration, database, OneAuthority
        <3>2. QED
            BY <1>c, <2>2, <3>1 DEF CheckMigration, database, Steps
    <2>3. CASE ApplyMigration(r)
        BY <1>b, <1>c, <2>3 DEF ApplyMigration, database, Steps
    <2>4. CASE RecordMigration(r)
        BY <1>b, <1>c, <2>4 DEF RecordMigration, Answered, Steps
    <2>5. CASE SelectSystemUser(r)
        BY <1>0, <1>a, <1>c, <2>5 DEF SelectSystemUser, database, Steps
    <2>6. QED
        BY <1>1, <2>1, <2>2, <2>3, <2>4, <2>5
<1>2. ASSUME NEW r \in Replicas, WriteSystemUser(r)
      PROVE  OneAuthority'
    BY <1>0, <1>a, <1>b, <1>2 DEF WriteSystemUser, Steps
<1>3. ASSUME NEW r \in Replicas,
             GetEncryptionValidation(r) \/ SetEncryptionValidation(r)
      PROVE  OneAuthority'
    BY <1>b, <1>c, <1>3
    DEF GetEncryptionValidation, SetEncryptionValidation, Answered, database,
        Steps
<1>4. ASSUME NEW r \in Replicas, GetCertificateAuthority(r)
      PROVE  OneAuthority'
    <2>1. authority' = authority
        BY <1>4 DEF GetCertificateAuthority, database
    <2>2. CASE /\ authority # None /\ Decrypts(r)
               /\ authority.algorithm = config[r].algorithm
               /\ Serves(r, authority)
        <3>1. \A q \in Replicas :
                 /\ q # r => pc'[q] = pc[q] /\ caCert'[q] = caCert[q]
                 /\ q = r => caCert'[q] = authority
                 /\ config'[q] = config[q]
            BY <1>0, <2>2 DEF Serves
        <3>2. QED
            BY <2>1, <2>2, <3>1 DEF Decrypts, OneAuthority
    <2>3. CASE Goes(r, "generate") \/ Ends(r)
        BY <1>b, <1>c, <2>1, <2>3 DEF Steps
    <2>4. QED
        BY <1>4, <2>2, <2>3 DEF GetCertificateAuthority
<1>5. ASSUME NEW r \in Replicas, InsertCertificateAuthority(r)
      PROVE  OneAuthority'
    <2>1. CASE Ends(r) /\ authority' = authority
        BY <1>b, <2>1
    <2>2. CASE ActiveUnique /\ authority' = GenerateCA(r)
               /\ (Serves(r, GenerateCA(r)) \/ Ends(r))
        <3>1. \A q \in Replicas : pc[q] # "serving"
            BY <2>2 DEF ActiveUnique, OneAuthority
        <3>2. \A q \in Replicas :
                 pc'[q] = "serving" => q = r /\ Serves(r, GenerateCA(r))
            BY <1>0, <2>2, <3>1 DEF Serves, Ends
        <3>3. GenerateCA(r) \in Authority /\ config[r] \in Configs
            BY <1>0, GenerateType DEF TypeOK, ProcessType
        <3>4. GenerateCA(r) # None
            BY <3>3, StartupAssumption DEF Authority
        <3>5. Serves(r, GenerateCA(r)) =>
                 caCert'[r] = authority' /\ config' = config
            BY <1>0, <2>2 DEF Serves
        <3>6. /\ GenerateCA(r).key = config[r].key
              /\ GenerateCA(r).algorithm = config[r].algorithm
            BY DEF GenerateCA
        <3>7. QED
            BY <2>2, <3>2, <3>4, <3>5, <3>6 DEF OneAuthority
    <2>3. QED
        BY <1>5, <2>1, <2>2 DEF InsertCertificateAuthority
<1>6. ASSUME NEW r \in Replicas, JobStep(r)
      PROVE  OneAuthority'
    BY <1>6 DEF JobStep, JobGetsSystemUser, JobInsertsEvent, database, process,
                OneAuthority
<1>7. ASSUME NEW r \in Replicas, Crash(r)
      PROVE  OneAuthority'
    BY <1>b, <1>7 DEF Crash, database
<1>8. ASSUME NEW r \in Replicas, Deploy(r)
      PROVE  OneAuthority'
    BY <1>0, <1>a, <1>8 DEF Deploy, database, Steps
<1>9. CASE UNCHANGED vars
    BY <1>9 DEF vars, database, process, OneAuthority
<1>10. QED
    BY <1>1, <1>2, <1>3, <1>4, <1>5, <1>6, <1>7, <1>8, <1>9
    DEF Next, StartupStep

\* All replicas that serve sign with the authority in the table, and have the
\* key and the algorithm it was stored with.
THEOREM SameAuthority == Spec => []OneAuthority
<1>1. Spec => [](TypeOK /\ OneAuthority)
    <2>1. Init => OneAuthority
        BY AuthorityInit
    <2>2. TypeOK /\ OneAuthority /\ [Next]_vars => OneAuthority'
        BY AuthorityStep
    <2>3. QED
        BY <2>1, <2>2, TypeCorrect, PTL DEF Spec
<1>2. QED
    BY <1>1, PTL

-----------------------------------------------------------------------------
(* The system user.                                                        *)

\* A step makes an event dangle only while somebody holds a stale issuer.
LEMMA DanglingStep ==
    TypeOK /\ [Next]_vars
        => [Dangling' \subseteq Dangling \/ \E r \in Replicas : Stale(r)]_vars
<1> SUFFICES ASSUME TypeOK, Next
             PROVE  Dangling' \subseteq Dangling \/ \E r \in Replicas : Stale(r)
    OBVIOUS
<1>0. references \subseteq Urls /\ None \notin Urls
    BY StartupAssumption DEF TypeOK
<1>1. ASSUME NEW r \in Replicas, WriteSystemUser(r)
      PROVE  Dangling' \subseteq Dangling \/ Stale(r)
    <2>1. CASE UNCHANGED <<system, references>>
        BY <2>1 DEF Dangling
    <2>2. CASE /\ held[r] = None => system = None
               /\ system' = config[r].url
               /\ references' = EventsMoved(held[r], config[r].url)
        <3>1. CASE held[r] = system
            BY <1>0, <2>2, <3>1 DEF Dangling, EventsMoved
        <3>2. CASE held[r] # system
            BY <2>2, <3>2 DEF Stale
        <3>3. QED
            BY <3>1, <3>2
    <2>3. QED
        BY <1>1, <2>1, <2>2 DEF WriteSystemUser
<1>2. ASSUME NEW r \in Replicas, JobInsertsEvent(r)
      PROVE  Dangling' \subseteq Dangling \/ Stale(r)
    <2>1. CASE held[r] = system
        BY <1>2, <2>1 DEF JobInsertsEvent, Dangling
    <2>2. CASE held[r] # system
        BY <1>2, <2>2 DEF JobInsertsEvent, Stale
    <2>3. QED
        BY <2>1, <2>2
<1>3. ASSUME UNCHANGED <<system, references>>
      PROVE  Dangling' \subseteq Dangling
    BY <1>3 DEF Dangling
<1>4. ASSUME NEW r \in Replicas, StartupStep(r), ~WriteSystemUser(r)
      PROVE  UNCHANGED <<system, references>>
    BY <1>4 DEF StartupStep, Start, CheckMigration, ApplyMigration,
                RecordMigration, SelectSystemUser, GetEncryptionValidation,
                SetEncryptionValidation, GetCertificateAuthority,
                InsertCertificateAuthority, database
<1>5. ASSUME NEW r \in Replicas,
             JobGetsSystemUser(r) \/ Crash(r) \/ Deploy(r)
      PROVE  UNCHANGED <<system, references>>
    BY <1>5 DEF JobGetsSystemUser, Crash, Deploy, database
<1>6. QED
    BY <1>1, <1>2, <1>3, <1>4, <1>5 DEF Next, JobStep

\* A change of the external URL takes the events along, except for what was
\* read before it.
THEOREM ReferencesFollow == Spec => OnlyStaleReadsDangle
<1>1. TypeOK /\ [Next]_vars
        => [Dangling' \subseteq Dangling \/ \E r \in Replicas : Stale(r)]_vars
    BY DanglingStep
<1>2. QED
    BY <1>1, TypeCorrect, PTL DEF Spec, OnlyStaleReadsDangle
=============================================================================
