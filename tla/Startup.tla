------------------------------- MODULE Startup ------------------------------
(***************************************************************************)
(* Replicas that start, crash, restart and are reconfigured on one         *)
(* database: the migrations, the system user, the validation of the        *)
(* encryption key and the certificate authority, with the database as the  *)
(* certificate provider.  Each database statement is a step, and a         *)
(* transaction is its first statement and its end, because another replica *)
(* may be anywhere in the same sequence.  A step that fails ends the       *)
(* process (server.New returns the error), which the deployment starts     *)
(* again.                                                                  *)
(***************************************************************************)
EXTENDS Naturals, FiniteSets

CONSTANTS
    Replicas,       \* processes that share the database
    Last,           \* the version of the last migration in the binary
    Keys,           \* encryption keys
    Algorithms,     \* key algorithms
    Urls,           \* external URLs, the issuer of the system user
    Configs,        \* the configurations that are deployed
    MaxDeployments, \* bound on the changes of configuration
    MaxFaults,      \* bound on failed calls, lost answers and crashes
    None            \* SQL NULL, and no row

Migrations == 1 .. Last

ASSUME StartupAssumption ==
    /\ Last \in Nat
    /\ Configs \subseteq [key : Keys, algorithm : Algorithms, url : Urls]
    /\ MaxDeployments \in Nat
    /\ MaxFaults \in Nat
    /\ None \notin Urls
    /\ None \notin [by : Replicas, key : Keys, algorithm : Algorithms]

VARIABLES
    schema,      \* the migrations whose statements are in effect
    recorded,    \* table schema_migrations
    system,      \* iss of the system user in users
    references,  \* the iss under which certificate_events name that user
    validation,  \* table encryption: the keys its rows are encrypted with
    authority,   \* table certificate_authority
    config,      \* the configuration of each replica
    pc,          \* where each replica stands in its startup
    next,        \* the migration each replica is at
    held,        \* the system user's iss, as a start or a job has read it
    caCert,      \* each DatabaseProvider's caCert
    deployments, \* changes of configuration so far
    faults       \* faults so far

database == <<schema, recorded, system, references, validation, authority>>
process == <<config, pc, next, held, caCert>>
vars == <<database, process, deployments, faults>>

Init ==
    /\ schema = {}
    /\ recorded = {}
    /\ system = None
    /\ references = {}
    /\ validation = {}
    /\ authority = None
    /\ config \in [Replicas -> Configs]
    /\ pc = [r \in Replicas |-> "down"]
    /\ next = [r \in Replicas |-> 1]
    /\ held = [r \in Replicas |-> None]
    /\ caCert = [r \in Replicas |-> None]
    /\ deployments = 0
    /\ faults = 0

-----------------------------------------------------------------------------
(* What the steps are made of.                                             *)

Fault ==
    /\ faults < MaxFaults
    /\ faults' = faults + 1

Goes(r, step) ==
    /\ pc' = [pc EXCEPT ![r] = step]
    /\ UNCHANGED <<config, next, held, caCert>>

\* The process ends, with an error or killed, and what it holds is lost.  The
\* database rolls its transaction back: nothing of it is in effect before its
\* last step.
Ends(r) ==
    /\ pc' = [pc EXCEPT ![r] = "down"]
    /\ held' = [held EXCEPT ![r] = None]
    /\ caCert' = [caCert EXCEPT ![r] = None]
    /\ UNCHANGED <<config, next>>

\* The answer arrives, or it is lost and the process ends.
Answered(r, step) ==
    \/ /\ Goes(r, step)
       /\ UNCHANGED faults
    \/ /\ Fault
       /\ Ends(r)

Serves(r, ca) ==
    /\ pc' = [pc EXCEPT ![r] = "serving"]
    /\ caCert' = [caCert EXCEPT ![r] = ca]
    /\ UNCHANGED <<config, next, held>>

-----------------------------------------------------------------------------
(* RunMigrations.                                                          *)

Start(r) ==
    /\ pc[r] = "down"
    /\ pc' = [pc EXCEPT ![r] = "check"]
    /\ next' = [next EXCEPT ![r] = 1]
    /\ UNCHANGED <<database, config, held, caCert, deployments, faults>>

IsLeft(m) == m <= Last

\* A faulty test of schema_migrations: it asks for a later version.
IsSuperseded(m) == m + 1 \in recorded

IsRecorded(m) == m \in recorded

\* SELECT EXISTS for the next version: applied versions are skipped.
CheckMigration(r) ==
    /\ pc[r] = "check"
    /\ \/ /\ ~IsLeft(next[r])
          /\ Goes(r, "system")
       \/ /\ IsLeft(next[r])
          /\ IsRecorded(next[r])
          /\ next' = [next EXCEPT ![r] = @ + 1]
          /\ UNCHANGED <<config, pc, held, caCert>>
       \/ /\ IsLeft(next[r])
          /\ ~IsRecorded(next[r])
          /\ Goes(r, "apply")
    /\ UNCHANGED <<database, deployments, faults>>

\* BEGIN and the statements of the migration.  They wait for whoever is in
\* between, and fail where what they create exists by now.
ApplyMigration(r) ==
    /\ pc[r] = "apply"
    /\ \A q \in Replicas : pc[q] # "record"
    /\ IF next[r] \in schema THEN Ends(r) ELSE Goes(r, "record")
    /\ UNCHANGED <<database, deployments, faults>>

\* A faulty end of a migration: the version is recorded after the COMMIT, and
\* may not be.
CommitUnrecorded(m) ==
    /\ schema' = schema \cup {m}
    /\ recorded' \in {recorded, recorded \cup {m}}

CommitMigration(m) ==
    /\ schema' = schema \cup {m}
    /\ recorded' = recorded \cup {m}

\* INSERT of the version and COMMIT.
RecordMigration(r) ==
    /\ pc[r] = "record"
    /\ CommitMigration(next[r])
    /\ Answered(r, "check")
    /\ UNCHANGED <<system, references, validation, authority, deployments>>

-----------------------------------------------------------------------------
(* EnsureSystemUser, one transaction.                                      *)

SelectSystemUser(r) ==
    /\ pc[r] = "system"
    /\ IF system = config[r].url
          THEN Goes(r, "key")
          ELSE /\ pc' = [pc EXCEPT ![r] = "user"]
               /\ held' = [held EXCEPT ![r] = system]
               /\ UNCHANGED <<config, next, caCert>>
    /\ UNCHANGED <<database, deployments, faults>>

\* A faulty change of the issuer: the events keep the old one.
EventsKept(old, new) == references

\* UPDATE certificate_events, requesters and reviewers, from the issuer that
\* was read to the new one.
EventsMoved(old, new) ==
    (references \ {old}) \cup {new : u \in references \cap {old}}

\* The rest of the transaction: the INSERT of a first system user, which fails
\* if another replica's has come first, or the UPDATEs for a new URL, of the
\* row as it is by now and of the events of the issuer that was read.
WriteSystemUser(r) ==
    /\ pc[r] = "user"
    /\ \/ /\ held[r] = None
          /\ system # None
          /\ Ends(r)
          /\ UNCHANGED <<system, references, faults>>
       \/ /\ held[r] = None => system = None
          /\ system' = config[r].url
          /\ references' = EventsMoved(held[r], config[r].url)
          /\ \/ /\ pc' = [pc EXCEPT ![r] = "key"]
                /\ held' = [held EXCEPT ![r] = None]
                /\ UNCHANGED <<config, next, caCert, faults>>
             \/ Fault /\ Ends(r)
    /\ UNCHANGED <<schema, recorded, validation, authority, deployments>>

-----------------------------------------------------------------------------
(* StartupCheck: ValidateEncryptionKey, and the certificate authority.     *)

\* SELECT ... LIMIT 1 without an order: any row.
GetEncryptionValidation(r) ==
    /\ pc[r] = "key"
    /\ \/ /\ validation = {}
          /\ Goes(r, "setKey")
       \/ /\ config[r].key \in validation
          /\ Goes(r, "authority")
       \/ /\ validation \ {config[r].key} # {}
          /\ Ends(r)
    /\ UNCHANGED <<database, deployments, faults>>

\* The INSERT asks for no unique row; the row is read again.
SetEncryptionValidation(r) ==
    /\ pc[r] = "setKey"
    /\ validation' = validation \cup {config[r].key}
    /\ Answered(r, "key")
    /\ UNCHANGED <<schema, recorded, system, references, authority,
                   deployments>>

Decrypts(r) == authority.key = config[r].key

GetCertificateAuthority(r) ==
    /\ pc[r] = "authority"
    /\ \/ /\ authority = None
          /\ Goes(r, "generate")
       \/ /\ authority # None
          /\ Decrypts(r) /\ authority.algorithm = config[r].algorithm
          /\ Serves(r, authority)
       \/ /\ authority # None
          /\ ~Decrypts(r) \/ authority.algorithm # config[r].algorithm
          /\ Ends(r)
    /\ UNCHANGED <<database, deployments, faults>>

GenerateCA(r) ==
    [by |-> r, key |-> config[r].key, algorithm |-> config[r].algorithm]

\* A faulty table without UNIQUE (is_active): every INSERT succeeds, and the
\* newest row is the one that is read.
ActiveRepeatable == TRUE

\* The constraint UNIQUE (is_active) leaves room for a first authority only.
ActiveUnique == authority = None

\* GenerateCA and InsertCertificateAuthority: the replica serves with what it
\* generated, unless another replica's authority is in the table.
InsertCertificateAuthority(r) ==
    /\ pc[r] = "generate"
    /\ \/ /\ ActiveUnique
          /\ authority' = GenerateCA(r)
          /\ \/ Serves(r, GenerateCA(r)) /\ UNCHANGED faults
             \/ Fault /\ Ends(r)
       \/ /\ ~ActiveUnique
          /\ Ends(r)
          /\ UNCHANGED <<authority, faults>>
    /\ UNCHANGED <<schema, recorded, system, references, validation,
                   deployments>>

-----------------------------------------------------------------------------
(* What happens to a replica that serves, and to any.                      *)

\* A job begins a batch: GetSystemUser.
JobGetsSystemUser(r) ==
    /\ pc[r] = "serving"
    /\ held' = [held EXCEPT ![r] = system]
    /\ UNCHANGED <<database, config, pc, next, caCert, deployments, faults>>

\* The job records an event of the system user it has read.  No foreign key
\* is left on certificate_events.
JobInsertsEvent(r) ==
    /\ pc[r] = "serving"
    /\ held[r] # None
    /\ references' = references \cup {held[r]}
    /\ UNCHANGED <<schema, recorded, system, validation, authority, process,
                   deployments, faults>>

\* A call of the startup fails without effect, or the process is killed.
Crash(r) ==
    /\ pc[r] # "down"
    /\ Fault
    /\ Ends(r)
    /\ UNCHANGED <<database, deployments>>

\* A replica is stopped, to be started with another configuration.
Deploy(r) ==
    /\ deployments < MaxDeployments
    /\ deployments' = deployments + 1
    /\ pc' = [pc EXCEPT ![r] = "down"]
    /\ held' = [held EXCEPT ![r] = None]
    /\ caCert' = [caCert EXCEPT ![r] = None]
    /\ \E c \in Configs \ {config[r]} : config' = [config EXCEPT ![r] = c]
    /\ UNCHANGED <<database, next, faults>>

StartupStep(r) ==
    \/ Start(r)
    \/ CheckMigration(r)
    \/ ApplyMigration(r)
    \/ RecordMigration(r)
    \/ SelectSystemUser(r)
    \/ WriteSystemUser(r)
    \/ GetEncryptionValidation(r)
    \/ SetEncryptionValidation(r)
    \/ GetCertificateAuthority(r)
    \/ InsertCertificateAuthority(r)

JobStep(r) == JobGetsSystemUser(r) \/ JobInsertsEvent(r)

Next == \E r \in Replicas : \/ StartupStep(r)
                            \/ JobStep(r)
                            \/ Crash(r)
                            \/ Deploy(r)

Spec == Init /\ [][Next]_vars

\* A process runs its startup without waiting for anybody but the database,
\* and the deployment starts it again whenever it has ended.
Fairness == \A r \in Replicas : WF_vars(StartupStep(r))

FairSpec == Spec /\ Fairness

-----------------------------------------------------------------------------
(* Properties.                                                             *)

Authority == [by : Replicas, key : Keys, algorithm : Algorithms]

Steps == {"down", "check", "apply", "record", "system", "user", "key",
          "setKey", "authority", "generate", "serving"}

\* Every variable has the type its column or Go variable has.
TypeOK ==
    /\ schema \subseteq Migrations
    /\ recorded \subseteq Migrations
    /\ system \in Urls \cup {None}
    /\ references \subseteq Urls
    /\ validation \subseteq Keys
    /\ authority \in Authority \cup {None}
    /\ config \in [Replicas -> Configs]
    /\ pc \in [Replicas -> Steps]
    /\ next \in [Replicas -> 1 .. Last + 1]
    /\ held \in [Replicas -> Urls \cup {None}]
    /\ caCert \in [Replicas -> Authority \cup {None}]
    /\ deployments \in 0 .. MaxDeployments
    /\ faults \in 0 .. MaxFaults

\* However many replicas migrate at once, and wherever they die, the
\* migrations in effect are those recorded, without a gap, and whoever is past
\* them has them all.
MigrationsAreWhole ==
    /\ schema = recorded
    /\ \A m \in recorded : 1 .. m \subseteq recorded
    /\ \A r \in Replicas :
          pc[r] \notin {"down", "check", "apply", "record"}
              => Migrations \subseteq schema

\* All replicas that serve sign with one authority, the one in the table, and
\* can decrypt its private key: neither a race for the first authority nor two
\* keys that both passed their validation set them apart.
OneAuthority ==
    \A r \in Replicas : pc[r] = "serving" =>
        /\ caCert[r] = authority
        /\ authority # None
        /\ authority.key = config[r].key
        /\ authority.algorithm = config[r].algorithm

\* Events that name a system user who does not exist.
Dangling == references \ {system}

\* A replica holds an issuer that the system user no longer has.
Stale(r) == held[r] \notin {None, system}

\* A change of the external URL takes the events along.  Those it misses were
\* written, or moved, for an issuer read before: by a job in the middle of its
\* batch, or by a start that two other URLs overtook.
OnlyStaleReadsDangle ==
    [][Dangling' \subseteq Dangling \/ \E r \in Replicas : Stale(r)]_vars

\* What keeps a replica from serving for good: a key or an algorithm other
\* than those the database was set up with.
Mismatched(r) ==
    \/ validation \ {config[r].key} # {}
    \/ /\ authority # None
       /\ \/ authority.key # config[r].key
          \/ authority.algorithm # config[r].algorithm

\* Replicas that lose a race, crash or miss an answer come up all the same,
\* unless their configuration contradicts the database.
EveryReplicaServes ==
    \A r \in Replicas : <>[](pc[r] = "serving" \/ Mismatched(r))
=============================================================================
