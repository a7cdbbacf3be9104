# Specifications of dashboard-site

TLA+ models of the stateful parts of the dashboard server (`src/internal`, Go),
the TLC configurations that check them on small instances, and TLAPS proofs of
the properties that matter most for every value of the constants.

The server is one Go process, deployed in one or more replicas that share a
PostgreSQL database, a Redis and the external systems: cert-manager (or a CA of
its own in the database), an OPNsense router, Prometheus and an OpenID Connect
provider. Every HTTP handler runs concurrently with every other one and with the
background jobs. Almost nothing is done under a transaction that spans more than
one decision, so what is correct rests on the order in which statements and
calls happen. That is what the models keep, one action per database statement or
external call; payloads, formats and cryptography are abstracted away.

## 1. Inventory

### Components

| Component | Source (under `src/internal`) | State | Operations |
|---|---|---|---|
| Leader election | `distributed/election.go` | a Redis key with a time to live; `isLeader` per replica | campaign (SET NX, GET, EXPIRE), resign, restart |
| Job manager | `jobs/job_manager.go` | `cancelFuncs`, wait group, job goroutines | start, monitor leadership, start/stop leader jobs, shutdown |
| Server lifecycle | `server/server.go` | the server's context | listen failure, signal, shutdown |
| Certificate requests | `handlers/handler_certificate_request.go`, `storage/certificate_queries.go` | tables `certificate_requests`, `certificate_events` | request, auto-approve, review |
| Certificate jobs | `jobs/certificate_creation_job.go`, `jobs/certificate_status_job.go` | a batch read from the table, the request being worked on | reserve, look up, create, roll back, record; poll, publish |
| Certificate providers | `services/certificate/*` | cert-manager's Certificates and Secrets, or table rows | find, create, check readiness |
| Certificate download | `handlers/handler_certificate_download.go`, `storage/audit_queries.go` | one-time tokens, table `certificate_downloads` | unlock, redeem, audit, deliver |
| Key-value cache | `data/cache_provider.go`, `data/mem_cache_provider.go`, `data/redis_cache_provider.go` | keys with a lifetime, per replica or in Redis | SetKey, GetDelKey, expiry |
| Firewall whitelist | `handlers/handler_firewall_aliases.go`, `storage/firewall_ip_whitelist_queries.go` | table `firewall_ip_whitelist_entries` | add, remove, blacklist |
| Firewall jobs and router | `jobs/firewall_*_job.go`, `services/firewall/router_client.go` | the router's alias, configured and applied | expire, compare, set, reconfigure |
| Service accounts | `handlers/handler_service_accounts.go`, `storage/service_account_queries.go`, `middlewares/require_auth.go` | tables `service_accounts`, `service_account_scopes` | create, pause, unpause, delete, authenticate |
| Sessions and login | `authentication/*`, `handlers/handler_oidc_*.go`, `handlers/handler_logout.go`, `storage/user_queries.go` | session store, OIDC state, nonce and verifier, table `user_groups` | login, callback, logout, expiry |
| Startup | `storage/database.go`, `storage/certificate_queries.go`, `services/certificate/database_certificate_provider.go` | schema version, system user, CA, encryption key | migrate, bootstrap, validate |
| Metric data | `data/service.go`, `jobs/data_fetch_job.go`, `handlers/handler_data.go` | cached query results, each with the rule of who may read it | fetch, cache, answer |
| Configuration, authorization table, routing and rate limits, cryptography, frontend | `config`, `authorization`, `middlewares`, `utils`, `web` | none that these properties depend on | - |

### Interactions

* The **election** of a replica is read by its **job manager** every five
  seconds; the manager starts the jobs when leadership was gained and cancels
  them when it was lost, without waiting for them. The certificate jobs pass the
  application's context, not their own, to their calls, and go on with their
  batch; the calls of the other jobs fail from then on, except those under way. So
  two incarnations of a job may run at once, in one replica or in two, and every
  job is modelled with overlapping incarnations.
* **Handlers and jobs** meet only in the database tables. Handlers read a row,
  decide, and write it with an `UPDATE ... WHERE id = $1` that repeats none of the
  conditions; the jobs read a batch and work through it.
* The **certificate jobs** call a provider, the **firewall jobs** the router;
  both are changed by nobody else, and a call may fail, or take effect although
  its answer is lost.
* The **download** handlers meet through a token in the **cache**, in a process
  of their own or in Redis, and through the certificate row.
* The **middleware** gives every request a principal before its handler runs: the
  user of its **session**, as loaded when the request arrived, or a **service
  account**, as two queries found it. What either says is not read again.
* Requests of one session meet in the **session store** only: each works on a copy
  and the one answered last has written the session. Logins of one user meet in
  `user_groups`.
* **Replicas** that start at once meet in the tables they create. Afterwards a job
  goes on with the system user it read at the beginning of its batch, while a
  replica that starts with another external URL may move that user, which the
  firewall sync notices when it reads the events with the entries.
* The **metric job** of the leader and the **handlers** of every replica meet in the
  cache of results, across deployments when it is Redis.

### What is hard here, and what makes each part correct

| Component | Hard behaviour | Correct means |
|---|---|---|
| Election | the key expires between two commands; lost answers; processes that end or come back under the same name; a leader that cannot reach Redis still believes that it leads | no job runs on two replicas while campaigns are timely; somebody leads again and again |
| Job manager | flips between two samples, jobs that fail, a shutdown that races the monitor | no job runs twice unstopped; jobs follow leadership; shutdown ends, and cleanly only when nothing runs |
| Certificate requests and jobs | stale checks, overlapping jobs, crash between the provider's call and the database's, lost answers and retries | no certificate without a grant; at most one per request; a row records a certificate that exists; an approved request is issued |
| Download | the token is used before the steps that can fail; two replicas; withdrawn scopes | a token works once; a key that leaves is in the audit log; withdrawn scopes stop requests that come later |
| Service accounts | an account changes between the two queries of an authentication and the check; an unpause that overlaps a deletion; a creation that fails half way | authentication looks atomic; a token grants what its creator had; a deletion is final |
| Sessions | whole sessions written back from stale copies, a callback asked for twice, groups that go through a shared table, tokens that expire before their session | a logout sticks; a login gets its groups; nobody is stuck for good |
| Startup | races for the migrations, the key's validation row and the first authority; crashes between statements; a changed URL | migrations whole, one authority, events follow the system user, every replica comes up |
| Metric data | results and rules of an older configuration cached late, by a SET that outlives its process too; a failing query; a cache that is missing | a new rule is reached, stands, and is obeyed from then on |
| Firewall | checks before the insert, stale batches, whole-content writes from stale reads, a call made of two requests, events whose author is gone | no entry twice, no revival, only requested addresses reach the router; the firewall ends up with what is wanted |

All the hazards, each with its line and the property about it, are in
`PROJECT.json` under `hazards`.

## 2. Modules

| Module | Models | Checked by | Proved in |
|---|---|---|---|
| `CertificateIssuance` | the abstract promise of the certificate feature | `cert_safety` (as a refinement) | `CertificateLifecycle_proofs` |
| `AddressWhitelist` | the abstract promise of the whitelist of an alias | `fw_replicas` (as a refinement) | `FirewallWhitelist_proofs` |
| `OneTimeDelivery` | the abstract promise of the download of a key | `download_replicas` (as a refinement) | `CertificateDownload_proofs` |
| `CertificateLifecycle` | requests, reviews, both certificate jobs, both providers | `cert_*` | `CertificateLifecycle_proofs` |
| `LeaderElection` | the Redis election | `leader_replicas` | `Leadership_proofs` |
| `JobManager` | monitor, goroutines, shutdown of one replica | `jobs_replica` | `Leadership_proofs` |
| `LeaderJobs` | the election and the managers of all replicas together | `leader_replicas` | `Leadership_proofs` |
| `FirewallWhitelist` | one alias: handlers, both jobs, the router | `fw_*` | `FirewallWhitelist_proofs` |
| `CertificateDownload` | unlocking, tokens, cache, download, audit | `download_replicas` | `CertificateDownload_proofs` |
| `ServiceAccounts` | accounts, their management and their authentication | `accounts` | `ServiceAccounts_proofs` |
| `Sessions` | logins, callbacks, logouts, the session store | `sessions` | `Sessions_proofs` |
| `Startup` | migrations, system user, encryption key and authority of several replicas | `startup` | `Startup_proofs` |
| `MetricData` | the fetch job, the cache of results and the handlers that answer from it | `metrics` | `MetricData_proofs` |

Each `MC_*` module extends a component's module with the functions that its
configurations assign to `Owner`, `Ip` and the like. Definitions preceded by
"A faulty ..." are not part of any specification: they are the mutations with
which `PROJECT.json` shows that each property can be broken by a plausible bug.

### CertificateLifecycle

Variables `status`, `requestedAt`, `certificateIdentifier`, `certificatePem` are
columns of `certificate_requests`, `events` the rows of `certificate_events` as a
set per request. `certs` and `ready` are the provider's: which request each name
was created for, and which of them are ready. `posting`, `review`, `creator` and
`checker` hold what a handler or a job has read and will use in a later step.

| Action | Code |
|---|---|
| `CreateCertificateRequest`, `AutoApprove` | `POSTCertificateRequest`: the insert, then the automatic approval in a statement of its own that may fail |
| `ReviewCheck`, `ReviewUpdate` | `POSTCertificateReview`: every check on the row read first, the update later |
| `GetApprovedCertificateRequests`, `CreatorReserve`, `CreatorLookup`, `CreatorCreate`, `CreatorRollback`, `UpdateCertificateMetadata` | `certificate_creation_job.go`, one request of the batch after the other |
| `GetPendingCertificateRequests`, `CheckerCheck`, `UpdateCertificateRequestIssued` | `certificate_status_job.go`: a batch of pairs of request and identifier, a check, the copy of the PEM |
| `IssuerReady`, `Tick`, `Crash` | the provider, the clock, the end of a process at any point |

A name is a pair of owner and second: both are hashed in `util.go`, and two
requests of one owner in one second do share their name. The database provider
names after `time.Now()`, cert-manager's after `requested_at`.

### LeaderElection

`holder` and `left` are the Redis key and its remaining time to live, `isLeader`
the field of each replica's `Election`, `pc` and `age` where its campaign stands
and when it began. One action per Redis command; `SetNX` covers both outcomes
and both kinds of failure. Time is relative, so the state space is finite without
a bound on the clock. `Slack` bounds how late a campaign starts and how long it
takes: this is the assumption under which leases are safe at all, and `Tick` is
disabled when it would be broken. `Timely` is what the safety property needs on top:
the key outlives the campaigns that have failed so far, and no replica has found
the key of a process of its own name that ended (`inherited`). Without it two
replicas may lead; `SplitEnds` of `LeaderJobs` says that it never lasts.

### JobManager

`cancelFuncs` is the map of that name; `live` and `ending` count the goroutines of
each job whose context is not, or is, cancelled. `MonitorAsks` and `MonitorActs`
are two steps because the answer of `IsLeader` may be old when it is acted upon.
`LeadershipChanges` lets the election change its mind at any time: the module is
about every sequence of leadership, not only those the election produces. Its names
differ from those of `LeaderElection`, since `Leadership_proofs` extends both.

### LeaderJobs

Extends `LeaderElection` with the managers of all replicas. `heard` is the answer of
`IsLeader` a monitor holds, `acted` its `wasLeader`, `runners` the replicas whose jobs run
with a context that nobody cancelled. The jobs of a replica are started and stopped
together, as `JobManager` shows in detail, so one bit stands for them; a job that was
told to stop and finishes what it is doing is not counted, and what such a job may
still do is in the modules of the jobs, where incarnations overlap.

| Action | Code |
|---|---|
| `ElectionStep` | the actions of `LeaderElection` |
| `AskIsLeader`, `Obey` | the two halves of a tick of `monitorLeadership`; `IsLeader` waits for the mutex that `campaign` holds from its GET on |
| `StopOnSignal` | `Shutdown`, after which election and monitor go on |
| `ContextEnds`, `ProcessEnds` | the cancelled context, the resignation or the end without one |

### FirewallWhitelist

`status` and `expired` are columns; `adding` and `removing` are the requests between
two of their statements; `expirer` and `sync` hold what each incarnation of a job
has read. `alias` is what the router has configured and `applied` what its packet
filter uses: `set_item` changes the first, `reconfigure` copies it to the second.
`Interrupted` is the state in which the two differ and nobody is left to call
`reconfigure`. `issuer` is that of the system user's row, `signers` the issuers under
which the events on entries name that user, `acting` and the `signs` of a sync the
issuer a job read at its beginning. Events of one alias matter to the syncs of all,
since each reads all: a deployment may start with some on entries of other aliases.
Otherwise no statement or call relates two aliases, and one is modelled.
`deployment` says which incarnations take part and what may fail, how often.

| Action | Code |
|---|---|
| `AddChecksBlacklist`, `AddCountsUser`, `AddCountsTotal`, `AddIPToWhitelist` | `POSTAddIPEntry`: three reads and a transaction; its duplicate check and its insert are one action, because the unique index of migration 003 decides in any case |
| `RemoveChecks`, `RemoveIPFromWhitelist`, `Blacklist` | the two DELETE handlers; concurrent DELETEs of one entry are one, as the second writes what the first did |
| `ExpireSelects`, `ExpireUpdates` | `firewall_expiration_job.go` and the two statements of `ExpireOldIPs` |
| `SyncReadsAlias`, `SyncReadsEntries`, `SyncPanics` | `firewall_sync_job.go`: the system user and the alias; `GetAllWhitelistEntries` with the events, which dereferences the NULL name of an author that no row of `users` has, so that the process ends |
| `MarkIPsAsAdded`, `SyncCompares`, `SyncSets`, `SyncReconfigures` | the marking of what is pending, address by address, and the three requests of `UpdateAlias` |
| `EnsureSystemUser` | a start with another external URL, which moves the row and no event on an entry |
| `Expire`, `Crash` | the clock, the end of a process |

### CertificateDownload

`kv` says in which store each token's key is, `left` how long it is still valid,
`dl` where each download request stands and what it carries. The principal and
its scopes are read when a request is authenticated, as the middleware does, and
not again. `Timer` deletes a key some time after it expired, as the timer of the
memory cache and Redis do. `backend` chooses the cache at start.

### ServiceAccounts

`row` holds an account's columns and scopes, `granted` the scopes of each user's
current session and `ever` all that its sessions had. `manage` is where each request
of the cookie routes stands and what it has read, `call` the same of each request
with a bearer token. `witness` records, for each such call, whether its account was
valid at each moment since it arrived; it is what the properties compare the
answer with.

| Action | Code |
|---|---|
| `POSTServiceAccount`, `InsertAccount`, `InsertScopes`, `Commit`, `HandOutToken` | the handler's checks, the transaction of `CreateServiceAccount`, the re-read and the answer with the token |
| `ManageRead`, `ManageUpdate` | `GetServiceAccountByID` and the checks; the update, which repeats only `deleted_at IS NULL` |
| `Arrive`, `QueryRow`, `QueryScopes`, `VerifyServiceAccount`, `CallAnswered` | `OptionalAuth` and `RequireAuth`, the two queries of `GetServiceAccountByLookupId`, the checks, the answer |
| `SessionScopes`, `Tick` | a login with other groups, the clock |

### Sessions

`store` is the session store, `cookie` the token each browser sends, `req` the requests
in flight, each with the copy of the session it loaded. `login` is what the provider
knows of each visit to the login endpoint; its name stands for the state, the
verifier, the nonce and the code, which are set together. `provider` and `db` are the
groups of a user there and in `user_groups`. Times are the ticks that are left.

| Action | Code |
|---|---|
| `GETLoginHandler` | refuses who is authenticated, else writes a new state |
| `HandleCallback`, `Exchange`, `FetchUserInfo`, `UpsertUser`, `CreateSession` | the callback: state checked and cleared, code redeemed, user info, groups replaced, user read back, session filled |
| `POSTLogoutHandler`, `Logout` | the check on the loaded session, the deletion |
| `Save` | the session library: the copy is written back when the request is answered |
| `Grant`, `ChangeGroups`, `Tick` | the provider, the clock |

### Startup

`schema` is the set of migrations whose statements are in effect, `recorded` the
table `schema_migrations`. `system` is the issuer of the system user, `references`
the issuers under which events name it, `validation` the keys that rows of
`encryption` were written with, `authority` the row of `certificate_authority`.
`pc`, `next`, `held` and `caCert` belong to a process and are lost with it. A
transaction takes effect in its last step; the statements of a migration wait for a
concurrent run of the same, as the locks of PostgreSQL on catalog rows make them.
`Deploy` stops a replica to start it with another key, algorithm or URL.

### MetricData

`cache` maps a query to the configuration its entry was fetched under, which decides
the rule the entry carries; 0 is no entry. With `type` memory each replica has its
own. `todo` and `result` are the round of a job that runs, `wanted` and `answer` an
answer that is being written, entry by entry. `late` holds the SETs that were sent
to Redis and whose sender waits for them no more, because the call failed, the job's
context was cancelled or the process ended: each arrives once, at any time, or
never. `attached` are the replicas whose cache could be had at startup:
`ExecuteQueries` of one that is not ends the process, since its test for nil does
not see a nil `*RedisCache` in the interface. `Deploy` stops a replica to start it
with the next configuration.

## 3. Runs

| Run | Question | Bounds |
|---|---|---|
| `cert_safety` | Do only granted requests get a certificate, each at most one; do rows record what exists; does a settled rejection stand; does the whole implement `CertificateIssuance`? | two requests of one user, one of them reviewer, so names collide, self-review is refused and approval is automatic; two seconds; cert-manager; two failures of any kind |
| `cert_live` | Is no reservation left behind, except by a failure on record, and every approved request issued? | two incarnations of both jobs on one request, two reviewers, two failures of any kind |
| `cert_v_reuse` | Does a retry with the database provider find the certificate? No | one request, three seconds, one lost answer |
| `leader_replicas` | Does no job run on two replicas, does somebody lead again and again, and does no split last? | two replicas with their monitors, TTL 8 ticks, a tick of slack, two failed commands, a process that ends and may return under its name |
| `jobs_replica` | Do jobs follow leadership, run once, and stop? | one good and one failing job, three goroutines per job, any leadership, with and without an election |
| `fw_replicas` | One active entry, no revival, blacklist stands, expired entries go, the firewall ends up with what is wanted; does the whole implement `AddressWhitelist`, which lets in only requested addresses? | two entries of one owner for one address, a foreign address, and two deployments: two incarnations of the jobs and one failure of any kind but a changed URL, with events on entries of another alias; one incarnation and two failures, of which one may be a start with another of two external URLs |
| `fw_v_limits` | Are the limits kept? No | two requests of one owner, limit one |
| `download_replicas` | Does a token work once, is every delivery logged, do withdrawn scopes stop, do tokens leave the cache; does the whole implement `OneTimeDelivery`? | one token, two downloads, two replicas, either cache, one failure or lost answer |
| `accounts` | Is authentication atomic, within the grant, and deletion final? | two users, two scopes, one account, two management requests, one call, two moments, one failure |
| `sessions` | Does a logout stick, does a login get its groups, does everybody get out of an expired session? | one user with two browsers, two logins, two session tokens, two requests, one failure |
| `startup` | Are migrations whole, is there one authority, do events follow, does every replica come up? | two replicas, two migrations, two keys and algorithms, three URLs, one redeployment, one crash or lost answer |
| `metrics` | Is a new rule reached, does it stand, and is whoever it excludes sent that query no more? | two replicas, three queries (narrowed, switched off, always refused), a reader whom the narrowed rule excludes, two configurations, one fault |

The bounds are small but chosen so that every pair of actors that can conflict is
there. Conflicts here are between two: two reviewers, two incarnations of a job,
two requests for one limit, two downloads of one token, two replicas of which one
still runs jobs while the other is elected. Two failures matter for
certificates, where the rollback of a failed creation may fail as well, and in the
election, where the key outlives one failed campaign and not two. For the whitelist
the second failure goes with a changed URL, which alone stops every sync; elsewhere
one failure already stops a handler or ends a tick. Three URLs are the least with which
two starts can overtake a third between its two statements, one configuration after
the first the least with which a late result is out of date. What the bounds cannot show
for larger instances the proofs of section 4 do, for the safety properties.

Bounds named in the modules: `MaxTime` (the clock, of certificates and accounts),
`MaxFaults`, `MaxExits`, `MaxDeployments`, `MaxGoroutines` (guards that keep
counters finite), and `Slack` (timing). `MaxGoroutines` only delays a start of jobs
until an old goroutine has returned.

`CHECK_DEADLOCK FALSE` is said where the system may stop: when all requests are
done and the clock has reached its bound, after the process has ended, when every
download was answered, and when replicas serve, or cannot, and nothing is left to
deploy or to fetch.

### What the violated runs show

* **`cert_v_reuse`.** The database provider names a certificate after the time of
  the creation, the job looks for the name derived from `requested_at`. A creation
  whose answer was lost is retried and makes a second certificate, against the
  comment at `certificate_creation_job.go:116`.
* **`fw_v_limits`.** `AddIPToWhitelist` promises to "atomically check limits and insert"
  (`firewall_ip_whitelist_queries.go:14`). It counts and compares the counts with
  nothing; the comparison is in the handler, before the transaction.

### Known divergences without a run of their own

* When `UpdateCertificateMetadata` fails, the creation job logs that the status job
  "will eventually detect this certificate" (`certificate_creation_job.go:156`). It
  never does: its query returns only rows that have an identifier, and the row
  stays pending without one. A crash at the same place has the same effect, and so
  has a rollback that fails. `Excused` of `CertificateLifecycle` says of which requests
  this is so.
* When `set_item` succeeds and `reconfigure` fails (`router_client.go:185`), the
  alias reads as wanted. Later ticks find no difference and call nothing, and the
  entry, marked added before the router was called, is let in only after some other
  change. `FirewallFollowsWhitelist` names this state `Interrupted`.
* Two reviewers that both read `awaiting_review` both write; the later one wins,
  also over a rejection. The rollback of the creation job writes `approved`, which is
  no transition of `validTransitions` (`models/certificate.go:62-68`) from `pending`.
  `RejectionStands` therefore speaks of rejections that nobody in flight can
  overwrite.
* Two requests of one owner in one second have one name (`util.go:11-13`). The second
  adopts the certificate of the first; `RecordsRealCertificate` says that it is
  at least one of the same owner.
* A creation job that has reserved a request and whose lookup fails, or finds a
  certificate that is not ready yet, goes on with the next one without a rollback:
  the row stays pending without an identifier, as above.
* With the database provider two overlapping creation jobs make two certificates
  of one request, and the second identifier may be recorded while the status job
  publishes the PEM of the first. `PemMatchesIdentifier` holds for cert-manager only.
* A leader that cannot reach Redis goes on leading while another is elected, since
  an error of SET NX leaves `isLeader` alone. `Timely` excludes it, by bounding the
  number of failed commands; `SplitEnds` says that it passes.
* A replica restarted under its hostname takes the key of its predecessor for its
  own, and the key may expire before it is extended: two lead until one reads the
  key again. `Timely` excludes it, `SplitEnds` covers it.
* On a signal the monitor's context is not cancelled, and `Shutdown` returns only
  through its thirty-second limit. `CleanShutdown` states it precisely.
* An address may be blacklisted between the check of a POST and its insert, and
  a removal or an expiry that was under way overwrites the blacklisting.
  `BlacklistStands` speaks of addresses with nothing in flight.
* A session whose ID token has expired is unauthenticated for the status and the
  logout handler, and authenticated for the login handler, which starts no login.
  The middleware's `GetUser` (`session.go:86`) does not look at the expiry at all and
  accepts its user. `StuckEnds` says that the session's own lifetime ends it.
* A visit to the login endpoint that overlaps a callback writes back a session
  without the login that was just completed; the user has to log in once more.
* A change of the external URL moves the system user's certificate requests and
  events, not the rows of the firewall tables that name it (`database.go:191-221`), and
  misses events that a job writes later for the issuer it read before. Migration
  002 drops the foreign keys that would refuse these.
* After such a change the leader cannot sync the firewall. `GetAllWhitelistEntries`
  joins the author of each event from the left
  (`firewall_ip_whitelist_queries.go:296-298`) and dereferences the name (lines
  380-381), which is NULL for an event of the issuer that was moved. The job has no
  `recover`, so the process ends, at each tick of each leader, until the URL is what
  it was. `SyncPanics` models it, and the two liveness properties of the whitelist
  ask that it is so no more from some time on (`<>[]~Dangling`); safety, with the
  refinement, holds throughout.
* A Redis that is away at startup is logged, and the nil pointer that is left in the
  interface (`server.go:318`) passes the tests for nil. The first round of the job
  panics, which ends the process; in a handler the recovery middleware catches it.
* The repository's `README.md:33` speaks of "TTL-based caching". A query's TTL is
  read and only logged (`service.go:115-123`); entries in Redis have no expiry, and
  that of a query that is disabled or removed is shown for good.
* The case of a range query declares an `err` of its own (`service.go:75`), so an error
  of the query itself (`service.go:94`) is not reported: the nil result is, and it is
  left out of the cache, as the model does for every failed query.
* With the memory cache and an election only the leader's cache is filled: the other
  replicas answer with nothing, or with what they fetched when they led.
* The commit of a new service account may succeed and its answer be lost: the account
  exists, and its token was handed to nobody (`service_account_queries.go:43`).
* The status code of the router's second GET is not checked before its body is used
  as the alias (`router_client.go:104`).
* `Sessions.DurationSource` is validated (`config.go:388-397`) and used nowhere.

### Fairness

Weak fairness is assumed of what the runtime schedules: the tickers of jobs and of
the monitor, a handler that has begun (Go runs every goroutine to its end, and the
drivers have timeouts), timers, the clock where there is one, and a provider that
makes a certificate ready. Nobody is obliged to request, review, remove,
blacklist or signal; no ended process is obliged to return, but for the two modules
named below. The one strong
fairness is on `MonitorEnds`: Go's `select` chooses at random among ready cases, so
it does not prefer the ticker to a context that is done for ever. No action that
fails is ever made fair; failures are bounded by `MaxFaults`, which says that they
are finite in number, and not when they occur.

`Startup` and `MetricData` assume besides that the deployment starts a process that
has ended, as Kubernetes does for the Deployment in `helm/templates` (the compose file
is for development and restarts only what the dashboard depends on), and
`MetricData` that some replica leads where none does, which is `SomebodyLeads` of
`LeaderElection`. `EveryReplicaServes` and `NewRuleIsReached` fail without. Logins,
deployments, requests and losses of leadership are never fair. `Sessions` is fair to
the clock only, and `LeaderJobs` to the clock, the campaigns, the monitors and the first
start of each replica.

`cert_live` includes the failures that the code does not repair: a failed lookup,
rollback or metadata update, a creation whose answer was lost, a crash. They are
recorded in `abandoned`, for the requests that the job had in hand, and both
properties of the run excuse those requests and no others; a run without any one of
these excuses finds the reservation that stays behind. It has no moving clock: a
bounded clock that stops would make two requests share a second for ever, which no
real clock does. So liveness of certificates is checked for cert-manager, whose
names do not depend on the time of the creation. All liveness properties are checked
with every failure their module has.

## 4. Proofs

Every module of a component states a type invariant, `TypeOK` (`JobsTypeOK` and
`ManagersTypeOK` where a proof module extends two). The theorems `TypeCorrect`,
`JobsTypeCorrect` and `ClusterTypeCorrect` prove them for every value of the constants,
so no run repeats them. Every invariant, action property and refinement that a run
checks is proved as well; what the runs alone show is liveness.

All are checked by TLAPS for every value of the constants that satisfies the
module's named assumption, which says no more than the types of the constants and
that markers such as `None` are no data.

| Module | Theorem | States |
|---|---|---|
| `CertificateLifecycle_proofs` | `TypeCorrect` | `TypeOK` |
| | `Approval` | no certificate without a grant by somebody entitled |
| | `Records` | rows record certificates that exist, of the row's owner |
| | `OneCertificate` | cert-manager: no request ever gets a second certificate |
| | `PemMatches` | cert-manager: a row's PEM is that of the certificate its identifier names |
| | `RejectionsStand` | a settled rejection stands |
| | `NoOrphans` | either provider, any failures: every reservation is in the hands of a job, unless a recorded failure left it behind or another request has its name |
| | `Implementation` | the model implements `CertificateIssuance` |
| `Leadership_proofs` | `TypeCorrect`, `AtMostOne` | `Timely` implies at most one leader |
| | `JobsTypeCorrect`, `OneRun`, `Shutdown`, `RunAsElected` | no job twice; a clean shutdown leaves nothing; without an election the jobs run, and with one none runs on that its monitor would not stop |
| | `ClusterTypeCorrect`, `RunOnce` | `Timely` implies that no job runs on two replicas |
| `FirewallWhitelist_proofs` | `TypeCorrect`, `OneActive`, `NeverRevived`, `OnlyRequested`, `BlacklistsStand` | the safety properties of the whitelist |
| | `Implementation` | the model implements `AddressWhitelist` |
| `CertificateDownload_proofs` | `TypeCorrect`, `OneTime`, `Accounted`, `WithdrawnStops` | the safety properties of the download |
| | `Implementation` | the model implements `OneTimeDelivery` |
| `ServiceAccounts_proofs` | `TypeCorrect`, `Atomic`, `Granted`, `Deletion` | the properties of accounts and their authentication |
| `Sessions_proofs` | `TypeCorrect`, `LogoutIsFinal`, `GroupsOfTheLogin` | a logout is not undone; a login that no other overlaps gets its groups |
| `Startup_proofs` | `TypeCorrect`, `Whole`, `SameAuthority`, `ReferencesFollow` | the safety properties of the startup |
| `MetricData_proofs` | `TypeCorrect`, `RuleStands` | a rule that was rolled out everywhere is displaced by SETs only that were in flight before, each once |

Few of the properties are inductive alone. The arguments:

* **Certificates.** `ControlInv` says what a handler or a job has in hand at each of
  its steps. `ApprovalInv` adds that every request in the hands of a creation job,
  however stale its batch, was granted: its events, of which none is ever removed,
  hold an approval by an entitled reviewer or the automatic one. `RecordsInv` says
  that an identifier in a row or in a job's hand names an existing certificate of
  the same owner. `NamedInv` says that under cert-manager a certificate carries the
  name computed from its request, which is fixed with the row; two certificates of a
  request would have one name. `RowsNamed`, `CreatorNamed` and `CheckerNamed` extend
  that to every identifier a row records or a job holds. For `NoOrphans`, `HandsInv`
  says that a job between two requests has none in hand, `AtOnceInv` that the
  database provider's certificates are ready at once, and `UnreadyInv` that under
  cert-manager a certificate which is neither ready nor recorded is with the job
  that just made it: so a job that finds it and goes on leaves the reservation to
  somebody. The last holds of every request but those that a recorded failure or a
  shared name excuses, and an excuse, once given, stays (`ExcuseStays`). For the
  refinement, `granted` is the set of requests with an approving event, `made` is
  `certs` and `published` is `certificatePem`; every action is one abstract step or
  a stutter.
* **Election.** `LeaseInv`: while the election is `Timely`, a leader holds the key, and
  the key's remaining time plus the time since the holder's campaign began, plus
  `Reach` for each command that failed so far and for a campaign that has not
  extended the key yet, is never below its time to live. So the key cannot expire
  under a running leader (`KeyOutlives`), nor leave one (`HolderStays`).
* **Job manager.** `OneLiveRun` is inductive with the types: an uncancelled
  goroutine has an entry in the map. `MonitorInv` adds that a monitor ends only after
  the server's context was cancelled, `ElectedInv` that a process which has not started
  runs nothing and that without an election there is no monitor.
* **Leader's jobs.** Whatever the managers do is a stutter of the election or one of its
  ends (`ClusterElects`), so what is proved of it holds here. At most one leader does
  not suffice: a replica whose GET failed no longer leads, and its jobs run on until
  the monitor looks. `RunnersInv` says of everybody who runs jobs, or has heard that it
  leads, that the key is theirs all the same; `HolderStays` says that it stays so.
* **Firewall.** `HeldInv`: a POST is about an entry that does not exist, a DELETE
  and an expiry about one that does. `SyncInv`: each sync knows every foreign
  address that is still in the alias, because none can have come back after it read
  it. `StatusStep` reduces the actions to four ways of changing statuses. None of
  these rests on the syncs reading the events: a sync that panics knows as little as
  an idle one. For blacklists, every entry at rest under a blacklisted address stays
  at rest. In the refinement an entry is active while `requested` or `added` and has
  ended from then on: `HeldInv` is why an INSERT maps to `Admit` and a removal to
  `End`, although neither looks at the status again, and `SyncInv` why a `set_item`
  maps to `Configure` and a `reconfigure` to `Apply`.
* **Download.** `TokenInv`: a key is in one store at most, and in none once a request
  that goes on has redeemed it; such a request has passed all checks before
  the call it waits for. In the refinement a token is live while some store has its
  key, and a request is held from its redemption to its answer; `TokenInv` is why a
  request redeems for the principal the token was granted to, and why what it delivers
  was logged.
* **Service accounts.** `ManageInv`: a creating request has its account to itself and
  asks for scopes its user has had; every other one works on an account that is
  there. `RowsGrow`: no step changes the creator, scopes or expiry of a row, nor
  anything of a deleted one. `CallInv` relates what a call has read to `witness`: the
  row was read at a moment after the arrival, its scopes cannot have changed since,
  and a row that does not pass now because of its expiry has expired now.
* **Sessions.** `DataInv`: who has logged in has no other login under way. `LoginInv`: a
  login that was redeemed is with its callback, or in one session, or in the copy of
  the one request that will write it, so what a logout deletes has no other copy.
  It rests on the state leaving the session before the code is used and on the code
  working once. `AloneInv`: the table holds what a login wrote there as long as no
  other of its user overlaps it.
* **Startup.** `ProgressInv`: the migrations before the one a replica is at are
  recorded, so whoever is past them has them all. `OneAuthority` is inductive with
  the types, because the row is never changed once it is there. `ReferencesFollow` goes
  through the writes of events one by one.
* **Metric data.** `TypeOK` carries what the step-wise proofs need: a result in hand is
  that of a query of its round. `NewRuleStands` rests on configurations only moving up:
  once all replicas have the last one, whatever a job still writes, or leaves behind
  for Redis, was fetched under it, and an older entry comes from `late` alone.

Left to TLC: the liveness properties `SomebodyLeads`, `SplitEnds`,
`JobsFollowLeadership`, `ShutdownEnds`, `FirewallFollowsWhitelist`,
`ExpiredIsRemoved`, `ApprovedIsIssued`, `TokensLeave`, `StuckEnds`,
`EveryReplicaServes`, `NewRuleIsReached` and `NewRuleIsObeyed`. The prover decides
neither ENABLED nor fairness, cannot instantiate the induction theorems over data,
and loses its arithmetic backend with recursive operators; the modules therefore
have none.

## 5. Not modelled, and the plan

Not modelled: the configuration (read and validated once, no state afterwards),
routing and rate limits (no state these properties speak of), the frontend and
deployment, and the contents of certificates, keys, archives and query results.
Scopes enter as sets that change; the mapping from groups to scopes does not, nor do
the hashes of tokens. The body of an error answer by the router is not modelled.
`BlacklistIP` and `GetPendingIPs`, `DisableServiceAccount` and
`EnableServiceAccount` have no caller. The answer of an `UPDATE` or a commit may be
lost although it took effect: this is modelled where what follows depends on it
(`createLost`, `setLost`, `mark`, the statements of the startup, the creation of
accounts), and not of the other updates of certificate requests and whitelist
entries. An event is inserted with the `UPDATE` it tells of, as one action. The
expiration job fails by a crash only: an error before its update is a tick that did
not happen. A query that hangs for ever, for which the metrics client sets no time
limit, is outside `MetricData`, whose queries end.

Written so far, the most important behaviour first: `CertificateLifecycle` with
`CertificateIssuance`, `LeaderElection` and `JobManager`, composed in `LeaderJobs`,
`FirewallWhitelist` with `AddressWhitelist`, `CertificateDownload` with `OneTimeDelivery`,
`ServiceAccounts`, `Sessions`, `Startup` and `MetricData`, each with its proofs. What is
left, in this order:

1. A bound on `SplitEnds`: how many ticks two replicas may run the jobs.
2. Each manager of `LeaderJobs` shown to implement `JobManager`.
3. Abstract specifications of `Startup`, one authority that everybody agrees on, and of
   `ServiceAccounts`.
4. Pure algorithms: the expansion of groups to scopes against a reference definition.

## 6. Running

    tlc -workers 2 -config MC_CertificateLifecycle_safety.cfg MC_CertificateLifecycle
    tlapm CertificateLifecycle_proofs.tla

Every run ends within about two minutes; the proofs of a module within
a few.
