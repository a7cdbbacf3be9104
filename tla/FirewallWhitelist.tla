------------------------- MODULE FirewallWhitelist --------------------------
(***************************************************************************)
(* The IP whitelist of one firewall alias: the handlers that request,      *)
(* remove and blacklist entries, the leader jobs that expire them and copy *)
(* them to the router, and the router's alias.  One action per database    *)
(* statement or router call.  Of the audit events only those of the system *)
(* user are here, and of them only under which issuer they were written:   *)
(* the sync reads the events with the entries, and ends its process if the *)
(* author of one is not to be found.  In nothing else do aliases interact. *)
(***************************************************************************)
EXTENDS Naturals, FiniteSets

CONSTANTS
    Entries,        \* rows of firewall_ip_whitelist_entries
    Users,          \* owners of entries
    Ips,            \* IP addresses
    Owner,          \* the user each entry belongs to
    Ip,             \* the address each entry is about
    Expiring,       \* entries of an alias with a default time to live
    MaxIPsPerUser,  \* limit of the alias's configuration
    MaxTotalIPs,    \* limit of the alias's configuration
    Foreign,        \* addresses in the alias that nobody requested
    Urls,           \* external URLs, the issuers of the system user
    FirstUrl,       \* the one its row has at first
    Instances,      \* replicas, or incarnations of the jobs in one replica
    Deployments     \* which of them run, and what may fail, how often

\* "setLost" is a set request that took effect although the caller saw an
\* error, "mark" may have failed at its events only, and "url" is a start with
\* another external URL; the others fail without effect.
FaultKinds ==
    {"get", "mark", "set", "setLost", "reconfigure", "crash", "url"}

\* A deployment: the incarnations that take part, the calls that may fail, a
\* bound on the number of failures, and the issuers that events on the entries
\* of other aliases name as their author.
ASSUME WhitelistAssumption ==
    /\ Owner \in [Entries -> Users]
    /\ Ip \in [Entries -> Ips]
    /\ Expiring \subseteq Entries
    /\ MaxIPsPerUser \in Nat /\ MaxTotalIPs \in Nat
    /\ Foreign \subseteq Ips
    /\ FirstUrl \in Urls
    /\ Deployments \subseteq [instances : SUBSET Instances,
                              faults : SUBSET FaultKinds,
                              maxFaults : Nat,
                              signers : SUBSET Urls]

Statuses == {"none", "requested", "added", "removed", "blacklisted_by_admin"}

Active == {"requested", "added"}

VARIABLES
    deployment,  \* the deployment, the same all the time
    status,      \* column status; "none" before the INSERT
    expired,     \* entries whose expires_at has passed
    adding,      \* where each entry's POST stands
    removing,    \* entries with a DELETE between its check and its update
    expirer,     \* the entries each instance's expiration job has selected
    sync,        \* the sync job of each instance
    alias,       \* the router's alias, as configured
    applied,     \* the router's alias, as the firewall applies it
    issuer,      \* the issuer of the system user's row
    signers,     \* the issuers its events on entries name as their author
    acting,      \* the issuer each instance's expiration job will sign with
    faults       \* failures so far

handlers == <<adding, removing>>
router == <<alias, applied>>
events == <<issuer, signers, acting>>
vars == <<deployment, status, expired, handlers, expirer, sync, router,
          events, faults>>

IdleSync == [pc |-> "idle", current |-> {}, desired |-> {}, pending |-> {},
             signs |-> {}]

Init ==
    /\ deployment \in Deployments
    /\ status = [e \in Entries |-> "none"]
    /\ expired = {}
    /\ adding = [e \in Entries |-> "idle"]
    /\ removing = {}
    /\ expirer = [i \in Instances |-> {}]
    /\ sync = [i \in Instances |-> IdleSync]
    /\ alias = Foreign
    /\ applied = Foreign
    /\ issuer = FirstUrl
    /\ signers = deployment.signers
    /\ acting = [i \in Instances |-> {}]
    /\ faults = 0

Fault(kind) ==
    /\ kind \in deployment.faults
    /\ faults < deployment.maxFaults
    /\ faults' = faults + 1

ActiveEntries == {e \in Entries : status[e] \in Active}

OwnedBy(u) == {e \in Entries : Owner[e] = u}

\* The rows of the table.
Inserted == {e \in Entries : status[e] # "none"}

\* CreateWhitelistEvent, by a job that has read these issuers.
Sign(issuers) == signers' = signers \cup issuers

\* An event names an author that is in no row of users.
Dangling == signers \ {issuer} # {}

-----------------------------------------------------------------------------
(* POST /api/v1/firewall/entries: three reads and an insert.               *)

AddGoes(e, step) == adding' = [adding EXCEPT ![e] = step]

IsIPBlacklisted(ip) ==
    \E e \in Entries : Ip[e] = ip /\ status[e] = "blacklisted_by_admin"

\* A faulty POSTAddIPEntry: the blacklist is not consulted.
AddIgnoresBlacklist(e) ==
    /\ status[e] = "none"
    /\ adding[e] = "idle"
    /\ AddGoes(e, "user")
    /\ UNCHANGED <<status, expired, removing, expirer, sync, router, events,
                   faults>>

AddChecksBlacklist(e) ==
    /\ status[e] = "none"
    /\ adding[e] = "idle"
    /\ ~IsIPBlacklisted(Ip[e])
    /\ AddGoes(e, "user")
    /\ UNCHANGED <<status, expired, removing, expirer, sync, router, events,
                   faults>>

AddCountsUser(e) ==
    /\ adding[e] = "user"
    /\ IF Cardinality(ActiveEntries \cap OwnedBy(Owner[e])) < MaxIPsPerUser
       THEN AddGoes(e, "total")
       ELSE AddGoes(e, "idle")
    /\ UNCHANGED <<status, expired, removing, expirer, sync, router, events,
                   faults>>

AddCountsTotal(e) ==
    /\ adding[e] = "total"
    /\ IF Cardinality(ActiveEntries) < MaxTotalIPs
       THEN AddGoes(e, "insert")
       ELSE AddGoes(e, "idle")
    /\ UNCHANGED <<status, expired, removing, expirer, sync, router, events,
                   faults>>

\* A faulty AddIPToWhitelist: its duplicate check overlooks entries that are
\* still requested, and no index makes up for it.
AddDuplicateRequested(e) ==
    /\ adding[e] = "insert"
    /\ AddGoes(e, "idle")
    /\ IF \E f \in Entries : /\ status[f] = "added"
                             /\ Ip[f] = Ip[e] /\ Owner[f] = Owner[e]
       THEN UNCHANGED status
       ELSE status' = [status EXCEPT ![e] = "requested"]
    /\ UNCHANGED <<expired, removing, expirer, sync, router, events,
                   faults>>

\* The transaction counts again and compares the counts with nothing.  It
\* refuses a second active entry of the owner for the address, as the unique
\* index does for what the transaction does not see.
AddIPToWhitelist(e) ==
    /\ adding[e] = "insert"
    /\ AddGoes(e, "idle")
    /\ IF \E f \in ActiveEntries : Ip[f] = Ip[e] /\ Owner[f] = Owner[e]
       THEN UNCHANGED status
       ELSE status' = [status EXCEPT ![e] = "requested"]
    /\ UNCHANGED <<expired, removing, expirer, sync, router, events,
                   faults>>

-----------------------------------------------------------------------------
(* DELETE /api/v1/firewall/entries/{id}, by the owner or an administrator, *)
(* and DELETE .../{id}/blacklist.                                          *)

RemoveChecks(e) ==
    /\ status[e] \in Active
    /\ removing' = removing \cup {e}
    /\ UNCHANGED <<status, expired, adding, expirer, sync, router, events,
                   faults>>

\* UPDATE ... WHERE id = $1, whatever the status has become.
RemoveIPFromWhitelist(e) ==
    /\ e \in removing
    /\ removing' = removing \ {e}
    /\ status' = [status EXCEPT ![e] = "removed"]
    /\ UNCHANGED <<expired, adding, expirer, sync, router, events,
                   faults>>

\* One transaction on every entry of the address that is not blacklisted.
BlacklistIPAddress(ip) ==
    LET ids == {e \in Entries : /\ Ip[e] = ip
                                /\ e \in Inserted
                                /\ status[e] # "blacklisted_by_admin"}
    IN
    /\ ids # {}
    /\ status' = [e \in Entries |-> IF e \in ids THEN "blacklisted_by_admin"
                                                 ELSE status[e]]
    /\ UNCHANGED <<expired, handlers, expirer, sync, router, events,
                   faults>>

\* What the handler saw of the entry it was sent, the transaction sees again.
Blacklist(e) == BlacklistIPAddress(Ip[e])

-----------------------------------------------------------------------------
(* The expiration job: it reads the system user, and ExpireOldIPs selects, *)
(* then updates what it selected whatever its status has become.           *)

ExpireSelects(i) ==
    /\ expirer[i] = {}
    /\ expired \cap ActiveEntries # {}
    /\ expirer' = [expirer EXCEPT ![i] = expired \cap ActiveEntries]
    /\ acting' = [acting EXCEPT ![i] = {issuer}]
    /\ UNCHANGED <<status, expired, handlers, sync, router, issuer, signers,
                   faults>>

ExpirerIdle(i) ==
    /\ expirer' = [expirer EXCEPT ![i] = {}]
    /\ acting' = [acting EXCEPT ![i] = {}]

\* A faulty ExpireOldIPs: an UPDATE with the condition of MarkIPsAsAdded.
ExpireOnlyRequested(i) ==
    /\ expirer[i] # {}
    /\ ExpirerIdle(i)
    /\ status' = [e \in Entries |->
                    IF e \in expirer[i] /\ status[e] = "requested"
                    THEN "removed" ELSE status[e]]
    /\ Sign(acting[i])
    /\ UNCHANGED <<expired, handlers, sync, router, issuer, faults>>

ExpireUpdates(i) ==
    /\ expirer[i] # {}
    /\ ExpirerIdle(i)
    /\ status' = [e \in Entries |-> IF e \in expirer[i] THEN "removed"
                                                        ELSE status[e]]
    /\ Sign(acting[i])
    /\ UNCHANGED <<expired, handlers, sync, router, issuer, faults>>

-----------------------------------------------------------------------------
(* The sync job.                                                           *)

SyncGoes(i, s) == sync' = [sync EXCEPT ![i] = s]

\* GetSystemUser and GetAliasIPs.  An error ends the tick, and changes nothing.
SyncReadsAlias(i) ==
    /\ sync[i] = IdleSync
    /\ SyncGoes(i, [IdleSync EXCEPT !.pc = "entries", !.current = alias,
                                    !.signs = {issuer}])
    /\ UNCHANGED <<status, expired, handlers, expirer, router, events, faults>>

\* A faulty SyncReadsEntries: without the filter on the alias, it takes in
\* addresses that nobody requested for this one.
SyncReadsAllAliases(i) ==
    /\ sync[i].pc = "entries"
    /\ ~Dangling
    /\ SyncGoes(i, [sync[i] EXCEPT
                      !.pc = "mark",
                      !.desired = {Ip[e] : e \in Entries},
                      !.pending = {e \in Entries : status[e] = "requested"}])
    /\ UNCHANGED <<status, expired, handlers, expirer, router, events, faults>>

\* GetAllWhitelistEntries, grouped by address.
SyncReadsEntries(i) ==
    /\ sync[i].pc = "entries"
    /\ ~Dangling
    /\ SyncGoes(i, [sync[i] EXCEPT
                      !.pc = "mark",
                      !.desired = {Ip[e] : e \in ActiveEntries},
                      !.pending = {e \in Entries : status[e] = "requested"}])
    /\ UNCHANGED <<status, expired, handlers, expirer, router, events, faults>>

\* The name of an author that no row of users has is NULL, and dereferenced;
\* nobody recovers from it, and the process ends with both its jobs.
SyncPanics(i) ==
    /\ sync[i].pc = "entries"
    /\ Dangling
    /\ SyncGoes(i, IdleSync)
    /\ ExpirerIdle(i)
    /\ UNCHANGED <<status, expired, handlers, router, issuer, signers, faults>>

\* A faulty MarkIPsAsAdded: an UPDATE that does not look at the status.
MarkWhateverStatus(i, ip) ==
    LET ids == {e \in sync[i].pending : Ip[e] = ip} IN
    /\ sync[i].pc = "mark"
    /\ ids # {}
    /\ SyncGoes(i, [sync[i] EXCEPT !.pending = @ \ ids])
    /\ status' = [e \in Entries |-> IF e \in ids THEN "added" ELSE status[e]]
    /\ Sign(sync[i].signs)
    /\ UNCHANGED <<expired, handlers, expirer, router, issuer, acting, faults>>

\* The pending entries of one address become added, before the router knows,
\* and get an event each; an error is logged and the tick goes on.
MarkIPsAsAdded(i, ip) ==
    LET ids == {e \in sync[i].pending : Ip[e] = ip}
        marked == [e \in Entries |->
                     IF e \in ids /\ status[e] = "requested" THEN "added"
                                                             ELSE status[e]]
    IN
    /\ sync[i].pc = "mark"
    /\ ids # {}
    /\ SyncGoes(i, [sync[i] EXCEPT !.pending = @ \ ids])
    /\ \/ /\ status' = marked
          /\ Sign(sync[i].signs)
          /\ UNCHANGED faults
       \/ /\ Fault("mark")
          /\ status' \in {status, marked}
          /\ UNCHANGED signers
    /\ UNCHANGED <<expired, handlers, expirer, router, issuer, acting>>

\* A faulty comparison: the router is called only to add addresses.
SyncOnlyAdds(i) ==
    LET add == sync[i].desired \ sync[i].current IN
    /\ sync[i].pc = "mark"
    /\ sync[i].pending = {}
    /\ IF add = {}
       THEN SyncGoes(i, IdleSync)
       ELSE SyncGoes(i, [IdleSync EXCEPT !.pc = "set",
                                         !.desired = alias \cup add,
                                         !.signs = sync[i].signs])
    /\ UNCHANGED <<status, expired, handlers, expirer, router, events, faults>>

\* UpdateAlias has failed, and the tick is over.  Every entry gets an event, if
\* there are entries and unless that fails too.
SyncFails(i, kind) ==
    /\ Fault(kind)
    /\ \/ UNCHANGED signers
       \/ Inserted # {} /\ Sign(sync[i].signs)
    /\ SyncGoes(i, IdleSync)

\* The router is called only if the alias that was read differs from what is
\* wanted.  UpdateAlias reads the alias again and changes that.
SyncCompares(i) ==
    LET add == sync[i].desired \ sync[i].current
        remove == sync[i].current \ sync[i].desired
    IN
    /\ sync[i].pc = "mark"
    /\ sync[i].pending = {}
    /\ \/ /\ add = {} /\ remove = {}
          /\ SyncGoes(i, IdleSync)
          /\ UNCHANGED <<signers, faults>>
       \/ /\ add \cup remove # {}
          /\ SyncGoes(i, [IdleSync EXCEPT !.pc = "set",
                             !.desired = (alias \ remove) \cup add,
                             !.signs = sync[i].signs])
          /\ UNCHANGED <<signers, faults>>
       \/ /\ add \cup remove # {}
          /\ SyncFails(i, "get")
    /\ UNCHANGED <<status, expired, handlers, expirer, router, issuer, acting>>

\* POST set_item: the whole content.
SyncSets(i) ==
    /\ sync[i].pc = "set"
    /\ \/ /\ alias' = sync[i].desired
          /\ SyncGoes(i, [IdleSync EXCEPT !.pc = "reconfigure",
                                          !.signs = sync[i].signs])
          /\ UNCHANGED <<signers, faults>>
       \/ SyncFails(i, "set") /\ UNCHANGED alias
       \/ SyncFails(i, "setLost") /\ alias' = sync[i].desired
    /\ UNCHANGED <<status, expired, handlers, expirer, applied, issuer,
                   acting>>

\* POST reconfigure: the firewall applies what is configured by now.
SyncReconfigures(i) ==
    /\ sync[i].pc = "reconfigure"
    /\ \/ /\ applied' = alias
          /\ SyncGoes(i, IdleSync)
          /\ UNCHANGED <<signers, faults>>
       \/ SyncFails(i, "reconfigure") /\ UNCHANGED applied
    /\ UNCHANGED <<status, expired, handlers, expirer, alias, issuer, acting>>

-----------------------------------------------------------------------------
(* The environment.                                                        *)

\* The expiry date of an active entry passes.
Expire(e) ==
    /\ e \in Expiring \ expired
    /\ status[e] \in Active
    /\ expired' = expired \cup {e}
    /\ UNCHANGED <<status, handlers, expirer, sync, router, events,
                   faults>>

\* An instance dies in the middle of its jobs and comes back idle.
Crash(i) ==
    /\ sync[i] # IdleSync \/ expirer[i] # {}
    /\ Fault("crash")
    /\ SyncGoes(i, IdleSync)
    /\ ExpirerIdle(i)
    /\ UNCHANGED <<status, expired, handlers, router, issuer, signers>>

\* A process starts with another external URL: EnsureSystemUser moves the row
\* of the system user, and no event on an entry with it.
EnsureSystemUser(url) ==
    /\ url # issuer
    /\ Fault("url")
    /\ issuer' = url
    /\ UNCHANGED <<status, expired, handlers, expirer, sync, router, signers,
                   acting>>

Add(e) == \/ AddChecksBlacklist(e)
          \/ AddCountsUser(e)
          \/ AddCountsTotal(e)
          \/ AddIPToWhitelist(e)

Remove(e) == RemoveChecks(e) \/ RemoveIPFromWhitelist(e)

ExpirationJob(i) == ExpireSelects(i) \/ ExpireUpdates(i)

SyncJob(i) ==
    \/ SyncReadsAlias(i)
    \/ SyncReadsEntries(i) \/ SyncPanics(i)
    \/ \E ip \in Ips : MarkIPsAsAdded(i, ip)
    \/ SyncCompares(i)
    \/ SyncSets(i)
    \/ SyncReconfigures(i)

Runs(i) == i \in deployment.instances

Next ==
    /\ \/ \E e \in Entries : Add(e) \/ Remove(e) \/ Blacklist(e) \/ Expire(e)
       \/ \E i \in Instances : /\ Runs(i)
                               /\ ExpirationJob(i) \/ SyncJob(i) \/ Crash(i)
       \/ \E url \in Urls : EnsureSystemUser(url)
    /\ UNCHANGED deployment

Spec == Init /\ [][Next]_vars

\* Both jobs run off tickers while their instance leads.  Nobody is obliged to
\* request, remove or blacklist anything.
Fairness ==
    \A i \in Instances :
        /\ WF_vars(Runs(i) /\ ExpirationJob(i) /\ UNCHANGED deployment)
        /\ WF_vars(Runs(i) /\ SyncJob(i) /\ UNCHANGED deployment)

FairSpec == Spec /\ Fairness

-----------------------------------------------------------------------------
(* Properties.                                                             *)

SyncState == [pc : {"idle", "entries", "mark", "set", "reconfigure"},
              current : SUBSET Ips, desired : SUBSET Ips,
              pending : SUBSET Entries, signs : SUBSET Urls]

\* Every variable has the type its column or Go variable has.
TypeOK ==
    /\ deployment \in Deployments
    /\ status \in [Entries -> Statuses]
    /\ expired \subseteq Entries
    /\ adding \in [Entries -> {"idle", "user", "total", "insert"}]
    /\ removing \subseteq Entries
    /\ expirer \in [Instances -> SUBSET Entries]
    /\ sync \in [Instances -> SyncState]
    /\ alias \subseteq Ips /\ applied \subseteq Ips
    /\ issuer \in Urls /\ signers \subseteq Urls
    /\ acting \in [Instances -> SUBSET Urls]
    /\ faults \in 0 .. deployment.maxFaults

\* An owner never has two active entries for one address, whatever requests,
\* removals and syncs race.
OneActiveEntry ==
    \A e, f \in ActiveEntries : Ip[e] = Ip[f] /\ Owner[e] = Owner[f] => e = f

\* An entry that was removed, expired or blacklisted never becomes active
\* again, even if a sync job still holds it as pending.
NoRevival ==
    [][\A e \in Entries : status[e] \in {"removed", "blacklisted_by_admin"}
          => status'[e] \in {"removed", "blacklisted_by_admin"}]_status

\* The promise of the whitelist: an entry is active while it is requested or
\* added, whichever of the two a sync or a lost answer left it at, and has
\* ended once it is removed or blacklisted, as often as that happens.
Whitelist == INSTANCE AddressWhitelist WITH
    stage <- [e \in Entries |-> CASE status[e] = "none" -> "new"
                                  [] status[e] \in Active -> "active"
                                  [] OTHER -> "ended"]

\* Handlers, jobs, failures and overlapping instances implement it: stale
\* reads, statements that look at no status and interrupted syncs included.
ImplementsWhitelist == Whitelist!Spec

Requested == {Ip[e] : e \in Inserted}

\* An address enters the router's alias, and the firewall, only if somebody
\* has requested it: once a foreign address was shut out, neither a stale read
\* nor an overlapping, failed or interrupted sync lets it in again.
OnlyRequestedIPs ==
    [][/\ alias' \ alias \subseteq Requested
       /\ applied' \ applied \subseteq Requested]_router

\* What the handlers and the jobs hold between two of their steps: a POST is
\* about an entry that does not exist yet, a DELETE and an expiry about one
\* that does.
HeldInv ==
    /\ \A e \in Entries : adding[e] # "idle" => e \notin Inserted
    /\ removing \subseteq Inserted
    /\ \A i \in Instances : expirer[i] \subseteq Inserted

\* A sync knows every foreign address that is still in the alias, since none
\* can have come back after it read the alias, and so writes none of them.
SyncInv ==
    \A i \in Instances :
        /\ sync[i].pc \in {"entries", "mark"} =>
              alias \subseteq sync[i].current \cup Requested
        /\ sync[i].pc \in {"mark", "set"} =>
              sync[i].desired \subseteq Requested
        /\ sync[i].pc = "reconfigure" => alias \subseteq Requested

Wanted(ip) == \E e \in ActiveEntries : Ip[e] = ip

\* The alias was changed, and nobody is left to reconfigure the firewall: a
\* sync failed or died in between, or did not learn that it had set the alias.
\* No later sync makes up for that, since it finds the alias as wanted.
Interrupted ==
    /\ alias # applied
    /\ \A i \in Instances : sync[i].pc # "reconfigure"

\* An address that is wanted for good ends up in the router's alias, and one
\* that is not wanted any more (removed, expired, blacklisted or foreign) out
\* of it: failed ticks, stale reads and overlapping syncs are repaired by later
\* ones.  So it is in the firewall, unless it stays Interrupted.  None of this
\* is so while an event names an issuer that the system user has no more, since
\* no sync survives reading it.
FirewallFollowsWhitelist ==
    <>[]~Dangling =>
        \A ip \in Ips :
            /\ <>[]Wanted(ip) => /\ <>[](ip \in alias)
                                 /\ <>[](ip \in applied) \/ <>[]Interrupted
            /\ <>[]~Wanted(ip) => /\ <>[](ip \notin alias)
                                  /\ <>[](ip \notin applied) \/ <>[]Interrupted

\* An entry whose date has passed does not stay active, unless the sync keeps
\* ending the process.
ExpiredIsRemoved ==
    <>[]~Dangling =>
        \A e \in Entries : []<>(e \in expired => status[e] \notin Active)

\* "A transaction to atomically check limits and insert the entry."
WithinLimits ==
    /\ Cardinality(ActiveEntries) <= MaxTotalIPs
    /\ \A u \in Users :
          Cardinality(ActiveEntries \cap OwnedBy(u)) <= MaxIPsPerUser

\* An address that is blacklisted, with no active entry and nothing in flight
\* that could add, remove or expire one.
Settled(ip) ==
    /\ IsIPBlacklisted(ip)
    /\ ~Wanted(ip)
    /\ \A e \in Entries : Ip[e] = ip =>
          /\ adding[e] = "idle"
          /\ e \notin removing
          /\ \A i \in Instances : e \notin expirer[i]

\* "Blacklists ALL entries with the same IP address, preventing it from being
\* re-added": once everybody who had read the entries before is done, the
\* address stays out.  A POST past its check, a DELETE or an expiry that was
\* under way may still bring it back.
BlacklistStands ==
    [][\A ip \in Ips : Settled(ip) => Settled(ip)']_vars
=============================================================================
