CONSTANTS
    alice = alice
    bob = bob
    e1 = e1
    e2 = e2
    home = home
    cafe = cafe
    stray = stray
    Users = {alice}
    Ips = {home, stray}
    Entries = {e1, e2}
    Owner <- OwnerTwice
    Ip <- IpTwice
    Expiring = {e1}
    Foreign = {stray}
    Urls = {"url", "new"}
    FirstUrl = "url"
    Instances = {1, 2}
    Deployments <- OneOrTwo
    MaxIPsPerUser = 1
    MaxTotalIPs = 1
SPECIFICATION FairSpec
INVARIANTS
    OneActiveEntry
PROPERTIES
    NoRevival
    ImplementsWhitelist
    BlacklistStands
    FirewallFollowsWhitelist
    ExpiredIsRemoved
