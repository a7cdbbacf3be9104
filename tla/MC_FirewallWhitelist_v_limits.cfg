CONSTANTS
    alice = alice
    bob = bob
    e1 = e1
    e2 = e2
    home = home
    cafe = cafe
    stray = stray
    Users = {alice, bob}
    Ips = {home, cafe, stray}
    Entries = {e1, e2}
    Owner <- OwnerAlice
    Ip <- IpEach
    Expiring = {}
    Foreign = {}
    Urls = {"url"}
    FirstUrl = "url"
    Instances = {1}
    Deployments <- Single
    MaxIPsPerUser = 1
    MaxTotalIPs = 2
SPECIFICATION Spec
INVARIANTS
    WithinLimits
