SPECIFICATION FairSpec
CONSTANTS
    alice = alice
    None = None
    Browsers = {"laptop", "phone"}
    Users = {alice}
    UserOf <- UserOfAlice
    Groups = {"group"}
    Tokens = {"s", "t"}
    Logins = {"l", "m"}
    Requests = {"q", "r"}
    TokenLife = 1
    Lifetime = 2
    Faults = {"exchange", "exchangeLost", "userInfo", "upsert", "reread", "destroy"}
    MaxFaults = 1
INVARIANTS
    LogoutSticks
PROPERTIES
    LoginGetsItsGroups
    StuckEnds
