SPECIFICATION FairSpec
CONSTANTS
    alice = alice
    bob = bob
    c1 = c1
    Redis = Redis
    None = None
    Tokens = {"t"}
    Downloads = {"d", "e"}
    Certs = {c1}
    Principals = {alice, bob}
    Owner <- OwnerAlice
    Downloaders = {alice}
    Admins = {bob}
    Instances = {"i", "j"}
    Lifetime = 1
    Faults = {"setKey", "getDel", "getDelLost", "row", "data", "audit",
              "auditLost", "p12", "crash"}
    MaxFaults = 1
INVARIANTS
    OneTimeToken
    DeliveredIsAccountedFor
PROPERTIES
    ImplementsDelivery
    TokensLeave
    WithdrawnScopeStops
CHECK_DEADLOCK FALSE
