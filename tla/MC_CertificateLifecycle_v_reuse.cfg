SPECIFICATION Spec
CONSTANTS
    alice = alice
    bob = bob
    r1 = r1
    r2 = r2
    System = System
    None = None
    Requests = {r1}
    Users = {alice, bob}
    Owner <- OwnerAlice
    AutoApprovers = {}
    Approvers = {bob}
    SelfApprovers = {}
    Instances = {1}
    Provider = "database"
    MaxTime = 2
    Faults = {"createLost"}
    MaxFaults = 1
INVARIANT OneCertificatePerRequest
CHECK_DEADLOCK FALSE
