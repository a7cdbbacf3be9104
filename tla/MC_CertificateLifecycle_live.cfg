SPECIFICATION FairSpec
CONSTANTS
    alice = alice
    bob = bob
    r1 = r1
    r2 = r2
    System = System
    None = None
    Users = {alice, bob}
    Requests = {r1}
    Owner <- OwnerEach
    AutoApprovers = {}
    Approvers = {alice, bob}
    SelfApprovers = {alice, bob}
    Instances = {1, 2}
    Provider = "kubernetes"
    MaxTime = 0
    Faults = {"auto", "review", "reserve", "lookup", "secret", "create",
              "createLost", "rollback", "metadata", "check", "issue",
              "crash"}
    MaxFaults = 2
INVARIANT NoOrphanReservation
PROPERTY ApprovedIsIssued
CHECK_DEADLOCK FALSE
