SPECIFICATION Spec
CONSTANTS
    alice = alice
    bob = bob
    read = read
    write = write
    q = q
    r = r
    None = None
    Users = {alice, bob}
    Accounts = {"account"}
    Scopes = {read, write}
    Requests = {q, r}
    Calls = {"call"}
    MaxTime = 1
    Faults = {"insert", "commitLost", "reread", "update", "query"}
    MaxFaults = 1
SYMMETRY Interchangeable
INVARIANTS
    AuthenticationIsAtomic
    ActsWithinGrant
PROPERTIES
    DeletionIsFinal
