SPECIFICATION FairSpec
CONSTANTS
    k1 = k1
    k2 = k2
    rsa = rsa
    ec = ec
    u1 = u1
    u2 = u2
    u3 = u3
    None = None
    Replicas = {"a", "b"}
    Last = 2
    Keys = {k1, k2}
    Algorithms = {rsa, ec}
    Urls = {u1, u2, u3}
    Configs <- OneChange
    MaxDeployments = 1
    MaxFaults = 1
INVARIANTS
    MigrationsAreWhole
    OneAuthority
PROPERTIES
    OnlyStaleReadsDangle
    EveryReplicaServes
CHECK_DEADLOCK FALSE
