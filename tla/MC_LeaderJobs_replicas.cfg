CONSTANTS
    None = None
    Instances = {"i1", "i2"}
    TTL = 8
    Slack = 1
    Faults = {"setNX", "setNXLost", "get", "expire"}
    MaxFaults = 2
    MaxExits = 1
SPECIFICATION ClusterFairSpec
INVARIANTS
    JobsRunOnce
PROPERTIES
    SomebodyLeads
    SplitEnds
