CONSTANTS
    sync = sync
    expire = expire
    Jobs = {sync, expire}
    Broken = {expire}
    MaxGoroutines = 3
SPECIFICATION JobsFairSpec
INVARIANTS
    OneLiveRun
    CleanShutdown
    JobsRunAsElected
PROPERTIES
    JobsFollowLeadership
    ShutdownEnds
CHECK_DEADLOCK FALSE
