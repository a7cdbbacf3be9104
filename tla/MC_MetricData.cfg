SPECIFICATION FairSpec
CONSTANTS
    Replicas = {"a", "b"}
    Queries = {"load", "old", "disk"}
    Readers = {"guest"}
    Groups = {"staff", "guests"}
    Member <- Guests
    Last = 2
    Rule <- Narrowed
    Broken = {"disk"}
    Types = {"memory", "redis"}
    MaxFaults = 1
PROPERTIES
    NewRuleStands
    NewRuleIsReached
    NewRuleIsObeyed
CHECK_DEADLOCK FALSE
