CONSTANTS
    Brokers = {1, 2, 3}
    ClusterOf <- MCClusterOf
    MaxQueues = 3
    MaxCommands = 3
    MaxFaults = 1
    MaxAbsences = 1
SPECIFICATION StaticSpec
CHECK_DEADLOCK FALSE
INVARIANTS PhysicalQueuesAreExclusive UpdatesExtendTheTopic RemapsShareTheTopic
PROPERTIES TornTopicsAreRefused
