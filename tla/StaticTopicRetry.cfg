CONSTANTS
    Brokers = {1, 2}
    ClusterOf <- MCClusterOf
    MaxQueues = 2
    MaxCommands = 2
    MaxFaults = 1
    MaxAbsences = 0
SPECIFICATION StaticSpec
CHECK_DEADLOCK FALSE
INVARIANTS UpdatedTopicsAreComplete
