CONSTANTS
    d1 = d1
    d2 = d2
    Ids = {1, 2, 3}
    Base = {2}
    Definitions = {d1, d2}
    Requests = {r1, r2}
    Operations <- MCOperations
    Torn = torn
    NoRequest = none
    MaxFaults = 1
    MaxCrashes = 1
SPECIFICATION Spec
CHECK_DEADLOCK FALSE
INVARIANTS RegistryIsConsistent DiskFollowsMemory
PROPERTIES ImplementsAtomicRegistry
