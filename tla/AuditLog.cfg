CONSTANTS
    Ops = {o1, o2}
    NoOp = noop
    MaxFaults = 2
    MaxCrashes = 2
SPECIFICATION FairSpec
CHECK_DEADLOCK FALSE
INVARIANTS EffectsAreTraced LossIsBoundedByTears LogAgreesWithCluster AnswersAreTrue
PROPERTIES RequestsEnd
