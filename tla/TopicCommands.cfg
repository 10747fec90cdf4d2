SPECIFICATION Spec
CONSTANTS
    Operators = {a, b}
    Brokers = {1, 2}
    NameServers = {1, 2}
    QueueNums = {1, 2}
    Perms = {4, 6}
    Asked <- MCAsked
    MaxCommands = 2
    MaxFaults = 1
    MaxAbsences = 1
    Cluster = Cluster
    NoTopic = NoTopic
SYMMETRY OperatorSymmetry
INVARIANTS AnsweredUpdatesHold DeletesAreFinal PermUpdatesOfUniformTopics
CHECK_DEADLOCK FALSE
