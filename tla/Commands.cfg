CONSTANTS
    topicListClusterConcurrency = 2
    statsAllTopicConcurrency = 2
    nativeTopicMessageBrowseWorkers = 2
    BrokerNames <- TwoNames
    BrokerIds <- MasterAndSlave
    NameServers <- TwoServers
    Controllers <- OneController
    ItemOrder <- ThreeItems
    Programs <- AllPrograms
    Servers <- Deployed
    Brokers <- Registered
    Items <- ItemsKnown
    NoItem <- NotForAnItem
    Targets <- TargetsInOrder
SPECIFICATION Spec
CHECK_DEADLOCK FALSE
INVARIANTS AnsweredMeansTaken MessagesAreFoundFirst RoutesOutliveTopics ExportsAreComplete
PROPERTY CommandsEnd
