-------------------------- MODULE ConsumerCommands --------------------------
(***************************************************************************)
(* Topics, consumer groups and their offsets: remoting_client.go, its      *)
(* definitions named as there. A topic is changed in TopicCommands.        *)
(***************************************************************************)
EXTENDS ClientSteps

CONSTANTS topicListClusterConcurrency, statsAllTopicConcurrency  \* 16 in the code

ASSUME ConcurrencyAssumption ==
    {topicListClusterConcurrency, statsAllTopicConcurrency} \subseteq Nat \ {0, 1}

TopicClusterList == {fetchBrokerClusterInfo \o TopicRoute}
AllocateMQ == {TopicRoute}

\* Only the first broker of the route is asked who consumes a topic.
queryTopicConsumeByWho == Read("groups of topic")

\* Topics at once, their rows by index. The row of a topic whose route or groups
\* cannot be read is blank.
topicListClusterRows ==
    OnError(ForEach("its brokers", <<Read("route"), queryTopicConsumeByWho>>), "blank")
TopicListCluster == {fetchBrokerClusterInfo \o TopicList \o
    <<AtOnce(topicListClusterConcurrency, topicListClusterRows)>>}

\* All brokers of the route, and some rows between them.
topicStatusFromBrokers ==
    <<WithRow(WithTarget(InTurn("selected", <<IfAny(Read("topic stats"))>>)))>>
TopicStatus == {TopicRoute \o topicStatusFromBrokers}
TopicStatusByCluster == TopicStatus

ConsumerProgress == {OnRoute("selected", <<Read("consume stats")>>)}
BrokerConsumeStats == {At("given", <<Read("broker consume stats")>>)}

viewBrokerStatsData == Read("stats")
sumBrokerStats == Try(viewBrokerStatsData)

\* Topics at once; one that fails is left out.
statsAllTopicRows ==
    OnError(ForEach("its brokers", <<Read("route"), sumBrokerStats, queryTopicConsumeByWho,
                                     sumBrokerStats, Try(Read("consume stats"))>>), "pass")
StatsAll == {TopicList \o <<AtOnce(statsAllTopicConcurrency, statsAllTopicRows)>>}

-----------------------------------------------------------------------------
(* Offsets *)

updateConsumerOffsetAtBroker == Write("offset")

\* The queues of the source whose offset is not negative, each written where the route
\* of the topic has it; one whose broker the route does not name fails the command
\* after the ones before it.
CloneGroupOffset == {TopicRoute
    \o <<[OfCluster(InTurn("selected", <<IfAny(Read("consume stats"))>>)) EXCEPT !.noRow = "ok"]>>
    \o TopicRoute
    \o <<InTurn("local", <<IfAny(List("queues"))>>),
         ForEach("its broker", <<updateConsumerOffsetAtBroker>>)>>}

\* An offset that is not positive is not written, and that is no error.
searchResetOffsetByTimeAtBroker == IfAny(Read("offset"))

\* A body that is empty, or cannot be decoded, is an error after the reset. The offset
\* of a given queue is searched for, or given too: positive, or not written.
resetOffsetByTimeAtBroker == Write("offsets")
ResetOffsetByTime == {
    At("given", <<searchResetOffsetByTimeAtBroker, updateConsumerOffsetAtBroker>>),
    At("given", <<updateConsumerOffsetAtBroker>>), Nothing,
    OnRoute("selected", <<resetOffsetByTimeAtBroker>>)}

skipAccumulatedMessageAtBroker == Write("offsets")
SkipAccumulatedMessage == {OnRoute("selected", <<skipAccumulatedMessageAtBroker>>)}

-----------------------------------------------------------------------------
(* Groups *)

fetchConsumerConfig == IfAny(Read("group config"))
GetConsumerConfig == {fetchBrokerClusterInfo \o <<InTurn("selected", <<fetchConsumerConfig>>)>>}

setConsumeModeAtBroker == Write("consume mode")
SetConsumeMode == GivenOrInCluster("masters", <<setConsumeModeAtBroker>>)

updateSubGroupAtBroker == Write("group")
UpdateSubGroup == GivenOrInCluster("masters", <<updateSubGroupAtBroker>>)

\* A list that is given or read from a file; an empty one changes nothing.
updateSubGroupListAtBroker == Write("groups")
UpdateSubGroupList == {Given("groups") \o p :
    p \in GivenOrInCluster("masters", <<updateSubGroupListAtBroker>>)}
updateTopicListAtBroker == Write("topics")
UpdateTopicList == {Given("topics") \o p :
    p \in GivenOrInCluster("masters", <<updateTopicListAtBroker>>)}

\* The retry and dead letter topics follow, as far as they can be deleted: at the
\* masters and then at the name servers, with the table that was read for the group.
deleteTopicWithClusterInfo(topic) == <<
    [OnError(InTurn("masters", <<Write(topic)>>), "leave") EXCEPT !.leaves = 1],
    [InTurn("name servers", <<Write(topic)>>) EXCEPT !.refused = "pass", !.lost = "leave"]>>
deleteSubGroupAtBroker == Write("group")
DeleteSubGroup == {At("given", <<deleteSubGroupAtBroker>>),
    InCluster("masters", <<deleteSubGroupAtBroker>>)
    \o deleteTopicWithClusterInfo("retry topic") \o deleteTopicWithClusterInfo("dlq topic")}

-----------------------------------------------------------------------------
(* Clients *)

\* The first broker of the route that has an address, or the one that is given.
GivenOrFirst(reqs) == {At("given", reqs), OnRoute("first", reqs)}

\* One broker after the other until one knows a client.
ConsumerConnectionSummary == TopicRoute
    \o <<WithRow(WithTarget(OnError(UntilFound("selected", <<IfAny(List("clients"))>>), "pass")))>>
ConsumerConnection == GivenOrFirst(<<List("clients")>>)
ProducerConnection == {OnRoute("first", <<Read("producers")>>)}
Producer == {At("given", <<Read("producers")>>)}

consumerRunningInfo == GivenOrFirst(<<Read("running info")>>)
ConsumerStatus == consumerRunningInfo

\* A file for each client whose state can be read.
consumerStatusEntries == {p \o File("directory")
    \o <<ForEach("its broker", <<OrDrop(Read("running info")), Write("status file")>>)>> :
        p \in ConsumerConnection}
ConsumerStatusList == consumerStatusEntries

\* Which client holds which queue. A client that does not answer is left out.
consumerRunningInfoQueues == Read("running info")
consumerQueueAllocation == {ConsumerConnectionSummary \o TopicRoute
    \o <<WithTarget(ForEach("first", <<Try(consumerRunningInfoQueues)>>))>>}
ConsumerProgressWithClientIP == {p \o At("its brokers", <<Try(Read("queue allocation"))>>) :
    p \in ConsumerProgress}

\* Each group has a row, of what could be read.
ConsumerProgressSummary == TopicList
    \o <<ForEach("its brokers", <<Try(Read("consume stats")), Try(Read("connections"))>>)>>
runMonitoringRound == {ConsumerProgressSummary
    \o <<ForEach("its brokers", <<Try(Read("consume stats"))>>)>>}

ConsumerCommands == UNION {TopicClusterList, AllocateMQ, TopicListCluster, TopicStatus,
    TopicStatusByCluster, ConsumerProgress, BrokerConsumeStats, StatsAll, CloneGroupOffset,
    ResetOffsetByTime, SkipAccumulatedMessage, GetConsumerConfig, SetConsumeMode,
    UpdateSubGroup, UpdateSubGroupList, UpdateTopicList, DeleteSubGroup,
    {ConsumerConnectionSummary}, ConsumerConnection, ProducerConnection, Producer,
    ConsumerStatus, ConsumerStatusList, consumerQueueAllocation,
    ConsumerProgressWithClientIP, {ConsumerProgressSummary}, runMonitoringRound}
=============================================================================
