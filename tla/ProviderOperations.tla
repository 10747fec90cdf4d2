------------------------- MODULE ProviderOperations -------------------------
(***************************************************************************)
(* The operations of the mqadmin provider that the server calls            *)
(* (internal/rocketmq/mqadmin_provider.go), its definitions named as there.*)
(* Each is a program of command runs; how one run picks its transport is   *)
(* in CommandRun. An operation whose failure the caller only reports, or   *)
(* ignores, is one request of the caller. What a cache holds is not asked  *)
(* for again: the operation has a program without the request.             *)
(***************************************************************************)
EXTENDS CommandSteps

CONSTANT nativeTopicMessageBrowseWorkers  \* 4 in the code

run(r) == <<InTurn("mqadmin", <<r>>)>>

ClusterList == run(List("clusters"))
BrokerStatus == run(Read("broker"))
TopicRoute == run(Read("route"))
TopicStatus == run(List("queues"))
ConsumerGroups == run(Read("groups"))

\* One export after the other; a file that is not there, or no cluster at all, is
\* an error, and nothing is kept.
exportMetadata == <<Write("metadata file"), Read("metadata file")>>
topicMessageTypes == {Nothing,
    ClusterList \o File("directory") \o <<WithTarget(ForEach("mqadmin", exportMetadata))>>}

\* Without the types when they cannot be read.
TopicList == <<InTurn("mqadmin", <<List("topics"), Try(Read("topic types"))>>)>>

UpsertTopic == run(Write("topic"))
DeleteTopic == run(Write("topic"))
SendTopicMessage == run(Write("message"))
ResetConsumerOffset == run(Write("offsets"))

\* The progress of the topic that is asked for, or that the group consumes.
consumerConnection == Read("connections")
consumerProgressDetail == Read("progress")
ConsumerDetail == {run(consumerConnection),
    <<InTurn("mqadmin", <<consumerConnection, Try(consumerProgressDetail)>>)>>}

-----------------------------------------------------------------------------
(* Messages by offset *)

messageByOffset == Read("message")

\* The native reader, and the command when it fails or finds nothing.
nativeTopicMessageByOffset ==
    <<[OnError(UntilFound("readers", <<IfAny(messageByOffset)>>), "pass") EXCEPT !.noRow = "failed"]>>

\* The offsets that an earlier answer does not hold, so many workers at a time.
\* One that fails is a warning; a page without a message is an error.
messagesAt(n, s) == <<AtOnce(n, OnError(s, "pass"))>>
collectTopicMessagesByOffsetWithWorkers ==
    {messagesAt(n, s) : n \in {1, nativeTopicMessageBrowseWorkers},
                        s \in {ForEach("mqadmin", <<messageByOffset>>),
                               WithRow(ForEach("mqadmin", <<messageByOffset>>))}}
topicMessages == {TopicStatus \o c : c \in collectTopicMessagesByOffsetWithWorkers}

collectOldestTopicMessagesByOffset ==
    TopicStatus \o messagesAt(1, WithRow(ForEach("mqadmin", <<messageByOffset>>)))

-----------------------------------------------------------------------------
(* The feature report: everything but the clusters may be missing *)

\* The queues of the two topics, their messages, and the groups.
clusterTransactionRuntime == <<InTurn("mqadmin",
    <<Try(Read("half queues")), Try(Read("operation queues")), Try(Read("half messages")),
      Try(Read("operations")), Try(Read("groups"))>>)>>
ClusterFeatures ==
    <<InTurn("mqadmin", <<List("brokers"), Try(Read("topics"))>>),
      OnError(ForEach("mqadmin", <<Read("broker config")>>), "pass"),
      InTurn("mqadmin", <<Try(Read("name server config"))>>)>> \o clusterTransactionRuntime

-----------------------------------------------------------------------------
(* The chain of a message *)

searchMessageByKey == <<WithRow(InTurn("mqadmin", <<IfAny(Read("candidates"))>>))>>

\* The queues with the number of the candidate that hold its offset, or the one of
\* the broker that the query names.
topicStatusRowsForKeyCandidate == {<<WithRow(InTurn("mqadmin", <<IfAny(List("queues"))>>))>>,
    <<InTurn("local", <<List("queue")>>)>>}

\* The first of them whose message is the candidate.
cachedMessageByKeyCandidate == {rows \o
    <<[OnError(ForEach("mqadmin", <<IfAny(messageByOffset)>>), "pass")
        EXCEPT !.until = TRUE, !.noRow = "failed"]>> : rows \in topicStatusRowsForKeyCandidate}
cachedMessageDetail == {Nothing, run(Read("message"))}
cachedMessageByOffset == {Nothing, run(messageByOffset)}

\* A failure is an event, or a state, of its own, and kept like one.
traceEvents == Try(Read("trace"))
consumerStates == Try(Read("consumer states"))
ChainOf(message) ==
    {message \o <<InTurn("mqadmin", reqs)>> :
        reqs \in {<<traceEvents>>, <<traceEvents, consumerStates>>}}
MessageChain == UNION {ChainOf(message) : message \in
    {searchMessageByKey \o c : c \in cachedMessageByKeyCandidate}
    \cup cachedMessageDetail \cup cachedMessageByOffset}

ProviderOperations == UNION {{ClusterList, BrokerStatus, TopicRoute, TopicStatus,
        ConsumerGroups, TopicList, UpsertTopic, DeleteTopic, SendTopicMessage,
        ResetConsumerOffset, nativeTopicMessageByOffset, collectOldestTopicMessagesByOffset,
        ClusterFeatures},
    topicMessageTypes, ConsumerDetail, topicMessages, MessageChain}
=============================================================================
