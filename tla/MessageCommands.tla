-------------------------- MODULE MessageCommands --------------------------
(***************************************************************************)
(* Messages sent, queried, browsed and consumed: remoting_client.go, its   *)
(* definitions named as there. A loop of pulls over a queue, or of sends,  *)
(* is two requests.                                                        *)
(***************************************************************************)
EXTENDS ClientSteps

\* The broker of the chosen queue; without an address in the route, a refusal.
sendMessageToBroker == Write("message")
selectSendMessageQueue(reqs) == TopicRoute \o At("its broker", reqs)

\* The trace follows the message. When it fails, so does the command, and the
\* message is sent all the same.
sendMessagePubTrace == selectSendMessageQueue(<<Write("trace")>>)
SendMessage == LET send == selectSendMessageQueue(<<sendMessageToBroker>>)
               IN  {send, send \o sendMessagePubTrace}

\* One message to warm up, then those that are measured.
SendMsgStatus == {selectSendMessageQueue(
    <<sendMessageToBroker, sendMessageToBroker, sendMessageToBroker>>)}

\* A message that cannot be sent is a row too.
CheckMsgSendRT == {TopicRoute \o Given("sends")
    \o <<OnError(ForEach("its broker", <<sendMessageToBroker>>), "blank")>>}

\* By broker name; the failures are counted.
clusterRTBroker == <<Read("route"), Try(sendMessageToBroker), Try(sendMessageToBroker)>>
ClusterRT == {fetchBrokerClusterInfo
    \o <<[InTurn("selected", clusterRTBroker) EXCEPT !.unknown = "told"]>>}

-----------------------------------------------------------------------------
(* Queries *)

queryMessageDetailsFromBroker == IfAny(Read("messages"))
queryMessagesFromBroker == queryMessageDetailsFromBroker

\* The brokers of the route, or of a cluster.
queryMessageRouteBrokers(s) ==
    {TopicRoute \o <<WithTarget(s)>>, fetchBrokerClusterInfo \o <<OfCluster(s)>>}

\* All at once; what they find is put together as it arrives, errors are dropped.
QueryMessagesByKey == queryMessageRouteBrokers(AtOnce(NoLimit, OnError(WithRow(
    InTurn("selected", <<queryMessagesFromBroker>>)), "pass")))

QueryMessageTraceByID == {TopicRoute \o <<AtOnce(NoLimit, OnError(WithTarget(
    InTurn("selected", <<queryMessageDetailsFromBroker>>)), "pass"))>>}

\* One broker after the other, all that match, the oldest first.
queryMessagesByUniqueKey ==
    TopicRoute \o <<OnError(InTurn("selected", <<queryMessageDetailsFromBroker>>), "pass")>>
QueryMessagesByUniqueKey == {queryMessagesByUniqueKey}
QueryMessageByUniqueKey == {queryMessagesByUniqueKey}

\* The id holds the address of the broker, or is looked for.
viewMessageByOffsetID == At("given", <<IfAny(Read("messages"))>>)
QueryMessageByID == {viewMessageByOffsetID, queryMessagesByUniqueKey}

\* The message that is found; without one the command ends as the caller says.
FoundMessage(p, none) == [p EXCEPT ![Len(p)].noRow = none]

\* The client is asked first, then the message is looked for and consumed.
consumeMessageDirectlyAtBroker == At("its broker", <<Write("consumption")>>)
ConsumesDirectly(queries) ==
    {OnRoute("first", <<Read("running info")>>) \o FoundMessage(q, "failed")
        \o consumeMessageDirectlyAtBroker : q \in queries}
ConsumeMessageDirectly == ConsumesDirectly(QueryMessageByUniqueKey)
ConsumeMessageDirectlyByID == ConsumesDirectly(QueryMessageByID)

ResendMessageByID == {FoundMessage(q, "told")
    \o selectSendMessageQueue(<<sendMessageToBroker>>) : q \in QueryMessageByID}

\* Each group of the topic has a track. What cannot be read is said in the track.
messageTrackForGroup == OnError(ForEach("its brokers",
    <<Read("connections"), Read("consume stats"), Read("clusters")>>), "blank")
MessageTrackDetail == {TopicRoute
    \o <<InTurn("first", <<IfAny(List("groups of topic"))>>)>> \o <<messageTrackForGroup>>}

-----------------------------------------------------------------------------
(* Queues *)

offsetAtBroker == Read("offset")
getMinOffsetAtBroker == offsetAtBroker
getMaxOffsetAtBroker == offsetAtBroker
searchOffsetAtBroker == offsetAtBroker

\* A pull that finds nothing ends the loop.
pullMessagesAtBroker == IfAny(Read("pull"))

QueryMessageByOffset == {selectSendMessageQueue(<<IfAny(Read("pull"))>>)}

\* From the first to the last offset, which times may narrow.
Offsets == {<<getMinOffsetAtBroker, getMaxOffsetAtBroker>>,
            <<getMinOffsetAtBroker, getMaxOffsetAtBroker, searchOffsetAtBroker, searchOffsetAtBroker>>}
Pulls == <<pullMessagesAtBroker, pullMessagesAtBroker>>

\* Queue by queue of the route, each at the broker that the route has for it. A
\* route without a queue that can be read is an error.
EachQueue(reqs) == TopicRoute
    \o <<WithRow(InTurn("local", <<IfAny(List("queues"))>>)), ForEach("its broker", reqs)>>
PrintMessages == {EachQueue(o \o Pulls) : o \in Offsets}
PrintMessagesByQueue == {selectSendMessageQueue(o \o Pulls) : o \in Offsets}

consumeMessageOffsetRange == Offsets
appendConsumeMessagePullEntries == Pulls
consumeMessagesByCondition == {selectSendMessageQueue(o \o appendConsumeMessagePullEntries) :
    o \in consumeMessageOffsetRange}
ConsumeMessages == consumeMessagesByCondition
    \cup {EachQueue(o \o appendConsumeMessagePullEntries) : o \in consumeMessageOffsetRange}

QueryConsumeQueue == {At("given", <<Read("consume queue")>>),
    OnRoute("first master", <<Read("consume queue")>>)}

MessageCommands == UNION {SendMessage, SendMsgStatus, CheckMsgSendRT, ClusterRT,
    QueryMessagesByKey, QueryMessageTraceByID, QueryMessagesByUniqueKey,
    QueryMessageByUniqueKey, QueryMessageByID, ConsumeMessageDirectly,
    ConsumeMessageDirectlyByID, ResendMessageByID, MessageTrackDetail, QueryMessageByOffset,
    PrintMessages, PrintMessagesByQueue, ConsumeMessages, QueryConsumeQueue}
=============================================================================
