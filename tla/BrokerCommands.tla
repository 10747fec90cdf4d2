--------------------------- MODULE BrokerCommands ---------------------------
(***************************************************************************)
(* Brokers, name servers, controllers and the files that are exported from *)
(* them: remoting_client.go, its definitions named as there.               *)
(***************************************************************************)
EXTENDS ClientSteps

fetchBrokerRuntimeStats == Read("runtime")
fetchBrokerConfig == Read("broker config")

\* Of one cluster or of all; an unknown one has no rows.
clusterListBrokerRuntimeStats ==
    fetchBrokerClusterInfo \o <<InTurn("brokers", <<fetchBrokerRuntimeStats>>)>>
ClusterList == {clusterListBrokerRuntimeStats}
ClusterListMoreStats == {clusterListBrokerRuntimeStats}
BrokerStatus == {At("given", <<fetchBrokerRuntimeStats>>), clusterListBrokerRuntimeStats}

\* An unknown cluster is told, and no target at all is passed over.
Telling(who, r) == {At("given", <<r>>), Nothing,
    fetchBrokerClusterInfo \o <<[InTurn(who, <<r>>) EXCEPT !.unknown = "told"]>>}
setCommitLogReadAheadModeAtBroker == Write("read ahead")
SetCommitLogReadAheadMode == Telling("brokers", setCommitLogReadAheadModeAtBroker)
GetBrokerConfig == Telling("brokers", fetchBrokerConfig)

updateBrokerConfigAtBroker == Write("broker config")
UpdateBrokerConfig ==
    GivenOrInCluster("masters", <<updateBrokerConfigAtBroker>>)
    \cup {InCluster("brokers", <<updateBrokerConfigAtBroker>>)}

-----------------------------------------------------------------------------
(* Exports: the file is written after the last read *)

ExportConfigs == {InCluster("masters", <<fetchBrokerConfig>>) \o File("configs.json")}

fetchAllTopicConfigBody == Read("topic configs")
fetchSystemTopicSet == Read("system topics")
fetchUserTopicConfigValue == <<fetchAllTopicConfigBody, fetchSystemTopicSet>>
fetchUserTopicConfigPairs == fetchUserTopicConfigValue
fetchSubscriptionGroupValue == Read("groups")
fetchSubscriptionGroupPairs == fetchSubscriptionGroupValue

\* The languages and versions of the clients of each group.
exportMetricsClientInfo == Try(Read("connections"))

exportMetricsBrokerReport ==
    <<fetchBrokerRuntimeStats, fetchBrokerConfig, fetchSubscriptionGroupPairs>>
    \o fetchUserTopicConfigPairs
    \o <<Try(Read("half topic stats")), Try(Read("schedule stats")), exportMetricsClientInfo>>
ExportMetrics == {InCluster("masters", exportMetricsBrokerReport) \o File("metrics.json")}

exportMetadataByBroker == {Nothing,
    At("given", fetchUserTopicConfigValue) \o File("topic.json"),
    At("given", <<fetchSubscriptionGroupValue>>) \o File("subscriptionGroup.json")}

exportMetadataByCluster == {
    InCluster("masters", fetchUserTopicConfigPairs) \o File("topic.json"),
    InCluster("masters", <<fetchSubscriptionGroupPairs>>) \o File("subscriptionGroup.json"),
    InCluster("masters", fetchUserTopicConfigPairs \o <<fetchSubscriptionGroupPairs>>)
        \o File("metadata.json")}
ExportMetadata == exportMetadataByBroker \cup exportMetadataByCluster

\* The brokers write the file themselves, all masters at a time.
exportRocksDBConfigToJsonAtBroker == Write("rocksdb export")
RocksDBConfigToJson == {At("given", <<exportRocksDBConfigToJsonAtBroker>>),
    fetchBrokerClusterInfo \o <<AtOnce(NoLimit, OnError(
        OfCluster(InTurn("masters", <<exportRocksDBConfigToJsonAtBroker>>)), "later"))>>}

\* A broker that refuses the export, or does not answer, is a row with its error, and
\* the command has none; an unknown cluster has no rows.
exportPopRecordAtBroker == Write("pop records")
ExportPopRecord == {Nothing,
    At("given", <<fetchBrokerConfig>>),
    At("given", <<fetchBrokerConfig, Try(exportPopRecordAtBroker)>>),
    fetchBrokerClusterInfo,
    fetchBrokerClusterInfo \o
        <<[OnError(InTurn("brokers", <<exportPopRecordAtBroker>>), "blank") EXCEPT !.unknown = "ok"]>>}

-----------------------------------------------------------------------------
(* Name servers and controllers *)

GetNamesrvConfig == {At("name servers", <<Read("name server config")>>)}
UpdateNamesrvConfig == {At("name servers", <<Write("name server config")>>)}
UpdateControllerConfig == {At("controllers", <<Write("controller config")>>)}
GetControllerConfig == {At("controllers", <<Read("controller config")>>)}

\* The leader that the given controller knows, which may be none any more.
GetControllerMetaData == At("controller", <<Read("metadata")>>)
CleanBrokerMetadata == {GetControllerMetaData \o At("leader", <<Write("broker metadata")>>)}
ElectMaster == {GetControllerMetaData \o At("leader", <<Write("master")>>)}
GetSyncStateSet == {Nothing, GetControllerMetaData \o At("leader", <<Read("replicas")>>)}
GetSyncStateSetByCluster ==
    {InCluster("controller", <<Read("metadata")>>) \o At("leader", <<Read("replicas")>>)}

\* An answer that cannot be parsed is an error after the write.
writePermOnNameServers == At("name servers", <<Write("write permission")>>)
WipeWritePerm == {writePermOnNameServers}
AddWritePerm == {writePermOnNameServers}

UpdateKvConfig == {invokeAllNameServers("kv config")}
DeleteKvConfig == {invokeAllNameServers("kv config")}
GetKvConfig == {invokeNameServer(Read("kv config"))}

-----------------------------------------------------------------------------
(* Brokers one by one *)

BrokerHAStatus == At("given", <<Read("ha status")>>)
BrokerHAStatusByCluster == {InCluster("masters", <<Read("ha status")>>)}
AddBroker == {At("given", <<Write("container")>>)}
RemoveBroker == {At("given", <<Write("container")>>)}
ResetMasterFlushOffset == {At("given", <<Write("flush offset")>>)}

fetchBrokerEpoch == Read("epoch")
GetBrokerEpoch == {fetchBrokerClusterInfo \o <<InTurn("a broker", <<fetchBrokerEpoch>>)>>}
GetBrokerEpochByCluster == {InCluster("brokers", <<fetchBrokerEpoch>>)}

CheckRocksdbCqWriteProgress ==
    {fetchBrokerClusterInfo \o <<WithRow(OfCluster(InTurn("masters", <<Read("progress")>>)))>>}

\* brokerAddrsForClusters: every broker of the cluster, or of all clusters. The
\* answer is the one of the last of them.
brokerAddrsForClusters(r) ==
    {At("given", <<r>>), fetchBrokerClusterInfo \o <<[InTurn("brokers", <<r>>) EXCEPT !.noTarget = "told"]>>}
cleanExpiredCQAtBroker == Write("consume queues")
CleanExpiredCQ == brokerAddrsForClusters(cleanExpiredCQAtBroker)
cleanUnusedTopicAtBroker == Write("unused topics")
CleanUnusedTopic == brokerAddrsForClusters(cleanUnusedTopicAtBroker)
deleteExpiredCommitLogAtBroker == Write("commit log")
DeleteExpiredCommitLog == brokerAddrsForClusters(deleteExpiredCommitLogAtBroker)

\* Cold data control of a group, at the masters.
updateColdDataFlowCtrGroupConfigAtBroker == Write("cold data")
removeColdDataFlowCtrGroupConfigAtBroker == Write("cold data")
coldDataFlowCtrGroupConfigClusterTargets(r) == GivenOrInCluster("masters", <<r>>)
UpdateColdDataFlowCtrGroupConfig ==
    coldDataFlowCtrGroupConfigClusterTargets(updateColdDataFlowCtrGroupConfigAtBroker)
RemoveColdDataFlowCtrGroupConfig ==
    coldDataFlowCtrGroupConfigClusterTargets(removeColdDataFlowCtrGroupConfigAtBroker)

\* Masters and their slaves at once; a broker without a master is left out.
GetColdDataFlowCtrInfo == Read("cold data")
GetColdDataFlowCtrInfoByCluster == {fetchBrokerClusterInfo \o
    <<AtOnce(NoLimit, OnError(WithTarget(OfCluster(
        InTurn("masters and slaves", <<GetColdDataFlowCtrInfo>>))), "later"))>>}

BrokerCommands == UNION {ClusterList, ClusterListMoreStats, BrokerStatus,
    SetCommitLogReadAheadMode, GetBrokerConfig, UpdateBrokerConfig, ExportConfigs,
    ExportMetrics, ExportMetadata, RocksDBConfigToJson, ExportPopRecord, GetNamesrvConfig,
    UpdateNamesrvConfig, UpdateControllerConfig, GetControllerConfig,
    {GetControllerMetaData}, CleanBrokerMetadata, ElectMaster, GetSyncStateSet,
    GetSyncStateSetByCluster, WipeWritePerm, AddWritePerm, UpdateKvConfig, DeleteKvConfig,
    GetKvConfig, {BrokerHAStatus}, BrokerHAStatusByCluster, AddBroker, RemoveBroker,
    ResetMasterFlushOffset, GetBrokerEpoch, GetBrokerEpochByCluster,
    CheckRocksdbCqWriteProgress, CleanExpiredCQ, CleanUnusedTopic, DeleteExpiredCommitLog,
    UpdateColdDataFlowCtrGroupConfig, RemoveColdDataFlowCtrGroupConfig,
    {At("given", <<GetColdDataFlowCtrInfo>>)}, GetColdDataFlowCtrInfoByCluster}
=============================================================================
