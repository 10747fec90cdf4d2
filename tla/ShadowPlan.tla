----------------------------- MODULE ShadowPlan -----------------------------
(***************************************************************************)
(* The samples of the default shadow plan: the command, and whether the    *)
(* targets of the sample run one after the other. A command that the plan  *)
(* has more than once, with other arguments, is here once.                 *)
(***************************************************************************)

Serial(commands) == {[command |-> c, serial |-> TRUE] : c \in commands}
AtOnce(commands) == {[command |-> c, serial |-> FALSE] : c \in commands}

messageSamples ==
    Serial({"queryMsgById", "queryMsgByUniqueKey", "queryMsgByOffset"})
    \cup AtOnce({"command", "queryMsgTraceById", "queryMsgByKey"})

topicSamples ==
    AtOnce({"topicStatus", "topicRoute", "topicClusterList", "topicList", "clusterList",
            "statsAll", "consumerProgress", "consumerConnection"})

authSamples ==
    Serial({"createUser", "updateUser", "copyUser", "copyAcl", "createAcl", "updateAcl",
            "deleteAcl", "listAcl", "getAcl"})
    \cup AtOnce({"listUser", "getUser"})

configSamples ==
    Serial({"getBrokerConfig"})
    \cup AtOnce({"getControllerMetaData", "getControllerConfig", "getNamesrvConfig",
                 "getConsumerConfig", "getColdDataFlowCtrInfo", "allocateMQ", "brokerStatus"})

queueSamples == AtOnce({"printMsg", "printMsgByQueue", "consumeMessage", "queryCq"})

sendSamples ==
    Serial({"checkMsgSendRT", "sendMsgStatus", "sendMessage", "checkRocksdbCqWriteProgress",
            "resetMasterFlushOffset"})

cleanSamples ==
    Serial({"cleanExpiredCQ", "cleanUnusedTopic", "deleteExpiredCommitLog", "dumpCompactionLog"})

clientSamples ==
    AtOnce({"exportPopRecord", "producer", "producerConnection", "rocksDBConfigToJson",
            "exportMetadataInRocksDB"})

stateSamples == AtOnce({"brokerConsumeStats", "haStatus", "getBrokerEpoch", "getSyncStateSet"})

\* Mutant: a sample that writes a fixed file without SerialTargets.
ParallelExports == AtOnce({"exportConfigs", "exportMetadata", "exportMetrics"})

exportSamples == Serial({"exportConfigs", "exportMetadata", "exportMetrics"})

updateConfigSamples ==
    Serial({"updateNamesrvConfig", "updateBrokerConfig", "updateColdDataFlowCtrGroupConfig",
            "removeColdDataFlowCtrGroupConfig"})

updateTopicSamples ==
    Serial({"updateTopic", "updateTopicList", "updateTopicPerm", "deleteTopic"})

updateGroupSamples == Serial({"updateSubGroup", "updateSubGroupList", "deleteSubGroup"})

updateNameServerSamples ==
    Serial({"wipeWritePerm", "addWritePerm", "updateKvConfig", "deleteKvConfig",
            "updateOrderConf_delete", "updateOrderConf_put"})

resetSamples == Serial({"setConsumeMode", "resetOffsetByTime"})

chainSamples == AtOnce({"updateOrderConf_get", "messageChain"})

defaultM6ShadowSamples ==
    messageSamples \cup topicSamples \cup authSamples \cup configSamples \cup queueSamples
    \cup sendSamples \cup cleanSamples \cup clientSamples \cup stateSamples
    \cup exportSamples \cup updateConfigSamples \cup updateTopicSamples
    \cup updateGroupSamples \cup updateNameServerSamples \cup resetSamples \cup chainSamples
=============================================================================
