---------------------------- MODULE ShadowHooks ----------------------------
(***************************************************************************)
(* What the hooks of the shadow batch do before and after a command, so    *)
(* that every provider starts from the same state. A fixture is the part   *)
(* of the deployment that one sample names in its arguments: a record of   *)
(* values. A fixture command is the record of the fields that it sets. A   *)
(* hook is the sequence of the fixture commands that it runs for a         *)
(* command of the plan, with the arguments that the plan's template has;   *)
(* without them it does nothing. Operators have the names of the code's    *)
(* functions; where a hook and the function that makes its arguments add   *)
(* nothing to each other, the operator is that of the arguments.           *)
(***************************************************************************)
EXTENDS Sequences

\* The fixture as the notes of the plan ask for it: nothing that a sample
\* creates is there, what it changes is at the value the hooks restore.
Baseline ==
    [topic |-> "absent", second_topic |-> "absent", permission |-> "6", mode |-> "POP",
     order |-> "absent", group |-> "absent", second_group |-> "absent", offsets |-> "none",
     writable |-> "yes", namesrv_config |-> "baseline", broker_config |-> "baseline",
     cold_flow |-> "absent", kv |-> "absent", user |-> "absent", status |-> "enable",
     acl |-> "absent"]

(* What the servers do for a command. Of commands that only read: nothing. *)
Nothing == <<>>

addWritePerm  == [writable |-> "yes"]
wipeWritePerm == [writable |-> "no"]
updateTopic   == [topic |-> "present"]
deleteTopic   == [topic |-> "absent"]
updateGroup   == [group |-> "present"]
deleteGroup   == [group |-> "absent", offsets |-> "none"]
updateCold    == [cold_flow |-> "limited"]
removeCold    == [cold_flow |-> "absent"]
createUser    == [user |-> "present"]
deleteUser    == [user |-> "absent"]
createAcl     == [acl |-> "Pub"]
deleteAcl     == [acl |-> "absent"]
updateKv      == [kv |-> "present"]
deleteKv      == [kv |-> "absent"]
putOrder      == [order |-> "present"]
deleteOrder   == [order |-> "absent"]

Changes(c) ==
    CASE c = "wipeWritePerm" -> wipeWritePerm
      [] c = "addWritePerm" -> addWritePerm
      [] c = "updateNamesrvConfig" -> [namesrv_config |-> "given"]
      [] c = "updateBrokerConfig" -> [broker_config |-> "given"]
      [] c = "updateColdDataFlowCtrGroupConfig" -> updateCold
      [] c = "removeColdDataFlowCtrGroupConfig" -> removeCold
      [] c = "updateTopic" -> updateTopic
      [] c = "updateTopicList" -> [topic |-> "present", second_topic |-> "present"]
      [] c = "updateTopicPerm" -> [permission |-> "given"]
      [] c = "deleteTopic" -> deleteTopic
      [] c = "setConsumeMode" -> [mode |-> "PULL"]
      [] c = "resetOffsetByTime" -> [offsets |-> "reset"]
      [] c = "updateSubGroup" -> updateGroup
      [] c = "updateSubGroupList" -> [group |-> "present", second_group |-> "present"]
      [] c = "deleteSubGroup" -> deleteGroup
      [] c = "updateOrderConf_put" -> putOrder
      [] c = "updateOrderConf_delete" -> deleteOrder
      [] c = "updateKvConfig" -> updateKv
      [] c = "deleteKvConfig" -> deleteKv
      [] c \in {"createUser", "copyUser"} -> createUser
      [] c = "updateUser" -> [status |-> "given"]
      [] c = "createAcl" -> createAcl
      [] c \in {"updateAcl", "copyAcl"} -> [acl |-> "given"]
      [] c = "deleteAcl" -> deleteAcl
      [] OTHER -> Nothing

When(c, name, commands) == IF c = name THEN commands ELSE <<>>

-----------------------------------------------------------------------------
(* Broker permissions, configurations, cold data flow control *)

m6ShadowWritePermBeforeRunArgs(c) ==
    When(c, "wipeWritePerm", <<addWritePerm>>) \o When(c, "addWritePerm", <<wipeWritePerm>>)
m6ShadowWritePermAfterRunArgs(c) ==
    When(c, "wipeWritePerm", <<addWritePerm>>) \o When(c, "addWritePerm", <<addWritePerm>>)

m6ShadowNamesrvConfigResetArgs(c) ==
    When(c, "updateNamesrvConfig", <<[namesrv_config |-> "baseline"]>>)
m6ShadowBrokerConfigResetArgs(c) ==
    When(c, "updateBrokerConfig", <<[broker_config |-> "baseline"]>>)

m6ShadowColdDataFlowCtrCleanupArgs(c) ==
    When(c, "updateColdDataFlowCtrGroupConfig", <<removeCold>>)
        \o When(c, "removeColdDataFlowCtrGroupConfig", <<removeCold>>)
m6ShadowColdDataFlowCtrPrepareArgs(c) ==
    When(c, "removeColdDataFlowCtrGroupConfig", <<updateCold>>)
m6ShadowColdDataFlowCtrBeforeArgs(c) ==
    IF c = "updateColdDataFlowCtrGroupConfig"
    THEN m6ShadowColdDataFlowCtrCleanupArgs(c)
    ELSE m6ShadowColdDataFlowCtrPrepareArgs(c)

-----------------------------------------------------------------------------
(* Topics and subscription groups *)

m6ShadowUpdateTopicCleanupArgs(c) == When(c, "updateTopic", <<deleteTopic>>)
m6ShadowUpdateTopicListCleanupArgs(c) ==
    When(c, "updateTopicList", <<deleteTopic, [second_topic |-> "absent"]>>)
m6ShadowUpdateTopicPermRestoreArgs(c) == When(c, "updateTopicPerm", <<[permission |-> "6"]>>)
m6ShadowSetConsumeModeRestoreArgs(c) == When(c, "setConsumeMode", <<[mode |-> "POP"]>>)
m6ShadowDeleteTopicPrepareArgs(c) == When(c, "deleteTopic", <<updateTopic>>)
m6ShadowDeleteTopicCleanupArgs(c) == When(c, "deleteTopic", <<deleteTopic>>)

m6ShadowResetOffsetBeforeRun(c) == When(c, "resetOffsetByTime", <<deleteGroup, updateGroup>>)
m6ShadowResetOffsetAfterRun(c)  == When(c, "resetOffsetByTime", <<deleteGroup>>)

m6ShadowUpdateSubGroupCleanupArgs(c) == When(c, "updateSubGroup", <<deleteGroup>>)
m6ShadowUpdateSubGroupListCleanupArgs(c) ==
    When(c, "updateSubGroupList", <<deleteGroup, [second_group |-> "absent"]>>)
m6ShadowDeleteSubGroupPrepareArgs(c) == When(c, "deleteSubGroup", <<updateGroup>>)
m6ShadowDeleteSubGroupCleanupArgs(c) == When(c, "deleteSubGroup", <<deleteGroup>>)

m6ShadowOrderConfPutCleanupArgs(c) == When(c, "updateOrderConf_put", <<deleteOrder>>)
m6ShadowOrderConfDeletePrepareArgs(c) == When(c, "updateOrderConf_delete", <<putOrder>>)
m6ShadowOrderConfDeleteCleanupArgs(c) == When(c, "updateOrderConf_delete", <<deleteOrder>>)

m6ShadowDeleteKVPrepareArgs(c) == When(c, "deleteKvConfig", <<updateKv>>)
m6ShadowKVDeleteArgs(c) == When(c, "deleteKvConfig", <<deleteKv>>)

-----------------------------------------------------------------------------
(* Users and access control lists *)

m6ShadowUpdateUserResetArgs(c)   == When(c, "updateUser", <<[status |-> "enable"]>>)
m6ShadowCreateUserCleanupArgs(c) == When(c, "createUser", <<deleteUser>>)
m6ShadowCopyUserCleanupArgs(c)   == When(c, "copyUser", <<deleteUser>>)

\* A new user, and the list that the command is about.
WithUser == <<deleteUser, createUser>>
WithAcl  == <<deleteUser, createUser, createAcl>>
NoAcl    == <<deleteAcl, deleteUser>>

\* Mutant: the list that the command has made stays.
RemovesTheUser(c) == When(c, "createAcl", <<deleteUser>>)

m6ShadowCreateAclBeforeRun(c) == When(c, "createAcl", WithUser)
m6ShadowCreateAclAfterRun(c)  == When(c, "createAcl", NoAcl)
m6ShadowUpdateAclBeforeRun(c) == When(c, "updateAcl", WithAcl)
m6ShadowUpdateAclAfterRun(c)  == When(c, "updateAcl", NoAcl)
m6ShadowDeleteAclBeforeRun(c) == When(c, "deleteAcl", WithAcl)
m6ShadowDeleteAclAfterRun(c)  == When(c, "deleteAcl", <<deleteUser>>)
m6ShadowListAclBeforeRun(c)   == When(c, "listAcl", WithAcl)
m6ShadowListAclAfterRun(c)    == When(c, "listAcl", NoAcl)
m6ShadowGetAclBeforeRun(c)    == When(c, "getAcl", WithAcl)
m6ShadowGetAclAfterRun(c)     == When(c, "getAcl", NoAcl)

-----------------------------------------------------------------------------
(* The chains, in the order of runM6ShadowBatch; those in between are of *)
(* other commands, so that at most one hook of a chain has something to do. *)

beforeRun(c) ==
    m6ShadowWritePermBeforeRunArgs(c) \o m6ShadowNamesrvConfigResetArgs(c)
    \o m6ShadowBrokerConfigResetArgs(c) \o m6ShadowColdDataFlowCtrBeforeArgs(c)
    \o m6ShadowUpdateTopicCleanupArgs(c) \o m6ShadowUpdateTopicListCleanupArgs(c)
    \o m6ShadowUpdateTopicPermRestoreArgs(c) \o m6ShadowSetConsumeModeRestoreArgs(c)
    \o m6ShadowResetOffsetBeforeRun(c) \o m6ShadowDeleteTopicPrepareArgs(c)
    \o m6ShadowUpdateSubGroupCleanupArgs(c) \o m6ShadowUpdateSubGroupListCleanupArgs(c)
    \o m6ShadowDeleteSubGroupPrepareArgs(c) \o m6ShadowOrderConfPutCleanupArgs(c)
    \o m6ShadowOrderConfDeletePrepareArgs(c) \o m6ShadowDeleteKVPrepareArgs(c)
    \o m6ShadowUpdateUserResetArgs(c) \o m6ShadowCreateUserCleanupArgs(c)
    \o m6ShadowCopyUserCleanupArgs(c) \o m6ShadowCreateAclBeforeRun(c)
    \o m6ShadowUpdateAclBeforeRun(c) \o m6ShadowDeleteAclBeforeRun(c)
    \o m6ShadowListAclBeforeRun(c) \o m6ShadowGetAclBeforeRun(c)

afterRun(c) ==
    m6ShadowGetAclAfterRun(c) \o m6ShadowListAclAfterRun(c) \o m6ShadowDeleteAclAfterRun(c)
    \o m6ShadowUpdateAclAfterRun(c) \o m6ShadowCreateAclAfterRun(c)
    \o m6ShadowCopyUserCleanupArgs(c) \o m6ShadowCreateUserCleanupArgs(c)
    \o m6ShadowUpdateUserResetArgs(c) \o m6ShadowKVDeleteArgs(c)
    \o m6ShadowOrderConfDeleteCleanupArgs(c) \o m6ShadowOrderConfPutCleanupArgs(c)
    \o m6ShadowDeleteSubGroupCleanupArgs(c) \o m6ShadowUpdateSubGroupListCleanupArgs(c)
    \o m6ShadowUpdateSubGroupCleanupArgs(c) \o m6ShadowDeleteTopicCleanupArgs(c)
    \o m6ShadowResetOffsetAfterRun(c) \o m6ShadowSetConsumeModeRestoreArgs(c)
    \o m6ShadowUpdateTopicPermRestoreArgs(c) \o m6ShadowUpdateTopicListCleanupArgs(c)
    \o m6ShadowUpdateTopicCleanupArgs(c) \o m6ShadowColdDataFlowCtrCleanupArgs(c)
    \o m6ShadowBrokerConfigResetArgs(c) \o m6ShadowNamesrvConfigResetArgs(c)
    \o m6ShadowWritePermAfterRunArgs(c)
=============================================================================
