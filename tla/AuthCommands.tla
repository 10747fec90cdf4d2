---------------------------- MODULE AuthCommands ----------------------------
(* Users and access control lists: remoting_client.go, its definitions named as there. *)
EXTENDS ClientSteps

\* authUserTargetAddrs: masters and slaves, for each keeps its own users.
authUserTargetAddrs == "brokers"

writeAuthUserAtBroker == Write("user")
writeAuthUser == GivenOrInCluster(authUserTargetAddrs, <<writeAuthUserAtBroker>>)
CreateUser == writeAuthUser
UpdateUser == writeAuthUser
DeleteUser == writeAuthUser

writeAclAtBroker == Write("acl")
writeAcl == GivenOrInCluster(authUserTargetAddrs, <<writeAclAtBroker>>)
CreateAcl == writeAcl
UpdateAcl == writeAcl
DeleteAcl == writeAcl

updateAclConfigAtBroker == Write("plain acl")
deleteAclConfigAtBroker == Write("plain acl")
updateGlobalWhiteAddrAtBroker == Write("white list")
UpdateAclConfig == GivenOrInCluster(authUserTargetAddrs, <<updateAclConfigAtBroker>>)
DeleteAclConfig == GivenOrInCluster(authUserTargetAddrs, <<deleteAclConfigAtBroker>>)
UpdateGlobalWhiteAddr ==
    GivenOrInCluster(authUserTargetAddrs, <<updateGlobalWhiteAddrAtBroker>>)

fetchBrokerClusterAclConfigVersion == Read("acl version")
ClusterAclConfigVersion == {InCluster("masters", <<fetchBrokerClusterAclConfigVersion>>)}

fetchListUser == IfAny(List("users"))
fetchGetUser == IfAny(Read("user"))
fetchListAcl == IfAny(List("acls"))
fetchGetAcl == IfAny(Read("acl"))

\* The first master that has users, or the user, answers for the cluster.
FirstMaster(r) == fetchBrokerClusterInfo \o <<OfCluster(UntilFound("masters", <<r>>))>>
ListUser == {At("given", <<fetchListUser>>), FirstMaster(fetchListUser)}
GetUser == {At("given", <<fetchGetUser>>), FirstMaster(fetchGetUser)}

\* All masters do.
ListAcl == GivenOrInCluster("masters", <<fetchListAcl>>)
GetAcl == GivenOrInCluster("masters", <<fetchGetAcl>>)

\* The items of the source, by name or all of them.
Copied(items, get, list) ==
    {Given(items) \o <<ForEach("source", <<get>>)>>, At("source", <<list>>)}

\* Each is read at the target and then created or updated there.
CopyTo(read, write) ==
    <<[ForEach("target", <<read, write>>) EXCEPT !.noTarget = "ok"]>>

writeAuthUserInfoAtBroker == Write("user")
writeAclInfoAtBroker == Write("acl")
CopyUser == {c \o CopyTo(Read("user"), writeAuthUserInfoAtBroker) :
                c \in Copied("user names", fetchGetUser, fetchListUser)}
CopyAcl == {c \o CopyTo(Read("acl"), writeAclInfoAtBroker) :
                c \in Copied("subjects", fetchGetAcl, fetchListAcl)}

AuthCommands == UNION {CreateUser, UpdateUser, DeleteUser, CreateAcl, UpdateAcl, DeleteAcl,
    UpdateAclConfig, DeleteAclConfig, UpdateGlobalWhiteAddr, ClusterAclConfigVersion,
    ListUser, GetUser, ListAcl, GetAcl, CopyUser, CopyAcl}
=============================================================================
