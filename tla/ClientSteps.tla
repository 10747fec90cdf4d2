---------------------------- MODULE ClientSteps ----------------------------
(* What the commands of the admin client (internal/rocketmq/goadmin/
   remoting_client.go) share: name servers asked in turn, and the brokers of a
   cluster or of a route. *)
EXTENDS CommandSteps

-----------------------------------------------------------------------------
(* Name servers *)

\* One name server after the other until one answers, with whatever code.
invokeNameServer(r) ==
    <<[UntilFound("name servers", <<r>>) EXCEPT !.lost = "pass", !.noRow = "failed"]>>

fetchBrokerClusterInfo == invokeNameServer(Table("clusters"))

TopicList == invokeNameServer(List("topics"))

TopicRoute == invokeNameServer(Table("route"))

\* A refusal is remembered and the next name server is asked all the same.
invokeAllNameServers(of) == <<[InTurn("name servers", <<Write(of)>>) EXCEPT !.refused = "later"]>>

-----------------------------------------------------------------------------
(* Brokers *)

\* A broker whose address is given, or those of a cluster.
InCluster(who, reqs) == fetchBrokerClusterInfo \o <<OfCluster(InTurn(who, reqs))>>
At(who, reqs) == <<InTurn(who, reqs)>>
GivenOrInCluster(who, reqs) == {At("given", reqs), InCluster(who, reqs)}

\* The brokers that a route names, of which there must be one.
OnRoute(who, reqs) == TopicRoute \o <<WithTarget(InTurn(who, reqs))>>
=============================================================================
