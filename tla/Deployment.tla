----------------------------- MODULE Deployment -----------------------------
(***************************************************************************)
(* The servers of a deployment and how commands pick them. A broker is a   *)
(* pair of its name and its id, 0 for the master. Names and then ids are   *)
(* taken in their order, name servers and controllers in that of the       *)
(* arguments, items in that of the answer that held them.                  *)
(***************************************************************************)
EXTENDS Integers, Sequences, FiniteSets, SequencesExt

CONSTANTS
    BrokerNames,  \* in their order
    BrokerIds,    \* in their order
    NameServers, Controllers,
    ItemOrder     \* of the items

ASSUME DeploymentAssumption ==
    /\ BrokerNames \in Seq(STRING) /\ IsInjective(BrokerNames)
    /\ BrokerIds \in Seq(Nat) /\ IsInjective(BrokerIds)
    /\ NameServers \in Seq(Nat) /\ Controllers \in Seq(Nat)
    /\ IsInjective(ItemOrder)

NotForAnItem == "none"

\* sortedBrokerIDKeys, with the brokers of a cluster by name.
brokers == [k \in 1 .. Len(BrokerNames) * Len(BrokerIds) |->
    <<BrokerNames[((k - 1) \div Len(BrokerIds)) + 1], BrokerIds[((k - 1) % Len(BrokerIds)) + 1]>>]
splitNameServers == [k \in DOMAIN NameServers |-> <<"name server", NameServers[k]>>]
controllers == [k \in DOMAIN Controllers |-> <<"controller", Controllers[k]>>]

\* What is not one of the servers that are counted: the address or the file that
\* is given, the broker a queue or a client happens to be at.
Elsewhere(who) == <<who, 0>>
Others == {"given", "local", "source", "target", "controller", "leader", "its broker",
           "its brokers", "mqadmin", "native"}

Deployed == ToSet(brokers) \cup ToSet(splitNameServers) \cup ToSet(controllers)
           \cup {Elsewhere(o) : o \in Others}
Registered == ToSet(brokers)

\* Of the brokers that are listed.
Listed(view) == SelectSeq(brokers, LAMBDA b : b \in view)
ItemsKnown == ToSet(ItemOrder)

IsMaster(b) == b[2] = 0
Ids(view, name) == {b[2] : b \in {v \in view : v[1] = name}}

\* The master, or the lowest id of the name without one.
selectAddr(view) ==
    SelectSeq(brokers, LAMBDA b : b \in view /\ \A id \in Ids(view, b[1]) : b[2] <= id)

First(s) == IF s = <<>> THEN <<>> ELSE <<Head(s)>>

ServersOf(who, view) ==
    CASE who = "masters"        -> SelectSeq(Listed(view), IsMaster)
      [] who = "brokers"        -> Listed(view)
      [] who = "selected"       -> selectAddr(view)
      [] who = "first"          -> First(selectAddr(view))
      [] who = "first master"   -> First(SelectSeq(Listed(view), IsMaster))
      [] who = "a broker"       -> SelectSeq(Listed(view), LAMBDA b : b[1] = Head(BrokerNames))
      [] who = "masters and slaves" ->
            SelectSeq(Listed(view), LAMBDA b : 0 \in Ids(view, b[1]))
      [] who = "name servers"   -> splitNameServers
      [] who = "controllers"    -> controllers
      [] who = "readers"        -> <<Elsewhere("native"), Elsewhere("mqadmin")>>
      [] OTHER                  -> <<Elsewhere(who)>>

\* Once, or once for every item.
TargetsInOrder(who, each, view, found) ==
    LET servers == ServersOf(who, view)
        items == SelectSeq(ItemOrder, LAMBDA t : t \in found)
    IN  IF each
        THEN [k \in 1 .. Len(items) * Len(servers) |->
                <<servers[((k - 1) % Len(servers)) + 1], items[((k - 1) \div Len(servers)) + 1]>>]
        ELSE [k \in DOMAIN servers |-> <<servers[k], NotForAnItem>>]
=============================================================================
