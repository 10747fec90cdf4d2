--------------------------- MODULE TopicCommands ---------------------------
(***************************************************************************)
(* The commands of the native admin client that change one topic           *)
(* (internal/rocketmq/goadmin/remoting_client.go): updateTopic,            *)
(* updateTopicPerm and deleteTopic. Each reads a name server, writes one   *)
(* master after the other, and then, where the topic is ordered or goes,   *)
(* one name server after the other. Operators run them side by side;       *)
(* nothing locks a topic, and nothing undoes the writes before a failure.  *)
(*                                                                         *)
(* Brokers and name servers are numbers, in the order of their names and   *)
(* of their list. The read and write queue numbers are one number. A       *)
(* broker without a listed master still has a slave, so its name and its   *)
(* route remain. A command that is refused, or cannot read, before its     *)
(* first write changes nothing and is a stuttering step.                   *)
(***************************************************************************)
EXTENDS TopicBrokers, Functions

CONSTANTS
    Operators,    \* who runs commands, one at a time each
    NameServers,
    QueueNums,    \* numbers of queues
    Perms,        \* permissions
    Asked,        \* the configs that updateTopic is asked for
    Cluster,      \* the target of a command for all masters of the cluster
    NoTopic       \* a broker or a route without the topic

ASSUME ServersAssumption ==
    /\ Brokers # {}
    /\ NameServers \subseteq Nat /\ IsFiniteSet(NameServers) /\ NameServers # {}
Configs == [queues : QueueNums, perm : Perms, order : BOOLEAN]

ASSUME AskedAssumption == Asked \subseteq Configs

VARIABLES
    topics,     \* what the master of each broker holds for the topic
    routes,     \* what each name server routes, by broker
    orderConf,  \* ORDER_TOPIC_CONFIG of each name server: queues by broker
    listed,     \* brokers whose master the name servers list
    command     \* the command each operator runs, or ran last

vars == <<topics, routes, orderConf, listed, command, commands, faults, absences>>

NoOrder == [b \in {} |-> 0]

Running(o) == command[o].pc \in {"brokers", "servers"}

-----------------------------------------------------------------------------
(* A command up to its first write *)

\* Numbers in ascending order: the i-th has i - 1 below it.
Sorted(numbers) == [i \in 1..Cardinality(numbers) |->
    CHOOSE x \in numbers : Cardinality({y \in numbers : y < x}) = i - 1]

\* The masters of the cluster, or the one master whose address is given.
Targets(target) == IF target = Cluster THEN listed ELSE {target}

\* After the brokers, the name servers: they list the queues of an ordered
\* topic, and they lose the routes of a topic that goes.
AfterBrokers(c) ==
    IF c.kind = "delete" \/ (c.kind = "update" /\ c.config.order) THEN "servers" ELSE "ok"

AfterServers(c) == IF c.refused THEN "failed" ELSE "ok"

\* Where a command is, given what it still has to write.
Advanced(c) ==
    LET next == IF c.pc = "brokers" /\ c.todo = <<>> THEN AfterBrokers(c) ELSE c.pc
    IN  [c EXCEPT !.pc = IF next = "servers" /\ c.servers = <<>> THEN AfterServers(c) ELSE next]

\* Repetitions of one command do not disturb each other.
Same(c, d) ==
    c.kind = d.kind /\ c.config = d.config /\ c.target = d.target /\ c.masters = d.masters

Begins(o, kind, config, target) ==
    LET c == [kind |-> kind, config |-> config, target |-> target, masters |-> listed,
              pc |-> "brokers", todo |-> Sorted(Targets(target)), written |-> {},
              servers |-> Sorted(NameServers), refused |-> FALSE,
              undisturbed |-> TRUE,
              before |-> IF kind = "perm" THEN [topics |-> topics, routes |-> routes]
                                          ELSE NoTopic]
        Disturbs(p) == command[p].kind # "none" /\ ~Same(command[p], c)
        undisturbed == \A p \in Operators : Running(p) => ~Disturbs(p)
    IN  /\ ~Running(o) /\ commands < MaxCommands
        /\ command' = [p \in Operators |->
                         IF p = o THEN [Advanced(c) EXCEPT !.undisturbed = undisturbed]
                         ELSE [command[p] EXCEPT !.undisturbed = @ /\ ~Disturbs(p)]]
        /\ commands' = commands + 1
        /\ UNCHANGED <<topics, routes, orderConf, listed, faults, absences>>

UpdateTopic(o, config, target) == Begins(o, "update", config, target)

\* Mutant: the number of queues is left at its default.
DefaultQueues(base, perm) ==
    [queues |-> CHOOSE q \in QueueNums : TRUE, perm |-> perm, order |-> FALSE]

\* baseQueue with the new permission. It is QueueDatas[0], of whichever broker
\* the name server puts first, and not of the broker that is written.
PermConfig(base, perm) == [queues |-> base.queues, perm |-> perm, order |-> FALSE]

\* A broker that is no master of the route, or has the permission, is not written.
UpdateTopicPerm(o, perm, target) ==
    \E n \in NameServers : \E b \in {x \in Brokers : routes[n][x] # NoTopic} :
        /\ target # Cluster => /\ target \in listed /\ routes[n][target] # NoTopic
                               /\ routes[n][target].perm # perm
        /\ Begins(o, "perm", PermConfig(routes[n][b], perm), target)

DeleteTopic(o) == Begins(o, "delete", NoTopic, Cluster)

-----------------------------------------------------------------------------
(* A command write by write *)

Takes(b, c) == topics' = [topics EXCEPT ![b] = c.config]

\* updateTopicAtBroker, deleteTopicAtBroker
WriteBroker(o) ==
    LET c == command[o]
        b == Head(c.todo)
    IN  /\ c.pc = "brokers"
        /\ Takes(b, c)
        /\ command' = [command EXCEPT ![o] =
               Advanced([c EXCEPT !.todo = Tail(@), !.written = @ \cup {b}])]
        /\ UNCHANGED <<routes, orderConf, listed, commands, faults, absences>>

\* Mutant: the error of one master is ignored.
SkipsBroker(c) == IF c.pc = "brokers" THEN Advanced([c EXCEPT !.todo = Tail(@)])
                                      ELSE [c EXCEPT !.pc = "failed"]

Abandons(c) == [c EXCEPT !.pc = "failed"]

\* The master refuses, cannot be reached, or its answer is lost.
WriteBrokerFails(o) ==
    LET c == command[o]
    IN  /\ c.pc = "brokers" /\ faults < MaxFaults
        /\ Takes(Head(c.todo), c) \/ UNCHANGED topics
        /\ command' = [command EXCEPT ![o] = Abandons(c)]
        /\ faults' = faults + 1
        /\ UNCHANGED <<routes, orderConf, listed, commands, absences>>

\* What name server n does with updateKvConfig or deleteTopicInNamesrv.
Obeys(n, c) ==
    IF c.kind = "delete"
      THEN /\ routes' = [routes EXCEPT ![n] = [b \in Brokers |-> NoTopic]]
           /\ UNCHANGED orderConf
      ELSE /\ orderConf' = [orderConf EXCEPT ![n] = [b \in c.written |-> c.config.queues]]
           /\ UNCHANGED routes

\* Mutant: the last answer decides.
LastAnswer(c, refused) == Advanced([c EXCEPT !.servers = Tail(@), !.refused = refused])

\* lastErr
Answered(c, refused) == Advanced([c EXCEPT !.servers = Tail(@), !.refused = @ \/ refused])

\* invokeAllNameServers
WriteServer(o) ==
    /\ command[o].pc = "servers"
    /\ Obeys(Head(command[o].servers), command[o])
    /\ command' = [command EXCEPT ![o] = Answered(@, FALSE)]
    /\ UNCHANGED <<topics, listed, commands, faults, absences>>

\* It answers with another code: the next ones are asked all the same.
ServerRefuses(o) ==
    /\ command[o].pc = "servers" /\ faults < MaxFaults
    /\ command' = [command EXCEPT ![o] = Answered(@, TRUE)]
    /\ faults' = faults + 1
    /\ UNCHANGED <<topics, routes, orderConf, listed, commands, absences>>

\* It cannot be reached, or its answer is lost. For the master given by its
\* address, brokerNameForOrderConf fails with the same effect.
WriteServerFails(o) ==
    LET c == command[o]
    IN  /\ c.pc = "servers" /\ faults < MaxFaults
        /\ Obeys(Head(c.servers), c) \/ UNCHANGED <<routes, orderConf>>
        /\ command' = [command EXCEPT ![o] = Abandons(c)]
        /\ faults' = faults + 1
        /\ UNCHANGED <<topics, listed, commands, absences>>

-----------------------------------------------------------------------------
(* Brokers and name servers *)

\* A master registers: the name server routes the topics it has.
Registers(b, n) ==
    /\ b \in listed /\ topics[b] # NoTopic
    /\ routes' = [routes EXCEPT ![n][b] = topics[b]]
    /\ UNCHANGED <<topics, orderConf, listed, command, commands, faults, absences>>

MasterLeaves(b) ==
    /\ b \in listed /\ absences < MaxAbsences
    /\ listed' = listed \ {b} /\ absences' = absences + 1
    /\ UNCHANGED <<topics, routes, orderConf, command, commands, faults>>

MasterReturns(b) ==
    /\ listed' = listed \cup {b}
    /\ UNCHANGED <<topics, routes, orderConf, command, commands, faults, absences>>

NoCommand == [kind |-> "none", config |-> NoTopic, target |-> Cluster, masters |-> {},
              pc |-> "idle", todo |-> <<>>, written |-> {}, servers |-> <<>>,
              refused |-> FALSE, undisturbed |-> TRUE, before |-> NoTopic]

Init ==
    /\ topics = [b \in Brokers |-> NoTopic]
    /\ routes = [n \in NameServers |-> [b \in Brokers |-> NoTopic]]
    /\ orderConf = [n \in NameServers |-> NoOrder]
    /\ listed = Brokers
    /\ command = [o \in Operators |-> NoCommand]
    /\ commands = 0 /\ faults = 0 /\ absences = 0

Next ==
    \/ \E o \in Operators :
           \/ \E target \in Brokers \cup {Cluster} :
                  \/ \E config \in Asked : UpdateTopic(o, config, target)
                  \/ \E perm \in Perms : UpdateTopicPerm(o, perm, target)
           \/ DeleteTopic(o)
           \/ WriteBroker(o) \/ WriteBrokerFails(o)
           \/ WriteServer(o) \/ ServerRefuses(o) \/ WriteServerFails(o)
    \/ \E b \in Brokers : \/ MasterLeaves(b) \/ MasterReturns(b)
                          \/ \E n \in NameServers : Registers(b, n)

Spec == Init /\ [][Next]_vars
-----------------------------------------------------------------------------
(* Properties *)

\* Type invariant. A command that writes brokers or name servers has one left.
TypeOK ==
    /\ topics \in [Brokers -> Configs \cup {NoTopic}]
    /\ routes \in [NameServers -> [Brokers -> Configs \cup {NoTopic}]]
    /\ \A n \in NameServers : /\ DOMAIN orderConf[n] \subseteq Brokers
                              /\ Range(orderConf[n]) \subseteq QueueNums
    /\ listed \subseteq Brokers
    /\ \A o \in Operators :
           /\ command[o].kind \in {"none", "update", "perm", "delete"}
           /\ command[o].pc \in {"idle", "brokers", "servers", "ok", "failed"}
           /\ command[o].pc = "brokers" => command[o].todo # <<>>
           /\ command[o].pc = "servers" => command[o].servers # <<>>
           /\ command[o].written \subseteq Brokers
    /\ commands \in 0..MaxCommands /\ faults \in 0..MaxFaults /\ absences \in 0..MaxAbsences

\* c has answered ok, and no other command than its own repetitions ran
\* beside it or has begun since.
Holds(c, kind) == c.kind = kind /\ c.pc = "ok" /\ c.undisturbed

\* UpdateTopic, whatever failed before it and although it may be repeated while
\* it runs: when it answers, every master that the cluster listed has the config,
\* and each name server lists the queues of exactly those masters.
AnsweredUpdatesHold ==
    /\ TypeOK
    /\ \A o \in Operators : LET c == command[o] IN Holds(c, "update") =>
        /\ \A b \in Brokers : (IF c.target = Cluster THEN b \in c.masters ELSE b = c.target)
                              => b \in c.written /\ topics[b] = c.config
        /\ c.config.order => \A n \in NameServers :
               orderConf[n] = [b \in c.written |-> c.config.queues]

\* DeleteTopic: a topic deleted while all masters are listed does not come back,
\* although masters register while it runs (the name servers are told last).
DeletesAreFinal ==
    \A o \in Operators : Holds(command[o], "delete") =>
        /\ \A b \in command[o].masters : topics[b] = NoTopic
        /\ command[o].masters = Brokers =>
               \A n \in NameServers, b \in Brokers : routes[n][b] = NoTopic

\* UpdateTopicPerm of a topic that is the same everywhere, with its routes up to
\* date: the masters it wrote differ in the permission, the others in nothing.
PermUpdatesOfUniformTopics ==
    \A o \in Operators : \A t \in Configs : LET c == command[o] IN
        /\ Holds(c, "perm") /\ ~t.order
        /\ \A b \in Brokers : c.before.topics[b] = t
        /\ \A n \in NameServers, b \in Brokers : c.before.routes[n][b] = t
        => \A b \in Brokers :
               topics[b] = IF b \in c.written THEN [t EXCEPT !.perm = c.config.perm] ELSE t
=============================================================================
