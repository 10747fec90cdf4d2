-------------------------- MODULE MCAdministration --------------------------
(* Two brokers with a slave each, two name servers, one controller, and one topic, *)
(* group or message more than a pool takes at once.                               *)
EXTENDS Administration

TwoNames == <<"a", "b">>
MasterAndSlave == <<0, 1>>
TwoServers == <<1, 2>>
OneController == <<1>>
ThreeItems == <<"x", "y", "z">>

\* The shares that allocateMQ computes, on every small number of queues and
\* consumers: a partition when no consumer is spare, and a panic for each spare one.
Queues == INSTANCE AllocateQueues

ASSUME SharesOfFewQueues ==
    \A n \in 0..7, c \in 1..5 :
        LET shares == [i \in 0..c-1 |-> Queues!allocateMessageQueueAveragely(n, c, i)] IN
        /\ \A i \in 0..c-1 : Queues!Panics(n, c, i) <=> 0 < n /\ n <= i
        /\ UNION {shares[i] : i \in 0..c-1} = 0..n-1
        /\ \A i, j \in 0..c-1 : i # j => shares[i] \cap shares[j] = {}
=============================================================================
