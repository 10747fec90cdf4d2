---------------------------- MODULE AtomicBatch ----------------------------
(***************************************************************************)
(* What an online configuration change promises (the answers of            *)
(* applyRuntimeConfigChange): a request changes all the nodes of its batch *)
(* at once or none of them, unless it answers that its rollback is         *)
(* incomplete.                                                             *)
(***************************************************************************)
EXTENDS Sequences, Functions

CONSTANTS
    Nodes,       \* brokers or name servers of the cluster
    Values,      \* values of the configuration key
    Requests,    \* requests, each made once
    Batches      \* the target lists a request may resolve to

VARIABLES
    config,      \* the value of the key on each node
    wanted,      \* the value each request asks for
    answer       \* the answer of each request

ABInit ==
    /\ config \in [Nodes -> Values]
    /\ wanted \in [Requests -> Values]
    /\ answer = [r \in Requests |-> "none"]

Answered(r, a) == answer[r] = "none" /\ answer' = [answer EXCEPT ![r] = a]

Set(nodes, v) == [n \in Nodes |-> IF n \in nodes THEN v ELSE config[n]]

\* Every node of a batch takes the value.
Change(r) ==
    /\ Answered(r, "ok")
    /\ \E b \in Batches : config' = Set(Range(b), wanted[r])
    /\ UNCHANGED wanted

\* Nothing was written, or everything written was undone.
Refuse(r) ==
    /\ Answered(r, "rejected") \/ Answered(r, "restored")
    /\ UNCHANGED <<config, wanted>>

\* The answer says so: some nodes of a batch keep the new value.
Break(r) ==
    /\ Answered(r, "incomplete")
    /\ \E b \in Batches : \E left \in SUBSET Range(b) : config' = Set(left, wanted[r])
    /\ UNCHANGED wanted

ABNext == \E r \in Requests : Change(r) \/ Refuse(r) \/ Break(r)

ABSpec == ABInit /\ [][ABNext]_<<config, wanted, answer>>
=============================================================================
