-------------------------- MODULE MCTopicCommands --------------------------
(* What updateTopic is asked for: more queues, and the order that goes with them. *)
EXTENDS TopicCommands, TLC

MCAsked == {[queues |-> 1, perm |-> 6, order |-> FALSE],
            [queues |-> 2, perm |-> 6, order |-> FALSE],
            [queues |-> 2, perm |-> 6, order |-> TRUE]}

OperatorSymmetry == Permutations(Operators)
=============================================================================
