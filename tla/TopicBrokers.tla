---------------------------- MODULE TopicBrokers ----------------------------
(***************************************************************************)
(* What the models of the commands on one topic share (TopicCommands and   *)
(* StaticTopic): the brokers that a command writes one after the other,    *)
(* and the bounds on what happens. Brokers are numbers, in the order of    *)
(* their names.                                                            *)
(***************************************************************************)
EXTENDS Integers, Sequences, FiniteSets

CONSTANTS
    Brokers,
    MaxCommands,  \* bound on commands that write
    MaxFaults,    \* bound on requests that fail or are refused
    MaxAbsences   \* bound on brokers that lose their master or leave

ASSUME BrokersAssumption == Brokers \subseteq Nat /\ IsFiniteSet(Brokers)
ASSUME BoundsAssumption == MaxCommands \in Nat /\ MaxFaults \in Nat /\ MaxAbsences \in Nat

VARIABLES commands, faults, absences
=============================================================================
