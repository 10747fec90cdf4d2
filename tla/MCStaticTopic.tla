--------------------------- MODULE MCStaticTopic ---------------------------
(* TLC instances of StaticTopic: three brokers, the last in a cluster of its own. *)
EXTENDS StaticTopic

MCClusterOf == [b \in Brokers |-> IF b = 3 THEN "y" ELSE "x"]
=============================================================================
