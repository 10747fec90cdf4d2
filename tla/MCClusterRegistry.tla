------------------------- MODULE MCClusterRegistry -------------------------
(* TLC instances of ClusterRegistry: cluster 2 is of the startup            *)
(* configuration, so a managed id sorts on either side of it.              *)
EXTENDS ClusterRegistry

CONSTANTS d1, d2

Registration(id, def) == [kind |-> "register", old |-> id, id |-> id, def |-> def]
Update(old, id, def) == [kind |-> "update", old |-> old, id |-> id, def |-> def]
Deletion(id) == [kind |-> "delete", old |-> id, id |-> id, def |-> d1]

MCOperations ==
    {Registration(id, d1) : id \in Ids} \cup {Deletion(id) : id \in Ids}
    \cup {Update(old, id, d2) : old, id \in Ids}
=============================================================================
