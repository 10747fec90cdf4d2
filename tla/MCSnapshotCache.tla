-------------------------- MODULE MCSnapshotCache --------------------------
(* TLC instances of SnapshotCache: identities of goroutines, requests and   *)
(* heap cells are interchangeable, and the fields of a heap cell nothing    *)
(* refers to are not observable (Lookup overwrites them on reuse).          *)
EXTENDS SnapshotCache, TLC

Symmetry == Permutations(Tasks) \cup Permutations(Requests)
            \cup Permutations(KeyedStores)

Reachable(s) == s = ListStore \/ ~Free(s)

Observable ==
    <<clock, source, slot, taskVars, reqVars, mutVars,
      [s \in {x \in Stores : Reachable(x)} |->
         <<hasData[s], data[s], lastAt[s], lastErr[s], running[s]>>]>>
=============================================================================
