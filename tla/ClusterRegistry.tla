-------------------------- MODULE ClusterRegistry --------------------------
(***************************************************************************)
(* The registry of clusters (internal/server/cluster_registry.go): the     *)
(* clusters of the startup configuration, and those registered through the *)
(* API, which are saved in a file and loaded when the process starts.      *)
(*                                                                         *)
(* Ids are numbers, ordered as sort.Strings orders them. The file holds    *)
(* the definitions, or is Torn: truncated or written in part.              *)
(***************************************************************************)
EXTENDS Integers, Sequences, FiniteSets, Functions

CONSTANTS
    Ids,          \* cluster ids
    Base,         \* ids of the startup configuration
    Definitions,  \* what a definition says besides its id
    Requests, Operations,   \* API requests and what they may ask for
    Torn,         \* content that does not parse
    NoRequest,    \* clusterMu is free
    MaxFaults,    \* bound on I/O errors
    MaxCrashes    \* bound on crashes of the process

ASSUME IdsAssumption == IsFiniteSet(Ids) /\ Ids \subseteq Nat /\ Base \subseteq Ids
ASSUME RequestAssumption == NoRequest \notin Requests
ASSUME OperationAssumption ==
    Operations \subseteq
      [kind : {"register", "update", "delete"}, old : Ids, id : Ids, def : Definitions]

VARIABLES
    disk,                        \* the registry file
    up,                          \* "up", "down", or "panicked" while starting
    persisted, clusters, order,  \* App.persistedClusters, clusters, clusterOrder
    lock,                        \* clusterMu
    request, pc, next,           \* handlers, and nextPersisted of each
    answer, faults, crashes

memVars == <<up, persisted, clusters, order>>
vars == <<disk, memVars, lock, request, pc, next, answer, faults, crashes>>

Registries == UNION {[ids -> Definitions] : ids \in SUBSET (Ids \ Base)}
NoClusters == [id \in {} |-> {}]
Drop(f, id) == Restrict(f, DOMAIN f \ {id})
Put(f, id, def) == [x \in DOMAIN f \cup {id} |-> IF x = id THEN def ELSE f[x]]

ASSUME TornAssumption == Torn \notin Registries
ASSUME BoundsAssumption == MaxFaults \in Nat /\ MaxCrashes \in Nat

\* The ids in ascending order.
Sorted(ids) ==
    CHOOSE s \in [1..Cardinality(ids) -> ids] :
        \A i, j \in 1..Cardinality(ids) : i < j => s[i] < s[j]

\* sort.Strings: an ascending permutation of s.
SortStrings(s) ==
    CHOOSE t \in [DOMAIN s -> Range(s)] :
        /\ \A i, j \in DOMAIN s : i < j => t[i] <= t[j]
        /\ \E p \in Bijection(DOMAIN s, DOMAIN s) : \A i \in DOMAIN s : t[i] = s[p[i]]

\* App.clusters: the definition of each runtime, a startup definition for Base.
Startup == "startup"
Merge(managed) == [id \in Base \cup DOMAIN managed |->
                     IF id \in Base THEN Startup ELSE managed[id]]

Init ==
    /\ disk \in Registries
    /\ up = "up" /\ persisted = disk /\ clusters = Merge(disk)
    /\ order = Sorted(Base \cup DOMAIN disk)
    /\ lock = NoRequest
    /\ request \in [Requests -> Operations]
    /\ pc = [r \in Requests |-> "idle"]
    /\ next = [r \in Requests |-> NoClusters]
    /\ answer = [r \in Requests |-> "none"]
    /\ faults = 0 /\ crashes = 0

-----------------------------------------------------------------------------
(* The handlers, up to the registry operation *)

Ends(r, a) ==
    /\ pc' = [pc EXCEPT ![r] = "done"]
    /\ answer' = [answer EXCEPT ![r] = a]

Goto(r, label) == pc' = [pc EXCEPT ![r] = label] /\ UNCHANGED answer

\* clusterDefinitionForID, read before admission: a DELETE of an unknown cluster
\* is answered 404; a PUT only keeps what it read for the audit record.
Lookup(r) ==
    /\ up = "up" /\ pc[r] = "idle"
    /\ IF request[r].kind = "delete" /\ request[r].old \notin DOMAIN clusters
         THEN Ends(r, "notFound")
         ELSE Goto(r, "admission")
    /\ UNCHANGED <<disk, memVars, lock, request, next, faults, crashes>>

\* beginMutationForCluster refuses the request, or lets it through.
Admission(r) ==
    /\ pc[r] = "admission"
    /\ Ends(r, "refused") \/ Goto(r, "lock")
    /\ UNCHANGED <<disk, memVars, lock, request, next, faults, crashes>>

-----------------------------------------------------------------------------
(* registerCluster, updateCluster, deleteCluster under clusterMu *)

\* The checks of each operation in the order of the code.
Refusal(q) ==
    IF q.kind # "register" /\ q.old \notin DOMAIN clusters THEN "notFound"
    ELSE IF q.kind # "register" /\ q.old \notin DOMAIN persisted THEN "immutable"
    ELSE IF q.id \in DOMAIN clusters /\ q.kind # "delete"
            /\ (q.kind = "update" => q.old # q.id) THEN "exists"
    ELSE "none"

\* Mutant: a rename keeps the old entry.
RenameKeepsOld(q) ==
    IF q.kind = "delete" THEN Drop(persisted, q.old) ELSE Put(persisted, q.id, q.def)

\* The list the operation is about to save.
NextPersisted(q) ==
    CASE q.kind = "register" -> Put(persisted, q.id, q.def)
      [] q.kind = "update" -> Put(Drop(persisted, q.old), q.id, q.def)
      [] q.kind = "delete" -> Drop(persisted, q.old)

BeginChange(r) ==
    /\ pc[r] = "lock" /\ lock = NoRequest
    /\ IF Refusal(request[r]) # "none"
         THEN Ends(r, Refusal(request[r])) /\ UNCHANGED <<lock, next>>
         ELSE /\ lock' = r
              /\ next' = [next EXCEPT ![r] = NextPersisted(request[r])]
              /\ Goto(r, "save")
    /\ UNCHANGED <<disk, memVars, request, faults, crashes>>

\* os.WriteFile opens the file with O_TRUNC ...
Truncate(r) ==
    /\ pc[r] = "save"
    /\ disk' = Torn
    /\ Goto(r, "write")
    /\ UNCHANGED <<memVars, lock, request, next, faults, crashes>>

\* Mutant: the list before the change is written.
WritesOldList(r) ==
    /\ pc[r] = "write"
    /\ disk' = persisted
    /\ Goto(r, "commit")
    /\ UNCHANGED <<memVars, lock, request, next, faults, crashes>>

\* ... and then writes the content.
WriteOut(r) ==
    /\ pc[r] = "write"
    /\ disk' = next[r]
    /\ Goto(r, "commit")
    /\ UNCHANGED <<memVars, lock, request, next, faults, crashes>>

\* The directory, the open or the write fails: 503, and memory is left alone.
SaveFails(r) ==
    /\ pc[r] \in {"save", "write"} /\ faults < MaxFaults
    /\ faults' = faults + 1
    /\ lock' = NoRequest
    /\ Ends(r, "failed")
    /\ UNCHANGED <<disk, memVars, request, next, crashes>>

Place(id) == CHOOSE i \in DOMAIN order : order[i] = id
WithoutPlace(i) == SubSeq(order, 1, i - 1) \o SubSeq(order, i + 1, Len(order))

\* Mutant: a registered id stays at the end.
UnsortedOrder(q) ==
    CASE q.kind = "register" -> Append(order, q.id)
      [] q.kind = "update" -> SortStrings([order EXCEPT ![Place(q.old)] = q.id])
      [] q.kind = "delete" -> WithoutPlace(Place(q.old))

\* A new id is appended, a renamed one replaced in its place, then all are
\* sorted; a deleted one is cut out.
NewOrder(q) ==
    CASE q.kind = "register" -> SortStrings(Append(order, q.id))
      [] q.kind = "update" -> SortStrings([order EXCEPT ![Place(q.old)] = q.id])
      [] q.kind = "delete" -> WithoutPlace(Place(q.old))

\* Saved: the runtime map, the order and the persisted list follow.
Commit(r) ==
    LET q == request[r] IN
    /\ pc[r] = "commit"
    /\ persisted' = next[r]
    /\ clusters' = CASE q.kind = "register" -> Put(clusters, q.id, q.def)
                     [] q.kind = "update" -> Put(Drop(clusters, q.old), q.id, q.def)
                     [] q.kind = "delete" -> Drop(clusters, q.old)
    /\ order' = NewOrder(q)
    /\ lock' = NoRequest
    /\ Ends(r, "ok")
    /\ UNCHANGED <<disk, up, request, next, faults, crashes>>

-----------------------------------------------------------------------------
(* Restarts *)

\* The process dies with its memory; requests in flight get no answer.
ProcessDies ==
    /\ up = "up" /\ crashes < MaxCrashes /\ crashes' = crashes + 1
    /\ up' = "down"
    /\ persisted' = NoClusters /\ clusters' = NoClusters /\ order' = <<>>
    /\ lock' = NoRequest
    /\ pc' = [r \in Requests |-> IF pc[r] = "idle" THEN "idle" ELSE "done"]
    /\ UNCHANGED <<disk, request, next, answer, faults>>

\* New: loadClusterDefinitions panics on a file that does not parse, otherwise
\* the two lists are merged. (mergeClusterDefinitions panics when an id is in
\* both, which needs a changed startup configuration.)
Start ==
    /\ up = "down"
    /\ IF disk = Torn
         THEN up' = "panicked" /\ UNCHANGED <<persisted, clusters, order>>
         ELSE /\ up' = "up" /\ persisted' = disk /\ clusters' = Merge(disk)
              /\ order' = Sorted(Base \cup DOMAIN disk)
    /\ UNCHANGED <<disk, lock, request, pc, next, answer, faults, crashes>>

-----------------------------------------------------------------------------
Next ==
    \/ \E r \in Requests :
         \/ Lookup(r) \/ Admission(r) \/ BeginChange(r) \/ Truncate(r)
         \/ WriteOut(r) \/ SaveFails(r) \/ Commit(r)
    \/ ProcessDies \/ Start

Spec == Init /\ [][Next]_vars

-----------------------------------------------------------------------------
(* Properties *)

TypeOK ==
    /\ disk \in Registries \cup {Torn}
    /\ up \in {"up", "down", "panicked"}
    /\ persisted \in Registries
    /\ DOMAIN clusters \subseteq Ids /\ Range(clusters) \subseteq Definitions \cup {Startup}
    /\ order \in Seq(Ids)
    /\ lock \in Requests \cup {NoRequest}
    /\ request \in [Requests -> Operations] /\ next \in [Requests -> Registries]
    /\ faults \in 0..MaxFaults /\ crashes \in 0..MaxCrashes

\* The three structures of App agree after every mix of operations, failures and
\* restarts: the runtimes are the startup clusters and the persisted ones, each
\* with its definition, and the order lists every id once, sorted.
RegistryIsConsistent ==
    /\ TypeOK
    /\ up = "up" => clusters = Merge(persisted) /\ order = Sorted(DOMAIN clusters)

\* Outside a save, the file is what memory says, or a failed save has torn it:
\* no change is in memory and not on disk, or on disk and not in memory.
DiskFollowsMemory ==
    up = "up" /\ lock = NoRequest /\ disk # Torn => disk = persisted

Promise == INSTANCE AtomicRegistry
    WITH Nothing <- Torn, managed <- IF up = "up" THEN persisted ELSE disk

\* Seen by its clients the registry changes one request at a time, answers each
\* by the state it has then, and a restart shows what was answered, at most one
\* unanswered change more, or nothing at all.
ImplementsAtomicRegistry == Promise!ARSpec
=============================================================================
