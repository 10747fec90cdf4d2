--------------------------- MODULE SnapshotCache ---------------------------
(***************************************************************************)
(* The snapshot cache of one cluster runtime (internal/server/snapshot.go) *)
(* for one kind of cluster data, together with the HTTP handlers that read *)
(* it and the write handlers that invalidate it.                           *)
(*                                                                         *)
(* Domain "topic":    the list snapshot is topicSnapshot, the keyed stores *)
(*   are topicRouteSnapshots, topicStatusSnapshots, topicMessageSnapshots; *)
(*   the writes are topic upsert, topic delete and message send.           *)
(* Domain "consumer": the list snapshot is consumerSnapshot, the keyed     *)
(*   store is consumerDetailSnapshots; the write is the offset reset.      *)
(*                                                                         *)
(* Data are version numbers: source counts the writes the RocketMQ cluster *)
(* has applied, and a loaded snapshot holds the version its loader read.   *)
(* Store objects live on a heap of store identities, because a reader or a *)
(* loader may still hold one that clear() or delete() took off its map.    *)
(***************************************************************************)
EXTENDS Integers, Sequences, FiniteSets

CONSTANTS
    Domain,      \* "topic" or "consumer"
    RouteKeys, StatusKeys, MessageKeys,   \* keys of the per-topic families
    DetailKey, GroupKey,  \* consumerDetail keys (group, topic) and (group, "")
    Kinds,       \* the write handlers of the domain that are called
    Asked,       \* the keys, and ListStore for the list, that GETs ask for
    ListStore,   \* the list snapshot, allocated with the runtime
    KeyedStores, \* heap cells for the stores of the keyed families
    NoStore,     \* a key without a store
    Tasks,       \* goroutines started by refreshAsyncWith
    Requests,    \* concurrent GET handlers
    Mutators,    \* concurrent write handlers
    TTL,         \* snapshot time to live, in clock ticks
    MaxClock,    \* bound on the clock
    MaxWrites    \* bound on the writes applied to the cluster

Keys == IF Domain = "topic"
          THEN RouteKeys \cup StatusKeys \cup MessageKeys
          ELSE {DetailKey, GroupKey}

\* The key sets a write handler drops, in the order it drops them.
Batches == IF Domain = "topic"
             THEN <<RouteKeys, StatusKeys, MessageKeys>>
             ELSE <<{DetailKey}, {GroupKey}>>

\* The write handlers that call refreshAsync on the list snapshot; a message
\* send leaves the topic list alone.
RefreshesList(kind) == kind \in {"upsert", "delete", "reset"}

Stores == {ListStore} \cup KeyedStores
Targets == {ListStore} \cup Keys
NoData == -1                        \* the response of a view without data

ASSUME DomainAssumption ==
    /\ Domain \in {"topic", "consumer"}
    /\ Kinds \subseteq (IF Domain = "topic" THEN {"upsert", "delete", "send"}
                                            ELSE {"reset"})
ASSUME HeapAssumption ==
    /\ ListStore \notin KeyedStores
    /\ ListStore \notin Keys
    /\ NoStore \notin Stores
    /\ Asked \subseteq Targets
ASSUME BoundsAssumption == TTL \in Nat /\ MaxClock \in Nat /\ MaxWrites \in Nat

VARIABLES
    clock, source,
    slot,                                     \* keyedSnapshotStore.stores
    hasData, data, lastAt, lastErr, running,  \* snapshotStore fields
    taskPc, taskStore, taskVer,               \* refresh goroutines
    reqPc, reqTarget, reqForce, reqStart, reqStore,  \* GET handlers
    mutPc, mutStep, mutKind, mutVer,          \* write handlers
    \* History variables, read by no guard:
    acked,     \* highest version whose write handler has answered
    seen,      \* the highest version a GET of the list has answered with
    reqFloor,  \* acked when the GET began
    reqSeen,   \* seen when the GET began
    born       \* source when the store object was created

clockVars == <<clock, source>>
storeVars == <<hasData, data, lastAt, lastErr, running>>
taskVars  == <<taskPc, taskStore, taskVer>>
reqVars   == <<reqPc, reqTarget, reqForce, reqStart, reqStore,
               reqFloor, reqSeen, seen>>
mutVars   == <<mutPc, mutStep, mutKind, mutVer, acked>>
vars == <<clockVars, slot, storeVars, taskVars, reqVars, mutVars, born>>

Versions == 0..MaxWrites
TaskPcs == {"idle", "loading", "loaded", "failed"}
ReqPcs == {"idle", "lookup", "precheck", "check", "trigger", "view"}
MutPcs == {"idle", "invalidate", "refreshList", "answer"}

Init ==
    /\ clock = 0 /\ source = 0
    /\ slot = [k \in Keys |-> NoStore]
    /\ hasData = [s \in Stores |-> FALSE]
    /\ data = [s \in Stores |-> 0]
    /\ lastAt = [s \in Stores |-> 0]
    /\ lastErr = [s \in Stores |-> FALSE]
    /\ running = [s \in Stores |-> FALSE]
    /\ taskPc = [t \in Tasks |-> "idle"]
    /\ taskStore = [t \in Tasks |-> ListStore]
    /\ taskVer = [t \in Tasks |-> 0]
    /\ reqPc = [r \in Requests |-> "idle"]
    /\ reqTarget = [r \in Requests |-> ListStore]
    /\ reqForce = [r \in Requests |-> FALSE]
    /\ reqStart = [r \in Requests |-> 0]
    /\ reqStore = [r \in Requests |-> ListStore]
    /\ mutPc = [m \in Mutators |-> "idle"]
    /\ mutStep = [m \in Mutators |-> 1]
    /\ mutKind = [m \in Mutators |-> "none"]
    /\ mutVer = [m \in Mutators |-> 0]
    /\ acked = 0
    /\ seen = NoData
    /\ reqFloor = [r \in Requests |-> 0]
    /\ reqSeen = [r \in Requests |-> NoData]
    /\ born = [s \in Stores |-> 0]

-----------------------------------------------------------------------------
(* snapshotStore: staleness and the single-flight refresh *)

\* needsRefresh of refreshIfStaleWith, at the time now the caller captured.
NeedsRefresh(s, now) == ~hasData[s] \/ now > lastAt[s] + TTL

\* The running flag is set and a goroutine started.
StartRefresh(s) ==
    \E t \in Tasks :
      /\ taskPc[t] = "idle"
      /\ taskPc' = [taskPc EXCEPT ![t] = "loading"]
      /\ taskStore' = [taskStore EXCEPT ![t] = s]
      /\ running' = [running EXCEPT ![s] = TRUE]

\* Mutant: a request waits for the running refresh.
WaitsForRefresh(s) == ~running[s] /\ StartRefresh(s)

\* refreshAsyncWith: refused while a refresh runs.
RefreshAsync(s) ==
    IF running[s] THEN UNCHANGED <<running, taskPc, taskStore>> ELSE StartRefresh(s)

\* The loader reads the cluster (a mqadmin or remoting query) or fails.
LoaderReturns(t) ==
    /\ taskPc[t] = "loading"
    /\ \/ /\ taskPc' = [taskPc EXCEPT ![t] = "loaded"]
          /\ taskVer' = [taskVer EXCEPT ![t] = source]
       \/ /\ taskPc' = [taskPc EXCEPT ![t] = "failed"]
          /\ UNCHANGED taskVer
    /\ UNCHANGED <<clockVars, slot, storeVars, taskStore, reqVars, mutVars, born>>

\* The goroutine locks the store and publishes its outcome; an error keeps
\* the data of the last successful load.
RefreshCompletes(t) ==
    LET s == taskStore[t] IN
    /\ taskPc[t] \in {"loaded", "failed"}
    /\ running' = [running EXCEPT ![s] = FALSE]
    /\ lastErr' = [lastErr EXCEPT ![s] = taskPc[t] = "failed"]
    /\ IF taskPc[t] = "loaded"
         THEN /\ data' = [data EXCEPT ![s] = taskVer[t]]
              /\ hasData' = [hasData EXCEPT ![s] = TRUE]
              /\ lastAt' = [lastAt EXCEPT ![s] = clock]
         ELSE UNCHANGED <<data, hasData, lastAt>>
    /\ taskPc' = [taskPc EXCEPT ![t] = "idle"]
    /\ taskStore' = [taskStore EXCEPT ![t] = ListStore]
    /\ taskVer' = [taskVer EXCEPT ![t] = 0]
    /\ UNCHANGED <<clockVars, slot, reqVars, mutVars, born>>

-----------------------------------------------------------------------------
(* GET handlers *)

\* A GET of the list (writeSnapshot; refresh is POST /api/refresh) or of a
\* keyed detail, with or without refresh=true.
BeginGet(r, target, force) ==
    /\ reqPc[r] = "idle"
    /\ reqTarget' = [reqTarget EXCEPT ![r] = target]
    /\ reqForce' = [reqForce EXCEPT ![r] = force]
    /\ reqStart' = [reqStart EXCEPT ![r] = clock]
    /\ reqPc' = [reqPc EXCEPT ![r] = IF target # ListStore THEN "lookup"
                                     ELSE IF force THEN "trigger" ELSE "check"]
    /\ reqFloor' = [reqFloor EXCEPT ![r] = acked]
    /\ reqSeen' = [reqSeen EXCEPT ![r] = IF target = ListStore THEN seen ELSE NoData]
    /\ UNCHANGED <<clockVars, slot, storeVars, taskVars, reqStore, seen,
                   mutVars, born>>

\* A heap cell nothing refers to any more (Go's garbage collector).
Free(s) ==
    /\ \A k \in Keys : slot[k] # s
    /\ \A t \in Tasks : taskStore[t] # s
    /\ \A r \in Requests : reqStore[r] # s

\* keyedSnapshotStore.snapshot: the store of the key, created on first use.
Lookup(r) ==
    LET k == reqTarget[r] IN
    /\ reqPc[r] = "lookup"
    /\ reqPc' = [reqPc EXCEPT ![r] = IF reqForce[r] THEN "trigger" ELSE "precheck"]
    /\ \/ /\ slot[k] # NoStore
          /\ reqStore' = [reqStore EXCEPT ![r] = slot[k]]
          /\ UNCHANGED <<slot, storeVars, born>>
       \/ /\ slot[k] = NoStore
          /\ \E s \in KeyedStores :
               /\ Free(s)
               /\ slot' = [slot EXCEPT ![k] = s]
               /\ reqStore' = [reqStore EXCEPT ![r] = s]
               /\ hasData' = [hasData EXCEPT ![s] = FALSE]
               /\ data' = [data EXCEPT ![s] = 0]
               /\ lastAt' = [lastAt EXCEPT ![s] = 0]
               /\ lastErr' = [lastErr EXCEPT ![s] = FALSE]
               /\ running' = [running EXCEPT ![s] = FALSE]
               /\ born' = [born EXCEPT ![s] = source]
    /\ UNCHANGED <<clockVars, taskVars, reqTarget, reqForce, reqStart,
                   reqFloor, reqSeen, seen, mutVars>>

\* refreshInteractiveSnapshot: without data and after an error, wait for an
\* explicit retry instead of refreshing.
Precheck(r) ==
    LET s == reqStore[r] IN
    /\ reqPc[r] = "precheck"
    /\ reqPc' = [reqPc EXCEPT ![r] =
                   IF hasData[s] \/ ~lastErr[s] \/ running[s] THEN "check" ELSE "view"]
    /\ UNCHANGED <<clockVars, slot, storeVars, taskVars, reqTarget, reqForce,
                   reqStart, reqStore, reqFloor, reqSeen, seen, mutVars, born>>

\* refreshIfStaleWith up to RUnlock: the decision leaves the critical section.
CheckStale(r) ==
    /\ reqPc[r] = "check"
    /\ reqPc' = [reqPc EXCEPT ![r] =
                   IF NeedsRefresh(reqStore[r], reqStart[r]) THEN "trigger" ELSE "view"]
    /\ UNCHANGED <<clockVars, slot, storeVars, taskVars, reqTarget, reqForce,
                   reqStart, reqStore, reqFloor, reqSeen, seen, mutVars, born>>

\* The critical section of refreshAsyncWith, entered on an earlier decision.
TriggerRefresh(r) ==
    /\ reqPc[r] = "trigger"
    /\ RefreshAsync(reqStore[r])
    /\ reqPc' = [reqPc EXCEPT ![r] = "view"]
    /\ UNCHANGED <<clockVars, slot, hasData, data, lastAt, lastErr, taskVer,
                   reqTarget, reqForce, reqStart, reqStore, reqFloor,
                   reqSeen, seen, mutVars, born>>

\* What view reports of the data of a store.
ViewData(s) == IF hasData[s] THEN data[s] ELSE NoData

\* view, then the JSON response; the handler and its references are gone.
View(r) ==
    LET answer == ViewData(reqStore[r]) IN
    /\ reqPc[r] = "view"
    /\ seen' = IF reqTarget[r] = ListStore /\ answer > seen THEN answer ELSE seen
    /\ reqPc' = [reqPc EXCEPT ![r] = "idle"]
    /\ reqTarget' = [reqTarget EXCEPT ![r] = ListStore]
    /\ reqForce' = [reqForce EXCEPT ![r] = FALSE]
    /\ reqStart' = [reqStart EXCEPT ![r] = 0]
    /\ reqStore' = [reqStore EXCEPT ![r] = ListStore]
    /\ reqFloor' = [reqFloor EXCEPT ![r] = 0]
    /\ reqSeen' = [reqSeen EXCEPT ![r] = NoData]
    /\ UNCHANGED <<clockVars, slot, storeVars, taskVars, mutVars, born>>

-----------------------------------------------------------------------------
(* Write handlers: provider call, invalidation, list refresh, answer *)

\* The provider reports success: the cluster has applied the write.
Mutate(m, kind) ==
    /\ mutPc[m] = "idle" /\ source < MaxWrites
    /\ source' = source + 1
    /\ mutKind' = [mutKind EXCEPT ![m] = kind]
    /\ mutVer' = [mutVer EXCEPT ![m] = source + 1]
    /\ mutPc' = [mutPc EXCEPT ![m] = "invalidate"]
    /\ UNCHANGED <<clock, slot, storeVars, taskVars, reqVars, mutStep, acked, born>>

\* The provider reports an error although the cluster did apply the write (a
\* timeout, a partial batch): the handler answers 400 and invalidates nothing.
MutateFails ==
    /\ source < MaxWrites
    /\ source' = source + 1
    /\ UNCHANGED <<clock, slot, storeVars, taskVars, reqVars, mutVars, born>>

\* Mutant: off by one.
PastLastBatch(m) == mutStep[m] > Len(Batches)

LastBatch(m) == mutStep[m] = Len(Batches)

\* Mutant: the stores are emptied but stay, and a load in flight fills them again.
EmptiesStores(m) ==
    /\ mutPc[m] = "invalidate"
    /\ hasData' = [s \in Stores |->
         hasData[s] /\ \A k \in Keys : k \in Batches[mutStep[m]] => slot[k] # s]
    /\ mutStep' = [mutStep EXCEPT ![m] = IF LastBatch(m) THEN 1 ELSE @ + 1]
    /\ mutPc' = [mutPc EXCEPT ![m] =
                   IF ~LastBatch(m) THEN "invalidate"
                   ELSE IF RefreshesList(mutKind[m]) THEN "refreshList" ELSE "answer"]
    /\ UNCHANGED <<clockVars, slot, data, lastAt, lastErr, running, taskVars, reqVars,
                   mutKind, mutVer, acked, born>>

\* One clear() or delete(): the stores go off the map, not off the heap.
Invalidate(m) ==
    /\ mutPc[m] = "invalidate"
    /\ slot' = [k \in Keys |-> IF k \in Batches[mutStep[m]] THEN NoStore ELSE slot[k]]
    /\ mutStep' = [mutStep EXCEPT ![m] = IF LastBatch(m) THEN 1 ELSE @ + 1]
    /\ mutPc' = [mutPc EXCEPT ![m] =
                   IF ~LastBatch(m) THEN "invalidate"
                   ELSE IF RefreshesList(mutKind[m]) THEN "refreshList" ELSE "answer"]
    /\ UNCHANGED <<clockVars, storeVars, taskVars, reqVars, mutKind, mutVer,
                   acked, born>>

\* refreshAsync of the list; the result is ignored.
RefreshList(m) ==
    /\ mutPc[m] = "refreshList"
    /\ RefreshAsync(ListStore)
    /\ mutPc' = [mutPc EXCEPT ![m] = "answer"]
    /\ UNCHANGED <<clockVars, slot, hasData, data, lastAt, lastErr, taskVer,
                   reqVars, mutStep, mutKind, mutVer, acked, born>>

\* The handler answers 200, or 503 when only the audit record failed.
Answer(m) ==
    /\ mutPc[m] = "answer"
    /\ acked' = IF mutVer[m] > acked THEN mutVer[m] ELSE acked
    /\ mutPc' = [mutPc EXCEPT ![m] = "idle"]
    /\ mutKind' = [mutKind EXCEPT ![m] = "none"]
    /\ mutVer' = [mutVer EXCEPT ![m] = 0]
    /\ UNCHANGED <<clockVars, slot, storeVars, taskVars, reqVars, mutStep, born>>

Tick ==
    /\ clock < MaxClock
    /\ clock' = clock + 1
    /\ UNCHANGED <<source, slot, storeVars, taskVars, reqVars, mutVars, born>>

-----------------------------------------------------------------------------
Next ==
    \/ \E t \in Tasks : LoaderReturns(t) \/ RefreshCompletes(t)
    \/ \E r \in Requests :
         \/ \E x \in Asked, force \in BOOLEAN : BeginGet(r, x, force)
         \/ Lookup(r) \/ Precheck(r) \/ CheckStale(r) \/ TriggerRefresh(r) \/ View(r)
    \/ \E m \in Mutators :
         \/ \E kind \in Kinds : Mutate(m, kind)
         \/ Invalidate(m) \/ RefreshList(m) \/ Answer(m)
    \/ MutateFails
    \/ Tick

Spec == Init /\ [][Next]_vars

GetStep(r) ==
    Lookup(r) \/ Precheck(r) \/ CheckStale(r) \/ TriggerRefresh(r) \/ View(r)
WriteStep(m) == Invalidate(m) \/ RefreshList(m) \/ Answer(m)

\* Handlers run on their own goroutines and are scheduled; nothing is assumed of
\* the loaders, which wait for a remote cluster.
HandlersFairSpec ==
    /\ Spec
    /\ \A r \in Requests : WF_vars(GetStep(r))
    /\ \A m \in Mutators : WF_vars(WriteStep(m))

-----------------------------------------------------------------------------
(* Properties *)

ClockType ==
    /\ clock \in 0..MaxClock /\ source \in Versions
    /\ acked \in Versions /\ seen \in Versions \cup {NoData}

StoreType ==
    /\ slot \in [Keys -> KeyedStores \cup {NoStore}]
    /\ hasData \in [Stores -> BOOLEAN] /\ data \in [Stores -> Versions]
    /\ lastAt \in [Stores -> 0..MaxClock]
    /\ lastErr \in [Stores -> BOOLEAN] /\ running \in [Stores -> BOOLEAN]
    /\ born \in [Stores -> Versions]

TaskType ==
    /\ taskPc \in [Tasks -> TaskPcs]
    /\ taskStore \in [Tasks -> Stores] /\ taskVer \in [Tasks -> Versions]

RequestType ==
    /\ reqPc \in [Requests -> ReqPcs] /\ reqTarget \in [Requests -> Targets]
    /\ reqForce \in [Requests -> BOOLEAN] /\ reqStart \in [Requests -> 0..MaxClock]
    /\ reqStore \in [Requests -> Stores]
    /\ reqFloor \in [Requests -> Versions]
    /\ reqSeen \in [Requests -> Versions \cup {NoData}]

MutatorType ==
    /\ mutPc \in [Mutators -> MutPcs]
    /\ mutStep \in [Mutators -> 1..Len(Batches)]
    /\ mutKind \in [Mutators -> Kinds \cup {"none"}]
    /\ mutVer \in [Mutators -> Versions]

TypeOK == ClockType /\ StoreType /\ TaskType /\ RequestType /\ MutatorType

Live(t) == taskPc[t] # "idle"

\* The running flag of a store is set exactly while one refresh goroutine works
\* for it, and never two: "only one refresh task of the same data at a time"
\* (refreshAsync), also across clear() and the reuse of a key.
SingleFlight ==
    /\ \A s \in Stores : running[s] <=> \E t \in Tasks : Live(t) /\ taskStore[t] = s
    /\ \A t, u \in Tasks :
         Live(t) /\ Live(u) /\ taskStore[t] = taskStore[u] => t = u

\* A GET of a keyed detail that begins after a write handler has answered never
\* shows data older than that write: invalidation wins over every load that was
\* in flight when the stores were dropped.
KeyedReadsSeeAnsweredWrites ==
    \A r \in Requests :
        reqPc[r] = "view" /\ reqTarget[r] \in Keys /\ hasData[reqStore[r]]
            => ViewData(reqStore[r]) >= reqFloor[r]

\* Reads of the list never go back in time: a GET shows data at least as new as
\* any answer given before it began. (A keyed detail gives only the weaker
\* promise above: a reader of a dropped store may see a newer load than the
\* store that replaced it has.)
ListReadsAreMonotonic ==
    \A r \in Requests :
        reqPc[r] = "view" /\ reqTarget[r] = ListStore
            => ViewData(reqStore[r]) >= reqSeen[r]

\* Nobody waits for a cluster: every GET is answered and every write handler that
\* has written is, although a loader may never return.
HandlersAnswer ==
    /\ \A r \in Requests : reqPc[r] # "idle" ~> reqPc[r] = "idle"
    /\ \A m \in Mutators : mutPc[m] # "idle" ~> mutPc[m] = "idle"
=============================================================================
