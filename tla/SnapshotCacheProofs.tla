------------------------ MODULE SnapshotCacheProofs ------------------------
(* Safety of SnapshotCache for every number of keys, stores, goroutines,    *)
(* requests and writers.                                                    *)
EXTENDS SnapshotCache, TLAPS

\* A write handler drops three key families (topic) or two keys (consumer).
LEMMA BatchesLen ==
  /\ Len(Batches) \in Nat /\ Len(Batches) >= 2
  /\ 1 \in 1..Len(Batches)
<1>1. CASE Domain = "topic"
  <2>1. Batches = <<RouteKeys, StatusKeys, MessageKeys>>
    BY <1>1 DEF Batches
  <2>2. Len(Batches) = 3
    BY <2>1
  <2>. QED  BY <2>2
<1>2. CASE Domain # "topic"
  <2>1. Batches = <<{DetailKey}, {GroupKey}>>
    BY <1>2 DEF Batches
  <2>2. Len(Batches) = 2
    BY <2>1
  <2>. QED  BY <2>2
<1>. QED  BY <1>1, <1>2


\* The loops over the batches drop every keyed store of the domain.
LEMMA BatchesCoverKeys ==
  ASSUME NEW k \in Keys
  PROVE  \E i \in 1..Len(Batches) : k \in Batches[i]
<1>1. CASE Domain = "topic"
  <2>1. /\ Batches = <<RouteKeys, StatusKeys, MessageKeys>>
        /\ Len(Batches) = 3
        /\ Batches[1] = RouteKeys /\ Batches[2] = StatusKeys /\ Batches[3] = MessageKeys
    BY <1>1 DEF Batches
  <2>2. k \in RouteKeys \/ k \in StatusKeys \/ k \in MessageKeys
    BY <1>1 DEF Keys
  <2>. QED  BY <2>1, <2>2
<1>2. CASE Domain # "topic"
  <2>1. /\ Batches = <<{DetailKey}, {GroupKey}>>
        /\ Len(Batches) = 2
        /\ Batches[1] = {DetailKey} /\ Batches[2] = {GroupKey}
    BY <1>2 DEF Batches
  <2>2. k = DetailKey \/ k = GroupKey
    BY <1>2 DEF Keys
  <2>. QED  BY <2>1, <2>2
<1>. QED  BY <1>1, <1>2

\* The heap of stores always holds the list snapshot, and keys are not stores.
LEMMA HeapFacts ==
  /\ ListStore \in Stores /\ KeyedStores \subseteq Stores
  /\ NoStore \notin KeyedStores /\ ListStore \notin KeyedStores
  /\ ListStore \notin Keys /\ Asked \subseteq Targets
  /\ ListStore \in Targets /\ Keys \subseteq Targets
  BY HeapAssumption DEF Stores, Targets

\* A handler asks the keyed map only for keys, and a list handler works on the
\* list snapshot: the shape a request has at each of its steps.
RequestShape ==
  \A r \in Requests :
    /\ reqPc[r] \in {"lookup", "precheck"} => reqTarget[r] \in Keys
    /\ reqTarget[r] = ListStore \/ reqPc[r] \in {"idle", "lookup"}
         => reqStore[r] = ListStore

\* Outside its invalidation loop a write handler stands at the first batch.
MutatorShape == \A m \in Mutators : mutPc[m] # "invalidate" => mutStep[m] = 1

\* Type correctness is inductive together with the shape of the handlers.
TypeInv == TypeOK /\ RequestShape /\ MutatorShape

\* The refresh critical section preserves the types of what it changes.
LEMMA RefreshAsyncType ==
  ASSUME StoreType, TaskType, NEW s \in Stores, RefreshAsync(s)
  PROVE  /\ running' \in [Stores -> BOOLEAN]
         /\ taskPc' \in [Tasks -> TaskPcs]
         /\ taskStore' \in [Tasks -> Stores]
<1>1. CASE running[s]
  BY <1>1 DEF RefreshAsync, StartRefresh, StoreType, TaskType
<1>2. CASE ~running[s]
  <2>1. PICK t \in Tasks :
          /\ taskPc' = [taskPc EXCEPT ![t] = "loading"]
          /\ taskStore' = [taskStore EXCEPT ![t] = s]
          /\ running' = [running EXCEPT ![s] = TRUE]
    BY <1>2 DEF RefreshAsync, StartRefresh
  <2>. QED  BY <2>1 DEF StoreType, TaskType, TaskPcs
<1>. QED  BY <1>1, <1>2

LEMMA InitTypeInv == Init => TypeInv
<1> SUFFICES ASSUME Init PROVE TypeInv
  OBVIOUS
<1> USE BoundsAssumption, HeapFacts DEF Init
<1>1. ClockType
  BY DEF ClockType, Versions
<1>2. StoreType
  BY DEF StoreType, Versions
<1>3. TaskType
  BY DEF TaskType, TaskPcs, Versions
<1>4. RequestType
  BY DEF RequestType, ReqPcs, Versions
<1>5. MutatorType
  <2>1. 1 \in 1..Len(Batches)
    BY BatchesLen
  <2>2. mutPc \in [Mutators -> MutPcs] /\ mutKind \in [Mutators -> Kinds \cup {"none"}]
    BY DEF MutPcs
  <2>. QED  BY <2>1, <2>2 DEF MutatorType, Versions
<1>6. RequestShape /\ MutatorShape
  BY DEF RequestShape, MutatorShape
<1>. QED  BY <1>1, <1>2, <1>3, <1>4, <1>5, <1>6 DEF TypeInv, TypeOK

\* Frame conditions: a part of the invariant whose variables stay, stays.
LEMMA Frames ==
  /\ ClockType /\ UNCHANGED <<clock, source, acked, seen>> => ClockType'
  /\ StoreType /\ UNCHANGED <<slot, storeVars, born>> => StoreType'
  /\ TaskType /\ UNCHANGED taskVars => TaskType'
  /\ RequestType /\ RequestShape /\ UNCHANGED reqVars => RequestType' /\ RequestShape'
  /\ MutatorType /\ MutatorShape /\ UNCHANGED mutVars => MutatorType' /\ MutatorShape'
BY DEF ClockType, StoreType, TaskType, RequestType, RequestShape, MutatorType, MutatorShape,
       storeVars, taskVars, reqVars, mutVars

LEMMA NextTypeInv == TypeInv /\ [Next]_vars => TypeInv'
<1> SUFFICES ASSUME TypeInv, [Next]_vars PROVE TypeInv'
  OBVIOUS
<1> USE BoundsAssumption, HeapFacts
<1>0. ClockType /\ StoreType /\ TaskType /\ RequestType /\ MutatorType /\ RequestShape
     /\ MutatorShape
  BY DEF TypeInv, TypeOK
<1>1. ASSUME NEW t \in Tasks, LoaderReturns(t) PROVE TypeInv'
  <2>1. UNCHANGED <<clockVars, slot, storeVars, reqVars, mutVars, born>>
    BY <1>1 DEF LoaderReturns
  <2>2. TaskType'
    BY <1>0, <1>1 DEF LoaderReturns, TaskType, TaskPcs, ClockType
  <2>. QED
    BY <1>0, <2>1, <2>2, Frames DEF TypeInv, TypeOK, clockVars, reqVars, mutVars
<1>2. ASSUME NEW t \in Tasks, RefreshCompletes(t) PROVE TypeInv'
  <2>1. UNCHANGED <<clockVars, slot, reqVars, mutVars, born>>
    BY <1>2 DEF RefreshCompletes
  <2>2. TaskType'
    BY <1>0, <1>2 DEF RefreshCompletes, TaskType, TaskPcs, Versions
  <2>3. StoreType'
    <3>1. taskStore[t] \in Stores /\ taskVer[t] \in Versions /\ clock \in 0..MaxClock
      BY <1>0 DEF TaskType, ClockType
    <3>2. CASE taskPc[t] = "loaded"
      <4>1. /\ running' = [running EXCEPT ![taskStore[t]] = FALSE]
            /\ lastErr' = [lastErr EXCEPT ![taskStore[t]] = FALSE]
            /\ data' = [data EXCEPT ![taskStore[t]] = taskVer[t]]
            /\ hasData' = [hasData EXCEPT ![taskStore[t]] = TRUE]
            /\ lastAt' = [lastAt EXCEPT ![taskStore[t]] = clock]
        BY <1>2, <3>2 DEF RefreshCompletes
      <4>. QED  BY <1>0, <2>1, <3>1, <4>1 DEF StoreType
    <3>3. CASE taskPc[t] = "failed"
      BY <1>0, <1>2, <2>1, <3>1, <3>3 DEF RefreshCompletes, StoreType
    <3>. QED  BY <1>2, <3>2, <3>3 DEF RefreshCompletes
  <2>. QED
    BY <1>0, <2>1, <2>2, <2>3, Frames DEF TypeInv, TypeOK, clockVars, reqVars, mutVars
<1>3. ASSUME NEW r \in Requests, NEW x \in Asked, NEW force \in BOOLEAN,
             BeginGet(r, x, force)
      PROVE  TypeInv'
  <2>1. UNCHANGED <<clockVars, slot, storeVars, taskVars, mutVars, born, seen>>
    BY <1>3 DEF BeginGet
  <2>2. RequestType'
    BY <1>0, <1>3 DEF BeginGet, RequestType, ReqPcs, ClockType
  <2>3. RequestShape'
    BY <1>0, <1>3 DEF BeginGet, RequestType, RequestShape, Targets
  <2>. QED
    BY <1>0, <2>1, <2>2, <2>3, Frames DEF TypeInv, TypeOK, clockVars, mutVars
<1>4. ASSUME NEW r \in Requests, Lookup(r) PROVE TypeInv'
  <2> DEFINE k == reqTarget[r]
  <2>0. k \in Keys /\ k # ListStore
    BY <1>0, <1>4 DEF Lookup, RequestShape
  <2>1. /\ UNCHANGED <<clockVars, taskVars, reqTarget, reqForce, reqStart,
                       reqFloor, reqSeen, seen, mutVars>>
        /\ reqPc' = [reqPc EXCEPT ![r] =
                       IF reqForce[r] THEN "trigger" ELSE "precheck"]
    BY <1>4 DEF Lookup
  <2>2. CASE slot[k] # NoStore
    <3>1. slot[k] \in Stores /\ UNCHANGED <<slot, storeVars, born>>
          /\ reqStore' = [reqStore EXCEPT ![r] = slot[k]]
      BY <1>0, <1>4, <2>0, <2>2 DEF Lookup, StoreType
    <3>2. RequestType' /\ RequestShape'
      BY <1>0, <2>0, <2>1, <3>1 DEF RequestType, RequestShape, ReqPcs
    <3>. QED
      BY <1>0, <2>1, <3>1, <3>2, Frames DEF TypeInv, TypeOK, clockVars, mutVars
  <2>3. CASE slot[k] = NoStore
    <3>1. PICK s \in KeyedStores :
            /\ slot' = [slot EXCEPT ![k] = s]
            /\ reqStore' = [reqStore EXCEPT ![r] = s]
            /\ hasData' = [hasData EXCEPT ![s] = FALSE]
            /\ data' = [data EXCEPT ![s] = 0]
            /\ lastAt' = [lastAt EXCEPT ![s] = 0]
            /\ lastErr' = [lastErr EXCEPT ![s] = FALSE]
            /\ running' = [running EXCEPT ![s] = FALSE]
            /\ born' = [born EXCEPT ![s] = source]
      BY <1>4, <2>3 DEF Lookup
    <3>2. RequestType' /\ RequestShape'
      BY <1>0, <2>0, <2>1, <3>1 DEF RequestType, RequestShape, ReqPcs
    <3>3. s \in Stores /\ source \in Versions /\ 0 \in Versions /\ 0 \in 0..MaxClock
      BY <1>0 DEF ClockType, Versions
    <3>4. StoreType'
      <4>1. slot' \in [Keys -> KeyedStores \cup {NoStore}]
        BY <1>0, <3>1 DEF StoreType
      <4>2. hasData' \in [Stores -> BOOLEAN] /\ lastErr' \in [Stores -> BOOLEAN]
            /\ running' \in [Stores -> BOOLEAN]
        BY <1>0, <3>1, <3>3 DEF StoreType
      <4>3. data' \in [Stores -> Versions] /\ lastAt' \in [Stores -> 0..MaxClock]
            /\ born' \in [Stores -> Versions]
        BY <1>0, <3>1, <3>3 DEF StoreType
      <4>. QED  BY <4>1, <4>2, <4>3 DEF StoreType
    <3>. QED
      BY <1>0, <2>1, <3>2, <3>4, Frames DEF TypeInv, TypeOK, clockVars, mutVars
  <2>. QED  BY <2>2, <2>3
<1>5. ASSUME NEW r \in Requests, Precheck(r) PROVE TypeInv'
  <2>1. UNCHANGED <<clockVars, slot, storeVars, taskVars, reqTarget, reqForce,
                    reqStart, reqStore, reqFloor, reqSeen, seen, mutVars, born>>
    BY <1>5 DEF Precheck
  <2>2. RequestType' /\ RequestShape'
    BY <1>0, <1>5, <2>1 DEF Precheck, RequestType, RequestShape, ReqPcs
  <2>. QED
    BY <1>0, <2>1, <2>2, Frames DEF TypeInv, TypeOK, clockVars, mutVars
<1>6. ASSUME NEW r \in Requests, CheckStale(r) PROVE TypeInv'
  <2>1. UNCHANGED <<clockVars, slot, storeVars, taskVars, reqTarget, reqForce,
                    reqStart, reqStore, reqFloor, reqSeen, seen, mutVars, born>>
    BY <1>6 DEF CheckStale
  <2>2. RequestType' /\ RequestShape'
    BY <1>0, <1>6, <2>1 DEF CheckStale, RequestType, RequestShape, ReqPcs
  <2>. QED
    BY <1>0, <2>1, <2>2, Frames DEF TypeInv, TypeOK, clockVars, mutVars
<1>7. ASSUME NEW r \in Requests, TriggerRefresh(r) PROVE TypeInv'
  <2>1. /\ UNCHANGED <<clockVars, slot, hasData, data, lastAt, lastErr, taskVer,
                       reqTarget, reqForce, reqStart, reqStore, reqFloor,
                       reqSeen, seen, mutVars, born>>
        /\ RefreshAsync(reqStore[r]) /\ reqStore[r] \in Stores
    BY <1>0, <1>7 DEF TriggerRefresh, RequestType
  <2>2. RequestType' /\ RequestShape'
    BY <1>0, <1>7, <2>1 DEF TriggerRefresh, RequestType, RequestShape, ReqPcs
  <2>3. StoreType' /\ TaskType'
    BY <1>0, <2>1, RefreshAsyncType DEF StoreType, TaskType
  <2>. QED
    BY <1>0, <2>1, <2>2, <2>3, Frames DEF TypeInv, TypeOK, clockVars, mutVars
<1>8. ASSUME NEW r \in Requests, View(r) PROVE TypeInv'
  <2>1. UNCHANGED <<clockVars, slot, storeVars, taskVars, mutVars, born>>
    BY <1>8 DEF View
  <2>2. RequestType' /\ RequestShape'
    BY <1>0, <1>8 DEF View, RequestType, RequestShape, ReqPcs, Versions
  <2>3. ClockType'
    BY <1>0, <1>8, <2>1 DEF View, ViewData, ClockType, StoreType, RequestType,
                            Versions, NoData, clockVars, mutVars
  <2>. QED
    BY <1>0, <2>1, <2>2, <2>3, Frames DEF TypeInv, TypeOK
<1>9. ASSUME NEW m \in Mutators, NEW kind \in Kinds, Mutate(m, kind) PROVE TypeInv'
  <2>1. UNCHANGED <<clock, slot, storeVars, taskVars, reqVars, mutStep, acked, born>>
    BY <1>9 DEF Mutate
  <2>2. ClockType' /\ source + 1 \in Versions
    BY <1>0, <1>9, <2>1 DEF Mutate, ClockType, Versions, reqVars
  <2>3. MutatorType' /\ MutatorShape'
    BY <1>0, <1>9, <2>1, <2>2 DEF Mutate, MutatorType, MutatorShape, MutPcs
  <2>. QED
    BY <1>0, <2>1, <2>2, <2>3, Frames DEF TypeInv, TypeOK
<1>10. ASSUME MutateFails PROVE TypeInv'
  <2>1. UNCHANGED <<clock, slot, storeVars, taskVars, reqVars, mutVars, born>>
    BY <1>10 DEF MutateFails
  <2>2. ClockType'
    BY <1>0, <1>10, <2>1 DEF MutateFails, ClockType, Versions, reqVars, mutVars
  <2>. QED
    BY <1>0, <2>1, <2>2, Frames DEF TypeInv, TypeOK
<1>11. ASSUME NEW m \in Mutators, Invalidate(m) PROVE TypeInv'
  <2>1. UNCHANGED <<clockVars, storeVars, taskVars, reqVars, mutKind, mutVer,
                    acked, born>>
    BY <1>11 DEF Invalidate, LastBatch
  <2>2. StoreType'
    BY <1>0, <1>11, <2>1 DEF Invalidate, LastBatch, StoreType, storeVars
  <2>3. MutatorType' /\ MutatorShape'
    BY <1>0, <1>11, <2>1, BatchesLen DEF Invalidate, LastBatch, MutatorType, MutatorShape, MutPcs
  <2>. QED
    BY <1>0, <2>1, <2>2, <2>3, Frames DEF TypeInv, TypeOK, clockVars, reqVars
<1>12. ASSUME NEW m \in Mutators, RefreshList(m) PROVE TypeInv'
  <2>1. /\ UNCHANGED <<clockVars, slot, hasData, data, lastAt, lastErr, taskVer,
                       reqVars, mutStep, mutKind, mutVer, acked, born>>
        /\ RefreshAsync(ListStore)
    BY <1>12 DEF RefreshList
  <2>2. MutatorType' /\ MutatorShape'
    BY <1>0, <1>12, <2>1 DEF RefreshList, MutatorType, MutatorShape, MutPcs
  <2>3. StoreType' /\ TaskType'
    BY <1>0, <2>1, RefreshAsyncType DEF StoreType, TaskType
  <2>. QED
    BY <1>0, <2>1, <2>2, <2>3, Frames DEF TypeInv, TypeOK, clockVars, reqVars
<1>13. ASSUME NEW m \in Mutators, Answer(m) PROVE TypeInv'
  <2>1. UNCHANGED <<clockVars, slot, storeVars, taskVars, reqVars, mutStep, born>>
    BY <1>13 DEF Answer
  <2>2. MutatorType' /\ MutatorShape'
    BY <1>0, <1>13, <2>1 DEF Answer, MutatorType, MutatorShape, MutPcs, Versions
  <2>3. ClockType'
    BY <1>0, <1>13, <2>1 DEF Answer, ClockType, MutatorType, clockVars, reqVars
  <2>. QED
    BY <1>0, <2>1, <2>2, <2>3, Frames DEF TypeInv, TypeOK
<1>14. ASSUME Tick PROVE TypeInv'
  <2>1. UNCHANGED <<source, slot, storeVars, taskVars, reqVars, mutVars, born>>
    BY <1>14 DEF Tick
  <2>2. ClockType'
    BY <1>0, <1>14, <2>1 DEF Tick, ClockType, reqVars, mutVars
  <2>. QED
    BY <1>0, <2>1, <2>2, Frames DEF TypeInv, TypeOK
<1>15. CASE UNCHANGED vars
  BY <1>0, <1>15, Frames DEF TypeInv, TypeOK, vars, clockVars, reqVars, mutVars
<1>. QED
  BY <1>1, <1>2, <1>3, <1>4, <1>5, <1>6, <1>7, <1>8, <1>9, <1>10, <1>11, <1>12,
     <1>13, <1>14, <1>15 DEF Next

\* Every state of the snapshot cache is well typed.
THEOREM TypeCorrect == Spec => []TypeOK
<1>1. TypeInv => TypeOK
  BY DEF TypeInv
<1>. QED  BY <1>1, InitTypeInv, NextTypeInv, PTL DEF Spec

-----------------------------------------------------------------------------
(* Single flight *)

\* The critical section of refreshAsyncWith keeps the flag and the goroutines
\* of every store in step.
LEMMA RefreshAsyncSingleFlight ==
  ASSUME TypeInv, SingleFlight, NEW s \in Stores, RefreshAsync(s)
  PROVE  SingleFlight'
<1>1. CASE running[s]
  BY <1>1 DEF RefreshAsync, StartRefresh, SingleFlight, Live
<1>2. CASE ~running[s]
  <2>1. PICK t \in Tasks :
          /\ taskPc[t] = "idle"
          /\ taskPc' = [taskPc EXCEPT ![t] = "loading"]
          /\ taskStore' = [taskStore EXCEPT ![t] = s]
          /\ running' = [running EXCEPT ![s] = TRUE]
    BY <1>2 DEF RefreshAsync, StartRefresh
  <2>2. /\ taskPc \in [Tasks -> TaskPcs] /\ taskStore \in [Tasks -> Stores]
        /\ running \in [Stores -> BOOLEAN]
    BY DEF TypeInv, TypeOK, TaskType, StoreType
  <2>3. \A u \in Tasks : Live(u) => taskStore[u] # s
    BY <1>2 DEF SingleFlight
  <2>4. \A u \in Tasks : u # t => (Live(u)' <=> Live(u)) /\ taskStore'[u] = taskStore[u]
    BY <2>1, <2>2 DEF Live
  <2>5. Live(t)' /\ taskStore'[t] = s
    BY <2>1, <2>2 DEF Live
  <2>6. \A u, v \in Tasks :
          Live(u)' /\ Live(v)' /\ taskStore'[u] = taskStore'[v] => u = v
    BY <2>3, <2>4, <2>5 DEF SingleFlight
  <2>7. \A x \in Stores : running'[x] <=> \E u \in Tasks : Live(u)' /\ taskStore'[u] = x
    <3> TAKE x \in Stores
    <3>1. CASE x = s
      BY <2>1, <2>2, <2>5, <3>1
    <3>2. CASE x # s
      <4>1. running'[x] = running[x]
        BY <2>1, <2>2, <3>2
      <4>2. (\E u \in Tasks : Live(u)' /\ taskStore'[u] = x)
              <=> (\E u \in Tasks : Live(u) /\ taskStore[u] = x)
        BY <2>1, <2>4, <2>5, <3>2 DEF Live
      <4>. QED  BY <4>1, <4>2 DEF SingleFlight
    <3>. QED  BY <3>1, <3>2
  <2>. QED  BY <2>6, <2>7 DEF SingleFlight
<1>. QED  BY <1>1, <1>2

\* Steps that neither start nor end a goroutine nor touch a running flag.
LEMMA SingleFlightFrame ==
  SingleFlight /\ UNCHANGED <<running, taskPc, taskStore>> => SingleFlight'
  BY DEF SingleFlight, Live

LEMMA NextSingleFlight == TypeInv /\ SingleFlight /\ [Next]_vars => SingleFlight'
<1> SUFFICES ASSUME TypeInv, SingleFlight, [Next]_vars PROVE SingleFlight'
  OBVIOUS
<1> USE HeapFacts
<1>0. /\ taskPc \in [Tasks -> TaskPcs] /\ taskStore \in [Tasks -> Stores]
      /\ running \in [Stores -> BOOLEAN]
  BY DEF TypeInv, TypeOK, TaskType, StoreType
<1>1. ASSUME NEW t \in Tasks, LoaderReturns(t) PROVE SingleFlight'
  <2>1. UNCHANGED <<running, taskStore>> /\ \A u \in Tasks : Live(u)' <=> Live(u)
    BY <1>0, <1>1 DEF LoaderReturns, storeVars, Live, TaskPcs
  <2>. QED  BY <2>1 DEF SingleFlight
<1>2. ASSUME NEW t \in Tasks, RefreshCompletes(t) PROVE SingleFlight'
  <2>1. /\ Live(t)
        /\ running' = [running EXCEPT ![taskStore[t]] = FALSE]
        /\ taskPc' = [taskPc EXCEPT ![t] = "idle"]
        /\ taskStore' = [taskStore EXCEPT ![t] = ListStore]
    BY <1>2 DEF RefreshCompletes, Live
  <2>2. ~Live(t)' /\ \A u \in Tasks : u # t =>
          (Live(u)' <=> Live(u)) /\ taskStore'[u] = taskStore[u]
    BY <1>0, <2>1 DEF Live
  <2>3. \A u \in Tasks : Live(u)' => taskStore[u] # taskStore[t]
    BY <2>1, <2>2 DEF SingleFlight
  <2>4. \A x \in Stores : running'[x] <=> \E u \in Tasks : Live(u)' /\ taskStore'[u] = x
    <3> TAKE x \in Stores
    <3>1. CASE x = taskStore[t]
      BY <1>0, <2>1, <2>2, <2>3, <3>1
    <3>2. CASE x # taskStore[t]
      <4>1. running'[x] = running[x]
        BY <1>0, <2>1, <3>2
      <4>2. (\E u \in Tasks : Live(u)' /\ taskStore'[u] = x)
              <=> (\E u \in Tasks : Live(u) /\ taskStore[u] = x)
        BY <2>2, <3>2
      <4>. QED  BY <4>1, <4>2 DEF SingleFlight
    <3>. QED  BY <3>1, <3>2
  <2>. QED  BY <2>2, <2>4 DEF SingleFlight
<1>3. ASSUME NEW r \in Requests, Lookup(r) PROVE SingleFlight'
  <2>1. UNCHANGED <<taskPc, taskStore>>
    BY <1>3 DEF Lookup, taskVars
  <2>2. CASE UNCHANGED running
    BY <2>1, <2>2, SingleFlightFrame
  <2>3. CASE running' # running
    <3>1. PICK s \in KeyedStores :
            Free(s) /\ running' = [running EXCEPT ![s] = FALSE]
      BY <1>3, <2>3 DEF Lookup, storeVars
    <3>2. \A u \in Tasks : taskStore[u] # s
      BY <3>1 DEF Free
    <3>. QED  BY <1>0, <2>1, <3>1, <3>2 DEF SingleFlight, Live
  <2>. QED  BY <2>2, <2>3
<1>4. ASSUME NEW r \in Requests, TriggerRefresh(r) PROVE SingleFlight'
  <2>1. reqStore[r] \in Stores /\ RefreshAsync(reqStore[r])
    BY <1>4 DEF TriggerRefresh, TypeInv, TypeOK, RequestType
  <2>. QED  BY <2>1, RefreshAsyncSingleFlight
<1>5. ASSUME NEW m \in Mutators, RefreshList(m) PROVE SingleFlight'
  BY <1>5, RefreshAsyncSingleFlight DEF RefreshList
<1>6. ASSUME UNCHANGED <<running, taskPc, taskStore>> PROVE SingleFlight'
  BY <1>6, SingleFlightFrame
<1>. QED
  BY <1>1, <1>2, <1>3, <1>4, <1>5, <1>6
     DEF Next, vars, storeVars, taskVars, BeginGet, Precheck, CheckStale, View,
         Mutate, MutateFails, Invalidate, LastBatch, Answer, Tick

\* A store never has two refreshes in flight, and its running flag tells the
\* truth, whatever clears, reuses and failures happen.
THEOREM SingleFlightHolds == Spec => []SingleFlight
<1>1. Init => SingleFlight
  BY DEF Init, SingleFlight, Live
<1>. QED  BY <1>1, InitTypeInv, NextTypeInv, NextSingleFlight, PTL DEF Spec

-----------------------------------------------------------------------------
(* Keyed reads see answered writes *)

\* A store holds only data loaded after it was created.
StoreVersions ==
  \A s \in Stores : /\ born[s] <= source /\ data[s] <= source
                    /\ hasData[s] => born[s] <= data[s]

\* So does every load that is about to be published into it.
TaskVersions ==
  \A t \in Tasks : taskPc[t] = "loaded" =>
    born[taskStore[t]] <= taskVer[t] /\ taskVer[t] <= source

\* No write is answered, or being handled, before the cluster applied it.
WriterVersions == acked <= source /\ \A m \in Mutators : mutVer[m] <= source

\* The handler of m has already dropped the store of key k.
Dropped(m, k) ==
  \/ mutPc[m] \in {"refreshList", "answer"}
  \/ /\ mutPc[m] = "invalidate"
     /\ \E i \in 1..Len(Batches) : i < mutStep[m] /\ k \in Batches[i]

\* The stores on the keyed maps are younger than every answered write, and
\* younger than a write whose handler has dropped their key.
SlotVersions ==
  \A k \in Keys : slot[k] # NoStore =>
    /\ acked <= born[slot[k]]
    /\ \A m \in Mutators : Dropped(m, k) => mutVer[m] <= born[slot[k]]

\* A GET of a key began after no write younger than the store it holds.
RequestVersions ==
  \A r \in Requests :
    /\ reqFloor[r] <= acked
    /\ reqTarget[r] \in Keys /\ reqPc[r] \in {"precheck", "check", "trigger", "view"}
         => reqFloor[r] <= born[reqStore[r]]

VersionInv ==
  /\ StoreVersions /\ TaskVersions /\ WriterVersions
  /\ SlotVersions /\ RequestVersions

LEMMA InitVersionInv == Init => VersionInv
  BY HeapFacts DEF Init, VersionInv, StoreVersions, TaskVersions, WriterVersions,
                   SlotVersions, RequestVersions

\* What the types say, in the form the version arguments use.
LEMMA VersionTypes ==
  ASSUME TypeInv
  PROVE  /\ source \in Nat /\ acked \in Nat
         /\ born \in [Stores -> Nat] /\ data \in [Stores -> Nat]
         /\ hasData \in [Stores -> BOOLEAN]
         /\ slot \in [Keys -> KeyedStores \cup {NoStore}]
         /\ taskPc \in [Tasks -> TaskPcs] /\ taskStore \in [Tasks -> Stores]
         /\ taskVer \in [Tasks -> Nat]
         /\ reqPc \in [Requests -> ReqPcs] /\ reqTarget \in [Requests -> Targets]
         /\ reqStore \in [Requests -> Stores] /\ reqFloor \in [Requests -> Nat]
         /\ mutPc \in [Mutators -> MutPcs] /\ mutVer \in [Mutators -> Nat]
         /\ mutStep \in [Mutators -> 1..Len(Batches)]
<1>1. Versions \subseteq Nat
  BY BoundsAssumption DEF Versions
<1>. QED
  BY <1>1 DEF TypeInv, TypeOK, ClockType, StoreType, TaskType, RequestType, MutatorType

\* Steps that change none of the versions and stores the invariant speaks of.
LEMMA VersionFrame ==
  ASSUME VersionInv,
         UNCHANGED <<source, acked, slot, born, data, hasData, taskVer, reqFloor>>
  PROVE  /\ StoreVersions'
         /\ UNCHANGED <<taskPc, taskStore>> => TaskVersions'
         /\ UNCHANGED mutVer => WriterVersions'
         /\ UNCHANGED <<mutPc, mutStep, mutVer>> => SlotVersions'
         /\ UNCHANGED <<reqPc, reqTarget, reqStore>> => RequestVersions'
BY DEF VersionInv, StoreVersions, TaskVersions, WriterVersions, SlotVersions,
       Dropped, RequestVersions

\* Starting a refresh publishes nothing.
LEMMA RefreshAsyncTaskVersions ==
  ASSUME TypeInv, TaskVersions, NEW s \in Stores, RefreshAsync(s),
         UNCHANGED <<source, born, taskVer>>
  PROVE  TaskVersions'
<1>0. taskPc \in [Tasks -> TaskPcs] /\ taskStore \in [Tasks -> Stores]
  BY VersionTypes
<1>1. CASE running[s]
  BY <1>1 DEF RefreshAsync, StartRefresh, TaskVersions
<1>2. CASE ~running[s]
  BY <1>0, <1>2 DEF RefreshAsync, StartRefresh, TaskVersions
<1>. QED  BY <1>1, <1>2

LEMMA NextVersionInv == TypeInv /\ TypeInv' /\ VersionInv /\ [Next]_vars => VersionInv'
<1> SUFFICES ASSUME TypeInv, TypeInv', VersionInv, [Next]_vars PROVE VersionInv'
  OBVIOUS
<1> USE HeapFacts
<1>0. StoreVersions /\ TaskVersions /\ WriterVersions /\ SlotVersions /\ RequestVersions
  BY DEF VersionInv
<1>1. ASSUME NEW t \in Tasks, LoaderReturns(t) PROVE VersionInv'
  <2>1. UNCHANGED <<source, acked, slot, born, data, hasData, taskStore, reqFloor,
                    mutPc, mutStep, mutVer, reqPc, reqTarget, reqStore>>
    BY <1>1 DEF LoaderReturns, clockVars, storeVars, reqVars, mutVars
  <2>2. TaskVersions'
    <3> SUFFICES ASSUME NEW u \in Tasks, taskPc'[u] = "loaded"
                 PROVE  born[taskStore[u]] <= taskVer'[u] /\ taskVer'[u] <= source
      BY <2>1 DEF TaskVersions
    <3>1. CASE u # t
      BY <1>0, <1>1, <3>1, VersionTypes DEF LoaderReturns, TaskVersions
    <3>2. CASE u = t
      <4>1. taskVer'[t] = source
        BY <1>1, <3>2, VersionTypes DEF LoaderReturns
      <4>2. born[taskStore[t]] <= source
        BY <1>0, VersionTypes DEF StoreVersions
      <4>. QED  BY <3>2, <4>1, <4>2, VersionTypes
    <3>. QED  BY <3>1, <3>2
  <2>. QED
    BY <1>0, <2>1, <2>2 DEF VersionInv, StoreVersions, WriterVersions,
                           SlotVersions, Dropped, RequestVersions
<1>2. ASSUME NEW t \in Tasks, RefreshCompletes(t) PROVE VersionInv'
  <2> DEFINE s == taskStore[t]
  <2>1. UNCHANGED <<source, acked, slot, born, reqFloor, mutPc, mutStep, mutVer,
                    reqPc, reqTarget, reqStore>>
    BY <1>2 DEF RefreshCompletes, clockVars, reqVars, mutVars
  <2>2. StoreVersions'
    <3>1. CASE taskPc[t] = "loaded"
      <4>1. /\ data' = [data EXCEPT ![s] = taskVer[t]]
            /\ hasData' = [hasData EXCEPT ![s] = TRUE]
            /\ born[s] <= taskVer[t] /\ taskVer[t] <= source
        BY <1>0, <1>2, <3>1 DEF RefreshCompletes, TaskVersions
      <4>. QED  BY <1>0, <2>1, <4>1, VersionTypes DEF StoreVersions
    <3>2. CASE taskPc[t] # "loaded"
      <4>1. UNCHANGED <<data, hasData>>
        BY <1>2, <3>2 DEF RefreshCompletes
      <4>. QED  BY <1>0, <2>1, <4>1 DEF StoreVersions
    <3>. QED  BY <3>1, <3>2
  <2>3. TaskVersions'
    BY <1>0, <1>2, <2>1, VersionTypes DEF RefreshCompletes, TaskVersions
  <2>. QED
    BY <1>0, <2>1, <2>2, <2>3 DEF VersionInv, WriterVersions, SlotVersions,
                                 Dropped, RequestVersions
<1>3. ASSUME NEW r \in Requests, NEW x \in Asked, NEW force \in BOOLEAN,
             BeginGet(r, x, force)
      PROVE  VersionInv'
  <2>1. UNCHANGED <<source, acked, slot, born, data, hasData, taskVer, taskPc,
                    taskStore, mutPc, mutStep, mutVer, reqStore>>
    BY <1>3 DEF BeginGet, clockVars, storeVars, taskVars, mutVars
  <2>2. RequestVersions'
    BY <1>0, <1>3, <2>1, VersionTypes DEF BeginGet, RequestVersions
  <2>. QED
    BY <1>0, <2>1, <2>2 DEF VersionInv, StoreVersions, TaskVersions,
                           WriterVersions, SlotVersions, Dropped
<1>4. ASSUME NEW r \in Requests, Lookup(r) PROVE VersionInv'
  <2> DEFINE k == reqTarget[r]
  <2>0. k \in Keys
    BY <1>4 DEF Lookup, TypeInv, RequestShape
  <2>1. UNCHANGED <<source, acked, taskVer, taskPc, taskStore, reqFloor, reqTarget,
                    mutPc, mutStep, mutVer>>
    BY <1>4 DEF Lookup, clockVars, taskVars, mutVars
  <2>2. CASE slot[k] # NoStore
    <3>1. UNCHANGED <<slot, born, data, hasData>>
          /\ reqStore' = [reqStore EXCEPT ![r] = slot[k]]
      BY <1>4, <2>2 DEF Lookup, storeVars
    <3>2. reqFloor[r] <= acked /\ acked <= born[slot[k]]
          /\ slot[k] \in Stores
      BY <1>0, <2>0, <2>2, VersionTypes DEF RequestVersions, SlotVersions
    <3>3. reqFloor[r] <= born[slot[k]]
      BY <3>2, VersionTypes
    <3>4. RequestVersions'
      <4> SUFFICES ASSUME NEW q \in Requests
                   PROVE  /\ reqFloor[q] <= acked
                          /\ reqTarget[q] \in Keys
                             /\ reqPc'[q] \in {"precheck", "check", "trigger", "view"}
                               => reqFloor[q] <= born[reqStore'[q]]
        BY <2>1, <3>1 DEF RequestVersions
      <4>1. CASE q = r
        BY <1>0, <3>1, <3>3, <4>1, VersionTypes DEF RequestVersions
      <4>2. CASE q # r
        <5>1. reqPc'[q] = reqPc[q] /\ reqStore'[q] = reqStore[q]
          BY <1>4, <3>1, <4>2, VersionTypes DEF Lookup
        <5>. QED  BY <1>0, <5>1 DEF RequestVersions
      <4>. QED  BY <4>1, <4>2
    <3>. QED
      BY <1>0, <2>1, <3>1, <3>4 DEF VersionInv, StoreVersions, TaskVersions,
                                    WriterVersions, SlotVersions, Dropped
  <2>3. CASE slot[k] = NoStore
    <3>1. PICK s \in KeyedStores :
            /\ Free(s)
            /\ slot' = [slot EXCEPT ![k] = s]
            /\ reqStore' = [reqStore EXCEPT ![r] = s]
            /\ hasData' = [hasData EXCEPT ![s] = FALSE]
            /\ data' = [data EXCEPT ![s] = 0]
            /\ born' = [born EXCEPT ![s] = source]
      BY <1>4, <2>3 DEF Lookup
    <3>2. s \in Stores /\ s # NoStore /\ born'[s] = source
          /\ \A x \in Stores : x # s => born'[x] = born[x]
      BY <3>1, VersionTypes
    <3>3. StoreVersions'
      BY <1>0, <2>1, <3>1, <3>2, VersionTypes DEF StoreVersions
    <3>4. TaskVersions'
      BY <1>0, <2>1, <3>1, <3>2, VersionTypes DEF TaskVersions, Free
    <3>5. SlotVersions'
      <4> SUFFICES ASSUME NEW j \in Keys, slot'[j] # NoStore
                   PROVE  /\ acked <= born'[slot'[j]]
                          /\ \A m \in Mutators :
                               Dropped(m, j) => mutVer[m] <= born'[slot'[j]]
        BY <2>1 DEF SlotVersions, Dropped
      <4>1. CASE j = k
        BY <1>0, <3>1, <3>2, <4>1, VersionTypes DEF WriterVersions
      <4>2. CASE j # k
        <5>1. slot'[j] = slot[j] /\ slot[j] # s /\ slot[j] \in Stores
          BY <3>1, <4>2, VersionTypes DEF Free
        <5>. QED  BY <1>0, <3>2, <5>1 DEF SlotVersions
      <4>. QED  BY <4>1, <4>2
    <3>6. RequestVersions'
      <4> SUFFICES ASSUME NEW q \in Requests
                   PROVE  /\ reqFloor[q] <= acked
                          /\ reqTarget[q] \in Keys
                             /\ reqPc'[q] \in {"precheck", "check", "trigger", "view"}
                               => reqFloor[q] <= born'[reqStore'[q]]
        BY <2>1 DEF RequestVersions
      <4>0. reqFloor[q] <= acked /\ acked <= source
        BY <1>0 DEF RequestVersions, WriterVersions
      <4>1. CASE q = r
        <5>1. reqStore'[q] = s
          BY <3>1, <4>1, VersionTypes
        <5>. QED  BY <3>2, <4>0, <5>1, VersionTypes
      <4>2. CASE q # r
        <5>1. reqPc'[q] = reqPc[q] /\ reqStore'[q] = reqStore[q] /\ reqStore[q] # s
              /\ reqStore[q] \in Stores
          BY <1>4, <3>1, <4>2, VersionTypes DEF Lookup, Free
        <5>. QED  BY <1>0, <3>2, <5>1 DEF RequestVersions
      <4>. QED  BY <4>1, <4>2
    <3>. QED
      BY <1>0, <2>1, <3>3, <3>4, <3>5, <3>6 DEF VersionInv, WriterVersions
  <2>. QED  BY <2>2, <2>3
<1>5. ASSUME NEW r \in Requests,
             Precheck(r) \/ CheckStale(r) \/ TriggerRefresh(r) \/ View(r)
      PROVE  VersionInv'
  <2>1. /\ UNCHANGED <<source, acked, slot, born, data, hasData, taskVer,
                       mutPc, mutStep, mutVer>>
        /\ \A q \in Requests : q # r =>
             /\ reqPc'[q] = reqPc[q] /\ reqTarget'[q] = reqTarget[q]
             /\ reqStore'[q] = reqStore[q] /\ reqFloor'[q] = reqFloor[q]
    BY <1>5, VersionTypes
       DEF Precheck, CheckStale, TriggerRefresh, View, clockVars, storeVars,
           taskVars, mutVars
  <2>2. TaskVersions'
    <3>1. CASE TriggerRefresh(r)
      BY <1>0, <2>1, <3>1, RefreshAsyncTaskVersions, VersionTypes DEF TriggerRefresh
    <3>2. CASE Precheck(r) \/ CheckStale(r) \/ View(r)
      BY <1>0, <2>1, <3>2 DEF Precheck, CheckStale, View, taskVars, TaskVersions
    <3>. QED  BY <1>5, <3>1, <3>2
  <2>3. RequestVersions'
    <3>1. CASE View(r)
      BY <1>0, <2>1, <3>1, VersionTypes DEF View, RequestVersions
    <3>2. CASE Precheck(r) \/ CheckStale(r) \/ TriggerRefresh(r)
      <4>1. /\ UNCHANGED <<reqTarget, reqStore, reqFloor>>
            /\ reqPc[r] \in {"precheck", "check", "trigger"}
        BY <3>2 DEF Precheck, CheckStale, TriggerRefresh
      <4>. QED  BY <1>0, <2>1, <4>1 DEF RequestVersions
    <3>. QED  BY <1>5, <3>1, <3>2
  <2>. QED
    BY <1>0, <2>1, <2>2, <2>3 DEF VersionInv, StoreVersions, WriterVersions,
                                 SlotVersions, Dropped
<1>6. ASSUME NEW m \in Mutators, NEW kind \in Kinds, Mutate(m, kind) PROVE VersionInv'
  <2>1. /\ UNCHANGED <<acked, slot, born, data, hasData, taskVer, taskPc, taskStore,
                       reqFloor, reqPc, reqTarget, reqStore, mutStep>>
        /\ source' = source + 1
        /\ \A n \in Mutators : n # m => mutPc'[n] = mutPc[n] /\ mutVer'[n] = mutVer[n]
        /\ mutPc[m] = "idle" /\ mutPc'[m] = "invalidate" /\ mutVer'[m] = source + 1
    BY <1>6, VersionTypes DEF Mutate, storeVars, taskVars, reqVars
  <2>2. mutStep[m] = 1
    BY <1>6 DEF Mutate, TypeInv, MutatorShape
  <2>3. SlotVersions'
    <3> SUFFICES ASSUME NEW k \in Keys, slot[k] # NoStore, NEW n \in Mutators, Dropped(n, k)'
                 PROVE  mutVer'[n] <= born[slot[k]]
      BY <1>0, <2>1 DEF SlotVersions
    <3>1. n # m
      BY <2>1, <2>2, BatchesLen DEF Dropped
    <3>2. Dropped(n, k)
      BY <2>1, <3>1 DEF Dropped
    <3>. QED  BY <1>0, <2>1, <3>1, <3>2 DEF SlotVersions
  <2>4. StoreVersions' /\ TaskVersions'
    BY <1>0, <2>1, VersionTypes DEF StoreVersions, TaskVersions
  <2>5. WriterVersions'
    <3>1. acked <= source'
      BY <1>0, <2>1, VersionTypes DEF WriterVersions
    <3>2. \A n \in Mutators : mutVer'[n] <= source'
      <4> TAKE n \in Mutators
      <4>1. CASE n = m
        BY <2>1, <4>1, VersionTypes
      <4>2. CASE n # m
        <5>1. mutVer'[n] = mutVer[n] /\ mutVer[n] <= source
          BY <1>0, <2>1, <4>2 DEF WriterVersions
        <5>. QED  BY <2>1, <5>1, VersionTypes
      <4>. QED  BY <4>1, <4>2
    <3>. QED  BY <2>1, <3>1, <3>2 DEF WriterVersions
  <2>. QED  BY <1>0, <2>1, <2>3, <2>4, <2>5 DEF VersionInv, RequestVersions
<1>7. ASSUME MutateFails PROVE VersionInv'
  <2>1. /\ source' = source + 1
        /\ UNCHANGED <<acked, slot, born, data, hasData, taskVer, taskPc, taskStore,
                       reqFloor, reqPc, reqTarget, reqStore, mutPc, mutStep, mutVer>>
    BY <1>7 DEF MutateFails, storeVars, taskVars, reqVars, mutVars
  <2>2. StoreVersions' /\ TaskVersions' /\ WriterVersions'
    BY <1>0, <2>1, VersionTypes DEF StoreVersions, TaskVersions, WriterVersions
  <2>. QED
    BY <1>0, <2>1, <2>2 DEF VersionInv, SlotVersions, Dropped, RequestVersions
<1>8. ASSUME NEW m \in Mutators, Invalidate(m) PROVE VersionInv'
  <2> DEFINE i == mutStep[m]
  <2>1. /\ UNCHANGED <<source, acked, born, data, hasData, taskVer, taskPc, taskStore,
                       reqFloor, reqPc, reqTarget, reqStore, mutVer>>
        /\ slot' = [k \in Keys |-> IF k \in Batches[i] THEN NoStore ELSE slot[k]]
        /\ mutPc[m] = "invalidate" /\ i \in 1..Len(Batches)
        /\ mutPc' = [mutPc EXCEPT ![m] = mutPc'[m]]
        /\ mutStep' = [mutStep EXCEPT ![m] = mutStep'[m]]
    BY <1>8, VersionTypes DEF Invalidate, LastBatch, clockVars, storeVars, taskVars, reqVars
  <2>2. i # Len(Batches) => mutPc'[m] = "invalidate" /\ mutStep'[m] = i + 1
    BY <1>8, VersionTypes DEF Invalidate, LastBatch
  <2>3. SlotVersions'
    <3> SUFFICES ASSUME NEW k \in Keys, slot'[k] # NoStore
                 PROVE  /\ acked <= born[slot'[k]]
                        /\ \A n \in Mutators :
                             Dropped(n, k)' => mutVer[n] <= born[slot'[k]]
      BY <2>1 DEF SlotVersions
    <3>1. slot'[k] = slot[k] /\ slot[k] # NoStore /\ k \notin Batches[i]
      BY <2>1
    <3>2. \A n \in Mutators : Dropped(n, k)' => Dropped(n, k)
      <4> SUFFICES ASSUME NEW n \in Mutators, Dropped(n, k)' PROVE Dropped(n, k)
        OBVIOUS
      <4>1. CASE n # m
        <5>1. mutPc'[n] = mutPc[n] /\ mutStep'[n] = mutStep[n]
          BY <2>1, <4>1, VersionTypes
        <5>. QED  BY <5>1 DEF Dropped
      <4>2. CASE n = m /\ i # Len(Batches)
        <5>1. PICK j \in 1..Len(Batches) : j < i + 1 /\ k \in Batches[j]
          BY <2>2, <4>2 DEF Dropped
        <5>2. j < i
          BY <2>1, <3>1, <5>1, BatchesLen
        <5>. QED  BY <2>1, <4>2, <5>1, <5>2 DEF Dropped
      <4>3. CASE n = m /\ i = Len(Batches)
        <5>1. PICK j \in 1..Len(Batches) : k \in Batches[j]
          BY BatchesCoverKeys
        <5>2. j < i
          BY <2>1, <3>1, <4>3, <5>1, BatchesLen
        <5>. QED  BY <2>1, <4>3, <5>1, <5>2 DEF Dropped
      <4>. QED  BY <4>1, <4>2, <4>3
    <3>. QED  BY <1>0, <3>1, <3>2 DEF SlotVersions
  <2>. QED
    BY <1>0, <2>1, <2>3 DEF VersionInv, StoreVersions, TaskVersions, WriterVersions,
                           RequestVersions
<1>9. ASSUME NEW m \in Mutators, RefreshList(m) PROVE VersionInv'
  <2>1. /\ UNCHANGED <<source, acked, slot, born, data, hasData, taskVer, mutVer, mutStep,
                       reqFloor, reqPc, reqTarget, reqStore>>
        /\ RefreshAsync(ListStore)
        /\ mutPc[m] = "refreshList"
        /\ mutPc' = [mutPc EXCEPT ![m] = "answer"]
    BY <1>9 DEF RefreshList, clockVars, reqVars
  <2>2. \A n \in Mutators, k \in Keys : Dropped(n, k)' => Dropped(n, k)
    BY <2>1, VersionTypes DEF Dropped
  <2>3. TaskVersions'
    BY <1>0, <2>1, RefreshAsyncTaskVersions
  <2>. QED
    BY <1>0, <2>1, <2>2, <2>3 DEF VersionInv, StoreVersions, WriterVersions,
                                 SlotVersions, RequestVersions
<1>10. ASSUME NEW m \in Mutators, Answer(m) PROVE VersionInv'
  <2>1. /\ UNCHANGED <<source, slot, born, data, hasData, taskVer, taskPc, taskStore,
                       reqFloor, reqPc, reqTarget, reqStore, mutStep>>
        /\ mutPc[m] = "answer"
        /\ acked' = IF mutVer[m] > acked THEN mutVer[m] ELSE acked
        /\ mutPc' = [mutPc EXCEPT ![m] = "idle"]
        /\ mutVer' = [mutVer EXCEPT ![m] = 0]
    BY <1>10 DEF Answer, clockVars, storeVars, taskVars, reqVars
  <2>2. acked <= acked' /\ acked' <= source /\ acked' \in Nat
    BY <1>0, <2>1, VersionTypes DEF WriterVersions
  <2>3. WriterVersions'
    BY <1>0, <2>1, <2>2, VersionTypes DEF WriterVersions
  <2>4. SlotVersions'
    <3> SUFFICES ASSUME NEW k \in Keys, slot[k] # NoStore
                 PROVE  /\ acked' <= born[slot[k]]
                        /\ \A n \in Mutators :
                             Dropped(n, k)' => mutVer'[n] <= born[slot[k]]
      BY <2>1 DEF SlotVersions
    <3>1. Dropped(m, k) /\ ~Dropped(m, k)'
      BY <2>1, VersionTypes DEF Dropped
    <3>2. acked' <= born[slot[k]]
      BY <1>0, <2>1, <3>1 DEF SlotVersions
    <3>3. \A n \in Mutators : n # m =>
            (Dropped(n, k)' => Dropped(n, k)) /\ mutVer'[n] = mutVer[n]
      BY <2>1, VersionTypes DEF Dropped
    <3>. QED  BY <1>0, <3>1, <3>2, <3>3 DEF SlotVersions
  <2>5. RequestVersions'
    <3>1. \A q \in Requests : reqFloor[q] <= acked'
      BY <1>0, <2>2, VersionTypes DEF RequestVersions
    <3>. QED  BY <1>0, <2>1, <3>1 DEF RequestVersions
  <2>. QED
    BY <1>0, <2>1, <2>3, <2>4, <2>5 DEF VersionInv, StoreVersions, TaskVersions
<1>11. ASSUME Tick \/ UNCHANGED vars PROVE VersionInv'
  <2>1. UNCHANGED <<source, acked, slot, born, data, hasData, taskVer, taskPc, taskStore,
                    reqFloor, reqPc, reqTarget, reqStore, mutPc, mutStep, mutVer>>
    BY <1>11 DEF Tick, vars, clockVars, storeVars, taskVars, reqVars, mutVars
  <2>. QED
    BY <1>0, <2>1, VersionFrame DEF VersionInv
<1>. QED
  BY <1>1, <1>2, <1>3, <1>4, <1>5, <1>6, <1>7, <1>8, <1>9, <1>10, <1>11 DEF Next

\* A GET of a keyed detail shows no data older than the writes answered before it
\* began, for any number of readers, writers, loads and clears in any order.
THEOREM KeyedReadsSafe == Spec => []KeyedReadsSeeAnsweredWrites
<1>1. TypeInv /\ VersionInv => KeyedReadsSeeAnsweredWrites
  <2> SUFFICES ASSUME TypeInv, VersionInv, NEW r \in Requests,
                      reqPc[r] = "view", reqTarget[r] \in Keys, hasData[reqStore[r]]
               PROVE  ViewData(reqStore[r]) >= reqFloor[r]
    BY DEF KeyedReadsSeeAnsweredWrites
  <2>1. reqFloor[r] <= born[reqStore[r]] /\ born[reqStore[r]] <= data[reqStore[r]]
    BY VersionTypes DEF VersionInv, RequestVersions, StoreVersions
  <2>. QED  BY <2>1, VersionTypes DEF ViewData
<1>. QED
  BY <1>1, InitTypeInv, NextTypeInv, InitVersionInv, NextVersionInv, PTL DEF Spec

-----------------------------------------------------------------------------
(* Reads of the list are monotonic *)

\* A load about to be published on the list is no older than what it replaces,
\* and no GET of the list has shown more than the list holds. Single flight is
\* what makes the first part inductive: nobody else publishes in between.
ListInv ==
  /\ \A t \in Tasks : taskPc[t] = "loaded" /\ taskStore[t] = ListStore
       => ViewData(ListStore) <= taskVer[t]
  /\ seen <= ViewData(ListStore)
  /\ \A r \in Requests : reqTarget[r] = ListStore => reqSeen[r] <= seen

LEMMA ListTypes ==
  ASSUME TypeInv
  PROVE  /\ ViewData(ListStore) \in Int /\ seen \in Int
         /\ seen >= NoData /\ ViewData(ListStore) >= NoData
         /\ reqSeen \in [Requests -> Int]
<1>1. Versions \subseteq Nat /\ NoData = -1
  BY BoundsAssumption DEF Versions, NoData
<1>2. seen \in Int /\ seen >= NoData /\ reqSeen \in [Requests -> Int]
  <2>1. seen \in Versions \cup {NoData} /\ reqSeen \in [Requests -> Versions \cup {NoData}]
    BY DEF TypeInv, TypeOK, ClockType, RequestType
  <2>2. Versions \cup {NoData} \subseteq Int /\ \A v \in Versions \cup {NoData} : v >= NoData
    BY <1>1
  <2>. QED  BY <2>1, <2>2
<1>3. ViewData(ListStore) \in Int /\ ViewData(ListStore) >= NoData
  BY <1>1, HeapFacts, VersionTypes DEF ViewData
<1>. QED  BY <1>2, <1>3

LEMMA NextListInv ==
  TypeInv /\ TypeInv' /\ SingleFlight /\ VersionInv /\ ListInv /\ [Next]_vars => ListInv'
<1> SUFFICES ASSUME TypeInv, TypeInv', SingleFlight, VersionInv, ListInv, [Next]_vars
             PROVE  ListInv'
  OBVIOUS
<1> USE HeapFacts
<1>1. ASSUME NEW t \in Tasks, LoaderReturns(t) PROVE ListInv'
  <2>1. UNCHANGED <<hasData, data, taskStore, seen, reqTarget, reqSeen>>
        /\ ViewData(ListStore)' = ViewData(ListStore)
    BY <1>1 DEF LoaderReturns, storeVars, reqVars, ViewData
  <2>2. ASSUME NEW u \in Tasks, taskPc'[u] = "loaded", taskStore[u] = ListStore
        PROVE  ViewData(ListStore) <= taskVer'[u]
    <3>1. CASE u = t
      <4>1. taskVer'[t] = source
        BY <1>1, <2>2, <3>1, VersionTypes DEF LoaderReturns
      <4>2. data[ListStore] <= source /\ NoData <= source
        BY VersionTypes DEF VersionInv, StoreVersions, NoData
      <4>. QED  BY <3>1, <4>1, <4>2 DEF ViewData
    <3>2. CASE u # t
      BY <1>1, <2>2, <3>2, VersionTypes DEF LoaderReturns, ListInv
    <3>. QED  BY <3>1, <3>2
  <2>. QED  BY <2>1, <2>2 DEF ListInv
<1>2. ASSUME NEW t \in Tasks, RefreshCompletes(t) PROVE ListInv'
  <2>1. /\ UNCHANGED <<seen, reqTarget, reqSeen>>
        /\ \A u \in Tasks : u # t =>
             taskPc'[u] = taskPc[u] /\ taskStore'[u] = taskStore[u] /\ taskVer'[u] = taskVer[u]
        /\ taskPc'[t] = "idle"
    BY <1>2, VersionTypes DEF RefreshCompletes, reqVars
  <2>2. CASE taskStore[t] = ListStore
    <3>1. \A u \in Tasks : u # t => ~(taskPc[u] = "loaded" /\ taskStore[u] = ListStore)
      BY <1>2, <2>2 DEF RefreshCompletes, SingleFlight, Live
    <3>2. ViewData(ListStore)' \in Int /\ ViewData(ListStore) <= ViewData(ListStore)'
      <4>1. CASE taskPc[t] = "loaded"
        <5>1. ViewData(ListStore)' = taskVer[t]
          BY <1>2, <2>2, <4>1, VersionTypes DEF RefreshCompletes, ViewData
        <5>. QED  BY <2>2, <4>1, <5>1, VersionTypes DEF ListInv
      <4>2. CASE taskPc[t] # "loaded"
        <5>1. UNCHANGED <<data, hasData>>
          BY <1>2, <4>2 DEF RefreshCompletes
        <5>. QED  BY <5>1, ListTypes DEF ViewData
      <4>. QED  BY <4>1, <4>2
    <3>3. seen <= ViewData(ListStore)'
      BY <3>2, ListTypes DEF ListInv
    <3>. QED  BY <2>1, <3>1, <3>3 DEF ListInv
  <2>3. CASE taskStore[t] # ListStore
    <3>1. ViewData(ListStore)' = ViewData(ListStore)
      BY <1>2, <2>3, VersionTypes DEF RefreshCompletes, ViewData
    <3>. QED  BY <2>1, <3>1 DEF ListInv
  <2>. QED  BY <2>2, <2>3
<1>3. ASSUME NEW r \in Requests, NEW x \in Asked, NEW force \in BOOLEAN,
             BeginGet(r, x, force)
      PROVE  ListInv'
  <2>1. UNCHANGED <<hasData, data, taskPc, taskStore, taskVer, seen>>
        /\ ViewData(ListStore)' = ViewData(ListStore)
    BY <1>3 DEF BeginGet, storeVars, taskVars, ViewData
  <2>2. \A q \in Requests : reqTarget'[q] = ListStore => reqSeen'[q] <= seen
    <3> SUFFICES ASSUME NEW q \in Requests, reqTarget'[q] = ListStore
                 PROVE  reqSeen'[q] <= seen
      OBVIOUS
    <3>1. CASE q = r
      <4>1. x = ListStore /\ reqSeen'[q] = seen
        BY <1>3, <3>1, VersionTypes, ListTypes DEF BeginGet
      <4>. QED  BY <4>1, ListTypes
    <3>2. CASE q # r
      BY <1>3, <3>2, VersionTypes, ListTypes DEF BeginGet, ListInv
    <3>. QED  BY <3>1, <3>2
  <2>. QED  BY <2>1, <2>2 DEF ListInv
<1>4. ASSUME NEW r \in Requests, Lookup(r) PROVE ListInv'
  <2>1. UNCHANGED <<taskPc, taskStore, taskVer, seen, reqTarget, reqSeen>>
    BY <1>4 DEF Lookup, taskVars
  <2>2. ViewData(ListStore)' = ViewData(ListStore)
    <3>1. CASE UNCHANGED storeVars
      BY <3>1 DEF storeVars, ViewData
    <3>2. CASE ~UNCHANGED storeVars
      <4>1. PICK s \in KeyedStores : /\ hasData' = [hasData EXCEPT ![s] = FALSE]
                                     /\ data' = [data EXCEPT ![s] = 0]
        BY <1>4, <3>2 DEF Lookup
      <4>. QED  BY <4>1, VersionTypes DEF ViewData
    <3>. QED  BY <3>1, <3>2
  <2>. QED  BY <2>1, <2>2 DEF ListInv
<1>5. ASSUME NEW r \in Requests, View(r) PROVE ListInv'
  <2>1. UNCHANGED <<hasData, data, taskPc, taskStore, taskVer>>
        /\ ViewData(ListStore)' = ViewData(ListStore)
    BY <1>5 DEF View, storeVars, taskVars, ViewData
  <2>2. seen <= seen' /\ seen' <= ViewData(ListStore)
    <3>1. reqTarget[r] = ListStore => reqStore[r] = ListStore
      BY DEF TypeInv, RequestShape
    <3>. QED  BY <1>5, <3>1, ListTypes DEF View, ListInv
  <2>3. seen' \in Int /\ NoData <= seen'
    <3>1. reqTarget[r] = ListStore => reqStore[r] = ListStore
      BY DEF TypeInv, RequestShape
    <3>2. seen' = seen \/ seen' = ViewData(ListStore)
      BY <1>5, <3>1 DEF View
    <3>. QED  BY <3>2, ListTypes
  <2>4. \A q \in Requests : reqTarget'[q] = ListStore => reqSeen'[q] <= seen'
    <3> SUFFICES ASSUME NEW q \in Requests, reqTarget'[q] = ListStore
                 PROVE  reqSeen'[q] <= seen'
      OBVIOUS
    <3>1. CASE q = r
      <4>1. reqSeen'[q] = NoData
        BY <1>5, <3>1, ListTypes DEF View
      <4>. QED  BY <2>3, <4>1
    <3>2. CASE q # r
      <4>1. reqSeen'[q] = reqSeen[q] /\ reqSeen[q] <= seen
        BY <1>5, <3>2, VersionTypes, ListTypes DEF View, ListInv
      <4>2. reqSeen[q] \in Int
        BY ListTypes
      <4>. QED  BY <2>2, <2>3, <4>1, <4>2, ListTypes
    <3>. QED  BY <3>1, <3>2
  <2>. QED  BY <2>1, <2>2, <2>4 DEF ListInv
<1>6. ASSUME NEW s \in Stores, RefreshAsync(s),
             UNCHANGED <<hasData, data, taskVer, seen, reqTarget, reqSeen>>
      PROVE  ListInv'
  <2>1. \A t \in Tasks : taskPc'[t] = "loaded" =>
          taskPc[t] = "loaded" /\ taskStore'[t] = taskStore[t]
    BY <1>6, VersionTypes DEF RefreshAsync, StartRefresh
  <2>. QED  BY <1>6, <2>1 DEF ListInv, ViewData
<1>7. ASSUME UNCHANGED <<hasData, data, taskVars, seen, reqTarget, reqSeen>>
      PROVE  ListInv'
  BY <1>7 DEF ListInv, ViewData, taskVars
<1>8. ASSUME NEW r \in Requests, TriggerRefresh(r) PROVE ListInv'
  BY <1>8, <1>6, VersionTypes DEF TriggerRefresh
<1>9. ASSUME NEW m \in Mutators, RefreshList(m) PROVE ListInv'
  BY <1>9, <1>6 DEF RefreshList, reqVars
<1>. QED
  BY <1>1, <1>2, <1>3, <1>4, <1>5, <1>7, <1>8, <1>9
     DEF Next, vars, storeVars, reqVars, Precheck, CheckStale, Mutate, MutateFails,
         Invalidate, LastBatch, Answer, Tick

\* No GET of the list shows older data than a GET answered before it began.
THEOREM ListReadsMonotonic == Spec => []ListReadsAreMonotonic
<1>1. Init => ListInv
  BY HeapFacts DEF Init, ListInv, ViewData, NoData
<1>2. TypeInv /\ ListInv => ListReadsAreMonotonic
  <2> SUFFICES ASSUME TypeInv, ListInv, NEW r \in Requests, reqTarget[r] = ListStore
               PROVE  ViewData(reqStore[r]) >= reqSeen[r]
    BY DEF ListReadsAreMonotonic
  <2>1. reqStore[r] = ListStore
    BY DEF TypeInv, RequestShape
  <2>. QED  BY <2>1, ListTypes DEF ListInv
<1>3. Init => SingleFlight
  BY DEF Init, SingleFlight, Live
<1>. QED
  BY <1>1, <1>2, <1>3, InitTypeInv, NextTypeInv, NextSingleFlight, InitVersionInv,
     NextVersionInv, NextListInv, PTL DEF Spec
=============================================================================
