------------------------ MODULE RuntimeConfigProofs ------------------------
(* For any nodes, batches, requests and failing commands: changes under one *)
(* runtime run one after the other, and a change seen through its answer is *)
(* atomic.                                                                  *)
EXTENDS RuntimeConfig, SequenceTheorems, TLAPS

-----------------------------------------------------------------------------
(* The inductive invariant of the mutex and of the loops *)

Types ==
  /\ TypeOK
  /\ previous \in [Requests -> Seq(Values)] /\ written \in [Requests -> Seq(Nat)]

\* The variables of a request at each place of its loops.
Loop(r) ==
  /\ pc[r] \in {"idle", "lock", "targets"} => index[r] = 1 /\ previous[r] = <<>>
  /\ pc[r] \in {"idle", "lock", "targets", "read"} => written[r] = <<>>
  /\ pc[r] \in {"idle", "lock", "targets", "read", "write", "verify"} => undone[r]
  /\ pc[r] = "read" => Len(previous[r]) = index[r] - 1
  /\ pc[r] = "read" \/ Writing(r) => batch[r] \in Batches
  /\ pc[r] = "fail" => written[r] = <<>>
  /\ pc[r] # "done" => answer[r] = "none"
Loops == \A r \in Requests : Loop(r)

\* Whoever is inside a change holds the mutex of its runtime.
Mutexes == \A r \in Requests : Inside(r) => mutex[runtime[r]] = r

\* A request keeps the runtime it began with.
Overlapping == overlapped =>
  \E r, s \in Requests : pc[r] # "idle" /\ pc[s] # "idle" /\ runtime[r] # runtime[s]

\* As long as overlapped is false, nobody is inside beside another.
Alone == ~overlapped => \A r, s \in Requests : Inside(r) /\ Inside(s) => r = s

IInv == Types /\ Loops /\ Mutexes /\ Overlapping /\ Alone

-----------------------------------------------------------------------------
(* What the steps have in common *)

LEMMA BatchParts ==
  ASSUME NEW b \in Batches
  PROVE  /\ b \in Seq(Nodes) /\ Len(b) \in Nat \ {0} /\ DOMAIN b = 1..Len(b)
         /\ \A i \in 1..Len(b) : b[i] \in Nodes
         /\ \A i, j \in 1..Len(b) : b[i] = b[j] => i = j
<1>1. b \in Seq(Nodes) /\ b # <<>> /\ IsInjective(b)
  BY BatchesAssumption
<1>2. Len(b) \in Nat /\ DOMAIN b = 1..Len(b) /\ \A i \in 1..Len(b) : b[i] \in Nodes
  BY <1>1, LenProperties
<1>3. Len(b) # 0
  BY <1>1, EmptySeq
<1>. QED  BY <1>1, <1>2, <1>3 DEF IsInjective

\* A step that moves no request back and takes no runtime from it.
Onward == \A r \in Requests :
  pc[r] # "idle" => pc'[r] # "idle" /\ runtime'[r] = runtime[r]

LEMMA OverlapsKeeps ==
  ASSUME IInv, Onward, Overlaps, Mutexes'
  PROVE  Overlapping' /\ Alone' /\ overlapped' \in BOOLEAN
<1>1. overlapped' = (overlapped \/ \E r, s \in Requests : r # s /\ Inside(r)' /\ Inside(s)')
  BY DEF Overlaps
<1>2. Alone' /\ overlapped' \in BOOLEAN
  BY <1>1 DEF Alone
<1>3. CASE overlapped
  BY <1>1, <1>2, <1>3 DEF IInv, Overlapping, Onward
<1>4. ASSUME NEW r \in Requests, NEW s \in Requests, r # s, Inside(r)', Inside(s)'
      PROVE  pc'[r] # "idle" /\ pc'[s] # "idle" /\ runtime'[r] # runtime'[s]
  BY <1>4 DEF Mutexes, Inside
<1>5. Overlapping'
  BY <1>1, <1>3, <1>4 DEF Overlapping
<1>. QED  BY <1>2, <1>5

LEMMA SendsTypes ==
  ASSUME Types, NEW r \in Requests, NEW n \in Nodes, NEW v \in Values, NEW ok \in BOOLEAN,
         NEW modes, Sends(r, n, v, ok, modes)
  PROVE  /\ config' = config \/ config' = [config EXCEPT ![n] = v]
         /\ config' \in [Nodes -> Values] /\ faults' \in 0..MaxFaults
<1>1. config \in [Nodes -> Values] /\ faults \in 0..MaxFaults /\ MaxFaults \in Nat
  BY FaultsAssumption DEF Types, TypeOK
<1>2. config' = config \/ config' = [config EXCEPT ![n] = v]
  BY DEF Sends
<1>3. faults' = faults \/ (faults < MaxFaults /\ faults' = faults + 1)
  BY DEF Sends
<1>. QED  BY <1>1, <1>2, <1>3

LEMMA InitHolds ==
  ASSUME Init
  PROVE  IInv
<1>1. \A S : <<>> \in Seq(S)
  BY EmptySeq
<1>2. Types
  <2>1. 1 \in Runtimes
    BY FaultsAssumption DEF Runtimes
  <2>2. /\ previous \in [Requests -> Seq(Values)] /\ written \in [Requests -> Seq(Nat)]
        /\ \A r \in Requests : written[r] \in Seq(DOMAIN previous[r])
    BY <1>1 DEF Init
  <2>3. faults \in 0..MaxFaults
    BY FaultsAssumption DEF Init
  <2>4. \A r \in Requests : pc[r] \notin {"read", "write", "verify"} /\ ~Writing(r)
    BY DEF Init, Writing
  <2>5. /\ config \in [Nodes -> Values] /\ current \in Runtimes
        /\ mutex \in [Runtimes -> Requests \cup {NoRequest}] /\ pc \in [Requests -> Pcs]
        /\ runtime \in [Requests -> Runtimes] /\ batch \in [Requests -> Batches \cup {<<>>}]
    BY <2>1 DEF Init, Pcs
  <2>6. /\ wanted \in [Requests -> Values] /\ undone \in [Requests -> BOOLEAN]
        /\ cancelled \in [Requests -> BOOLEAN] /\ overlapped \in BOOLEAN
        /\ answer \in [Requests -> {"none", "ok", "rejected", "restored", "incomplete"}]
    BY DEF Init
  <2>7. index \in [Requests -> Nat \ {0}]
    <3>1. 1 \in Nat \ {0}
      OBVIOUS
    <3>. QED  BY <3>1 DEF Init
  <2>. QED  BY <2>2, <2>3, <2>4, <2>5, <2>6, <2>7 DEF Types, TypeOK
<1>3. Loops
  BY DEF Init, Loops, Loop, Writing
<1>. QED  BY <1>2, <1>3 DEF Init, IInv, Mutexes, Overlapping, Alone, Inside

-----------------------------------------------------------------------------
(* The steps of a request *)

LEMMA BeginKeeps ==
  ASSUME IInv, NEW r \in Requests, Begin(r), overlapped' \in BOOLEAN
  PROVE  Types' /\ Loops' /\ Mutexes' /\ Onward
<1>. USE DEF IInv
<1>1. /\ UNCHANGED <<config, current, mutex, batch, wanted, index, previous, written,
                     undone, cancelled, answer, faults>>
      /\ pc[r] = "idle" /\ pc' = [pc EXCEPT ![r] = "lock"]
      /\ runtime' = [runtime EXCEPT ![r] = current]
  BY DEF Begin, Goto, clusterVars
<1>2. Types'
  BY <1>1 DEF Types, TypeOK, Pcs, Writing
<1>3. Loops'
  BY <1>1 DEF Types, TypeOK, Loops, Loop, Writing
<1>4. Mutexes' /\ Onward
  BY <1>1 DEF Types, TypeOK, Mutexes, Onward, Inside
<1>. QED  BY <1>2, <1>3, <1>4

LEMMA LockKeeps ==
  ASSUME IInv, NEW r \in Requests, Lock(r), overlapped' \in BOOLEAN
  PROVE  Types' /\ Loops' /\ Mutexes' /\ Onward
<1>. USE DEF IInv
<1>1. /\ UNCHANGED <<config, current, runtime, batch, wanted, index, previous, written,
                     undone, cancelled, answer, faults>>
      /\ pc[r] = "lock" /\ pc' = [pc EXCEPT ![r] = "targets"]
      /\ mutex[runtime[r]] = NoRequest /\ mutex' = [mutex EXCEPT ![runtime[r]] = r]
  BY DEF Lock, Goto, clusterVars, loopVars
<1>2. Types'
  BY <1>1 DEF Types, TypeOK, Pcs, Writing
<1>3. Loops'
  BY <1>1 DEF Types, TypeOK, Loops, Loop, Writing
<1>4. Mutexes' /\ Onward
  BY <1>1, MutexAssumption DEF Types, TypeOK, Mutexes, Onward, Inside
<1>. QED  BY <1>2, <1>3, <1>4

LEMMA ResolveTargetsKeeps ==
  ASSUME IInv, NEW r \in Requests, ResolveTargets(r), overlapped' \in BOOLEAN
  PROVE  Types' /\ Loops' /\ Mutexes' /\ Onward
<1>. USE DEF IInv
<1>1. /\ UNCHANGED <<config, current, mutex, runtime, wanted, index, previous, written,
                     undone, cancelled, answer, faults>>
      /\ pc[r] = "targets"
      /\ \/ /\ pc' = [pc EXCEPT ![r] = "read"]
            /\ \E b \in Batches : batch' = [batch EXCEPT ![r] = b]
         \/ pc' = [pc EXCEPT ![r] = "reject"] /\ UNCHANGED batch
  BY DEF ResolveTargets, ReadSucceeds, Goto, clusterVars
<1>2. index[r] = 1 /\ previous[r] = <<>> /\ written[r] = <<>> /\ undone[r]
  BY <1>1 DEF Loops, Loop
<1>3. CASE pc' = [pc EXCEPT ![r] = "read"] /\ \E b \in Batches : batch' = [batch EXCEPT ![r] = b]
  <2>1. PICK b \in Batches : batch' = [batch EXCEPT ![r] = b]
    BY <1>3
  <2>2. 1 \in DOMAIN b
    BY BatchParts
  <2>3. Types'
    BY <1>1, <1>2, <1>3, <2>1, <2>2 DEF Types, TypeOK, Pcs, Writing
  <2>4. Loops'
    <3>1. Len(<<>>) = 0
      OBVIOUS
    <3>. QED  BY <1>1, <1>2, <1>3, <2>1, <3>1 DEF Types, TypeOK, Loops, Loop, Writing
  <2>. QED  BY <1>1, <1>3, <2>3, <2>4 DEF Types, TypeOK, Mutexes, Onward, Inside
<1>4. CASE pc' = [pc EXCEPT ![r] = "reject"] /\ UNCHANGED batch
  <2>1. Types'
    BY <1>1, <1>4 DEF Types, TypeOK, Pcs, Writing
  <2>2. Loops'
    BY <1>1, <1>2, <1>4 DEF Types, TypeOK, Loops, Loop, Writing
  <2>. QED  BY <1>1, <1>4, <2>1, <2>2 DEF Types, TypeOK, Mutexes, Onward, Inside
<1>. QED  BY <1>1, <1>3, <1>4

LEMMA ReadPreviousKeeps ==
  ASSUME IInv, NEW r \in Requests, ReadPrevious(r), overlapped' \in BOOLEAN
  PROVE  Types' /\ Loops' /\ Mutexes' /\ Onward
<1>. USE DEF IInv
<1>1. /\ UNCHANGED <<config, current, mutex, runtime, batch, wanted, written, undone,
                     cancelled, answer, faults>>
      /\ pc[r] = "read"
      /\ \/ /\ previous' = [previous EXCEPT ![r] = Append(@, config[batch[r][index[r]]])]
            /\ index' = [index EXCEPT ![r] = IF LastNode(r) THEN 1 ELSE @ + 1]
            /\ pc' = [pc EXCEPT ![r] = IF LastNode(r) THEN "write" ELSE "read"]
         \/ pc' = [pc EXCEPT ![r] = "reject"] /\ UNCHANGED <<previous, index>>
  BY DEF ReadPrevious, ReadSucceeds, Goto, clusterVars
<1>2. /\ written[r] = <<>> /\ undone[r] /\ batch[r] \in Batches
      /\ Len(previous[r]) = index[r] - 1 /\ answer[r] = "none"
  BY <1>1 DEF Loops, Loop
<1>3. /\ index[r] \in 1..Len(batch[r]) /\ Len(batch[r]) \in Nat \ {0}
      /\ DOMAIN batch[r] = 1..Len(batch[r]) /\ batch[r][index[r]] \in Nodes
  BY <1>1, <1>2, BatchParts DEF Types, TypeOK
<1>4. CASE pc' = [pc EXCEPT ![r] = "reject"] /\ UNCHANGED <<previous, index>>
  <2>1. Types'
    BY <1>1, <1>4 DEF Types, TypeOK, Pcs, Writing
  <2>2. Loops'
    BY <1>1, <1>2, <1>4 DEF Types, TypeOK, Loops, Loop, Writing
  <2>. QED  BY <1>1, <1>4, <2>1, <2>2 DEF Types, TypeOK, Mutexes, Onward, Inside
<1>5. CASE /\ previous' = [previous EXCEPT ![r] = Append(@, config[batch[r][index[r]]])]
           /\ index' = [index EXCEPT ![r] = IF LastNode(r) THEN 1 ELSE @ + 1]
           /\ pc' = [pc EXCEPT ![r] = IF LastNode(r) THEN "write" ELSE "read"]
  <2>. DEFINE p == Append(previous[r], config[batch[r][index[r]]])
  <2>1. previous' = [previous EXCEPT ![r] = p]
    BY <1>5
  <2>2. p \in Seq(Values) /\ Len(p) = index[r] /\ DOMAIN p = 1..index[r]
    <3>1. previous[r] \in Seq(Values) /\ config[batch[r][index[r]]] \in Values /\ index[r] \in Nat
      BY <1>3 DEF Types, TypeOK
    <3>2. p \in Seq(Values) /\ Len(p) = Len(previous[r]) + 1
      BY <3>1, AppendProperties
    <3>. QED  BY <1>2, <3>1, <3>2, LenProperties
  <2>. HIDE DEF p
  <2>3. <<>> \in Seq(DOMAIN p)
    BY EmptySeq
  <2>4. CASE LastNode(r)
    <3>1. /\ index' = [index EXCEPT ![r] = 1] /\ pc' = [pc EXCEPT ![r] = "write"]
          /\ DOMAIN p = DOMAIN batch[r] /\ 1 \in DOMAIN batch[r]
      BY <1>3, <1>5, <2>2, <2>4 DEF LastNode
    <3>2. Types'
      BY <1>1, <1>2, <2>1, <2>2, <2>3, <3>1 DEF Types, TypeOK, Pcs, Writing
    <3>3. Loops'
      BY <1>1, <1>2, <2>1, <3>1 DEF Types, TypeOK, Loops, Loop, Writing
    <3>. QED  BY <1>1, <3>1, <3>2, <3>3 DEF Types, TypeOK, Mutexes, Onward, Inside
  <2>5. CASE ~LastNode(r)
    <3>1. /\ index' = [index EXCEPT ![r] = index[r] + 1] /\ pc' = [pc EXCEPT ![r] = "read"]
          /\ index[r] + 1 \in DOMAIN batch[r] /\ Len(p) = (index[r] + 1) - 1
      BY <1>3, <1>5, <2>2, <2>5 DEF LastNode
    <3>2. Types'
      <4>1. index[r] + 1 \in Nat \ {0}
        BY <1>3
      <4>. QED  BY <1>1, <1>2, <2>1, <2>2, <2>3, <3>1, <4>1 DEF Types, TypeOK, Pcs, Writing
    <3>3. Loops'
      BY <1>1, <1>2, <2>1, <3>1 DEF Types, TypeOK, Loops, Loop, Writing
    <3>. QED  BY <1>1, <3>1, <3>2, <3>3 DEF Types, TypeOK, Mutexes, Onward, Inside
  <2>. QED  BY <2>4, <2>5
<1>. QED  BY <1>1, <1>4, <1>5

LEMMA WriteNodeKeeps ==
  ASSUME IInv, NEW r \in Requests, WriteNode(r), overlapped' \in BOOLEAN
  PROVE  Types' /\ Loops' /\ Mutexes' /\ Onward
<1>. USE DEF IInv
<1>. DEFINE i == index[r]
            n == batch[r][i]
<1>1. /\ UNCHANGED <<current, mutex, runtime, batch, wanted, previous, undone, cancelled, answer>>
      /\ pc[r] = "write"
  BY DEF WriteNode
<1>2. /\ batch[r] \in Batches /\ undone[r] /\ answer[r] = "none"
      /\ i \in 1..Len(batch[r]) /\ Len(batch[r]) \in Nat \ {0} /\ DOMAIN batch[r] = 1..Len(batch[r])
      /\ n \in Nodes /\ DOMAIN previous[r] = DOMAIN batch[r] /\ wanted[r] \in Values
  BY <1>1, BatchParts DEF Types, TypeOK, Loops, Loop, Writing
<1>3. \/ NextNode(r) /\ UNCHANGED <<config, written, faults>>
      \/ /\ Sends(r, n, wanted[r], TRUE, WriteFaults) /\ UNCHANGED index
         /\ written' = [written EXCEPT ![r] = Append(@, i)] /\ pc' = [pc EXCEPT ![r] = "verify"]
      \/ /\ Sends(r, n, wanted[r], FALSE, WriteFaults) /\ UNCHANGED <<index, written>>
         /\ pc' = [pc EXCEPT ![r] = "undo"]
  BY DEF WriteNode, RemembersWrite, Goto
<1>4. /\ config' \in [Nodes -> Values] /\ faults' \in 0..MaxFaults
  BY <1>2, <1>3, SendsTypes DEF Types, TypeOK
<1>5. CASE NextNode(r) /\ UNCHANGED <<config, written, faults>>
  <2>1. \/ UNCHANGED index /\ pc' = [pc EXCEPT ![r] = "commit"]
        \/ /\ index' = [index EXCEPT ![r] = i + 1] /\ pc' = [pc EXCEPT ![r] = "write"]
           /\ i + 1 \in DOMAIN batch[r] /\ i + 1 \in Nat \ {0}
    <3>1. CASE LastNode(r)
      BY <1>5, <3>1 DEF NextNode, Goto, Types, TypeOK
    <3>2. CASE ~LastNode(r)
      BY <1>2, <1>5, <3>2 DEF NextNode, Goto, LastNode
    <3>. QED  BY <3>1, <3>2
  <2>. HIDE DEF i, n
  <2>2. Types'
    <3>1. CASE UNCHANGED index /\ pc' = [pc EXCEPT ![r] = "commit"]
      BY <1>1, <1>2, <1>4, <1>5, <3>1 DEF Types, TypeOK, Pcs, Writing
    <3>2. CASE /\ index' = [index EXCEPT ![r] = i + 1] /\ pc' = [pc EXCEPT ![r] = "write"]
               /\ i + 1 \in DOMAIN batch[r] /\ i + 1 \in Nat \ {0}
      BY <1>1, <1>2, <1>4, <1>5, <3>2 DEF Types, TypeOK, Pcs, Writing
    <3>. QED  BY <2>1, <3>1, <3>2
  <2>3. Loops'
    BY <1>1, <1>2, <1>5, <2>1 DEF Types, TypeOK, Loops, Loop, Writing
  <2>. QED  BY <1>1, <2>1, <2>2, <2>3 DEF Types, TypeOK, Mutexes, Onward, Inside
<1>6. CASE /\ UNCHANGED index
           /\ written' = [written EXCEPT ![r] = Append(@, i)] /\ pc' = [pc EXCEPT ![r] = "verify"]
  <2>. DEFINE w == Append(written[r], i)
  <2>1. written' = [written EXCEPT ![r] = w]
    BY <1>6
  <2>2. w \in Seq(DOMAIN previous[r]) /\ w \in Seq(Nat)
    <3>1. written[r] \in Seq(DOMAIN previous[r]) /\ written[r] \in Seq(Nat)
      BY DEF Types, TypeOK
    <3>2. i \in DOMAIN previous[r] /\ i \in Nat
      BY <1>2
    <3>. QED  BY <3>1, <3>2, AppendProperties
  <2>. HIDE DEF i, n, w
  <2>3. Types'
    <3>1. pc' \in [Requests -> Pcs] /\ written' \in [Requests -> Seq(Nat)]
      BY <1>1, <1>6, <2>1, <2>2 DEF Types, TypeOK, Pcs
    <3>2. \A q \in Requests : previous[q] \in Seq(Values) /\ written'[q] \in Seq(DOMAIN previous[q])
      BY <2>1, <2>2 DEF Types, TypeOK
    <3>3. \A q \in Requests : pc'[q] \in {"read", "write", "verify"} => index[q] \in DOMAIN batch[q]
      BY <1>1, <1>2, <1>6 DEF Types, TypeOK
    <3>4. \A q \in Requests : Writing(q)' => DOMAIN previous[q] = DOMAIN batch[q]
      BY <1>1, <1>2, <1>6 DEF Types, TypeOK, Writing
    <3>. QED  BY <1>1, <1>4, <1>6, <3>1, <3>2, <3>3, <3>4 DEF Types, TypeOK
  <2>4. Loops'
    BY <1>1, <1>2, <1>6, <2>1 DEF Types, TypeOK, Loops, Loop, Writing
  <2>. QED  BY <1>1, <1>6, <2>3, <2>4 DEF Types, TypeOK, Mutexes, Onward, Inside
<1>7. CASE UNCHANGED <<index, written>> /\ pc' = [pc EXCEPT ![r] = "undo"]
  <2>. HIDE DEF i, n
  <2>1. Types'
    BY <1>1, <1>2, <1>4, <1>7 DEF Types, TypeOK, Pcs, Writing
  <2>2. Loops'
    BY <1>1, <1>2, <1>7 DEF Types, TypeOK, Loops, Loop, Writing
  <2>. QED  BY <1>1, <1>7, <2>1, <2>2 DEF Types, TypeOK, Mutexes, Onward, Inside
<1>. QED  BY <1>3, <1>5, <1>6, <1>7

LEMMA VerifyNodeKeeps ==
  ASSUME IInv, NEW r \in Requests, VerifyNode(r), overlapped' \in BOOLEAN
  PROVE  Types' /\ Loops' /\ Mutexes' /\ Onward
<1>. USE DEF IInv
<1>1. /\ UNCHANGED <<config, current, mutex, runtime, batch, wanted, previous, written,
                     undone, cancelled, answer>>
      /\ pc[r] = "verify"
      /\ NextNode(r) \/ (pc' = [pc EXCEPT ![r] = "undo"] /\ UNCHANGED index)
  BY DEF VerifyNode, Goto, clusterVars
<1>2. /\ batch[r] \in Batches /\ undone[r] /\ answer[r] = "none"
      /\ index[r] \in 1..Len(batch[r]) /\ Len(batch[r]) \in Nat \ {0}
      /\ DOMAIN batch[r] = 1..Len(batch[r])
  BY <1>1, BatchParts DEF Types, TypeOK, Loops, Loop, Writing
<1>3. faults' \in 0..MaxFaults
  <2>1. faults' = faults \/ (faults < MaxFaults /\ faults' = faults + 1)
    BY DEF VerifyNode, ReadSucceeds, ReadFails
  <2>. QED  BY <2>1, FaultsAssumption DEF Types, TypeOK
<1>4. \/ UNCHANGED index /\ \E next \in {"commit", "undo"} : pc' = [pc EXCEPT ![r] = next]
      \/ /\ index' = [index EXCEPT ![r] = index[r] + 1] /\ pc' = [pc EXCEPT ![r] = "write"]
         /\ index[r] + 1 \in DOMAIN batch[r] /\ index[r] + 1 \in Nat \ {0}
  <2>1. CASE LastNode(r)
    BY <1>1, <2>1 DEF NextNode, Goto, Types, TypeOK
  <2>2. CASE ~LastNode(r)
    BY <1>1, <1>2, <2>2 DEF NextNode, Goto, LastNode
  <2>. QED  BY <2>1, <2>2
<1>5. Types'
  <2>1. CASE UNCHANGED index /\ \E next \in {"commit", "undo"} : pc' = [pc EXCEPT ![r] = next]
    BY <1>1, <1>3, <2>1 DEF Types, TypeOK, Pcs, Writing
  <2>2. CASE /\ index' = [index EXCEPT ![r] = index[r] + 1] /\ pc' = [pc EXCEPT ![r] = "write"]
             /\ index[r] + 1 \in DOMAIN batch[r] /\ index[r] + 1 \in Nat \ {0}
    BY <1>1, <1>3, <2>2 DEF Types, TypeOK, Pcs, Writing
  <2>. QED  BY <1>4, <2>1, <2>2
<1>6. Loops'
  BY <1>1, <1>2, <1>4 DEF Types, TypeOK, Loops, Loop, Writing
<1>7. /\ mutex' = mutex /\ runtime' = runtime
      /\ pc'[r] \notin {"idle", "lock", "done"} /\ \A s \in Requests : s # r => pc'[s] = pc[s]
  BY <1>1, <1>4 DEF Types, TypeOK
<1>8. Mutexes'
  BY <1>1, <1>7 DEF Mutexes, Inside
<1>9. Onward
  BY <1>1, <1>7 DEF Onward
<1>. QED  BY <1>5, <1>6, <1>8, <1>9

\* A sequence without its last element.
LEMMA Front ==
  ASSUME NEW S, NEW w \in Seq(S), w # <<>>
  PROVE  LET rest == SubSeq(w, 1, Len(w) - 1)
         IN  /\ rest \in Seq(S) /\ Len(rest) = Len(w) - 1
             /\ \A j \in 1..Len(rest) : rest[j] = w[j]
<1>. DEFINE n == Len(w)
            m == Len(w) - 1
            rest == SubSeq(w, 1, m)
<1>1. /\ n \in Nat /\ n # 0 /\ m \in Nat /\ m < n
  BY EmptySeq, LenProperties
<1>. HIDE DEF n
<1>2. \A j \in 1..m : w[j] \in S
  BY <1>1, ElementOfSeq DEF n
<1>. HIDE DEF m
<1>3. /\ rest \in Seq(S)
      /\ Len(rest) = IF 1 <= m THEN m - 1 + 1 ELSE 0
      /\ \A j \in 1..(m - 1 + 1) : rest[j] = w[1 + j - 1]
  BY <1>1, <1>2, SubSeqProperties
<1>. HIDE DEF rest
<1>4. Len(rest) = m
  BY <1>1, <1>3
<1>5. \A j \in 1..m : rest[j] = w[j]
  <2>1. ASSUME NEW j \in 1..m  PROVE j \in 1..(m - 1 + 1) /\ 1 + j - 1 = j
    BY <1>1
  <2>. QED  BY <1>3, <2>1
<1>. QED  BY <1>3, <1>4, <1>5 DEF rest, m

LEMMA GrownRange ==
  ASSUME NEW S, NEW w \in Seq(S), NEW e \in S
  PROVE  Range(Append(w, e)) = Range(w) \cup {e}
<1>. DEFINE a == Append(w, e)
            n == Len(w)
<1>1. /\ a \in Seq(S) /\ Len(a) = n + 1 /\ n \in Nat
      /\ \A j \in 1..n : a[j] = w[j]
      /\ a[n + 1] = e
  BY AppendProperties, LenProperties
<1>2. DOMAIN a = 1..(n + 1) /\ DOMAIN w = 1..n
  BY <1>1, LenProperties
<1>. HIDE DEF a, n
<1>3. \A j \in 1..(n + 1) : j \in 1..n \/ j = n + 1
  BY <1>1
<1>4. n + 1 \in 1..(n + 1) /\ \A j \in 1..n : j \in 1..(n + 1)
  BY <1>1
<1>5. Range(a) = Range(w) \cup {e}
  BY <1>1, <1>2, <1>3, <1>4 DEF Range
<1>. QED  BY <1>5 DEF a

\* The last of the writes that are left, and the others.
LEMMA LastWrite ==
  ASSUME IInv, NEW r \in Requests, pc[r] = "undo", written[r] # <<>>
  PROVE  LET w == written[r]
             i == w[Len(w)]
             rest == SubSeq(w, 1, Len(w) - 1)
         IN  /\ i \in DOMAIN batch[r] /\ batch[r][i] \in Nodes /\ previous[r][i] \in Values
             /\ rest \in Seq(DOMAIN previous[r]) /\ rest \in Seq(Nat)
             /\ Range(w) = Range(rest) \cup {i}
<1>. DEFINE w == written[r]
            i == w[Len(w)]
            rest == SubSeq(w, 1, Len(w) - 1)
<1>1. /\ w \in Seq(DOMAIN previous[r]) /\ w \in Seq(Nat) /\ previous[r] \in Seq(Values)
      /\ DOMAIN previous[r] = DOMAIN batch[r] /\ batch[r] \in Batches /\ w # <<>>
  BY DEF IInv, Types, TypeOK, Loops, Loop, Writing
<1>. HIDE DEF w
<1>2. Len(w) \in Nat /\ Len(w) # 0 /\ DOMAIN w = 1..Len(w) /\ Len(w) \in 1..Len(w)
  BY <1>1, EmptySeq, LenProperties
<1>3. \A j \in 1..Len(w) : w[j] \in DOMAIN previous[r] /\ w[j] \in Nat
  BY <1>1, ElementOfSeq
<1>4. i \in DOMAIN batch[r]
  BY <1>1, <1>2, <1>3
<1>5. batch[r][i] \in Nodes /\ previous[r][i] \in Values
  BY <1>1, <1>4, BatchParts, LenProperties, ElementOfSeq
<1>6. /\ rest \in Seq(DOMAIN previous[r]) /\ rest \in Seq(Nat)
      /\ Len(rest) = Len(w) - 1 /\ \A j \in 1..Len(rest) : rest[j] = w[j]
  BY <1>1, Front
<1>. HIDE DEF rest
<1>7. DOMAIN rest = 1..(Len(w) - 1)
  BY <1>6, LenProperties
<1>8. \A j \in 1..Len(w) : j = Len(w) \/ j \in 1..(Len(w) - 1)
  <2>. DEFINE n == Len(w)
  <2>1. n \in Nat
    BY <1>2
  <2>. HIDE DEF n
  <2>2. \A j \in 1..n : j = n \/ j \in 1..(n - 1)
    BY <2>1
  <2>. QED  BY <2>2 DEF n
<1>9. \A j \in 1..(Len(w) - 1) : j \in 1..Len(w) /\ rest[j] = w[j]
  BY <1>2, <1>6
<1>10. Range(w) = Range(rest) \cup {i}
  BY <1>2, <1>7, <1>8, <1>9 DEF Range
<1>. QED  BY <1>4, <1>5, <1>6, <1>10 DEF w, rest

LEMMA UndoNodeKeeps ==
  ASSUME IInv, NEW r \in Requests, UndoNode(r), overlapped' \in BOOLEAN
  PROVE  Types' /\ Loops' /\ Mutexes' /\ Onward
<1>. USE DEF IInv
<1>1. /\ UNCHANGED <<current, mutex, runtime, batch, wanted, index, previous, cancelled, answer>>
      /\ pc[r] = "undo" /\ answer[r] = "none" /\ batch[r] \in Batches
  BY DEF UndoNode, Loops, Loop, Writing
<1>2. CASE /\ written[r] = <<>> /\ pc' = [pc EXCEPT ![r] = "fail"]
           /\ UNCHANGED <<config, written, undone, faults>>
  <2>1. Types'
    BY <1>1, <1>2 DEF Types, TypeOK, Pcs, Writing
  <2>2. Loops'
    BY <1>1, <1>2 DEF Types, TypeOK, Loops, Loop, Writing
  <2>. QED  BY <1>1, <1>2, <2>1, <2>2 DEF Types, TypeOK, Mutexes, Onward, Inside
<1>3. CASE written[r] # <<>> /\ UNCHANGED pc
  <2>. DEFINE i == written[r][Len(written[r])]
              rest == SubSeq(written[r], 1, Len(written[r]) - 1)
  <2>1. /\ batch[r][i] \in Nodes /\ previous[r][i] \in Values
        /\ rest \in Seq(DOMAIN previous[r]) /\ rest \in Seq(Nat)
    BY <1>1, <1>3, LastWrite
  <2>2. PICK ok \in BOOLEAN : /\ Sends(r, batch[r][i], previous[r][i], ok, UndoFaults)
                              /\ undone' = [undone EXCEPT ![r] = @ /\ ok]
    BY <1>3 DEF UndoNode
  <2>3. written' = [written EXCEPT ![r] = rest]
    BY <1>3 DEF UndoNode
  <2>4. config' \in [Nodes -> Values] /\ faults' \in 0..MaxFaults
    BY <2>1, <2>2, SendsTypes
  <2>5. undone' \in [Requests -> BOOLEAN]
    BY <2>2 DEF Types, TypeOK
  <2>. HIDE DEF i, rest
  <2>6. Types'
    BY <1>1, <1>3, <2>1, <2>3, <2>4, <2>5 DEF Types, TypeOK, Pcs, Writing
  <2>7. Loops'
    BY <1>1, <1>3, <2>2, <2>3 DEF Types, TypeOK, Loops, Loop, Writing
  <2>. QED  BY <1>1, <1>3, <2>6, <2>7 DEF Types, TypeOK, Mutexes, Onward, Inside
<1>. QED  BY <1>2, <1>3 DEF UndoNode, Goto

LEMMA FinishKeeps ==
  ASSUME IInv, NEW r \in Requests, Finish(r), overlapped' \in BOOLEAN
  PROVE  Types' /\ Loops' /\ Mutexes' /\ Onward
<1>. USE DEF IInv
<1>1. /\ UNCHANGED <<config, current, runtime, batch, wanted, index, previous, written,
                     undone, cancelled, faults>>
      /\ pc[r] \in {"commit", "reject", "fail"} /\ pc' = [pc EXCEPT ![r] = "done"]
      /\ mutex' = [mutex EXCEPT ![runtime[r]] = NoRequest]
  BY DEF Finish, Goto, Unlock, clusterVars, loopVars
<1>2. \E a \in {"ok", "rejected", "restored", "incomplete"} : answer' = [answer EXCEPT ![r] = a]
  <2>. DEFINE a == CASE pc[r] = "commit" -> "ok"
                     [] pc[r] = "reject" -> "rejected"
                     [] OTHER -> IF undone[r] THEN "restored" ELSE "incomplete"
  <2>1. a \in {"ok", "rejected", "restored", "incomplete"}
    BY <1>1
  <2>2. answer' = [answer EXCEPT ![r] = a]
    BY DEF Finish
  <2>. QED  BY <2>1, <2>2
<1>3. Types'
  BY <1>1, <1>2 DEF Types, TypeOK, Pcs, Writing
<1>4. Loops'
  BY <1>1, <1>2 DEF Types, TypeOK, Loops, Loop, Writing
<1>5. Mutexes'
  <2>1. ASSUME NEW s \in Requests, Inside(s)'  PROVE mutex'[runtime'[s]] = s
    <3>1. s # r /\ Inside(s) /\ Inside(r)
      BY <1>1, <2>1 DEF Types, TypeOK, Inside
    <3>2. mutex[runtime[s]] = s /\ mutex[runtime[r]] = r
      BY <3>1 DEF Mutexes
    <3>. QED  BY <1>1, <3>1, <3>2 DEF Types, TypeOK
  <2>. QED  BY <2>1 DEF Mutexes
<1>. QED  BY <1>1, <1>3, <1>4, <1>5 DEF Types, TypeOK, Onward

-----------------------------------------------------------------------------
(* The environment, and the next step *)

LEMMA EnvironmentKeeps ==
  ASSUME IInv, overlapped' \in BOOLEAN,
         ReplaceRuntime \/ \E r \in Requests : Disconnect(r)
  PROVE  Types' /\ Loops' /\ Mutexes' /\ Onward
<1>. USE DEF IInv
<1>1. /\ UNCHANGED <<config, mutex, pc, runtime, batch, wanted, index, previous, written,
                     undone, answer, faults>>
      /\ current' \in Runtimes /\ cancelled' \in [Requests -> BOOLEAN]
  <2>1. CASE ReplaceRuntime
    BY <2>1, FaultsAssumption DEF ReplaceRuntime, loopVars, Types, TypeOK, Runtimes
  <2>2. CASE \E r \in Requests : Disconnect(r)
    BY <2>2 DEF Disconnect, clusterVars, loopVars, Types, TypeOK
  <2>. QED  BY <2>1, <2>2
<1>2. Types'
  BY <1>1 DEF Types, TypeOK, Writing
<1>3. Loops' /\ Mutexes' /\ Onward
  BY <1>1 DEF Loops, Loop, Writing, Mutexes, Inside, Onward
<1>. QED  BY <1>2, <1>3

LEMMA Inductive ==
  ASSUME IInv, [Next]_vars
  PROVE  IInv'
<1>1. CASE Next
  <2>1. Overlaps
    BY <1>1 DEF Next, HandlerStep
  <2>2. overlapped' \in BOOLEAN
    BY <2>1 DEF Overlaps, IInv, Types, TypeOK
  <2>3. Types' /\ Loops' /\ Mutexes' /\ Onward
    <3>1. ASSUME NEW r \in Requests, HandlerStep(r) \/ Begin(r)
          PROVE  Types' /\ Loops' /\ Mutexes' /\ Onward
      BY <2>2, <3>1, BeginKeeps, LockKeeps, ResolveTargetsKeeps, ReadPreviousKeeps,
         WriteNodeKeeps, VerifyNodeKeeps, UndoNodeKeeps, FinishKeeps DEF HandlerStep
    <3>2. CASE ReplaceRuntime \/ \E r \in Requests : Disconnect(r)
      BY <2>2, <3>2, EnvironmentKeeps
    <3>. QED  BY <1>1, <3>1, <3>2 DEF Next
  <2>4. Overlapping' /\ Alone'
    BY <2>1, <2>3, OverlapsKeeps
  <2>. QED  BY <2>3, <2>4 DEF IInv
<1>2. CASE UNCHANGED vars
  <2>1. UNCHANGED <<config, current, mutex, pc, runtime, batch, wanted, index, previous,
                    written, undone, cancelled, answer, faults, overlapped>>
    BY <1>2 DEF vars, clusterVars, loopVars
  <2>2. Types' /\ Loops'
    BY <2>1 DEF IInv, Types, TypeOK, Loops, Loop, Writing
  <2>3. Mutexes' /\ Overlapping' /\ Alone'
    BY <2>1 DEF IInv, Mutexes, Overlapping, Alone, Inside
  <2>. QED  BY <2>2, <2>3 DEF IInv
<1>. QED  BY <1>1, <1>2

\* The inductive invariant holds in every reachable state of applyRuntimeConfigChange
\* and of the runtimes that updateCluster replaces under it.
THEOREM Invariance == Spec => []IInv
<1>1. Init => IInv
  BY InitHolds
<1>2. IInv /\ [Next]_vars => IInv'
  BY Inductive
<1>. QED  BY <1>1, <1>2, PTL DEF Spec

\* Changes that hold one runtime run one after the other, and two changes are under
\* way at once only when updateCluster has given the cluster a new runtime, whatever
\* the nodes, the batches, the number of requests and of replaced runtimes.
THEOREM Serial == Spec => []ChangesAreSerial
<1>1. IInv => ChangesAreSerial
  <2>1. ASSUME IInv, NEW r \in Requests, NEW s \in Requests,
               Inside(r), Inside(s), runtime[r] = runtime[s]
        PROVE  r = s
    BY <2>1 DEF IInv, Mutexes
  <2>. QED  BY <2>1 DEF IInv, Types, Overlapping, ChangesAreSerial
<1>. QED  BY <1>1, Invariance, PTL

-----------------------------------------------------------------------------
(* What a change knows of its nodes, while no other is under way *)

\* The old values read so far are those of the nodes.
OldValues(r) == pc[r] = "read" =>
  \A i \in DOMAIN batch[r] : i < index[r] => previous[r][i] = config[batch[r][i]]

\* A node of the batch has the old value or the new one.
TwoValues(r) == Writing(r) =>
  \A i \in DOMAIN batch[r] : config[batch[r][i]] \in {previous[r][i], wanted[r]}

\* Without an error of the rollback, a node has the old value unless its write is
\* still to be undone.
Undoable(r) == Writing(r) /\ undone[r] =>
  \A i \in DOMAIN batch[r] : i \in Range(written[r]) \/ config[batch[r][i]] = previous[r][i]

\* The nodes the loop has left behind have the new value.
Applied(r) ==
  /\ pc[r] \in {"write", "verify"} =>
       \A i \in DOMAIN batch[r] : i < index[r] => config[batch[r][i]] = wanted[r]
  /\ pc[r] = "commit" => \A i \in DOMAIN batch[r] : config[batch[r][i]] = wanted[r]

DataOf(r) == OldValues(r) /\ TwoValues(r) /\ Undoable(r) /\ Applied(r)
Data == ~overlapped => \A r \in Requests : DataOf(r)

\* The ways a command can go wrong under which a change can be atomic: an error of
\* a write means it had no effect, and an undo that answers without one had its own.
HonestFaults == "delivered" \notin WriteFaults /\ "ignored" \notin UndoFaults

LEMMA SendsEffect ==
  ASSUME NEW r \in Requests, NEW n \in Nodes, NEW v \in Values, NEW ok \in BOOLEAN,
         NEW modes, Sends(r, n, v, ok, modes)
  PROVE  /\ (~ok /\ "delivered" \notin modes) => UNCHANGED config
         /\ (ok /\ "ignored" \notin modes) => config' = [config EXCEPT ![n] = v]
BY DEF Sends

\* A step of a request outside the loops, or into them with nothing read.
LEMMA DataBefore ==
  ASSUME NEW r \in Requests, ~Writing(r)', pc'[r] # "read"
  PROVE  DataOf(r)'
BY DEF DataOf, OldValues, TwoValues, Undoable, Applied, Writing

\* A step that leaves alone what a request knows.
LEMMA DataSame ==
  ASSUME NEW r \in Requests, DataOf(r), UNCHANGED config,
         pc'[r] = pc[r], batch'[r] = batch[r], wanted'[r] = wanted[r], index'[r] = index[r],
         previous'[r] = previous[r], written'[r] = written[r], undone'[r] = undone[r]
  PROVE  DataOf(r)'
BY DEF DataOf, OldValues, TwoValues, Undoable, Applied, Writing

LEMMA ResolveTargetsData ==
  ASSUME IInv, NEW r \in Requests, ResolveTargets(r)
  PROVE  DataOf(r)'
<1>1. /\ UNCHANGED <<config, index>> /\ index[r] = 1
      /\ \/ /\ pc' = [pc EXCEPT ![r] = "read"]
            /\ \E b \in Batches : batch' = [batch EXCEPT ![r] = b]
         \/ pc' = [pc EXCEPT ![r] = "reject"]
  BY DEF ResolveTargets, Goto, clusterVars, IInv, Loops, Loop
<1>2. CASE pc' = [pc EXCEPT ![r] = "reject"]
  BY <1>2, DataBefore DEF Writing, IInv, Types, TypeOK
<1>3. CASE /\ pc' = [pc EXCEPT ![r] = "read"]
           /\ \E b \in Batches : batch' = [batch EXCEPT ![r] = b]
  <2>1. PICK b \in Batches : batch'[r] = b
    BY <1>3 DEF IInv, Types, TypeOK
  <2>2. pc'[r] = "read" /\ index'[r] = 1
    BY <1>1, <1>3 DEF IInv, Types, TypeOK
  <2>3. \A i \in DOMAIN b : ~(i < 1)
    BY BatchParts
  <2>. QED  BY <2>1, <2>2, <2>3 DEF DataOf, OldValues, TwoValues, Undoable, Applied, Writing
<1>. QED  BY <1>1, <1>2, <1>3

LEMMA ReadPreviousData ==
  ASSUME IInv, NEW r \in Requests, DataOf(r), ReadPrevious(r)
  PROVE  DataOf(r)'
<1>. USE DEF IInv
<1>. DEFINE k == index[r]
            b == batch[r]
            p == Append(previous[r], config[b[k]])
<1>1. /\ UNCHANGED <<config, batch, wanted, written, undone>> /\ pc[r] = "read"
      /\ \/ /\ previous' = [previous EXCEPT ![r] = p]
            /\ index' = [index EXCEPT ![r] = IF LastNode(r) THEN 1 ELSE @ + 1]
            /\ pc' = [pc EXCEPT ![r] = IF LastNode(r) THEN "write" ELSE "read"]
         \/ pc' = [pc EXCEPT ![r] = "reject"] /\ UNCHANGED <<previous, index>>
  BY DEF ReadPrevious, Goto, clusterVars
<1>2. /\ b \in Batches /\ Len(previous[r]) = k - 1
      /\ k \in 1..Len(b) /\ Len(b) \in Nat \ {0} /\ DOMAIN b = 1..Len(b)
      /\ \A i \in 1..Len(b) : b[i] \in Nodes
  BY <1>1, BatchParts DEF Types, TypeOK, Loops, Loop
<1>3. CASE pc' = [pc EXCEPT ![r] = "reject"]
  BY <1>3, DataBefore DEF Writing, Types, TypeOK
<1>4. CASE /\ previous' = [previous EXCEPT ![r] = p]
           /\ index' = [index EXCEPT ![r] = IF LastNode(r) THEN 1 ELSE @ + 1]
           /\ pc' = [pc EXCEPT ![r] = IF LastNode(r) THEN "write" ELSE "read"]
  <2>1. \A i \in 1..k : p[i] = config[b[i]]
    <3>1. previous[r] \in Seq(Values) /\ config[b[k]] \in Values
      BY <1>2 DEF Types, TypeOK
    <3>2. /\ \A i \in 1..Len(previous[r]) : p[i] = previous[r][i]
          /\ p[Len(previous[r]) + 1] = config[b[k]]
      BY <3>1, AppendProperties
    <3>3. \A i \in 1..(k - 1) : i \in DOMAIN b /\ i < k
      BY <1>2
    <3>4. \A i \in 1..(k - 1) : previous[r][i] = config[b[i]]
      BY <1>1, <3>3 DEF DataOf, OldValues
    <3>5. k - 1 + 1 = k /\ \A i \in 1..k : i \in 1..(k - 1) \/ i = k
      BY <1>2
    <3>. QED  BY <1>2, <3>2, <3>4, <3>5
  <2>. HIDE DEF p
  <2>2. previous'[r] = p /\ batch'[r] = b
    BY <1>1, <1>4 DEF Types, TypeOK
  <2>3. CASE LastNode(r)
    <3>1. /\ pc'[r] = "write" /\ index'[r] = 1 /\ k = Len(b)
      BY <1>4, <2>3 DEF Types, TypeOK, LastNode
    <3>2. \A i \in DOMAIN b : ~(i < 1) /\ p[i] = config[b[i]]
      BY <1>2, <2>1, <3>1
    <3>. HIDE DEF b, k
    <3>. QED  BY <1>1, <2>2, <3>1, <3>2 DEF DataOf, OldValues, TwoValues, Undoable, Applied, Writing
  <2>4. CASE ~LastNode(r)
    <3>1. /\ pc'[r] = "read" /\ index'[r] = k + 1
      BY <1>4, <2>4 DEF Types, TypeOK
    <3>2. \A i \in DOMAIN b : i < k + 1 => p[i] = config[b[i]]
      <4>1. \A i \in 1..Len(b) : i < k + 1 => i \in 1..k
        BY <1>2
      <4>. QED  BY <1>2, <2>1, <4>1
    <3>. HIDE DEF b, k
    <3>. QED  BY <1>1, <2>2, <3>1, <3>2 DEF DataOf, OldValues, TwoValues, Undoable, Applied, Writing
  <2>. QED  BY <2>3, <2>4
<1>. QED  BY <1>1, <1>3, <1>4

\* The loop goes on from a node that has the new value.
LEMMA NextNodeData ==
  ASSUME IInv, NEW r \in Requests, DataOf(r), pc[r] \in {"write", "verify"}, NextNode(r),
         config[batch[r][index[r]]] = wanted[r],
         UNCHANGED <<config, batch, wanted, previous, written, undone>>
  PROVE  DataOf(r)'
<1>. USE DEF IInv
<1>. DEFINE k == index[r]
            b == batch[r]
<1>1. /\ b \in Batches /\ k \in 1..Len(b) /\ Len(b) \in Nat \ {0} /\ DOMAIN b = 1..Len(b)
  BY BatchParts DEF Types, TypeOK, Loops, Loop, Writing
<1>2. \A i \in DOMAIN b : i < k + 1 => config[b[i]] = wanted[r]
  <2>1. \A i \in 1..Len(b) : i < k + 1 => i = k \/ i < k
    BY <1>1
  <2>2. \A i \in DOMAIN b : i < k => config[b[i]] = wanted[r]
    BY DEF DataOf, Applied
  <2>. QED  BY <1>1, <2>1, <2>2
<1>3. CASE LastNode(r)
  <2>1. pc'[r] = "commit" /\ k = Len(b)
    BY <1>3 DEF NextNode, Goto, LastNode, Types, TypeOK
  <2>2. \A i \in DOMAIN b : config[b[i]] = wanted[r]
    <3>1. \A i \in 1..Len(b) : i < k + 1
      BY <1>1, <2>1
    <3>. QED  BY <1>1, <1>2, <3>1
  <2>. HIDE DEF k
  <2>. QED  BY <2>1, <2>2 DEF DataOf, OldValues, TwoValues, Undoable, Applied, Writing
<1>4. CASE ~LastNode(r)
  <2>1. pc'[r] = "write" /\ index'[r] = k + 1
    BY <1>4 DEF NextNode, Goto, Types, TypeOK
  <2>. HIDE DEF k
  <2>. QED  BY <1>2, <2>1 DEF DataOf, OldValues, TwoValues, Undoable, Applied, Writing
<1>. QED  BY <1>3, <1>4

\* A write that answered without an error, and one that did not.
LEMMA WriteNodeData ==
  ASSUME IInv, HonestFaults, NEW r \in Requests, DataOf(r), WriteNode(r)
  PROVE  DataOf(r)'
<1>. USE DEF IInv
<1>. DEFINE k == index[r]
            b == batch[r]
            n == b[k]
<1>1. /\ UNCHANGED <<batch, wanted, previous, undone>> /\ pc[r] = "write"
      /\ \/ /\ previous[r][k] = wanted[r] /\ NextNode(r)
            /\ UNCHANGED <<config, written>>
         \/ /\ Sends(r, n, wanted[r], TRUE, WriteFaults) /\ UNCHANGED index
            /\ written' = [written EXCEPT ![r] = Append(@, k)] /\ pc' = [pc EXCEPT ![r] = "verify"]
         \/ /\ Sends(r, n, wanted[r], FALSE, WriteFaults) /\ UNCHANGED <<index, written>>
            /\ pc' = [pc EXCEPT ![r] = "undo"]
  BY DEF WriteNode, RemembersWrite, Goto
<1>2. /\ b \in Batches /\ k \in 1..Len(b) /\ Len(b) \in Nat \ {0} /\ DOMAIN b = 1..Len(b)
      /\ \A i \in 1..Len(b) : b[i] \in Nodes
      /\ \A i, j \in 1..Len(b) : b[i] = b[j] => i = j
      /\ wanted[r] \in Values /\ config \in [Nodes -> Values]
  BY <1>1, BatchParts DEF Types, TypeOK, Loops, Loop, Writing
<1>3. CASE previous[r][k] = wanted[r] /\ NextNode(r) /\ UNCHANGED <<config, written>>
  <2>1. config[n] = wanted[r]
    BY <1>1, <1>2, <1>3 DEF DataOf, TwoValues, Writing
  <2>. QED  BY <1>1, <1>3, <2>1, NextNodeData
<1>4. CASE /\ Sends(r, n, wanted[r], TRUE, WriteFaults) /\ UNCHANGED index
           /\ written' = [written EXCEPT ![r] = Append(@, k)] /\ pc' = [pc EXCEPT ![r] = "verify"]
  <2>. DEFINE w == Append(written[r], k)
  <2>1. Range(w) = Range(written[r]) \cup {k}
    <3>1. written[r] \in Seq(Nat) /\ k \in Nat
      BY <1>2 DEF Types
    <3>. QED  BY <3>1, GrownRange
  <2>2. config' = config \/ config' = [config EXCEPT ![n] = wanted[r]]
    BY <1>4 DEF Sends
  <2>3. /\ n \in Nodes
        /\ \A i \in DOMAIN b : i # k => config'[b[i]] = config[b[i]]
        /\ config'[n] \in {config[n], wanted[r]}
    <3>1. n \in Nodes /\ \A i \in DOMAIN b : b[i] \in Nodes /\ (i # k => b[i] # n)
      BY <1>2
    <3>. HIDE DEF n, k, b
    <3>. QED  BY <1>2, <2>2, <3>1
  <2>4. pc'[r] = "verify" /\ written'[r] = w /\ index'[r] = k
    BY <1>4 DEF Types, TypeOK
  <2>. HIDE DEF w
  <2>5. TwoValues(r)'
    <3>1. \A i \in DOMAIN b : config[b[i]] \in {previous[r][i], wanted[r]}
      BY <1>1 DEF DataOf, TwoValues, Writing
    <3>2. \A i \in DOMAIN b : config'[b[i]] \in {previous[r][i], wanted[r]}
      BY <2>3, <3>1
    <3>. QED  BY <1>1, <3>2 DEF TwoValues
  <2>6. Undoable(r)'
    <3>1. \A i \in DOMAIN b : i \in Range(written[r]) \/ config[b[i]] = previous[r][i]
      BY <1>1 DEF DataOf, Undoable, Writing, Loops, Loop
    <3>2. \A i \in DOMAIN b : i \in Range(w) \/ config'[b[i]] = previous[r][i]
      BY <2>1, <2>3, <3>1
    <3>. HIDE DEF k, b
    <3>. QED  BY <1>1, <2>4, <3>2 DEF Undoable, b
  <2>7. Applied(r)'
    <3>1. \A i \in DOMAIN b : i < k => config[b[i]] = wanted[r] /\ i # k
      BY <1>1, <1>2 DEF DataOf, Applied
    <3>2. \A i \in DOMAIN b : i < k => config'[b[i]] = wanted[r]
      BY <2>3, <3>1
    <3>. HIDE DEF k, b
    <3>. QED  BY <1>1, <2>4, <3>2 DEF Applied, b
  <2>. QED  BY <2>4, <2>5, <2>6, <2>7 DEF DataOf, OldValues
<1>5. CASE /\ Sends(r, n, wanted[r], FALSE, WriteFaults) /\ UNCHANGED <<index, written>>
           /\ pc' = [pc EXCEPT ![r] = "undo"]
  <2>1. UNCHANGED config
    <3>1. n \in Nodes
      BY <1>2
    <3>. HIDE DEF n, k, b
    <3>. QED  BY <1>2, <1>5, <3>1, SendsEffect DEF HonestFaults
  <2>2. pc'[r] = "undo"
    BY <1>5 DEF Types, TypeOK
  <2>. HIDE DEF n, k, b
  <2>. QED  BY <1>1, <1>5, <2>1, <2>2 DEF DataOf, OldValues, TwoValues, Undoable, Applied, Writing
<1>. QED  BY <1>1, <1>3, <1>4, <1>5

LEMMA VerifyNodeData ==
  ASSUME IInv, NEW r \in Requests, DataOf(r), VerifyNode(r)
  PROVE  DataOf(r)'
<1>1. /\ UNCHANGED <<config, batch, wanted, previous, written, undone>> /\ pc[r] = "verify"
      /\ \/ config[batch[r][index[r]]] = wanted[r] /\ NextNode(r)
         \/ pc' = [pc EXCEPT ![r] = "undo"]
  BY DEF VerifyNode, Goto, clusterVars
<1>2. CASE config[batch[r][index[r]]] = wanted[r] /\ NextNode(r)
  BY <1>1, <1>2, NextNodeData
<1>3. CASE pc' = [pc EXCEPT ![r] = "undo"]
  <2>1. pc'[r] = "undo"
    BY <1>3 DEF IInv, Types, TypeOK
  <2>. QED  BY <1>1, <2>1 DEF DataOf, OldValues, TwoValues, Undoable, Applied, Writing
<1>. QED  BY <1>1, <1>2, <1>3

\* One write undone: its node has the old value, or the rollback has an error.
LEMMA UndoNodeData ==
  ASSUME IInv, HonestFaults, NEW r \in Requests, DataOf(r), UndoNode(r)
  PROVE  DataOf(r)'
<1>. USE DEF IInv
<1>. DEFINE b == batch[r]
<1>1. /\ UNCHANGED <<batch, wanted, previous>> /\ pc[r] = "undo" /\ b \in Batches
  BY DEF UndoNode, Loops, Loop, Writing
<1>2. CASE /\ written[r] = <<>> /\ pc' = [pc EXCEPT ![r] = "fail"]
           /\ UNCHANGED <<config, written, undone, faults>>
  <2>1. pc'[r] = "fail"
    BY <1>2 DEF Types, TypeOK
  <2>. QED  BY <1>1, <1>2, <2>1 DEF DataOf, OldValues, TwoValues, Undoable, Applied, Writing
<1>3. CASE written[r] # <<>> /\ UNCHANGED pc
  <2>. DEFINE k == written[r][Len(written[r])]
              rest == SubSeq(written[r], 1, Len(written[r]) - 1)
              n == b[k]
  <2>1. /\ k \in DOMAIN b /\ n \in Nodes /\ previous[r][k] \in Values
        /\ Range(written[r]) = Range(rest) \cup {k}
    BY <1>1, <1>3, LastWrite
  <2>2. PICK ok \in BOOLEAN : /\ Sends(r, n, previous[r][k], ok, UndoFaults)
                              /\ undone' = [undone EXCEPT ![r] = @ /\ ok]
    BY <1>3 DEF UndoNode
  <2>3. written'[r] = rest /\ (undone'[r] <=> undone[r] /\ ok) /\ pc'[r] = "undo"
    BY <1>1, <1>3, <2>2 DEF UndoNode, Types, TypeOK
  <2>4. config' = config \/ config' = [config EXCEPT ![n] = previous[r][k]]
    BY <2>2 DEF Sends
  <2>5. ok => config' = [config EXCEPT ![n] = previous[r][k]]
    <3>. HIDE DEF n, k
    <3>. QED  BY <2>1, <2>2, SendsEffect DEF HonestFaults
  <2>6. /\ \A i \in DOMAIN b : b[i] \in Nodes /\ (i # k => b[i] # n)
        /\ config \in [Nodes -> Values]
    <3>1. config \in [Nodes -> Values]
      BY DEF Types, TypeOK
    <3>2. \A i \in 1..Len(b) : b[i] \in Nodes
      BY <1>1, BatchParts
    <3>3. DOMAIN b = 1..Len(b) /\ \A i, j \in 1..Len(b) : b[i] = b[j] => i = j
      BY <1>1, BatchParts
    <3>. HIDE DEF b, k
    <3>4. \A i \in DOMAIN b : i # k => b[i] # b[k]
      BY <2>1, <3>3
    <3>. QED  BY <3>1, <3>2, <3>3, <3>4 DEF n
  <2>. HIDE DEF k, rest
  <2>7. /\ \A i \in DOMAIN b : i # k => config'[b[i]] = config[b[i]]
        /\ config'[b[k]] \in {config[b[k]], previous[r][k]}
        /\ ok => config'[b[k]] = previous[r][k]
    <3>. HIDE DEF b
    <3>. QED  BY <2>1, <2>4, <2>5, <2>6
  <2>8. TwoValues(r)'
    <3>1. \A i \in DOMAIN b : config[b[i]] \in {previous[r][i], wanted[r]}
      BY <1>1 DEF DataOf, TwoValues, Writing
    <3>2. \A i \in DOMAIN b : config'[b[i]] \in {previous[r][i], wanted[r]}
      BY <2>1, <2>7, <3>1
    <3>. QED  BY <1>1, <3>2 DEF TwoValues
  <2>9. Undoable(r)'
    <3>1. ASSUME undone'[r], NEW i \in DOMAIN b, i \notin Range(rest)
          PROVE  config'[b[i]] = previous[r][i]
      <4>1. undone[r] /\ ok
        BY <2>3, <3>1
      <4>2. i = k \/ config[b[i]] = previous[r][i]
        BY <1>1, <2>1, <3>1, <4>1 DEF DataOf, Undoable, Writing
      <4>. QED  BY <2>7, <4>1, <4>2
    <3>2. batch'[r] = b /\ previous' = previous
      BY <1>1
    <3>. HIDE DEF b
    <3>. QED  BY <2>3, <3>1, <3>2 DEF Undoable
  <2>. QED  BY <2>3, <2>8, <2>9 DEF DataOf, OldValues, Applied
<1>. QED  BY <1>2, <1>3 DEF UndoNode, Goto

\* Outside a change, a step of a request leaves the nodes alone.
LEMMA OutsideData ==
  ASSUME IInv, NEW r \in Requests, Begin(r) \/ Lock(r) \/ Finish(r)
  PROVE  DataOf(r)' /\ UNCHANGED config
<1>1. pc'[r] \in {"lock", "targets", "done"} /\ UNCHANGED config
  BY DEF Begin, Lock, Finish, Goto, clusterVars, IInv, Types, TypeOK
<1>. QED  BY <1>1, DataBefore DEF Writing

\* A step of one request takes nothing from another, when only one is inside.
LEMMA OtherData ==
  ASSUME IInv, NEW r \in Requests, NEW s \in Requests, s # r, DataOf(s), ~overlapped,
         HandlerStep(r) \/ Begin(r)
  PROVE  DataOf(s)'
<1>. USE DEF IInv
<1>1. /\ pc'[s] = pc[s] /\ batch'[s] = batch[s] /\ wanted'[s] = wanted[s]
      /\ index'[s] = index[s] /\ previous'[s] = previous[s]
      /\ written'[s] = written[s] /\ undone'[s] = undone[s]
  BY DEF HandlerStep, Begin, Lock, ResolveTargets, ReadPrevious, WriteNode, VerifyNode,
         UndoNode, Finish, Goto, NextNode, RemembersWrite, clusterVars, loopVars, Types, TypeOK
<1>2. CASE UNCHANGED config
  BY <1>1, <1>2, DataSame
<1>3. CASE ~UNCHANGED config
  <2>1. Inside(r)
    BY <1>3 DEF HandlerStep, Begin, Lock, ResolveTargets, ReadPrevious, WriteNode, VerifyNode,
           UndoNode, Finish, Inside, clusterVars
  <2>2. ~Inside(s)
    BY <2>1 DEF Alone
  <2>. QED  BY <1>1, <2>2, DataBefore DEF Inside, Writing
<1>. QED  BY <1>2, <1>3

LEMMA DataInductive ==
  ASSUME IInv, Data, HonestFaults, [Next]_vars
  PROVE  Data'
<1>1. CASE Next /\ ~overlapped'
  <2>1. ~overlapped /\ \A r \in Requests : DataOf(r)
    BY <1>1 DEF Next, HandlerStep, Overlaps, Data
  <2>2. ASSUME NEW r \in Requests, HandlerStep(r) \/ Begin(r)
        PROVE  \A s \in Requests : DataOf(s)'
    <3>1. DataOf(r)'
      BY <2>1, <2>2, OutsideData, ResolveTargetsData, ReadPreviousData, WriteNodeData,
         VerifyNodeData, UndoNodeData DEF HandlerStep
    <3>2. ASSUME NEW s \in Requests, s # r  PROVE DataOf(s)'
      BY <2>1, <2>2, <3>2, OtherData
    <3>. QED  BY <3>1, <3>2
  <2>3. CASE ReplaceRuntime \/ \E r \in Requests : Disconnect(r)
    <3>1. UNCHANGED <<config, pc, batch, wanted, index, previous, written, undone>>
      BY <2>3 DEF ReplaceRuntime, Disconnect, clusterVars, loopVars
    <3>2. ASSUME NEW s \in Requests  PROVE DataOf(s)'
      BY <2>1, <3>1, DataSame
    <3>. QED  BY <1>1, <3>2 DEF Data
  <2>. QED  BY <1>1, <2>2, <2>3 DEF Next, Data
<1>2. CASE overlapped'
  BY <1>2 DEF Data
<1>3. CASE UNCHANGED vars
  <2>1. UNCHANGED <<config, pc, batch, wanted, index, previous, written, undone, overlapped>>
    BY <1>3 DEF vars, clusterVars, loopVars
  <2>2. ASSUME NEW r \in Requests, DataOf(r)  PROVE DataOf(r)'
    BY <2>1, <2>2, DataSame
  <2>. QED  BY <2>1, <2>2 DEF Data
<1>. QED  BY <1>1, <1>2, <1>3

-----------------------------------------------------------------------------
(* The refinement: a change seen through its answer *)

\* The nodes as they were found by request r.
View(r) == [n \in Nodes |-> IF n \in Range(batch[r]) THEN Found(r, n) ELSE config[n]]

Typed == config \in [Nodes -> Values]
Nobody == \A r \in Requests : ~Writing(r)
Only(r) == Writing(r) /\ \A s \in Requests : Writing(s) => s = r

\* What is promised, when at most one request writes.
Views == Typed =>
  /\ Nobody => Promised = config
  /\ \A r \in Requests : Only(r) => Promised = View(r)

LEMMA PromisedIsView == Views
<1>1. ASSUME Typed, Nobody  PROVE Promised = config
  <2>1. Promised = [n \in Nodes |-> config[n]]
    BY <1>1 DEF Promised, Nobody
  <2>. QED  BY <1>1, <2>1 DEF Typed
<1>2. ASSUME NEW r \in Requests, Only(r)  PROVE Promised = View(r)
  <2>1. ASSUME NEW n \in Nodes, n \in Range(batch[r])
        PROVE  (CHOOSE s \in Requests : Writing(s) /\ n \in Range(batch[s])) = r
    BY <1>2, <2>1 DEF Only
  <2>2. ASSUME NEW n \in Nodes
        PROVE  (\E s \in Requests : Writing(s) /\ n \in Range(batch[s])) <=> n \in Range(batch[r])
    BY <1>2 DEF Only
  <2>3. ASSUME NEW n \in Nodes  PROVE Promised[n] = View(r)[n]
    <3>1. CASE n \in Range(batch[r])
      BY <2>1, <2>2, <3>1 DEF Promised, View
    <3>2. CASE n \notin Range(batch[r])
      BY <2>2, <3>2 DEF Promised, View
    <3>. QED  BY <3>1, <3>2
  <2>. QED  BY <2>3 DEF Promised, View
<1>. QED  BY <1>1, <1>2 DEF Views

\* The value found on a node of the batch.
Finds == \A r \in Requests : batch[r] \in Batches =>
  \A i \in DOMAIN batch[r] : Found(r, batch[r][i]) = previous[r][i]

LEMMA FoundIsPrevious == Finds
<1>1. ASSUME NEW r \in Requests, batch[r] \in Batches, NEW i \in DOMAIN batch[r]
      PROVE  Found(r, batch[r][i]) = previous[r][i]
  <2>1. \A j \in DOMAIN batch[r] : batch[r][j] = batch[r][i] => j = i
    BY <1>1, BatchParts
  <2>2. (CHOOSE j \in DOMAIN batch[r] : batch[r][j] = batch[r][i]) = i
    BY <1>1, <2>1
  <2>. QED  BY <2>2 DEF Found
<1>. QED  BY <1>1 DEF Finds

\* The new state's view, in terms of the same functions.
LEMMA FoundStays ==
  ASSUME NEW r \in Requests, batch'[r] = batch[r], previous'[r] = previous[r], NEW n
  PROVE  Found(r, n)' = Found(r, n)
BY DEF Found

\* With one change at a time, a request that is inside is the only one that writes.
LEMMA OneWriter ==
  ASSUME Alone, ~overlapped
  PROVE  /\ Nobody \/ \E r \in Requests : Only(r)
         /\ \A r \in Requests : Inside(r) => Only(r) \/ Nobody
         /\ \A r \in Requests : Inside(r) /\ Writing(r) => Only(r)
         /\ \A r \in Requests : Inside(r) /\ ~Writing(r) => Nobody
<1>1. \A r \in Requests : Writing(r) => Inside(r)
  BY DEF Writing, Inside
<1>. QED  BY <1>1 DEF Alone, Nobody, Only

LEMMA OneWriterNext ==
  ASSUME Alone', ~overlapped'
  PROVE  /\ Nobody' \/ \E r \in Requests : Only(r)'
         /\ \A r \in Requests : Writing(r)' => Only(r)'
<1>1. \A r \in Requests : Writing(r)' => Inside(r)'
  BY DEF Writing, Inside
<1>. QED  BY <1>1 DEF Alone, Nobody, Only

\* A step in the middle of a change, or outside of one, is seen by nobody.
LEMMA PromiseStays ==
  ASSUME Views, Views', Typed, Typed', Nobody \/ \E r \in Requests : Only(r),
         \A s \in Requests : Writing(s)' <=> Writing(s),
         \A s \in Requests : Writing(s) => batch'[s] = batch[s] /\ previous'[s] = previous[s],
         \A n \in Nodes : \/ config'[n] = config[n]
                          \/ \E s \in Requests : Writing(s) /\ n \in Range(batch[s])
  PROVE  Promised' = Promised
<1>1. CASE Nobody
  <2>1. Nobody'
    BY <1>1 DEF Nobody
  <2>2. \A n \in Nodes : config'[n] = config[n]
    BY <1>1 DEF Nobody
  <2>3. config' = config
    BY <2>2 DEF Typed
  <2>4. Promised = config
    BY <1>1 DEF Views
  <2>5. Promised' = config'
    BY <2>1 DEF Views
  <2>. QED  BY <2>3, <2>4, <2>5
<1>2. ASSUME NEW r \in Requests, Only(r)  PROVE Promised' = Promised
  <2>1. Only(r)'
    BY <1>2 DEF Only
  <2>2. batch'[r] = batch[r] /\ previous'[r] = previous[r]
    BY <1>2 DEF Only
  <2>3. \A n \in Nodes : n \in Range(batch[r]) \/ config'[n] = config[n]
    BY <1>2 DEF Only
  <2>4. \A n \in Nodes : Found(r, n)' = Found(r, n)
    BY <2>2, FoundStays
  <2>5. View(r)' = View(r)
    BY <2>2, <2>3, <2>4 DEF View
  <2>6. Promised = View(r)
    BY <1>2 DEF Views
  <2>7. Promised' = View(r)'
    BY <2>1 DEF Views
  <2>. QED  BY <2>5, <2>6, <2>7
<1>. QED  BY <1>1, <1>2

\* The last old value is read: what is promised from now on is what the nodes have.
LEMMA PromiseStarts ==
  ASSUME IInv, IInv', Data', Views, Views', Finds', ~overlapped, ~overlapped',
         NEW r \in Requests, pc[r] = "read", pc'[r] = "write",
         UNCHANGED <<config, written>>
  PROVE  Promised' = Promised
<1>1. Typed /\ Typed'
  BY DEF IInv, Types, TypeOK, Typed
<1>2. Promised = config
  <2>1. Nobody
    BY OneWriter DEF IInv, Inside, Writing
  <2>. QED  BY <1>1, <2>1 DEF Views
<1>3. Promised' = View(r)'
  <2>1. Only(r)'
    BY OneWriterNext DEF IInv, Writing
  <2>. QED  BY <1>1, <2>1 DEF Views
<1>4. ASSUME NEW n \in Nodes, n \in Range(batch'[r])  PROVE Found(r, n)' = config'[n]
  <2>1. Writing(r)' /\ Loop(r)' /\ DataOf(r)'
    BY DEF IInv, Loops, Writing, Data
  <2>2. written'[r] = <<>> /\ batch'[r] \in Batches /\ undone'[r]
    BY <2>1 DEF IInv, Loops, Loop
  <2>3. PICK i \in DOMAIN batch'[r] : batch'[r][i] = n
    BY <1>4 DEF Range
  <2>4. Range(<<>>) = {}
    BY EmptySeq DEF Range
  <2>5. config'[n] = previous'[r][i]
    BY <2>1, <2>2, <2>3, <2>4 DEF DataOf, Undoable
  <2>6. Found(r, n)' = previous'[r][i]
    BY <2>2, <2>3 DEF Finds
  <2>. QED  BY <2>5, <2>6
<1>5. View(r)' = config'
  BY <1>1, <1>4 DEF View, Typed
<1>. QED  BY <1>2, <1>3, <1>5

\* The answer of a change: every node of its batch has the new value, or none, or
\* the answer admits which it could not undo.
LEMMA FinishAnswers ==
  ASSUME IInv, IInv', Data, Views, Views', Finds, ~overlapped, ~overlapped',
         NEW r \in Requests, Finish(r)
  PROVE  Promise!Change(r) \/ Promise!Refuse(r) \/ Promise!Break(r)
<1>. DEFINE b == batch[r]
<1>1. /\ UNCHANGED <<config, wanted, batch, previous>> /\ answer[r] = "none"
      /\ pc[r] \in {"commit", "reject", "fail"} /\ pc' = [pc EXCEPT ![r] = "done"]
  BY DEF Finish, Goto, clusterVars, loopVars, IInv, Loops, Loop
<1>2. Typed /\ Typed' /\ Inside(r)
  BY <1>1 DEF IInv, Types, TypeOK, Typed, Inside
<1>3. Promised' = config
  <2>1. \A s \in Requests : s # r => ~Writing(s)
    BY <1>2 DEF IInv, Alone, Inside, Writing
  <2>2. Nobody'
    BY <1>1, <2>1 DEF Nobody, Writing, IInv, Types, TypeOK
  <2>. QED  BY <1>1, <1>2, <2>2 DEF Views
<1>4. CASE pc[r] = "reject"
  <2>1. Nobody
    BY <1>2, <1>4, OneWriter DEF IInv, Writing
  <2>2. Promised' = Promised
    BY <1>2, <1>3, <2>1 DEF Views
  <2>3. answer' = [answer EXCEPT ![r] = "rejected"]
    BY <1>4 DEF Finish
  <2>. QED  BY <1>1, <2>2, <2>3 DEF Promise!Refuse, Promise!Answered
<1>5. ASSUME Writing(r)
      PROVE  /\ Promised = View(r) /\ b \in Batches /\ DataOf(r)
             /\ \A n \in Nodes : n \notin Range(b) => Promised[n] = config[n]
             /\ \A i \in DOMAIN b : b[i] \in Nodes /\ Promised[b[i]] = previous[r][i]
  <2>1. Promised = View(r)
    BY <1>2, <1>5, OneWriter DEF IInv, Views
  <2>2. b \in Batches /\ DataOf(r)
    BY <1>5 DEF IInv, Loops, Loop, Data
  <2>3. \A n \in Nodes : n \notin Range(b) => Promised[n] = config[n]
    BY <2>1 DEF View
  <2>4. ASSUME NEW i \in DOMAIN b  PROVE b[i] \in Nodes /\ Promised[b[i]] = previous[r][i]
    <3>1. b[i] \in Nodes /\ b[i] \in Range(b)
      BY <2>2, BatchParts DEF Range
    <3>2. Found(r, b[i]) = previous[r][i]
      BY <2>2 DEF Finds
    <3>. QED  BY <2>1, <3>1, <3>2 DEF View
  <2>. QED  BY <2>1, <2>2, <2>3, <2>4
<1>. HIDE DEF b
<1>6. CASE pc[r] = "commit"
  <2>1. Writing(r)
    BY <1>6 DEF Writing
  <2>2. \A n \in Range(b) : config[n] = wanted[r]
    BY <1>5, <1>6, <2>1 DEF DataOf, Applied, Range, b
  <2>3. Promised' = [n \in Nodes |-> IF n \in Range(b) THEN wanted[r] ELSE Promised[n]]
    BY <1>2, <1>3, <1>5, <2>1, <2>2 DEF Typed
  <2>4. answer' = [answer EXCEPT ![r] = "ok"]
    BY <1>6 DEF Finish
  <2>5. Promise!Change(r)
    <3>1. b \in Batches /\ Promised' = Promise!Set(Range(b), wanted[r])
      BY <1>5, <2>1, <2>3 DEF Promise!Set
    <3>2. \E c \in Batches : Promised' = Promise!Set(Range(c), wanted[r])
      BY <3>1
    <3>3. Promise!Answered(r, "ok") /\ UNCHANGED wanted
      BY <1>1, <2>4 DEF Promise!Answered
    <3>. QED  BY <3>2, <3>3 DEF Promise!Change, Promise!Range, Range
  <2>. QED  BY <2>5
<1>7. CASE pc[r] = "fail" /\ undone[r]
  <2>1. Writing(r) /\ Range(written[r]) = {}
    BY <1>7, EmptySeq DEF Writing, IInv, Loops, Loop, Range
  <2>2. \A n \in Range(b) : config[n] = Promised[n]
    <3>1. ASSUME NEW i \in DOMAIN b  PROVE config[b[i]] = Promised[b[i]]
      BY <1>5, <1>7, <2>1 DEF DataOf, Undoable, b
    <3>. QED  BY <3>1 DEF Range
  <2>3. \A n \in Nodes : config[n] = Promised[n]
    BY <1>5, <2>1, <2>2
  <2>4. Promised' = Promised
    <3>1. Promised = [n \in Nodes |-> Promised[n]]
      BY <1>5, <2>1 DEF View
    <3>. QED  BY <1>2, <1>3, <2>3, <3>1 DEF Typed
  <2>5. answer' = [answer EXCEPT ![r] = "restored"]
    BY <1>7 DEF Finish
  <2>. QED  BY <1>1, <2>4, <2>5 DEF Promise!Refuse, Promise!Answered
<1>8. CASE pc[r] = "fail" /\ ~undone[r]
  <2>. DEFINE left == {n \in Range(b) : config[n] = wanted[r]}
  <2>1. Writing(r)
    BY <1>8 DEF Writing
  <2>2. \A n \in Range(b) : n \in Nodes /\ config[n] \in {Promised[n], wanted[r]}
    BY <1>5, <2>1 DEF DataOf, TwoValues, Range, b
  <2>3. Promised' = [n \in Nodes |-> IF n \in left THEN wanted[r] ELSE Promised[n]]
    BY <1>2, <1>3, <1>5, <2>1, <2>2 DEF Typed
  <2>4. answer' = [answer EXCEPT ![r] = "incomplete"]
    BY <1>8 DEF Finish
  <2>5. left \in SUBSET Range(b) /\ b \in Batches
    BY <1>5, <2>1
  <2>. HIDE DEF left
  <2>6. Promise!Break(r)
    <3>1. Promised' = Promise!Set(left, wanted[r])
      BY <2>3 DEF Promise!Set
    <3>2. \E c \in Batches : \E some \in SUBSET Range(c) : Promised' = Promise!Set(some, wanted[r])
      BY <2>5, <3>1
    <3>3. Promise!Answered(r, "incomplete") /\ UNCHANGED wanted
      BY <1>1, <2>4 DEF Promise!Answered
    <3>. QED  BY <3>2, <3>3 DEF Promise!Break, Promise!Range, Range
  <2>. QED  BY <2>6
<1>. QED  BY <1>1, <1>4, <1>6, <1>7, <1>8

\* The other steps of a request.
LEMMA StepIsHidden ==
  ASSUME IInv, IInv', Data', Views, Views', Finds', ~overlapped, ~overlapped',
         NEW r \in Requests, HandlerStep(r) \/ Begin(r), ~Finish(r)
  PROVE  UNCHANGED <<Promised, wanted, answer>>
<1>1. Typed /\ Typed' /\ UNCHANGED <<wanted, answer>>
  BY DEF IInv, Types, TypeOK, Typed, HandlerStep, Begin, Lock, ResolveTargets, ReadPrevious,
         WriteNode, VerifyNode, UndoNode, clusterVars, loopVars
<1>2. Nobody \/ \E s \in Requests : Only(s)
  BY OneWriter DEF IInv
<1>3. CASE Begin(r) \/ Lock(r) \/ ResolveTargets(r)
  <2>1. /\ UNCHANGED <<config, previous>> /\ ~Writing(r) /\ ~Writing(r)'
        /\ \A s \in Requests : s # r => batch'[s] = batch[s] /\ pc'[s] = pc[s]
    BY <1>3 DEF Begin, Lock, ResolveTargets, Goto, clusterVars, loopVars, Writing,
                IInv, Types, TypeOK
  <2>2. \A s \in Requests : /\ Writing(s)' <=> Writing(s)
                            /\ Writing(s) => batch'[s] = batch[s] /\ previous'[s] = previous[s]
    BY <2>1 DEF Writing
  <2>. QED  BY <1>1, <1>2, <2>1, <2>2, PromiseStays
<1>4. CASE ReadPrevious(r)
  <2>1. /\ pc[r] = "read" /\ UNCHANGED <<config, written, batch>>
        /\ pc'[r] \in {"read", "write", "reject"}
        /\ \A s \in Requests : s # r => previous'[s] = previous[s] /\ pc'[s] = pc[s]
    BY <1>4 DEF ReadPrevious, Goto, clusterVars, IInv, Types, TypeOK
  <2>2. CASE pc'[r] = "write"
    BY <1>1, <2>1, <2>2, PromiseStarts
  <2>3. CASE pc'[r] # "write"
    <3>1. \A s \in Requests : /\ Writing(s)' <=> Writing(s)
                              /\ Writing(s) => previous'[s] = previous[s]
      BY <2>1, <2>3 DEF Writing
    <3>. QED  BY <1>1, <1>2, <2>1, <3>1, PromiseStays
  <2>. QED  BY <2>2, <2>3
<1>5. CASE WriteNode(r) \/ VerifyNode(r) \/ UndoNode(r)
  <2>1. /\ UNCHANGED <<previous, batch>> /\ Writing(r)
        /\ pc'[r] \in {"write", "verify", "undo", "commit", "fail"}
        /\ \A s \in Requests : s # r => pc'[s] = pc[s]
    BY <1>5 DEF WriteNode, VerifyNode, UndoNode, NextNode, Goto, Writing, IInv, Types, TypeOK
  <2>2. \A s \in Requests : Writing(s)' <=> Writing(s)
    BY <2>1 DEF Writing
  <2>3. ASSUME NEW n \in Nodes, config'[n] # config[n]  PROVE n \in Range(batch[r])
    <3>1. \E i \in DOMAIN batch[r] : \E v, ok, modes : Sends(r, batch[r][i], v, ok, modes)
      <4>1. CASE WriteNode(r)
        <5>1. index[r] \in DOMAIN batch[r]
          BY <4>1 DEF WriteNode, IInv, Types, TypeOK
        <5>2. Sends(r, batch[r][index[r]], wanted[r], TRUE, WriteFaults)
              \/ Sends(r, batch[r][index[r]], wanted[r], FALSE, WriteFaults)
          BY <2>3, <4>1 DEF WriteNode
        <5>. QED  BY <5>1, <5>2
      <4>2. CASE UndoNode(r)
        <5>. DEFINE i == written[r][Len(written[r])]
        <5>1. pc[r] = "undo" /\ written[r] # <<>>
          BY <2>3, <4>2 DEF UndoNode
        <5>2. i \in DOMAIN batch[r]
          BY <5>1, LastWrite
        <5>3. \E ok : Sends(r, batch[r][i], previous[r][i], ok, UndoFaults)
          BY <4>2, <5>1 DEF UndoNode
        <5>. QED  BY <5>2, <5>3
      <4>3. ~VerifyNode(r)
        BY <2>3 DEF VerifyNode, clusterVars
      <4>. QED  BY <1>5, <4>1, <4>2, <4>3
    <3>2. PICK i \in DOMAIN batch[r] :
            \E v : config' = config \/ config' = [config EXCEPT ![batch[r][i]] = v]
      BY <3>1 DEF Sends
    <3>. QED  BY <1>1, <2>3, <3>2 DEF Range, Typed
  <2>. QED  BY <1>1, <1>2, <2>1, <2>2, <2>3, PromiseStays
<1>. QED  BY <1>3, <1>4, <1>5 DEF HandlerStep

LEMMA StepRefines ==
  ASSUME IInv, IInv', Data, Data', Views, Views', Finds, Finds', [Next]_vars
  PROVE  [Promise!ABNext \/ overlapped']_<<Promised, wanted, answer>>
<1>1. CASE Next /\ ~overlapped'
  <2>1. ~overlapped
    BY <1>1 DEF Next, HandlerStep, Overlaps
  <2>2. ASSUME NEW r \in Requests, HandlerStep(r) \/ Begin(r)
        PROVE  Promise!ABNext \/ UNCHANGED <<Promised, wanted, answer>>
    <3>1. CASE Finish(r)
      BY <1>1, <2>1, <3>1, FinishAnswers DEF Promise!ABNext
    <3>2. CASE ~Finish(r)
      BY <1>1, <2>1, <2>2, <3>2, StepIsHidden
    <3>. QED  BY <3>1, <3>2
  <2>3. CASE ReplaceRuntime \/ \E r \in Requests : Disconnect(r)
    <3>1. UNCHANGED <<config, pc, batch, wanted, previous, answer>>
      BY <2>3 DEF ReplaceRuntime, Disconnect, clusterVars, loopVars
    <3>2. Typed /\ Typed' /\ (Nobody \/ \E s \in Requests : Only(s))
      BY <2>1, OneWriter DEF IInv, Types, TypeOK, Typed
    <3>3. \A s \in Requests : Writing(s)' <=> Writing(s)
      BY <3>1 DEF Writing
    <3>. QED  BY <3>1, <3>2, <3>3, PromiseStays
  <2>. QED  BY <1>1, <2>2, <2>3 DEF Next
<1>2. CASE overlapped' /\ Next
  BY <1>2
<1>3. CASE UNCHANGED vars
  <2>1. UNCHANGED <<config, pc, batch, previous, wanted, answer>>
    BY <1>3 DEF vars, clusterVars, loopVars
  <2>. QED  BY <2>1 DEF Promised, Found, Writing
<1>. QED  BY <1>1, <1>2, <1>3

\* When an error of a write means that it had no effect and an undo without one had its
\* own, a change is atomic: each step of applyRuntimeConfigChange is hidden from the
\* nodes as the change found them, or it is the answer, with all of its batch
\* changed, nothing changed, or the failed undo admitted. So it is for as long as no
\* change under a replaced runtime has been under way beside another.
THEOREM ChangesAreAtomic ==
  ASSUME HonestFaults
  PROVE  Spec => ImplementsAtomicBatch
<1>1. Init => Data
  BY DEF Init, Data, DataOf, OldValues, TwoValues, Undoable, Applied, Writing
<1>2. IInv /\ Data /\ [Next]_vars => Data'
  BY DataInductive
<1>3. Spec => []Data
  BY <1>1, <1>2, Invariance, PTL DEF Spec
<1>4. Init => Promise!ABInit
  <2>1. ASSUME Init  PROVE Promised = config /\ Promise!ABInit
    <3>1. Typed /\ Nobody
      BY <2>1 DEF Init, Typed, Nobody, Writing
    <3>2. Promised = config
      BY <3>1, PromisedIsView DEF Views
    <3>. QED  BY <2>1, <3>2 DEF Init, Promise!ABInit
  <2>. QED  BY <2>1
<1>5. IInv /\ IInv' /\ Data /\ Data' /\ Views /\ Views' /\ Finds /\ Finds' /\ [Next]_vars
      => [Promise!ABNext \/ overlapped']_<<Promised, wanted, answer>>
  BY StepRefines
<1>. QED  BY <1>3, <1>4, <1>5, Invariance, PromisedIsView, FoundIsPrevious, PTL
          DEF Spec, ImplementsAtomicBatch
=============================================================================
