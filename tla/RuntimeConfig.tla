--------------------------- MODULE RuntimeConfig ---------------------------
(***************************************************************************)
(* Online configuration changes (internal/server/runtime_config.go): one   *)
(* request sets a key on a batch of brokers or name servers. Under the     *)
(* mutex of its cluster runtime it reads the old values, writes node by    *)
(* node, reads every write back, and undoes its writes when one fails.     *)
(*                                                                         *)
(* A command that reaches a node can go wrong in three ways: "refused" (an *)
(* error and no effect), "delivered" (an error although the node took the  *)
(* value, such as a timeout) and "ignored" (no error and no effect).       *)
(***************************************************************************)
EXTENDS Integers, Sequences, FiniteSets, Functions

CONSTANTS
    Nodes, Values, Requests,
    Batches,          \* the sorted target lists a request may resolve to
    MaxRuntimes,      \* bound on the runtimes that updateCluster has made
    NoRequest,        \* a mutex nobody holds
    WriteFaults,      \* how the write of a new value may go wrong
    UndoFaults,       \* how the write of an old value may go wrong
    MaxFaults         \* bound on commands that go wrong

ASSUME BatchesAssumption ==
    /\ Batches \subseteq Seq(Nodes) \ {<<>>}
    /\ \A b \in Batches : IsInjective(b)
ASSUME MutexAssumption == NoRequest \notin Requests
ASSUME FaultsAssumption ==
    /\ WriteFaults \cup UndoFaults \subseteq {"refused", "delivered", "ignored"}
    /\ MaxFaults \in Nat
    /\ MaxRuntimes \in Nat \ {0}

VARIABLES
    config,           \* the value of the key on each node
    current, mutex,   \* the runtime of the registry; runtimeConfigMu of each
    pc, runtime, batch, wanted,     \* the request and what it asks for
    index, previous, written,       \* its loop, old values and applied writes
    undone,                         \* no error of the rollback so far
    cancelled, answer, faults,
    overlapped                      \* history: two changes have been under way at once

clusterVars == <<config, current>>
loopVars == <<runtime, batch, wanted, index, previous, written, undone>>
vars == <<clusterVars, mutex, pc, loopVars, cancelled, answer, faults, overlapped>>

Runtimes == 1..MaxRuntimes

Pcs == {"idle", "lock", "targets", "read", "write", "verify", "undo", "commit",
        "reject", "fail", "done"}

Init ==
    /\ config \in [Nodes -> Values]
    /\ current = 1
    /\ mutex = [t \in Runtimes |-> NoRequest]
    /\ pc = [r \in Requests |-> "idle"]
    /\ runtime = [r \in Requests |-> current]
    /\ batch = [r \in Requests |-> <<>>]
    /\ wanted \in [Requests -> Values]
    /\ index = [r \in Requests |-> 1]
    /\ previous = [r \in Requests |-> <<>>]
    /\ written = [r \in Requests |-> <<>>]
    /\ undone = [r \in Requests |-> TRUE]
    /\ cancelled = [r \in Requests |-> FALSE]
    /\ answer = [r \in Requests |-> "none"]
    /\ faults = 0
    /\ overlapped = FALSE

Goto(r, label) == pc' = [pc EXCEPT ![r] = label]

-----------------------------------------------------------------------------
(* RunCommand against one node, with the context of the request *)

\* A read of the key of node n returns its value or fails.
ReadFails(r) ==
    IF cancelled[r] THEN UNCHANGED faults
                    ELSE faults < MaxFaults /\ faults' = faults + 1
ReadSucceeds(r) == ~cancelled[r] /\ UNCHANGED faults

\* A write of v to node n succeeds, or goes wrong in one of the given ways; with
\* a cancelled context the command is not started.
Sends(r, n, v, ok, modes) ==
    \/ /\ ok /\ ~cancelled[r]
       /\ config' = [config EXCEPT ![n] = v]
       /\ UNCHANGED faults
    \/ /\ ~ok /\ cancelled[r]
       /\ UNCHANGED <<config, faults>>
    \/ /\ ~cancelled[r] /\ faults < MaxFaults /\ faults' = faults + 1
       /\ \E mode \in modes :
            /\ ok <=> mode = "ignored"
            /\ config' = IF mode = "delivered" THEN [config EXCEPT ![n] = v] ELSE config

-----------------------------------------------------------------------------
(* applyRuntimeConfigChange *)

\* The handler took the runtime from the context of its request.
Begin(r) ==
    /\ pc[r] = "idle"
    /\ runtime' = [runtime EXCEPT ![r] = current]
    /\ Goto(r, "lock")
    /\ UNCHANGED <<clusterVars, mutex, batch, wanted, index, previous, written,
                   undone, cancelled, answer, faults>>

\* Mutant: the mutex is not taken.
EntersUnlocked(r) ==
    /\ pc[r] = "lock"
    /\ Goto(r, "targets")
    /\ UNCHANGED <<clusterVars, mutex, loopVars, cancelled, answer, faults>>

Lock(r) ==
    /\ pc[r] = "lock" /\ mutex[runtime[r]] = NoRequest
    /\ mutex' = [mutex EXCEPT ![runtime[r]] = r]
    /\ Goto(r, "targets")
    /\ UNCHANGED <<clusterVars, loopVars, cancelled, answer, faults>>

\* runtimeConfigTargets: the nodes of the feature report that have the key. A
\* request that is not valid, finds no node or gets no report changes nothing.
ResolveTargets(r) ==
    /\ pc[r] = "targets"
    /\ \/ /\ ReadSucceeds(r)
          /\ \E b \in Batches :
               /\ batch' = [batch EXCEPT ![r] = b]
               /\ Goto(r, "read")
       \/ Goto(r, "reject") /\ UNCHANGED <<batch, faults>>
    /\ UNCHANGED <<clusterVars, mutex, runtime, wanted, index, previous, written,
                   undone, cancelled, answer>>

LastNode(r) == index[r] = Len(batch[r])

\* The old value of the next node; nothing is written before all are known and
\* normalizeRuntimeConfigValue has accepted the new value for each.
ReadPrevious(r) ==
    LET n == batch[r][index[r]] IN
    /\ pc[r] = "read"
    /\ \/ /\ ReadSucceeds(r)
          /\ previous' = [previous EXCEPT ![r] = Append(@, config[n])]
          /\ index' = [index EXCEPT ![r] = IF LastNode(r) THEN 1 ELSE @ + 1]
          /\ Goto(r, IF LastNode(r) THEN "write" ELSE "read")
       \/ Goto(r, "reject") /\ UNCHANGED <<previous, index, faults>>
    /\ UNCHANGED <<clusterVars, mutex, runtime, batch, wanted, written, undone,
                   cancelled, answer>>

\* The loop goes to the next node, or the change is complete.
NextNode(r) ==
    /\ index' = [index EXCEPT ![r] = IF LastNode(r) THEN @ ELSE @ + 1]
    /\ Goto(r, IF LastNode(r) THEN "commit" ELSE "write")

\* Mutant: a write is not remembered.
ForgetsWrite(r) == UNCHANGED written

\* applied: the writes a rollback undoes.
RemembersWrite(r) == written' = [written EXCEPT ![r] = Append(@, index[r])]

\* A node that has the value already is left alone. A write that answers without
\* an error is remembered before it is read back; one that fails is not.
WriteNode(r) ==
    LET i == index[r]
        n == batch[r][i]
    IN
    /\ pc[r] = "write"
    /\ \/ /\ previous[r][i] = wanted[r]
          /\ NextNode(r)
          /\ UNCHANGED <<config, written, faults>>
       \/ /\ previous[r][i] # wanted[r]
          /\ \/ /\ Sends(r, n, wanted[r], TRUE, WriteFaults)
                /\ RemembersWrite(r)
                /\ Goto(r, "verify")
             \/ /\ Sends(r, n, wanted[r], FALSE, WriteFaults)
                /\ Goto(r, "undo")
                /\ UNCHANGED written
          /\ UNCHANGED index
    /\ UNCHANGED <<current, mutex, runtime, batch, wanted, previous, undone,
                   cancelled, answer>>

\* The read-back: another value, or an error, undoes the whole change.
VerifyNode(r) ==
    LET n == batch[r][index[r]] IN
    /\ pc[r] = "verify"
    /\ \/ ReadSucceeds(r) /\ config[n] = wanted[r] /\ NextNode(r)
       \/ ReadSucceeds(r) /\ config[n] # wanted[r] /\ Goto(r, "undo") /\ UNCHANGED index
       \/ ReadFails(r) /\ Goto(r, "undo") /\ UNCHANGED index
    /\ UNCHANGED <<clusterVars, mutex, runtime, batch, wanted, previous, written,
                   undone, cancelled, answer>>

\* rollbackRuntimeConfigChanges: the old values in reverse order, none of them
\* read back; an error is noted and the loop goes on.
UndoNode(r) ==
    LET i == written[r][Len(written[r])] IN
    /\ pc[r] = "undo"
    /\ \/ written[r] = <<>> /\ Goto(r, "fail") /\ UNCHANGED <<config, written, undone, faults>>
       \/ /\ written[r] # <<>>
          /\ \E ok \in BOOLEAN :
               /\ Sends(r, batch[r][i], previous[r][i], ok, UndoFaults)
               /\ undone' = [undone EXCEPT ![r] = @ /\ ok]
          /\ written' = [written EXCEPT ![r] = SubSeq(@, 1, Len(@) - 1)]
          /\ UNCHANGED pc
    /\ UNCHANGED <<current, mutex, runtime, batch, wanted, index, previous,
                   cancelled, answer>>

\* Mutant: the early returns keep the mutex.
UnlocksOnSuccess(r) ==
    mutex' = IF pc[r] = "commit" THEN [mutex EXCEPT ![runtime[r]] = NoRequest] ELSE mutex

Unlock(r) == mutex' = [mutex EXCEPT ![runtime[r]] = NoRequest]

\* The answer of the change, and the deferred unlock. (The refresh of the feature
\* snapshot that a change starts touches nothing of this module.)
Finish(r) ==
    /\ pc[r] \in {"commit", "reject", "fail"}
    /\ answer' = [answer EXCEPT ![r] =
         CASE pc[r] = "commit" -> "ok"
           [] pc[r] = "reject" -> "rejected"
           [] OTHER -> IF undone[r] THEN "restored" ELSE "incomplete"]
    /\ Unlock(r)
    /\ Goto(r, "done")
    /\ UNCHANGED <<clusterVars, loopVars, cancelled, faults>>

-----------------------------------------------------------------------------
(* The environment *)

\* The client goes away and the context of its request is cancelled.
Disconnect(r) ==
    /\ pc[r] \notin {"idle", "done"} /\ ~cancelled[r]
    /\ cancelled' = [cancelled EXCEPT ![r] = TRUE]
    /\ UNCHANGED <<clusterVars, mutex, pc, loopVars, answer, faults>>

\* updateCluster puts a new runtime, with a new mutex, in place of the old one.
ReplaceRuntime ==
    /\ current < MaxRuntimes
    /\ current' = current + 1
    /\ UNCHANGED <<config, mutex, pc, loopVars, cancelled, answer, faults>>

-----------------------------------------------------------------------------
Inside(r) == pc[r] \notin {"idle", "lock", "done"}

\* Kept beside every step: have two changes ever been under way at once?
Overlaps ==
    overlapped' = (overlapped \/ \E r, s \in Requests : r # s /\ Inside(r)' /\ Inside(s)')

HandlerStep(r) ==
    /\ \/ Lock(r) \/ ResolveTargets(r) \/ ReadPrevious(r) \/ WriteNode(r)
       \/ VerifyNode(r) \/ UndoNode(r) \/ Finish(r)
    /\ Overlaps

Next ==
    \/ \E r \in Requests : HandlerStep(r)
    \/ (\E r \in Requests : Begin(r) \/ Disconnect(r)) /\ Overlaps
    \/ ReplaceRuntime /\ Overlaps

Spec == Init /\ [][Next]_vars

\* Handlers are goroutines: one whose step stays possible takes it.
FairSpec == Spec /\ \A r \in Requests : WF_vars(HandlerStep(r))

-----------------------------------------------------------------------------
(* Properties *)

Writing(r) == pc[r] \in {"write", "verify", "undo", "commit", "fail"}

TypeOK ==
    /\ config \in [Nodes -> Values]
    /\ current \in Runtimes /\ mutex \in [Runtimes -> Requests \cup {NoRequest}]
    /\ pc \in [Requests -> Pcs]
    /\ runtime \in [Requests -> Runtimes]
    /\ batch \in [Requests -> Batches \cup {<<>>}]
    /\ wanted \in [Requests -> Values]
    /\ index \in [Requests -> Nat \ {0}]
    /\ \A r \in Requests :
         /\ previous[r] \in Seq(Values) /\ written[r] \in Seq(DOMAIN previous[r])
         /\ pc[r] \in {"read", "write", "verify"} => index[r] \in DOMAIN batch[r]
         /\ Writing(r) => DOMAIN previous[r] = DOMAIN batch[r]
    /\ undone \in [Requests -> BOOLEAN] /\ cancelled \in [Requests -> BOOLEAN]
    /\ answer \in [Requests -> {"none", "ok", "rejected", "restored", "incomplete"}]
    /\ faults \in 0..MaxFaults /\ overlapped \in BOOLEAN

\* "Read, update, read-back and rollback of the same cluster run one after the
\* other": of the changes that hold one runtime, one is under way, and two are only
\* after updateCluster has given the cluster a new runtime.
ChangesAreSerial ==
    /\ TypeOK
    /\ \A r, s \in Requests :
         Inside(r) /\ Inside(s) /\ runtime[r] = runtime[s] => r = s
    /\ overlapped => \E r, s \in Requests : runtime[r] # runtime[s]

\* What the registry's clients may think the nodes hold while a change is under
\* way: the values it found, until it answers or has to admit a failed undo.
Found(r, n) == previous[r][CHOOSE i \in DOMAIN batch[r] : batch[r][i] = n]
Promised ==
    [n \in Nodes |->
        IF \E r \in Requests : Writing(r) /\ n \in Range(batch[r])
          THEN Found(CHOOSE r \in Requests : Writing(r) /\ n \in Range(batch[r]), n)
          ELSE config[n]]

Promise == INSTANCE AtomicBatch WITH config <- Promised

\* A change is atomic: seen through its answer it sets every node of its batch
\* or none, interleaved with other changes, failed commands and disconnects, for as
\* long as no change under a replaced runtime has been under way beside another.
ImplementsAtomicBatch ==
    /\ Promise!ABInit
    /\ [][Promise!ABNext \/ overlapped']_<<Promised, wanted, answer>>

\* Every request ends: no failure keeps the mutex of the runtime.
RequestsEnd == \A r \in Requests : pc[r] # "idle" ~> pc[r] = "done"
=============================================================================
