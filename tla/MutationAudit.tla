--------------------------- MODULE MutationAudit ---------------------------
(***************************************************************************)
(* The audited write path of internal/server: beginMutation admits a       *)
(* request and appends its started record, the provider executes the write,*)
(* complete appends the outcome, and FileAuditStore keeps the records in a *)
(* JSON-lines file.                                                        *)
(*                                                                         *)
(* The file is a sequence of tokens: a whole record, a fragment of one, or *)
(* a newline. Its first synced tokens are on disk; the rest is in the page *)
(* cache. List parses the lines that hold exactly one whole record.        *)
(***************************************************************************)
EXTENDS Integers, Sequences, FiniteSets

CONSTANTS
    Ops,         \* write requests (operation ids)
    NoOp,        \* no operation
    MaxFaults,   \* bound on I/O errors of the log
    MaxCrashes   \* bound on crashes of the process or of the machine

ASSUME OpsAssumption == NoOp \notin Ops
ASSUME BoundsAssumption == MaxFaults \in Nat /\ MaxCrashes \in Nat

Token(o, result) == [op |-> o, result |-> result]
Newline == Token(NoOp, "newline")
Fragment == Token(NoOp, "fragment")
Results == {"pending", "succeeded", "failed", "denied"}
Records == {Token(o, result) : o \in Ops, result \in Results}

VARIABLES
    file, synced, lock,     \* the log, its durable length, FileAuditStore.mu
    pc, step,               \* where each request is, and its append
    cancelled,              \* r.Context() is done: the client has gone
    opErr, applied,         \* the provider's answer; the effect on the cluster
    answer,                 \* the HTTP response
    faults, crashes,        \* used up bounds
    \* History variables, read by no guard:
    acked,                  \* the records Append has returned nil for
    tears                   \* how often a record was left without its newline

logVars == <<file, synced, lock, acked, tears>>
reqVars == <<pc, step, cancelled, opErr, applied, answer>>
vars == <<logVars, reqVars, faults, crashes>>

Appending == {"started", "completed", "denied"}   \* pcs inside Append
Pcs == Appending \cup {"idle", "provider", "done"}
Answers == {"none", "refused", "notStarted", "failed", "ok", "executedUnlogged"}

Init ==
    /\ file = <<>> /\ synced = 0 /\ lock = NoOp
    /\ pc = [o \in Ops |-> "idle"] /\ step = [o \in Ops |-> "check"]
    /\ cancelled = [o \in Ops |-> FALSE]
    /\ opErr = [o \in Ops |-> FALSE] /\ applied = [o \in Ops |-> FALSE]
    /\ answer = [o \in Ops |-> "none"]
    /\ faults = 0 /\ crashes = 0 /\ acked = {} /\ tears = 0

-----------------------------------------------------------------------------
(* FileAuditStore.Append, called with the context of the request *)

\* Mutant: the error of the operation is not looked at.
AlwaysSucceeded(o) ==
    Token(o, CASE pc[o] = "started" -> "pending"
               [] pc[o] = "denied" -> "denied"
               [] OTHER -> "succeeded")

\* The record a request appends at its current step.
RecordOf(o) ==
    Token(o, CASE pc[o] = "started" -> "pending"
               [] pc[o] = "denied" -> "denied"
               [] OTHER -> IF opErr[o] THEN "failed" ELSE "succeeded")

\* Mutant: an operation that could not be recorded is executed all the same.
AdmittedUnlogged(o, ok) == pc[o] = "started"

\* A request that could not be recorded as started is refused.
Admitted(o, ok) == pc[o] = "started" /\ ok

\* Mutant: the error of the completed record is dropped.
AlwaysLogged(o, ok) ==
    CASE pc[o] = "denied" -> "refused"
      [] pc[o] = "started" -> IF ok THEN "none" ELSE "notStarted"
      [] OTHER -> IF opErr[o] THEN "failed" ELSE "ok"

\* What the handler answers, or nothing yet: the error of a denied record is
\* dropped; after execution the answer says that the record is missing.
AnswerOf(o, ok) ==
    CASE pc[o] = "denied" -> "refused"
      [] pc[o] = "started" -> IF ok THEN "none" ELSE "notStarted"
      [] OTHER -> IF opErr[o] THEN "failed" ELSE IF ok THEN "ok" ELSE "executedUnlogged"

AppendReturns(o, ok) ==
    /\ step' = [step EXCEPT ![o] = "check"]
    /\ pc' = [pc EXCEPT ![o] = IF Admitted(o, ok) THEN "provider" ELSE "done"]
    /\ answer' = [answer EXCEPT ![o] = AnswerOf(o, ok)]

\* ctx.Err() is looked at once, before the mutex.
AppendChecks(o) ==
    /\ pc[o] \in Appending /\ step[o] = "check"
    /\ IF cancelled[o]
         THEN AppendReturns(o, FALSE)
         ELSE step' = [step EXCEPT ![o] = "write"] /\ UNCHANGED <<pc, answer>>
    /\ UNCHANGED <<logVars, cancelled, opErr, applied, faults, crashes>>

\* Mutant: the newline is left out.
WithoutNewline(record) == Append(file, record)

\* O_APPEND: a record and its newline go to the end of the file.
WithLine(record) == file \o <<record, Newline>>

\* Under the mutex the line is written.
AppendWrites(o) ==
    /\ step[o] = "write" /\ lock = NoOp
    /\ file' = WithLine(RecordOf(o))
    /\ lock' = o
    /\ step' = [step EXCEPT ![o] = "sync"]
    /\ UNCHANGED <<synced, acked, tears, pc, cancelled, opErr, applied, answer,
                   faults, crashes>>

\* The directory, the open or the write fails; a short write leaves a fragment
\* of the record, or all of it but the newline.
AppendWriteFails(o) ==
    /\ step[o] = "write" /\ lock = NoOp /\ faults < MaxFaults
    /\ faults' = faults + 1
    /\ \/ UNCHANGED <<file, tears>>
       \/ \E rest \in {Fragment, RecordOf(o)} :
            file' = Append(file, rest) /\ tears' = tears + 1
    /\ AppendReturns(o, FALSE)
    /\ UNCHANGED <<synced, lock, acked, cancelled, opErr, applied, crashes>>

\* Mutant: the mutex is never released.
KeepsLock == UNCHANGED lock

\* The deferred unlock.
Unlock == lock' = NoOp

\* fsync, then Append returns.
AppendSyncs(o) ==
    /\ step[o] = "sync"
    /\ synced' = Len(file)
    /\ acked' = acked \cup {RecordOf(o)}
    /\ Unlock
    /\ AppendReturns(o, TRUE)
    /\ UNCHANGED <<file, tears, cancelled, opErr, applied, faults, crashes>>

AppendSyncFails(o) ==
    /\ step[o] = "sync" /\ faults < MaxFaults
    /\ faults' = faults + 1
    /\ Unlock
    /\ AppendReturns(o, FALSE)
    /\ UNCHANGED <<file, synced, acked, tears, cancelled, opErr, applied, crashes>>

-----------------------------------------------------------------------------
(* The write handlers *)

\* beginMutationForCluster up to the first append: the identity, the permission
\* or the reason may be missing (401, 403, 400: recorded as denied).
Begin(o) ==
    /\ pc[o] = "idle"
    /\ \E admitted \in BOOLEAN :
         pc' = [pc EXCEPT ![o] = IF admitted THEN "started" ELSE "denied"]
    /\ UNCHANGED <<logVars, step, cancelled, opErr, applied, answer, faults, crashes>>

\* The provider executes the write. An error says nothing about the effect.
Provider(o) ==
    /\ pc[o] = "provider"
    /\ \E failed, effect \in BOOLEAN :
         /\ failed \/ effect
         /\ opErr' = [opErr EXCEPT ![o] = failed]
         /\ applied' = [applied EXCEPT ![o] = effect]
    /\ pc' = [pc EXCEPT ![o] = "completed"]
    /\ UNCHANGED <<logVars, step, cancelled, answer, faults, crashes>>

\* The client goes away: net/http cancels the context of the request.
Disconnect(o) ==
    /\ pc[o] \notin {"idle", "done"} /\ ~cancelled[o]
    /\ cancelled' = [cancelled EXCEPT ![o] = TRUE]
    /\ UNCHANGED <<logVars, pc, step, opErr, applied, answer, faults, crashes>>

-----------------------------------------------------------------------------
(* Crashes *)

\* The requests in flight end without an answer, and the mutex is new.
Stops ==
    /\ crashes < MaxCrashes /\ crashes' = crashes + 1
    /\ pc' = [o \in Ops |-> IF pc[o] = "idle" THEN "idle" ELSE "done"]
    /\ step' = [o \in Ops |-> "check"]
    /\ lock' = NoOp
    /\ UNCHANGED <<cancelled, opErr, applied, answer, acked, faults>>

\* The process dies: what it wrote stays in the page cache.
ProcessDies == Stops /\ UNCHANGED <<file, synced, tears>>

\* The machine dies: some prefix that holds the synced tokens survives, perhaps
\* with a part of the next record.
MachineDies ==
    /\ Stops
    /\ \E k \in synced..Len(file) :
         LET kept == SubSeq(file, 1, k)
             next == IF k < Len(file) THEN file[k + 1] ELSE Newline
         IN \/ /\ file' = kept
               /\ tears' = IF next = Newline /\ k < Len(file) THEN tears + 1 ELSE tears
            \/ /\ next # Newline
               /\ file' = Append(kept, Fragment)
               /\ tears' = tears + 1
    /\ synced' = Len(file')

-----------------------------------------------------------------------------
HandlerStep(o) ==
    \/ AppendChecks(o) \/ AppendWrites(o) \/ AppendWriteFails(o)
    \/ AppendSyncs(o) \/ AppendSyncFails(o) \/ Provider(o)

Next ==
    \/ \E o \in Ops : Begin(o) \/ HandlerStep(o) \/ Disconnect(o)
    \/ ProcessDies \/ MachineDies

Spec == Init /\ [][Next]_vars

\* Handlers are goroutines: one whose step stays possible takes it.
FairSpec == Spec /\ \A o \in Ops : WF_vars(HandlerStep(o))

-----------------------------------------------------------------------------
(* Properties *)

LogType ==
    /\ file \in Seq(Records \cup {Newline, Fragment})
    /\ synced \in 0..Len(file)
    /\ lock \in Ops \cup {NoOp}
    /\ acked \subseteq Records /\ tears \in 0..(MaxFaults + MaxCrashes)

TypeOK ==
    /\ LogType
    /\ pc \in [Ops -> Pcs] /\ step \in [Ops -> {"check", "write", "sync"}]
    /\ cancelled \in [Ops -> BOOLEAN]
    /\ opErr \in [Ops -> BOOLEAN] /\ applied \in [Ops -> BOOLEAN]
    /\ answer \in [Ops -> Answers]
    /\ faults \in 0..MaxFaults /\ crashes \in 0..MaxCrashes

\* What List returns: the lines that hold one whole record and nothing else.
Listed ==
    {file[i] : i \in {j \in 1..Len(file) :
        /\ file[j] \in Records
        /\ j > 1 => file[j - 1] = Newline
        /\ j < Len(file) => file[j + 1] = Newline}}

\* "A write whose started record fails is refused": every effect on the cluster,
\* whatever the provider answered and whatever crashed since, has a started
\* record on disk, and so has every record Append has acknowledged.
EffectsAreTraced ==
    /\ \A o \in Ops : applied[o] => Token(o, "pending") \in acked
    /\ \A record \in acked : \E i \in 1..synced : file[i] = record

\* List skips lines it cannot parse. An interrupted write costs its own record
\* and at most one acknowledged record, the next one, which lands on its line.
LossIsBoundedByTears == Cardinality(acked \ Listed) <= tears

\* The outcome of an operation stands in the log after its start, never twice,
\* and agrees with the cluster: no success without effect, no effect of a
\* denied request.
LogAgreesWithCluster ==
    /\ TypeOK
    /\ \A i \in 1..Len(file) : file[i] \in Records /\ file[i].result # "pending" =>
        LET o == file[i].op IN
        /\ file[i].result = "succeeded" => applied[o]
        /\ file[i].result = "denied" => ~applied[o]
        /\ file[i].result \in {"succeeded", "failed"} =>
             \E j \in 1..(i - 1) : file[j] = Token(o, "pending")
        /\ \A j \in 1..Len(file) : file[j].op = o /\ file[j].result # "pending" => j = i

\* The status code tells the client what happened: 200 means executed and on
\* record, the 503 of the started record means not executed, the 503 of the
\* completed record ("operation executed, but ...") means executed.
AnswersAreTrue ==
    \A o \in Ops :
        /\ answer[o] = "ok" => applied[o] /\ Token(o, "succeeded") \in acked
        /\ answer[o] \in {"refused", "notStarted"} => ~applied[o]
        /\ answer[o] = "executedUnlogged" => applied[o] /\ Token(o, "succeeded") \notin acked

\* Every request ends: no failing append keeps the mutex of the log.
RequestsEnd == \A o \in Ops : pc[o] # "idle" ~> pc[o] = "done"
=============================================================================
