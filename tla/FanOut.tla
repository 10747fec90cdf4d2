------------------------------- MODULE FanOut -------------------------------
(***************************************************************************)
(* One administration command as the code runs it: a program of steps,     *)
(* each of which sends requests to one target after the other, or to       *)
(* several at a time. Nothing locks a server and nothing is undone: what a *)
(* failed command has written stays written. The programs, one per         *)
(* function of the code, are in the modules that use this one.             *)
(*                                                                         *)
(* A step is a record:                                                     *)
(*   who      which servers, as Targets(who, each, view, found) gives them *)
(*   each     whether it goes to them once for every item that was found   *)
(*   reqs     the requests to one target, in order                         *)
(*   pool     how many targets are worked on at a time                     *)
(*   refused, lost                                                         *)
(*            what a refusal does, and an answer that never comes: "stop"  *)
(*            the command fails at once, "later" it fails at the end of    *)
(*            the step, "pass" the target is dropped, "blank" the target   *)
(*            is reported as a failure, "leave" the step is left           *)
(*   leaves   how many of the next steps are left with it                  *)
(*   until    whether the first target with a row ends the step            *)
(*   unknown, noTarget, noRow                                              *)
(*            what follows when no broker is known, when the step has no   *)
(*            target, and when it ends without a row: "failed", "told" the *)
(*            command ends and says so, "ok" it ends, "on" it goes on      *)
(* A request is a record:                                                  *)
(*   kind     "read", "list" (finds items), "table" (finds brokers),       *)
(*            "write"                                                      *)
(*   of       what is read or written                                      *)
(*   ends     whether an empty answer ends the target without a row, and   *)
(*            drops the item it is for                                     *)
(*   error    what its failure does: "step" as the step says, "next" it is *)
(*            ignored, "drop" the work on the target is over               *)
(***************************************************************************)
EXTENDS Integers, Sequences, FiniteSets

CONSTANTS
    Programs,            \* the commands
    Servers,             \* whatever requests are sent to
    Brokers,             \* those that a name server may list
    Items,               \* topics, groups, users, queues, messages, ...
    NoItem,              \* of a target that is not for an item
    Targets(_, _, _, _)  \* the targets of a step, in the order of the code

Outcomes == {"failed", "told", "ok", "on"}
Policies == {"stop", "later", "pass", "blank", "leave"}

Requests == [kind : {"read", "list", "table", "write"}, of : STRING,
             ends : BOOLEAN, error : {"step", "next", "drop"}]

Steps == [who : STRING, each : BOOLEAN, reqs : Seq(Requests), pool : Nat \ {0},
          refused : Policies, lost : Policies, leaves : Nat, until : BOOLEAN,
          unknown : Outcomes, noTarget : Outcomes, noRow : Outcomes]

ASSUME BrokersAssumption == Brokers \subseteq Servers /\ NoItem \notin Items

\* A command may stop at once, and look for the first row, only where it works
\* on one target at a time.
WellFormed(s) ==
    /\ s.reqs # <<>>
    /\ s.pool > 1 => ~s.until /\ {s.refused, s.lost} \cap {"stop", "leave"} = {}

ASSUME ProgramsAssumption ==
    \A p \in Programs : p \in Seq(Steps) /\ p # <<>> /\ \A k \in DOMAIN p : WellFormed(p[k])

ASSUME TargetsAssumption ==
    \A p \in Programs : \A k \in DOMAIN p :
        \A v \in SUBSET Brokers, f \in SUBSET Items :
            Targets(p[k].who, p[k].each, v, f) \in Seq(Servers \X (Items \cup {NoItem}))

VARIABLES
    program,  \* the command
    at,       \* its current step
    view,     \* the brokers that the last table or route listed
    found,    \* the items that were found, or given by the user
    targets,  \* the targets of every step so far
    state,    \* of each target of every step so far: "open" or how it was settled
    done,     \* how many requests each target of the step has answered
    took,     \* what was written: <<step, target, request>>
    left,     \* the steps that were left
    answer    \* "none" while the command runs

vars == <<program, at, view, found, targets, state, done, took, left, answer>>

step == program[at]
indices == DOMAIN targets[at]
Open(i) == state[at][i] = "open"
HasRow(k, i) == state[k][i] = "row"
Running == answer = "none"

\* The targets of a step, worked out when it begins.
TargetsOf(k, v, f) == Targets(program[k].who, program[k].each, v, f)

Init ==
    /\ program \in Programs
    /\ at = 1 /\ view = {} /\ found = {}
    /\ targets = <<TargetsOf(1, {}, {})>>
    /\ state = <<[i \in DOMAIN targets[1] |-> "open"]>>
    /\ done = [i \in DOMAIN targets[1] |-> 0]
    /\ took = {} /\ left = {} /\ answer = "none"

-----------------------------------------------------------------------------
(* Requests and answers *)

\* The step is over: every target is settled, or the row it looks for is there.
Over == (\A i \in indices : ~Open(i)) \/ (step.until /\ \E i \in indices : HasRow(at, i))

Begun(j) == Open(j) /\ done[j] > 0

\* Mutant: a goroutine that fails keeps its place in the pool.
KeepsPlace(i) ==
    /\ Running /\ ~Over /\ Open(i)
    /\ IF step.pool = 1 THEN \A j \in indices : j < i => ~Open(j)
       ELSE Cardinality({j \in indices \ {i} : Begun(j) \/ state[at][j] \in {"none", "error"}})
                < step.pool

\* One target after the other, or whichever goroutine gets a place in the pool.
InFlight(i) ==
    /\ Running /\ ~Over /\ Open(i)
    /\ IF step.pool = 1 THEN \A j \in indices : j < i => ~Open(j)
       ELSE Cardinality({j \in indices \ {i} : Begun(j)}) < step.pool

request(i) == step.reqs[done[i] + 1]

\* The next request of the target, or its row after the last one.
Proceeds(i) ==
    /\ done' = [done EXCEPT ![i] = @ + 1]
    /\ state' = IF done[i] + 1 = Len(step.reqs) THEN [state EXCEPT ![at][i] = "row"] ELSE state
    /\ UNCHANGED <<program, at, targets, left, answer>>

Settles(i, how) ==
    /\ state' = [state EXCEPT ![at][i] = how]
    /\ UNCHANGED <<program, at, targets, done, left, answer>>

Takes(i) == took' = took \cup {<<at, i, done[i] + 1>>}

\* The server does what it is asked for and its answer arrives.
Answers(i) ==
    /\ InFlight(i)
    /\ Proceeds(i)
    /\ CASE request(i).kind = "write" -> Takes(i) /\ UNCHANGED <<view, found>>
         [] request(i).kind = "read"  -> UNCHANGED <<view, found, took>>
         [] request(i).kind = "table" -> view' \in SUBSET Brokers /\ UNCHANGED <<found, took>>
         [] request(i).kind = "list"  -> /\ \E f \in (SUBSET Items) \ {{}} : found' = found \cup f
                                         /\ UNCHANGED <<view, took>>

\* There is nothing to read, and that ends the work on this target.
AnswersNothing(i) ==
    /\ InFlight(i) /\ request(i).ends
    /\ Settles(i, "none")
    /\ found' = found \ {targets[at][i][2]}
    /\ UNCHANGED <<view, took>>

\* Mutant: a step that fails does not keep the next one from being run.
LeavesThisStep ==
    /\ left' = left \cup {at}
    /\ state' = [state EXCEPT ![at] =
                  [j \in indices |-> IF Open(j) THEN "none" ELSE state[at][j]]]
    /\ UNCHANGED <<program, at, targets, done, answer>>

\* The step is left, and the next ones that depend on it.
Leaves ==
    /\ left' = left \cup (at .. at + step.leaves)
    /\ state' = [state EXCEPT ![at] =
                  [j \in indices |-> IF Open(j) THEN "none" ELSE state[at][j]]]
    /\ UNCHANGED <<program, at, targets, done, answer>>

\* Mutant: a server that fails is passed over.
PassesOver(i, policy) == IF request(i).error = "next" THEN Proceeds(i) ELSE Settles(i, "none")

\* What the code does when a request fails.
Fails(i, policy) ==
    CASE request(i).error = "next" -> Proceeds(i)
      [] request(i).error = "drop" -> Settles(i, "none")
      [] request(i).error = "step" ->
         CASE policy = "stop"  -> /\ answer' = "failed"
                                  /\ state' = [state EXCEPT ![at][i] = "error"]
                                  /\ UNCHANGED <<program, at, targets, done, left>>
           [] policy = "later" -> Settles(i, "error")
           [] policy = "pass"  -> Settles(i, "none")
           [] policy = "blank" -> Settles(i, "row")
           [] policy = "leave" -> Leaves

\* The server refuses; nothing changes there.
Refuses(i) ==
    /\ InFlight(i)
    /\ Fails(i, step.refused)
    /\ UNCHANGED <<view, found, took>>

\* No connection, a broken one, or the time is up; the write may be done.
GetsLost(i) ==
    /\ InFlight(i)
    /\ Fails(i, step.lost)
    /\ (request(i).kind = "write" /\ Takes(i)) \/ UNCHANGED took
    /\ UNCHANGED <<view, found>>

-----------------------------------------------------------------------------
(* From step to step *)

Rowless == ~\E i \in indices : HasRow(at, i)

\* Mutant: what follows does not ask whether there is a row.
AfterAllAnswers ==
    IF step.unknown # "on" /\ view = {} THEN step.unknown
    ELSE IF step.noTarget # "on" /\ indices = {} THEN step.noTarget
    ELSE "on"

\* How the command goes on when the step is over, in the order of the checks.
AfterErrors ==
    IF step.unknown # "on" /\ view = {} THEN step.unknown
    ELSE IF step.noTarget # "on" /\ indices = {} THEN step.noTarget
    ELSE IF Rowless THEN step.noRow
    ELSE "on"

\* Mutant: an error that is kept for later is forgotten.
VerdictOfRows == AfterErrors

Verdict == IF \E i \in indices : state[at][i] = "error" THEN "failed" ELSE AfterErrors

Ends(how) == answer' = how /\ UNCHANGED <<at, targets, state, done>>

\* The next step that was not left.
Continues(k) ==
    /\ at' = k
    /\ targets' = Append(targets, TargetsOf(k, view, found))
    /\ state' = Append(state, [i \in DOMAIN TargetsOf(k, view, found) |->
                                IF k \in left THEN "none" ELSE "open"])
    /\ done' = [i \in DOMAIN TargetsOf(k, view, found) |-> 0]
    /\ UNCHANGED answer

EndStep ==
    /\ Running /\ Over
    /\ IF at \notin left /\ Verdict # "on" THEN Ends(Verdict)
       ELSE IF at = Len(program) THEN Ends("ok")
       ELSE Continues(at + 1)
    /\ UNCHANGED <<program, view, found, took, left>>

\* What a step has asked a target to do, and what of it was done.
Reqs(k) == program[k].reqs
Wrote(k, i, j) == <<k, i, j>> \in took
WroteOf(k, names) == \E i \in DOMAIN targets[k], j \in DOMAIN Reqs(k) :
    Reqs(k)[j].of \in names /\ Wrote(k, i, j)

Next ==
    \/ \E i \in indices : Answers(i) \/ AnswersNothing(i) \/ Refuses(i) \/ GetsLost(i)
    \/ EndStep

\* Every request ends by its answer or by the time limit of the client.
Spec == Init /\ [][Next]_vars /\ WF_vars(Next)

-----------------------------------------------------------------------------
(* Properties *)

TypeOK ==
    /\ at \in 1..Len(program) /\ Len(targets) = at /\ Len(state) = at
    /\ view \subseteq Brokers /\ found \subseteq Items /\ left \subseteq Nat
    /\ \A k \in 1..at : DOMAIN state[k] = DOMAIN targets[k]
    /\ \A k \in 1..at : \A i \in DOMAIN targets[k] :
            state[k][i] \in {"open", "row", "none", "error"}
    /\ DOMAIN done = indices /\ \A i \in indices : done[i] \in 0..Len(step.reqs)
    /\ took \subseteq Nat \X Nat \X Nat
    /\ answer \in {"none", "ok", "told", "failed"}

\* A step that promises a write at each of its targets: no failure is passed over.
Strict(s) == ~s.until /\ {s.refused, s.lost} \subseteq {"stop", "later"}

\* The writes of such a step that nothing may skip.
Due(s) == {j \in DOMAIN s.reqs : /\ s.reqs[j].kind = "write" /\ s.reqs[j].error = "step"
                                 /\ \A h \in 1..j : ~s.reqs[h].ends /\ s.reqs[h].error = "step"}

\* A command that answers ok has written at every target of its strict steps: no
\* master, slave, name server or item that was listed was forgotten on the way.
AnsweredMeansTaken ==
    /\ TypeOK
    /\ answer = "ok" =>
        \A k \in 1..at \ left : Strict(program[k]) =>
            \A i \in DOMAIN targets[k], j \in Due(program[k]) : Wrote(k, i, j)

\* Every command ends, whatever is refused or lost, and frees what it took of its
\* pool.
CommandsEnd == Running ~> ~Running
=============================================================================
