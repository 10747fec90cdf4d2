---------------------------- MODULE CommandSteps ----------------------------
(***************************************************************************)
(* Requests and steps, as the functions of the code put them together. A   *)
(* function is the set of the programs it may run: one for each way its    *)
(* arguments pick its targets. Arguments that it refuses before its first  *)
(* request make no program. A function that is called with its error       *)
(* ignored is one request of the caller and has its programs apart. FanOut *)
(* says what the fields mean.                                              *)
(***************************************************************************)
EXTENDS Integers, Sequences

Request(kind, of) == [kind |-> kind, of |-> of, ends |-> FALSE, error |-> "step"]
Read(of)  == Request("read", of)
List(of)  == Request("list", of)
Table(of) == Request("table", of)
Write(of) == Request("write", of)

\* The target, or the item, is done with when there is nothing to read.
IfAny(r) == [r EXCEPT !.ends = TRUE]

\* Its error is ignored, or ends the work on the target.
Try(r) == [r EXCEPT !.error = "next"]
OrDrop(r) == [r EXCEPT !.error = "drop"]

\* One target after the other; the first error ends the command.
InTurn(who, reqs) ==
    [who |-> who, each |-> FALSE, reqs |-> reqs, pool |-> 1,
     refused |-> "stop", lost |-> "stop", leaves |-> 0, until |-> FALSE,
     unknown |-> "on", noTarget |-> "on", noRow |-> "on"]

\* The same for every item that was found.
ForEach(who, reqs) == [InTurn(who, reqs) EXCEPT !.each = TRUE]

\* The first target that has something ends the step.
UntilFound(who, reqs) == [InTurn(who, reqs) EXCEPT !.until = TRUE]

\* What follows an error of a step.
OnError(s, policy) == [s EXCEPT !.refused = policy, !.lost = policy]

\* So many goroutines at a time; NoLimit is one for each target.
AtOnce(n, s) == [s EXCEPT !.pool = n]
NoLimit == 99

\* An unknown cluster, no broker, no row: the error is returned.
OfCluster(s)   == [s EXCEPT !.unknown = "failed"]
WithTarget(s)  == [s EXCEPT !.noTarget = "failed"]
WithRow(s)     == [s EXCEPT !.noRow = "failed"]

\* A command that sends no request.
Nothing == <<[InTurn("local", <<Read("arguments")>>) EXCEPT !.noRow = "ok"]>>

\* Items that come with the arguments, or with a file that they name.
Given(items) == <<[InTurn("local", <<IfAny(List(items))>>) EXCEPT !.noRow = "ok"]>>

File(name) == <<InTurn("local", <<Write(name)>>)>>
=============================================================================
