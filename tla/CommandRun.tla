----------------------------- MODULE CommandRun -----------------------------
(***************************************************************************)
(* How one command of the dashboard reaches the cluster: the provider's    *)
(* run (internal/rocketmq/mqadmin_provider.go), the command line behind it *)
(* (internal/goadmin/cli.go), the Java sidecar (cmd/rocketmq-admin-sidecar/*)
(* AdminSidecar.java), the shadow comparison that runs the command again   *)
(* after the answer (cmd/rmqdash/main.go), and the cache of the topic      *)
(* types that the writes of the dashboard clear.                           *)
(*                                                                         *)
(* A run is one execution of the command of a write: the one its answer    *)
(* comes from, or that of a shadow target. A run tries one transport after *)
(* the other. What a transport has been asked for may still happen after   *)
(* the caller gave up.                                                     *)
(***************************************************************************)
EXTENDS Integers, Sequences, FiniteSets

CONSTANTS
    Writes,         \* commands that change topics, each requested once
    Loads,          \* GETs that need the topic types, again and again
    Transport,      \* of the provider: "native", "auto", "sidecar" or "process"
    SidecarKnown,   \* whether an address of the sidecar is configured
    ShadowTargets,  \* transports that run the command again; none by default
    Primary,        \* the run that is answered
    None,
    MaxLost,        \* bound: requests whose answer the caller does not see
    MaxShadows      \* bound: comparisons

ASSUME CommandRunAssumption ==
    /\ Transport \in {"native", "auto", "sidecar", "process"}
    /\ ShadowTargets \subseteq {"native", "auto", "sidecar", "process"} \ {Transport}
    /\ Transport = "sidecar" => ShadowTargets = {}
    /\ SidecarKnown \in BOOLEAN /\ MaxLost \in Nat /\ MaxShadows \in Nat
    /\ Writes \cap Loads = {} /\ None \notin Writes \cup Loads

Runs == Writes \X (ShadowTargets \cup {Primary})

VARIABLES
    stage,     \* of a run: "idle", "running", "ok" or "failed"
    at,        \* the transport of its chain it is at
    asked,     \* whether it waits for the sidecar
    inside,    \* the runs the sidecar works on
    queue,     \* runs that the sidecar has accepted
    out,       \* the run whose buffer is the sidecar's standard output, or None
    buffer,    \* for each run, the runs that have printed to its buffer
    result,    \* of each run there: "none", "done", "text" or "thrown"
    late,      \* runs that a broker has yet to execute for a caller that gave up
    lost,      \* how many callers gave up
    took,      \* the writes that were executed by their own run
    surplus,   \* how often they were, less the attempts that failed in doubt
    value,     \* what the topic is now: <<write, how it was executed>>
    answers,   \* to the writes: "none", "ok" or "failed"
    since,     \* for a write, the writes that were answered before it began
    entry,     \* of the cache: a record, or None
    loading    \* a record for each load that reads the types, or None

runVars == <<stage, at, asked>>
sidecarVars == <<inside, queue, out, buffer, result>>
clusterVars == <<late, lost, took, surplus, value>>
cacheVars == <<entry, loading>>
vars == <<runVars, sidecarVars, clusterVars, answers, since, cacheVars>>

\* Native first when the transport is "auto", and the sidecar before the process.
viaProvider(sidecar) == IF sidecar /\ SidecarKnown THEN <<"sidecar", "process">> ELSE <<"process">>
runCommand(transport) ==
    CASE transport = "native"  -> <<"native">>
      [] transport = "auto"    -> <<"native">> \o viaProvider(TRUE)
      [] transport = "sidecar" -> viaProvider(TRUE)
      [] transport = "process" -> viaProvider(FALSE)

chain(r) == runCommand(IF r[2] = Primary THEN Transport ELSE r[2])
here(r) == chain(r)[at[r]]
At(r, transport) == stage[r] = "running" /\ here(r) = transport

Init ==
    /\ stage = [r \in Runs |-> "idle"] /\ at = [r \in Runs |-> 1]
    /\ asked = [r \in Runs |-> FALSE]
    /\ inside = {} /\ queue = {} /\ out = None
    /\ result = [r \in Runs |-> "none"] /\ buffer = [r \in Runs |-> {}]
    /\ late = {} /\ lost = 0 /\ value = <<None, "own">>
    /\ took = {} /\ surplus = [w \in Writes |-> 0]
    /\ answers = [w \in Writes |-> "none"] /\ since = [w \in Writes |-> {}]
    /\ entry = None
    /\ loading = [l \in Loads |-> None]

Answered == {w \in Writes : answers[w] # "none"}
Done == {w \in Writes : answers[w] = "ok"}

-----------------------------------------------------------------------------
(* What a command does to the cluster *)

\* The broker executes it for a caller that waits, for one that gave up, or for a
\* shadow. An attempt in doubt makes up for one execution.
Counts(r, n) == surplus' = IF r[2] = Primary THEN [surplus EXCEPT ![r[1]] = @ + n] ELSE surplus
ExecutesFor(r, how, n) ==
    /\ took' = IF r[2] = Primary THEN took \cup {r[1]} ELSE took
    /\ value' = <<r[1], IF r[2] = Primary THEN how ELSE "shadow">>
    /\ Counts(r, n)
Executes(r, how) == ExecutesFor(r, how, 1)
Unexecuted == UNCHANGED <<took, value, surplus>>

\* An attempt fails although a part of it, which counts as the whole, may be done.
FailsInDoubt(r) == ExecutesFor(r, "own", 0) \/ (UNCHANGED <<took, value>> /\ Counts(r, -1))

\* The caller gives up; the command may be executed all the same, now or later. A
\* shadow that is executed later is one that goes on for so long.
GaveUp(r) ==
    /\ lost < MaxLost /\ lost' = lost + 1
    /\ UNCHANGED <<took, value>> /\ Counts(r, -1)
    /\ r[2] = Primary /\ late' = late \cup {r}

-----------------------------------------------------------------------------
(* The transports of a run *)

\* Nobody looks at the outcome of a shadow, but in the log.
EndsAs(r, how) ==
    /\ stage' = [stage EXCEPT ![r] = IF r[2] = Primary THEN how ELSE "ended"]
    /\ at' = [at EXCEPT ![r] = 1]

\* After an error, the next transport of the chain if there is one.
FallsBack(r) ==
    IF at[r] < Len(chain(r))
    THEN at' = [at EXCEPT ![r] = @ + 1] /\ UNCHANGED stage
    ELSE EndsAs(r, "failed")

\* nativeCommandRunner, whose every error leads on (an official result is one of
\* reads only); runProcess, whose output is searched for an exception and which is
\* killed when its time is up.
RunsDirectly(r) ==
    /\ At(r, "native") \/ At(r, "process")
    /\ \/ Executes(r, "own") /\ EndsAs(r, "ok") /\ UNCHANGED <<late, lost>>
       \/ FailsInDoubt(r) /\ FallsBack(r) /\ UNCHANGED <<late, lost>>
       \/ GaveUp(r) /\ FallsBack(r)
    /\ UNCHANGED <<asked, sidecarVars, answers, since, cacheVars>>

\* The sidecar is not there, or has the command now.
AsksSidecar(r) ==
    /\ At(r, "sidecar") /\ ~asked[r]
    /\ \/ FallsBack(r) /\ UNCHANGED <<asked, queue>>
       \/ /\ asked' = [asked EXCEPT ![r] = TRUE] /\ queue' = queue \cup {r}
          /\ UNCHANGED <<stage, at>>
    /\ UNCHANGED <<inside, out, buffer, result, clusterVars, answers, since, cacheVars>>

\* The HTTP client does not wait any longer; the sidecar knows nothing of it.
SidecarTimesOut(r) ==
    /\ At(r, "sidecar") /\ asked[r]
    /\ asked' = [asked EXCEPT ![r] = FALSE]
    /\ FallsBack(r) /\ Counts(r, -1)
    /\ UNCHANGED <<sidecarVars, late, lost, took, value, answers, since, cacheVars>>

-----------------------------------------------------------------------------
(* The sidecar: one command at a time, each with the standard output for its own *)

\* Mutant: there is no lock.
EntersFreely(r) == inside' = inside \cup {r}

EntersLock(r) == inside = {} /\ inside' = {r}

SidecarTakes(r) ==
    /\ r \in queue
    /\ EntersLock(r)
    /\ queue' = queue \ {r}
    /\ out' = r
    /\ UNCHANGED <<runVars, buffer, result, clusterVars, answers, since, cacheVars>>

Waits(r) == asked[r] /\ At(r, "sidecar")

\* The tool prints an exception of the command; what breaks the handler is thrown.
Ends(r, hows) == \E how \in hows : result' = [result EXCEPT ![r] = how]
SidecarExecutes(r) ==
    /\ r \in inside /\ result[r] = "none"
    /\ \/ Executes(r, IF Waits(r) THEN "own" ELSE "late") /\ Ends(r, {"done", "text", "thrown"})
       \/ Unexecuted /\ Ends(r, {"text", "thrown"})
    /\ buffer' = [buffer EXCEPT ![out] = @ \cup {r}]
    /\ UNCHANGED <<runVars, inside, queue, out, late, lost, answers, since, cacheVars>>

\* Mutant: an exception that is only printed goes for success.
TakesAnyText(text) == "ok"

\* Its text is the output of the command, in which an exception is an error; a
\* status that is not 2xx means that the sidecar is not available.
validateMQAdminOutput(text) == IF text = "done" THEN "ok" ELSE "failed"

\* Mutant: the next transport is tried after any error.
FallsBackOnErrors(r) ==
    /\ IF result[r] = "done" THEN EndsAs(r, "ok") ELSE FallsBack(r)
    /\ UNCHANGED surplus

AdminSidecarClientRun(r) ==
    IF result[r] = "thrown"
    THEN FallsBack(r) /\ Counts(r, -1)
    ELSE EndsAs(r, validateMQAdminOutput(result[r])) /\ UNCHANGED surplus

SidecarAnswers(r) ==
    /\ r \in inside /\ result[r] # "none"
    /\ inside' = inside \ {r} /\ out' = None
    /\ buffer' = [buffer EXCEPT ![r] = {}] /\ result' = [result EXCEPT ![r] = "none"]
    /\ IF Waits(r)
       THEN asked' = [asked EXCEPT ![r] = FALSE] /\ AdminSidecarClientRun(r)
       ELSE UNCHANGED <<runVars, surplus>>
    /\ UNCHANGED <<queue, late, lost, took, value, answers, since, cacheVars>>

\* A broker executes what its caller gave up.
ExecutesLate(r) ==
    /\ r \in late /\ late' = late \ {r}
    /\ Executes(r, "late")
    /\ UNCHANGED <<runVars, sidecarVars, lost, answers, since, cacheVars>>

-----------------------------------------------------------------------------
(* The requests *)

Begins(w) ==
    /\ stage[<<w, Primary>>] = "idle"
    /\ stage' = [stage EXCEPT ![<<w, Primary>>] = "running"]
    /\ since' = [since EXCEPT ![w] = Answered]
    /\ UNCHANGED <<at, asked, sidecarVars, clusterVars, answers, cacheVars>>

\* Mutant: the cache keeps what it has.
KeepsTypes == UNCHANGED entry

\* UpsertTopic and DeleteTopic clear the cache, but not after an error.
clearTopicMessageTypeCache == entry' = None

\* Mutant: the handler does not wait for its command.
ReturnsEarly(w) ==
    /\ stage[<<w, Primary>>] # "idle" /\ answers[w] = "none"
    /\ answers' = [answers EXCEPT ![w] = IF stage[<<w, Primary>>] = "ok" THEN "ok" ELSE "failed"]
    /\ IF stage[<<w, Primary>>] = "ok" THEN clearTopicMessageTypeCache ELSE UNCHANGED entry
    /\ UNCHANGED <<runVars, sidecarVars, clusterVars, since, loading>>

Returns(w) ==
    /\ stage[<<w, Primary>>] \in {"ok", "failed"} /\ answers[w] = "none"
    /\ answers' = [answers EXCEPT ![w] = stage[<<w, Primary>>]]
    /\ IF stage[<<w, Primary>>] = "ok" THEN clearTopicMessageTypeCache ELSE UNCHANGED entry
    /\ UNCHANGED <<runVars, sidecarVars, clusterVars, since, loading>>

\* Every shadow begins when the first run has ended, whatever its end, in a
\* goroutine that nothing waits for.
Shadows(w) ==
    /\ stage[<<w, Primary>>] \in {"ok", "failed"}
    /\ Cardinality({r \in Runs : r[2] # Primary /\ stage[r] # "idle"}) < MaxShadows
    /\ \E t \in ShadowTargets :
         /\ stage[<<w, t>>] = "idle"
         /\ stage' = [stage EXCEPT ![<<w, t>>] = "running"]
    /\ UNCHANGED <<at, asked, sidecarVars, clusterVars, answers, since, cacheVars>>

\* topicMessageTypes: from the cache, or from the metadata files of the clusters.
LooksUp(l) ==
    /\ loading[l] = None /\ entry = None
    /\ loading' = [loading EXCEPT ![l] = [begun |-> Done, types |-> None]]
    /\ UNCHANGED <<runVars, sidecarVars, clusterVars, answers, since, entry>>

\* After an error there are no types, and nothing is kept.
ReadsTypes(l) ==
    /\ loading[l] # None /\ loading[l].types = None
    /\ \/ loading' = [loading EXCEPT ![l].types = took]
       \/ loading' = [loading EXCEPT ![l] = None]
    /\ UNCHANGED <<runVars, sidecarVars, clusterVars, answers, since, entry>>

StoresTypes(l) ==
    /\ loading[l] # None /\ loading[l].types # None
    /\ entry' = [types |-> loading[l].types, meanwhile |-> Done \ loading[l].begun]
    /\ loading' = [loading EXCEPT ![l] = None]
    /\ UNCHANGED <<runVars, sidecarVars, clusterVars, answers, since>>

Expires == entry # None /\ entry' = None
           /\ UNCHANGED <<runVars, sidecarVars, clusterVars, answers, since, loading>>

-----------------------------------------------------------------------------
Proceeds(r) == RunsDirectly(r) \/ AsksSidecar(r) \/ SidecarTimesOut(r)
Sidecar(r) == SidecarTakes(r) \/ SidecarExecutes(r) \/ SidecarAnswers(r)
Request(w) == Begins(w) \/ Returns(w) \/ Shadows(w)
Load(l) == LooksUp(l) \/ ReadsTypes(l) \/ StoresTypes(l)

Next ==
    \/ \E r \in Runs : Proceeds(r) \/ Sidecar(r) \/ ExecutesLate(r)
    \/ \E w \in Writes : Request(w)
    \/ \E l \in Loads : Load(l)
    \/ Expires

Spec == Init /\ [][Next]_vars

-----------------------------------------------------------------------------
(* Properties *)

TypeOK ==
    /\ stage \in [Runs -> {"idle", "running", "ok", "failed", "ended"}]
    /\ \A r \in Runs : at[r] \in 1..Len(chain(r))
    /\ asked \in [Runs -> BOOLEAN] /\ queue \cup inside \cup late \subseteq Runs
    /\ out \in Runs \cup {None} /\ buffer \in [Runs -> SUBSET Runs]
    /\ result \in [Runs -> {"none", "done", "text", "thrown"}] /\ lost \in 0..MaxLost
    /\ took \subseteq Writes /\ surplus \in [Writes -> Int]
    /\ value \in (Writes \cup {None}) \X {"own", "late", "shadow"}
    /\ answers \in [Writes -> {"none", "ok", "failed"}] /\ since \in [Writes -> SUBSET Writes]

\* A write that is answered with success was executed: an exception that the tool
\* only prints is not taken for success, and an error of every transport is told.
AnsweredWritesWereExecuted == TypeOK /\ Done \subseteq took

\* A write is executed again only after an attempt that was reached and failed,
\* or was left without an answer: run never repeats what a transport has answered.
RepeatsHaveACause == \A w \in Writes : surplus[w] <= 1

\* When a write is answered and another one follows it, the topic goes back to the
\* first one only by a request whose caller gave up, or by a shadow of it.
OldWritesReturnLate ==
    \A v, w \in Writes :
        w \in since[v] /\ v \in Done /\ value[1] = w => value[2] \in {"late", "shadow"}

\* The cached types lack a write that was answered only when they were being read
\* while it was answered: an entry that was there before is cleared.
StaleTypesWereBeingRead ==
    entry # None => Done \ entry.types \subseteq entry.meanwhile

\* Each answer of the sidecar holds what its own command printed, and that only.
SidecarOutputsAreOwn ==
    \A r \in inside : result[r] # "none" => buffer[r] = {r}
=============================================================================
