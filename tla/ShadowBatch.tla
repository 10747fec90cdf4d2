---------------------------- MODULE ShadowBatch ----------------------------
(***************************************************************************)
(* goadmin --m6-shadow-run: every sample of a plan is run by mqadmin and   *)
(* then by the other providers, and what they print is compared. A pool of *)
(* workers takes the samples in order; within a sample the other providers *)
(* run at once, unless it is serial. Each provider runs the before hooks,  *)
(* the command and the after hooks on the same deployment.                 *)
(*                                                                         *)
(* A sample is a record: its command, serial, and the fixture that its     *)
(* arguments name. Any command, a hook's too, may be refused, or get lost: *)
(* the client reports an error while the server has done it, does it       *)
(* later, or never does. A provider is an order of transports: auto takes  *)
(* the native client, a sidecar, then mqadmin, the sidecar provider the    *)
(* last two, and whoever falls back runs the command again and says        *)
(* nothing of the attempt before. Hooks are run by mqadmin.                *)
(***************************************************************************)
EXTENDS Integers, FiniteSets, ShadowHooks, ShadowPlan

CONSTANTS
    Batches,          \* each with the concurrency that is asked for, of each provider,
                      \* the official one first, the transports that it may fall back
                      \* from, and the samples
    MaxLostCommands   \* bound: commands that get lost

Exports == {"exportConfigs", "exportMetadata", "exportMetrics"}
NoOne == <<0, 0>>

\* The values of a fixture after a command that sets some of them.
Overwritten(values, set) ==
    [x \in DOMAIN values |-> IF x \in DOMAIN set THEN set[x] ELSE values[x]]

\* What a provider does for a sample, step by step.
Step(kind, set) == [kind |-> kind, set |-> set]
Each(kind, commands) == [k \in DOMAIN commands |-> Step(kind, commands[k])]
Commands == {s.command : s \in defaultM6ShadowSamples}
Run == [c \in Commands |->
    Each("before", beforeRun(c)) \o <<Step("command", Changes(c))>>
    \o (IF c \in Exports THEN <<Step("artifact", Nothing)>> ELSE <<>>)
    \o Each("after", afterRun(c))]

\* Any samples of the default plan, with fixtures as their arguments name them.
ASSUME BatchesAssumption ==
    /\ MaxLostCommands \in Nat
    /\ \A b \in Batches :
        /\ b.concurrency \in Nat /\ b.providers \in Seq(Nat) \ {<<>>}
        /\ b.samples \in Seq([command : Commands, serial : BOOLEAN, fixture : Nat]) \ {<<>>}
        /\ \A j \in DOMAIN b.samples :
            [command |-> b.samples[j].command, serial |-> b.samples[j].serial]
              \in defaultM6ShadowSamples

\* A concurrency of 0 or 1 means in turn; no more workers than samples.
Workers(b) ==
    1 .. (IF b.concurrency <= 1 THEN 1
          ELSE IF b.concurrency > Len(b.samples) THEN Len(b.samples) ELSE b.concurrency)

\* Samples that may run at once have fixtures of their own: nothing is promised of
\* others.
ASSUME FixturesAssumption ==
    \A b \in Batches :
        \/ Workers(b) = {1}
        \/ \A i, j \in DOMAIN b.samples :
            i # j => b.samples[i].fixture # b.samples[j].fixture

VARIABLES
    batch,
    next,      \* the sample that is handed out next
    doing,     \* of each worker: its sample, 0 if it waits for one
    place,     \* of each sample and provider: its next step
    failed,    \* the kinds of its steps that reported an error; "fallback" for a
               \* transport's, of which it does not report
    start,     \* the fixture when its command, by the last transport, began
    fixtures,  \* the values of each fixture
    file,      \* of each fixture: who wrote the file that an export names
    read,      \* the file that it compared
    strays,    \* the commands that got lost: <<sample, provider, step, how many before>>
    delayed    \* those of them that a server may still do

batchVars == <<batch, next, doing, place, failed, start, fixtures, file, read, strays, delayed>>

Samples == batch.samples
Jobs == DOMAIN Samples
Providers == 1..Len(batch.providers)
Fixtures(b) == {b.samples[j].fixture : j \in DOMAIN b.samples}
Fixture(j) == Samples[j].fixture
Steps(j) == Run[Samples[j].command]
NextStep(j, p) == Steps(j)[place[j][p]]
Ended(j, p) == place[j][p] > Len(Steps(j))

BatchTypeOK ==
    /\ batch \in Batches /\ next \in 1..Len(Samples) + 1
    /\ doing \in [Workers(batch) -> {0} \cup Jobs]
    /\ \A j \in Jobs, p \in Providers : place[j][p] \in 1..Len(Steps(j)) + 1
    /\ failed \in [Jobs -> [Providers -> SUBSET {"before", "command", "artifact", "after", "fallback"}]]
    /\ \A f \in Fixtures(batch) : DOMAIN fixtures[f] = DOMAIN Baseline

BatchInit ==
    /\ batch \in Batches
    /\ next = 1
    /\ doing = [w \in Workers(batch) |-> 0]
    /\ place = [j \in Jobs |-> [p \in Providers |-> 1]]
    /\ failed = [j \in Jobs |-> [p \in Providers |-> {}]]
    /\ start = [j \in Jobs |-> [p \in Providers |-> <<>>]]
    /\ fixtures = [f \in Fixtures(batch) |-> Baseline]
    /\ file = [f \in Fixtures(batch) |-> NoOne]
    /\ read = [j \in Jobs |-> [p \in Providers |-> NoOne]]
    /\ delayed = {}
    /\ strays = {}

-----------------------------------------------------------------------------
(* Workers *)

Reports(j) == \A p \in Providers : Ended(j, p)

\* A worker that waits receives the next sample.
Takes(w) ==
    /\ doing[w] = 0 /\ next \in Jobs
    /\ doing' = [doing EXCEPT ![w] = next]
    /\ next' = next + 1
    /\ UNCHANGED <<batch, place, failed, start, fixtures, file, read, strays, delayed>>

\* Mutant: a worker ends with its first sample that reports an error.
FinishesUnlessFailed(w) ==
    /\ doing[w] # 0 /\ Reports(doing[w])
    /\ \A p \in Providers : failed[doing[w]][p] = {}
    /\ doing' = [doing EXCEPT ![w] = 0]
    /\ UNCHANGED <<batch, next, place, failed, start, fixtures, file, read, strays, delayed>>

Finishes(w) ==
    /\ doing[w] # 0 /\ Reports(doing[w])
    /\ doing' = [doing EXCEPT ![w] = 0]
    /\ UNCHANGED <<batch, next, place, failed, start, fixtures, file, read, strays, delayed>>

-----------------------------------------------------------------------------
(* Providers *)

\* The official provider first; the others when it has ended, in turn if serial.
Turn(j, p) ==
    /\ \E w \in DOMAIN doing : doing[w] = j
    /\ ~Ended(j, p)
    /\ p = 1 \/ Ended(j, 1)
    /\ Samples[j].serial => \A q \in 1..p - 1 : Ended(j, q)

\* Where a run goes on after an error. A before hook that fails ends it, and so
\* does an after hook; after the command, or its file, come the after hooks.
After(j) == CHOOSE k \in 1..Len(Steps(j)) + 1 :
    /\ k = Len(Steps(j)) + 1 \/ Steps(j)[k].kind = "after"
    /\ \A h \in 1..k - 1 : Steps(j)[h].kind # "after"

\* Mutant: the after hooks run only when the command succeeds.
GivesUp(j, p) == Len(Steps(j)) + 1

OnError(j, p) ==
    IF NextStep(j, p).kind \in {"command", "artifact"} THEN After(j) ELSE Len(Steps(j)) + 1

Goes(j, p, k) == place' = [place EXCEPT ![j][p] = k]
Finds(j, p) ==
    start' = IF NextStep(j, p).kind = "command" THEN [start EXCEPT ![j][p] = fixtures[Fixture(j)]]
             ELSE start
Errs(j, p) == failed' = [failed EXCEPT ![j][p] = @ \cup {NextStep(j, p).kind}]

\* What a step does to its fixture; an export writes its file as well.
Applied(f, set) == fixtures' = [fixtures EXCEPT ![f] = Overwritten(@, set)]
Written(j, p) ==
    file' = IF Samples[j].command \in Exports /\ NextStep(j, p).kind = "command"
            THEN [file EXCEPT ![Fixture(j)] = <<j, p>>] ELSE file

\* The step is done and reports no error.
Does(j, p) ==
    /\ Turn(j, p)
    /\ Goes(j, p, place[j][p] + 1) /\ Finds(j, p)
    /\ Applied(Fixture(j), NextStep(j, p).set) /\ Written(j, p)
    /\ read' = IF NextStep(j, p).kind = "artifact" THEN [read EXCEPT ![j][p] = file[Fixture(j)]]
               ELSE read
    /\ UNCHANGED <<batch, next, doing, failed, delayed, strays>>

\* It is refused, or the file is not there.
Refused(j, p) ==
    /\ Turn(j, p)
    /\ Goes(j, p, OnError(j, p)) /\ Finds(j, p) /\ Errs(j, p)
    /\ UNCHANGED <<batch, next, doing, fixtures, file, read, strays, delayed>>

\* A request is lost: done, never done, or done later.
Stray(j, p) == <<j, p, place[j][p], Cardinality(strays)>>
GetsLost(j, p) ==
    /\ Cardinality(strays) < MaxLostCommands
    /\ strays' = strays \cup {Stray(j, p)}
    /\ \/ Applied(Fixture(j), NextStep(j, p).set) /\ Written(j, p) /\ UNCHANGED delayed
       \/ delayed' = delayed \cup {Stray(j, p)} /\ UNCHANGED <<fixtures, file>>

\* It is lost, and reported so.
Lost(j, p) ==
    /\ Turn(j, p) /\ NextStep(j, p).kind # "artifact"
    /\ GetsLost(j, p)
    /\ Goes(j, p, OnError(j, p)) /\ Finds(j, p) /\ Errs(j, p)
    /\ UNCHANGED <<batch, next, doing, read>>

\* It is lost with one transport, and the next one runs the command. An attempt that
\* fails and leaves nothing behind changes nothing here.
TriesNext(j, p) ==
    /\ Turn(j, p) /\ NextStep(j, p).kind = "command"
    /\ Cardinality({l \in strays : l[1] = j /\ l[2] = p}) < batch.providers[p]
    /\ GetsLost(j, p)
    /\ failed' = [failed EXCEPT ![j][p] = @ \cup {"fallback"}]
    /\ UNCHANGED <<batch, next, doing, place, start, read>>

Arrives(l) ==
    /\ Applied(Fixture(l[1]), Steps(l[1])[l[3]].set)
    /\ file' = IF Samples[l[1]].command \in Exports /\ Steps(l[1])[l[3]].kind = "command"
               THEN [file EXCEPT ![Fixture(l[1])] = <<l[1], l[2]>>] ELSE file
    /\ delayed' = delayed \ {l}
    /\ UNCHANGED <<batch, next, doing, place, failed, start, read, strays>>

Progress ==
    \/ \E w \in DOMAIN doing : Takes(w) \/ Finishes(w)
    \/ \E j \in Jobs, p \in Providers : Does(j, p) \/ Refused(j, p) \/ Lost(j, p)
                                   \/ TriesNext(j, p)

BatchNext == Progress \/ \E l \in delayed : Arrives(l)

\* Workers and providers are goroutines, and a command ends by its answer or its
\* time limit.
BatchSpec == BatchInit /\ [][BatchNext]_batchVars /\ WF_batchVars(Progress)

-----------------------------------------------------------------------------
(* Properties *)

\* Commands that change a fixture and have hooks to bring it back.
RestoredCommands == {c \in Commands : Changes(c) # Nothing /\ afterRun(c) # <<>>}
Restored(j) == Samples[j].command \in RestoredCommands

\* The samples that used the fixture of j, up to it.
Upto(j) == {i \in 1..j : Fixture(i) = Fixture(j)}

\* No command on the fixture of j was lost.
NoneLost(j) == \A l \in strays : Fixture(l[1]) # Fixture(j)

\* A sample that reports no error, and in which no provider fell back, compared like
\* with like, if the samples before it on its fixture bring that back: all its
\* providers found the fixture in the same state, and in one that the command changes,
\* or a provider that does nothing would look as good as the others (the notes of the
\* plan: every target starts from the same state).
TargetsStartAlike ==
    /\ BatchTypeOK
    /\ \A j \in Jobs :
        (\A i \in Upto(j) : Restored(i) /\ \A p \in Providers : failed[i][p] = {}) =>
            \A p, q \in Providers : start[j][p] # <<>> /\ start[j][q] # <<>> =>
                /\ start[j][p] = start[j][q]
                /\ Overwritten(start[j][p], Changes(Samples[j].command)) # start[j][p]

\* Whatever commands are refused, a sample leaves its fixture as it found it, if
\* its hooks went well and none of its commands got lost on the way. Not so
\* deleteAcl: if it fails the list stays, its hook removes the user only.
FixturesComeBack ==
    \A j \in Jobs :
        /\ Restored(j) /\ Reports(j)
        /\ \A i \in Jobs : Fixture(i) = Fixture(j) =>
            /\ i \in Upto(j) \/ \A p \in Providers : place[i][p] = 1
            /\ Restored(i)
            /\ \A p \in Providers : failed[i][p] \subseteq {"command"}
            /\ \A p \in Providers : "command" \in failed[i][p] => Samples[i].command # "deleteAcl"
        /\ NoneLost(j)
        => fixtures[Fixture(j)] = Baseline

\* The file that is compared as what a provider exported was written by that
\* provider for that sample (SerialTargets: fixed paths must not overwrite each
\* other), as long as no export is late.
ArtifactsAreOwn ==
    \A j \in Jobs, p \in Providers :
        read[j][p] # NoOne /\ NoneLost(j) => read[j][p] = <<j, p>>

\* Every sample is run by every provider, in whatever way its commands fail, and
\* the batch ends.
BatchEnds == <>((\A j \in Jobs : Reports(j)) /\ \A w \in DOMAIN doing : doing[w] = 0)
=============================================================================
