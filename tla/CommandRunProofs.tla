-------------------------- MODULE CommandRunProofs --------------------------
(* For whatever transports, shadows, writes and loads: what is answered with *)
(* success was executed, the sidecar answers what the command printed, and   *)
(* the cached topic types miss only the writes that were answered meanwhile; *)
(* then how often a command is executed, and in which order the writes of    *)
(* one topic take. At the end the commands of a shadow batch: for whatever   *)
(* samples of the default plan, providers, workers and lost commands, the    *)
(* providers of a sample start alike, the hooks bring its fixture back, and  *)
(* the files that are compared are the own ones.                             *)
EXTENDS CommandRun, ShadowBatch, SequenceTheorems, TLAPS

-----------------------------------------------------------------------------
(* The inductive invariant *)

\* The transports of a chain are counted. A load knows the writes that were answered
\* when it began; after it has read it knows what had been executed.
MoreTypes ==
  /\ at \in [Runs -> Nat]
  /\ loading \in [Loads -> {None} \cup [begun : SUBSET Writes, types : (SUBSET Writes) \cup {None}]]

\* A success, wherever it is on its way to the answer, stands for an execution.
Executed ==
  /\ \A w \in Writes : stage[<<w, Primary>>] = "ok" => w \in took
  /\ \A w \in Writes : answers[w] = "ok" => w \in took
  /\ \A r \in Runs : result[r] = "done" /\ r[2] = Primary => r[1] \in took

\* One command at a time is in the sidecar, and the standard output is its own.
OwnOutput ==
  /\ \A r, s \in inside : r = s
  /\ \A r \in inside : out = r
  /\ \A r \in Runs : r \notin inside => result[r] = "none"
  /\ \A r \in Runs : result[r] = "none" => buffer[r] = {}
  /\ \A r \in inside : result[r] # "none" => buffer[r] = {r}

\* What a load has read holds the writes that were answered before it began.
Reading ==
  \A l \in Loads : loading[l] # None =>
    /\ loading[l].begun \subseteq Done
    /\ loading[l].types # None => loading[l].begun \subseteq loading[l].types

IInv == TypeOK /\ MoreTypes /\ Executed /\ OwnOutput /\ Reading /\ StaleTypesWereBeingRead

-----------------------------------------------------------------------------
(* Chains of transports *)

Transports == {"native", "sidecar", "process"}

LEMMA Chains ==
  ASSUME NEW r \in Runs
  PROVE  Len(chain(r)) \in Nat /\ Len(chain(r)) >= 1
<1>1. ASSUME NEW b \in BOOLEAN
      PROVE  viaProvider(b) \in Seq(Transports) /\ Len(viaProvider(b)) \in {1, 2}
  <2>0. ASSUME NEW S, NEW a \in S, NEW c \in S
        PROVE  <<a>> \in Seq(S) /\ Len(<<a>>) = 1 /\ <<a, c>> \in Seq(S) /\ Len(<<a, c>>) = 2
    OBVIOUS
  <2>1. CASE b /\ SidecarKnown
    BY <2>0, <2>1 DEF viaProvider, Transports
  <2>2. CASE ~(b /\ SidecarKnown)
    BY <2>0, <2>2 DEF viaProvider, Transports
  <2>. QED  BY <2>1, <2>2
<1>2. ASSUME NEW t \in {"native", "auto", "sidecar", "process"}
      PROVE  Len(runCommand(t)) \in {1, 2, 3}
  <2>1. <<"native">> \in Seq(Transports) /\ Len(<<"native">>) = 1
    <3>1. ASSUME NEW S, NEW a \in S
          PROVE  <<a>> \in Seq(S) /\ Len(<<a>>) = 1
      OBVIOUS
    <3>. QED  BY <3>1 DEF Transports
  <2>2. CASE t = "native"
    BY <2>1, <2>2 DEF runCommand
  <2>3. CASE t = "auto"
    <3>1. runCommand(t) = <<"native">> \o viaProvider(TRUE)
      BY <2>3 DEF runCommand
    <3>2. viaProvider(TRUE) \in Seq(Transports) /\ Len(viaProvider(TRUE)) \in {1, 2}
      BY <1>1
    <3>3. ASSUME NEW v \in Seq(Transports), Len(v) \in {1, 2}
          PROVE  Len(<<"native">> \o v) \in {1, 2, 3}
      BY <3>3, <2>1, ConcatProperties
    <3>4. Len(<<"native">> \o viaProvider(TRUE)) \in {1, 2, 3}
      BY <3>2, <3>3, Zenon
    <3>. QED  BY <3>1, <3>4, Zenon
  <2>4. CASE t = "sidecar"
    BY <2>4, <1>1 DEF runCommand
  <2>5. CASE t = "process"
    BY <2>5, <1>1 DEF runCommand
  <2>. QED  BY <2>2, <2>3, <2>4, <2>5
<1>3. r[2] = Primary \/ r[2] \in {"native", "auto", "sidecar", "process"}
  BY CommandRunAssumption DEF Runs
<1>. QED  BY <1>2, <1>3, CommandRunAssumption DEF chain

LEMMA RunParts ==
  /\ \A r \in Runs : r[1] \in Writes /\ r = <<r[1], r[2]>>
  /\ \A w \in Writes : <<w, Primary>> \in Runs
  /\ \A w \in Writes, t \in ShadowTargets : <<w, t>> \in Runs
BY DEF Runs

-----------------------------------------------------------------------------
(* The steps that the actions share *)

\* What the ends and the changes of transport keep, when a run may become "ok" or not.
Advances(r, how) ==
  /\ stage' \in [Runs -> {"idle", "running", "ok", "failed", "ended"}]
  /\ at' \in [Runs -> Nat]
  /\ \A s \in Runs : at'[s] \in 1..Len(chain(s))
  /\ \A s \in Runs : stage'[s] = "ok" => stage[s] = "ok" \/ (s = r /\ how = "ok")

LEMMA EndsAdvance ==
  ASSUME TypeOK, MoreTypes, NEW r \in Runs, NEW how \in {"ok", "failed"}, EndsAs(r, how)
  PROVE  Advances(r, how)
BY Chains DEF TypeOK, MoreTypes, EndsAs, Advances

LEMMA FallsBackAdvances ==
  ASSUME TypeOK, MoreTypes, NEW r \in Runs, FallsBack(r)
  PROVE  Advances(r, "failed")
<1>1. CASE at[r] < Len(chain(r))
  <2>1. at' = [at EXCEPT ![r] = @ + 1] /\ stage' = stage
    BY <1>1 DEF FallsBack
  <2>2. at' \in [Runs -> Nat] /\ \A s \in Runs : at'[s] \in 1..Len(chain(s))
    BY <1>1, <2>1, Chains DEF TypeOK, MoreTypes
  <2>. QED  BY <2>1, <2>2 DEF TypeOK, Advances
<1>2. CASE ~(at[r] < Len(chain(r)))
  BY <1>2, EndsAdvance DEF FallsBack
<1>. QED  BY <1>1, <1>2

\* What is executed stays executed.
Keeps ==
  /\ took' \subseteq Writes /\ took \subseteq took'
  /\ surplus' \in [Writes -> Int]
  /\ value' \in (Writes \cup {None}) \X {"own", "late", "shadow"}

LEMMA Counting ==
  ASSUME TypeOK, NEW r \in Runs, NEW n \in Int, Counts(r, n)
  PROVE  surplus' \in [Writes -> Int]
BY RunParts DEF TypeOK, Counts

LEMMA Executing ==
  ASSUME TypeOK, NEW r \in Runs, NEW how \in {"own", "late"}, NEW n \in Int,
         ExecutesFor(r, how, n)
  PROVE  Keeps /\ (r[2] = Primary => r[1] \in took')
<1>1. surplus' \in [Writes -> Int]
  BY Counting DEF ExecutesFor
<1>. QED  BY <1>1, RunParts DEF TypeOK, ExecutesFor, Keeps

LEMMA InDoubt ==
  ASSUME TypeOK, NEW r \in Runs, FailsInDoubt(r)
  PROVE  Keeps
<1>1. CASE ExecutesFor(r, "own", 0)
  BY <1>1, Executing
<1>2. CASE UNCHANGED <<took, value>> /\ Counts(r, -1)
  BY <1>2, Counting DEF TypeOK, Keeps
<1>. QED  BY <1>1, <1>2 DEF FailsInDoubt

LEMMA GivingUp ==
  ASSUME TypeOK, NEW r \in Runs, GaveUp(r)
  PROVE  Keeps /\ late' \subseteq Runs /\ lost' \in 0..MaxLost
<1>1. surplus' \in [Writes -> Int]
  BY Counting DEF GaveUp
<1>. QED  BY <1>1, CommandRunAssumption DEF TypeOK, GaveUp, Keeps

\* A step that is about neither the answers nor the cache leaves the types as they are.
LEMMA CacheUntouched ==
  ASSUME Reading, StaleTypesWereBeingRead, MoreTypes, at' \in [Runs -> Nat],
         UNCHANGED <<answers, entry, loading>>
  PROVE  Reading' /\ StaleTypesWereBeingRead' /\ MoreTypes'
BY DEF Reading, StaleTypesWereBeingRead, MoreTypes, Done

LEMMA SidecarUntouched ==
  ASSUME OwnOutput, UNCHANGED <<inside, out, buffer, result>>
  PROVE  OwnOutput'
BY DEF OwnOutput

LEMMA Successes ==
  ASSUME Executed, Keeps, NEW r \in Runs, NEW how, Advances(r, how),
         how = "ok" /\ r[2] = Primary => r[1] \in took',
         UNCHANGED <<answers, result>>
  PROVE  Executed'
<1>1. ASSUME NEW w \in Writes, stage'[<<w, Primary>>] = "ok"  PROVE w \in took'
  BY <1>1, RunParts DEF Executed, Keeps, Advances
<1>2. ASSUME NEW w \in Writes, answers'[w] = "ok"  PROVE w \in took'
  BY <1>2 DEF Executed, Keeps
<1>3. ASSUME NEW s \in Runs, result'[s] = "done", s[2] = Primary  PROVE s[1] \in took'
  BY <1>3 DEF Executed, Keeps
<1>. QED  BY <1>1, <1>2, <1>3 DEF Executed
-----------------------------------------------------------------------------
(* The actions *)

LEMMA InitHolds ==
  ASSUME Init
  PROVE  IInv
<1>1. TypeOK
  BY Chains, CommandRunAssumption DEF Init, TypeOK
<1>2. MoreTypes /\ Reading /\ StaleTypesWereBeingRead
  BY DEF Init, MoreTypes, Reading, StaleTypesWereBeingRead
<1>3. Executed
  BY RunParts DEF Init, Executed
<1>4. OwnOutput
  BY DEF Init, OwnOutput
<1>. QED  BY <1>1, <1>2, <1>3, <1>4 DEF IInv

LEMMA RunsDirectlyKeeps ==
  ASSUME IInv, NEW r \in Runs, RunsDirectly(r)
  PROVE  IInv'
<1>. USE DEF IInv
<1>1. /\ UNCHANGED <<inside, queue, out, buffer, result>>
      /\ UNCHANGED <<asked, answers, since, entry, loading>>
  BY DEF RunsDirectly, sidecarVars, cacheVars
<1>2. ASSUME NEW how \in {"ok", "failed"}, Advances(r, how), Keeps,
             how = "ok" /\ r[2] = Primary => r[1] \in took',
             late' \subseteq Runs, lost' \in 0..MaxLost
      PROVE  IInv'
  <2>1. TypeOK'
    BY <1>1, <1>2 DEF TypeOK, Advances, Keeps
  <2>2. Executed'
    BY <1>1, <1>2, Successes
  <2>. QED  BY <2>1, <2>2, <1>1, <1>2, CacheUntouched, SidecarUntouched DEF Advances
<1>3. CASE Executes(r, "own") /\ EndsAs(r, "ok") /\ UNCHANGED <<late, lost>>
  BY <1>2, <1>3, EndsAdvance, Executing DEF Executes, TypeOK
<1>4. CASE FailsInDoubt(r) /\ FallsBack(r) /\ UNCHANGED <<late, lost>>
  BY <1>2, <1>4, FallsBackAdvances, InDoubt DEF TypeOK
<1>5. CASE GaveUp(r) /\ FallsBack(r)
  BY <1>2, <1>5, FallsBackAdvances, GivingUp
<1>. QED  BY <1>3, <1>4, <1>5 DEF RunsDirectly

LEMMA AsksSidecarKeeps ==
  ASSUME IInv, NEW r \in Runs, AsksSidecar(r)
  PROVE  IInv'
<1>. USE DEF IInv
<1>1. /\ UNCHANGED <<inside, out, buffer, result>> /\ UNCHANGED <<late, lost>>
      /\ UNCHANGED <<took, surplus, value>> /\ UNCHANGED <<answers, since, entry, loading>>
  BY DEF AsksSidecar, clusterVars, cacheVars
<1>2. Advances(r, "failed") /\ asked' \in [Runs -> BOOLEAN] /\ queue' \subseteq Runs
  <2>1. CASE FallsBack(r) /\ UNCHANGED <<asked, queue>>
    BY <2>1, FallsBackAdvances DEF TypeOK
  <2>2. CASE ~(FallsBack(r) /\ UNCHANGED <<asked, queue>>)
    BY <2>2 DEF TypeOK, MoreTypes, AsksSidecar, Advances
  <2>. QED  BY <2>1, <2>2
<1>3. TypeOK'
  BY <1>1, <1>2 DEF TypeOK, Advances
<1>4. Executed'
  BY <1>1, <1>2, Successes DEF Keeps, TypeOK
<1>. QED  BY <1>1, <1>2, <1>3, <1>4, CacheUntouched, SidecarUntouched DEF Advances

LEMMA SidecarTimesOutKeeps ==
  ASSUME IInv, NEW r \in Runs, SidecarTimesOut(r)
  PROVE  IInv'
<1>. USE DEF IInv
<1>1. /\ UNCHANGED <<inside, queue, out, buffer, result>> /\ UNCHANGED <<late, lost>>
      /\ UNCHANGED <<took, value>> /\ UNCHANGED <<answers, since, entry, loading>>
  BY DEF SidecarTimesOut, sidecarVars, cacheVars
<1>2. Advances(r, "failed") /\ surplus' \in [Writes -> Int]
  BY FallsBackAdvances, Counting DEF SidecarTimesOut
<1>3. TypeOK'
  BY <1>1, <1>2 DEF TypeOK, Advances, SidecarTimesOut
<1>4. Executed'
  BY <1>1, <1>2, Successes DEF Keeps, TypeOK
<1>. QED  BY <1>1, <1>2, <1>3, <1>4, CacheUntouched, SidecarUntouched DEF Advances

\* The runs are as they were, and so are the answers and the cache.
LEMMA OutsideUntouched ==
  ASSUME IInv, Keeps, UNCHANGED <<runVars, answers, since, cacheVars>>
  PROVE  /\ Reading' /\ StaleTypesWereBeingRead' /\ MoreTypes'
         /\ \A w \in Writes : stage'[<<w, Primary>>] = "ok" => w \in took'
         /\ \A w \in Writes : answers'[w] = "ok" => w \in took'
<1>. USE DEF IInv
<1>1. Reading' /\ StaleTypesWereBeingRead' /\ MoreTypes'
  BY CacheUntouched DEF runVars, cacheVars, MoreTypes
<1>. QED  BY <1>1 DEF Executed, Keeps, runVars

LEMMA Unexecuting ==
  ASSUME TypeOK, Unexecuted
  PROVE  Keeps
BY DEF TypeOK, Unexecuted, Keeps

LEMMA SidecarTakesKeeps ==
  ASSUME IInv, NEW r \in Runs, SidecarTakes(r)
  PROVE  IInv'
<1>. USE DEF IInv
<1>1. UNCHANGED <<runVars, buffer, result, clusterVars, answers, since, cacheVars>>
  BY DEF SidecarTakes
<1>2. inside = {} /\ inside' = {r} /\ queue' = queue \ {r} /\ out' = r
  BY DEF SidecarTakes, EntersLock
<1>3. Keeps
  BY <1>1, Unexecuting DEF clusterVars, Unexecuted
<1>4. TypeOK'
  BY <1>1, <1>2 DEF TypeOK, runVars, clusterVars, cacheVars
<1>5. Executed'
  BY <1>1, <1>3, OutsideUntouched DEF Executed, Keeps
<1>6. OwnOutput'
  BY <1>1, <1>2 DEF OwnOutput
<1>. QED  BY <1>1, <1>3, <1>4, <1>5, <1>6, OutsideUntouched

LEMMA SidecarExecutesKeeps ==
  ASSUME IInv, NEW r \in Runs, SidecarExecutes(r)
  PROVE  IInv'
<1>. USE DEF IInv
<1>1. /\ UNCHANGED <<runVars, answers, since, cacheVars>>
      /\ UNCHANGED <<inside, queue, out, late, lost>>
  BY DEF SidecarExecutes
<1>2. r \in inside /\ result[r] = "none" /\ out = r /\ buffer[r] = {}
  BY DEF SidecarExecutes, OwnOutput
<1>3. buffer' = [buffer EXCEPT ![r] = {r}]
  BY <1>2 DEF SidecarExecutes, TypeOK
<1>4. PICK how \in {"done", "text", "thrown"} :
        /\ result' = [result EXCEPT ![r] = how]
        /\ Keeps /\ (how = "done" /\ r[2] = Primary => r[1] \in took')
  <2>1. CASE Unexecuted /\ Ends(r, {"text", "thrown"})
    BY <2>1, Unexecuting DEF Ends
  <2>2. CASE Executes(r, IF Waits(r) THEN "own" ELSE "late") /\ Ends(r, {"done", "text", "thrown"})
    <3>1. Keeps /\ (r[2] = Primary => r[1] \in took')
      BY <2>2, Executing DEF Executes
    <3>. QED  BY <2>2, <3>1 DEF Ends
  <2>. QED  BY <2>1, <2>2 DEF SidecarExecutes
<1>5. TypeOK'
  BY <1>1, <1>3, <1>4 DEF TypeOK, runVars, cacheVars, Keeps
<1>6. Executed'
  <2>1. ASSUME NEW s \in Runs, result'[s] = "done", s[2] = Primary  PROVE s[1] \in took'
    BY <2>1, <1>4 DEF Executed, TypeOK, Keeps
  <2>. QED  BY <2>1, <1>1, <1>4, OutsideUntouched DEF Executed
<1>7. OwnOutput'
  BY <1>1, <1>2, <1>3, <1>4 DEF OwnOutput, TypeOK
<1>. QED  BY <1>1, <1>4, <1>5, <1>6, <1>7, OutsideUntouched

LEMMA ExecutesLateKeeps ==
  ASSUME IInv, NEW r \in Runs, ExecutesLate(r)
  PROVE  IInv'
<1>. USE DEF IInv
<1>1. /\ UNCHANGED <<runVars, answers, since, cacheVars>>
      /\ UNCHANGED <<inside, queue, out, buffer, result>> /\ UNCHANGED lost
      /\ late' = late \ {r}
  BY DEF ExecutesLate, sidecarVars
<1>2. Keeps
  BY Executing DEF ExecutesLate, Executes
<1>3. TypeOK'
  BY <1>1, <1>2 DEF TypeOK, runVars, cacheVars, Keeps
<1>4. Executed'
  BY <1>1, <1>2, OutsideUntouched DEF Executed, Keeps
<1>. QED  BY <1>1, <1>2, <1>3, <1>4, OutsideUntouched, SidecarUntouched

LEMMA SidecarAnswersKeeps ==
  ASSUME IInv, NEW r \in Runs, SidecarAnswers(r)
  PROVE  IInv'
<1>. USE DEF IInv
<1>1. /\ UNCHANGED <<queue, late, lost, took, value>>
      /\ UNCHANGED <<answers, since, entry, loading>>
      /\ r \in inside /\ inside' = inside \ {r} /\ out' = None
      /\ result' = [result EXCEPT ![r] = "none"] /\ buffer' = [buffer EXCEPT ![r] = {}]
  BY DEF SidecarAnswers, cacheVars
<1>2. PICK how \in {"ok", "failed"} :
        /\ Advances(r, how) /\ (how = "ok" /\ r[2] = Primary => r[1] \in took)
        /\ asked' \in [Runs -> BOOLEAN] /\ surplus' \in [Writes -> Int]
  <2>1. CASE ~Waits(r)
    BY <2>1 DEF SidecarAnswers, TypeOK, MoreTypes, Advances, runVars
  <2>2. CASE Waits(r) /\ result[r] = "thrown"
    <3>1. FallsBack(r) /\ Counts(r, -1) /\ asked' = [asked EXCEPT ![r] = FALSE]
      BY <2>2 DEF SidecarAnswers, AdminSidecarClientRun
    <3>2. Advances(r, "failed") /\ surplus' \in [Writes -> Int]
      BY <3>1, FallsBackAdvances, Counting
    <3>. QED  BY <3>1, <3>2 DEF TypeOK
  <2>3. CASE Waits(r) /\ result[r] # "thrown"
    <3>1. EndsAs(r, validateMQAdminOutput(result[r])) /\ UNCHANGED surplus
      BY <2>3 DEF SidecarAnswers, AdminSidecarClientRun
    <3>2. asked' \in [Runs -> BOOLEAN]
      BY <2>3 DEF SidecarAnswers, TypeOK
    <3>3. CASE result[r] = "done"
      <4>1. r[2] = Primary => r[1] \in took
        BY <3>3 DEF Executed
      <4>2. EndsAs(r, "ok")
        BY <3>1, <3>3 DEF validateMQAdminOutput
      <4>. QED  BY <3>1, <3>2, <4>1, <4>2, EndsAdvance DEF TypeOK
    <3>4. CASE result[r] # "done"
      <4>1. EndsAs(r, "failed")
        BY <3>1, <3>4 DEF validateMQAdminOutput
      <4>. QED  BY <3>1, <3>2, <4>1, EndsAdvance DEF TypeOK
    <3>. QED  BY <3>3, <3>4
  <2>. QED  BY <2>1, <2>2, <2>3
<1>3. TypeOK'
  BY <1>1, <1>2 DEF TypeOK, Advances
<1>4. Executed'
  <2>1. ASSUME NEW w \in Writes, stage'[<<w, Primary>>] = "ok"  PROVE w \in took'
    BY <2>1, <1>1, <1>2, RunParts DEF Executed, Advances
  <2>2. ASSUME NEW s \in Runs, result'[s] = "done", s[2] = Primary  PROVE s[1] \in took'
    BY <2>2, <1>1 DEF Executed, TypeOK
  <2>. QED  BY <2>1, <2>2, <1>1 DEF Executed
<1>5. OwnOutput'
  BY <1>1 DEF OwnOutput, TypeOK
<1>. QED  BY <1>1, <1>2, <1>3, <1>4, <1>5, CacheUntouched DEF Advances

\* A run begins: that of a request, or of a shadow of it.
LEMMA BeginningKeeps ==
  ASSUME IInv, NEW r \in Runs, stage' = [stage EXCEPT ![r] = "running"],
         since' \in [Writes -> SUBSET Writes],
         UNCHANGED <<at, asked, sidecarVars, clusterVars, answers, cacheVars>>
  PROVE  IInv'
<1>. USE DEF IInv
<1>1. TypeOK'
  BY DEF TypeOK, sidecarVars, clusterVars
<1>2. Executed'
  BY RunParts DEF Executed, sidecarVars, clusterVars, TypeOK
<1>. QED  BY <1>1, <1>2, CacheUntouched, SidecarUntouched DEF sidecarVars, cacheVars, MoreTypes

LEMMA BeginsKeeps ==
  ASSUME IInv, NEW w \in Writes, Begins(w)
  PROVE  IInv'
<1>1. since' \in [Writes -> SUBSET Writes]
  BY DEF Begins, IInv, TypeOK, Answered
<1>. QED  BY <1>1, BeginningKeeps, RunParts DEF Begins

LEMMA ShadowsKeeps ==
  ASSUME IInv, NEW w \in Writes, Shadows(w)
  PROVE  IInv'
<1>1. since' \in [Writes -> SUBSET Writes]
  BY DEF Shadows, IInv, TypeOK
<1>2. PICK t \in ShadowTargets : stage' = [stage EXCEPT ![<<w, t>>] = "running"]
  BY DEF Shadows
<1>. QED  BY <1>1, <1>2, BeginningKeeps, RunParts DEF Shadows

\* A success clears the cache, so no entry misses it; a failure is not to be missed.
LEMMA ReturnsKeeps ==
  ASSUME IInv, NEW w \in Writes, Returns(w)
  PROVE  IInv'
<1>. USE DEF IInv
<1>1. /\ UNCHANGED <<runVars, sidecarVars, clusterVars, since, loading>>
      /\ answers' = [answers EXCEPT ![w] = stage[<<w, Primary>>]]
      /\ stage[<<w, Primary>>] \in {"ok", "failed"} /\ answers[w] = "none"
  BY DEF Returns
<1>2. TypeOK'
  BY <1>1 DEF TypeOK, runVars, sidecarVars, clusterVars
<1>3. Executed'
  BY <1>1 DEF Executed, TypeOK, runVars, sidecarVars, clusterVars
<1>4. Done \subseteq Done'
  BY <1>1 DEF Done, TypeOK
<1>5. Reading' /\ MoreTypes'
  BY <1>1, <1>4 DEF Reading, MoreTypes, runVars
<1>6. StaleTypesWereBeingRead'
  <2>1. CASE stage[<<w, Primary>>] = "ok"
    BY <2>1 DEF Returns, clearTopicMessageTypeCache, StaleTypesWereBeingRead
  <2>2. CASE stage[<<w, Primary>>] # "ok"
    <3>1. entry' = entry /\ Done' = Done
      BY <1>1, <2>2 DEF Returns, Done, TypeOK
    <3>. QED  BY <3>1 DEF StaleTypesWereBeingRead
  <2>. QED  BY <2>1, <2>2
<1>. QED  BY <1>1, <1>2, <1>3, <1>5, <1>6, SidecarUntouched DEF sidecarVars

-----------------------------------------------------------------------------
(* The cache of the topic types *)

LEMMA CacheAlone ==
  ASSUME IInv, UNCHANGED <<runVars, sidecarVars, clusterVars, answers, since>>
  PROVE  TypeOK' /\ Executed' /\ OwnOutput' /\ Done' = Done /\ at' = at
<1>. USE DEF IInv, runVars, sidecarVars, clusterVars
<1>1. TypeOK'
  BY DEF TypeOK
<1>. QED  BY <1>1, SidecarUntouched DEF Executed, Done

LEMMA LooksUpKeeps ==
  ASSUME IInv, NEW l \in Loads, LooksUp(l)
  PROVE  IInv'
<1>1. loading' = [loading EXCEPT ![l] = [begun |-> Done, types |-> None]] /\ entry' = entry
  BY DEF LooksUp
<1>2. TypeOK' /\ Executed' /\ OwnOutput' /\ Done' = Done /\ at' = at
  BY CacheAlone DEF LooksUp
<1>3. MoreTypes'
  BY <1>1, <1>2 DEF IInv, MoreTypes, Done
<1>4. Reading' /\ StaleTypesWereBeingRead'
  BY <1>1, <1>2 DEF IInv, MoreTypes, Reading, StaleTypesWereBeingRead
<1>. QED  BY <1>2, <1>3, <1>4 DEF IInv

\* What was answered with success before has been executed when the types are read.
LEMMA ReadsTypesKeeps ==
  ASSUME IInv, NEW l \in Loads, ReadsTypes(l)
  PROVE  IInv'
<1>1. TypeOK' /\ Executed' /\ OwnOutput' /\ Done' = Done /\ at' = at /\ entry' = entry
  BY CacheAlone DEF ReadsTypes
<1>2. loading[l].begun \subseteq took /\ took \subseteq Writes /\ loading[l] # None
  BY DEF IInv, TypeOK, ReadsTypes, Reading, Executed, Done
<1>3. loading[l] \in [begun : SUBSET Writes, types : (SUBSET Writes) \cup {None}]
  BY <1>2 DEF IInv, MoreTypes
<1>4. CASE loading' = [loading EXCEPT ![l].types = took]
  <2>1. /\ loading'[l] = [loading[l] EXCEPT !.types = took]
        /\ \A m \in Loads \ {l} : loading'[m] = loading[m]
    BY <1>4 DEF IInv, MoreTypes
  <2>2. loading'[l].begun = loading[l].begun /\ loading'[l].types = took
    BY <1>3, <2>1
  <2>3. MoreTypes'
    BY <1>1, <1>2, <1>3, <1>4 DEF IInv, MoreTypes
  <2>4. Reading'
    BY <1>1, <1>2, <2>1, <2>2 DEF IInv, Reading
  <2>. QED  BY <1>1, <2>3, <2>4 DEF IInv, StaleTypesWereBeingRead
<1>5. CASE loading' = [loading EXCEPT ![l] = None]
  BY <1>1, <1>5 DEF IInv, MoreTypes, Reading, StaleTypesWereBeingRead
<1>. QED  BY <1>4, <1>5 DEF ReadsTypes

LEMMA StoresTypesKeeps ==
  ASSUME IInv, NEW l \in Loads, StoresTypes(l)
  PROVE  IInv'
<1>1. TypeOK' /\ Executed' /\ OwnOutput' /\ Done' = Done /\ at' = at
  BY CacheAlone DEF StoresTypes
<1>2. /\ entry' = [types |-> loading[l].types, meanwhile |-> Done \ loading[l].begun]
      /\ loading' = [loading EXCEPT ![l] = None]
      /\ loading[l].begun \subseteq loading[l].types
  BY DEF IInv, StoresTypes, Reading
<1>3. MoreTypes' /\ Reading'
  BY <1>1, <1>2 DEF IInv, MoreTypes, Reading
<1>4. StaleTypesWereBeingRead'
  BY <1>1, <1>2 DEF StaleTypesWereBeingRead
<1>. QED  BY <1>1, <1>3, <1>4 DEF IInv

LEMMA ExpiresKeeps ==
  ASSUME IInv, Expires
  PROVE  IInv'
<1>1. TypeOK' /\ Executed' /\ OwnOutput' /\ Done' = Done /\ at' = at
  BY CacheAlone DEF Expires
<1>. QED  BY <1>1 DEF IInv, Expires, MoreTypes, Reading, StaleTypesWereBeingRead

-----------------------------------------------------------------------------
(* The theorems *)

LEMMA Inductive ==
  ASSUME IInv, [Next]_vars
  PROVE  IInv'
<1>1. ASSUME NEW r \in Runs, Proceeds(r)  PROVE IInv'
  BY <1>1, RunsDirectlyKeeps, AsksSidecarKeeps, SidecarTimesOutKeeps DEF Proceeds
<1>2. ASSUME NEW r \in Runs, Sidecar(r)  PROVE IInv'
  BY <1>2, SidecarTakesKeeps, SidecarExecutesKeeps, SidecarAnswersKeeps DEF Sidecar
<1>3. ASSUME NEW r \in Runs, ExecutesLate(r)  PROVE IInv'
  BY <1>3, ExecutesLateKeeps
<1>4. ASSUME NEW w \in Writes, Request(w)  PROVE IInv'
  BY <1>4, BeginsKeeps, ReturnsKeeps, ShadowsKeeps DEF Request
<1>5. ASSUME NEW l \in Loads, Load(l)  PROVE IInv'
  BY <1>5, LooksUpKeeps, ReadsTypesKeeps, StoresTypesKeeps DEF Load
<1>6. CASE Expires
  BY <1>6, ExpiresKeeps
<1>7. CASE UNCHANGED vars
  <2>1. UNCHANGED <<runVars, sidecarVars, clusterVars, answers, since>> /\ UNCHANGED <<entry, loading>>
    BY <1>7 DEF vars, cacheVars
  <2>2. TypeOK' /\ Executed' /\ OwnOutput' /\ at' = at
    BY <2>1, CacheAlone
  <2>. QED  BY <2>1, <2>2, CacheUntouched DEF IInv, MoreTypes
<1>. QED  BY <1>1, <1>2, <1>3, <1>4, <1>5, <1>6, <1>7 DEF Next

LEMMA Invariance == Spec => []IInv
<1>1. Init => IInv
  BY InitHolds
<1>2. IInv /\ [Next]_vars => IInv'
  BY Inductive
<1>. QED  BY <1>1, <1>2, PTL DEF Spec

\* Whatever the transports are and however many shadows there are: a command that is
\* answered with success was executed by a run of its own.
THEOREM AnsweredWasExecuted == Spec => []AnsweredWritesWereExecuted
<1>1. IInv => AnsweredWritesWereExecuted
  BY DEF IInv, Executed, Done, AnsweredWritesWereExecuted
<1>. QED  BY <1>1, Invariance, PTL

\* However many loads there are: cached topic types miss an answered write only when
\* they were being read while it was answered.
THEOREM StaleTypesAreInFlight == Spec => []StaleTypesWereBeingRead
<1>1. IInv => StaleTypesWereBeingRead
  BY DEF IInv
<1>. QED  BY <1>1, Invariance, PTL

\* However many commands wait for the sidecar: the output of one never holds what
\* another one printed.
THEOREM OutputsAreOwn == Spec => []SidecarOutputsAreOwn
<1>1. IInv => SidecarOutputsAreOwn
  BY DEF IInv, OwnOutput, SidecarOutputsAreOwn
<1>. QED  BY <1>1, Invariance, PTL

-----------------------------------------------------------------------------
(* Who may still execute a write: its own run, or what it has left behind *)

Late(r) == IF r \in late THEN 1 ELSE 0
Queued(r) == IF r \in queue THEN 1 ELSE 0
Pending(r) == IF r \in inside /\ result[r] = "none" THEN 1 ELSE 0
Free(r) == IF stage[r] = "idle" \/ (stage[r] = "running" /\ ~asked[r]) THEN 1 ELSE 0

\* A run waits for the sidecar where its chain is at the sidecar, and nowhere else.
Asking == \A r \in Runs : asked[r] => At(r, "sidecar")

\* The executions, less the attempts in doubt, and those to come.
Claims(w) == surplus[w] + Late(<<w, Primary>>) + Queued(<<w, Primary>>)
             + Pending(<<w, Primary>>) + Free(<<w, Primary>>)

RInv == IInv /\ Asking /\ \A w \in Writes : Claims(w) <= 1

LEMMA CountsFor ==
  ASSUME TypeOK, NEW r \in Runs, NEW n \in Int, Counts(r, n), NEW w \in Writes
  PROVE  /\ r = <<w, Primary>> => surplus'[w] = surplus[w] + n
         /\ r # <<w, Primary>> => surplus'[w] = surplus[w]
BY RunParts DEF TypeOK, Counts

\* An end or a change of transport is about one run, which is not idle afterwards.
Moves(r) ==
  /\ \A s \in Runs \ {r} : stage'[s] = stage[s] /\ at'[s] = at[s]
  /\ stage'[r] \in {"running", "ok", "failed", "ended"}

LEMMA EndsMoves ==
  ASSUME TypeOK, MoreTypes, NEW r \in Runs, NEW how \in {"ok", "failed"}, EndsAs(r, how)
  PROVE  Moves(r) /\ stage'[r] # "running"
BY DEF TypeOK, MoreTypes, EndsAs, Moves

LEMMA FallsBackMoves ==
  ASSUME TypeOK, MoreTypes, NEW r \in Runs, FallsBack(r), stage[r] = "running"
  PROVE  Moves(r)
<1>1. CASE at[r] < Len(chain(r))
  <2>1. at' = [at EXCEPT ![r] = @ + 1] /\ stage' = stage
    BY <1>1 DEF FallsBack
  <2>. QED  BY <2>1 DEF TypeOK, MoreTypes, Moves
<1>2. CASE ~(at[r] < Len(chain(r)))
  BY <1>2, EndsMoves DEF FallsBack
<1>. QED  BY <1>1, <1>2

\* A step after which its run does not wait keeps what is asked where it was.
LEMMA AskingKept ==
  ASSUME Asking, TypeOK, NEW r \in Runs, Moves(r), asked' \in [Runs -> BOOLEAN], ~asked'[r],
         \A s \in Runs \ {r} : asked'[s] = asked[s]
  PROVE  Asking'
BY DEF Asking, At, here, Moves, TypeOK

LEMMA Numbers ==
  ASSUME TypeOK, NEW w \in Writes
  PROVE  /\ surplus[w] \in Int
         /\ Late(<<w, Primary>>) \in {0, 1} /\ Queued(<<w, Primary>>) \in {0, 1}
         /\ Pending(<<w, Primary>>) \in {0, 1} /\ Free(<<w, Primary>>) \in {0, 1}
BY DEF TypeOK, Late, Queued, Pending, Free

LEMMA ClaimsAreNumbers ==
  ASSUME TypeOK
  PROVE  \A w \in Writes : Claims(w) \in Int
BY Numbers DEF Claims

LEMMA RunsDirectlyClaims ==
  ASSUME RInv, NEW r \in Runs, RunsDirectly(r)
  PROVE  Asking' /\ \A w \in Writes : Claims(w)' <= 1
<1>. USE DEF RInv, IInv
<1>1. UNCHANGED <<asked, inside, queue, result>>
  BY DEF RunsDirectly, sidecarVars
<1>2. stage[r] = "running" /\ ~asked[r]
  BY DEF RunsDirectly, Asking, At, TypeOK
<1>3. Moves(r)
  BY <1>2, EndsMoves, FallsBackMoves DEF RunsDirectly
<1>4. Asking'
  BY <1>1, <1>2, <1>3, AskingKept DEF TypeOK
<1>5. ASSUME NEW w \in Writes, r # <<w, Primary>>  PROVE Claims(w)' <= 1
  <2>1. surplus'[w] = surplus[w]
    BY <1>5, CountsFor DEF RunsDirectly, Executes, ExecutesFor, FailsInDoubt, GaveUp
  <2>2. <<w, Primary>> \in late' <=> <<w, Primary>> \in late
    BY <1>5 DEF RunsDirectly, GaveUp
  <2>3. stage'[<<w, Primary>>] = stage[<<w, Primary>>]
    BY <1>3, <1>5, RunParts DEF Moves
  <2>. QED  BY <1>1, <2>1, <2>2, <2>3 DEF Claims, Late, Queued, Pending, Free
<1>6. ASSUME NEW w \in Writes, r = <<w, Primary>>  PROVE Claims(w)' <= 1
  <2>1. Free(r) = 1 /\ Queued(r)' = Queued(r) /\ Pending(r)' = Pending(r)
    BY <1>1, <1>2 DEF Free, Queued, Pending
  <2>2. Free(r)' \in {0, 1} /\ Late(r)' \in {0, 1}
    BY DEF Free, Late
  <2>3. surplus'[w] + Late(r)' + Free(r)' <= surplus[w] + Late(r) + Free(r)
    <3>1. CASE Executes(r, "own") /\ EndsAs(r, "ok") /\ UNCHANGED <<late, lost>>
      <4>1. surplus'[w] = surplus[w] + 1
        BY <3>1, <1>6, CountsFor DEF Executes, ExecutesFor
      <4>2. Free(r)' = 0 /\ Late(r)' = Late(r)
        BY <3>1 DEF EndsAs, Free, Late, TypeOK
      <4>. QED  BY <2>1, <4>1, <4>2, <1>6, Numbers
    <3>2. CASE FailsInDoubt(r) /\ FallsBack(r) /\ UNCHANGED <<late, lost>>
      <4>1. surplus'[w] \in {surplus[w], surplus[w] - 1}
        <5>1. CASE ExecutesFor(r, "own", 0)
          BY <5>1, <1>6, CountsFor, Numbers DEF ExecutesFor
        <5>2. CASE Counts(r, -1)
          BY <5>2, <1>6, CountsFor, Numbers
        <5>. QED  BY <3>2, <5>1, <5>2 DEF FailsInDoubt
      <4>2. Late(r)' = Late(r)
        BY <3>2 DEF Late
      <4>. QED  BY <2>1, <2>2, <4>1, <4>2, <1>6, Numbers
    <3>3. CASE GaveUp(r) /\ FallsBack(r)
      <4>1. surplus'[w] = surplus[w] - 1
        BY <3>3, <1>6, CountsFor, Numbers DEF GaveUp
      <4>. QED  BY <2>1, <2>2, <4>1, <1>6, Numbers
    <3>. QED  BY <3>1, <3>2, <3>3 DEF RunsDirectly
  <2>4. surplus'[w] \in Int
    BY <1>6, RunsDirectlyKeeps DEF TypeOK
  <2>. QED  BY <1>6, <2>1, <2>2, <2>3, <2>4, Numbers DEF Claims
<1>. QED  BY <1>4, <1>5, <1>6

LEMMA AsksSidecarClaims ==
  ASSUME RInv, NEW r \in Runs, AsksSidecar(r)
  PROVE  Asking' /\ \A w \in Writes : Claims(w)' <= 1
<1>. USE DEF RInv, IInv
<1>1. UNCHANGED <<inside, result, late, surplus>> /\ stage[r] = "running" /\ ~asked[r]
  BY DEF AsksSidecar, clusterVars, At
<1>2. CASE FallsBack(r) /\ UNCHANGED <<asked, queue>>
  <2>1. Moves(r)
    BY <1>1, <1>2, FallsBackMoves
  <2>2. Asking'
    BY <1>1, <1>2, <2>1, AskingKept DEF TypeOK
  <2>3. ASSUME NEW w \in Writes  PROVE Claims(w)' <= 1
    <3>1. Free(<<w, Primary>>)' <= Free(<<w, Primary>>)
      BY <1>1, <1>2, <2>1, RunParts DEF Free, Moves
    <3>2. Free(<<w, Primary>>)' \in {0, 1}
      BY DEF Free
    <3>. QED  BY <1>1, <1>2, <3>1, <3>2, Numbers DEF Claims, Late, Queued, Pending
  <2>. QED  BY <2>2, <2>3
<1>3. CASE asked' = [asked EXCEPT ![r] = TRUE] /\ queue' = queue \cup {r} /\ UNCHANGED <<stage, at>>
  <2>1. Asking'
    BY <1>3 DEF Asking, AsksSidecar, At, here, TypeOK
  <2>2. ASSUME NEW w \in Writes  PROVE Claims(w)' <= 1
    <3>1. CASE r = <<w, Primary>>
      <4>1. Free(r) = 1 /\ Free(r)' = 0 /\ Queued(r)' = 1
        BY <1>1, <1>3 DEF Free, Queued, TypeOK
      <4>. QED  BY <1>1, <3>1, <4>1, Numbers DEF Claims, Late, Pending
    <3>2. CASE r # <<w, Primary>>
      BY <1>1, <1>3, <3>2, RunParts, ClaimsAreNumbers
         DEF Claims, Late, Queued, Pending, Free, TypeOK
    <3>. QED  BY <3>1, <3>2
  <2>. QED  BY <2>1, <2>2
<1>. QED  BY <1>2, <1>3 DEF AsksSidecar

LEMMA SidecarTimesOutClaims ==
  ASSUME RInv, NEW r \in Runs, SidecarTimesOut(r)
  PROVE  Asking' /\ \A w \in Writes : Claims(w)' <= 1
<1>. USE DEF RInv, IInv
<1>1. /\ UNCHANGED <<inside, queue, result, late>> /\ Counts(r, -1) /\ FallsBack(r)
      /\ stage[r] = "running" /\ asked[r] /\ asked' = [asked EXCEPT ![r] = FALSE]
  BY DEF SidecarTimesOut, sidecarVars, At
<1>2. Moves(r)
  BY <1>1, FallsBackMoves
<1>3. Asking'
  BY <1>1, <1>2, AskingKept DEF TypeOK
<1>4. ASSUME NEW w \in Writes  PROVE Claims(w)' <= 1
  <2>1. Free(<<w, Primary>>)' \in {0, 1} /\ Late(<<w, Primary>>)' = Late(<<w, Primary>>)
    BY <1>1 DEF Free, Late
  <2>2. CASE r = <<w, Primary>>
    BY <1>1, <2>1, <2>2, CountsFor, Numbers DEF Claims, Queued, Pending
  <2>3. CASE r # <<w, Primary>>
    <3>1. surplus'[w] = surplus[w]
      BY <1>1, <2>3, CountsFor
    <3>2. Free(<<w, Primary>>)' = Free(<<w, Primary>>)
      BY <1>1, <1>2, <2>3, RunParts DEF Free, Moves, TypeOK
    <3>. QED  BY <1>1, <2>1, <3>1, <3>2, Numbers DEF Claims, Queued, Pending
  <2>. QED  BY <2>2, <2>3
<1>. QED  BY <1>3, <1>4

LEMMA SidecarTakesClaims ==
  ASSUME RInv, NEW r \in Runs, SidecarTakes(r)
  PROVE  Asking' /\ \A w \in Writes : Claims(w)' <= 1
<1>. USE DEF RInv, IInv
<1>1. /\ UNCHANGED <<stage, at, asked, result, late, surplus>>
      /\ r \in queue /\ inside = {} /\ inside' = {r} /\ queue' = queue \ {r}
  BY DEF SidecarTakes, EntersLock, runVars, clusterVars
<1>2. Asking'
  BY <1>1 DEF Asking, At, here
<1>3. ASSUME NEW w \in Writes  PROVE Claims(w)' <= 1
  <2>. DEFINE p == <<w, Primary>>
  <2>1. Free(p)' = Free(p) /\ Late(p)' = Late(p)
    BY <1>1 DEF Free, Late
  <2>2. Queued(p)' + Pending(p)' <= Queued(p) + Pending(p)
    <3>1. CASE r = p
      BY <1>1, <3>1 DEF Queued, Pending
    <3>2. CASE r # p
      BY <1>1, <3>2 DEF Queued, Pending
    <3>. QED  BY <3>1, <3>2
  <2>3. Queued(p)' \in {0, 1} /\ Pending(p)' \in {0, 1}
    BY DEF Queued, Pending
  <2>. QED  BY <1>1, <2>1, <2>2, <2>3, Numbers DEF Claims
<1>. QED  BY <1>2, <1>3

LEMMA SidecarExecutesClaims ==
  ASSUME RInv, NEW r \in Runs, SidecarExecutes(r)
  PROVE  Asking' /\ \A w \in Writes : Claims(w)' <= 1
<1>. USE DEF RInv, IInv
<1>1. /\ UNCHANGED <<stage, at, asked, inside, queue, late>>
      /\ r \in inside /\ result[r] = "none"
  BY DEF SidecarExecutes, runVars
<1>2. PICK how \in {"done", "text", "thrown"} : result' = [result EXCEPT ![r] = how]
  BY DEF SidecarExecutes, Ends
<1>3. Asking'
  BY <1>1 DEF Asking, At, here
<1>4. Unexecuted \/ Counts(r, 1)
  BY DEF SidecarExecutes, Executes, ExecutesFor
<1>5. ASSUME NEW w \in Writes  PROVE Claims(w)' <= 1
  <2>. DEFINE p == <<w, Primary>>
  <2>1. Free(p)' = Free(p) /\ Late(p)' = Late(p) /\ Queued(p)' = Queued(p)
    BY <1>1 DEF Free, Late, Queued
  <2>2. CASE r = p
    <3>1. Pending(p) = 1 /\ Pending(p)' = 0
      BY <1>1, <1>2, <2>2 DEF Pending, TypeOK
    <3>2. surplus'[w] \in {surplus[w], surplus[w] + 1}
      BY <1>4, <2>2, CountsFor DEF Unexecuted
    <3>. QED  BY <2>1, <3>1, <3>2, Numbers DEF Claims
  <2>3. CASE r # p
    <3>1. Pending(p)' = Pending(p)
      BY <1>1, <1>2, <2>3, RunParts DEF Pending, TypeOK
    <3>2. surplus'[w] = surplus[w]
      BY <1>4, <2>3, CountsFor DEF Unexecuted
    <3>. QED  BY <2>1, <3>1, <3>2, Numbers DEF Claims
  <2>. QED  BY <2>2, <2>3
<1>. QED  BY <1>3, <1>5

\* A thrown answer sets the run free, and counts as an attempt in doubt.
LEMMA SidecarAnswersClaims ==
  ASSUME RInv, NEW r \in Runs, SidecarAnswers(r)
  PROVE  Asking' /\ \A w \in Writes : Claims(w)' <= 1
<1>. USE DEF RInv, IInv
<1>1. /\ UNCHANGED <<queue, late>> /\ inside' = inside \ {r} /\ result[r] # "none"
      /\ result' = [result EXCEPT ![r] = "none"]
  BY DEF SidecarAnswers
<1>2. ASSUME NEW w \in Writes
      PROVE  /\ Late(<<w, Primary>>)' = Late(<<w, Primary>>)
             /\ Queued(<<w, Primary>>)' = Queued(<<w, Primary>>)
             /\ Pending(<<w, Primary>>)' = Pending(<<w, Primary>>)
  BY <1>1, RunParts DEF Late, Queued, Pending, TypeOK
<1>3. CASE ~Waits(r)
  <2>1. UNCHANGED <<stage, at, asked, surplus>>
    BY <1>3 DEF SidecarAnswers, runVars
  <2>2. ASSUME NEW w \in Writes  PROVE Free(<<w, Primary>>)' = Free(<<w, Primary>>)
    BY <2>1 DEF Free
  <2>3. Asking'
    BY <2>1 DEF Asking, At, here
  <2>. QED  BY <1>2, <2>1, <2>2, <2>3, Numbers DEF Claims
<1>4. CASE Waits(r)
  <2>1. asked' = [asked EXCEPT ![r] = FALSE] /\ asked[r] /\ stage[r] = "running"
    BY <1>4 DEF SidecarAnswers, Waits, At
  <2>2. \/ FallsBack(r) /\ Counts(r, -1)
        \/ EndsAs(r, validateMQAdminOutput(result[r])) /\ UNCHANGED surplus
    BY <1>4 DEF SidecarAnswers, AdminSidecarClientRun
  <2>3. validateMQAdminOutput(result[r]) \in {"ok", "failed"}
    BY DEF validateMQAdminOutput
  <2>4. Moves(r)
    BY <2>1, <2>2, <2>3, FallsBackMoves, EndsMoves
  <2>5. Asking'
    BY <2>1, <2>4, AskingKept DEF TypeOK
  <2>6. ASSUME NEW w \in Writes, r # <<w, Primary>>  PROVE Claims(w)' <= 1
    <3>1. Free(<<w, Primary>>)' = Free(<<w, Primary>>)
      BY <2>1, <2>4, <2>6, RunParts DEF Free, Moves, TypeOK
    <3>2. surplus'[w] = surplus[w]
      BY <2>2, <2>6, CountsFor
    <3>. QED  BY <1>2, <3>1, <3>2, Numbers DEF Claims
  <2>7. ASSUME NEW w \in Writes, r = <<w, Primary>>  PROVE Claims(w)' <= 1
    <3>1. Free(r)' \in {0, 1} /\ Free(r) = 0
      BY <2>1 DEF Free
    <3>2. CASE FallsBack(r) /\ Counts(r, -1)
      BY <1>2, <2>7, <3>1, <3>2, CountsFor, Numbers DEF Claims
    <3>3. CASE EndsAs(r, validateMQAdminOutput(result[r])) /\ UNCHANGED surplus
      <4>1. Free(r)' = 0
        BY <2>3, <3>3 DEF EndsAs, Free, TypeOK
      <4>. QED  BY <1>2, <2>7, <3>1, <3>3, <4>1, Numbers DEF Claims
    <3>. QED  BY <2>2, <3>2, <3>3
  <2>. QED  BY <2>5, <2>6, <2>7
<1>. QED  BY <1>3, <1>4

LEMMA ExecutesLateClaims ==
  ASSUME RInv, NEW r \in Runs, ExecutesLate(r)
  PROVE  Asking' /\ \A w \in Writes : Claims(w)' <= 1
<1>. USE DEF RInv, IInv
<1>1. /\ UNCHANGED <<stage, at, asked, inside, queue, result>>
      /\ r \in late /\ late' = late \ {r} /\ Counts(r, 1)
  BY DEF ExecutesLate, runVars, sidecarVars, Executes, ExecutesFor
<1>2. Asking'
  BY <1>1 DEF Asking, At, here
<1>3. ASSUME NEW w \in Writes  PROVE Claims(w)' <= 1
  <2>. DEFINE p == <<w, Primary>>
  <2>1. Free(p)' = Free(p) /\ Queued(p)' = Queued(p) /\ Pending(p)' = Pending(p)
    BY <1>1 DEF Free, Queued, Pending
  <2>2. CASE r = p
    <3>1. Late(p) = 1 /\ Late(p)' = 0
      BY <1>1, <2>2 DEF Late
    <3>. QED  BY <1>1, <2>1, <2>2, <3>1, CountsFor, Numbers DEF Claims
  <2>3. CASE r # p
    <3>1. Late(p)' = Late(p)
      BY <1>1, <2>3 DEF Late
    <3>. QED  BY <1>1, <2>1, <2>3, <3>1, CountsFor, Numbers DEF Claims
  <2>. QED  BY <2>2, <2>3
<1>. QED  BY <1>2, <1>3

\* A run that begins was free before.
LEMMA BeginningClaims ==
  ASSUME RInv, NEW r \in Runs, stage[r] = "idle", stage' = [stage EXCEPT ![r] = "running"],
         UNCHANGED <<at, asked, inside, queue, result, late, surplus>>
  PROVE  Asking' /\ \A w \in Writes : Claims(w)' <= 1
<1>. USE DEF RInv, IInv
<1>1. Asking'
  BY DEF Asking, At, here, TypeOK
<1>2. ASSUME NEW w \in Writes  PROVE Claims(w)' <= 1
  <2>1. ~asked[r]
    BY DEF Asking, At
  <2>2. Free(<<w, Primary>>)' = Free(<<w, Primary>>)
    BY <2>1, RunParts DEF Free, TypeOK
  <2>. QED  BY <2>2, Numbers DEF Claims, Late, Queued, Pending
<1>. QED  BY <1>1, <1>2

LEMMA OthersClaims ==
  ASSUME RInv, UNCHANGED <<stage, at, asked, inside, queue, result, late, surplus>>
  PROVE  Asking' /\ \A w \in Writes : Claims(w)' <= 1
BY DEF RInv, Asking, At, here, Claims, Late, Queued, Pending, Free

LEMMA RepeatsInductive ==
  ASSUME RInv, [Next]_vars
  PROVE  RInv'
<1>. USE DEF runVars, sidecarVars, clusterVars
<1>1. IInv'
  BY Inductive DEF RInv
<1>2. ASSUME NEW r \in Runs, Proceeds(r)
      PROVE  Asking' /\ \A w \in Writes : Claims(w)' <= 1
  BY <1>2, RunsDirectlyClaims, AsksSidecarClaims, SidecarTimesOutClaims DEF Proceeds
<1>3. ASSUME NEW r \in Runs, Sidecar(r)
      PROVE  Asking' /\ \A w \in Writes : Claims(w)' <= 1
  BY <1>3, SidecarTakesClaims, SidecarExecutesClaims, SidecarAnswersClaims DEF Sidecar
<1>4. ASSUME NEW r \in Runs, ExecutesLate(r)
      PROVE  Asking' /\ \A w \in Writes : Claims(w)' <= 1
  BY <1>4, ExecutesLateClaims
<1>5. ASSUME NEW w \in Writes, Begins(w)
      PROVE  Asking' /\ \A v \in Writes : Claims(v)' <= 1
  BY <1>5, BeginningClaims, RunParts DEF Begins
<1>6. ASSUME NEW w \in Writes, Shadows(w)
      PROVE  Asking' /\ \A v \in Writes : Claims(v)' <= 1
  <2>1. PICK t \in ShadowTargets :
          stage[<<w, t>>] = "idle" /\ stage' = [stage EXCEPT ![<<w, t>>] = "running"]
    BY <1>6 DEF Shadows
  <2>. QED  BY <1>6, <2>1, BeginningClaims, RunParts DEF Shadows
<1>7. ASSUME NEW w \in Writes, Returns(w)
      PROVE  Asking' /\ \A v \in Writes : Claims(v)' <= 1
  BY <1>7, OthersClaims DEF Returns
<1>8. ASSUME NEW l \in Loads, Load(l)
      PROVE  Asking' /\ \A w \in Writes : Claims(w)' <= 1
  BY <1>8, OthersClaims DEF Load, LooksUp, ReadsTypes, StoresTypes
<1>9. CASE Expires \/ UNCHANGED vars
  <2>1. UNCHANGED <<stage, at, asked, inside, queue, result, late, surplus>>
    BY <1>9 DEF Expires, vars
  <2>. QED  BY <1>1, <2>1, OthersClaims DEF RInv
<1>. QED  BY <1>1, <1>2, <1>3, <1>4, <1>5, <1>6, <1>7, <1>8, <1>9 DEF Next, RInv, Request

LEMMA RepeatsInit ==
  ASSUME Init
  PROVE  RInv
<1>1. Asking
  BY DEF Init, Asking
<1>2. ASSUME NEW w \in Writes  PROVE Claims(w) <= 1
  <2>1. /\ Late(<<w, Primary>>) = 0 /\ Queued(<<w, Primary>>) = 0
        /\ Pending(<<w, Primary>>) = 0 /\ Free(<<w, Primary>>) = 1 /\ surplus[w] = 0
    BY RunParts DEF Init, Late, Queued, Pending, Free
  <2>. QED  BY <2>1 DEF Claims
<1>. QED  BY <1>1, <1>2, InitHolds DEF RInv

LEMMA RepeatsInvariance == Spec => []RInv
<1>1. Init => RInv
  BY RepeatsInit
<1>2. RInv /\ [Next]_vars => RInv'
  BY RepeatsInductive
<1>. QED  BY <1>1, <1>2, PTL DEF Spec

\* However long the chains of transports, however many shadows and callers that give
\* up: run repeats a command only after an attempt that failed or was not answered.
THEOREM RepeatsAreAccountedFor == Spec => []RepeatsHaveACause
<1>1. ASSUME RInv  PROVE RepeatsHaveACause
  <2>1. ASSUME NEW w \in Writes  PROVE surplus[w] <= 1
    <3>1. TypeOK /\ Claims(w) <= 1
      BY <1>1 DEF RInv, IInv
    <3>. QED  BY <3>1, Numbers DEF Claims
  <2>. QED  BY <2>1 DEF RepeatsHaveACause
<1>. QED  BY <1>1, RepeatsInvariance, PTL

-----------------------------------------------------------------------------
(* The order of writes *)

\* What begins late comes after what was answered before; a run that is idle has left
\* nothing behind, and what has been answered has ended.
Order ==
  /\ \A v \in Writes : stage[<<v, Primary>>] = "idle" =>
       v \notin took /\ <<v, Primary>> \notin queue \cup inside \cup late /\ since[v] = {}
  /\ \A w \in Writes : answers[w] # "none" => stage[<<w, Primary>>] \in {"ok", "failed"}
  /\ \A v, w \in Writes : w \in since[v] => answers[w] # "none"
  /\ \A v, w \in Writes : w \in since[v] /\ value = <<w, "own">> => v \notin took

OInv == RInv /\ Order

\* What is executed, or that nothing is, keeps the order.
InOrder ==
  /\ \A v \in Writes : stage[<<v, Primary>>] = "idle" => v \notin took'
  /\ \A v, w \in Writes : w \in since[v] /\ value' = <<w, "own">> => v \notin took'

\* A run that may execute as its own has not been answered, so nothing began after it.
LEMMA OrderOfExecution ==
  ASSUME OInv, NEW r \in Runs, NEW how \in {"own", "late"}, NEW n \in Int,
         ExecutesFor(r, how, n), stage[r] # "idle" \/ r \in queue \cup inside \cup late,
         how = "own" => stage[r] = "running"
  PROVE  InOrder
<1>. USE DEF OInv, RInv, IInv
<1>1. ASSUME NEW v \in Writes, stage[<<v, Primary>>] = "idle"  PROVE v \notin took'
  BY <1>1, RunParts DEF Order, ExecutesFor
<1>2. ASSUME NEW v \in Writes, NEW w \in Writes, w \in since[v], value' = <<w, "own">>
      PROVE  FALSE
  <2>1. r = <<w, Primary>> /\ how = "own"
    BY <1>2, RunParts DEF ExecutesFor
  <2>. QED  BY <1>2, <2>1 DEF Order
<1>. QED  BY <1>1, <1>2 DEF InOrder

LEMMA NothingInOrder ==
  ASSUME OInv, UNCHANGED <<took, value>>
  PROVE  InOrder
BY DEF OInv, Order, InOrder

LEMMA OrderOfRuns ==
  ASSUME OInv, InOrder, NEW r \in Runs,
         stage[r] # "idle" \/ r \in queue \cup inside \cup late,
         (Moves(r) /\ stage[r] = "running") \/ stage' = stage,
         queue' \cup inside' \cup late' \subseteq queue \cup inside \cup late \cup {r},
         UNCHANGED <<answers, since>>
  PROVE  Order'
<1>. USE DEF OInv
<1>1. ASSUME NEW v \in Writes, stage'[<<v, Primary>>] = "idle"
      PROVE  /\ v \notin took' /\ since'[v] = {}
             /\ <<v, Primary>> \notin queue' \cup inside' \cup late'
  <2>1. stage[<<v, Primary>>] = "idle"
    BY <1>1, RunParts DEF Moves
  <2>2. r # <<v, Primary>>
    BY <2>1, <1>1 DEF Order
  <2>. QED  BY <2>1, <2>2 DEF Order, InOrder
<1>2. ASSUME NEW w \in Writes, answers'[w] # "none"
      PROVE  stage'[<<w, Primary>>] \in {"ok", "failed"}
  <2>1. stage[<<w, Primary>>] \in {"ok", "failed"}
    BY <1>2 DEF Order
  <2>. QED  BY <2>1, RunParts DEF Moves
<1>. QED  BY <1>1, <1>2 DEF Order, InOrder

LEMMA RunsDirectlyInOrder ==
  ASSUME OInv, NEW r \in Runs, RunsDirectly(r)
  PROVE  Order'
<1>. USE DEF OInv, RInv, IInv
<1>1. /\ UNCHANGED <<inside, queue, answers, since>> /\ stage[r] = "running"
  BY DEF RunsDirectly, sidecarVars, At
<1>2. Moves(r)
  BY <1>1, EndsMoves, FallsBackMoves DEF RunsDirectly
<1>3. late' \subseteq late \cup {r}
  BY DEF RunsDirectly, GaveUp
<1>4. (\E n \in {0, 1} : ExecutesFor(r, "own", n)) \/ UNCHANGED <<took, value>>
  BY DEF RunsDirectly, Executes, FailsInDoubt, GaveUp
<1>5. InOrder
  BY <1>1, <1>4, OrderOfExecution, NothingInOrder
<1>. QED  BY <1>1, <1>2, <1>3, <1>5, OrderOfRuns

LEMMA AsksSidecarInOrder ==
  ASSUME OInv, NEW r \in Runs, AsksSidecar(r) \/ SidecarTimesOut(r)
  PROVE  Order'
<1>. USE DEF OInv, RInv, IInv
<1>1. /\ UNCHANGED <<inside, late, took, value, answers, since>>
      /\ stage[r] = "running" /\ queue' \subseteq queue \cup {r}
  BY DEF AsksSidecar, SidecarTimesOut, sidecarVars, clusterVars, At
<1>2. Moves(r) \/ stage' = stage
  BY <1>1, FallsBackMoves DEF AsksSidecar, SidecarTimesOut
<1>. QED  BY <1>1, <1>2, NothingInOrder, OrderOfRuns

LEMMA SidecarTakesInOrder ==
  ASSUME OInv, NEW r \in Runs, SidecarTakes(r)
  PROVE  Order'
<1>1. /\ UNCHANGED <<stage, late, took, value, answers, since>>
      /\ r \in queue /\ queue' \subseteq queue /\ inside' = {r}
  BY DEF SidecarTakes, EntersLock, runVars, clusterVars
<1>. QED  BY <1>1, NothingInOrder, OrderOfRuns

LEMMA SidecarExecutesInOrder ==
  ASSUME OInv, NEW r \in Runs, SidecarExecutes(r)
  PROVE  Order'
<1>1. UNCHANGED <<stage, inside, queue, late, answers, since>> /\ r \in inside
  BY DEF SidecarExecutes, runVars
<1>2. Waits(r) => stage[r] = "running"
  BY DEF Waits, At
<1>3. (\E how \in {"own", "late"} : ExecutesFor(r, how, 1) /\ (how = "own" => stage[r] = "running"))
      \/ UNCHANGED <<took, value>>
  BY <1>2 DEF SidecarExecutes, Executes, Unexecuted
<1>4. InOrder
  BY <1>1, <1>3, OrderOfExecution, NothingInOrder
<1>. QED  BY <1>1, <1>4, OrderOfRuns

LEMMA SidecarAnswersInOrder ==
  ASSUME OInv, NEW r \in Runs, SidecarAnswers(r)
  PROVE  Order'
<1>. USE DEF OInv, RInv, IInv
<1>1. /\ UNCHANGED <<queue, late, took, value, answers, since>>
      /\ r \in inside /\ inside' = inside \ {r}
  BY DEF SidecarAnswers
<1>2. (Moves(r) /\ stage[r] = "running") \/ stage' = stage
  <2>1. CASE ~Waits(r)
    BY <2>1 DEF SidecarAnswers, runVars
  <2>2. CASE Waits(r)
    <3>1. stage[r] = "running"
      BY <2>2 DEF Waits, At
    <3>2. FallsBack(r) \/ EndsAs(r, validateMQAdminOutput(result[r]))
      BY <2>2 DEF SidecarAnswers, AdminSidecarClientRun
    <3>3. validateMQAdminOutput(result[r]) \in {"ok", "failed"}
      BY DEF validateMQAdminOutput
    <3>. QED  BY <3>1, <3>2, <3>3, FallsBackMoves, EndsMoves
  <2>. QED  BY <2>1, <2>2
<1>. QED  BY <1>1, <1>2, NothingInOrder, OrderOfRuns

LEMMA ExecutesLateInOrder ==
  ASSUME OInv, NEW r \in Runs, ExecutesLate(r)
  PROVE  Order'
<1>1. /\ UNCHANGED <<stage, inside, queue, answers, since>>
      /\ r \in late /\ late' = late \ {r} /\ ExecutesFor(r, "late", 1)
  BY DEF ExecutesLate, runVars, sidecarVars, Executes
<1>2. InOrder
  BY <1>1, OrderOfExecution
<1>. QED  BY <1>1, <1>2, OrderOfRuns

\* What begins has executed nothing, whatever is answered by then.
LEMMA BeginsInOrder ==
  ASSUME OInv, NEW w \in Writes, Begins(w)
  PROVE  Order'
<1>. USE DEF OInv, RInv, IInv
<1>1. /\ UNCHANGED <<queue, inside, late, took, value, answers>>
      /\ stage[<<w, Primary>>] = "idle" /\ stage' = [stage EXCEPT ![<<w, Primary>>] = "running"]
      /\ since' = [since EXCEPT ![w] = Answered]
  BY DEF Begins, sidecarVars, clusterVars
<1>2. \A v \in Writes : v # w => since'[v] = since[v] /\ stage'[<<v, Primary>>] = stage[<<v, Primary>>]
  BY <1>1, RunParts DEF TypeOK
<1>3. /\ since'[w] = Answered /\ stage'[<<w, Primary>>] = "running"
      /\ w \notin took /\ answers[w] = "none"
  BY <1>1, RunParts DEF TypeOK, Order
<1>4. ASSUME NEW v \in Writes, stage'[<<v, Primary>>] = "idle"
      PROVE  /\ v \notin took' /\ since'[v] = {}
             /\ <<v, Primary>> \notin queue' \cup inside' \cup late'
  BY <1>1, <1>2, <1>3, <1>4 DEF Order
<1>5. ASSUME NEW v \in Writes, answers'[v] # "none"
      PROVE  stage'[<<v, Primary>>] \in {"ok", "failed"}
  BY <1>1, <1>2, <1>3, <1>5 DEF Order
<1>6. ASSUME NEW v \in Writes, NEW u \in Writes, u \in since'[v]
      PROVE  answers'[u] # "none" /\ (value' = <<u, "own">> => v \notin took')
  BY <1>1, <1>2, <1>3, <1>6 DEF Order, Answered
<1>. QED  BY <1>4, <1>5, <1>6 DEF Order

LEMMA ShadowsInOrder ==
  ASSUME OInv, NEW w \in Writes, Shadows(w)
  PROVE  Order'
<1>. USE DEF OInv, RInv, IInv
<1>1. PICK t \in ShadowTargets :
        stage[<<w, t>>] = "idle" /\ stage' = [stage EXCEPT ![<<w, t>>] = "running"]
  BY DEF Shadows
<1>2. UNCHANGED <<queue, inside, late, took, value, answers, since>>
  BY DEF Shadows, sidecarVars, clusterVars
<1>3. stage[<<w, Primary>>] \in {"ok", "failed"}
  BY DEF Shadows
<1>4. \A v \in Writes : stage'[<<v, Primary>>] = stage[<<v, Primary>>]
  BY <1>1, <1>3, RunParts DEF TypeOK
<1>. QED  BY <1>2, <1>4 DEF Order

LEMMA ReturnsInOrder ==
  ASSUME OInv, NEW w \in Writes, Returns(w)
  PROVE  Order'
<1>. USE DEF OInv, RInv, IInv
<1>1. /\ UNCHANGED <<stage, queue, inside, late, took, value, since>>
      /\ stage[<<w, Primary>>] \in {"ok", "failed"}
      /\ answers' = [answers EXCEPT ![w] = stage[<<w, Primary>>]]
  BY DEF Returns, runVars, sidecarVars, clusterVars
<1>2. \A v \in Writes : answers[v] # "none" => answers'[v] # "none"
  BY <1>1 DEF TypeOK
<1>3. \A v \in Writes : answers'[v] # "none" => v = w \/ answers[v] # "none"
  BY <1>1 DEF TypeOK
<1>. QED  BY <1>1, <1>2, <1>3 DEF Order

LEMMA OthersInOrder ==
  ASSUME OInv, UNCHANGED <<stage, queue, inside, late, took, value, answers, since>>
  PROVE  Order'
BY DEF OInv, Order

LEMMA OrderInductive ==
  ASSUME OInv, [Next]_vars
  PROVE  OInv'
<1>1. RInv'
  BY RepeatsInductive DEF OInv
<1>2. ASSUME NEW r \in Runs, Proceeds(r)  PROVE Order'
  BY <1>2, RunsDirectlyInOrder, AsksSidecarInOrder DEF Proceeds
<1>3. ASSUME NEW r \in Runs, Sidecar(r)  PROVE Order'
  BY <1>3, SidecarTakesInOrder, SidecarExecutesInOrder, SidecarAnswersInOrder DEF Sidecar
<1>4. ASSUME NEW r \in Runs, ExecutesLate(r)  PROVE Order'
  BY <1>4, ExecutesLateInOrder
<1>5. ASSUME NEW w \in Writes, Request(w)  PROVE Order'
  BY <1>5, BeginsInOrder, ShadowsInOrder, ReturnsInOrder DEF Request
<1>6. CASE Expires \/ UNCHANGED vars \/ \E l \in Loads : Load(l)
  <2>1. UNCHANGED <<stage, queue, inside, late, took, value, answers, since>>
    BY <1>6 DEF Expires, Load, LooksUp, ReadsTypes, StoresTypes,
                vars, runVars, sidecarVars, clusterVars
  <2>. QED  BY <1>1, <2>1, OthersInOrder DEF OInv
<1>. QED  BY <1>1, <1>2, <1>3, <1>4, <1>5, <1>6 DEF Next, OInv

LEMMA OrderInvariance == Spec => []OInv
<1>1. Init => OInv
  <2>1. ASSUME Init  PROVE Order
    BY <2>1, RunParts DEF Init, Order
  <2>. QED  BY <2>1, RepeatsInit DEF OInv
<1>2. OInv /\ [Next]_vars => OInv'
  BY OrderInductive
<1>. QED  BY <1>1, <1>2, PTL DEF Spec

\* However many writes, shadows and callers that give up: a write that was answered
\* before another one began, which succeeded, comes back by a late request or a shadow only.
THEOREM OrderIsKept == Spec => []OldWritesReturnLate
<1>1. ASSUME OInv  PROVE OldWritesReturnLate
  <2>1. ASSUME NEW v \in Writes, NEW w \in Writes, w \in since[v], v \in Done, value[1] = w
        PROVE  value[2] \in {"late", "shadow"}
    <3>1. v \in took
      BY <1>1, <2>1 DEF OInv, RInv, IInv, Executed, Done
    <3>2. value # <<w, "own">>
      BY <1>1, <2>1, <3>1 DEF OInv, Order
    <3>3. value = <<value[1], value[2]>> /\ value[2] \in {"own", "late", "shadow"}
      BY <1>1 DEF OInv, RInv, IInv, TypeOK
    <3>. QED  BY <2>1, <3>2, <3>3
  <2>. QED  BY <2>1 DEF OldWritesReturnLate
<1>. QED  BY <1>1, OrderInvariance, PTL

-----------------------------------------------------------------------------
(* Shadow batches: the inductive invariant *)

Fields == DOMAIN Baseline
Words == {"absent", "present", "none", "reset", "yes", "no", "6", "given", "baseline", "POP",
          "PULL", "enable", "limited", "Pub"}
FieldValues == [Fields -> Words]
FieldSets == UNION {[D -> Words] : D \in SUBSET Fields}

\* The step of a command's run that is the command.
CommandAt(c) == Len(beforeRun(c)) + 1

\* Step k of a run sets the field x; errs: the kinds of the steps that had no effect.
SetsField(c, k, x, errs) ==
  x \in DOMAIN Run[c][k].set /\ Run[c][k].kind \notin errs

\* What the steps before k make of the baseline: each field as the last step left it that
\* sets it.
IsShown(v, c, k, errs) ==
  /\ v \in FieldValues
  /\ \A x \in Fields :
       \/ v[x] = Baseline[x] /\ \A h \in 1..(k - 1) : ~SetsField(c, h, x, errs)
       \/ \E h \in 1..(k - 1) :
            /\ SetsField(c, h, x, errs) /\ v[x] = Run[c][h].set[x]
            /\ \A g \in (h + 1)..(k - 1) : ~SetsField(c, g, x, errs)

StepKinds == {"before", "command", "artifact", "after", "fallback"}

BatchTypes ==
  /\ batch \in Batches /\ next \in 1..(Len(Samples) + 1)
  /\ doing \in [Workers(batch) -> {0} \cup Jobs]
  /\ place \in [Jobs -> [Providers -> Nat]]
  /\ \A j \in Jobs, p \in Providers : place[j][p] \in 1..(Len(Steps(j)) + 1)
  /\ failed \in [Jobs -> [Providers -> SUBSET StepKinds]]
  /\ start \in [Jobs -> [Providers -> {<<>>} \cup FieldValues]]
  /\ fixtures \in [Fixtures(batch) -> FieldValues]
  /\ file \in [Fixtures(batch) -> {NoOne} \cup Jobs \X Providers]
  /\ read \in [Jobs -> [Providers -> {NoOne} \cup Jobs \X Providers]]

\* A command that got lost was of a sample handed out, and is noted as an error; only
\* such a one is late.
LostOnes ==
  /\ delayed \subseteq strays
  /\ \A l \in strays :
       /\ l[1] \in Jobs /\ l[2] \in Providers /\ l[3] \in 1..Len(Steps(l[1]))
       /\ l[1] < next /\ failed[l[1]][l[2]] # {}

Unstarted(j) == \A p \in Providers : place[j][p] = 1

\* Samples are begun in order and by a worker, and a worker leaves them reported.
TakenInOrder ==
  /\ \A j \in Jobs : ~Unstarted(j) => j < next
  /\ \A j \in Jobs : j < next => Reports(j) \/ \E w \in Workers(batch) : doing[w] = j
  /\ \A w \in Workers(batch) : doing[w] < next
  /\ Workers(batch) = {1} => doing[1] \in {0, next - 1}

\* Providers of a serial sample come one after the other.
InTurns ==
  \A j \in Jobs, p \in Providers :
    Samples[j].serial /\ place[j][p] # 1 => \A q \in Providers : q < p => Ended(j, q)

\* A command that reported an error is over.
Settled ==
  \A j \in Jobs, p \in Providers :
    "command" \in failed[j][p]
    => \A k \in place[j][p]..Len(Steps(j)) : Steps(j)[k].kind = "after"

\* The hooks of the samples on the fixture, up to j, have brought it back.
Clean(j) ==
  /\ NoneLost(j)
  /\ \A i \in Upto(j) :
       /\ Restored(i)
       /\ \A p \in Providers :
            /\ failed[i][p] \subseteq {"command"}
            /\ "command" \in failed[i][p] => Samples[i].command # "deleteAcl"

\* Of all who use the fixture of j, it is p's turn.
HasFixture(j, p) ==
  /\ \A i \in Jobs :
       i # j /\ Fixture(i) = Fixture(j) => IF i < j THEN Reports(i) ELSE Unstarted(i)
  /\ \A q \in Providers : (q < p => Ended(j, q)) /\ (q > p => place[j][q] = 1)

\* The fixture is what the steps of the one whose turn it is have made of the baseline.
ValuesFollow ==
  \A j \in Jobs, p \in Providers :
    Clean(j) /\ HasFixture(j, p)
    => IsShown(fixtures[Fixture(j)], Samples[j].command, place[j][p], failed[j][p])

NoErrors(j) ==
  \A i \in Upto(j) : Restored(i) /\ \A p \in Providers : failed[i][p] = {}

StartsFollow ==
  \A j \in Jobs, p \in Providers :
    NoErrors(j) /\ start[j][p] # <<>>
    => IsShown(start[j][p], Samples[j].command, CommandAt(Samples[j].command), {})

\* Between an export and its comparison the file is its own.
FilesKept ==
  \A j \in Jobs, p \in Providers :
    NoneLost(j) =>
      /\ read[j][p] # NoOne => read[j][p] = <<j, p>>
      /\ ~Ended(j, p) /\ NextStep(j, p).kind = "artifact" => file[Fixture(j)] = <<j, p>>

BatchInv ==
  /\ BatchTypes /\ LostOnes /\ TakenInOrder /\ InTurns /\ Settled
  /\ ValuesFollow /\ StartsFollow /\ FilesKept

\* The commands that have hooks to bring their fixture back.
Hooked ==
  {"wipeWritePerm", "addWritePerm", "updateNamesrvConfig", "updateBrokerConfig",
   "updateColdDataFlowCtrGroupConfig", "removeColdDataFlowCtrGroupConfig", "updateTopic",
   "updateTopicList", "updateTopicPerm", "deleteTopic", "setConsumeMode",
   "resetOffsetByTime", "updateSubGroup", "updateSubGroupList", "deleteSubGroup",
   "updateOrderConf_put", "updateOrderConf_delete", "deleteKvConfig", "createUser",
   "copyUser", "updateUser", "createAcl", "updateAcl", "deleteAcl"}

\* What the hooks do for a command, in order; what the last one sets is the baseline's.
Undone(c) ==
  /\ \A h \in DOMAIN afterRun(c) : \A x \in DOMAIN afterRun(c)[h] :
       afterRun(c)[h][x] = Baseline[x]
  /\ \A x \in DOMAIN Changes(c) :
       \/ Changes(c)[x] = Baseline[x]
       \/ \E g \in DOMAIN afterRun(c) : x \in DOMAIN afterRun(c)[g]
  /\ \A h \in DOMAIN beforeRun(c) : \A x \in DOMAIN beforeRun(c)[h] :
       \/ \E g \in DOMAIN afterRun(c) : x \in DOMAIN afterRun(c)[g]
       \/ c = "deleteAcl" /\ x \in DOMAIN Changes(c)

\* The command changes a field that the steps before leave different.
Alters(c) ==
  \E x \in DOMAIN Changes(c) :
    \/ /\ Baseline[x] # Changes(c)[x]
       /\ \A h \in DOMAIN beforeRun(c) : x \notin DOMAIN beforeRun(c)[h]
    \/ \E h \in DOMAIN beforeRun(c) :
         /\ x \in DOMAIN beforeRun(c)[h] /\ beforeRun(c)[h][x] # Changes(c)[x]
         /\ \A g \in (h + 1)..Len(beforeRun(c)) : x \notin DOMAIN beforeRun(c)[g]

HaveHooks(c, before, after, changes) ==
  beforeRun(c) = before /\ afterRun(c) = after /\ Changes(c) = changes

\* By the table of hooks, one command after the other.
LEMMA HooksRestore ==
  ASSUME NEW c \in Hooked
  PROVE  Undone(c) /\ Alters(c)
<1>. USE DEF When, m6ShadowWritePermBeforeRunArgs, m6ShadowWritePermAfterRunArgs,
            m6ShadowNamesrvConfigResetArgs, m6ShadowBrokerConfigResetArgs,
            m6ShadowColdDataFlowCtrCleanupArgs, m6ShadowColdDataFlowCtrPrepareArgs,
            m6ShadowColdDataFlowCtrBeforeArgs, m6ShadowUpdateTopicCleanupArgs,
            m6ShadowUpdateTopicListCleanupArgs, m6ShadowUpdateTopicPermRestoreArgs,
            m6ShadowSetConsumeModeRestoreArgs, m6ShadowDeleteTopicPrepareArgs,
            m6ShadowDeleteTopicCleanupArgs, m6ShadowResetOffsetBeforeRun,
            m6ShadowResetOffsetAfterRun, m6ShadowUpdateSubGroupCleanupArgs,
            m6ShadowUpdateSubGroupListCleanupArgs, m6ShadowDeleteSubGroupPrepareArgs,
            m6ShadowDeleteSubGroupCleanupArgs, m6ShadowOrderConfPutCleanupArgs,
            m6ShadowOrderConfDeletePrepareArgs, m6ShadowOrderConfDeleteCleanupArgs,
            m6ShadowDeleteKVPrepareArgs, m6ShadowKVDeleteArgs, m6ShadowUpdateUserResetArgs,
            m6ShadowCreateUserCleanupArgs, m6ShadowCopyUserCleanupArgs,
            m6ShadowCreateAclBeforeRun, m6ShadowCreateAclAfterRun,
            m6ShadowUpdateAclBeforeRun, m6ShadowUpdateAclAfterRun,
            m6ShadowDeleteAclBeforeRun, m6ShadowDeleteAclAfterRun, m6ShadowListAclBeforeRun,
            m6ShadowListAclAfterRun, m6ShadowGetAclBeforeRun, m6ShadowGetAclAfterRun
<1>1. CASE c = "wipeWritePerm"
  <2>1. HaveHooks(c, <<addWritePerm>>, <<addWritePerm>>, wipeWritePerm)
    BY <1>1 DEF HaveHooks, beforeRun, afterRun, Changes
  <2>. QED  BY <2>1 DEF HaveHooks, Undone, Alters, Baseline, addWritePerm, wipeWritePerm
<1>2. CASE c = "addWritePerm"
  <2>1. HaveHooks(c, <<wipeWritePerm>>, <<addWritePerm>>, addWritePerm)
    BY <1>2 DEF HaveHooks, beforeRun, afterRun, Changes
  <2>. QED  BY <2>1 DEF HaveHooks, Undone, Alters, Baseline, addWritePerm, wipeWritePerm
<1>3. CASE c = "updateNamesrvConfig"
  <2>1. HaveHooks(c, <<[namesrv_config |-> "baseline"]>>,
                  <<[namesrv_config |-> "baseline"]>>, [namesrv_config |-> "given"])
    BY <1>3 DEF HaveHooks, beforeRun, afterRun, Changes
  <2>. QED  BY <2>1 DEF HaveHooks, Undone, Alters, Baseline
<1>4. CASE c = "updateBrokerConfig"
  <2>1. HaveHooks(c, <<[broker_config |-> "baseline"]>>,
                  <<[broker_config |-> "baseline"]>>, [broker_config |-> "given"])
    BY <1>4 DEF HaveHooks, beforeRun, afterRun, Changes
  <2>. QED  BY <2>1 DEF HaveHooks, Undone, Alters, Baseline
<1>5. CASE c = "updateColdDataFlowCtrGroupConfig"
  <2>1. HaveHooks(c, <<removeCold>>, <<removeCold>>, updateCold)
    BY <1>5 DEF HaveHooks, beforeRun, afterRun, Changes
  <2>. QED  BY <2>1 DEF HaveHooks, Undone, Alters, Baseline, removeCold, updateCold
<1>6. CASE c = "removeColdDataFlowCtrGroupConfig"
  <2>1. HaveHooks(c, <<updateCold>>, <<removeCold>>, removeCold)
    BY <1>6 DEF HaveHooks, beforeRun, afterRun, Changes
  <2>. QED  BY <2>1 DEF HaveHooks, Undone, Alters, Baseline, updateCold, removeCold
<1>7. CASE c = "updateTopic"
  <2>1. HaveHooks(c, <<deleteTopic>>, <<deleteTopic>>, updateTopic)
    BY <1>7 DEF HaveHooks, beforeRun, afterRun, Changes
  <2>. QED  BY <2>1 DEF HaveHooks, Undone, Alters, Baseline, deleteTopic, updateTopic
<1>8. CASE c = "updateTopicList"
  <2>1. HaveHooks(c, <<deleteTopic, [second_topic |-> "absent"]>>,
                  <<deleteTopic, [second_topic |-> "absent"]>>,
                  [topic |-> "present", second_topic |-> "present"])
    BY <1>8 DEF HaveHooks, beforeRun, afterRun, Changes
  <2>2. Undone(c)
    BY <2>1 DEF HaveHooks, Undone, Baseline, deleteTopic
  <2>3. /\ "topic" \in DOMAIN Changes(c) /\ Changes(c)["topic"] = "present"
        /\ DOMAIN beforeRun(c) = 1..2 /\ Len(beforeRun(c)) = 2
        /\ "topic" \in DOMAIN beforeRun(c)[1] /\ beforeRun(c)[1]["topic"] = "absent"
        /\ "topic" \notin DOMAIN beforeRun(c)[2]
    BY <2>1 DEF HaveHooks, deleteTopic
  <2>. QED  BY <2>2, <2>3 DEF Alters
<1>9. CASE c = "updateTopicPerm"
  <2>1. HaveHooks(c, <<[permission |-> "6"]>>,
                  <<[permission |-> "6"]>>, [permission |-> "given"])
    BY <1>9 DEF HaveHooks, beforeRun, afterRun, Changes
  <2>. QED  BY <2>1 DEF HaveHooks, Undone, Alters, Baseline
<1>10. CASE c = "deleteTopic"
  <2>1. HaveHooks(c, <<updateTopic>>, <<deleteTopic>>, deleteTopic)
    BY <1>10 DEF HaveHooks, beforeRun, afterRun, Changes
  <2>. QED  BY <2>1 DEF HaveHooks, Undone, Alters, Baseline, updateTopic, deleteTopic
<1>11. CASE c = "setConsumeMode"
  <2>1. HaveHooks(c, <<[mode |-> "POP"]>>, <<[mode |-> "POP"]>>, [mode |-> "PULL"])
    BY <1>11 DEF HaveHooks, beforeRun, afterRun, Changes
  <2>. QED  BY <2>1 DEF HaveHooks, Undone, Alters, Baseline
<1>12. CASE c = "resetOffsetByTime"
  <2>1. HaveHooks(c, <<deleteGroup, updateGroup>>, <<deleteGroup>>, [offsets |-> "reset"])
    BY <1>12 DEF HaveHooks, beforeRun, afterRun, Changes
  <2>. QED  BY <2>1 DEF HaveHooks, Undone, Alters, Baseline, updateGroup, deleteGroup
<1>13. CASE c = "updateSubGroup"
  <2>1. HaveHooks(c, <<deleteGroup>>, <<deleteGroup>>, updateGroup)
    BY <1>13 DEF HaveHooks, beforeRun, afterRun, Changes
  <2>. QED  BY <2>1 DEF HaveHooks, Undone, Alters, Baseline, deleteGroup, updateGroup
<1>14. CASE c = "updateSubGroupList"
  <2>1. HaveHooks(c, <<deleteGroup, [second_group |-> "absent"]>>,
                  <<deleteGroup, [second_group |-> "absent"]>>,
                  [group |-> "present", second_group |-> "present"])
    BY <1>14 DEF HaveHooks, beforeRun, afterRun, Changes
  <2>2. Undone(c)
    BY <2>1 DEF HaveHooks, Undone, Baseline, deleteGroup
  <2>3. /\ "group" \in DOMAIN Changes(c) /\ Changes(c)["group"] = "present"
        /\ DOMAIN beforeRun(c) = 1..2 /\ Len(beforeRun(c)) = 2
        /\ "group" \in DOMAIN beforeRun(c)[1] /\ beforeRun(c)[1]["group"] = "absent"
        /\ "group" \notin DOMAIN beforeRun(c)[2]
    BY <2>1 DEF HaveHooks, deleteGroup
  <2>. QED  BY <2>2, <2>3 DEF Alters
<1>15. CASE c = "deleteSubGroup"
  <2>1. HaveHooks(c, <<updateGroup>>, <<deleteGroup>>, deleteGroup)
    BY <1>15 DEF HaveHooks, beforeRun, afterRun, Changes
  <2>. QED  BY <2>1 DEF HaveHooks, Undone, Alters, Baseline, updateGroup, deleteGroup
<1>16. CASE c = "updateOrderConf_put"
  <2>1. HaveHooks(c, <<deleteOrder>>, <<deleteOrder>>, putOrder)
    BY <1>16 DEF HaveHooks, beforeRun, afterRun, Changes
  <2>. QED  BY <2>1 DEF HaveHooks, Undone, Alters, Baseline, deleteOrder, putOrder
<1>17. CASE c = "updateOrderConf_delete"
  <2>1. HaveHooks(c, <<putOrder>>, <<deleteOrder>>, deleteOrder)
    BY <1>17 DEF HaveHooks, beforeRun, afterRun, Changes
  <2>. QED  BY <2>1 DEF HaveHooks, Undone, Alters, Baseline, putOrder, deleteOrder
<1>18. CASE c = "deleteKvConfig"
  <2>1. HaveHooks(c, <<updateKv>>, <<deleteKv>>, deleteKv)
    BY <1>18 DEF HaveHooks, beforeRun, afterRun, Changes
  <2>. QED  BY <2>1 DEF HaveHooks, Undone, Alters, Baseline, updateKv, deleteKv
<1>19. CASE c = "createUser"
  <2>1. HaveHooks(c, <<deleteUser>>, <<deleteUser>>, createUser)
    BY <1>19 DEF HaveHooks, beforeRun, afterRun, Changes
  <2>. QED  BY <2>1 DEF HaveHooks, Undone, Alters, Baseline, deleteUser, createUser
<1>20. CASE c = "copyUser"
  <2>1. HaveHooks(c, <<deleteUser>>, <<deleteUser>>, createUser)
    BY <1>20 DEF HaveHooks, beforeRun, afterRun, Changes
  <2>. QED  BY <2>1 DEF HaveHooks, Undone, Alters, Baseline, deleteUser, createUser
<1>21. CASE c = "updateUser"
  <2>1. HaveHooks(c, <<[status |-> "enable"]>>, <<[status |-> "enable"]>>, [status |-> "given"])
    BY <1>21 DEF HaveHooks, beforeRun, afterRun, Changes
  <2>. QED  BY <2>1 DEF HaveHooks, Undone, Alters, Baseline
<1>22. CASE c = "createAcl"
  <2>1. HaveHooks(c, <<deleteUser, createUser>>, <<deleteAcl, deleteUser>>, createAcl)
    BY <1>22 DEF HaveHooks, beforeRun, afterRun, Changes, WithUser, WithAcl, NoAcl
  <2>2. Undone(c)
    BY <2>1 DEF HaveHooks, Undone, Baseline, createUser, deleteUser, deleteAcl, createAcl
  <2>3. /\ "acl" \in DOMAIN Changes(c) /\ Changes(c)["acl"] # Baseline["acl"]
        /\ DOMAIN beforeRun(c) = 1..2
        /\ "acl" \notin DOMAIN beforeRun(c)[1] /\ "acl" \notin DOMAIN beforeRun(c)[2]
    BY <2>1 DEF HaveHooks, Baseline, createUser, deleteUser, deleteAcl, createAcl
  <2>. QED  BY <2>2, <2>3 DEF Alters
<1>23. CASE c = "updateAcl"
  <2>1. HaveHooks(c, <<deleteUser, createUser, createAcl>>,
                  <<deleteAcl, deleteUser>>, [acl |-> "given"])
    BY <1>23 DEF HaveHooks, beforeRun, afterRun, Changes, WithUser, WithAcl, NoAcl
  <2>. QED  BY <2>1 DEF HaveHooks, Undone, Alters, Baseline, createUser, deleteUser,
      createAcl, deleteAcl
<1>24. CASE c = "deleteAcl"
  <2>1. HaveHooks(c, <<deleteUser, createUser, createAcl>>, <<deleteUser>>, deleteAcl)
    BY <1>24 DEF HaveHooks, beforeRun, afterRun, Changes, WithUser, WithAcl, NoAcl
  <2>2. Undone(c)
    BY <1>24, <2>1 DEF HaveHooks, Undone, Baseline, createUser, deleteUser, createAcl,
      deleteAcl
  <2>3. /\ "acl" \in DOMAIN Changes(c) /\ Changes(c)["acl"] = "absent"
        /\ DOMAIN beforeRun(c) = 1..3 /\ Len(beforeRun(c)) = 3
        /\ "acl" \in DOMAIN beforeRun(c)[3] /\ beforeRun(c)[3]["acl"] = "Pub"
    BY <2>1 DEF HaveHooks, createUser, deleteUser, createAcl, deleteAcl
  <2>. QED  BY <2>2, <2>3 DEF Alters
<1>. QED  BY <1>1, <1>2, <1>3, <1>4, <1>5, <1>6, <1>7, <1>8, <1>9, <1>10, <1>11, <1>12,
    <1>13, <1>14, <1>15, <1>16, <1>17, <1>18, <1>19, <1>20, <1>21, <1>22, <1>23, <1>24 DEF Hooked

\* Only the commands of the table have both something to bring back and a hook for it.
LEMMA RestoredAreHooked ==
  ASSUME NEW c, Changes(c) # Nothing, afterRun(c) # <<>>
  PROVE  c \in Hooked
<1>. SUFFICES ASSUME c \notin Hooked  PROVE Changes(c) = Nothing \/ afterRun(c) = <<>>
  OBVIOUS
<1>1. CASE c \in {"listAcl", "getAcl"}
  BY <1>1 DEF Changes
<1>2. CASE c \notin {"listAcl", "getAcl"}
  BY <1>2 DEF Hooked, When, afterRun, m6ShadowBrokerConfigResetArgs,
     m6ShadowColdDataFlowCtrCleanupArgs, m6ShadowCopyUserCleanupArgs,
     m6ShadowCreateAclAfterRun, m6ShadowCreateUserCleanupArgs, m6ShadowDeleteAclAfterRun,
     m6ShadowDeleteSubGroupCleanupArgs, m6ShadowDeleteTopicCleanupArgs,
     m6ShadowGetAclAfterRun, m6ShadowKVDeleteArgs, m6ShadowListAclAfterRun,
     m6ShadowNamesrvConfigResetArgs, m6ShadowOrderConfDeleteCleanupArgs,
     m6ShadowOrderConfPutCleanupArgs, m6ShadowResetOffsetAfterRun,
     m6ShadowSetConsumeModeRestoreArgs, m6ShadowUpdateAclAfterRun,
     m6ShadowUpdateSubGroupCleanupArgs, m6ShadowUpdateSubGroupListCleanupArgs,
     m6ShadowUpdateTopicCleanupArgs, m6ShadowUpdateTopicListCleanupArgs,
     m6ShadowUpdateTopicPermRestoreArgs, m6ShadowUpdateUserResetArgs,
     m6ShadowWritePermAfterRunArgs
<1>. QED  BY <1>1, <1>2

\* Hooks and commands set fields of a fixture.
LEMMA HooksAreSets ==
  ASSUME NEW c
  PROVE  /\ beforeRun(c) \in Seq(FieldSets) /\ afterRun(c) \in Seq(FieldSets)
         /\ Changes(c) \in FieldSets /\ Nothing \in FieldSets
<1>1. ASSUME NEW r, DOMAIN r \subseteq Fields, r = [x \in DOMAIN r |-> r[x]],
             \A x \in DOMAIN r : r[x] \in Words
      PROVE  r \in FieldSets
  <2>1. r \in [DOMAIN r -> Words]
    BY <1>1
  <2>. QED  BY <1>1, <2>1 DEF FieldSets
<1>2. ASSUME NEW x \in Fields, NEW r \in [{x} -> Words]  PROVE r \in FieldSets
  BY DEF FieldSets
<1>3. ASSUME NEW v \in Words
      PROVE  /\ [topic |-> v] \in FieldSets
             /\ [second_topic |-> v] \in FieldSets
             /\ [permission |-> v] \in FieldSets
             /\ [mode |-> v] \in FieldSets
             /\ [order |-> v] \in FieldSets
             /\ [group |-> v] \in FieldSets
             /\ [second_group |-> v] \in FieldSets
             /\ [offsets |-> v] \in FieldSets
             /\ [writable |-> v] \in FieldSets
             /\ [namesrv_config |-> v] \in FieldSets
             /\ [broker_config |-> v] \in FieldSets
             /\ [cold_flow |-> v] \in FieldSets
             /\ [kv |-> v] \in FieldSets
             /\ [user |-> v] \in FieldSets
             /\ [status |-> v] \in FieldSets
             /\ [acl |-> v] \in FieldSets
  <2>1. /\ "topic" \in Fields /\ [topic |-> v] \in [{"topic"} -> Words]
        /\ "second_topic" \in Fields /\ [second_topic |-> v] \in [{"second_topic"} -> Words]
        /\ "permission" \in Fields /\ [permission |-> v] \in [{"permission"} -> Words]
        /\ "mode" \in Fields /\ [mode |-> v] \in [{"mode"} -> Words]
        /\ "order" \in Fields /\ [order |-> v] \in [{"order"} -> Words]
        /\ "group" \in Fields /\ [group |-> v] \in [{"group"} -> Words]
        /\ "second_group" \in Fields /\ [second_group |-> v] \in [{"second_group"} -> Words]
        /\ "offsets" \in Fields /\ [offsets |-> v] \in [{"offsets"} -> Words]
        /\ "writable" \in Fields /\ [writable |-> v] \in [{"writable"} -> Words]
        /\ "namesrv_config" \in Fields /\ [namesrv_config |-> v] \in [{"namesrv_config"} -> Words]
        /\ "broker_config" \in Fields /\ [broker_config |-> v] \in [{"broker_config"} -> Words]
        /\ "cold_flow" \in Fields /\ [cold_flow |-> v] \in [{"cold_flow"} -> Words]
        /\ "kv" \in Fields /\ [kv |-> v] \in [{"kv"} -> Words]
        /\ "user" \in Fields /\ [user |-> v] \in [{"user"} -> Words]
        /\ "status" \in Fields /\ [status |-> v] \in [{"status"} -> Words]
        /\ "acl" \in Fields /\ [acl |-> v] \in [{"acl"} -> Words]
    BY DEF Fields, Baseline
  <2>. HIDE DEF Fields, FieldSets
  <2>. QED  BY <1>2, <2>1
<1>4. ASSUME NEW v \in Words, NEW w \in Words
      PROVE  /\ [group |-> v, offsets |-> w] \in FieldSets
             /\ [topic |-> v, second_topic |-> w] \in FieldSets
             /\ [group |-> v, second_group |-> w] \in FieldSets
  BY <1>1 DEF Fields, Baseline
<1>. HIDE DEF FieldSets
<1>5. /\ Nothing \in FieldSets /\ deleteGroup \in FieldSets
      /\ addWritePerm \in FieldSets /\ wipeWritePerm \in FieldSets /\ updateTopic \in FieldSets
      /\ deleteTopic \in FieldSets /\ updateGroup \in FieldSets /\ updateCold \in FieldSets
      /\ removeCold \in FieldSets /\ createUser \in FieldSets /\ deleteUser \in FieldSets
      /\ createAcl \in FieldSets /\ deleteAcl \in FieldSets /\ updateKv \in FieldSets
      /\ deleteKv \in FieldSets /\ putOrder \in FieldSets /\ deleteOrder \in FieldSets
  <2>1. <<>> \in [{} -> Words]
    OBVIOUS
  <2>2. Nothing \in FieldSets
    <3>1. [{} -> Words] \in {[D -> Words] : D \in SUBSET Fields}
      OBVIOUS
    <3>. QED  BY <2>1, <3>1 DEF Nothing, FieldSets
  <2>3. deleteGroup \in FieldSets
    BY <1>4 DEF Words, deleteGroup
  <2>4. /\ addWritePerm \in FieldSets /\ wipeWritePerm \in FieldSets /\ updateTopic \in FieldSets
        /\ deleteTopic \in FieldSets /\ updateGroup \in FieldSets /\ updateCold \in FieldSets
        /\ removeCold \in FieldSets /\ createUser \in FieldSets /\ deleteUser \in FieldSets
        /\ createAcl \in FieldSets /\ deleteAcl \in FieldSets /\ updateKv \in FieldSets
        /\ deleteKv \in FieldSets /\ putOrder \in FieldSets /\ deleteOrder \in FieldSets
    BY <1>3 DEF Words, addWritePerm, wipeWritePerm, updateTopic, deleteTopic, updateGroup,
        updateCold, removeCold, createUser, deleteUser, createAcl, deleteAcl, updateKv,
        deleteKv, putOrder, deleteOrder
  <2>. QED  BY <2>2, <2>3, <2>4
<1>6. Changes(c) \in FieldSets
  BY <1>3, <1>4, <1>5 DEF Changes, Words
<1>7. /\ \A name, s : s \in Seq(FieldSets) => When(c, name, s) \in Seq(FieldSets)
      /\ \A r \in FieldSets : <<r>> \in Seq(FieldSets)
      /\ \A r, t \in FieldSets : <<r, t>> \in Seq(FieldSets)
      /\ \A s, t \in Seq(FieldSets) : s \o t \in Seq(FieldSets)
  BY DEF When
<1>8. /\ WithUser \in Seq(FieldSets) /\ WithAcl \in Seq(FieldSets) /\ NoAcl \in Seq(FieldSets)
  BY <1>5 DEF WithUser, WithAcl, NoAcl
<1>9. /\ [namesrv_config |-> "baseline"] \in FieldSets
      /\ [broker_config |-> "baseline"] \in FieldSets
      /\ [second_topic |-> "absent"] \in FieldSets /\ [second_group |-> "absent"] \in FieldSets
      /\ [permission |-> "6"] \in FieldSets /\ [mode |-> "POP"] \in FieldSets
      /\ [status |-> "enable"] \in FieldSets
  BY <1>3 DEF Words
<1>10. /\ m6ShadowWritePermBeforeRunArgs(c) \in Seq(FieldSets)
       /\ m6ShadowWritePermAfterRunArgs(c) \in Seq(FieldSets)
       /\ m6ShadowNamesrvConfigResetArgs(c) \in Seq(FieldSets)
       /\ m6ShadowBrokerConfigResetArgs(c) \in Seq(FieldSets)
       /\ m6ShadowColdDataFlowCtrCleanupArgs(c) \in Seq(FieldSets)
       /\ m6ShadowColdDataFlowCtrPrepareArgs(c) \in Seq(FieldSets)
       /\ m6ShadowColdDataFlowCtrBeforeArgs(c) \in Seq(FieldSets)
       /\ m6ShadowUpdateTopicCleanupArgs(c) \in Seq(FieldSets)
       /\ m6ShadowUpdateTopicListCleanupArgs(c) \in Seq(FieldSets)
       /\ m6ShadowUpdateTopicPermRestoreArgs(c) \in Seq(FieldSets)
       /\ m6ShadowSetConsumeModeRestoreArgs(c) \in Seq(FieldSets)
       /\ m6ShadowDeleteTopicPrepareArgs(c) \in Seq(FieldSets)
       /\ m6ShadowDeleteTopicCleanupArgs(c) \in Seq(FieldSets)
       /\ m6ShadowResetOffsetBeforeRun(c) \in Seq(FieldSets)
       /\ m6ShadowResetOffsetAfterRun(c) \in Seq(FieldSets)
       /\ m6ShadowUpdateSubGroupCleanupArgs(c) \in Seq(FieldSets)
       /\ m6ShadowUpdateSubGroupListCleanupArgs(c) \in Seq(FieldSets)
       /\ m6ShadowDeleteSubGroupPrepareArgs(c) \in Seq(FieldSets)
       /\ m6ShadowDeleteSubGroupCleanupArgs(c) \in Seq(FieldSets)
       /\ m6ShadowOrderConfPutCleanupArgs(c) \in Seq(FieldSets)
       /\ m6ShadowOrderConfDeletePrepareArgs(c) \in Seq(FieldSets)
       /\ m6ShadowOrderConfDeleteCleanupArgs(c) \in Seq(FieldSets)
       /\ m6ShadowDeleteKVPrepareArgs(c) \in Seq(FieldSets)
       /\ m6ShadowKVDeleteArgs(c) \in Seq(FieldSets)
       /\ m6ShadowUpdateUserResetArgs(c) \in Seq(FieldSets)
       /\ m6ShadowCreateUserCleanupArgs(c) \in Seq(FieldSets)
       /\ m6ShadowCopyUserCleanupArgs(c) \in Seq(FieldSets)
       /\ m6ShadowCreateAclBeforeRun(c) \in Seq(FieldSets)
       /\ m6ShadowCreateAclAfterRun(c) \in Seq(FieldSets)
       /\ m6ShadowUpdateAclBeforeRun(c) \in Seq(FieldSets)
       /\ m6ShadowUpdateAclAfterRun(c) \in Seq(FieldSets)
       /\ m6ShadowDeleteAclBeforeRun(c) \in Seq(FieldSets)
       /\ m6ShadowDeleteAclAfterRun(c) \in Seq(FieldSets)
       /\ m6ShadowListAclBeforeRun(c) \in Seq(FieldSets)
       /\ m6ShadowListAclAfterRun(c) \in Seq(FieldSets)
       /\ m6ShadowGetAclBeforeRun(c) \in Seq(FieldSets)
       /\ m6ShadowGetAclAfterRun(c) \in Seq(FieldSets)
  BY <1>5, <1>7, <1>8, <1>9 DEF m6ShadowWritePermBeforeRunArgs,
     m6ShadowWritePermAfterRunArgs, m6ShadowNamesrvConfigResetArgs,
     m6ShadowBrokerConfigResetArgs, m6ShadowColdDataFlowCtrCleanupArgs,
     m6ShadowColdDataFlowCtrPrepareArgs, m6ShadowColdDataFlowCtrBeforeArgs,
     m6ShadowUpdateTopicCleanupArgs, m6ShadowUpdateTopicListCleanupArgs,
     m6ShadowUpdateTopicPermRestoreArgs, m6ShadowSetConsumeModeRestoreArgs,
     m6ShadowDeleteTopicPrepareArgs, m6ShadowDeleteTopicCleanupArgs,
     m6ShadowResetOffsetBeforeRun, m6ShadowResetOffsetAfterRun,
     m6ShadowUpdateSubGroupCleanupArgs, m6ShadowUpdateSubGroupListCleanupArgs,
     m6ShadowDeleteSubGroupPrepareArgs, m6ShadowDeleteSubGroupCleanupArgs,
     m6ShadowOrderConfPutCleanupArgs, m6ShadowOrderConfDeletePrepareArgs,
     m6ShadowOrderConfDeleteCleanupArgs, m6ShadowDeleteKVPrepareArgs, m6ShadowKVDeleteArgs,
     m6ShadowUpdateUserResetArgs, m6ShadowCreateUserCleanupArgs, m6ShadowCopyUserCleanupArgs,
     m6ShadowCreateAclBeforeRun, m6ShadowCreateAclAfterRun, m6ShadowUpdateAclBeforeRun,
     m6ShadowUpdateAclAfterRun, m6ShadowDeleteAclBeforeRun, m6ShadowDeleteAclAfterRun,
     m6ShadowListAclBeforeRun, m6ShadowListAclAfterRun, m6ShadowGetAclBeforeRun,
     m6ShadowGetAclAfterRun
<1>11. beforeRun(c) \in Seq(FieldSets)
  BY <1>10 DEF beforeRun
<1>12. afterRun(c) \in Seq(FieldSets)
  BY <1>10 DEF afterRun
<1>. QED  BY <1>5, <1>6, <1>11, <1>12

\* The samples that change a fixture and restore it, and those that write a file, run on
\* one target after the other.
LEMMA SerialOnes ==
  ASSUME NEW t \in defaultM6ShadowSamples, t.command \in Hooked \cup Exports
  PROVE  t.serial
<1>1. ASSUME NEW X  PROVE (\A s \in Serial(X) : s.serial) /\ (\A s \in AtOnce(X) : s.command \in X)
  BY DEF Serial, AtOnce
<1>2. ASSUME NEW X, X \cap (Hooked \cup Exports) = {}, t \in AtOnce(X)  PROVE FALSE
  BY <1>1, <1>2
<1>. USE <1>1, <1>2 DEF Hooked, Exports
<1>3. t \notin topicSamples /\ t \notin queueSamples /\ t \notin clientSamples
      /\ t \notin stateSamples /\ t \notin chainSamples
  BY DEF topicSamples, queueSamples, clientSamples, stateSamples, chainSamples
<1>4. t \in messageSamples \cup authSamples \cup configSamples => t.serial
  BY DEF messageSamples, authSamples, configSamples
<1>5. t \in sendSamples \cup cleanSamples \cup exportSamples \cup updateConfigSamples
             \cup updateTopicSamples \cup updateGroupSamples \cup updateNameServerSamples
             \cup resetSamples => t.serial
  BY DEF sendSamples, cleanSamples, exportSamples, updateConfigSamples, updateTopicSamples,
     updateGroupSamples, updateNameServerSamples, resetSamples
<1>. QED  BY <1>3, <1>4, <1>5 DEF defaultM6ShadowSamples

\* The sequence u is s and then t.
IsJoined(u, s, t) ==
  /\ Len(u) = Len(s) + Len(t) /\ \A k \in 1..Len(s) : u[k] = s[k]
  /\ \A k \in 1..Len(t) : u[Len(s) + k] = t[k]

LEMMA Joined ==
  ASSUME NEW S, NEW s \in Seq(S), NEW t \in Seq(S)
  PROVE  s \o t \in Seq(S) /\ IsJoined(s \o t, s, t)
<1>1. /\ s \o t \in Seq(S) /\ Len(s \o t) = Len(s) + Len(t)
      /\ \A k \in 1..(Len(s) + Len(t)) : (s \o t)[k] = IF k <= Len(s) THEN s[k] ELSE t[k - Len(s)]
  BY ConcatProperties
<1>2. ASSUME NEW k \in 1..Len(t)  PROVE (s \o t)[Len(s) + k] = t[k]
  <2>1. Len(s) + k \in 1..(Len(s) + Len(t)) /\ ~(Len(s) + k <= Len(s)) /\ Len(s) + k - Len(s) = k
    OBVIOUS
  <2>. QED  BY <1>1, <2>1
<1>. QED  BY <1>1, <1>2 DEF IsJoined

\* The steps of a run, by their place.
LEMMA RunLayout ==
  ASSUME NEW c \in Commands
  PROVE  LET first == CommandAt(c)
             e == IF c \in Exports THEN 1 ELSE 0
         IN  /\ beforeRun(c) \in Seq(FieldSets) /\ afterRun(c) \in Seq(FieldSets)
             /\ DOMAIN Run[c] = 1..Len(Run[c])
             /\ Len(Run[c]) = first + e + Len(afterRun(c))
             /\ \A k \in 1..Len(beforeRun(c)) : Run[c][k] = Step("before", beforeRun(c)[k])
             /\ Run[c][first] = Step("command", Changes(c))
             /\ c \in Exports => Run[c][first + 1] = Step("artifact", Nothing)
             /\ \A k \in 1..Len(afterRun(c)) :
                  Run[c][first + e + k] = Step("after", afterRun(c)[k])
<1>. DEFINE b == Each("before", beforeRun(c))
            m == <<Step("command", Changes(c))>>
            x == IF c \in Exports THEN <<Step("artifact", Nothing)>> ELSE <<>>
            a == Each("after", afterRun(c))
            S == [kind : {"before", "command", "artifact", "after"}, set : FieldSets]
<1>1. beforeRun(c) \in Seq(FieldSets) /\ afterRun(c) \in Seq(FieldSets)
      /\ Changes(c) \in FieldSets /\ Nothing \in FieldSets
  BY HooksAreSets
<1>2. ASSUME NEW kind \in {"before", "command", "artifact", "after"}, NEW set \in FieldSets
      PROVE  Step(kind, set) \in S
  BY DEF Step
<1>3. ASSUME NEW kind \in {"before", "after"}, NEW s \in Seq(FieldSets)
      PROVE  /\ Each(kind, s) \in Seq(S) /\ Len(Each(kind, s)) = Len(s)
             /\ \A k \in 1..Len(s) : Each(kind, s)[k] = Step(kind, s[k])
  <2>. HIDE DEF S
  <2>1. \A k \in 1..Len(s) : Step(kind, s[k]) \in S
    BY <1>2
  <2>2. Each(kind, s) = [k \in 1..Len(s) |-> Step(kind, s[k])]
    BY DEF Each
  <2>. QED  BY <2>1, <2>2
<1>4. m \in Seq(S) /\ Len(m) = 1 /\ m[1] = Step("command", Changes(c))
  BY <1>1, <1>2
<1>5. /\ x \in Seq(S) /\ Len(x) = IF c \in Exports THEN 1 ELSE 0
      /\ c \in Exports => x[1] = Step("artifact", Nothing)
  <2>1. Step("artifact", Nothing) \in S
    BY <1>1, <1>2
  <2>. HIDE DEF S
  <2>. QED  BY <2>1
<1>6. Run[c] = b \o m \o x \o a
  BY DEF Run
<1>7. /\ b \in Seq(S) /\ Len(b) = Len(beforeRun(c))
      /\ a \in Seq(S) /\ Len(a) = Len(afterRun(c))
      /\ \A k \in 1..Len(b) : b[k] = Step("before", beforeRun(c)[k])
      /\ \A k \in 1..Len(a) : a[k] = Step("after", afterRun(c)[k])
  BY <1>1, <1>3
<1>. HIDE DEF b, m, x, a, S
<1>8. /\ Run[c] \in Seq(S) /\ Len(Run[c]) = Len(b) + 1 + Len(x) + Len(a)
      /\ \A k \in 1..Len(b) : Run[c][k] = b[k]
      /\ Run[c][Len(b) + 1] = m[1]
      /\ \A k \in 1..Len(x) : Run[c][Len(b) + 1 + k] = x[k]
      /\ \A k \in 1..Len(a) : Run[c][Len(b) + 1 + Len(x) + k] = a[k]
  <2>. DEFINE y == b \o m
              z == y \o x
  <2>1. y \in Seq(S) /\ IsJoined(y, b, m)
    BY <1>4, <1>7, Joined
  <2>2. Run[c] = z \o a
    BY <1>6
  <2>. HIDE DEF y
  <2>3. z \in Seq(S) /\ IsJoined(z, y, x)
    BY <1>5, <2>1, Joined
  <2>. HIDE DEF z
  <2>4. Run[c] \in Seq(S) /\ IsJoined(Run[c], z, a)
    BY <1>7, <2>2, <2>3, Joined
  <2>. USE DEF IsJoined
  <2>5. \A k \in 1..Len(x) : Len(b) + 1 + k \in 1..Len(z)
    BY <1>4, <1>5, <1>7, <2>1, <2>3
  <2>6. \A k \in 1..(Len(b) + 1) : k \in 1..Len(y) /\ k \in 1..Len(z)
    BY <1>4, <1>5, <1>7, <2>1, <2>3
  <2>7. Len(b) + 1 \in 1..(Len(b) + 1) /\ \A k \in 1..Len(b) : k \in 1..(Len(b) + 1)
    BY <1>7
  <2>8. Len(Run[c]) = Len(b) + 1 + Len(x) + Len(a)
    BY <1>4, <1>5, <1>7, <2>1, <2>3, <2>4
  <2>9. \A k \in 1..(Len(b) + 1) : Run[c][k] = y[k]
    BY <2>3, <2>4, <2>6
  <2>10. Run[c][Len(b) + 1] = m[1] /\ \A k \in 1..Len(b) : Run[c][k] = b[k]
    BY <1>4, <2>1, <2>7, <2>9
  <2>11. Len(y) = Len(b) + 1 /\ Len(z) = Len(b) + 1 + Len(x)
    BY <1>4, <1>5, <1>7, <2>1, <2>3
  <2>12. \A k \in 1..Len(x) : Run[c][Len(b) + 1 + k] = x[k]
    BY <2>3, <2>4, <2>5, <2>11
  <2>13. \A k \in 1..Len(a) : Run[c][Len(b) + 1 + Len(x) + k] = a[k]
    BY <2>4, <2>11
  <2>. QED  BY <2>4, <2>8, <2>10, <2>12, <2>13
<1>. DEFINE first == CommandAt(c)
            e == IF c \in Exports THEN 1 ELSE 0
<1>9. /\ Len(b) + 1 = first /\ Len(x) = e /\ Len(b) = Len(beforeRun(c))
      /\ Len(a) = Len(afterRun(c))
  BY <1>5, <1>7 DEF CommandAt
<1>10. c \in Exports => 1 \in 1..Len(x)
  BY <1>5
<1>. HIDE DEF first, e
<1>11. /\ Len(Run[c]) = first + e + Len(afterRun(c))
       /\ Run[c][first] = Step("command", Changes(c))
       /\ c \in Exports => Run[c][first + 1] = Step("artifact", Nothing)
  BY <1>4, <1>5, <1>8, <1>9, <1>10
<1>12. /\ \A k \in 1..Len(beforeRun(c)) : Run[c][k] = Step("before", beforeRun(c)[k])
       /\ \A k \in 1..Len(afterRun(c)) : Run[c][first + e + k] = Step("after", afterRun(c)[k])
  BY <1>7, <1>8, <1>9
<1>13. DOMAIN Run[c] = 1..Len(Run[c])
  BY <1>8
<1>. QED  BY <1>1, <1>11, <1>12, <1>13 DEF first, e

\* The last step of a run before its after hooks.
LastAct(c) == IF c \in Exports THEN CommandAt(c) + 1 ELSE CommandAt(c)

\* Of each kind the steps have a place of their own.
LEMMA RunKinds ==
  ASSUME NEW c \in Commands
  PROVE  /\ CommandAt(c) \in Nat \ {0} /\ LastAct(c) \in Nat /\ LastAct(c) >= CommandAt(c)
         /\ Len(Run[c]) \in Nat /\ Len(Run[c]) = LastAct(c) + Len(afterRun(c))
         /\ \A k \in 1..Len(Run[c]) :
              /\ Run[c][k].kind = "before" <=> k < CommandAt(c)
              /\ Run[c][k].kind = "command" <=> k = CommandAt(c)
              /\ Run[c][k].kind = "artifact" <=> k > CommandAt(c) /\ k <= LastAct(c)
              /\ Run[c][k].kind = "after" <=> k > LastAct(c)
              /\ Run[c][k].kind \in {"before", "command", "artifact", "after"}
              /\ Run[c][k].set \in FieldSets
              /\ k < CommandAt(c) => Run[c][k].set = beforeRun(c)[k]
              /\ k = CommandAt(c) => Run[c][k].set = Changes(c)
              /\ k > LastAct(c) => Run[c][k].set = afterRun(c)[k - LastAct(c)]
<1>. DEFINE first == CommandAt(c)
            last == LastAct(c)
<1>1. /\ beforeRun(c) \in Seq(FieldSets) /\ afterRun(c) \in Seq(FieldSets)
      /\ Changes(c) \in FieldSets /\ Nothing \in FieldSets
  BY HooksAreSets
<1>2. /\ first \in Nat \ {0} /\ last \in Nat /\ last >= first /\ Len(beforeRun(c)) = first - 1
  BY <1>1 DEF CommandAt, LastAct
<1>3. /\ Len(Run[c]) = last + Len(afterRun(c)) /\ Len(afterRun(c)) \in Nat
      /\ \A k \in 1..(first - 1) : Run[c][k] = Step("before", beforeRun(c)[k])
      /\ Run[c][first] = Step("command", Changes(c))
      /\ last # first => last = first + 1 /\ Run[c][last] = Step("artifact", Nothing)
      /\ \A k \in 1..Len(afterRun(c)) : Run[c][last + k] = Step("after", afterRun(c)[k])
  <2>. DEFINE e == IF c \in Exports THEN 1 ELSE 0
  <2>1. last = first + e /\ e \in {0, 1} /\ (e = 1 <=> c \in Exports)
    BY <1>2 DEF LastAct
  <2>2. /\ Len(Run[c]) = first + e + Len(afterRun(c))
        /\ \A k \in 1..Len(beforeRun(c)) : Run[c][k] = Step("before", beforeRun(c)[k])
        /\ Run[c][first] = Step("command", Changes(c))
        /\ c \in Exports => Run[c][first + 1] = Step("artifact", Nothing)
        /\ \A k \in 1..Len(afterRun(c)) : Run[c][first + e + k] = Step("after", afterRun(c)[k])
    BY RunLayout
  <2>. HIDE DEF first, last, e
  <2>3. Len(Run[c]) = last + Len(afterRun(c)) /\ Len(afterRun(c)) \in Nat
    BY <1>1, <1>2, <2>1, <2>2
  <2>4. \A k \in 1..(first - 1) : Run[c][k] = Step("before", beforeRun(c)[k])
    BY <1>2, <2>2
  <2>5. ASSUME last # first
        PROVE  last = first + 1 /\ Run[c][last] = Step("artifact", Nothing)
    <3>1. e = 1 /\ last = first + 1
      BY <1>2, <2>1, <2>5
    <3>. QED  BY <2>1, <2>2, <3>1
  <2>6. ASSUME NEW k \in 1..Len(afterRun(c))
        PROVE  Run[c][last + k] = Step("after", afterRun(c)[k])
    <3>1. first + e + k = last + k
      BY <1>2, <2>1
    <3>2. Run[c][first + e + k] = Step("after", afterRun(c)[k])
      BY <2>2
    <3>. QED  BY <3>1, <3>2
  <2>. QED  BY <2>2, <2>3, <2>4, <2>5, <2>6
<1>. HIDE DEF first, last
<1>4. ASSUME NEW k \in 1..Len(Run[c])
      PROVE  /\ Run[c][k].kind = "before" <=> k < first
             /\ Run[c][k].kind = "command" <=> k = first
             /\ Run[c][k].kind = "artifact" <=> k > first /\ k <= last
             /\ Run[c][k].kind = "after" <=> k > last
             /\ Run[c][k].kind \in {"before", "command", "artifact", "after"}
             /\ Run[c][k].set \in FieldSets
             /\ k < first => Run[c][k].set = beforeRun(c)[k]
             /\ k = first => Run[c][k].set = Changes(c)
             /\ k > last => Run[c][k].set = afterRun(c)[k - last]
  <2>1. CASE k < first
    <3>1. k \in 1..Len(beforeRun(c)) /\ Run[c][k] = Step("before", beforeRun(c)[k])
          /\ ~(k > last)
      BY <1>2, <1>3, <2>1
    <3>2. beforeRun(c)[k] \in FieldSets
      BY <1>1, <3>1
    <3>. HIDE DEF FieldSets
    <3>. QED  BY <1>2, <2>1, <3>1, <3>2 DEF Step
  <2>2. CASE k = first
    <3>1. Run[c][k] = Step("command", Changes(c)) /\ ~(k < first) /\ ~(k > first) /\ ~(k > last)
      BY <1>2, <1>3, <2>2
    <3>. HIDE DEF FieldSets
    <3>. QED  BY <1>1, <2>2, <3>1 DEF Step
  <2>3. CASE k > first /\ k <= last
    <3>1. last # first /\ k \in Nat
      BY <1>2, <2>3
    <3>2. last = first + 1 /\ Run[c][last] = Step("artifact", Nothing)
      BY <1>3, <3>1
    <3>3. k = last /\ ~(k < first) /\ k # first /\ ~(k > last)
      BY <1>2, <2>3, <3>1, <3>2
    <3>. HIDE DEF FieldSets
    <3>. QED  BY <1>1, <2>3, <3>2, <3>3 DEF Step
  <2>4. CASE k > last
    <3>1. k - last \in 1..Len(afterRun(c)) /\ last + (k - last) = k
      BY <1>2, <1>3, <2>4
    <3>2. Run[c][k] = Step("after", afterRun(c)[k - last])
      BY <1>3, <3>1
    <3>3. afterRun(c)[k - last] \in FieldSets
      BY <1>1, <3>1
    <3>. QED  BY <1>2, <2>4, <3>2, <3>3 DEF Step
  <2>. QED  BY <1>2, <2>1, <2>2, <2>3, <2>4
<1>. QED  BY <1>2, <1>3, <1>4 DEF first, last

LEMMA ProvidersCounted ==
  ASSUME NEW s \in Seq(Nat) \ {<<>>}
  PROVE  Len(s) \in Nat \ {0}
OBVIOUS

\* A sample of the batch is one of the plan.
LEMMA SampleParts ==
  ASSUME BatchTypes, NEW j \in Jobs
  PROVE  /\ Samples[j].command \in Commands /\ Fixture(j) \in Fixtures(batch)
         /\ Samples[j].command \in Hooked \cup Exports => Samples[j].serial
         /\ Steps(j) = Run[Samples[j].command]
         /\ DOMAIN Samples = 1..Len(Samples) /\ Len(Samples) \in Nat /\ j \in 1..Len(Samples)
         /\ Len(batch.providers) \in Nat \ {0}
         /\ 1 \in Providers /\ Providers \subseteq Nat \ {0}
<1>1. batch \in Batches
  BY DEF BatchTypes
<1>2. /\ batch.samples \in Seq([command : Commands, serial : BOOLEAN, fixture : Nat])
      /\ \A i \in DOMAIN batch.samples :
           [command |-> batch.samples[i].command, serial |-> batch.samples[i].serial]
             \in defaultM6ShadowSamples
      /\ Len(batch.providers) \in Nat \ {0}
  <2>1. batch.providers \in Seq(Nat) \ {<<>>}
    BY <1>1, BatchesAssumption
  <2>2. Len(batch.providers) \in Nat \ {0}
    BY <2>1, ProvidersCounted
  <2>. QED  BY <1>1, <2>2, BatchesAssumption
<1>3. j \in DOMAIN batch.samples /\ Samples = batch.samples
  BY DEF Jobs, Samples
<1>4. batch.samples[j] \in [command : Commands, serial : BOOLEAN, fixture : Nat]
  <2>. DEFINE R == [command : Commands, serial : BOOLEAN, fixture : Nat]
  <2>1. batch.samples \in Seq(R)
    BY <1>2
  <2>. HIDE DEF R
  <2>2. batch.samples[j] \in R
    BY <1>3, <2>1
  <2>. QED  BY <2>2 DEF R
<1>5. Samples[j].command \in Commands
  BY <1>3, <1>4
<1>6. Fixture(j) \in Fixtures(batch)
  BY <1>3 DEF Fixture, Fixtures
<1>7. Samples[j].command \in Hooked \cup Exports => Samples[j].serial
  <2>. DEFINE t == [command |-> Samples[j].command, serial |-> Samples[j].serial]
  <2>1. t \in defaultM6ShadowSamples
    BY <1>2, <1>3
  <2>2. t.command \in Hooked \cup Exports => t.serial
    BY <2>1, SerialOnes
  <2>. QED  BY <2>2
<1>8. DOMAIN Samples = 1..Len(Samples) /\ Len(Samples) \in Nat
  BY <1>2, <1>3
<1>. QED  BY <1>2, <1>3, <1>5, <1>6, <1>7, <1>8 DEF Steps, Providers

\* After an error of the command, or of its file, the after hooks are next.
LEMMA AfterIsNext ==
  ASSUME BatchTypes, NEW j \in Jobs
  PROVE  After(j) = LastAct(Samples[j].command) + 1
<1>. DEFINE c == Samples[j].command
            last == LastAct(c)
            P(k) == /\ k = Len(Steps(j)) + 1 \/ Steps(j)[k].kind = "after"
                    /\ \A h \in 1..k - 1 : Steps(j)[h].kind # "after"
<1>1. c \in Commands /\ Steps(j) = Run[c]
  BY SampleParts
<1>2. /\ last \in Nat /\ Len(Steps(j)) \in Nat /\ Len(Steps(j)) >= last
      /\ \A k \in 1..Len(Steps(j)) : Steps(j)[k].kind = "after" <=> k > last
  <2>1. afterRun(c) \in Seq(FieldSets)
    BY HooksAreSets
  <2>. QED  BY <1>1, <2>1, RunKinds
<1>. HIDE DEF c, last
<1>3. last + 1 \in 1..(Len(Steps(j)) + 1) /\ P(last + 1)
  BY <1>2
<1>4. ASSUME NEW k \in 1..(Len(Steps(j)) + 1), P(k)  PROVE k = last + 1
  BY <1>2, <1>4
<1>5. After(j) = CHOOSE k \in 1..(Len(Steps(j)) + 1) : P(k)
  BY DEF After
<1>. HIDE DEF P
<1>. QED  BY <1>3, <1>4, <1>5 DEF c, last

-----------------------------------------------------------------------------
(* Shadow batches: what the steps of a run make of a fixture *)

LEMMA SetOver ==
  ASSUME NEW v \in FieldValues, NEW s \in FieldSets
  PROVE  /\ DOMAIN s \subseteq Fields /\ Overwritten(v, s) \in FieldValues
         /\ \A x \in Fields : Overwritten(v, s)[x] = IF x \in DOMAIN s THEN s[x] ELSE v[x]
<1>. HIDE DEF Fields, Words
<1>1. PICK D \in SUBSET Fields : s \in [D -> Words]
  BY DEF FieldSets
<1>2. Overwritten(v, s) = [x \in Fields |-> IF x \in DOMAIN s THEN s[x] ELSE v[x]]
  BY DEF FieldValues, Overwritten
<1>. QED  BY <1>1, <1>2 DEF FieldValues

LEMMA BaselineIsValue ==
  /\ Baseline \in FieldValues
  /\ \A v \in FieldValues : (\A x \in Fields : v[x] = Baseline[x]) => v = Baseline
<1>1. Baseline = [x \in Fields |-> Baseline[x]]
  BY DEF Baseline, Fields
<1>2. \A x \in Fields : Baseline[x] \in Words
  BY DEF Baseline, Fields, Words
<1>. QED  BY <1>1, <1>2 DEF FieldValues

LEMMA ShownFirst ==
  ASSUME NEW c, NEW errs
  PROVE  IsShown(Baseline, c, 1, errs)
<1>1. \A h : h \notin 1..(1 - 1)
  OBVIOUS
<1>. QED  BY <1>1, BaselineIsValue DEF IsShown

\* A step that is done.
LEMMA ShownStep ==
  ASSUME NEW c \in Commands, NEW k \in 1..Len(Run[c]), NEW errs, NEW v,
         IsShown(v, c, k, errs), Run[c][k].kind \notin errs
  PROVE  IsShown(Overwritten(v, Run[c][k].set), c, k + 1, errs)
<1>1. SUFFICES ASSUME NEW n, n = k + 1, NEW s, s = Run[c][k].set, NEW w, w = Overwritten(v, s)
               PROVE  IsShown(w, c, n, errs)
  OBVIOUS
<1>2. k \in Nat \ {0} /\ n - 1 = k
  BY <1>1
<1>3. /\ v \in FieldValues
      /\ \A x \in Fields :
           \/ v[x] = Baseline[x] /\ \A h \in 1..(k - 1) : ~SetsField(c, h, x, errs)
           \/ \E h \in 1..(k - 1) :
                /\ SetsField(c, h, x, errs) /\ v[x] = Run[c][h].set[x]
                /\ \A g \in (h + 1)..(k - 1) : ~SetsField(c, g, x, errs)
  BY DEF IsShown
<1>4. w \in FieldValues /\ \A x \in Fields : w[x] = IF x \in DOMAIN s THEN s[x] ELSE v[x]
  <2>1. s \in FieldSets
    BY <1>1, RunKinds
  <2>. QED  BY <1>1, <1>3, <2>1, SetOver
<1>5. /\ k \in 1..(n - 1) /\ \A h \in 1..(n - 1) : h \in 1..(k - 1) \/ h = k
      /\ \A g : g \notin (k + 1)..(n - 1)
      /\ \A h \in 1..(k - 1) :
           /\ h \in 1..(n - 1)
           /\ \A g \in (h + 1)..(n - 1) : g \in (h + 1)..(k - 1) \/ g = k
  BY <1>2
<1>6. \A x \in Fields : SetsField(c, k, x, errs) <=> x \in DOMAIN s
  BY <1>1 DEF SetsField
<1>7. ASSUME NEW x \in Fields
      PROVE  \/ w[x] = Baseline[x] /\ \A h \in 1..(n - 1) : ~SetsField(c, h, x, errs)
             \/ \E h \in 1..(n - 1) :
                  /\ SetsField(c, h, x, errs) /\ w[x] = Run[c][h].set[x]
                  /\ \A g \in (h + 1)..(n - 1) : ~SetsField(c, g, x, errs)
  <2>1. CASE x \in DOMAIN s
    <3>1. SetsField(c, k, x, errs) /\ w[x] = Run[c][k].set[x]
      BY <1>1, <1>4, <1>6, <2>1
    <3>. QED  BY <1>5, <3>1
  <2>2. CASE x \notin DOMAIN s
    <3>1. w[x] = v[x] /\ ~SetsField(c, k, x, errs)
      BY <1>4, <1>6, <2>2
    <3>2. CASE v[x] = Baseline[x] /\ \A h \in 1..(k - 1) : ~SetsField(c, h, x, errs)
      BY <1>5, <3>1, <3>2
    <3>3. ASSUME NEW h \in 1..(k - 1),
                 SetsField(c, h, x, errs), v[x] = Run[c][h].set[x],
                 \A g \in (h + 1)..(k - 1) : ~SetsField(c, g, x, errs)
          PROVE  \E i \in 1..(n - 1) :
                   /\ SetsField(c, i, x, errs) /\ w[x] = Run[c][i].set[x]
                   /\ \A g \in (i + 1)..(n - 1) : ~SetsField(c, g, x, errs)
      <4>1. h \in 1..(n - 1)
        BY <1>5
      <4>2. \A g \in (h + 1)..(n - 1) : ~SetsField(c, g, x, errs)
        BY <1>5, <3>1, <3>3
      <4>. QED  BY <3>1, <3>3, <4>1, <4>2
    <3>. QED  BY <1>3, <3>2, <3>3
  <2>. QED  BY <2>1, <2>2
<1>. QED  BY <1>4, <1>7 DEF IsShown

\* A command that has no effect.
LEMMA ShownSkip ==
  ASSUME NEW c \in Commands, NEW errs, NEW v,
         IsShown(v, c, CommandAt(c), errs), CommandAt(c) \in 1..Len(Run[c])
  PROVE  IsShown(v, c, CommandAt(c) + 1, errs \cup {"command"})
<1>1. SUFFICES ASSUME NEW m, m = CommandAt(c), NEW n, n = m + 1, NEW no, no = errs \cup {"command"}
               PROVE  IsShown(v, c, n, no)
  OBVIOUS
<1>2. m \in Nat \ {0} /\ n - 1 = m
  BY <1>1, RunKinds
<1>3. \A h \in 1..(m - 1) : Run[c][h].kind # "command"
  <2>1. Len(Run[c]) \in Nat /\ \A k \in 1..Len(Run[c]) : Run[c][k].kind = "command" <=> k = m
    BY <1>1, RunKinds
  <2>2. m \in 1..Len(Run[c])
    BY <1>1
  <2>. QED  BY <1>2, <2>1, <2>2
<1>4. Run[c][m].kind = "command"
  BY <1>1, RunKinds
<1>5. /\ \A h \in 1..(m - 1) : \A x : SetsField(c, h, x, no) <=> SetsField(c, h, x, errs)
      /\ \A x : ~SetsField(c, m, x, no)
  BY <1>1, <1>3, <1>4 DEF SetsField
<1>6. /\ \A h \in 1..(n - 1) : h \in 1..(m - 1) \/ h = m
      /\ \A h \in 1..(m - 1) :
           /\ h \in 1..(n - 1)
           /\ \A g \in (h + 1)..(n - 1) :
                (g \in 1..(m - 1) /\ g \in (h + 1)..(m - 1)) \/ g = m
  BY <1>2
<1>7. /\ v \in FieldValues
      /\ \A x \in Fields :
           \/ v[x] = Baseline[x] /\ \A h \in 1..(m - 1) : ~SetsField(c, h, x, errs)
           \/ \E h \in 1..(m - 1) :
                /\ SetsField(c, h, x, errs) /\ v[x] = Run[c][h].set[x]
                /\ \A g \in (h + 1)..(m - 1) : ~SetsField(c, g, x, errs)
  BY <1>1 DEF IsShown
<1>8. ASSUME NEW x \in Fields
      PROVE  \/ v[x] = Baseline[x] /\ \A h \in 1..(n - 1) : ~SetsField(c, h, x, no)
             \/ \E h \in 1..(n - 1) :
                  /\ SetsField(c, h, x, no) /\ v[x] = Run[c][h].set[x]
                  /\ \A g \in (h + 1)..(n - 1) : ~SetsField(c, g, x, no)
  <2>1. CASE v[x] = Baseline[x] /\ \A h \in 1..(m - 1) : ~SetsField(c, h, x, errs)
    <3>1. ASSUME NEW h \in 1..(n - 1)  PROVE ~SetsField(c, h, x, no)
      BY <1>5, <1>6, <2>1
    <3>. QED  BY <2>1, <3>1
  <2>2. ASSUME NEW h \in 1..(m - 1),
               SetsField(c, h, x, errs), v[x] = Run[c][h].set[x],
               \A g \in (h + 1)..(m - 1) : ~SetsField(c, g, x, errs)
        PROVE  \E i \in 1..(n - 1) :
                 /\ SetsField(c, i, x, no) /\ v[x] = Run[c][i].set[x]
                 /\ \A g \in (i + 1)..(n - 1) : ~SetsField(c, g, x, no)
    <3>1. \A g \in (h + 1)..(n - 1) : ~SetsField(c, g, x, no)
      BY <1>5, <1>6, <2>2
    <3>2. h \in 1..(n - 1) /\ SetsField(c, h, x, no)
      BY <1>5, <1>6, <2>2
    <3>. QED  BY <2>2, <3>1, <3>2
  <2>. QED  BY <1>7, <2>1, <2>2
<1>. QED  BY <1>7, <1>8 DEF IsShown

\* The state is one: what was done tells it.
LEMMA ShownOnce ==
  ASSUME NEW c, NEW k \in Nat, NEW errs, NEW v, NEW w,
         IsShown(v, c, k, errs), IsShown(w, c, k, errs)
  PROVE  v = w
<1>1. v \in FieldValues /\ w \in FieldValues
  BY DEF IsShown
<1>2. ASSUME NEW x \in Fields  PROVE v[x] = w[x]
  <2>1. ASSUME NEW h \in 1..(k - 1), SetsField(c, h, x, errs), v[x] = Run[c][h].set[x],
               \A g \in (h + 1)..(k - 1) : ~SetsField(c, g, x, errs),
               NEW i \in 1..(k - 1), SetsField(c, i, x, errs), w[x] = Run[c][i].set[x],
               \A g \in (i + 1)..(k - 1) : ~SetsField(c, g, x, errs)
        PROVE  v[x] = w[x]
    <3>1. h = i \/ h \in (i + 1)..(k - 1) \/ i \in (h + 1)..(k - 1)
      OBVIOUS
    <3>. QED  BY <2>1, <3>1
  <2>. QED  BY <2>1 DEF IsShown
<1>. QED  BY <1>1, <1>2 DEF FieldValues

LEMMA HookedDoNotExport ==
  ASSUME NEW c \in Hooked
  PROVE  c \notin Exports /\ LastAct(c) = CommandAt(c)
BY DEF Hooked, Exports, LastAct

\* A run of hooks and command leaves the baseline behind.
LEMMA ShownLast ==
  ASSUME NEW c \in Hooked \cap Commands, NEW errs \in SUBSET {"command"},
         "command" \in errs => c # "deleteAcl", NEW v,
         IsShown(v, c, Len(Run[c]) + 1, errs)
  PROVE  v = Baseline
<1>. DEFINE first == CommandAt(c)
            len == Len(Run[c])
<1>1. beforeRun(c) \in Seq(FieldSets) /\ afterRun(c) \in Seq(FieldSets)
  BY HooksAreSets
<1>2. /\ first \in Nat \ {0} /\ len \in Nat /\ len = first + Len(afterRun(c))
      /\ Len(beforeRun(c)) = first - 1
      /\ DOMAIN beforeRun(c) = 1..(first - 1) /\ DOMAIN afterRun(c) = 1..Len(afterRun(c))
      /\ LastAct(c) = first /\ Len(afterRun(c)) \in Nat
  BY <1>1, RunKinds, HookedDoNotExport DEF CommandAt
<1>3. \A k \in 1..len :
        /\ Run[c][k].kind = "command" <=> k = first
        /\ k < first => Run[c][k].set = beforeRun(c)[k]
        /\ k = first => Run[c][k].set = Changes(c)
        /\ k > first => Run[c][k].set = afterRun(c)[k - first]
  BY <1>2, RunKinds
<1>4. Undone(c)
  BY HooksRestore
<1>. HIDE DEF first, len
<1>5. ASSUME NEW x \in Fields  PROVE v[x] = Baseline[x]
  <2>1. SUFFICES ASSUME NEW h \in 1..(len + 1 - 1),
                        SetsField(c, h, x, errs), v[x] = Run[c][h].set[x],
                        \A g \in (h + 1)..(len + 1 - 1) : ~SetsField(c, g, x, errs)
                 PROVE  v[x] = Baseline[x]
    BY DEF IsShown, len
  <2>2. h \in 1..len /\ \A g \in (h + 1)..len : ~SetsField(c, g, x, errs)
    BY <1>2, <2>1
  <2>3. ASSUME NEW g \in DOMAIN afterRun(c), x \in DOMAIN afterRun(c)[g], h <= first
        PROVE  FALSE
    <3>1. first + g \in (h + 1)..len /\ first + g \in 1..len /\ first + g - first = g
          /\ first + g > first /\ first + g # first
      BY <1>2, <2>2, <2>3
    <3>. DEFINE k == first + g
    <3>2. k \in 1..len /\ k > first /\ k # first /\ k - first = g
      BY <1>2, <2>3, <3>1
    <3>. HIDE DEF k
    <3>3. Run[c][k].set = afterRun(c)[g] /\ Run[c][k].kind # "command"
      BY <1>3, <3>2
    <3>4. SetsField(c, k, x, errs)
      BY <2>3, <3>3 DEF SetsField
    <3>. QED  BY <2>2, <3>1, <3>4 DEF k
  <2>4. CASE h > first
    <3>1. h - first \in DOMAIN afterRun(c) /\ Run[c][h].set = afterRun(c)[h - first]
      BY <1>2, <1>3, <2>2, <2>4
    <3>. QED  BY <1>4, <2>1, <3>1 DEF Undone, SetsField
  <2>5. CASE h = first
    <3>1. Run[c][h].set = Changes(c)
      BY <1>3, <2>2, <2>5
    <3>. QED  BY <1>2, <1>4, <2>1, <2>3, <2>5, <3>1 DEF Undone, SetsField
  <2>6. CASE h < first
    <3>1. h \in DOMAIN beforeRun(c) /\ Run[c][h].set = beforeRun(c)[h] /\ h <= first
      BY <1>2, <1>3, <2>2, <2>6
    <3>2. x \in DOMAIN beforeRun(c)[h]
      BY <2>1, <3>1 DEF SetsField
    <3>3. c = "deleteAcl" /\ x \in DOMAIN Changes(c)
      BY <1>4, <2>3, <3>1, <3>2 DEF Undone
    <3>4. first \in (h + 1)..len /\ first \in 1..len
      BY <1>2, <2>2, <2>6
    <3>5. SetsField(c, first, x, errs)
      BY <1>3, <3>3, <3>4 DEF SetsField
    <3>. QED  BY <2>2, <3>4, <3>5
  <2>. QED  BY <1>2, <2>2, <2>4, <2>5, <2>6
<1>. QED  BY <1>5, BaselineIsValue DEF IsShown

\* What a command finds it changes.
LEMMA ShownAlters ==
  ASSUME NEW c \in Hooked \cap Commands, NEW v, IsShown(v, c, CommandAt(c), {})
  PROVE  Overwritten(v, Changes(c)) # v
<1>. DEFINE first == CommandAt(c)
            before == beforeRun(c)
<1>1. before \in Seq(FieldSets) /\ Changes(c) \in FieldSets
  BY HooksAreSets
<1>2. /\ first \in Nat \ {0} /\ Len(before) = first - 1 /\ DOMAIN before = 1..(first - 1)
      /\ Len(Run[c]) \in Nat /\ Len(Run[c]) >= first
  <2>1. /\ first \in Nat \ {0} /\ Len(Run[c]) \in Nat /\ LastAct(c) \in Nat /\ LastAct(c) >= first
        /\ Len(Run[c]) = LastAct(c) + Len(afterRun(c))
    BY RunKinds
  <2>2. Len(afterRun(c)) \in Nat
    BY HooksAreSets
  <2>. QED  BY <1>1, <2>1, <2>2 DEF CommandAt
<1>3. \A h \in 1..(first - 1) : Run[c][h].set = before[h]
  <2>1. \A k \in 1..Len(Run[c]) : k < first => Run[c][k].set = before[k]
    BY RunKinds
  <2>. HIDE DEF first, before
  <2>. QED  BY <1>2, <2>1
<1>4. \A h \in 1..(first - 1) : \A x : SetsField(c, h, x, {}) <=> x \in DOMAIN before[h]
  BY <1>3 DEF SetsField
<1>5. /\ DOMAIN Changes(c) \subseteq Fields
      /\ \A x \in Fields :
           Overwritten(v, Changes(c))[x] = IF x \in DOMAIN Changes(c) THEN Changes(c)[x] ELSE v[x]
  BY <1>1, SetOver DEF IsShown
<1>6. Alters(c)
  BY HooksRestore
<1>. HIDE DEF first, before
<1>7. ASSUME NEW x \in DOMAIN Changes(c), Baseline[x] # Changes(c)[x],
             \A h \in DOMAIN before : x \notin DOMAIN before[h]
      PROVE  v[x] # Changes(c)[x]
  <2>1. x \in Fields /\ \A h \in 1..(first - 1) : ~SetsField(c, h, x, {})
    BY <1>2, <1>4, <1>5, <1>7
  <2>. QED  BY <1>7, <2>1 DEF IsShown, first
<1>8. ASSUME NEW x \in DOMAIN Changes(c), NEW h \in DOMAIN before, x \in DOMAIN before[h],
             before[h][x] # Changes(c)[x],
             \A g \in (h + 1)..Len(before) : x \notin DOMAIN before[g]
      PROVE  v[x] # Changes(c)[x]
  <2>1. h \in 1..(first - 1) /\ SetsField(c, h, x, {}) /\ x \in Fields
    BY <1>2, <1>4, <1>5, <1>8
  <2>2. PICK i \in 1..(first - 1) :
          /\ SetsField(c, i, x, {}) /\ v[x] = Run[c][i].set[x]
          /\ \A g \in (i + 1)..(first - 1) : ~SetsField(c, g, x, {})
    <3>1. IsShown(v, c, first, {})
      BY DEF first
    <3>2. \/ v[x] = Baseline[x] /\ \A i \in 1..(first - 1) : ~SetsField(c, i, x, {})
          \/ \E i \in 1..(first - 1) :
               /\ SetsField(c, i, x, {}) /\ v[x] = Run[c][i].set[x]
               /\ \A g \in (i + 1)..(first - 1) : ~SetsField(c, g, x, {})
      BY <2>1, <3>1 DEF IsShown
    <3>. QED  BY <2>1, <3>2
  <2>3. ~(i < h)
    <3>1. i < h => h \in (i + 1)..(first - 1)
      BY <1>2, <2>1, <2>2
    <3>. QED  BY <2>1, <2>2, <3>1
  <2>4. ~(h < i)
    <3>1. h < i => i \in (h + 1)..Len(before)
      BY <1>2, <2>1, <2>2
    <3>. QED  BY <1>4, <1>8, <2>2, <3>1
  <2>5. h = i
    BY <2>1, <2>2, <2>3, <2>4
  <2>. QED  BY <1>3, <1>8, <2>1, <2>2, <2>5
<1>9. \E x \in DOMAIN Changes(c) : v[x] # Changes(c)[x]
  BY <1>6, <1>7, <1>8 DEF Alters, before
<1>. QED  BY <1>5, <1>9

-----------------------------------------------------------------------------
(* Shadow batches: the steps of workers and providers *)

LEMMA BatchKept ==
  ASSUME batch' = batch
  PROVE  /\ Samples' = Samples /\ Jobs' = Jobs /\ Providers' = Providers
         /\ \A i : /\ Fixture(i)' = Fixture(i) /\ Steps(i)' = Steps(i) /\ Upto(i)' = Upto(i)
                   /\ Restored(i)' = Restored(i)
BY DEF Samples, Jobs, Providers, Fixture, Steps, Upto, Restored

\* The provider p of the sample j goes on at its step k.
GoesOn(j, p, k) ==
  /\ Turn(j, p) /\ k \in 2..(Len(Steps(j)) + 1)
  /\ Goes(j, p, k) /\ UNCHANGED <<batch, next, doing>>

LEMMA Moved ==
  ASSUME BatchTypes, NEW j \in Jobs, NEW p \in Providers, NEW k, GoesOn(j, p, k)
  PROVE  /\ batch' = batch /\ next' = next /\ doing' = doing
         /\ place' \in [Jobs -> [Providers -> Nat]] /\ place'[j][p] = k
         /\ \A i \in Jobs, q \in Providers : i # j \/ q # p => place'[i][q] = place[i][q]
         /\ \A i \in Jobs, q \in Providers : place'[i][q] \in 1..(Len(Steps(i)) + 1)
         /\ \A i \in Jobs, q \in Providers : Ended(i, q) => Ended(i, q)'
         /\ \A i \in Jobs : Reports(i) => Reports(i)'
         /\ \A i \in Jobs : Unstarted(i)' => Unstarted(i) /\ i # j
<1>1. batch' = batch /\ next' = next /\ doing' = doing /\ k \in 2..(Len(Steps(j)) + 1) /\ k # 1
      /\ k \in Nat
  BY SampleParts DEF GoesOn
<1>2. /\ Jobs' = Jobs /\ Providers' = Providers /\ \A i : Steps(i)' = Steps(i)
  BY <1>1, BatchKept
<1>3. /\ place \in [Jobs -> [Providers -> Nat]] /\ place' = [place EXCEPT ![j][p] = k]
      /\ \A i \in Jobs, q \in Providers : place[i][q] \in 1..(Len(Steps(i)) + 1)
  BY DEF BatchTypes, GoesOn, Goes
<1>4. /\ place' \in [Jobs -> [Providers -> Nat]] /\ place'[j][p] = k
      /\ \A i \in Jobs, q \in Providers : i # j \/ q # p => place'[i][q] = place[i][q]
  BY <1>1, <1>3
<1>5. \A i \in Jobs, q \in Providers : place'[i][q] \in 1..(Len(Steps(i)) + 1)
  <2>1. \A i \in Jobs, q \in Providers : i # j \/ q # p => place'[i][q] \in 1..(Len(Steps(i)) + 1)
    BY <1>3, <1>4
  <2>2. place'[j][p] \in 1..(Len(Steps(j)) + 1)
    BY <1>1, <1>4
  <2>. QED  BY <2>1, <2>2
<1>6. ASSUME NEW i \in Jobs, NEW q \in Providers, Ended(i, q)  PROVE Ended(i, q)'
  <2>1. i # j \/ q # p
    BY <1>6 DEF GoesOn, Turn
  <2>. QED  BY <1>2, <1>4, <1>6, <2>1 DEF Ended
<1>7. \A i \in Jobs : Reports(i) => Reports(i)'
  BY <1>2, <1>6 DEF Reports
<1>8. ASSUME NEW i \in Jobs, Unstarted(i)'  PROVE Unstarted(i) /\ i # j
  <2>1. \A q \in Providers : place'[i][q] = 1
    BY <1>2, <1>8 DEF Unstarted
  <2>2. i # j
    BY <1>1, <1>4, <2>1
  <2>. QED  BY <1>4, <2>1, <2>2 DEF Unstarted
<1>. QED  BY <1>1, <1>4, <1>5, <1>6, <1>7, <1>8

\* Where a provider goes on, whether its step succeeds or not.
LEMMA NextPlaces ==
  ASSUME BatchTypes, NEW j \in Jobs, NEW p \in Providers, Turn(j, p)
  PROVE  LET c == Samples[j].command
         IN  /\ place[j][p] \in 1..Len(Steps(j)) /\ NextStep(j, p) = Run[c][place[j][p]]
             /\ place[j][p] + 1 \in 2..(Len(Steps(j)) + 1)
             /\ OnError(j, p) \in 2..(Len(Steps(j)) + 1) /\ OnError(j, p) > LastAct(c)
             /\ NextStep(j, p).kind \in {"command", "artifact"} => OnError(j, p) = LastAct(c) + 1
             /\ NextStep(j, p).kind \in {"before", "command", "artifact", "after"}
             /\ NextStep(j, p).set \in FieldSets
<1>. DEFINE c == Samples[j].command
            k == place[j][p]
            n == Len(Steps(j))
            last == LastAct(c)
<1>1. c \in Commands /\ Steps(j) = Run[c]
  BY SampleParts
<1>2. /\ last \in Nat /\ last >= 1 /\ n \in Nat /\ n >= last
      /\ \A i \in 1..n : /\ Run[c][i].kind \in {"before", "command", "artifact", "after"}
                         /\ Run[c][i].set \in FieldSets
  <2>1. Len(afterRun(c)) \in Nat
    BY HooksAreSets
  <2>2. /\ CommandAt(c) \in Nat \ {0} /\ last \in Nat /\ last >= CommandAt(c)
        /\ n \in Nat /\ n = last + Len(afterRun(c))
    BY <1>1, RunKinds
  <2>3. \A i \in 1..n : /\ Run[c][i].kind \in {"before", "command", "artifact", "after"}
                        /\ Run[c][i].set \in FieldSets
    BY <1>1, RunKinds
  <2>. HIDE DEF last, n
  <2>. QED  BY <2>1, <2>2, <2>3
<1>3. After(j) = last + 1
  BY AfterIsNext
<1>4. k \in 1..(n + 1) /\ ~(k > n)
  BY DEF BatchTypes, Turn, Ended
<1>5. NextStep(j, p) = Run[c][k]
  BY <1>1 DEF NextStep
<1>6. OnError(j, p) = IF NextStep(j, p).kind \in {"command", "artifact"} THEN last + 1 ELSE n + 1
  BY <1>3 DEF OnError
<1>. HIDE DEF c, k, n, last
<1>7. k \in 1..n /\ k + 1 \in 2..(n + 1)
  BY <1>2, <1>4
<1>8. OnError(j, p) \in 2..(n + 1) /\ OnError(j, p) > last
  BY <1>2, <1>6
<1>. QED  BY <1>2, <1>5, <1>6, <1>7, <1>8 DEF c, k, n, last

\* A provider's step.
Acts(j, p) == Does(j, p) \/ Refused(j, p) \/ Lost(j, p)

LEMMA ActsGoOn ==
  ASSUME BatchTypes, NEW j \in Jobs, NEW p \in Providers, Acts(j, p)
  PROVE  /\ \E k : GoesOn(j, p, k)
         /\ Does(j, p) => GoesOn(j, p, place[j][p] + 1)
         /\ ~Does(j, p) => GoesOn(j, p, OnError(j, p))
<1>1. Turn(j, p)
  BY DEF Acts, Does, Refused, Lost, GetsLost
<1>2. place[j][p] + 1 \in 2..(Len(Steps(j)) + 1) /\ OnError(j, p) \in 2..(Len(Steps(j)) + 1)
  BY <1>1, NextPlaces
<1>3. Does(j, p) => GoesOn(j, p, place[j][p] + 1)
  BY <1>1, <1>2 DEF Does, GoesOn
<1>4. ~Does(j, p) => GoesOn(j, p, OnError(j, p))
  BY <1>1, <1>2 DEF Acts, Refused, Lost, GoesOn
<1>. QED  BY <1>3, <1>4

\* What a step writes to its fixture, and to its file.
LEMMA FixtureWritten ==
  ASSUME BatchTypes, NEW j \in Jobs, NEW p \in Providers, NEW s \in FieldSets,
         Applied(Fixture(j), s)
  PROVE  /\ fixtures' \in [Fixtures(batch) -> FieldValues]
         /\ fixtures'[Fixture(j)] = Overwritten(fixtures[Fixture(j)], s)
         /\ \A f \in Fixtures(batch) : f # Fixture(j) => fixtures'[f] = fixtures[f]
<1>. HIDE DEF FieldValues, FieldSets
<1>1. Fixture(j) \in Fixtures(batch) /\ fixtures \in [Fixtures(batch) -> FieldValues]
  BY SampleParts DEF BatchTypes
<1>2. Overwritten(fixtures[Fixture(j)], s) \in FieldValues
  BY <1>1, SetOver
<1>. QED  BY <1>1, <1>2 DEF Applied

-----------------------------------------------------------------------------
(* Shadow batches: the parts of the invariant that say where everyone is *)

LEMMA TypesAtWorkers ==
  ASSUME BatchTypes, NEW w \in DOMAIN doing, Takes(w) \/ Finishes(w)
  PROVE  BatchTypes'
<1>. HIDE DEF FieldValues
<1>1. /\ batch' = batch /\ place' = place /\ failed' = failed /\ start' = start
      /\ fixtures' = fixtures /\ file' = file /\ read' = read
  BY DEF Takes, Finishes
<1>2. /\ Samples' = Samples /\ Jobs' = Jobs /\ Providers' = Providers
      /\ \A i : Steps(i)' = Steps(i)
  BY <1>1, BatchKept
<1>3. Len(Samples) \in Nat /\ Jobs = 1..Len(Samples)
  <2>1. batch.samples \in Seq([command : Commands, serial : BOOLEAN, fixture : Nat])
    BY BatchesAssumption DEF BatchTypes
  <2>. QED  BY <2>1 DEF Samples, Jobs
<1>4. /\ doing \in [Workers(batch) -> {0} \cup Jobs] /\ next \in 1..(Len(Samples) + 1)
  BY DEF BatchTypes
<1>5. next' \in 1..(Len(Samples) + 1) /\ doing' \in [Workers(batch) -> {0} \cup Jobs]
  <2>1. CASE Takes(w)
    BY <1>3, <1>4, <2>1 DEF Takes
  <2>2. CASE Finishes(w)
    BY <1>4, <2>2 DEF Finishes
  <2>. QED  BY <2>1, <2>2
<1>6. (Fixtures(batch))' = Fixtures(batch) /\ (Workers(batch))' = Workers(batch)
  BY <1>1 DEF Fixtures, Workers
<1>. QED  BY <1>1, <1>2, <1>5, <1>6 DEF BatchTypes

LEMMA TypesAtActs ==
  ASSUME BatchTypes, NEW j \in Jobs, NEW p \in Providers, Acts(j, p)
  PROVE  BatchTypes'
<1>. HIDE DEF FieldValues, FieldSets
<1>1. PICK k : GoesOn(j, p, k)
  BY ActsGoOn
<1>2. /\ batch' = batch /\ next' = next /\ doing' = doing
      /\ place' \in [Jobs -> [Providers -> Nat]]
      /\ \A i \in Jobs, q \in Providers : place'[i][q] \in 1..(Len(Steps(i)) + 1)
  BY <1>1, Moved
<1>3. /\ Samples' = Samples /\ Jobs' = Jobs /\ Providers' = Providers
      /\ \A i : Steps(i)' = Steps(i)
  BY <1>2, BatchKept
<1>4. (Fixtures(batch))' = Fixtures(batch) /\ (Workers(batch))' = Workers(batch)
  BY <1>2 DEF Fixtures, Workers
<1>5. Turn(j, p)
  BY <1>1 DEF GoesOn
<1>6. /\ NextStep(j, p).kind \in {"before", "command", "artifact", "after"}
      /\ NextStep(j, p).set \in FieldSets
  BY <1>5, NextPlaces
<1>7. failed' \in [Jobs -> [Providers -> SUBSET StepKinds]]
  <2>. DEFINE F == StepKinds
  <2>1. failed \in [Jobs -> [Providers -> SUBSET F]] /\ NextStep(j, p).kind \in F
    BY <1>6 DEF BatchTypes, StepKinds
  <2>2. failed' = failed \/ Errs(j, p)
    BY DEF Acts, Does, Refused, Lost
  <2>. HIDE DEF F
  <2>3. failed' \in [Jobs -> [Providers -> SUBSET F]]
    BY <2>1, <2>2 DEF Errs
  <2>. QED  BY <2>3 DEF F
<1>8. Fixture(j) \in Fixtures(batch)
  BY SampleParts
<1>9. start' \in [Jobs -> [Providers -> {<<>>} \cup FieldValues]]
  <2>1. fixtures[Fixture(j)] \in FieldValues
    BY <1>8 DEF BatchTypes
  <2>2. Finds(j, p)
    BY DEF Acts, Does, Refused, Lost
  <2>. QED  BY <2>1, <2>2 DEF Finds, BatchTypes
<1>10. fixtures' \in [Fixtures(batch) -> FieldValues]
  <2>1. CASE Applied(Fixture(j), NextStep(j, p).set)
    BY <1>6, <2>1, FixtureWritten
  <2>2. CASE ~Applied(Fixture(j), NextStep(j, p).set)
    BY <2>2 DEF Acts, Does, Refused, Lost, GetsLost, BatchTypes
  <2>. QED  BY <2>1, <2>2
<1>11. file' \in [Fixtures(batch) -> {NoOne} \cup Jobs \X Providers]
  <2>1. Written(j, p) \/ file' = file
    BY DEF Acts, Does, Refused, Lost, GetsLost
  <2>. DEFINE N == {NoOne} \cup Jobs \X Providers
  <2>2. <<j, p>> \in N /\ file \in [Fixtures(batch) -> N]
    BY DEF BatchTypes
  <2>. HIDE DEF N
  <2>3. file' \in [Fixtures(batch) -> N]
    BY <1>8, <2>1, <2>2 DEF Written
  <2>. QED  BY <2>3 DEF N
<1>12. read' \in [Jobs -> [Providers -> {NoOne} \cup Jobs \X Providers]]
  <2>. DEFINE N == {NoOne} \cup Jobs \X Providers
  <2>1. file[Fixture(j)] \in N /\ read \in [Jobs -> [Providers -> N]]
    BY <1>8 DEF BatchTypes
  <2>2. read' = read \/ read' = [read EXCEPT ![j][p] = file[Fixture(j)]]
    BY DEF Acts, Does, Refused, Lost
  <2>. HIDE DEF N
  <2>3. read' \in [Jobs -> [Providers -> N]]
    BY <2>1, <2>2
  <2>. QED  BY <2>3 DEF N
<1>13. next' \in 1..(Len(Samples) + 1) /\ doing' \in [Workers(batch) -> {0} \cup Jobs]
       /\ batch \in Batches
  BY <1>2 DEF BatchTypes
<1>. QED  BY <1>2, <1>3, <1>4, <1>7, <1>9, <1>10, <1>11, <1>12, <1>13 DEF BatchTypes

LEMMA TypesAtArrivals ==
  ASSUME BatchTypes, LostOnes, NEW l \in delayed, Arrives(l)
  PROVE  /\ BatchTypes' /\ l[1] \in Jobs /\ l[2] \in Providers /\ l \in strays
         /\ \A f \in Fixtures(batch) :
              f # Fixture(l[1]) => fixtures'[f] = fixtures[f] /\ file'[f] = file[f]
<1>. HIDE DEF FieldValues, FieldSets
<1>1. l \in strays /\ l[3] \in 1..Len(Steps(l[1]))
  BY DEF LostOnes
<1>2. l[1] \in Jobs /\ l[2] \in Providers
  BY DEF LostOnes
<1>3. /\ batch' = batch /\ next' = next /\ doing' = doing /\ place' = place
      /\ failed' = failed /\ start' = start /\ read' = read
  BY DEF Arrives
<1>4. /\ Samples' = Samples /\ Jobs' = Jobs /\ Providers' = Providers
      /\ \A i : Steps(i)' = Steps(i)
  BY <1>3, BatchKept
<1>5. (Fixtures(batch))' = Fixtures(batch) /\ (Workers(batch))' = Workers(batch)
  BY <1>3 DEF Fixtures, Workers
<1>6. Fixture(l[1]) \in Fixtures(batch) /\ Samples[l[1]].command \in Commands
      /\ Steps(l[1]) = Run[Samples[l[1]].command]
  BY <1>2, SampleParts
<1>7. Steps(l[1])[l[3]].set \in FieldSets
  BY <1>1, <1>6, RunKinds
<1>8. /\ fixtures' \in [Fixtures(batch) -> FieldValues]
      /\ \A f \in Fixtures(batch) : f # Fixture(l[1]) => fixtures'[f] = fixtures[f]
  BY <1>2, <1>7, FixtureWritten DEF Arrives
<1>9. /\ file' \in [Fixtures(batch) -> {NoOne} \cup Jobs \X Providers]
      /\ \A f \in Fixtures(batch) : f # Fixture(l[1]) => file'[f] = file[f]
  BY <1>2, <1>6 DEF Arrives, BatchTypes
<1>. QED  BY <1>1, <1>2, <1>3, <1>4, <1>5, <1>8, <1>9 DEF BatchTypes

\* A sample that runs was handed out.
LEMMA RunsBeforeNext ==
  ASSUME BatchTypes, TakenInOrder, NEW j \in Jobs, NEW p \in Providers, Turn(j, p)
  PROVE  /\ j < next /\ ~Reports(j)
         /\ Workers(batch) = {1} => doing[1] = j /\ j = next - 1
<1>1. PICK w \in Workers(batch) : doing[w] = j
  BY DEF Turn, BatchTypes
<1>2. j # 0
  BY SampleParts
<1>. QED  BY <1>1, <1>2 DEF TakenInOrder, Turn, Reports

LEMMA LostOnesKept ==
  ASSUME BatchTypes, LostOnes, TakenInOrder, NEW j \in Jobs, NEW p \in Providers, Acts(j, p)
  PROVE  /\ LostOnes' /\ strays \subseteq strays'
         /\ \A i \in Jobs, q \in Providers : failed[i][q] \subseteq failed'[i][q]
         /\ \A i \in Jobs, q \in Providers : i # j \/ q # p => failed'[i][q] = failed[i][q]
         /\ Does(j, p) => failed' = failed
         /\ ~Does(j, p) => failed'[j][p] = failed[j][p] \cup {NextStep(j, p).kind}
         /\ Lost(j, p) => \E l \in strays' : l[1] = j
<1>1. PICK k : GoesOn(j, p, k)
  BY ActsGoOn
<1>2. /\ batch' = batch /\ place'[j][p] = k /\ k \in 2..(Len(Steps(j)) + 1)
      /\ \A i \in Jobs, q \in Providers : i # j \/ q # p => place'[i][q] = place[i][q]
  BY <1>1, Moved DEF GoesOn
<1>3. /\ Samples' = Samples /\ Jobs' = Jobs /\ Providers' = Providers
      /\ \A i : Steps(i)' = Steps(i)
  BY <1>2, BatchKept
<1>4. place[j][p] \in 1..Len(Steps(j)) /\ Len(Steps(j)) \in Nat
  <2>1. Steps(j) = Run[Samples[j].command] /\ Samples[j].command \in Commands
    BY SampleParts
  <2>. QED  BY <1>1, <2>1, NextPlaces, RunKinds DEF GoesOn
<1>5. failed \in [Jobs -> [Providers -> SUBSET StepKinds]]
  BY DEF BatchTypes
<1>6. /\ Does(j, p) => failed' = failed
      /\ ~Does(j, p) => Errs(j, p)
  BY DEF Acts, Does, Refused, Lost
<1>7. /\ \A i \in Jobs, q \in Providers : failed[i][q] \subseteq failed'[i][q]
      /\ \A i \in Jobs, q \in Providers : i # j \/ q # p => failed'[i][q] = failed[i][q]
      /\ ~Does(j, p) => failed'[j][p] = failed[j][p] \cup {NextStep(j, p).kind}
  BY <1>5, <1>6 DEF Errs
<1>8. j < next /\ next' = next
  BY <1>1, RunsBeforeNext, Moved DEF GoesOn
<1>9. CASE Lost(j, p)
  <2>. DEFINE n == Stray(j, p)
  <2>1. strays' = strays \cup {n} /\ delayed' \subseteq delayed \cup {n} /\ Errs(j, p)
    BY <1>9 DEF Lost, GetsLost
  <2>2. n[1] = j /\ n[2] = p /\ n[3] = place[j][p]
    BY DEF Stray
  <2>. HIDE DEF n
  <2>3. failed'[j][p] # {}
    <3>1. failed'[j][p] = failed[j][p] \cup {NextStep(j, p).kind}
      BY <1>5, <2>1 DEF Errs
    <3>. QED  BY <3>1
  <2>4. ASSUME NEW l \in strays'
        PROVE  /\ l[1] \in Jobs /\ l[2] \in Providers /\ l[3] \in 1..Len(Steps(l[1]))
               /\ l[1] < next /\ failed'[l[1]][l[2]] # {}
    <3>1. CASE l = n
      BY <1>4, <1>8, <2>2, <2>3, <3>1
    <3>2. CASE l \in strays
      BY <1>7, <3>2 DEF LostOnes
    <3>. QED  BY <2>1, <3>1, <3>2
  <2>5. delayed' \subseteq strays'
    BY <2>1 DEF LostOnes
  <2>6. LostOnes'
    BY <1>3, <1>8, <2>4, <2>5 DEF LostOnes
  <2>7. n \in strays'
    BY <2>1
  <2>. QED  BY <1>6, <1>7, <2>1, <2>2, <2>6, <2>7
<1>10. CASE ~Lost(j, p)
  <2>1. strays' = strays /\ delayed' = delayed
    BY <1>10 DEF Acts, Does, Refused
  <2>2. ASSUME NEW l \in strays
        PROVE  /\ l[1] \in Jobs /\ l[2] \in Providers /\ l[3] \in 1..Len(Steps(l[1]))
               /\ l[1] < next /\ failed'[l[1]][l[2]] # {}
    BY <1>7 DEF LostOnes
  <2>. QED  BY <1>3, <1>6, <1>7, <1>8, <1>10, <2>1, <2>2 DEF LostOnes
<1>. QED  BY <1>9, <1>10

LEMMA TakenAtWorkers ==
  ASSUME BatchTypes, TakenInOrder, NEW w \in DOMAIN doing, Takes(w) \/ Finishes(w)
  PROVE  TakenInOrder'
<1>1. batch' = batch /\ place' = place
  BY DEF Takes, Finishes
<1>2. /\ Jobs' = Jobs /\ Providers' = Providers /\ \A i : Steps(i)' = Steps(i)
  BY <1>1, BatchKept
<1>3. /\ \A j \in Jobs : Unstarted(j)' <=> Unstarted(j)
      /\ \A j \in Jobs : Reports(j)' <=> Reports(j)
      /\ (Workers(batch))' = Workers(batch)
  BY <1>1, <1>2 DEF Unstarted, Reports, Ended, Workers
<1>4. /\ doing \in [Workers(batch) -> {0} \cup Jobs] /\ next \in Nat /\ next >= 1
      /\ \A j \in Jobs : j \in Nat \ {0}
  <2>1. batch.samples \in Seq([command : Commands, serial : BOOLEAN, fixture : Nat])
    BY BatchesAssumption DEF BatchTypes
  <2>. QED  BY <2>1 DEF Samples, Jobs, BatchTypes
<1>5. /\ \A j \in Jobs : ~Unstarted(j) => j < next
      /\ \A j \in Jobs : j < next => Reports(j) \/ \E v \in Workers(batch) : doing[v] = j
      /\ \A v \in Workers(batch) : doing[v] < next
      /\ Workers(batch) = {1} => doing[1] \in {0, next - 1}
  BY DEF TakenInOrder
<1>6. CASE Takes(w)
  <2>1. /\ next \in Jobs /\ doing[w] = 0 /\ w \in Workers(batch) /\ next' = next + 1
        /\ doing' = [doing EXCEPT ![w] = next]
    BY <1>4, <1>6 DEF Takes
  <2>2. doing'[w] = next /\ \A v \in Workers(batch) : v # w => doing'[v] = doing[v]
    BY <1>4, <2>1
  <2>3. \A j \in Jobs : j < next' => Reports(j) \/ \E v \in Workers(batch) : doing'[v] = j
    <3>1. SUFFICES ASSUME NEW j \in Jobs, j < next', ~Reports(j)
                   PROVE  \E v \in Workers(batch) : doing'[v] = j
      OBVIOUS
    <3>2. CASE j = next
      BY <2>1, <2>2, <3>2
    <3>3. CASE j < next
      <4>1. PICK v \in Workers(batch) : doing[v] = j
        BY <1>5, <3>1, <3>3
      <4>2. v # w
        BY <1>4, <2>1, <4>1
      <4>. QED  BY <2>2, <4>1, <4>2
    <3>. QED  BY <1>4, <2>1, <3>1, <3>2, <3>3
  <2>4. ASSUME NEW v \in Workers(batch)  PROVE doing'[v] < next'
    <3>1. doing[v] \in Nat /\ doing[v] < next
      BY <1>4, <1>5
    <3>. QED  BY <1>4, <2>1, <2>2, <3>1
  <2>5. \A j \in Jobs : ~Unstarted(j) => j < next'
    BY <1>4, <1>5, <2>1
  <2>6. Workers(batch) = {1} => doing'[1] \in {0, next' - 1}
    BY <1>4, <2>1, <2>2
  <2>. QED  BY <1>2, <1>3, <2>3, <2>4, <2>5, <2>6 DEF TakenInOrder
<1>7. CASE Finishes(w)
  <2>1. /\ next' = next /\ Reports(doing[w]) /\ w \in Workers(batch)
        /\ doing' = [doing EXCEPT ![w] = 0]
    BY <1>4, <1>7 DEF Finishes
  <2>2. doing'[w] = 0 /\ \A v \in Workers(batch) : v # w => doing'[v] = doing[v]
    BY <1>4, <2>1
  <2>3. \A j \in Jobs : j < next' => Reports(j) \/ \E v \in Workers(batch) : doing'[v] = j
    BY <1>5, <2>1, <2>2
  <2>4. \A v \in Workers(batch) : doing'[v] < next'
    BY <1>4, <1>5, <2>1, <2>2
  <2>5. Workers(batch) = {1} => doing'[1] \in {0, next' - 1}
    BY <2>1, <2>2
  <2>. QED  BY <1>2, <1>3, <1>5, <2>1, <2>3, <2>4, <2>5 DEF TakenInOrder
<1>. QED  BY <1>6, <1>7

LEMMA TakenAtActs ==
  ASSUME BatchTypes, TakenInOrder, NEW j \in Jobs, NEW p \in Providers, Acts(j, p)
  PROVE  TakenInOrder'
<1>1. PICK k : GoesOn(j, p, k)
  BY ActsGoOn
<1>2. /\ batch' = batch /\ next' = next /\ doing' = doing
      /\ \A i \in Jobs, q \in Providers : i # j \/ q # p => place'[i][q] = place[i][q]
      /\ \A i \in Jobs : Reports(i) => Reports(i)'
  BY <1>1, Moved
<1>3. Jobs' = Jobs /\ Providers' = Providers /\ (Workers(batch))' = Workers(batch)
  BY <1>2, BatchKept DEF Workers
<1>4. j < next
  BY <1>1, RunsBeforeNext DEF GoesOn
<1>5. ASSUME NEW i \in Jobs, ~Unstarted(i)'  PROVE i < next
  <2>1. CASE i = j
    BY <1>4, <2>1
  <2>2. CASE i # j
    <3>1. ~Unstarted(i)
      BY <1>2, <1>3, <1>5, <2>2 DEF Unstarted
    <3>. QED  BY <3>1 DEF TakenInOrder
  <2>. QED  BY <2>1, <2>2
<1>. QED  BY <1>2, <1>3, <1>5 DEF TakenInOrder

LEMMA TurnsAtActs ==
  ASSUME BatchTypes, InTurns, NEW j \in Jobs, NEW p \in Providers, Acts(j, p)
  PROVE  InTurns'
<1>1. PICK k : GoesOn(j, p, k)
  BY ActsGoOn
<1>2. /\ batch' = batch
      /\ \A i \in Jobs, q \in Providers : i # j \/ q # p => place'[i][q] = place[i][q]
      /\ \A i \in Jobs, q \in Providers : Ended(i, q) => Ended(i, q)'
  BY <1>1, Moved
<1>3. Jobs' = Jobs /\ Providers' = Providers /\ Samples' = Samples
  BY <1>2, BatchKept
<1>4. Samples[j].serial => \A q \in Providers : q < p => Ended(j, q)
  <2>1. \A q \in Providers : q < p => q \in 1..p - 1
    BY SampleParts DEF Providers
  <2>. QED  BY <1>1, <2>1 DEF GoesOn, Turn
<1>5. ASSUME NEW i \in Jobs, NEW r \in Providers, Samples[i].serial, place'[i][r] # 1,
             NEW q \in Providers, q < r
      PROVE  Ended(i, q)
  <2>1. CASE i = j /\ r = p
    BY <1>4, <1>5, <2>1
  <2>2. CASE ~(i = j /\ r = p)
    BY <1>2, <1>5, <2>2 DEF InTurns
  <2>. QED  BY <2>1, <2>2
<1>. QED  BY <1>2, <1>3, <1>5 DEF InTurns

LEMMA SettledAtActs ==
  ASSUME BatchTypes, LostOnes, TakenInOrder, Settled, NEW j \in Jobs, NEW p \in Providers, Acts(j, p)
  PROVE  Settled'
<1>. DEFINE c == Samples[j].command
            last == LastAct(c)
<1>1. PICK k : GoesOn(j, p, k)
  BY ActsGoOn
<1>2. /\ batch' = batch /\ place'[j][p] = k
      /\ \A i \in Jobs, q \in Providers : i # j \/ q # p => place'[i][q] = place[i][q]
  BY <1>1, Moved
<1>3. Jobs' = Jobs /\ Providers' = Providers /\ \A i : Steps(i)' = Steps(i)
  BY <1>2, BatchKept
<1>4. /\ \A i \in Jobs, q \in Providers : i # j \/ q # p => failed'[i][q] = failed[i][q]
      /\ Does(j, p) => failed' = failed
      /\ ~Does(j, p) => failed'[j][p] = failed[j][p] \cup {NextStep(j, p).kind}
  BY LostOnesKept
<1>5. /\ c \in Commands /\ Steps(j) = Run[c]
  BY SampleParts
<1>6. \A h \in 1..Len(Steps(j)) : Steps(j)[h].kind = "after" <=> h > last
  BY <1>5, RunKinds
<1>7. place[j][p] \in Nat /\ k \in Nat /\ last \in Nat /\ Len(Steps(j)) \in Nat /\ k >= 1
      /\ (Does(j, p) => k = place[j][p] + 1) /\ (~Does(j, p) => k > last)
  <2>1. Turn(j, p) /\ k \in 2..(Len(Steps(j)) + 1) /\ Len(Steps(j)) \in Nat /\ last \in Nat
    BY <1>1, <1>5, RunKinds DEF GoesOn
  <2>2. place[j][p] \in Nat
    BY <2>1, NextPlaces
  <2>3. Does(j, p) => k = place[j][p] + 1
    BY <1>2, ActsGoOn, Moved
  <2>4. ~Does(j, p) => k = OnError(j, p)
    BY <1>2, ActsGoOn, Moved
  <2>5. OnError(j, p) > last
    BY <2>1, NextPlaces
  <2>. QED  BY <2>1, <2>2, <2>3, <2>4, <2>5
<1>. HIDE DEF c, last
<1>8. ASSUME NEW i \in Jobs, NEW q \in Providers, "command" \in failed'[i][q],
             NEW h \in place'[i][q]..Len(Steps(i))
      PROVE  Steps(i)[h].kind = "after"
  <2>1. CASE i # j \/ q # p
    BY <1>2, <1>4, <1>8, <2>1 DEF Settled
  <2>2. CASE i = j /\ q = p /\ Does(j, p)
    <3>1. h \in place[j][p]..Len(Steps(j))
      BY <1>2, <1>7, <2>2
    <3>. QED  BY <1>4, <1>8, <2>2, <3>1 DEF Settled
  <2>3. CASE i = j /\ q = p /\ ~Does(j, p)
    <3>1. h \in 1..Len(Steps(j)) /\ h > last
      BY <1>2, <1>7, <2>3
    <3>. QED  BY <1>6, <2>3, <3>1
  <2>. QED  BY <2>1, <2>2, <2>3
<1>. QED  BY <1>3, <1>8 DEF Settled

-----------------------------------------------------------------------------
(* Shadow batches: what the fixtures and files hold *)

LEMMA RestoredParts ==
  ASSUME BatchTypes, NEW j \in Jobs, Restored(j)
  PROVE  Samples[j].command \in Hooked \cap Commands /\ Samples[j].serial
<1>1. Samples[j].command \in Hooked \cap Commands
  BY SampleParts, RestoredAreHooked DEF Restored, RestoredCommands
<1>. QED  BY <1>1, SampleParts

\* Samples of one fixture are run one after the other.
LEMMA OneByOne ==
  ASSUME BatchTypes, TakenInOrder, NEW i \in Jobs, NEW j \in Jobs, i < j,
         Fixture(i) = Fixture(j), j < next
  PROVE  Reports(i)
<1>1. Workers(batch) = {1}
  <2>1. /\ batch \in Batches /\ i \in DOMAIN batch.samples /\ j \in DOMAIN batch.samples
        /\ batch.samples[i].fixture = batch.samples[j].fixture
    BY DEF BatchTypes, Jobs, Samples, Fixture
  <2>2. i # j
    BY SampleParts
  <2>. QED  BY <2>1, <2>2, FixturesAssumption
<1>2. i \in Nat \ {0} /\ j \in Nat /\ next \in Nat
  <2>1. next \in 1..(Len(Samples) + 1)
    BY DEF BatchTypes
  <2>2. i \in Nat \ {0} /\ j \in Nat /\ Len(Samples) \in Nat
    BY SampleParts
  <2>. QED  BY <2>1, <2>2
<1>3. doing[1] # i
  BY <1>1, <1>2 DEF TakenInOrder
<1>. QED  BY <1>1, <1>2, <1>3 DEF TakenInOrder

\* Whoever's turn it is in a serial sample has the fixture to itself.
LEMMA HasItAlone ==
  ASSUME BatchTypes, TakenInOrder, InTurns, NEW j \in Jobs, NEW p \in Providers, Turn(j, p),
         Samples[j].serial
  PROVE  HasFixture(j, p)
<1>1. ASSUME NEW i \in Jobs, i # j, Fixture(i) = Fixture(j)
      PROVE  IF i < j THEN Reports(i) ELSE Unstarted(i)
  <2>1. j < next /\ ~Reports(j)
    BY RunsBeforeNext
  <2>2. CASE i < j
    BY <1>1, <2>1, <2>2, OneByOne
  <2>3. CASE ~(i < j)
    <3>1. j < i
      <4>1. i \in Nat /\ j \in Nat
        BY SampleParts
      <4>. QED  BY <1>1, <2>3, <4>1
    <3>2. ~(i < next)
      BY <1>1, <2>1, <3>1, OneByOne
    <3>. QED  BY <2>3, <3>2 DEF TakenInOrder
  <2>. QED  BY <2>2, <2>3
<1>2. ASSUME NEW q \in Providers  PROVE (q < p => Ended(j, q)) /\ (q > p => place[j][q] = 1)
  <2>1. q \in Nat /\ p \in Nat /\ q >= 1
    BY SampleParts
  <2>2. q < p => q \in 1..p - 1
    BY <2>1
  <2>3. q > p => place[j][q] = 1
    <3>1. q > p => p < q
      BY <2>1
    <3>. QED  BY <3>1 DEF InTurns, Turn
  <2>. QED  BY <2>2, <2>3 DEF Turn
<1>. QED  BY <1>1, <1>2 DEF HasFixture

\* Errors and lost commands only come.
LEMMA WereClean ==
  ASSUME batch' = batch, strays \subseteq strays', NEW i \in Jobs,
         \A h \in Jobs, q \in Providers : failed[h][q] \subseteq failed'[h][q],
         \A h \in Upto(i) : h \in Jobs
  PROVE  /\ Clean(i)' => Clean(i)
         /\ NoErrors(i)' => NoErrors(i)
         /\ NoneLost(i)' => NoneLost(i)
<1>1. Providers' = Providers /\ Samples' = Samples
      /\ \A h : /\ Upto(h)' = Upto(h) /\ Fixture(h)' = Fixture(h)
                /\ Restored(h)' = Restored(h)
  BY BatchKept
<1>2. NoneLost(i)' => NoneLost(i)
  BY <1>1 DEF NoneLost
<1>3. NoErrors(i)' => NoErrors(i)
  BY <1>1 DEF NoErrors
<1>4. Clean(i)' => Clean(i)
  BY <1>1, <1>2 DEF Clean
<1>. QED  BY <1>2, <1>3, <1>4

LEMMA Uptos ==
  ASSUME BatchTypes, NEW i \in Jobs
  PROVE  /\ i \in Upto(i) /\ \A h \in Upto(i) : h \in Jobs
         /\ \A j \in Jobs : j <= i /\ Fixture(j) = Fixture(i)
                            => j \in Upto(i) /\ Upto(j) \subseteq Upto(i)
<1>1. Jobs = 1..Len(Samples) /\ Len(Samples) \in Nat
  BY SampleParts DEF Jobs
<1>. QED  BY <1>1 DEF Upto

\* What a step makes of a fixture that is its own.
LEMMA ValueActs ==
  ASSUME BatchInv, NEW j \in Jobs, NEW p \in Providers, Acts(j, p), Clean(j)', HasFixture(j, p)
  PROVE  IsShown(fixtures'[Fixture(j)], Samples[j].command, place'[j][p], failed'[j][p])
<1>. DEFINE c == Samples[j].command
            k == place[j][p]
            v == fixtures[Fixture(j)]
<1>. USE DEF BatchInv
<1>1. PICK n : GoesOn(j, p, n)
  BY ActsGoOn
<1>2. Turn(j, p) /\ batch' = batch /\ place'[j][p] = n
  BY <1>1, Moved DEF GoesOn
<1>3. /\ k \in 1..Len(Steps(j)) /\ NextStep(j, p) = Run[c][k]
      /\ NextStep(j, p).kind \in {"command", "artifact"} => OnError(j, p) = LastAct(c) + 1
      /\ NextStep(j, p).set \in FieldSets
  BY <1>2, NextPlaces
<1>4. /\ strays \subseteq strays'
      /\ \A i \in Jobs, q \in Providers : failed[i][q] \subseteq failed'[i][q]
      /\ Does(j, p) => failed' = failed
      /\ ~Does(j, p) => failed'[j][p] = failed[j][p] \cup {NextStep(j, p).kind}
      /\ Lost(j, p) => \E l \in strays' : l[1] = j
  BY LostOnesKept
<1>5. Upto(j)' = Upto(j) /\ Providers' = Providers /\ Restored(j)' = Restored(j)
      /\ j \in Upto(j) /\ \A h \in Upto(j) : h \in Jobs
  BY <1>2, BatchKept, Uptos
<1>6. /\ Restored(j) /\ failed'[j][p] \subseteq {"command"}
      /\ \A l \in strays' : l[1] # j
  <2>1. Restored(j) /\ failed'[j][p] \subseteq {"command"}
    BY <1>5 DEF Clean
  <2>2. \A l \in strays' : Samples'[l[1]].fixture # Samples'[j].fixture
    BY DEF Clean, NoneLost, Fixture
  <2>. QED  BY <2>1, <2>2
<1>7. c \in Hooked /\ c \in Commands /\ Steps(j) = Run[c] /\ LastAct(c) = CommandAt(c)
  BY <1>6, RestoredParts, HookedDoNotExport, SampleParts
<1>8. IsShown(v, c, k, failed[j][p])
  <2>1. Clean(j)
    BY <1>2, <1>4, <1>5, WereClean
  <2>. QED  BY <2>1 DEF ValuesFollow
<1>9. CASE Does(j, p)
  <2>1. n = k + 1 /\ failed' = failed
    BY <1>2, <1>4, <1>9, ActsGoOn, Moved
  <2>2. fixtures'[Fixture(j)] = Overwritten(v, Run[c][k].set)
    BY <1>3, <1>9, FixtureWritten DEF Does
  <2>3. Run[c][k].kind \notin failed[j][p]
    <3>1. k \in k..Len(Steps(j))
      BY <1>3
    <3>2. "command" \in failed[j][p] => Run[c][k].kind = "after"
      BY <1>7, <3>1 DEF Settled
    <3>. QED  BY <1>6, <2>1, <3>2
  <2>4. IsShown(Overwritten(v, Run[c][k].set), c, k + 1, failed[j][p])
    BY <1>3, <1>7, <1>8, <2>3, ShownStep
  <2>. QED  BY <1>2, <2>1, <2>2, <2>4
<1>10. CASE Refused(j, p) /\ ~Does(j, p)
  <2>1. NextStep(j, p).kind = "command"
    BY <1>4, <1>6, <1>10
  <2>2. n = OnError(j, p)
    BY <1>2, <1>10, ActsGoOn, Moved
  <2>3. k = CommandAt(c) /\ n = CommandAt(c) + 1
    BY <1>3, <1>7, <2>1, <2>2, RunKinds
  <2>4. fixtures' = fixtures /\ failed'[j][p] = failed[j][p] \cup {"command"}
    BY <1>4, <1>10, <2>1 DEF Refused
  <2>5. IsShown(v, c, CommandAt(c) + 1, failed[j][p] \cup {"command"})
    BY <1>3, <1>7, <1>8, <2>3, ShownSkip
  <2>. QED  BY <1>2, <2>3, <2>4, <2>5
<1>. QED  BY <1>4, <1>6, <1>9, <1>10 DEF Acts

LEMMA ValuesAtActs ==
  ASSUME BatchInv, NEW j \in Jobs, NEW p \in Providers, Acts(j, p)
  PROVE  ValuesFollow'
<1>. USE DEF BatchInv
<1>1. PICK n : GoesOn(j, p, n)
  BY ActsGoOn
<1>2. /\ Turn(j, p) /\ batch' = batch /\ place'[j][p] = n /\ n \in 2..(Len(Steps(j)) + 1)
      /\ \A i \in Jobs, q \in Providers : i # j \/ q # p => place'[i][q] = place[i][q]
      /\ \A i \in Jobs : Unstarted(i)' => Unstarted(i) /\ i # j
      /\ \A i \in Jobs, q \in Providers : place'[i][q] \in 1..(Len(Steps(i)) + 1)
  BY <1>1, Moved DEF GoesOn
<1>3. /\ Samples' = Samples /\ Jobs' = Jobs /\ Providers' = Providers
      /\ \A i : /\ Fixture(i)' = Fixture(i) /\ Steps(i)' = Steps(i) /\ Upto(i)' = Upto(i)
                /\ Restored(i)' = Restored(i)
  BY <1>2, BatchKept
<1>4. /\ strays \subseteq strays'
      /\ \A i \in Jobs, q \in Providers : failed[i][q] \subseteq failed'[i][q]
      /\ \A i \in Jobs, q \in Providers : i # j \/ q # p => failed'[i][q] = failed[i][q]
  BY LostOnesKept
<1>5. SUFFICES ASSUME NEW i \in Jobs, NEW q \in Providers, Clean(i)', HasFixture(i, q)'
               PROVE  IsShown(fixtures'[Fixture(i)], Samples[i].command, place'[i][q],
                              failed'[i][q])
  BY <1>3 DEF ValuesFollow
<1>6. /\ \A h \in Jobs : h # i /\ Fixture(h) = Fixture(i)
                         => IF h < i THEN Reports(h)' ELSE Unstarted(h)'
      /\ \A r \in Providers : (r < q => Ended(i, r)') /\ (r > q => place'[i][r] = 1)
  BY <1>3, <1>5 DEF HasFixture
<1>7. CASE Fixture(i) # Fixture(j)
  <2>1. i # j
    BY <1>7
  <2>2. \A h \in Jobs : h # j => (Reports(h)' <=> Reports(h)) /\ (Unstarted(h)' <=> Unstarted(h))
    BY <1>2, <1>3 DEF Reports, Ended, Unstarted
  <2>3. \A r \in Providers : Ended(i, r)' <=> Ended(i, r)
    BY <1>2, <1>3, <2>1 DEF Ended
  <2>4. HasFixture(i, q)
    BY <1>2, <1>6, <1>7, <2>1, <2>2, <2>3 DEF HasFixture
  <2>5. Clean(i)
    BY <1>2, <1>4, <1>5, Uptos, WereClean
  <2>6. fixtures'[Fixture(i)] = fixtures[Fixture(i)]
    <3>1. Fixture(i) \in Fixtures(batch) /\ NextStep(j, p).set \in FieldSets
      BY <1>2, NextPlaces, SampleParts
    <3>2. fixtures' = fixtures \/ Applied(Fixture(j), NextStep(j, p).set)
      BY DEF Acts, Does, Refused, Lost, GetsLost
    <3>. QED  BY <1>7, <3>1, <3>2, FixtureWritten
  <2>. QED  BY <1>2, <1>4, <2>1, <2>4, <2>5, <2>6 DEF ValuesFollow
<1>8. CASE Fixture(i) = Fixture(j)
  <2>1. j \in Nat /\ i \in Nat
    BY SampleParts
  <2>2. j <= i
    BY <1>2, <1>6, <1>8, <2>1
  <2>3. /\ j \in Upto(i) /\ Upto(j) \subseteq Upto(i) /\ j \in Upto(j)
        /\ \A h \in Upto(j) : h \in Jobs
    BY <1>8, <2>2, Uptos
  <2>4. Restored(j) /\ Clean(j)'
    <3>1. \A l \in strays' : Samples'[l[1]].fixture # Samples'[i].fixture
      BY <1>5 DEF Clean, NoneLost, Fixture
    <3>2. Samples'[i].fixture = Samples'[j].fixture
      BY <1>3, <1>8 DEF Fixture
    <3>3. NoneLost(j)'
      BY <3>1, <3>2 DEF NoneLost, Fixture
    <3>. QED  BY <1>3, <1>5, <2>3, <3>3 DEF Clean
  <2>5. HasFixture(j, p)
    BY <1>2, <2>4, RestoredParts, HasItAlone
  <2>6. IsShown(fixtures'[Fixture(j)], Samples[j].command, place'[j][p], failed'[j][p])
    BY <2>4, <2>5, ValueActs
  <2>7. CASE i = j /\ q = p
    BY <2>6, <2>7
  <2>8. CASE ~(i = j /\ q = p)
    <3>1. q \in Nat /\ p \in Nat /\ Len(Steps(j)) \in Nat
      <4>1. Steps(j) = Run[Samples[j].command] /\ Samples[j].command \in Commands
        BY SampleParts
      <4>. QED  BY <4>1, SampleParts, RunKinds
    <3>2. Ended(j, p)' /\ place'[i][q] = 1
      <4>1. CASE i = j
        <5>1. ~(p > q)
          BY <1>2, <1>6, <3>1, <4>1
        <5>2. q > p /\ p < q
          BY <2>8, <3>1, <4>1, <5>1
        <5>. QED  BY <1>2, <1>6, <2>5, <4>1, <5>2 DEF HasFixture
      <4>2. CASE i # j
        <5>1. j < i /\ ~(i < j)
          BY <2>1, <2>2, <4>2
        <5>2. Reports(j)' /\ Unstarted(i)
          BY <1>6, <1>8, <2>5, <4>2, <5>1 DEF HasFixture
        <5>. QED  BY <1>2, <1>3, <4>2, <5>2 DEF Reports, Unstarted
      <4>. QED  BY <4>1, <4>2
    <3>3. place'[j][p] = Len(Steps(j)) + 1
      <4>1. place'[j][p] > Len(Steps(j))
        BY <1>3, <3>2 DEF Ended
      <4>. QED  BY <1>2, <3>1, <4>1
    <3>4. /\ Samples[j].command \in Hooked \cap Commands
          /\ Steps(j) = Run[Samples[j].command]
      BY <2>4, RestoredParts, SampleParts
    <3>5. /\ failed'[j][p] \in SUBSET {"command"}
          /\ "command" \in failed'[j][p] => Samples[j].command # "deleteAcl"
      BY <1>3, <2>3, <2>4 DEF Clean
    <3>6. fixtures'[Fixture(j)] = Baseline
      BY <2>6, <3>3, <3>4, <3>5, ShownLast
    <3>. QED  BY <1>8, <3>2, <3>6, ShownFirst
  <2>. QED  BY <2>7, <2>8
<1>. QED  BY <1>7, <1>8

\* A command that comes late comes to a fixture of which nothing is said any more.
LEMMA ValuesAtArrivals ==
  ASSUME BatchInv, NEW l \in delayed, Arrives(l)
  PROVE  ValuesFollow'
<1>. USE DEF BatchInv
<1>1. /\ l[1] \in Jobs /\ l[2] \in Providers /\ l \in strays
      /\ \A f \in Fixtures(batch) : f # Fixture(l[1]) => fixtures'[f] = fixtures[f]
  BY TypesAtArrivals
<1>2. /\ batch' = batch /\ place' = place /\ failed' = failed /\ strays' = strays
  BY DEF Arrives
<1>3. /\ Samples' = Samples /\ Jobs' = Jobs /\ Providers' = Providers
      /\ \A i : /\ Fixture(i)' = Fixture(i) /\ Steps(i)' = Steps(i) /\ Upto(i)' = Upto(i)
                /\ Restored(i)' = Restored(i)
  BY <1>2, BatchKept
<1>4. SUFFICES ASSUME NEW i \in Jobs, NEW q \in Providers, Clean(i)', HasFixture(i, q)'
               PROVE  IsShown(fixtures'[Fixture(i)], Samples[i].command, place'[i][q],
                              failed'[i][q])
  BY <1>3 DEF ValuesFollow
<1>5. Clean(i)
  BY <1>2, <1>4, Uptos, WereClean
<1>6. HasFixture(i, q)
  <2>1. \A h \in Jobs : /\ Reports(h)' <=> Reports(h)
                        /\ Unstarted(h)' <=> Unstarted(h)
                        /\ \A r \in Providers : Ended(h, r)' <=> Ended(h, r)
    BY <1>2, <1>3 DEF Reports, Ended, Unstarted
  <2>. QED  BY <1>2, <1>3, <1>4, <2>1 DEF HasFixture
<1>7. Fixture(i) # Fixture(l[1])
  BY <1>1, <1>5 DEF Clean, NoneLost
<1>8. fixtures'[Fixture(i)] = fixtures[Fixture(i)]
  BY <1>1, <1>7, SampleParts
<1>. QED  BY <1>2, <1>5, <1>6, <1>8 DEF ValuesFollow

LEMMA StartsAtActs ==
  ASSUME BatchInv, NEW j \in Jobs, NEW p \in Providers, Acts(j, p)
  PROVE  StartsFollow'
<1>. USE DEF BatchInv
<1>1. PICK n : GoesOn(j, p, n)
  BY ActsGoOn
<1>2. Turn(j, p) /\ batch' = batch
  BY <1>1, Moved DEF GoesOn
<1>3. /\ Samples' = Samples /\ Jobs' = Jobs /\ Providers' = Providers
      /\ \A i : Upto(i)' = Upto(i) /\ Restored(i)' = Restored(i)
  BY <1>2, BatchKept
<1>4. /\ strays \subseteq strays'
      /\ \A i \in Jobs, q \in Providers : failed[i][q] \subseteq failed'[i][q]
      /\ ~Does(j, p) => failed'[j][p] = failed[j][p] \cup {NextStep(j, p).kind}
  BY LostOnesKept
<1>5. start \in [Jobs -> [Providers -> {<<>>} \cup FieldValues]] /\ Finds(j, p)
  BY DEF BatchTypes, Acts, Does, Refused, Lost
<1>6. SUFFICES ASSUME NEW i \in Jobs, NEW q \in Providers, NoErrors(i)', start'[i][q] # <<>>
               PROVE  IsShown(start'[i][q], Samples[i].command, CommandAt(Samples[i].command), {})
  BY <1>3 DEF StartsFollow
<1>7. NoErrors(i)
  BY <1>2, <1>4, <1>6, Uptos, WereClean
<1>8. CASE start'[i][q] = start[i][q]
  BY <1>6, <1>7, <1>8 DEF StartsFollow
<1>9. CASE start'[i][q] # start[i][q]
  <2>. HIDE DEF FieldValues
  <2>1. /\ i = j /\ q = p /\ NextStep(j, p).kind = "command"
        /\ start'[i][q] = fixtures[Fixture(j)]
    BY <1>5, <1>9 DEF Finds
  <2>2. j \in Upto(j) /\ \A h \in Upto(j) : h \in Jobs
    BY Uptos
  <2>3. Restored(j) /\ failed[j][p] = {}
    BY <1>7, <2>1, <2>2 DEF NoErrors
  <2>4. Clean(j)
    <3>1. ASSUME NEW l \in strays, Fixture(l[1]) = Fixture(j)  PROVE FALSE
      <4>1. /\ l[1] \in Jobs /\ l[2] \in Providers /\ l[1] < next
            /\ failed[l[1]][l[2]] # {}
        BY DEF LostOnes
      <4>2. l[1] \notin Upto(j)
        BY <1>7, <2>1, <4>1 DEF NoErrors
      <4>3. j < l[1]
        <5>1. j \in Nat \ {0} /\ l[1] \in Nat \ {0}
          BY <4>1, SampleParts
        <5>. QED  BY <3>1, <4>2, <5>1 DEF Upto
      <4>4. Reports(j)
        BY <3>1, <4>1, <4>3, OneByOne
      <4>. QED  BY <1>2, <4>4 DEF Turn, Reports
    <3>. QED  BY <1>7, <2>1, <3>1 DEF NoErrors, NoneLost, Clean
  <2>5. HasFixture(j, p)
    BY <1>2, <2>3, RestoredParts, HasItAlone
  <2>6. IsShown(fixtures[Fixture(j)], Samples[j].command, place[j][p], {})
    BY <2>3, <2>4, <2>5 DEF ValuesFollow
  <2>7. place[j][p] = CommandAt(Samples[j].command)
    <3>1. /\ Samples[j].command \in Commands
          /\ Steps(j) = Run[Samples[j].command] /\ place[j][p] \in 1..Len(Steps(j))
          /\ NextStep(j, p) = Run[Samples[j].command][place[j][p]]
      BY <1>2, SampleParts, NextPlaces
    <3>. QED  BY <2>1, <3>1, RunKinds
  <2>. QED  BY <2>1, <2>6, <2>7
<1>. QED  BY <1>8, <1>9

\* The file of an export is not written while another provider compares it.
LEMMA FilesAtActs ==
  ASSUME BatchInv, NEW j \in Jobs, NEW p \in Providers, Acts(j, p)
  PROVE  FilesKept'
<1>. USE DEF BatchInv
<1>1. PICK n : GoesOn(j, p, n)
  BY ActsGoOn
<1>2. /\ Turn(j, p) /\ batch' = batch /\ place'[j][p] = n /\ n \in 2..(Len(Steps(j)) + 1)
      /\ \A i \in Jobs, q \in Providers : i # j \/ q # p => place'[i][q] = place[i][q]
  BY <1>1, Moved DEF GoesOn
<1>3. /\ Samples' = Samples /\ Jobs' = Jobs /\ Providers' = Providers
      /\ \A i : Fixture(i)' = Fixture(i) /\ Steps(i)' = Steps(i)
  BY <1>2, BatchKept
<1>4. /\ strays \subseteq strays'
      /\ Lost(j, p) => \E l \in strays' : l[1] = j
  BY LostOnesKept
<1>5. SUFFICES ASSUME NEW i \in Jobs, NEW q \in Providers, NoneLost(i)'
               PROVE  /\ read'[i][q] # NoOne => read'[i][q] = <<i, q>>
                      /\ ~Ended(i, q)' /\ Steps(i)[place'[i][q]].kind = "artifact"
                         => file'[Fixture(i)] = <<i, q>>
  BY <1>3 DEF FilesKept, NextStep
<1>6. \A l \in strays' : Fixture(l[1]) # Fixture(i)
  <2>1. \A l \in strays' : Samples'[l[1]].fixture # Samples'[i].fixture
    BY <1>5 DEF NoneLost, Fixture
  <2>. QED  BY <1>3, <2>1 DEF Fixture
<1>7. NoneLost(i) /\ (Fixture(i) = Fixture(j) => ~Lost(j, p))
  BY <1>4, <1>6 DEF NoneLost
<1>8. /\ read[i][q] # NoOne => read[i][q] = <<i, q>>
      /\ ~Ended(i, q) /\ NextStep(i, q).kind = "artifact" => file[Fixture(i)] = <<i, q>>
  BY <1>7 DEF FilesKept
<1>9. read'[i][q] # NoOne => read'[i][q] = <<i, q>>
  <2>1. CASE read' = read
    BY <1>8, <2>1
  <2>2. CASE read' # read
    <3>1. NextStep(j, p).kind = "artifact" /\ read' = [read EXCEPT ![j][p] = file[Fixture(j)]]
      BY <2>2 DEF Acts, Does, Refused, Lost
    <3>2. CASE i = j /\ q = p
      <4>1. ~Ended(j, p)
        BY <1>2 DEF Turn
      <4>2. file[Fixture(j)] = <<j, p>>
        BY <1>8, <3>1, <3>2, <4>1
      <4>. QED  BY <3>1, <3>2, <4>2 DEF BatchTypes
    <3>3. CASE ~(i = j /\ q = p)
      <4>1. read'[i][q] = read[i][q]
        BY <3>1, <3>3 DEF BatchTypes
      <4>. QED  BY <1>8, <4>1
    <3>. QED  BY <3>2, <3>3
  <2>. QED  BY <2>1, <2>2
<1>10. ASSUME ~Ended(i, q)', Steps(i)[place'[i][q]].kind = "artifact"
       PROVE  file'[Fixture(i)] = <<i, q>>
  <2>. DEFINE c == Samples[i].command
  <2>1. c \in Commands /\ Steps(i) = Run[c] /\ Fixture(i) \in Fixtures(batch)
    BY SampleParts
  <2>2. /\ CommandAt(c) \in Nat \ {0} /\ Len(Steps(i)) \in Nat
        /\ LastAct(c) = IF c \in Exports THEN CommandAt(c) + 1 ELSE CommandAt(c)
        /\ \A k \in 1..Len(Steps(i)) :
             /\ Steps(i)[k].kind = "command" <=> k = CommandAt(c)
             /\ Steps(i)[k].kind = "artifact" <=> k > CommandAt(c) /\ k <= LastAct(c)
    <3>1. LastAct(c) = IF c \in Exports THEN CommandAt(c) + 1 ELSE CommandAt(c)
      BY DEF LastAct
    <3>. HIDE DEF c
    <3>. QED  BY <2>1, <3>1, RunKinds
  <2>3. place'[i][q] \in 1..(Len(Steps(i)) + 1) /\ ~(place'[i][q] > Len(Steps(i)))
    BY <1>1, <1>3, <1>10, Moved DEF Ended
  <2>4. /\ place'[i][q] \in 1..Len(Steps(i)) /\ place'[i][q] = CommandAt(c) + 1
        /\ c \in Exports /\ place'[i][q] = LastAct(c)
    <3>1. place'[i][q] \in 1..Len(Steps(i))
      BY <2>2, <2>3
    <3>2. place'[i][q] > CommandAt(c) /\ place'[i][q] <= LastAct(c)
      BY <1>10, <2>2, <3>1
    <3>3. place'[i][q] \in Nat /\ CommandAt(c) \in Nat
      BY <2>2, <3>1
    <3>. HIDE DEF c
    <3>4. c \in Exports
      BY <2>2, <3>2, <3>3
    <3>. QED  BY <2>2, <3>1, <3>2, <3>3, <3>4
  <2>5. CASE i = j /\ q = p
    <3>1. Does(j, p)
      <4>1. SUFFICES ASSUME ~Does(j, p)  PROVE FALSE
        OBVIOUS
      <4>2. n = OnError(j, p)
        BY <1>2, <4>1, ActsGoOn, Moved
      <4>3. OnError(j, p) > LastAct(c) /\ LastAct(c) \in Nat
        BY <1>2, <2>1, <2>5, NextPlaces, RunKinds
      <4>. QED  BY <1>2, <2>4, <2>5, <4>2, <4>3
    <3>2. n = place[j][p] + 1 /\ place[j][p] \in 1..Len(Steps(j))
      BY <1>2, <3>1, ActsGoOn, Moved, NextPlaces
    <3>3. place[j][p] = CommandAt(c)
      BY <1>2, <2>2, <2>4, <2>5, <3>2
    <3>4. NextStep(j, p).kind = "command"
      BY <2>2, <2>5, <3>2, <3>3 DEF NextStep
    <3>. QED  BY <2>1, <2>4, <2>5, <3>1, <3>4 DEF Does, Written, BatchTypes
  <2>6. CASE ~(i = j /\ q = p)
    <3>1. place'[i][q] = place[i][q]
      BY <1>2, <2>6
    <3>2. ~Ended(i, q) /\ NextStep(i, q).kind = "artifact" /\ place[i][q] # 1
      BY <1>3, <1>10, <2>2, <2>4, <3>1 DEF Ended, NextStep
    <3>3. file[Fixture(i)] = <<i, q>>
      BY <1>8, <3>2
    <3>4. file'[Fixture(i)] = file[Fixture(i)]
      <4>1. SUFFICES ASSUME file'[Fixture(i)] # file[Fixture(i)]  PROVE FALSE
        OBVIOUS
      <4>2. Written(j, p) /\ file' # file
        BY <4>1 DEF Acts, Does, Refused, Lost, GetsLost
      <4>3. /\ Samples[j].command \in Exports
            /\ file' = [file EXCEPT ![Fixture(j)] = <<j, p>>]
        BY <4>2 DEF Written
      <4>4. Fixture(i) = Fixture(j)
        BY <2>1, <4>1, <4>3 DEF BatchTypes
      <4>5. HasFixture(j, p)
        BY <1>2, <4>3, HasItAlone, SampleParts
      <4>6. ~Reports(i) /\ ~Unstarted(i)
        BY <3>2 DEF Reports, Unstarted
      <4>7. i = j
        BY <4>4, <4>5, <4>6 DEF HasFixture
      <4>8. q \in Nat /\ p \in Nat
        BY SampleParts
      <4>9. q < p \/ q > p
        BY <2>6, <4>7, <4>8
      <4>. QED  BY <3>2, <4>5, <4>7, <4>9 DEF HasFixture
    <3>. QED  BY <3>3, <3>4
  <2>. QED  BY <2>5, <2>6
<1>. QED  BY <1>9, <1>10

LEMMA FilesAtArrivals ==
  ASSUME BatchInv, NEW l \in delayed, Arrives(l)
  PROVE  FilesKept'
<1>. USE DEF BatchInv
<1>1. /\ l[1] \in Jobs /\ l \in strays
      /\ \A f \in Fixtures(batch) : f # Fixture(l[1]) => file'[f] = file[f]
  BY TypesAtArrivals
<1>2. batch' = batch /\ place' = place /\ read' = read /\ strays' = strays
  BY DEF Arrives
<1>3. /\ Samples' = Samples /\ Jobs' = Jobs /\ Providers' = Providers
      /\ \A i : Fixture(i)' = Fixture(i) /\ Steps(i)' = Steps(i)
  BY <1>2, BatchKept
<1>4. SUFFICES ASSUME NEW i \in Jobs, NEW q \in Providers, NoneLost(i)'
               PROVE  /\ read'[i][q] # NoOne => read'[i][q] = <<i, q>>
                      /\ ~Ended(i, q)' /\ NextStep(i, q)'.kind = "artifact"
                         => file'[Fixture(i)] = <<i, q>>
  BY <1>3 DEF FilesKept
<1>5. NoneLost(i)
  BY <1>2, <1>3, <1>4 DEF NoneLost
<1>6. file'[Fixture(i)] = file[Fixture(i)]
  BY <1>1, <1>5, SampleParts DEF NoneLost
<1>7. (Ended(i, q)' <=> Ended(i, q)) /\ NextStep(i, q)' = NextStep(i, q)
  BY <1>2, <1>3 DEF Ended, NextStep
<1>. QED  BY <1>2, <1>5, <1>6, <1>7 DEF FilesKept

-----------------------------------------------------------------------------
(* Shadow batches: the theorems *)

LEMMA BatchStarts ==
  ASSUME BatchInit
  PROVE  BatchInv
<1>. USE DEF BatchInit
<1>. HIDE DEF FieldValues
<1>1. /\ batch.samples \in Seq([command : Commands, serial : BOOLEAN, fixture : Nat])
      /\ batch.providers \in Seq(Nat) \ {<<>>}
  BY BatchesAssumption
<1>2. Jobs = 1..Len(Samples) /\ Len(Samples) \in Nat /\ Providers \subseteq Nat \ {0}
  BY <1>1, ProvidersCounted DEF Jobs, Samples, Providers
<1>3. \A j \in Jobs : Samples[j].command \in Commands
  <2>. DEFINE R == [command : Commands, serial : BOOLEAN, fixture : Nat]
  <2>1. Samples \in Seq(R)
    BY <1>1 DEF Samples
  <2>. HIDE DEF R
  <2>2. \A j \in Jobs : Samples[j] \in R
    BY <2>1 DEF Jobs
  <2>. QED  BY <2>2 DEF R
<1>4. \A j \in Jobs : Len(Steps(j)) \in Nat /\ Len(Steps(j)) >= 1
  <2>1. \A c \in Commands : Len(Run[c]) \in Nat /\ Len(Run[c]) >= 1
    <3>1. ASSUME NEW c \in Commands  PROVE Len(Run[c]) \in Nat /\ Len(Run[c]) >= 1
      <4>1. Len(afterRun(c)) \in Nat
        BY HooksAreSets
      <4>. QED  BY <4>1, RunKinds
    <3>. QED  BY <3>1
  <2>. QED  BY <1>3, <2>1 DEF Steps
<1>5. \A j \in Jobs, p \in Providers :
        place[j][p] = 1 /\ failed[j][p] = {} /\ start[j][p] = <<>> /\ read[j][p] = NoOne
  OBVIOUS
<1>6. BatchTypes
  BY <1>2, <1>4, <1>5, BaselineIsValue DEF BatchTypes
<1>7. LostOnes
  BY DEF LostOnes
<1>8. TakenInOrder
  BY <1>2, <1>5 DEF TakenInOrder, Unstarted
<1>9. InTurns /\ Settled
  BY <1>5 DEF InTurns, Settled
<1>10. \A j \in Jobs : fixtures[Fixture(j)] = Baseline
  BY DEF Fixtures, Fixture, Jobs, Samples
<1>11. ValuesFollow
  <2>1. ASSUME NEW j \in Jobs, NEW p \in Providers
        PROVE  IsShown(fixtures[Fixture(j)], Samples[j].command, place[j][p], failed[j][p])
    <3>1. IsShown(Baseline, Samples[j].command, 1, failed[j][p])
      BY ShownFirst
    <3>2. place[j][p] = 1
      BY <1>5
    <3>3. fixtures[Fixture(j)] = Baseline
      BY <1>10
    <3>. QED  BY <3>1, <3>2, <3>3
  <2>. QED  BY <2>1 DEF ValuesFollow
<1>12. StartsFollow
  BY <1>5 DEF StartsFollow
<1>13. FilesKept
  <2>1. \A j \in Jobs, p \in Providers : NextStep(j, p).kind # "artifact"
    <3>1. \A c \in Commands : Run[c][1].kind # "artifact"
      <4>1. ASSUME NEW c \in Commands  PROVE Run[c][1].kind # "artifact"
        <5>1. Len(afterRun(c)) \in Nat
          BY HooksAreSets
        <5>2. 1 \in 1..Len(Run[c]) /\ ~(1 > CommandAt(c))
          BY <5>1, RunKinds
        <5>. QED  BY <5>2, RunKinds
      <4>. QED  BY <4>1
    <3>. QED  BY <1>3, <1>5, <3>1 DEF NextStep, Steps
  <2>. QED  BY <1>5, <2>1 DEF FilesKept
<1>. QED  BY <1>6, <1>7, <1>8, <1>9, <1>11, <1>12, <1>13 DEF BatchInv

\* Of what workers do the samples and their fixtures take no notice.
LEMMA KeptAtWorkers ==
  ASSUME BatchInv, next' \in {next, next + 1},
         UNCHANGED <<batch, place, failed, start, fixtures, file, read, strays, delayed>>
  PROVE  LostOnes' /\ InTurns' /\ Settled' /\ ValuesFollow' /\ StartsFollow' /\ FilesKept'
<1>. USE DEF BatchInv
<1>1. /\ batch' = batch /\ place' = place /\ failed' = failed /\ start' = start
      /\ fixtures' = fixtures /\ file' = file /\ read' = read /\ delayed' = delayed
      /\ strays' = strays
  OBVIOUS
<1>2. LostOnes'
  <2>1. \A j \in Jobs : j < next => j < next'
    <3>1. next \in Nat /\ \A j \in Jobs : j \in Nat
      BY SampleParts DEF BatchTypes
    <3>. QED  BY <3>1
  <2>. QED  BY <1>1, <2>1 DEF LostOnes, Jobs, Providers, Samples, Steps
<1>3. InTurns' /\ Settled'
  BY <1>1 DEF InTurns, Settled, Ended, Jobs, Providers, Samples, Steps
<1>4. ValuesFollow'
  BY <1>1 DEF ValuesFollow, Clean, NoneLost, HasFixture, Reports, Unstarted, Ended, Jobs, Providers,
              Samples, Steps, Fixture, Upto, Restored
<1>5. StartsFollow'
  BY <1>1 DEF StartsFollow, NoErrors, Jobs, Providers, Samples, Upto, Fixture, Restored
<1>6. FilesKept'
  <2>1. Jobs' = Jobs /\ Providers' = Providers
    BY <1>1 DEF Jobs, Providers, Samples
  <2>2. \A j : /\ Fixture(j)' = Fixture(j) /\ NoneLost(j)' = NoneLost(j)
               /\ \A p : Ended(j, p)' = Ended(j, p) /\ NextStep(j, p)' = NextStep(j, p)
    BY <1>1 DEF NoneLost, Ended, NextStep, Samples, Steps, Fixture
  <2>. QED  BY <1>1, <2>1, <2>2 DEF FilesKept
<1>. QED  BY <1>2, <1>3, <1>4, <1>5, <1>6

LEMMA KeptAtArrivals ==
  ASSUME BatchInv, NEW l \in delayed, Arrives(l)
  PROVE  LostOnes' /\ TakenInOrder' /\ InTurns' /\ Settled' /\ StartsFollow'
<1>. USE DEF BatchInv
<1>1. /\ batch' = batch /\ next' = next /\ doing' = doing /\ place' = place
      /\ failed' = failed /\ start' = start /\ strays' = strays /\ delayed' \subseteq delayed
  BY DEF Arrives
<1>2. LostOnes'
  BY <1>1 DEF LostOnes, Jobs, Providers, Samples, Steps
<1>3. InTurns' /\ Settled'
  BY <1>1 DEF InTurns, Settled, Ended, Jobs, Providers, Samples, Steps
<1>4. TakenInOrder'
  BY <1>1 DEF TakenInOrder, Reports, Unstarted, Ended, Jobs, Providers, Samples, Steps, Workers
<1>5. StartsFollow'
  BY <1>1 DEF StartsFollow, NoErrors, Jobs, Providers, Samples, Upto, Fixture, Restored
<1>. QED  BY <1>2, <1>3, <1>4, <1>5

\* An attempt that gets lost before the next transport: the provider stays where it is,
\* and only its own fixture changes.
LEMMA FallenBack ==
  ASSUME BatchInv, NEW j \in Jobs, NEW p \in Providers, TriesNext(j, p)
  PROVE  /\ UNCHANGED <<batch, next, doing, place, start, read>>
         /\ strays' = strays \cup {Stray(j, p)} /\ delayed' \subseteq delayed \cup {Stray(j, p)}
         /\ failed' \in [Jobs -> [Providers -> SUBSET StepKinds]]
         /\ failed'[j][p] # {}
         /\ \A i \in Jobs, q \in Providers :
              /\ failed[i][q] \subseteq failed'[i][q]
              /\ "command" \in failed'[i][q] => "command" \in failed[i][q]
              /\ i # j => failed'[i][q] = failed[i][q]
         /\ fixtures' \in [Fixtures(batch) -> FieldValues]
         /\ file' \in [Fixtures(batch) -> {NoOne} \cup Jobs \X Providers]
         /\ \A f \in Fixtures(batch) :
              f # Fixture(j) => fixtures'[f] = fixtures[f] /\ file'[f] = file[f]
<1>. HIDE DEF FieldValues, FieldSets
<1>1. UNCHANGED <<batch, next, doing, place, start, read>> /\ GetsLost(j, p) /\ Turn(j, p)
  BY DEF TriesNext
<1>2. BatchTypes /\ Fixture(j) \in Fixtures(batch) /\ NextStep(j, p).set \in FieldSets
  <2>1. BatchTypes
    BY DEF BatchInv
  <2>. QED  BY <1>1, <2>1, SampleParts, NextPlaces
<1>3. strays' = strays \cup {Stray(j, p)} /\ delayed' \subseteq delayed \cup {Stray(j, p)}
  BY <1>1 DEF GetsLost
<1>4. /\ failed \in [Jobs -> [Providers -> SUBSET StepKinds]] /\ "fallback" \in StepKinds
      /\ failed' = [failed EXCEPT ![j][p] = @ \cup {"fallback"}]
  BY <1>2 DEF BatchTypes, TriesNext, StepKinds
<1>5. failed' \in [Jobs -> [Providers -> SUBSET StepKinds]]
  BY <1>4
<1>6. /\ failed'[j][p] = failed[j][p] \cup {"fallback"}
      /\ \A i \in Jobs, q \in Providers : i # j \/ q # p => failed'[i][q] = failed[i][q]
  BY <1>4
<1>7. \A i \in Jobs, q \in Providers :
        /\ failed[i][q] \subseteq failed'[i][q]
        /\ "command" \in failed'[i][q] => "command" \in failed[i][q]
        /\ i # j => failed'[i][q] = failed[i][q]
  BY <1>6
<1>8. \/ Applied(Fixture(j), NextStep(j, p).set) /\ Written(j, p)
      \/ fixtures' = fixtures /\ file' = file
  BY <1>1 DEF GetsLost
<1>9. /\ fixtures' \in [Fixtures(batch) -> FieldValues]
      /\ \A f \in Fixtures(batch) : f # Fixture(j) => fixtures'[f] = fixtures[f]
  <2>1. CASE Applied(Fixture(j), NextStep(j, p).set)
    BY <1>2, <2>1, FixtureWritten
  <2>2. CASE fixtures' = fixtures
    BY <1>2, <2>2 DEF BatchTypes
  <2>. QED  BY <1>8, <2>1, <2>2
<1>10. /\ file' \in [Fixtures(batch) -> {NoOne} \cup Jobs \X Providers]
       /\ \A f \in Fixtures(batch) : f # Fixture(j) => file'[f] = file[f]
  <2>. DEFINE N == {NoOne} \cup Jobs \X Providers
  <2>1. <<j, p>> \in N /\ file \in [Fixtures(batch) -> N]
    BY <1>2 DEF BatchTypes
  <2>. HIDE DEF N
  <2>2. /\ file' \in [Fixtures(batch) -> N]
        /\ \A f \in Fixtures(batch) : f # Fixture(j) => file'[f] = file[f]
    BY <1>2, <1>8, <2>1 DEF Written
  <2>. QED  BY <2>2 DEF N
<1>. QED  BY <1>1, <1>3, <1>5, <1>6, <1>7, <1>9, <1>10

LEMMA KeptAtFallbacks ==
  ASSUME BatchInv, NEW j \in Jobs, NEW p \in Providers, TriesNext(j, p)
  PROVE  BatchInv'
<1>. HIDE DEF FieldValues
<1>1. /\ batch' = batch /\ next' = next /\ doing' = doing /\ place' = place
      /\ start' = start /\ read' = read /\ strays' = strays \cup {Stray(j, p)}
      /\ delayed' \subseteq delayed \cup {Stray(j, p)}
  BY FallenBack
<1>2. /\ Samples' = Samples /\ Jobs' = Jobs /\ Providers' = Providers
      /\ \A i : /\ Fixture(i)' = Fixture(i) /\ Steps(i)' = Steps(i) /\ Upto(i)' = Upto(i)
                /\ Restored(i)' = Restored(i)
  BY <1>1, BatchKept
<1>3. (Fixtures(batch))' = Fixtures(batch) /\ (Workers(batch))' = Workers(batch)
  BY <1>1 DEF Fixtures, Workers
<1>4. /\ BatchTypes /\ LostOnes /\ TakenInOrder /\ InTurns /\ Settled
      /\ ValuesFollow /\ StartsFollow /\ FilesKept
  BY DEF BatchInv
<1>5. /\ failed' \in [Jobs -> [Providers -> SUBSET StepKinds]] /\ failed'[j][p] # {}
      /\ \A i \in Jobs, q \in Providers : failed[i][q] \subseteq failed'[i][q]
      /\ \A i \in Jobs, q \in Providers : "command" \in failed'[i][q] => "command" \in failed[i][q]
      /\ \A i \in Jobs, q \in Providers : i # j => failed'[i][q] = failed[i][q]
  BY FallenBack
<1>6. /\ fixtures' \in [Fixtures(batch) -> FieldValues]
      /\ file' \in [Fixtures(batch) -> {NoOne} \cup Jobs \X Providers]
      /\ \A f \in Fixtures(batch) :
           f # Fixture(j) => fixtures'[f] = fixtures[f] /\ file'[f] = file[f]
  BY FallenBack
<1>7. /\ \A i \in Jobs, q \in Providers : Ended(i, q)' <=> Ended(i, q)
      /\ \A i \in Jobs : (Reports(i)' <=> Reports(i)) /\ (Unstarted(i)' <=> Unstarted(i))
      /\ \A i \in Jobs, q \in Providers : NextStep(i, q)' = NextStep(i, q)
  BY <1>1, <1>2 DEF Ended, Reports, Unstarted, NextStep
<1>8. BatchTypes'
  BY <1>1, <1>2, <1>3, <1>4, <1>5, <1>6 DEF BatchTypes
<1>9. LostOnes'
  <2>. DEFINE n == Stray(j, p)
  <2>1. Turn(j, p)
    BY DEF TriesNext
  <2>2. n[1] = j /\ n[2] = p /\ n[3] \in 1..Len(Steps(j)) /\ j < next
    BY <1>4, <2>1, NextPlaces, RunsBeforeNext DEF Stray
  <2>. HIDE DEF n
  <2>3. ASSUME NEW l \in strays \cup {n}
        PROVE  /\ l[1] \in Jobs /\ l[2] \in Providers /\ l[3] \in 1..Len(Steps(l[1]))
               /\ l[1] < next /\ failed'[l[1]][l[2]] # {}
    <3>1. CASE l = n
      BY <1>5, <2>2, <3>1
    <3>2. CASE l \in strays
      BY <1>4, <1>5, <3>2 DEF LostOnes
    <3>. QED  BY <3>1, <3>2
  <2>4. delayed' \subseteq strays \cup {n}
    BY <1>1, <1>4 DEF LostOnes, n
  <2>5. strays' = strays \cup {n}
    BY <1>1 DEF n
  <2>. QED  BY <1>1, <1>2, <2>3, <2>4, <2>5 DEF LostOnes
<1>10. TakenInOrder' /\ InTurns'
  BY <1>1, <1>2, <1>3, <1>4, <1>7 DEF TakenInOrder, InTurns
<1>11. Settled'
  BY <1>1, <1>2, <1>4, <1>5 DEF Settled
<1>12. ASSUME NEW i \in Jobs, NoneLost(i)'
       PROVE  /\ Fixture(i) # Fixture(j) /\ i # j
              /\ fixtures'[Fixture(i)] = fixtures[Fixture(i)] /\ file'[Fixture(i)] = file[Fixture(i)]
  <2>1. Samples'[Stray(j, p)[1]].fixture # Samples'[i].fixture
    BY <1>1, <1>12 DEF NoneLost, Fixture
  <2>2. Samples[j].fixture # Samples[i].fixture
    BY <1>2, <2>1 DEF Stray
  <2>3. Fixture(i) # Fixture(j) /\ i # j
    BY <2>2 DEF Fixture
  <2>. QED  BY <1>4, <1>6, <2>3, SampleParts
<1>13. \A i \in Jobs : /\ Clean(i)' => Clean(i)
                       /\ NoErrors(i)' => NoErrors(i)
                       /\ NoneLost(i)' => NoneLost(i)
  BY <1>1, <1>4, <1>5, Uptos, WereClean
<1>14. ValuesFollow'
  <2>1. SUFFICES ASSUME NEW i \in Jobs, NEW q \in Providers, Clean(i)', HasFixture(i, q)'
                 PROVE  IsShown(fixtures'[Fixture(i)], Samples[i].command, place'[i][q],
                                failed'[i][q])
    BY <1>2 DEF ValuesFollow
  <2>2. HasFixture(i, q)
    BY <1>1, <1>2, <1>7, <2>1 DEF HasFixture
  <2>3. Clean(i) /\ NoneLost(i)'
    BY <1>13, <2>1 DEF Clean
  <2>4. /\ fixtures'[Fixture(i)] = fixtures[Fixture(i)] /\ failed'[i][q] = failed[i][q]
        /\ place'[i][q] = place[i][q]
    BY <1>1, <1>5, <1>12, <2>3
  <2>. QED  BY <1>4, <2>2, <2>3, <2>4 DEF ValuesFollow
<1>15. StartsFollow'
  BY <1>1, <1>2, <1>4, <1>13 DEF StartsFollow
<1>16. FilesKept'
  <2>1. SUFFICES ASSUME NEW i \in Jobs, NEW q \in Providers, NoneLost(i)'
                 PROVE  /\ read'[i][q] # NoOne => read'[i][q] = <<i, q>>
                        /\ ~Ended(i, q)' /\ NextStep(i, q)'.kind = "artifact"
                           => file'[Fixture(i)] = <<i, q>>
    BY <1>2 DEF FilesKept
  <2>2. NoneLost(i) /\ file'[Fixture(i)] = file[Fixture(i)]
    BY <1>12, <1>13, <2>1
  <2>. QED  BY <1>1, <1>4, <1>7, <2>2 DEF FilesKept
<1>. QED  BY <1>8, <1>9, <1>10, <1>11, <1>14, <1>15, <1>16 DEF BatchInv

LEMMA BatchKeeps ==
  ASSUME BatchInv, [BatchNext]_batchVars
  PROVE  BatchInv'
<1>1. ASSUME NEW w \in DOMAIN doing, Takes(w) \/ Finishes(w)  PROVE BatchInv'
  <2>1. /\ UNCHANGED <<batch, place, failed, start, fixtures, file, read, strays, delayed>>
        /\ next' \in {next, next + 1}
    BY <1>1 DEF Takes, Finishes
  <2>. QED  BY <1>1, <2>1, TypesAtWorkers, TakenAtWorkers, KeptAtWorkers DEF BatchInv
<1>2. ASSUME NEW j \in Jobs, NEW p \in Providers, Acts(j, p)  PROVE BatchInv'
  <2>1. BatchTypes /\ LostOnes /\ TakenInOrder /\ InTurns /\ Settled
    BY DEF BatchInv
  <2>. QED  BY <1>2, <2>1, TypesAtActs, LostOnesKept, TakenAtActs, TurnsAtActs, SettledAtActs,
               ValuesAtActs, StartsAtActs, FilesAtActs DEF BatchInv
<1>3. ASSUME NEW l \in delayed, Arrives(l)  PROVE BatchInv'
  BY <1>3, TypesAtArrivals, KeptAtArrivals, ValuesAtArrivals, FilesAtArrivals DEF BatchInv
<1>4. CASE UNCHANGED batchVars
  <2>1. UNCHANGED <<batch, place, failed, start, fixtures, file, read, strays, delayed>>
        /\ next' = next /\ doing' = doing
    BY <1>4 DEF batchVars
  <2>2. BatchTypes'
    <3>. HIDE DEF FieldValues
    <3>. QED  BY <2>1 DEF BatchInv, BatchTypes, Jobs, Providers, Samples, Steps, Fixtures, Workers
  <2>3. TakenInOrder'
    BY <2>1 DEF BatchInv, TakenInOrder, Reports, Unstarted, Ended, Jobs, Providers, Samples,
       Steps, Workers
  <2>. QED  BY <2>1, <2>2, <2>3, KeptAtWorkers DEF BatchInv
<1>5. ASSUME NEW j \in Jobs, NEW p \in Providers, TriesNext(j, p)  PROVE BatchInv'
  BY <1>5, KeptAtFallbacks
<1>. QED  BY <1>1, <1>2, <1>3, <1>4, <1>5 DEF BatchNext, Progress, Acts

LEMMA BatchInvariant ==
  BatchSpec => []BatchInv
<1>1. BatchInit => BatchInv
  BY BatchStarts
<1>2. BatchInv /\ [BatchNext]_batchVars => BatchInv'
  BY BatchKeeps
<1>. QED  BY <1>1, <1>2, PTL DEF BatchSpec

\* The providers of a sample find the fixture alike, and in a state that the command
\* changes (the chains of hooks in runM6ShadowBatch), if the samples before on the fixture
\* bring it back, none of them reports an error, and none fell back.
THEOREM ProvidersStartAlike ==
  BatchSpec => []TargetsStartAlike
<1>1. ASSUME BatchInv  PROVE TargetsStartAlike
  <2>. USE DEF BatchInv
  <2>1. BatchTypeOK
    <3>1. \A f \in Fixtures(batch) : DOMAIN fixtures[f] = DOMAIN Baseline
      <4>1. \A v \in FieldValues : DOMAIN v = Fields
        BY DEF FieldValues
      <4>2. \A f \in Fixtures(batch) : fixtures[f] \in FieldValues
        BY <1>1 DEF BatchTypes
      <4>. QED  BY <4>1, <4>2 DEF Fields
    <3>. QED  BY <1>1, <3>1 DEF BatchTypes, StepKinds, BatchTypeOK
  <2>2. ASSUME NEW j \in Jobs, NEW p \in Providers, NEW q \in Providers, NoErrors(j),
               start[j][p] # <<>>, start[j][q] # <<>>
        PROVE  /\ start[j][p] = start[j][q]
               /\ Overwritten(start[j][p], Changes(Samples[j].command)) # start[j][p]
    <3>. DEFINE c == Samples[j].command
    <3>1. IsShown(start[j][p], c, CommandAt(c), {}) /\ IsShown(start[j][q], c, CommandAt(c), {})
      BY <1>1, <2>2 DEF StartsFollow
    <3>2. c \in Hooked \cap Commands
      <4>1. j \in Upto(j)
        BY <1>1, Uptos
      <4>2. Restored(j)
        BY <2>2, <4>1 DEF NoErrors
      <4>. QED  BY <1>1, <4>2, RestoredParts
    <3>3. CommandAt(c) \in Nat
      BY <3>2, RunKinds
    <3>. HIDE DEF c
    <3>4. start[j][p] = start[j][q]
      BY <3>1, <3>3, ShownOnce
    <3>5. Overwritten(start[j][p], Changes(c)) # start[j][p]
      BY <3>1, <3>2, ShownAlters
    <3>. QED  BY <3>4, <3>5 DEF c
  <2>. QED  BY <2>1, <2>2 DEF TargetsStartAlike, NoErrors
<1>. QED  BY <1>1, BatchInvariant, PTL

\* The after hooks bring a fixture back, also when the command was refused.
THEOREM HooksBringBack ==
  BatchSpec => []FixturesComeBack
<1>1. ASSUME BatchInv  PROVE FixturesComeBack
  <2>. USE DEF BatchInv
  <2>1. SUFFICES ASSUME NEW j \in Jobs, Restored(j), Reports(j), NoneLost(j),
                        \A i \in Jobs : Fixture(i) = Fixture(j) =>
                          /\ i \in Upto(j) \/ Unstarted(i)
                          /\ Restored(i)
                          /\ \A p \in Providers : failed[i][p] \subseteq {"command"}
                          /\ \A p \in Providers :
                               "command" \in failed[i][p] => Samples[i].command # "deleteAcl"
                 PROVE  fixtures[Fixture(j)] = Baseline
    BY DEF FixturesComeBack, Unstarted
  <2>2. j \in Upto(j) /\ \A i \in Upto(j) : i \in Jobs /\ Fixture(i) = Fixture(j)
    BY <1>1, Uptos DEF Upto
  <2>3. Clean(j)
    BY <2>1, <2>2 DEF Clean
  <2>. DEFINE p == Len(batch.providers)
              c == Samples[j].command
  <2>4. Len(batch.providers) \in Nat \ {0} /\ Providers = 1..Len(batch.providers)
    BY <1>1, SampleParts DEF Providers
  <2>5. p \in Providers /\ \A q \in Providers : ~(q > p)
    BY <2>4
  <2>6. c \in Hooked \cap Commands /\ Steps(j) = Run[c]
    BY <1>1, <2>1, RestoredParts, SampleParts
  <2>. HIDE DEF p, c
  <2>7. j \in Nat /\ \A i \in Jobs : i \in Nat
    BY <1>1, SampleParts
  <2>8. Len(Steps(j)) \in Nat /\ Len(Steps(j)) >= 1
    <3>1. Len(afterRun(c)) \in Nat
      BY HooksAreSets
    <3>. QED  BY <2>6, <3>1, RunKinds
  <2>9. CASE HasFixture(j, p)
    <3>1. IsShown(fixtures[Fixture(j)], c, place[j][p], failed[j][p])
      BY <1>1, <2>3, <2>5, <2>9 DEF ValuesFollow, c
    <3>2. place[j][p] = Len(Steps(j)) + 1
      <4>1. place[j][p] \in 1..(Len(Steps(j)) + 1) /\ place[j][p] > Len(Steps(j))
        BY <1>1, <2>1, <2>5 DEF BatchTypes, Reports, Ended
      <4>2. Len(Steps(j)) \in Nat
        BY <2>6, RunKinds
      <4>. QED  BY <4>1, <4>2
    <3>3. /\ failed[j][p] \in SUBSET {"command"}
          /\ "command" \in failed[j][p] => c # "deleteAcl"
      BY <2>1, <2>5 DEF c
    <3>. QED  BY <2>6, <3>1, <3>2, <3>3, ShownLast
  <2>10. CASE ~HasFixture(j, p)
    <3>1. PICK i \in Jobs : /\ i # j /\ Fixture(i) = Fixture(j)
                            /\ ~(IF i < j THEN Reports(i) ELSE Unstarted(i))
      BY <2>1, <2>5, <2>10 DEF HasFixture, Reports
    <3>2. i < j
      <4>1. i \in Upto(j) => i <= j
        BY <2>7 DEF Upto
      <4>2. Unstarted(i) => i < j
        BY <3>1
      <4>3. ~Unstarted(i) => i \in Upto(j)
        BY <2>1, <3>1
      <4>. QED  BY <2>7, <3>1, <4>1, <4>2, <4>3
    <3>3. j < next
      <4>1. place[j][p] # 1
        BY <2>1, <2>5, <2>6, <2>8 DEF Reports, Ended
      <4>. QED  BY <1>1, <2>5, <4>1 DEF TakenInOrder, Unstarted
    <3>. QED  BY <1>1, <3>1, <3>2, <3>3, OneByOne
  <2>. QED  BY <2>9, <2>10
<1>. QED  BY <1>1, BatchInvariant, PTL

\* What is compared as a provider's export was written by it (SerialTargets: fixed paths
\* must not overwrite each other).
THEOREM FilesAreOwn ==
  BatchSpec => []ArtifactsAreOwn
<1>1. BatchInv => ArtifactsAreOwn
  BY DEF BatchInv, FilesKept, ArtifactsAreOwn
<1>. QED  BY <1>1, BatchInvariant, PTL
=============================================================================
