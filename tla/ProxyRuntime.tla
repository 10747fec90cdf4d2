---------------------------- MODULE ProxyRuntime ----------------------------
(***************************************************************************)
(* The RocketMQ Proxy runtime (internal/server/proxy_runtime.go): it saves *)
(* a configuration, runs the Java process with it, probes its gRPC port,   *)
(* and goes back to the previous configuration when the new one fails.     *)
(*                                                                         *)
(* Operations are serialised by operationMu, so one is modelled at a time. *)
(* Beside it run the Java processes, a waitProxy goroutine for each, and a *)
(* Snapshot that probes and records. A process is alive, then ready on the *)
(* gRPC port; exited; reaped (cmd.Wait has returned); done (waitProxy has  *)
(* updated the manager and sent on the done channel).                      *)
(***************************************************************************)
EXTENDS Integers, FiniteSets

CONSTANTS
    Settings,     \* configurations; all of them name the same gRPC port
    Procs,        \* identities of Java processes
    NoProc,       \* no process
    MaxFaults,    \* bound on file errors
    MaxCrashes    \* bound on crashes of the Dashboard container

ASSUME ProcsAssumption == NoProc \notin Procs
ASSUME BoundsAssumption == MaxFaults \in Nat /\ MaxCrashes \in Nat

States == [enabled : BOOLEAN, settings : Settings]

VARIABLES
    stateFile, configFile,          \* proxy state, and rmq-proxy.json
    state, cmd, running, healthy, stopping, status,    \* the manager's fields
    proc, procSettings, killed,     \* Java processes, and what they were given
    op, pc, phase, after,           \* the operation and where it is
    prev, next, victim, spawned, answeredBy,           \* its local variables
    snapPc, snapProc, snapAnswer,   \* a Snapshot that is probing
    faults, crashes,
    \* History variables, read by no guard:
    healthBy,                       \* the process whose answer made healthy true
    undoFailed                      \* a file error cut a restore short

fileVars == <<stateFile, configFile>>
fieldVars == <<state, cmd, running, healthy, healthBy, stopping, status>>
procVars == <<proc, procSettings, killed>>
localVars == <<prev, next, victim, spawned, answeredBy>>
opVars == <<op, pc, phase, after, localVars, undoFailed>>
snapVars == <<snapPc, snapProc, snapAnswer>>
vars == <<fileVars, fieldVars, procVars, opVars, snapVars, faults, crashes>>

Init ==
    /\ state \in [enabled : {FALSE}, settings : Settings]
    /\ stateFile = state /\ configFile = state.settings
    /\ cmd = NoProc /\ running = FALSE /\ healthy = FALSE /\ stopping = FALSE
    /\ status = "disabled" /\ healthBy = NoProc
    /\ proc = [p \in Procs |-> "none"] /\ killed = [p \in Procs |-> FALSE]
    /\ procSettings = [p \in Procs |-> state.settings]
    /\ op = "none" /\ pc = "idle" /\ phase = "new" /\ after = "first"
    /\ prev = state /\ next = state
    /\ victim = NoProc /\ spawned = NoProc /\ answeredBy = NoProc
    /\ snapPc = "idle" /\ snapProc = NoProc /\ snapAnswer = NoProc
    /\ undoFailed = FALSE /\ faults = 0 /\ crashes = 0

Alive(p) == proc[p] \in {"alive", "ready"}
OnPort(p) == proc[p] = "ready"

\* The gRPC port is answered by the process that holds it, whoever started it.
Answers(p) == IF p = NoProc THEN ~\E q \in Procs : OnPort(q) ELSE OnPort(p)

-----------------------------------------------------------------------------
(* Control flow shared by the operations *)

Local == UNCHANGED <<op, phase, after, localVars, undoFailed>>
Goto(label) == pc' = label /\ Local

\* Temporaries go out of scope, so that they do not tell states apart.
Ends ==
    /\ op' = "none" /\ pc' = "idle" /\ phase' = "new" /\ after' = "first"
    /\ prev' = state' /\ next' = state'
    /\ victim' = NoProc /\ spawned' = NoProc /\ answeredBy' = NoProc

\* Apply makes file and memory agree again when it completes either way.
End(r) ==
    /\ Ends
    /\ undoFailed' = (undoFailed /\ ~(op = "apply" /\ r \in {"ok", "restored"}))

UndoFails == Ends /\ undoFailed' = TRUE

Stop(why) ==
    /\ pc' = "stop" /\ after' = why
    /\ UNCHANGED <<op, localVars, undoFailed>>

\* The new configuration failed: restorePreviousState, whose stop is not checked.
Undo == phase' = "back" /\ Stop("undo")

\* Mutant: the restore leaves the state file alone.
RestoreSkipsState == Goto("config")

\* restorePreviousState goes on whatever its stop returned.
RestoreState == Goto("persist")

\* What each caller of stopProxy does with its error.
StopReturns(ok) ==
    \/ /\ after = "first" /\ ok
       /\ CASE op = "apply" -> Goto("persist")
            [] op = "restart" -> Goto("config")
            [] op = "close" -> End("ok")
    \/ after = "first" /\ ~ok /\ End("stopFailed")
    \/ after = "undo" /\ RestoreState
    \/ /\ after = "late"
       /\ IF phase = "back" THEN End("notRestored")
          ELSE IF op = "apply" THEN Undo ELSE End("startFailed")

\* What each caller of startProxy does with its error.
StartReturns(ok) ==
    \/ ok /\ End(IF phase = "back" THEN "restored" ELSE "ok")
    \/ ~ok /\ phase = "back" /\ End("notRestored")
    \/ ~ok /\ phase = "new" /\ IF op = "apply" THEN Undo ELSE End("startFailed")

Wanted == IF phase = "back" THEN prev ELSE next

-----------------------------------------------------------------------------
(* Apply, Restart, Close, and Restore at startup *)

Begin(kind, wanted) ==
    /\ pc = "idle" /\ op = "none"
    /\ kind = "restart" => state.enabled
    /\ op' = kind /\ pc' = "stop" /\ phase' = "new" /\ after' = "first"
    /\ prev' = state
    /\ next' = IF kind = "apply" THEN wanted ELSE state
    /\ UNCHANGED <<fileVars, fieldVars, procVars, victim, spawned, answeredBy,
                   undoFailed, snapVars, faults, crashes>>

FileFails == faults < MaxFaults /\ faults' = faults + 1

\* persistState replaces the state file at once, or fails and leaves it.
Persist ==
    /\ pc = "persist"
    /\ UNCHANGED <<configFile, fieldVars, procVars, snapVars, crashes>>
    /\ \/ stateFile' = Wanted /\ Goto("config") /\ UNCHANGED faults
       \/ /\ FileFails /\ UNCHANGED stateFile
          /\ IF phase = "new" THEN Undo ELSE UndoFails

\* writeProxyConfig, then setState; a disabled Proxy is not started.
Config ==
    /\ pc = "config"
    /\ \/ /\ configFile' = Wanted.settings
          /\ state' = Wanted
          /\ UNCHANGED <<cmd, stopping, faults>>
          /\ IF Wanted.enabled
               THEN Goto("start") /\ UNCHANGED <<running, healthy, healthBy, status>>
               ELSE /\ running' = FALSE /\ healthy' = FALSE /\ healthBy' = NoProc
                    /\ status' = "disabled"
                    /\ End(IF phase = "back" THEN "restored" ELSE "ok")
       \/ /\ FileFails /\ UNCHANGED <<configFile, fieldVars>>
          /\ IF phase = "back" THEN UndoFails
             ELSE IF op = "apply" THEN Undo ELSE End("startFailed")
    /\ UNCHANGED <<stateFile, procVars, snapVars, crashes>>

-----------------------------------------------------------------------------
(* stopProxy *)

HasProcess == cmd # NoProc

\* Without a process there is nothing to do; otherwise the process is captured.
StopBegins ==
    /\ pc = "stop"
    /\ IF ~HasProcess
         THEN /\ running' = FALSE /\ healthy' = FALSE /\ healthBy' = NoProc
              /\ status' = IF state.enabled THEN "stopped" ELSE "disabled"
              /\ UNCHANGED <<state, cmd, stopping>>
              /\ StopReturns(TRUE)
         ELSE /\ stopping' = TRUE /\ status' = "stopping"
              /\ UNCHANGED <<state, cmd, running, healthy, healthBy>>
              /\ victim' = cmd /\ pc' = "signal"
              /\ UNCHANGED <<op, phase, after, prev, next, spawned, answeredBy,
                             undoFailed>>
    /\ UNCHANGED <<fileVars, procVars, snapVars, faults, crashes>>

\* An interrupt, or a kill when it cannot be sent; neither reaches a process
\* that is reaped already, and then stopProxy fails.
Signal ==
    /\ pc = "signal"
    /\ UNCHANGED <<fileVars, fieldVars, procVars, snapVars, faults, crashes>>
    /\ IF proc[victim] \in {"reaped", "done"}
         THEN StopReturns(FALSE)
         ELSE /\ pc' = "waitStop"
              /\ UNCHANGED <<op, phase, after, localVars, undoFailed>>

StopDone ==
    /\ pc \in {"waitStop", "waitKill"} /\ proc[victim] = "done"
    /\ UNCHANGED <<fileVars, fieldVars, procVars, snapVars, faults, crashes>>
    /\ StopReturns(TRUE)

\* Mutant: StopTimeout passes and the process counts as stopped.
StopGivesUp ==
    /\ pc = "waitStop" /\ proc[victim] # "done"
    /\ UNCHANGED <<fileVars, fieldVars, procVars, snapVars, faults, crashes>>
    /\ StopReturns(TRUE)

\* StopTimeout passes: kill, which fails for a process that is reaped.
StopTimesOut ==
    /\ pc = "waitStop" /\ proc[victim] # "done"
    /\ UNCHANGED <<fileVars, fieldVars, proc, procSettings, snapVars, faults, crashes>>
    /\ IF proc[victim] = "reaped"
         THEN StopReturns(FALSE) /\ UNCHANGED killed
         ELSE killed' = [killed EXCEPT ![victim] = TRUE] /\ Goto("waitKill")

\* The five seconds given to a killed process pass.
KillTimesOut ==
    /\ pc = "waitKill" /\ proc[victim] # "done"
    /\ UNCHANGED <<fileVars, fieldVars, procVars, snapVars, faults, crashes>>
    /\ StopReturns(FALSE)

-----------------------------------------------------------------------------
(* startProxy *)

\* Java, its directories, the log file or the start of the process fail.
StartFails ==
    /\ pc = "start"
    /\ \/ UNCHANGED fieldVars
       \/ /\ \E s \in {"unavailable", "error"} : status' = s
          /\ running' = FALSE /\ healthy' = FALSE /\ healthBy' = NoProc
          /\ UNCHANGED <<state, cmd, stopping>>
    /\ StartReturns(FALSE)
    /\ UNCHANGED <<fileVars, procVars, snapVars, faults, crashes>>

Spawn ==
    /\ pc = "start"
    /\ \E p \in Procs :
         /\ proc[p] \in {"none", "done"} /\ cmd # p /\ snapProc # p
         /\ proc' = [proc EXCEPT ![p] = "alive"]
         /\ procSettings' = [procSettings EXCEPT ![p] = configFile]
         /\ killed' = [killed EXCEPT ![p] = FALSE]
         /\ cmd' = p /\ spawned' = p
    /\ stopping' = FALSE /\ running' = TRUE /\ healthy' = FALSE /\ healthBy' = NoProc
    /\ status' = "starting"
    /\ pc' = "probe"
    /\ UNCHANGED <<fileVars, state, op, phase, after, prev, next, victim,
                   answeredBy, undoFailed, snapVars, faults,
                   crashes>>

Probe ==
    /\ pc = "probe"
    /\ \E p \in Procs \cup {NoProc} : Answers(p) /\ answeredBy' = p
    /\ pc' = "record"
    /\ UNCHANGED <<fileVars, fieldVars, procVars, op, phase, after, prev, next,
                   victim, spawned, undoFailed, snapVars, faults,
                   crashes>>

\* Mutant: whatever process was probed.
RecordAny(process, by) ==
    IF running
      THEN healthy' = (by # NoProc) /\ healthBy' = by
      ELSE UNCHANGED <<healthy, healthBy>>

\* recordProxyGRPCProbe: only for the process that is the current one.
Record(process, by) ==
    IF running /\ cmd = process
      THEN healthy' = (by # NoProc) /\ healthBy' = by
      ELSE UNCHANGED <<healthy, healthBy>>

\* A probe that was answered ends startProxy, whatever became of the process.
RecordStart ==
    /\ pc = "record"
    /\ Record(spawned, answeredBy)
    /\ UNCHANGED <<fileVars, state, cmd, running, stopping, procVars, snapVars,
                   faults, crashes>>
    /\ IF answeredBy # NoProc
         THEN /\ status' = IF cmd = spawned THEN "running" ELSE status
              /\ StartReturns(TRUE)
         ELSE Goto("select") /\ UNCHANGED status

\* select: the process ended, the time is up, or the next tick.
ProcessEnded ==
    /\ pc = "select" /\ proc[spawned] = "done"
    /\ UNCHANGED <<fileVars, fieldVars, procVars, snapVars, faults, crashes>>
    /\ StartReturns(FALSE)

StartTimesOut ==
    /\ pc = "select"
    /\ UNCHANGED <<fileVars, fieldVars, procVars, snapVars, faults, crashes>>
    /\ Stop("late") /\ UNCHANGED phase

NextTick ==
    /\ pc = "select" /\ Goto("probe")
    /\ UNCHANGED <<fileVars, fieldVars, procVars, snapVars, faults, crashes>>

-----------------------------------------------------------------------------
(* Java processes, and waitProxy *)

\* Only one process can listen on the port.
BecomesReady(p) ==
    /\ proc[p] = "alive" /\ ~\E q \in Procs : OnPort(q)
    /\ proc' = [proc EXCEPT ![p] = "ready"]
    /\ UNCHANGED <<fileVars, fieldVars, procSettings, killed, opVars, snapVars,
                   faults, crashes>>

\* It stops on a signal, or any time by itself.
Exits(p) ==
    /\ Alive(p)
    /\ proc' = [proc EXCEPT ![p] = "exited"]
    /\ UNCHANGED <<fileVars, fieldVars, procSettings, killed, opVars, snapVars,
                   faults, crashes>>

Reap(p) ==
    /\ proc[p] = "exited"
    /\ proc' = [proc EXCEPT ![p] = "reaped"]
    /\ UNCHANGED <<fileVars, fieldVars, procSettings, killed, opVars, snapVars,
                   faults, crashes>>

WaitProxy(p) ==
    /\ proc[p] = "reaped"
    /\ proc' = [proc EXCEPT ![p] = "done"]
    /\ IF cmd = p
         THEN /\ cmd' = NoProc /\ running' = FALSE /\ healthy' = FALSE /\ healthBy' = NoProc
              /\ status' = IF stopping THEN "stopped" ELSE "error"
         ELSE UNCHANGED <<cmd, running, healthy, healthBy, status>>
    /\ UNCHANGED <<fileVars, state, stopping, procSettings, killed, opVars, snapVars,
                   faults, crashes>>

-----------------------------------------------------------------------------
(* Snapshot: captures the process, probes without the lock, then records *)

SnapBegins ==
    /\ snapPc = "idle" /\ running
    /\ snapPc' = "probe" /\ snapProc' = cmd
    /\ UNCHANGED <<fileVars, fieldVars, procVars, opVars, snapAnswer, faults, crashes>>

SnapProbes ==
    /\ snapPc = "probe"
    /\ snapPc' = "record"
    /\ \E p \in Procs \cup {NoProc} : Answers(p) /\ snapAnswer' = p
    /\ UNCHANGED <<fileVars, fieldVars, procVars, opVars, snapProc, faults, crashes>>

SnapRecords ==
    /\ snapPc = "record"
    /\ Record(snapProc, snapAnswer)
    /\ snapPc' = "idle" /\ snapProc' = NoProc /\ snapAnswer' = NoProc
    /\ UNCHANGED <<fileVars, state, cmd, running, stopping, status, procVars,
                   opVars, faults, crashes>>

-----------------------------------------------------------------------------
(* The container stops with everything in it, and starts again: the state file *)
(* is loaded and Restore starts the process when it says so.                   *)
Crash ==
    /\ crashes < MaxCrashes /\ crashes' = crashes + 1
    /\ proc' = [p \in Procs |-> "none"] /\ killed' = [p \in Procs |-> FALSE]
    /\ procSettings' = [p \in Procs |-> stateFile.settings]
    /\ state' = stateFile /\ cmd' = NoProc /\ running' = FALSE /\ healthy' = FALSE
    /\ healthBy' = NoProc /\ stopping' = FALSE
    /\ status' = IF stateFile.enabled THEN "stopped" ELSE "disabled"
    /\ op' = IF stateFile.enabled THEN "restore" ELSE "none"
    /\ pc' = IF stateFile.enabled THEN "config" ELSE "idle"
    /\ phase' = "new" /\ after' = "first" /\ prev' = stateFile /\ next' = stateFile
    /\ victim' = NoProc /\ spawned' = NoProc /\ answeredBy' = NoProc
    /\ undoFailed' = FALSE
    /\ snapPc' = "idle" /\ snapProc' = NoProc /\ snapAnswer' = NoProc
    /\ UNCHANGED <<fileVars, faults>>

-----------------------------------------------------------------------------
OpStep ==
    \/ Persist \/ Config \/ StopBegins \/ Signal \/ StopDone \/ StopTimesOut
    \/ KillTimesOut \/ StartFails \/ Spawn \/ Probe \/ RecordStart
    \/ ProcessEnded \/ StartTimesOut \/ NextTick

ProcStep(p) == BecomesReady(p) \/ Exits(p) \/ Reap(p) \/ WaitProxy(p)

Next ==
    \/ \E s \in States : Begin("apply", s)
    \/ Begin("restart", state) \/ Begin("close", state)
    \/ OpStep
    \/ \E p \in Procs : ProcStep(p)
    \/ SnapBegins \/ SnapProbes \/ SnapRecords
    \/ Crash

Spec == Init /\ [][Next]_vars

-----------------------------------------------------------------------------
(* Properties *)

Statuses == {"disabled", "stopped", "starting", "running", "stopping", "error",
             "unavailable"}
MaybeProcs == Procs \cup {NoProc}

TypeOK ==
    /\ stateFile \in States /\ configFile \in Settings
    /\ state \in States /\ cmd \in MaybeProcs
    /\ {running, healthy, stopping, undoFailed} \subseteq BOOLEAN
    /\ status \in Statuses
    /\ proc \in [Procs -> {"none", "alive", "ready", "exited", "reaped", "done"}]
    /\ procSettings \in [Procs -> Settings] /\ killed \in [Procs -> BOOLEAN]
    /\ op \in {"none", "apply", "restart", "restore", "close"}
    /\ pc = "idle" <=> op = "none"
    /\ pc \in {"signal", "waitStop", "waitKill"} => victim \in Procs
    /\ pc \in {"probe", "record", "select"} => spawned \in Procs
    /\ prev \in States /\ next \in States
    /\ {victim, spawned, answeredBy, snapProc, snapAnswer, healthBy} \subseteq MaybeProcs

\* One Java process at a time, and none the manager has lost sight of: no mix of
\* failed starts, timeouts, restores and exits leaves an orphan behind, unless it
\* has survived its kill for the five seconds stopProxy gives it.
NoOrphans ==
    /\ TypeOK
    /\ \A p \in Procs : Alive(p) => cmd = p \/ killed[p]

\* The manager says healthy only on the word of the process it manages: a slow
\* probe of an old process never vouches for its successor (but a process that has
\* survived its kill may, for it still holds the port).
HealthIsOfThisProcess == healthy => running /\ (healthBy = cmd \/ killed[healthBy])

\* The state file is "the only source of truth" of the configuration: between
\* operations the memory copy agrees with it, and a managed process runs with
\* the settings a restart of the container would use (or is being killed).
SavedStateIsTruth ==
    pc = "idle" =>
        /\ state = stateFile
        /\ cmd # NoProc /\ Alive(cmd) /\ ~killed[cmd] => procSettings[cmd] = stateFile.settings

\* So it is, whatever starts, stops, timeouts and crashes happen, as long as no
\* file error has cut the restore of a failed Apply short.
TruthUnlessUndoFailed == undoFailed \/ SavedStateIsTruth
=============================================================================
