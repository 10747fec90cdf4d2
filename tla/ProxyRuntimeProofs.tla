------------------------- MODULE ProxyRuntimeProofs -------------------------
(* For any settings, processes, file errors and crashes: no Java process is *)
(* lost sight of, no process vouches for another one, and the state file    *)
(* says what runs.                                                          *)
EXTENDS ProxyRuntime, TLAPS

-----------------------------------------------------------------------------
(* The inductive invariant *)

Stopping == pc \in {"stop", "signal", "waitStop", "waitKill"}
Starting == pc \in {"probe", "record", "select"}

FileTypes == stateFile \in States /\ configFile \in Settings

FieldTypes ==
  /\ state \in States /\ cmd \in MaybeProcs /\ healthBy \in MaybeProcs
  /\ running \in BOOLEAN /\ healthy \in BOOLEAN /\ stopping \in BOOLEAN /\ status \in Statuses

ProcTypes ==
  /\ proc \in [Procs -> {"none", "alive", "ready", "exited", "reaped", "done"}]
  /\ procSettings \in [Procs -> Settings] /\ killed \in [Procs -> BOOLEAN]

OpTypes ==
  /\ op \in {"none", "apply", "restart", "restore", "close"} /\ (pc = "idle" <=> op = "none")
  /\ pc \in {"idle", "persist", "config", "start"} \/ Stopping \/ Starting
  /\ phase \in {"new", "back"} /\ after \in {"first", "undo", "late"}
  /\ prev \in States /\ next \in States /\ undoFailed \in BOOLEAN
  /\ victim \in MaybeProcs /\ spawned \in MaybeProcs /\ answeredBy \in MaybeProcs
  /\ pc \in {"signal", "waitStop", "waitKill"} => victim \in Procs
  /\ Starting => spawned \in Procs

SnapTypes ==
  /\ snapPc \in {"idle", "probe", "record"}
  /\ snapProc \in MaybeProcs /\ snapAnswer \in MaybeProcs
  /\ snapPc # "idle" => snapProc \in Procs

Types == FileTypes /\ FieldTypes /\ ProcTypes /\ OpTypes /\ SnapTypes

\* Who stops the process, and why.
Flow ==
  /\ Stopping /\ after = "first" => op \in {"apply", "restart", "close"} /\ phase = "new"
  /\ Stopping /\ after = "undo" => phase = "back"
  /\ phase = "back" \/ pc = "persist" => op = "apply"
  /\ op = "close" => Stopping /\ after = "first"

\* The manager's process does not run any more, or is being killed.
Stopped == cmd = NoProc \/ ~Alive(cmd) \/ killed[cmd]

\* The manager's process is the one the operation knows of.
Single ==
  /\ \A p \in Procs : Alive(p) => cmd = p \/ killed[p]
  /\ pc \in {"persist", "config", "start"} => Stopped
  /\ pc \in {"signal", "waitStop", "waitKill"} => cmd = victim \/ cmd = NoProc
  /\ pc = "waitKill" => killed[victim]
  /\ Starting => cmd = spawned \/ cmd = NoProc

Health ==
  /\ running => cmd # NoProc
  /\ healthy => running /\ healthBy \in Procs /\ (healthBy = cmd \/ killed[healthBy])

\* An answer that startProxy or a Snapshot still has to record is the answer of its own
\* process, of one that survives its kill, or no longer recorded.
Answered == pc = "record" =>
  answeredBy = NoProc \/ answeredBy = spawned \/ killed[answeredBy]
Snapped == snapPc = "record" =>
  snapAnswer = NoProc \/ cmd # snapProc \/ snapAnswer = snapProc \/ killed[snapAnswer]

\* The process was given settings s, if it is to run on.
RunsWith(s) == cmd # NoProc /\ Alive(cmd) /\ ~killed[cmd] => procSettings[cmd] = s

\* The operation has not written anything yet.
Before == pc = "idle" \/ (Stopping /\ after = "first") \/ (pc = "persist" /\ phase = "new")

\* The state file is what the operation has made it, or was right before.
Sure == op = "apply" \/ ~undoFailed

Disk ==
  /\ Before /\ ~undoFailed => state = stateFile /\ RunsWith(stateFile.settings)
  /\ (Stopping /\ after = "first") \/ pc = "config" => op = "apply" \/ next = state
  /\ pc = "config" /\ Sure => stateFile = Wanted
  /\ pc = "start" => configFile = Wanted.settings
  /\ pc = "start" \/ Starting \/ (Stopping /\ after = "late") =>
       state = Wanted /\ RunsWith(Wanted.settings) /\ (Sure => stateFile = Wanted)

IInv == Types /\ Flow /\ Single /\ Health /\ Answered /\ Snapped /\ Disk

-----------------------------------------------------------------------------
(* The beginning, and the ends of an operation *)

LEMMA InitHolds ==
  ASSUME Init
  PROVE  IInv
<1>1. state \in States /\ ~state.enabled /\ state.settings \in Settings
  BY DEF Init, States
<1>2. Types
  BY <1>1 DEF Init, Types, FileTypes, FieldTypes, ProcTypes, OpTypes, SnapTypes, Statuses,
              MaybeProcs, Stopping, Starting
<1>3. Flow /\ Single /\ Health /\ Answered /\ Snapped
  BY DEF Init, Flow, Single, Health, Answered, Snapped, Stopping, Starting, Alive
<1>4. Disk
  BY DEF Init, Disk, Before, RunsWith, Stopping, Starting
<1>. QED  BY <1>2, <1>3, <1>4 DEF IInv

LEMMA EndsSafely ==
  ASSUME Ends, state' \in States, undoFailed' \in BOOLEAN,
         Single, UNCHANGED <<cmd, procVars>>
  PROVE  OpTypes' /\ Flow' /\ Single' /\ Answered'
<1>1. /\ op' = "none" /\ pc' = "idle" /\ phase' = "new" /\ after' = "first"
      /\ prev' = state' /\ next' = state'
      /\ victim' = NoProc /\ spawned' = NoProc /\ answeredBy' = NoProc
  BY DEF Ends
<1>. QED  BY <1>1 DEF OpTypes, Flow, Single, Answered, Stopping, Starting, Stopped, MaybeProcs,
                      Alive, procVars

\* At the end, the state file is right, or it is known that it may not be.
LEMMA EndsRight ==
  ASSUME Ends, undoFailed' \/ (state' = stateFile' /\ RunsWith(stateFile.settings)')
  PROVE  Disk'
BY DEF Ends, Disk, Before, Stopping, Starting

\* After the stop of a process, whatever the caller does with its error.
LEMMA StopReturnsKeeps ==
  ASSUME IInv, NEW ok \in BOOLEAN, StopReturns(ok), Stopping, Stopped,
         UNCHANGED <<fileVars, state, cmd, procVars>>
  PROVE  OpTypes' /\ Flow' /\ Single' /\ Answered' /\ Disk'
<1>. USE DEF IInv
<1>1. /\ UNCHANGED <<stateFile, configFile, state, cmd, proc, procSettings, killed>>
      /\ state \in States /\ op \in {"apply", "restart", "restore", "close"} /\ OpTypes
  BY DEF fileVars, procVars, Types, FieldTypes, OpTypes, Stopping
<1>2. /\ Stopped'
      /\ \A s : RunsWith(s)'
  BY <1>1 DEF Stopped, RunsWith, Alive
<1>3. CASE /\ after = "first" \/ after = "undo"
           /\ \/ pc' = "persist" /\ op = "apply"
              \/ pc' = "config" /\ op = "restart" /\ after = "first"
           /\ Local
  <2>1. UNCHANGED <<op, phase, after, prev, next, victim, spawned, answeredBy, undoFailed>>
    BY <1>3 DEF Local, localVars
  <2>2. OpTypes' /\ Flow' /\ Single' /\ Answered'
    BY <1>1, <1>2, <1>3, <2>1 DEF OpTypes, Flow, Single, Answered, Stopping, Starting, Alive
  <2>3. Disk'
    BY <1>1, <1>2, <1>3, <2>1 DEF Disk, Before, Sure, Wanted, Flow, Stopping, Starting
  <2>. QED  BY <2>2, <2>3
<1>4. CASE Undo /\ op = "apply"
  <2>1. /\ UNCHANGED <<op, prev, next, victim, spawned, answeredBy, undoFailed>>
        /\ phase' = "back" /\ pc' = "stop" /\ after' = "undo"
    BY <1>4 DEF Undo, Stop, localVars
  <2>2. OpTypes' /\ Flow' /\ Single' /\ Answered'
    BY <1>1, <1>4, <2>1 DEF OpTypes, Flow, Single, Answered, Stopping, Starting, Alive
  <2>3. Disk'
    BY <1>1, <2>1 DEF Disk, Before, Stopping, Starting
  <2>. QED  BY <2>2, <2>3
<1>5. CASE /\ after \in {"first", "late"}
           /\ \E r \in {"ok", "stopFailed", "notRestored", "startFailed"} :
                End(r) /\ (r = "ok" => op = "close")
  <2>1. Ends /\ undoFailed' = undoFailed
    BY <1>5 DEF End, OpTypes, Types
  <2>2. undoFailed \/ state = stateFile
    BY <1>5 DEF Disk, Before, Sure, Stopping
  <2>3. OpTypes' /\ Flow' /\ Single' /\ Answered'
    BY <1>1, <2>1, EndsSafely DEF procVars, OpTypes
  <2>4. Disk'
    BY <1>1, <1>2, <2>1, <2>2, EndsRight
  <2>. QED  BY <2>3, <2>4
<1>6. CASE after = "first"
  BY <1>1, <1>3, <1>5, <1>6 DEF StopReturns, Goto, Flow
<1>7. CASE after = "undo"
  BY <1>1, <1>3, <1>7 DEF StopReturns, RestoreState, Goto, Flow
<1>8. CASE after = "late"
  BY <1>1, <1>4, <1>5, <1>8 DEF StopReturns
<1>. QED  BY <1>1, <1>6, <1>7, <1>8 DEF OpTypes

\* After the start of a process, whatever the caller does with its error.
LEMMA StartReturnsKeeps ==
  ASSUME IInv, NEW ok \in BOOLEAN, StartReturns(ok), pc = "start" \/ Starting,
         UNCHANGED <<fileVars, state, cmd, procVars>>
  PROVE  OpTypes' /\ Flow' /\ Single' /\ Answered' /\ Disk'
<1>. USE DEF IInv
<1>1. /\ UNCHANGED <<stateFile, configFile, state, cmd, proc, procSettings, killed>>
      /\ state \in States /\ op \in {"apply", "restart", "restore", "close"} /\ OpTypes
  BY DEF fileVars, procVars, Types, FieldTypes, OpTypes, Starting
<1>2. state = Wanted /\ RunsWith(Wanted.settings) /\ (Sure => stateFile = Wanted)
  BY DEF Disk
<1>3. CASE Undo /\ op = "apply"
  <2>1. /\ UNCHANGED <<op, prev, next, victim, spawned, answeredBy, undoFailed>>
        /\ phase' = "back" /\ pc' = "stop" /\ after' = "undo"
    BY <1>3 DEF Undo, Stop, localVars
  <2>2. OpTypes' /\ Flow' /\ Single' /\ Answered'
    BY <1>1, <1>3, <2>1 DEF OpTypes, Flow, Single, Answered, Stopping, Starting, Alive
  <2>3. Disk'
    BY <1>1, <2>1 DEF Disk, Before, Stopping, Starting
  <2>. QED  BY <2>2, <2>3
<1>4. CASE \E r : End(r)
  <2>1. Ends /\ undoFailed' \in BOOLEAN /\ (undoFailed' \/ op = "apply" \/ undoFailed' = undoFailed)
    BY <1>1, <1>4 DEF End, OpTypes
  <2>2. undoFailed' \/ (state' = stateFile' /\ RunsWith(stateFile.settings)')
    <3>1. undoFailed' \/ Sure
      BY <2>1 DEF Sure
    <3>. QED  BY <1>1, <1>2, <3>1 DEF RunsWith, Alive
  <2>3. OpTypes' /\ Flow' /\ Single' /\ Answered'
    BY <1>1, <2>1, EndsSafely DEF procVars
  <2>. QED  BY <2>1, <2>2, <2>3, EndsRight
<1>. QED  BY <1>1, <1>3, <1>4 DEF StartReturns, OpTypes

-----------------------------------------------------------------------------
(* The steps of an operation *)

\* What the other parts of the invariant need from a step that leaves them alone.
LEMMA FieldsStay ==
  ASSUME IInv, UNCHANGED <<fileVars, fieldVars, procVars, snapVars>>
  PROVE  FileTypes' /\ FieldTypes' /\ ProcTypes' /\ SnapTypes' /\ Health' /\ Snapped'
BY DEF IInv, Types, fileVars, fieldVars, procVars, snapVars, FileTypes, FieldTypes, ProcTypes,
       SnapTypes, Health, Snapped

LEMMA BeginKeeps ==
  ASSUME IInv, NEW kind \in {"apply", "restart", "close"}, NEW wanted \in States,
         Begin(kind, wanted)
  PROVE  IInv'
<1>. USE DEF IInv
<1>1. /\ UNCHANGED <<fileVars, fieldVars, procVars, snapVars>>
      /\ UNCHANGED <<stateFile, configFile, state, cmd, proc, procSettings, killed,
                     victim, spawned, answeredBy, undoFailed>>
      /\ pc = "idle" /\ op' = kind /\ pc' = "stop" /\ phase' = "new" /\ after' = "first"
      /\ prev' = state /\ next' = (IF kind = "apply" THEN wanted ELSE state)
  BY DEF Begin, fileVars, fieldVars, procVars
<1>2. OpTypes' /\ Flow' /\ Single' /\ Answered'
  BY <1>1 DEF Types, FieldTypes, OpTypes, Flow, Single, Answered, Stopping, Starting, Alive
<1>3. Disk'
  BY <1>1 DEF Disk, Before, Stopping, Starting, RunsWith, Alive
<1>. QED  BY <1>1, <1>2, <1>3, FieldsStay DEF Types

LEMMA PersistKeeps ==
  ASSUME IInv, Persist
  PROVE  IInv'
<1>. USE DEF IInv
<1>1. /\ UNCHANGED <<configFile, fieldVars, procVars, snapVars>>
      /\ UNCHANGED <<state, cmd, proc, procSettings, killed>>
      /\ pc = "persist" /\ op = "apply" /\ Stopped
      /\ prev \in States /\ next \in States /\ Wanted \in States
  BY DEF Persist, fieldVars, procVars, Flow, Single, Types, OpTypes, Wanted
<1>2. CASE stateFile' = Wanted /\ Goto("config")
  <2>1. /\ UNCHANGED <<op, phase, after, prev, next, victim, spawned, answeredBy, undoFailed>>
        /\ pc' = "config"
    BY <1>2 DEF Goto, Local, localVars
  <2>2. OpTypes' /\ Flow' /\ Single' /\ Answered'
    BY <1>1, <2>1 DEF Types, OpTypes, Flow, Single, Answered, Stopping, Starting, Stopped, Alive
  <2>3. Disk'
    BY <1>1, <1>2, <2>1 DEF Disk, Before, Wanted, Stopping, Starting
  <2>. QED  BY <1>1, <1>2, <2>2, <2>3 DEF Types, FileTypes, FieldTypes, ProcTypes, SnapTypes,
              Health, Snapped, fieldVars, procVars, snapVars
<1>3. CASE UNCHANGED stateFile /\ Undo
  <2>1. /\ UNCHANGED <<op, prev, next, victim, spawned, answeredBy, undoFailed>>
        /\ phase' = "back" /\ pc' = "stop" /\ after' = "undo"
    BY <1>3 DEF Undo, Stop, localVars
  <2>2. OpTypes' /\ Flow' /\ Single' /\ Answered'
    BY <1>1, <2>1 DEF Types, OpTypes, Flow, Single, Answered, Stopping, Starting, Alive
  <2>3. Disk'
    BY <2>1 DEF Disk, Before, Stopping, Starting
  <2>. QED  BY <1>1, <1>3, <2>2, <2>3, FieldsStay DEF Types, fileVars
<1>4. CASE UNCHANGED stateFile /\ UndoFails
  <2>1. Ends /\ undoFailed' = TRUE
    BY <1>4 DEF UndoFails
  <2>2. OpTypes' /\ Flow' /\ Single' /\ Answered' /\ Disk'
    BY <1>1, <2>1, EndsSafely, EndsRight DEF Types, FieldTypes
  <2>. QED  BY <1>1, <1>4, <2>2, FieldsStay DEF Types, fileVars
<1>. QED  BY <1>2, <1>3, <1>4 DEF Persist

LEMMA ConfigKeeps ==
  ASSUME IInv, Config
  PROVE  IInv'
<1>. USE DEF IInv
<1>1. /\ UNCHANGED <<stateFile, procVars, snapVars>> /\ UNCHANGED <<proc, procSettings, killed>>
      /\ pc = "config" /\ Stopped /\ op \in {"apply", "restart", "restore"}
      /\ prev \in States /\ next \in States /\ Wanted \in States /\ Wanted.settings \in Settings
      /\ Sure => stateFile = Wanted
  BY DEF Config, procVars, Flow, Single, Disk, Types, OpTypes, Wanted, States, Stopping
<1>2. CASE /\ configFile' = Wanted.settings /\ state' = Wanted /\ Wanted.enabled
           /\ Goto("start") /\ UNCHANGED <<cmd, stopping, running, healthy, healthBy, status>>
  <2>1. /\ UNCHANGED <<op, phase, after, prev, next, victim, spawned, answeredBy, undoFailed>>
        /\ pc' = "start"
    BY <1>2 DEF Goto, Local, localVars
  <2>2. OpTypes' /\ Flow' /\ Single' /\ Answered'
    BY <1>1, <1>2, <2>1 DEF Types, OpTypes, Flow, Single, Answered, Stopping, Starting, Stopped, Alive
  <2>3. Wanted' = Wanted /\ RunsWith(Wanted.settings)'
    BY <1>1, <1>2, <2>1 DEF Wanted, RunsWith, Stopped, Alive
  <2>4. Disk'
    BY <1>1, <1>2, <2>1, <2>3 DEF Disk, Before, Sure, Stopping, Starting
  <2>5. FileTypes' /\ FieldTypes' /\ ProcTypes' /\ SnapTypes' /\ Health' /\ Snapped'
    BY <1>1, <1>2 DEF Types, FileTypes, FieldTypes, ProcTypes, SnapTypes, Health, Snapped, snapVars
  <2>. QED  BY <2>2, <2>4, <2>5 DEF Types
<1>3. CASE /\ configFile' = Wanted.settings /\ state' = Wanted
           /\ UNCHANGED <<cmd, stopping>>
           /\ running' = FALSE /\ healthy' = FALSE /\ healthBy' = NoProc /\ status' = "disabled"
           /\ \E r \in {"restored", "ok"} : End(r)
  <2>1. Ends /\ undoFailed' \in BOOLEAN /\ (undoFailed' \/ op = "apply" \/ undoFailed' = undoFailed)
    BY <1>3 DEF End, Types, OpTypes
  <2>2. undoFailed' \/ (state' = stateFile' /\ RunsWith(stateFile.settings)')
    BY <1>1, <1>3, <2>1 DEF Sure, RunsWith, Stopped, Alive
  <2>3. OpTypes' /\ Flow' /\ Single' /\ Answered' /\ Disk'
    BY <1>1, <1>3, <2>1, <2>2, EndsSafely, EndsRight
  <2>4. FileTypes' /\ FieldTypes' /\ ProcTypes' /\ SnapTypes' /\ Health' /\ Snapped'
    BY <1>1, <1>3 DEF Types, FileTypes, FieldTypes, ProcTypes, SnapTypes, Health, Snapped,
                      snapVars, Statuses, MaybeProcs
  <2>. QED  BY <2>3, <2>4 DEF Types
<1>4. CASE /\ UNCHANGED <<configFile, fieldVars>>
           /\ IF phase = "back" THEN UndoFails
              ELSE IF op = "apply" THEN Undo ELSE End("startFailed")
  <2>1. UNCHANGED <<fileVars, fieldVars, procVars, snapVars>> /\ UNCHANGED <<state, cmd>>
    BY <1>1, <1>4 DEF fileVars, fieldVars
  <2>2. CASE Undo /\ op = "apply"
    <3>1. /\ UNCHANGED <<op, prev, next, victim, spawned, answeredBy, undoFailed>>
          /\ phase' = "back" /\ pc' = "stop" /\ after' = "undo"
      BY <2>2 DEF Undo, Stop, localVars
    <3>2. OpTypes' /\ Flow' /\ Single' /\ Answered'
      BY <1>1, <2>1, <2>2, <3>1 DEF Types, OpTypes, Flow, Single, Answered, Stopping, Starting, Alive
    <3>3. Disk'
      BY <3>1 DEF Disk, Before, Stopping, Starting
    <3>. QED  BY <2>1, <3>2, <3>3, FieldsStay DEF Types
  <2>3. CASE UndoFails
    <3>1. Ends /\ undoFailed' = TRUE
      BY <2>3 DEF UndoFails
    <3>2. OpTypes' /\ Flow' /\ Single' /\ Answered' /\ Disk'
      BY <1>1, <2>1, <3>1, EndsSafely, EndsRight DEF Types, FieldTypes
    <3>. QED  BY <2>1, <3>2, FieldsStay DEF Types
  <2>4. CASE End("startFailed") /\ op # "apply" /\ phase # "back"
    <3>1. Ends /\ undoFailed' = undoFailed
      BY <2>4 DEF End, Types, OpTypes
    <3>2. undoFailed' \/ (state' = stateFile' /\ RunsWith(stateFile.settings)')
      BY <1>1, <2>1, <2>4, <3>1 DEF Sure, Wanted, Disk, Types, OpTypes, RunsWith, Stopped, Alive,
                                    fileVars
    <3>3. OpTypes' /\ Flow' /\ Single' /\ Answered' /\ Disk'
      BY <1>1, <2>1, <3>1, <3>2, EndsSafely, EndsRight DEF Types, FieldTypes, OpTypes
    <3>. QED  BY <2>1, <3>3, FieldsStay DEF Types
  <2>. QED  BY <1>4, <2>2, <2>3, <2>4
<1>. QED  BY <1>2, <1>3, <1>4 DEF Config

LEMMA StopBeginsKeeps ==
  ASSUME IInv, StopBegins
  PROVE  IInv'
<1>. USE DEF IInv
<1>1. /\ UNCHANGED <<fileVars, procVars, snapVars>>
      /\ UNCHANGED <<stateFile, configFile, proc, procSettings, killed, state, cmd>>
      /\ pc = "stop" /\ Stopping
  BY DEF StopBegins, fileVars, procVars, Stopping
<1>2. CASE ~HasProcess
  <2>1. /\ running' = FALSE /\ healthy' = FALSE /\ healthBy' = NoProc /\ UNCHANGED stopping
        /\ status' \in Statuses /\ StopReturns(TRUE)
    BY <1>2 DEF StopBegins, Statuses
  <2>2. OpTypes' /\ Flow' /\ Single' /\ Answered' /\ Disk'
    BY <1>1, <1>2, <2>1, StopReturnsKeeps DEF HasProcess, Stopped
  <2>3. FileTypes' /\ FieldTypes' /\ ProcTypes' /\ SnapTypes' /\ Health' /\ Snapped'
    BY <1>1, <2>1 DEF Types, FileTypes, FieldTypes, ProcTypes, SnapTypes, Health, Snapped,
                      snapVars, MaybeProcs
  <2>. QED  BY <2>2, <2>3 DEF Types
<1>3. CASE HasProcess
  <2>1. /\ UNCHANGED <<running, healthy, healthBy, op, phase, after, prev, next, spawned,
                       answeredBy, undoFailed>>
        /\ stopping' = TRUE /\ status' = "stopping" /\ victim' = cmd /\ pc' = "signal"
    BY <1>3 DEF StopBegins
  <2>2. cmd \in Procs
    BY <1>3 DEF HasProcess, Types, FieldTypes, MaybeProcs
  <2>3. OpTypes' /\ Flow' /\ Single' /\ Answered'
    BY <1>1, <2>1, <2>2 DEF Types, OpTypes, Flow, Single, Answered, Stopping, Starting, Alive,
                            MaybeProcs
  <2>4. Disk'
    BY <1>1, <2>1 DEF Disk, Before, Sure, Wanted, RunsWith, Alive, Stopping, Starting
  <2>5. FileTypes' /\ FieldTypes' /\ ProcTypes' /\ SnapTypes' /\ Health' /\ Snapped'
    BY <1>1, <2>1 DEF Types, FileTypes, FieldTypes, ProcTypes, SnapTypes, Health, Snapped,
                      snapVars, Statuses
  <2>. QED  BY <2>3, <2>4, <2>5 DEF Types
<1>. QED  BY <1>2, <1>3

\* The end of a wait or of a signal.
LEMMA StopEndsKeeps ==
  ASSUME IInv, NEW ok \in BOOLEAN, StopReturns(ok), pc \in {"signal", "waitStop", "waitKill"},
         proc[victim] \in {"reaped", "done"} \/ pc = "waitKill",
         UNCHANGED <<fileVars, fieldVars, procVars, snapVars>>
  PROVE  IInv'
<1>1. Stopped /\ Stopping
  BY DEF IInv, Single, Stopped, Stopping, Alive
<1>2. UNCHANGED <<state, cmd>>
  BY DEF fieldVars
<1>. QED  BY <1>1, <1>2, StopReturnsKeeps, FieldsStay DEF IInv, Types

\* The wait goes on, after a signal or with a kill.
LEMMA StopWaitsKeeps ==
  ASSUME IInv, UNCHANGED <<fileVars, fieldVars, proc, procSettings, snapVars>>,
         UNCHANGED <<op, phase, after, prev, next, victim, spawned, answeredBy, undoFailed>>,
         \/ pc = "signal" /\ pc' = "waitStop" /\ UNCHANGED killed
         \/ /\ pc = "waitStop" /\ pc' = "waitKill"
            /\ killed' = [killed EXCEPT ![victim] = TRUE]
  PROVE  IInv'
<1>. USE DEF IInv
<1>1. UNCHANGED <<stateFile, configFile, state, cmd, running, healthy, healthBy, stopping, status,
                  snapPc, snapProc, snapAnswer>>
  BY DEF fileVars, fieldVars, snapVars
<1>2. killed' \in [Procs -> BOOLEAN] /\ \A p \in Procs : killed[p] => killed'[p]
  BY DEF Types, ProcTypes
<1>3. FileTypes' /\ FieldTypes' /\ ProcTypes' /\ SnapTypes'
  BY <1>1, <1>2 DEF Types, FileTypes, FieldTypes, ProcTypes, SnapTypes
<1>4. OpTypes' /\ Flow'
  BY <1>1 DEF Types, OpTypes, Flow, Stopping, Starting
<1>5. Single'
  <2>1. \A p \in Procs : Alive(p)' => cmd' = p \/ killed'[p]
    BY <1>1, <1>2 DEF Single, Alive
  <2>2. pc' = "waitKill" => killed'[victim']
    BY DEF Types, OpTypes, ProcTypes
  <2>. QED  BY <1>1, <2>1, <2>2 DEF Single, Starting
<1>6. Health' /\ Answered' /\ Snapped'
  <2>1. snapAnswer # NoProc => snapAnswer \in Procs
    BY DEF Types, SnapTypes, MaybeProcs
  <2>. QED  BY <1>1, <1>2, <2>1 DEF Health, Answered, Snapped
<1>7. Disk'
  <2>1. ASSUME NEW s, RunsWith(s)  PROVE RunsWith(s)'
    <3>1. cmd # NoProc => cmd \in Procs
      BY DEF Types, FieldTypes, MaybeProcs
    <3>. QED  BY <1>1, <1>2, <2>1, <3>1 DEF RunsWith, Alive
  <2>. QED  BY <1>1, <2>1 DEF Disk, Before, Sure, Wanted, Stopping, Starting
<1>. QED  BY <1>3, <1>4, <1>5, <1>6, <1>7 DEF Types

LEMMA StopStepsKeep ==
  ASSUME IInv, Signal \/ StopDone \/ StopTimesOut \/ KillTimesOut
  PROVE  IInv'
<1>1. CASE Signal
  <2>1. CASE proc[victim] \in {"reaped", "done"}
    BY <1>1, <2>1, StopEndsKeeps DEF Signal
  <2>2. CASE proc[victim] \notin {"reaped", "done"}
    <3>1. UNCHANGED <<proc, procSettings, killed, prev, next, victim, spawned, answeredBy>>
      BY <1>1, <2>2 DEF Signal, procVars, localVars
    <3>. QED  BY <1>1, <2>2, <3>1, StopWaitsKeeps DEF Signal
  <2>. QED  BY <2>1, <2>2
<1>2. CASE StopDone
  BY <1>2, StopEndsKeeps DEF StopDone
<1>3. CASE StopTimesOut
  <2>1. CASE proc[victim] = "reaped"
    <3>1. UNCHANGED procVars
      BY <1>3, <2>1 DEF StopTimesOut, procVars
    <3>. QED  BY <1>3, <2>1, <3>1, StopEndsKeeps DEF StopTimesOut
  <2>2. CASE proc[victim] # "reaped"
    <3>1. /\ pc' = "waitKill"
          /\ UNCHANGED <<op, phase, after, prev, next, victim, spawned, answeredBy, undoFailed>>
      BY <1>3, <2>2 DEF StopTimesOut, Goto, Local, localVars
    <3>. QED  BY <1>3, <2>2, <3>1, StopWaitsKeeps DEF StopTimesOut
  <2>. QED  BY <2>1, <2>2
<1>4. CASE KillTimesOut
  BY <1>4, StopEndsKeeps DEF KillTimesOut
<1>. QED  BY <1>1, <1>2, <1>3, <1>4

LEMMA StartFailsKeeps ==
  ASSUME IInv, StartFails
  PROVE  IInv'
<1>. USE DEF IInv
<1>1. /\ UNCHANGED <<fileVars, procVars, snapVars>> /\ UNCHANGED <<proc, killed>>
      /\ pc = "start" /\ StartReturns(FALSE)
      /\ UNCHANGED <<state, cmd, stopping>>
      /\ \/ UNCHANGED <<running, healthy, healthBy, status>>
         \/ /\ running' = FALSE /\ healthy' = FALSE /\ healthBy' = NoProc
            /\ status' \in {"unavailable", "error"}
  BY DEF StartFails, fieldVars, procVars
<1>2. OpTypes' /\ Flow' /\ Single' /\ Answered' /\ Disk'
  BY <1>1, StartReturnsKeeps
<1>3. FileTypes' /\ ProcTypes' /\ SnapTypes' /\ Snapped'
  BY <1>1 DEF Types, FileTypes, ProcTypes, SnapTypes, Snapped, fileVars, procVars, snapVars
<1>4. FieldTypes'
  BY <1>1 DEF Types, FieldTypes, Statuses, MaybeProcs
<1>5. Health'
  BY <1>1 DEF Health
<1>. QED  BY <1>2, <1>3, <1>4, <1>5 DEF Types

\* The new process is the only one that runs and is not being killed, and no Snapshot
\* takes it for the process it probes.
LEMMA SpawnKeeps ==
  ASSUME IInv, Spawn
  PROVE  IInv'
<1>. USE DEF IInv
<1>1. PICK p \in Procs :
        /\ proc[p] \in {"none", "done"} /\ cmd # p /\ snapProc # p
        /\ proc' = [proc EXCEPT ![p] = "alive"]
        /\ procSettings' = [procSettings EXCEPT ![p] = configFile]
        /\ killed' = [killed EXCEPT ![p] = FALSE]
        /\ cmd' = p /\ spawned' = p
  BY DEF Spawn
<1>2. /\ pc = "start" /\ pc' = "probe"
      /\ UNCHANGED <<stateFile, configFile, state, op, phase, after, prev, next, victim,
                     answeredBy, undoFailed, snapPc, snapProc, snapAnswer>>
      /\ stopping' = FALSE /\ running' = TRUE /\ healthy' = FALSE /\ healthBy' = NoProc
      /\ status' = "starting"
  BY DEF Spawn, fileVars, snapVars
<1>3. /\ FileTypes' /\ FieldTypes' /\ ProcTypes' /\ SnapTypes'
  BY <1>1, <1>2 DEF Types, FileTypes, FieldTypes, ProcTypes, SnapTypes, Statuses, MaybeProcs
<1>4. OpTypes' /\ Flow'
  BY <1>1, <1>2 DEF Types, OpTypes, Flow, Stopping, Starting, MaybeProcs
<1>5. Single'
  <2>1. ASSUME NEW q \in Procs, Alive(q)'  PROVE cmd' = q \/ killed'[q]
    <3>1. CASE q = p
      BY <1>1, <3>1
    <3>2. CASE q # p
      <4>1. Alive(q) /\ killed'[q] = killed[q]
        BY <1>1, <2>1, <3>2 DEF Alive, Types, ProcTypes
      <4>2. cmd = q => killed[q]
        BY <1>2, <4>1, ProcsAssumption DEF Single, Stopped
      <4>. QED  BY <4>1, <4>2 DEF Single
    <3>. QED  BY <3>1, <3>2
  <2>. QED  BY <1>1, <1>2, <2>1 DEF Single, Starting
<1>6. Health' /\ Answered' /\ Snapped'
  BY <1>1, <1>2, ProcsAssumption DEF Health, Answered, Snapped
<1>7. Disk'
  <2>1. procSettings'[p] = configFile /\ configFile = Wanted.settings
    BY <1>1, <1>2 DEF Types, ProcTypes, Disk
  <2>2. Wanted' = Wanted /\ RunsWith(Wanted.settings)'
    BY <1>1, <1>2, <2>1 DEF Wanted, RunsWith
  <2>. QED  BY <1>2, <2>2 DEF Disk, Before, Sure, Stopping, Starting
<1>. QED  BY <1>3, <1>4, <1>5, <1>6, <1>7 DEF Types

\* Whoever answers on the port is the manager's process or survives its kill.
LEMMA AnswersAreKnown ==
  ASSUME IInv, NEW p \in MaybeProcs, Answers(p)
  PROVE  p = NoProc \/ (p \in Procs /\ (cmd = p \/ killed[p]))
BY DEF IInv, Single, Answers, OnPort, Alive, MaybeProcs

LEMMA ProbeKeeps ==
  ASSUME IInv, Probe
  PROVE  IInv'
<1>. USE DEF IInv
<1>1. PICK p \in MaybeProcs : Answers(p) /\ answeredBy' = p
  BY DEF Probe, MaybeProcs
<1>2. /\ UNCHANGED <<fileVars, fieldVars, procVars, snapVars>>
      /\ UNCHANGED <<stateFile, configFile, state, cmd, proc, procSettings, killed, op, phase,
                     after, prev, next, victim, spawned, undoFailed>>
      /\ pc = "probe" /\ pc' = "record"
  BY DEF Probe, fileVars, fieldVars, procVars
<1>3. OpTypes' /\ Flow' /\ Single'
  BY <1>1, <1>2 DEF Types, OpTypes, Flow, Single, Stopping, Starting, Alive
<1>4. Answered'
  BY <1>1, <1>2, AnswersAreKnown, ProcsAssumption DEF Answered, Single, Starting
<1>5. Disk'
  BY <1>2 DEF Disk, Before, Sure, Wanted, RunsWith, Alive, Stopping, Starting
<1>. QED  BY <1>2, <1>3, <1>4, <1>5, FieldsStay DEF Types

\* Where a probe is recorded.
LEMMA RecordKeepsHealth ==
  ASSUME IInv, NEW process \in Procs, NEW by \in MaybeProcs, Record(process, by),
         by = NoProc \/ cmd # process \/ by = process \/ killed[by],
         UNCHANGED <<cmd, running, killed>>
  PROVE  Health' /\ healthy' \in BOOLEAN /\ healthBy' \in MaybeProcs
<1>1. by # NoProc => by \in Procs
  BY DEF MaybeProcs
<1>. QED  BY <1>1 DEF IInv, Record, Health, Types, FieldTypes

LEMMA RecordStartKeeps ==
  ASSUME IInv, RecordStart
  PROVE  IInv'
<1>. USE DEF IInv
<1>1. /\ UNCHANGED <<fileVars, procVars, snapVars>>
      /\ UNCHANGED <<stateFile, configFile, state, cmd, running, stopping, proc, procSettings, killed>>
      /\ pc = "record" /\ Record(spawned, answeredBy)
      /\ spawned \in Procs /\ answeredBy \in MaybeProcs
  BY DEF RecordStart, fileVars, procVars, Types, OpTypes, Starting
<1>2. Health' /\ healthy' \in BOOLEAN /\ healthBy' \in MaybeProcs
  BY <1>1, RecordKeepsHealth DEF Answered
<1>3. status' \in Statuses
  BY DEF RecordStart, Types, FieldTypes, Statuses
<1>4. OpTypes' /\ Flow' /\ Single' /\ Answered' /\ Disk'
  <2>1. CASE StartReturns(TRUE)
    BY <1>1, <2>1, StartReturnsKeeps DEF Starting
  <2>2. CASE Goto("select")
    <3>1. /\ UNCHANGED <<op, phase, after, prev, next, victim, spawned, answeredBy, undoFailed>>
          /\ pc' = "select"
      BY <2>2 DEF Goto, Local, localVars
    <3>2. OpTypes' /\ Flow' /\ Single' /\ Answered'
      BY <1>1, <3>1 DEF Types, OpTypes, Flow, Single, Answered, Stopping, Starting, Alive
    <3>3. Disk'
      BY <1>1, <3>1 DEF Disk, Before, Sure, Wanted, RunsWith, Alive, Stopping, Starting
    <3>. QED  BY <3>2, <3>3
  <2>. QED  BY <2>1, <2>2 DEF RecordStart
<1>5. FileTypes' /\ FieldTypes' /\ ProcTypes' /\ SnapTypes' /\ Snapped'
  BY <1>1, <1>2, <1>3 DEF Types, FileTypes, FieldTypes, ProcTypes, SnapTypes, Snapped, snapVars
<1>. QED  BY <1>2, <1>4, <1>5 DEF Types

LEMMA SelectKeeps ==
  ASSUME IInv, ProcessEnded \/ StartTimesOut \/ NextTick
  PROVE  IInv'
<1>. USE DEF IInv
<1>1. /\ UNCHANGED <<fileVars, fieldVars, procVars, snapVars>>
      /\ UNCHANGED <<stateFile, configFile, state, cmd, proc, procSettings, killed>>
      /\ pc = "select" /\ op # "none" /\ op # "close"
      /\ Starting
  BY DEF ProcessEnded, StartTimesOut, NextTick, fileVars, fieldVars, procVars, Starting, Types,
         OpTypes, Flow, Stopping
<1>2. OpTypes' /\ Flow' /\ Single' /\ Answered' /\ Disk'
  <2>1. CASE ProcessEnded
    BY <1>1, <2>1, StartReturnsKeeps DEF ProcessEnded
  <2>2. CASE StartTimesOut \/ NextTick
    <3>1. /\ UNCHANGED <<op, phase, prev, next, victim, spawned, answeredBy, undoFailed>>
          /\ \/ pc' = "stop" /\ after' = "late"
             \/ pc' = "probe" /\ UNCHANGED after
      BY <2>2 DEF StartTimesOut, NextTick, Goto, Local, Stop, localVars
    <3>2. OpTypes' /\ Flow' /\ Single' /\ Answered'
      BY <1>1, <3>1 DEF Types, OpTypes, Flow, Single, Answered, Stopping, Starting, Alive
    <3>3. Disk'
      BY <1>1, <3>1 DEF Disk, Before, Sure, Wanted, RunsWith, Alive, Stopping, Starting
    <3>. QED  BY <3>2, <3>3
  <2>. QED  BY <2>1, <2>2
<1>. QED  BY <1>1, <1>2, FieldsStay DEF Types

-----------------------------------------------------------------------------
(* Java processes, Snapshot, and the crash of the container *)

LEMMA ProcStepKeeps ==
  ASSUME IInv, NEW p \in Procs, ProcStep(p)
  PROVE  IInv'
<1>. USE DEF IInv
<1>1. /\ UNCHANGED <<stateFile, configFile, state, stopping, procSettings, killed, opVars, snapVars>>
      /\ UNCHANGED <<op, pc, phase, after, prev, next, victim, spawned, answeredBy, undoFailed,
                     snapPc, snapProc, snapAnswer>>
      /\ \/ /\ proc[p] = "alive" /\ proc' = [proc EXCEPT ![p] = "ready"]
            /\ UNCHANGED <<cmd, running, healthy, healthBy, status>>
         \/ /\ \E new \in {"exited", "reaped", "done"} : proc' = [proc EXCEPT ![p] = new]
            /\ cmd # p \/ proc'[p] # "done"
            /\ UNCHANGED <<cmd, running, healthy, healthBy, status>>
         \/ /\ proc' = [proc EXCEPT ![p] = "done"]
            /\ cmd = p /\ cmd' = NoProc
            /\ running' = FALSE /\ healthy' = FALSE /\ healthBy' = NoProc
            /\ status' \in {"stopped", "error"}
  BY DEF ProcStep, BecomesReady, Exits, Reap, WaitProxy, fileVars, fieldVars, opVars, localVars,
         snapVars, Types, ProcTypes
<1>2. /\ proc' \in [Procs -> {"none", "alive", "ready", "exited", "reaped", "done"}]
      /\ \A q \in Procs : Alive(q)' => Alive(q)
      /\ cmd' = cmd \/ (cmd' = NoProc /\ proc'[cmd] \notin {"alive", "ready"})
  BY <1>1 DEF Types, ProcTypes, Alive
<1>3. FieldTypes'
  BY <1>1 DEF Types, FieldTypes, MaybeProcs, Statuses
<1>4. FileTypes' /\ ProcTypes' /\ SnapTypes'
  BY <1>1, <1>2 DEF Types, FileTypes, ProcTypes, SnapTypes
<1>5. OpTypes' /\ Flow'
  BY <1>1 DEF Types, OpTypes, Flow, Stopping, Starting
<1>6. cmd # NoProc => cmd \in Procs
  BY DEF Types, FieldTypes, MaybeProcs
<1>7. Single'
  <2>1. ASSUME NEW q \in Procs, Alive(q)'  PROVE cmd' = q \/ killed'[q]
    <3>1. cmd = q \/ killed[q]
      BY <1>2, <2>1 DEF Single
    <3>2. cmd' = NoProc /\ cmd = q => cmd' = cmd
      BY <1>1, <2>1 DEF Alive, Types, ProcTypes
    <3>. QED  BY <1>1, <1>2, <3>1, <3>2
  <2>2. Stopped => Stopped'
    BY <1>1, <1>2, <1>6 DEF Stopped
  <2>. QED  BY <1>1, <1>2, <2>1, <2>2 DEF Single, Starting
<1>8. Health' /\ Answered'
  BY <1>1 DEF Health, Answered
<1>9. Snapped'
  <2>1. snapPc = "record" => snapProc # NoProc
    BY ProcsAssumption DEF Types, SnapTypes
  <2>. QED  BY <1>1, <2>1 DEF Snapped
<1>10. Disk'
  <2>1. ASSUME NEW s, RunsWith(s)  PROVE RunsWith(s)'
    BY <1>1, <1>2, <1>6, <2>1 DEF RunsWith
  <2>. QED  BY <1>1, <2>1 DEF Disk, Before, Sure, Wanted, Stopping, Starting
<1>. QED  BY <1>3, <1>4, <1>5, <1>7, <1>8, <1>9, <1>10 DEF Types

LEMMA SnapshotKeeps ==
  ASSUME IInv, SnapBegins \/ SnapProbes \/ SnapRecords
  PROVE  IInv'
<1>. USE DEF IInv
<1>1. /\ UNCHANGED <<stateFile, configFile, state, cmd, running, stopping, status, proc,
                     procSettings, killed, op, pc, phase, after, prev, next, victim, spawned,
                     answeredBy, undoFailed>>
  BY DEF SnapBegins, SnapProbes, SnapRecords, fileVars, fieldVars, procVars, opVars, localVars
<1>2. FileTypes' /\ ProcTypes' /\ OpTypes' /\ Flow' /\ Single' /\ Answered' /\ Disk'
  BY <1>1 DEF Types, FileTypes, ProcTypes, OpTypes, Flow, Single, Answered, Disk, Stopping,
              Starting, Stopped, Alive, Before, Sure, Wanted, RunsWith
<1>3. SnapTypes' /\ FieldTypes' /\ Health' /\ Snapped'
  <2>1. CASE SnapBegins
    <3>1. cmd \in Procs /\ snapPc' = "probe" /\ snapProc' = cmd /\ UNCHANGED snapAnswer
      BY <2>1 DEF SnapBegins, Health, Types, FieldTypes, MaybeProcs
    <3>2. UNCHANGED <<healthy, healthBy>>
      BY <2>1 DEF SnapBegins, fieldVars
    <3>. QED  BY <1>1, <3>1, <3>2 DEF Types, FieldTypes, SnapTypes, Health, Snapped
  <2>2. CASE SnapProbes
    <3>1. PICK p \in MaybeProcs : Answers(p) /\ snapAnswer' = p
      BY <2>2 DEF SnapProbes, MaybeProcs
    <3>2. p = NoProc \/ cmd = p \/ killed[p]
      BY <3>1, AnswersAreKnown
    <3>3. snapPc = "probe" /\ UNCHANGED <<snapProc, healthy, healthBy>> /\ snapPc' = "record"
      BY <2>2 DEF SnapProbes, fieldVars
    <3>. QED  BY <1>1, <3>1, <3>2, <3>3 DEF Types, FieldTypes, SnapTypes, Health, Snapped
  <2>3. CASE SnapRecords
    <3>1. snapPc' = "idle" /\ snapProc' = NoProc /\ snapAnswer' = NoProc
      BY <2>3 DEF SnapRecords
    <3>2. Health' /\ healthy' \in BOOLEAN /\ healthBy' \in MaybeProcs
      BY <1>1, <2>3, RecordKeepsHealth DEF SnapRecords, Snapped, Types, SnapTypes
    <3>. QED  BY <1>1, <3>1, <3>2 DEF Types, FieldTypes, SnapTypes, Snapped, MaybeProcs
  <2>. QED  BY <2>1, <2>2, <2>3
<1>. QED  BY <1>2, <1>3 DEF Types

LEMMA CrashKeeps ==
  ASSUME IInv, Crash
  PROVE  IInv'
<1>. USE DEF IInv
<1>1. stateFile \in States /\ stateFile.enabled \in BOOLEAN /\ stateFile.settings \in Settings
  BY DEF Types, FileTypes, States
<1>2. /\ UNCHANGED <<stateFile, configFile>>
      /\ proc' = [p \in Procs |-> "none"] /\ killed' = [p \in Procs |-> FALSE]
      /\ procSettings' = [p \in Procs |-> stateFile.settings]
      /\ state' = stateFile /\ cmd' = NoProc /\ running' = FALSE /\ healthy' = FALSE
      /\ healthBy' = NoProc /\ stopping' = FALSE
      /\ phase' = "new" /\ after' = "first" /\ prev' = stateFile /\ next' = stateFile
      /\ victim' = NoProc /\ spawned' = NoProc /\ answeredBy' = NoProc /\ undoFailed' = FALSE
      /\ snapPc' = "idle" /\ snapProc' = NoProc /\ snapAnswer' = NoProc
  BY DEF Crash, fileVars
<1>3. /\ status' \in {"stopped", "disabled"}
      /\ (op' = "restore" /\ pc' = "config") \/ (op' = "none" /\ pc' = "idle")
  <2>1. CASE stateFile.enabled
    BY <2>1 DEF Crash
  <2>2. CASE ~stateFile.enabled
    BY <2>2 DEF Crash
  <2>. QED  BY <2>1, <2>2
<1>4. FileTypes' /\ FieldTypes' /\ ProcTypes' /\ SnapTypes'
  BY <1>1, <1>2, <1>3 DEF Types, FileTypes, FieldTypes, ProcTypes, SnapTypes, MaybeProcs, Statuses
<1>5. OpTypes' /\ Flow'
  BY <1>1, <1>2, <1>3 DEF OpTypes, Flow, Stopping, Starting, MaybeProcs
<1>6. Single' /\ Health' /\ Answered' /\ Snapped'
  BY <1>2, <1>3 DEF Single, Health, Answered, Snapped, Stopped, Starting, Alive
<1>7. Disk'
  BY <1>2, <1>3 DEF Disk, Before, Sure, Wanted, RunsWith, Stopping, Starting
<1>. QED  BY <1>4, <1>5, <1>6, <1>7 DEF Types

-----------------------------------------------------------------------------
(* The invariants *)

LEMMA Inductive ==
  ASSUME IInv, [Next]_vars
  PROVE  IInv'
<1>1. CASE \/ \E s \in States : Begin("apply", s)
           \/ Begin("restart", state) \/ Begin("close", state)
  BY <1>1, BeginKeeps DEF IInv, Types, FieldTypes
<1>2. CASE OpStep
  BY <1>2, PersistKeeps, ConfigKeeps, StopBeginsKeeps, StopStepsKeep, StartFailsKeeps, SpawnKeeps,
     ProbeKeeps, RecordStartKeeps, SelectKeeps DEF OpStep
<1>3. CASE \E p \in Procs : ProcStep(p)
  BY <1>3, ProcStepKeeps
<1>4. CASE SnapBegins \/ SnapProbes \/ SnapRecords \/ Crash
  BY <1>4, SnapshotKeeps, CrashKeeps
<1>5. CASE UNCHANGED vars
  <2>1. UNCHANGED <<op, pc, phase, after, prev, next, victim, spawned, answeredBy, undoFailed>>
    BY <1>5 DEF vars, opVars, localVars
  <2>2. /\ UNCHANGED <<fileVars, fieldVars, procVars, snapVars>>
        /\ UNCHANGED <<stateFile, configFile, state, cmd, proc, procSettings, killed>>
    BY <1>5 DEF vars, fileVars, fieldVars, procVars
  <2>3. OpTypes' /\ Flow' /\ Single' /\ Answered' /\ Disk'
    BY <2>1, <2>2 DEF IInv, Types, OpTypes, Flow, Single, Answered, Disk, Stopping, Starting,
                      Stopped, Alive, Before, Sure, Wanted, RunsWith
  <2>. QED  BY <2>2, <2>3, FieldsStay DEF IInv, Types
<1>. QED  BY <1>1, <1>2, <1>3, <1>4, <1>5 DEF Next

\* The inductive invariant holds in every reachable state of the Proxy manager, its
\* processes and its files.
THEOREM Invariance == Spec => []IInv
<1>1. Init => IInv
  BY InitHolds
<1>2. IInv /\ [Next]_vars => IInv'
  BY Inductive
<1>. QED  BY <1>1, <1>2, PTL DEF Spec

\* One Java process at a time, and none the manager has lost sight of, but those that
\* have survived the kill of stopProxy, for any number of processes and crashes.
THEOREM NobodyIsLost == Spec => []NoOrphans
<1>1. IInv => NoOrphans
  <2>1. IInv => TypeOK
    BY DEF IInv, Types, FileTypes, FieldTypes, ProcTypes, OpTypes, SnapTypes, TypeOK, Starting
  <2>. QED  BY <2>1 DEF IInv, Single, NoOrphans
<1>. QED  BY <1>1, Invariance, PTL

\* The manager says healthy only on the word of the process it manages, or of one that
\* has survived its kill: a probe is never recorded for the process after the probed one.
THEOREM HealthIsOwn == Spec => []HealthIsOfThisProcess
<1>1. IInv => HealthIsOfThisProcess
  BY DEF IInv, Health, HealthIsOfThisProcess
<1>. QED  BY <1>1, Invariance, PTL

\* Between operations the state file says what the manager believes and what its process
\* was started with, whatever starts, stops, timeouts and crashes happened, unless a
\* file error has cut the restore of a failed Apply short.
THEOREM FileIsTruth == Spec => []TruthUnlessUndoFailed
<1>1. IInv => TruthUnlessUndoFailed
  BY DEF IInv, Disk, Before, RunsWith, TruthUnlessUndoFailed, SavedStateIsTruth
<1>. QED  BY <1>1, Invariance, PTL
=============================================================================
