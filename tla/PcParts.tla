---------------------------- MODULE PcParts ----------------------------
(***************************************************************************)
(* A PC taking a new executable, as HostSwap has it, and the PC's other    *)
(* parts, checked in one run.  The parts do not meet in one another's      *)
(* steps, so a behaviour is that of one part, which is chosen at the       *)
(* start, and all but HostSwap use the same variables in turn.             *)
(***************************************************************************)
EXTENDS HostSwap, TLC

CONSTANTS
  Slow, Slower, NetTicks, MaxApps, CareFaults,     \* of EngineCare
  SetupFaults, SetupRuns,                          \* of EngineSetup
  UnixFaults, UnixRuns,                            \* of UnixSetup
  Threads, Kinds, MaxEdits, SettingsFaults,        \* of SettingsFiles
  Writers, MaxBytes, MaxLines, LogFaults,          \* of LogFile
  MaxJobs, MaxClicks, WindowFaults,                \* of HostWindow
  Processes, FolderFaults                          \* of FolderTakeover

VARIABLES part, v1, v2, v3, v4, v5, v6, v7, v8, v9, v10, v11, v12, v13, v14, v15, v16, v17,
          v18, v19, v20

(* Each part is the module it is an instance of, with bounds of its own. *)
Engine == INSTANCE EngineCare WITH MaxFaults <- CareFaults, world <- v1, svc <- v2,
    turn <- v3, net <- v4
Install == INSTANCE EngineSetup WITH MaxFaults <- SetupFaults, MaxRuns <- SetupRuns,
    pc <- v1, script <- v2, past <- v3
Unix == INSTANCE UnixSetup WITH MaxFaults <- UnixFaults, MaxRuns <- UnixRuns, engine <- v1,
    setup <- v2, item <- v3, jobs <- v4, move <- v5, past <- v6
Settings == INSTANCE SettingsFiles WITH MaxFaults <- SettingsFaults, kind <- v1, file <- v2,
    bad <- v3, lock <- v4, at <- v5, mine <- v6, next <- v7, set <- v8, edits <- v9,
    faults <- v10
Log == INSTANCE LogFile WITH MaxFaults <- LogFaults, data <- v1, live <- v2, prev <- v3,
    file <- v4, written <- v5, lines <- v6, faults <- v7
Page == INSTANCE HostWindow WITH MaxFaults <- WindowFaults, svc <- v1, shared <- v2,
    local <- v3, synced <- v4, repaint <- v5, drawn <- v6, poll <- v7, answer <- v8,
    changed <- v9, failures <- v10, restarted <- v11, setupOwes <- v12, wish <- v13,
    jobs <- v14, slots <- v15, pending <- v16, note <- v17, clicks <- v18, faults <- v19,
    gone <- v20
Folder == INSTANCE FolderTakeover WITH MaxFaults <- FolderFaults, windows <- v1, old <- v2,
    new <- v3, stage <- v4, pc <- v5, faults <- v6

ASSUME BoundsAssumption ==
  /\ Engine!CareAssumption
  /\ Install!SetupAssumption
  /\ Unix!UnixAssumption
  /\ Settings!SettingsAssumption
  /\ Log!LogAssumption
  /\ Page!WindowAssumption
  /\ Folder!TakeoverAssumption

\* The window and its worker are threads of one process; the log is one
\* process's, as the window's panel.log is while one window is open.
ASSUME OwnersAssumption == "setup" \notin Threads /\ \E me \in Writers : Writers = {me}

\* A part leaves the variables it has no use for at Blank.
Blank == 0
Blank11 == v11 = Blank /\ v12 = Blank /\ v13 = Blank /\ v14 = Blank /\ v15 = Blank /\
          v16 = Blank /\ v17 = Blank /\ v18 = Blank /\ v19 = Blank /\ v20 = Blank
Blank8 == v8 = Blank /\ v9 = Blank /\ v10 = Blank /\ Blank11
Blank7 == v7 = Blank /\ Blank8
Blank5 == v5 = Blank /\ v6 = Blank /\ Blank7
Blank4 == v4 = Blank /\ Blank5
Blank1 == v1 = Blank /\ v2 = Blank /\ v3 = Blank /\ Blank4
From11 == <<v11, v12, v13, v14, v15, v16, v17, v18, v19, v20>>
From8 == <<v8, v9, v10, From11>>
From7 == <<v7, From8>>
From5 == <<v5, v6, From7>>
From4 == <<v4, From5>>
From1 == <<v1, v2, v3, From4>>

allVars == <<part, vars, v1, v2, v3, v4, v5, v6, v7, v8, v9, v10, v11, v12, v13, v14, v15,
            v16, v17, v18, v19, v20>>

PcInit ==
  /\ Init
  /\ \/ part = "swap" /\ Blank1
     \/ part = "engine" /\ Engine!Init /\ Blank5
     \/ part = "setup" /\ Install!Init /\ Blank4
     \/ part = "unix" /\ Unix!Init /\ Blank7
     \/ part = "settings" /\ Settings!Init /\ Blank11
     \/ part = "log" /\ Log!Init /\ Blank8
     \/ part = "window" /\ Page!Init
     \/ part = "folder" /\ Folder!Init /\ Blank7

PcNext ==
  /\ UNCHANGED part
  /\ \/ part = "swap" /\ Next /\ UNCHANGED From1
     \/ part = "engine" /\ Engine!Next /\ UNCHANGED <<vars, From5>>
     \/ part = "setup" /\ Install!Next /\ UNCHANGED <<vars, From4>>
     \/ part = "unix" /\ Unix!Next /\ UNCHANGED <<vars, From7>>
     \/ part = "settings" /\ Settings!Next /\ UNCHANGED <<vars, From11>>
     \/ part = "log" /\ Log!Next /\ UNCHANGED <<vars, From8>>
     \/ part = "window" /\ Page!Next /\ UNCHANGED vars
     \/ part = "folder" /\ Folder!Next /\ UNCHANGED <<vars, From7>>

PcSpec == PcInit /\ [][PcNext]_allVars

\* The copies of the service are alike.
Copies == Permutations(Procs)

-----------------------------------------------------------------------------
(* The streaming engine is set up and cared for without losing a pairing,  *)
(* running on half a configuration or being said to work when it does not  *)
(* (host/src/setup.rs, migrate.rs, unix_setup.rs, streamer.rs).            *)
EngineIsRight ==
  /\ part = "engine" => Engine!TypeOK /\ Engine!MarkedMeansOurs /\ Engine!LoginIsRecent
  /\ part = "setup" =>
       Install!TypeOK /\ Install!PairingSurvives /\ Install!ReachableAnyway /\ Install!SmoothSetup
  /\ part = "unix" =>
       Unix!TypeOK /\ Unix!SetupTakes /\ Unix!LoginIsWhole /\ Unix!StartsAtLogin

(* What is on disk stays whole, and what a window shows of it is up to     *)
(* date, whoever is killed and whichever processes meet (core/config.rs,   *)
(* core/logfile.rs, host/src/app.rs).                                      *)
FilesStay ==
  /\ part = "settings" => Settings!TypeOK /\ Settings!Unharmed
  /\ part = "log" => Log!TypeOK /\ Log!RecentSurvive /\ Log!Bounded
  /\ part = "folder" => Folder!TypeOK /\ Folder!NeverHalf /\ Folder!TakenOver
  /\ part = "window" => Page!TypeOK /\ Page!NothingUnseen

(* What no step of a PC may do: undo another thread's setting, overwrite   *)
(* damaged settings, uninstall the old engine before the new one is proved,*)
(* show one action's result as another's.                                  *)
PcSteps ==
  [][/\ part = "settings" => Settings!NothingUnset /\ Settings!DamagedIsKept
     /\ part = "setup" => Install!UninstallLast
     /\ part = "window" => Page!NoteIsItsOwn]_allVars
=============================================================================
