----------------------------- MODULE UnixSetup -----------------------------
(***************************************************************************)
(* The setup of a Mac (and of a Linux machine) that is to be controlled:   *)
(* host/src/unix_setup.rs.  The first part unpacks, configures and starts  *)
(* the engine while the service may start it too; the second is what makes *)
(* Latch start at login, and the move of a copy that still runs from the   *)
(* folder an earlier version used.                                         *)
(***************************************************************************)
EXTENDS Naturals

CONSTANTS
  MaxFaults,    \* failures, kills and power cuts in a behaviour
  MaxRuns       \* setups, switches of the setting and logins in a behaviour

UnixAssumption == MaxFaults \in Nat /\ MaxRuns \in Nat

VARIABLES
  engine,   \* the engine's files, its configuration and login, its process
  setup,    \* where the setup is
  item,     \* the app's folder, the login items on disk, the owner's wish
  jobs,     \* the service's processes
  move,     \* where the copy that moves its folder is
  past

vars == <<engine, setup, item, jobs, move, past>>

None == "none"
NoProcess == [conf |-> None, login |-> None, dying |-> FALSE]

Init ==
  /\ engine \in [files : {None, "whole"}, conf : {"old"}, login : {"old"}, tmp : {None},
                 process : {NoProcess}]
  /\ setup = [at |-> "idle", result |-> None]
  /\ \E agent \in BOOLEAN, legacy \in BOOLEAN :
       /\ item = [folder |-> IF legacy THEN "BroLink" ELSE "Latch",
                  old |-> agent /\ legacy, new |-> IF agent /\ ~legacy THEN "Latch" ELSE None,
                  wish |-> agent]
       /\ jobs = [old |-> agent /\ legacy, new |-> agent /\ ~legacy, own |-> ~agent]
  /\ move = [at |-> "idle", window |-> FALSE, agent |-> FALSE]
  /\ past = [faults |-> 0, runs |-> 0, killed |-> FALSE]

Fault == past.faults < MaxFaults /\ past' = [past EXCEPT !.faults = @ + 1]
Again == past.runs < MaxRuns /\ past' = [past EXCEPT !.runs = @ + 1]
NoFault == UNCHANGED past
SetupOnly == UNCHANGED <<item, jobs, move>>
Step(from, to) == setup.at = from /\ setup' = [setup EXCEPT !.at = to] /\ SetupOnly /\ NoFault

---------------------------------------------------------------------------
(* The engine. *)

Run ==
  /\ setup.at = "idle" /\ Again
  /\ setup' = [at |-> IF engine.files = None THEN "download" ELSE "stop", result |-> None]
  /\ SetupOnly /\ UNCHANGED engine

\* The disk image, whose digest is checked, is mounted and copied; what is
\* in the folder after a copy that was cut short counts as the engine.
Download == Step("download", "copy") /\ UNCHANGED engine

CopyBegins == Step("copy", "copied") /\ engine' = [engine EXCEPT !.files = "part"]

CopyEnds == Step("copied", "stop") /\ engine' = [engine EXCEPT !.files = "whole"]

\* pkill only asks; the engine ends in its own time.
Stop(p) == [p EXCEPT !.dying = p # NoProcess]

StopEngine ==
  /\ Step("stop", "conf") \/ Step("stopAgain", "start")
  /\ engine' = [engine EXCEPT !.process = Stop(@)]

Dies ==
  /\ engine.process.dying
  /\ engine' = [engine EXCEPT !.process = NoProcess]
  /\ UNCHANGED <<setup, item, jobs, move, past>>

\* sunshine.conf is written in place, so a cut leaves less of it.
ConfBegins == Step("conf", "confWritten") /\ engine' = [engine EXCEPT !.conf = "torn"]

ConfEnds == Step("confWritten", "login") /\ engine' = [engine EXCEPT !.conf = "ours"]

\* write_engine_login: into a new file beside, which is on disk before it gets
\* its name.  One that a cut leaves there nobody takes up again.
LoginBegins == Step("login", "loginWritten") /\ engine' = [engine EXCEPT !.tmp = "part"]

LoginWritten ==
  Step("loginWritten", "loginRename") /\ engine' = [engine EXCEPT !.tmp = "ours"]

LoginEnds ==
  /\ Step("loginRename", "stopAgain")
  /\ engine' = [engine EXCEPT !.tmp = None, !.login = engine.tmp]

Starts(e) ==
  [e EXCEPT !.process = [conf |-> e.conf, login |-> e.login, dying |-> FALSE]]

\* streamer::start: what answers on the port will do.
StartEngine ==
  /\ Step("start", "agent")
  /\ \/ engine.process # NoProcess /\ UNCHANGED engine
     \/ /\ engine.process = NoProcess /\ engine.files = "whole"
        /\ engine' = Starts(engine)

\* The service finds the engine down and starts it, at any time.
CareStarts ==
  /\ engine.process = NoProcess /\ engine.files = "whole"
  /\ engine' = Starts(engine)
  /\ UNCHANGED <<setup, item, jobs, move, past>>

\* A step fails, or the engine does not start.
SetupFails ==
  /\ setup.at \notin {"idle", "stop", "stopAgain"}
  /\ \/ Fault
     \/ setup.at = "start" /\ engine.files # "whole" /\ NoFault
  /\ setup' = [at |-> "idle", result |-> "failed"]
  /\ engine' = [engine EXCEPT !.tmp = None]
  /\ SetupOnly

\* The window is closed in the middle, or the machine goes down.
SetupCut ==
  /\ setup.at # "idle" /\ Fault
  /\ setup' = [at |-> "idle", result |-> None]
  /\ UNCHANGED <<engine, item, jobs, move>>

---------------------------------------------------------------------------
(* Starting at login. *)

WriteAgent(i, folder) == [i EXCEPT !.new = folder, !.old = FALSE]

\* launchctl load: a copy that finds the port taken exits and stays away.
Load == jobs' = [jobs EXCEPT !.new = @ \/ ~(jobs.old \/ jobs.own)]

\* set_autostart and register_autostart for the folder there is.
AgentOn ==
  /\ setup.at = "agent"
  /\ setup' = [at |-> "idle", result |-> "ok"]
  /\ item' = WriteAgent(item, item.folder)
  /\ Load
  /\ UNCHANGED <<engine, move>> /\ NoFault

Switch ==
  /\ move.at = "idle" /\ Again
  /\ \/ /\ item' = [WriteAgent(item, item.folder) EXCEPT !.wish = TRUE]
        /\ Load
     \/ /\ item' = [item EXCEPT !.new = None, !.old = FALSE, !.wish = FALSE]
        /\ UNCHANGED jobs
  /\ UNCHANGED <<engine, setup, move>>

\* A service that starts keeps the login item, if the owner wants it.
ServiceKeeps ==
  /\ \E j \in DOMAIN jobs : jobs[j]
  /\ item.wish /\ item.folder = "Latch"
  /\ item' = WriteAgent(item, item.folder)
  /\ UNCHANGED <<engine, setup, jobs, move, past>>

\* The machine restarts and its user logs in: what is on disk decides, if
\* the folder it names is there.
Login ==
  /\ past.runs < MaxRuns
  /\ past' = [past EXCEPT !.runs = @ + 1, !.killed = @ \/ move.at # "idle"]
  /\ jobs' = [old |-> item.old /\ item.folder = "BroLink",
              new |-> item.new = item.folder, own |-> FALSE]
  /\ move' = [at |-> "idle", window |-> FALSE, agent |-> FALSE]
  /\ setup' = [at |-> "idle", result |-> None]
  /\ engine' = [engine EXCEPT !.process = NoProcess]
  /\ UNCHANGED item

---------------------------------------------------------------------------
(* adopt_legacy_bundle, in the window or in the service. *)

MoveStep(from, to) ==
  /\ move.at = from /\ move' = [move EXCEPT !.at = to]
  /\ UNCHANGED <<engine, setup>> /\ NoFault

Rename ==
  /\ move.at = "idle" /\ item.folder = "BroLink"
  /\ item' = [item EXCEPT !.folder = "Latch"]
  /\ \E window \in {TRUE, ~(jobs.old \/ jobs.own)} :
       move' = [at |-> "agent", window |-> window, agent |-> item.old \/ item.new # None]
  /\ UNCHANGED <<engine, setup, jobs>> /\ NoFault

WriteAndRetire ==
  /\ MoveStep("agent", IF move.window THEN "bootout" ELSE "exec")
  /\ item' = IF move.agent THEN WriteAgent(item, "Latch") ELSE [item EXCEPT !.old = FALSE]
  /\ UNCHANGED jobs

Bootout == MoveStep("bootout", "quit") /\ jobs' = [jobs EXCEPT !.old = FALSE] /\ UNCHANGED item

\* /v1/quit, to whichever service has the port.
Quit == MoveStep("quit", "bootstrap") /\ jobs' = [jobs EXCEPT !.own = FALSE] /\ UNCHANGED item

Bootstrap ==
  /\ MoveStep("bootstrap", "exec")
  /\ jobs' = [jobs EXCEPT !.new = @ \/ move.agent]
  /\ UNCHANGED item

\* The copy carries on from the new folder; a window starts a service if
\* none answers.
Exec ==
  /\ move.at = "exec"
  /\ move' = [at |-> "idle", window |-> FALSE, agent |-> FALSE]
  /\ jobs' = [jobs EXCEPT !.own = @ \/ ~(jobs.old \/ jobs.new)]
  /\ UNCHANGED <<engine, setup, item>> /\ NoFault

MoveCut ==
  /\ move.at # "idle" /\ past.faults < MaxFaults
  /\ past' = [past EXCEPT !.faults = @ + 1, !.killed = TRUE]
  /\ move' = [at |-> "idle", window |-> FALSE, agent |-> FALSE]
  /\ UNCHANGED <<engine, setup, item, jobs>>

Next ==
  \/ Run \/ Download \/ CopyBegins \/ CopyEnds \/ StopEngine \/ Dies \/ ConfBegins \/ ConfEnds
  \/ LoginBegins \/ LoginWritten \/ LoginEnds \/ StartEngine \/ CareStarts \/ SetupFails \/ SetupCut
  \/ AgentOn \/ Switch \/ ServiceKeeps \/ Login
  \/ Rename \/ WriteAndRetire \/ Bootout \/ Quit \/ Bootstrap \/ Exec \/ MoveCut

Spec == Init /\ [][Next]_vars

---------------------------------------------------------------------------
(* Properties. *)

TypeOK ==
  /\ engine.files \in {None, "part", "whole"} /\ engine.conf \in {"old", "torn", "ours"}
  /\ engine.process.dying => engine.process.conf # None
  /\ item.folder \in {"BroLink", "Latch"} /\ item.new \in {None, "BroLink", "Latch"}
  /\ past.faults \in 0..MaxFaults /\ past.runs \in 0..MaxRuns

\* An engine that is not on its way out after a setup that ended well has
\* read the configuration and the login of that setup, whoever started it.
SetupTakes ==
  setup.result = "ok" /\ engine.process # NoProcess /\ ~engine.process.dying =>
     engine.process.conf = "ours" /\ engine.process.login = "ours"

\* Neither the engine's login file nor an engine that read it ever has half a
\* login, wherever the writing of it is cut short or tried again.
LoginIsWhole == "part" \notin {engine.login, engine.process.login}

\* What the owner wants to start at login does: the login item is there and
\* names the folder there is, unless a move has been cut short half way.
StartsAtLogin ==
  item.wish /\ move.at = "idle" /\ ~past.killed =>
     item.new = item.folder \/ (item.old /\ item.folder = "BroLink")
=============================================================================
