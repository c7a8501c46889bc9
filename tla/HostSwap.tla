------------------------------- MODULE HostSwap -------------------------------
(***************************************************************************)
(* How a PC takes a new latch-host.exe (crates/host): the request handlers *)
(* of the control service that check and stage an upload, the thread that  *)
(* swaps the files and hands over to the new executable, the copies of the *)
(* service that come and go and compete for the control port, and the      *)
(* window on the PC that starts, stops and restarts the service.           *)
(*                                                                         *)
(* Uploads come from any machine of the account, at any time; HostPush     *)
(* adds the updater of the Mac that sends them.                            *)
(***************************************************************************)
EXTENDS Naturals, FiniteSets

CONSTANTS
    Versions,   \* the releases there are, oldest first
    First,      \* what the PC runs at the start
    Broken,     \* releases whose executable dies when it is started
    Procs,      \* bound: copies of the service alive at once
    Handlers,   \* request handlers, one per machine that sends uploads
    Faults      \* what may go wrong: "sharing" (a file is in use), "stuck" (so
                \* is one to be put back), "stop", "power"

ASSUME SwapAssumption ==
    /\ Versions \subseteq Nat \ {0}
    /\ Broken \subseteq Versions
    /\ First \in Versions \ Broken
    /\ Faults \subseteq {"sharing", "stuck", "stop", "power"}

None == 0           \* no such file, no window
CONSTANT NoProc     \* no process
ASSUME NoProcAssumption == NoProc \notin Procs

VARIABLES
    exe, new, old,  \* the version in latch-host.exe, in .new and in .old
    proc,           \* each copy of the service
    installing,     \* Service::update_running of each copy
    apply,          \* where each copy's update thread is
    handler,        \* where each upload is in Service::update
    reply,          \* what was last answered to each handler's machine
    powered,        \* the PC is on
    panel,          \* the version of the window open on the PC
    restarted,      \* spawn_poller's restarted_service
    stopped,        \* the owner stopped the service in the window
    lastServed,     \* history: the version that last took the port, None once
                    \* a copy that an update started was overtaken
    undone          \* history: versions that were moved aside again

files == <<exe, new, old>>
panelVars == <<powered, panel, restarted, stopped>>
history == <<lastServed, undone>>
vars == <<files, proc, installing, apply, handler, reply, panelVars, history>>

Files == Versions \cup {None}
Alive(p) == proc[p].st # "none"
NoCopy == [st |-> "none", ver |-> None, replaces |-> FALSE]
NoApply == [pc |-> "none", child |-> NoProc]
NoRequest == [pc |-> "idle", by |-> NoProc, ver |-> None]

TypeOK ==
    /\ {exe, new, old} \subseteq Files
    /\ proc \in [Procs -> [st : {"none", "starting", "binding", "serving"},
                           ver : Files, replaces : BOOLEAN]]
    /\ \A p \in Procs : Alive(p) => proc[p].ver \in Versions
    /\ installing \in [Procs -> BOOLEAN]
    /\ apply \in [Procs -> [pc : {"none", "delay", "movein", "putback",
                                  "spawn", "grace", "aside", "restore"},
                            child : Procs \cup {NoProc}]]
    /\ handler \in [Handlers -> [pc : {"idle", "arrived", "checked"},
                                 by : Procs \cup {NoProc}, ver : Files]]
    /\ reply \in [Handlers -> {"none", "ok", "refused", "dropped"}]
    /\ powered \in BOOLEAN
    /\ panel \in Files
    /\ restarted \in BOOLEAN
    /\ stopped \in BOOLEAN
    /\ lastServed \in Files
    /\ undone \subseteq Versions

Serving(p) == proc[p].st = "serving"
PortFree == \A p \in Procs : ~Serving(p)
OnItsWay(p) == proc[p].st \in {"starting", "binding"}
\* A slot another copy still holds as its Child is not a new process's.
Spare(p) == ~Alive(p) /\ \A q \in Procs : apply[q].child # p

Init ==
    \E p \in Procs :
        /\ exe = First /\ new = None /\ old = None
        /\ proc = [q \in Procs |->
                    IF q = p
                    THEN [st |-> "serving", ver |-> First, replaces |-> FALSE]
                    ELSE NoCopy]
        /\ installing = [q \in Procs |-> FALSE]
        /\ apply = [q \in Procs |-> NoApply]
        /\ handler = [h \in Handlers |-> NoRequest]
        /\ reply = [h \in Handlers |-> "none"]
        /\ powered = TRUE /\ panel = None
        /\ restarted = FALSE /\ stopped = FALSE
        /\ lastServed = First /\ undone = {}

\* What a set of processes takes with it when it ends: its update thread and
\* the requests it was answering.
End(ps) ==
    /\ proc' = [p \in Procs |-> IF p \in ps THEN NoCopy ELSE proc[p]]
    /\ installing' = [p \in Procs |-> p \notin ps /\ installing[p]]
    /\ apply' = [p \in Procs |-> IF p \in ps THEN NoApply ELSE apply[p]]
    /\ handler' = [h \in Handlers |->
                    IF handler[h].by \in ps THEN NoRequest ELSE handler[h]]
    /\ reply' = [h \in Handlers |->
                    IF handler[h].by \in ps THEN "dropped" ELSE reply[h]]

\* Faulty variants carry the name of the definition after them and a word for
\* the bug; no specification uses them, they show that the properties notice.
StartMissing(p, replacing) ==
    /\ Spare(p)
    /\ proc' = [proc EXCEPT ![p] = [st |-> "starting", ver |-> exe,
                                    replaces |-> replacing]]

\* The executable started in a free slot.
Start(p, replacing) ==
    /\ exe # None /\ Spare(p)
    /\ proc' = [proc EXCEPT ![p] = [st |-> "starting", ver |-> exe,
                                    replaces |-> replacing]]

-----------------------------------------------------------------------------
(* An upload: Service::update, then stage().                                 *)

Arrive(h, v) ==
    \E p \in Procs :
        /\ Serving(p) /\ handler[h].pc = "idle"
        /\ handler' = [handler EXCEPT
                        ![h] = [pc |-> "arrived", by |-> p, ver |-> v]]
        /\ reply' = [reply EXCEPT ![h] = "none"]
        /\ UNCHANGED <<files, proc, installing, apply, panelVars, history>>

Answer(h, what) ==
    /\ handler' = [handler EXCEPT ![h] = NoRequest]
    /\ reply' = [reply EXCEPT ![h] = what]

TakeTurnUnasked(h) ==
    /\ handler[h].pc = "arrived"
    /\ installing' = [installing EXCEPT ![handler[h].by] = TRUE]
    /\ handler' = [handler EXCEPT ![h].pc = "checked"]
    /\ UNCHANGED <<files, proc, apply, reply, panelVars, history>>

\* update_running.swap(true): only one request at a time goes on.
TakeTurn(h) ==
    LET p == handler[h].by IN
    /\ handler[h].pc = "arrived"
    /\ IF installing[p]
       THEN Answer(h, "refused") /\ UNCHANGED installing
       ELSE /\ installing' = [installing EXCEPT ![p] = TRUE]
            /\ handler' = [handler EXCEPT ![h].pc = "checked"]
            /\ UNCHANGED reply
    /\ UNCHANGED <<files, proc, apply, panelVars, history>>

Refuse(h) ==
    /\ installing' = [installing EXCEPT ![handler[h].by] = FALSE]
    /\ Answer(h, "refused")

\* refuse_self_update: the engine runs and a session is active.
Defer(h) ==
    /\ handler[h].pc = "checked"
    /\ Refuse(h)
    /\ UNCHANGED <<files, proc, apply, panelVars, history>>

\* The upload carries nothing newer than this copy of the service.
NotNewer(h) ==
    /\ handler[h].pc = "checked"
    /\ handler[h].ver <= proc[handler[h].by].ver
    /\ Refuse(h)
    /\ UNCHANGED <<files, proc, apply, panelVars, history>>

StageAnything(h) ==
    /\ handler[h].pc = "checked"
    /\ new' = handler[h].ver
    /\ apply' = [apply EXCEPT ![handler[h].by] = [pc |-> "delay", child |-> NoProc]]
    /\ Answer(h, "ok")
    /\ UNCHANGED <<exe, old, proc, installing, panelVars, history>>

\* Staged; the answer goes out and the update thread starts to wait.
Stage(h) ==
    LET p == handler[h].by IN
    /\ handler[h].pc = "checked"
    /\ handler[h].ver > proc[p].ver
    /\ new' = handler[h].ver
    /\ apply' = [apply EXCEPT ![p] = [pc |-> "delay", child |-> NoProc]]
    /\ Answer(h, "ok")
    /\ UNCHANGED <<exe, old, proc, installing, panelVars, history>>

\* The staged file could not be written.
StageFails(h) ==
    /\ handler[h].pc = "checked" /\ "sharing" \in Faults
    /\ handler[h].ver > proc[handler[h].by].ver
    /\ new' = None
    /\ Refuse(h)
    /\ UNCHANGED <<exe, old, proc, apply, panelVars, history>>

-----------------------------------------------------------------------------
(* The update thread: apply_within(), then exit or carry on.  Every rename   *)
(* may fail for good once rename_retry has given up.                         *)

Stays == UNCHANGED <<proc, handler, reply, panelVars, lastServed>>
Goto(p, pc) == apply' = [apply EXCEPT ![p].pc = pc]

\* apply_within returned an error: the thread logs it and lets the next
\* upload in.
GiveUp(p) ==
    /\ apply' = [apply EXCEPT ![p] = NoApply]
    /\ installing' = [installing EXCEPT ![p] = FALSE]

\* rename_retry(exe, old), after any older .old has been removed.  A .old
\* that is still mapped gets a neighbour of another name, which only this
\* thread needs to know.  The half second before it is longer than a copy
\* that tries the port once takes to find it taken.
Retire(p) ==
    /\ apply[p].pc = "delay"
    /\ \A q \in Procs : OnItsWay(q) => proc[q].replaces
    /\ \/ /\ exe # None /\ new # None
          /\ old' = exe /\ exe' = None
          /\ Goto(p, "movein") /\ UNCHANGED installing
       \/ /\ exe = None \/ new = None \/ "sharing" \in Faults
          /\ GiveUp(p) /\ UNCHANGED <<exe, old>>
    /\ UNCHANGED <<new, undone>> /\ Stays

\* rename_retry(&new, exe)
MoveIn(p) ==
    /\ apply[p].pc = "movein"
    /\ \/ /\ exe' = new /\ new' = None
          /\ Goto(p, "spawn")
       \/ /\ "sharing" \in Faults
          /\ Goto(p, "putback") /\ UNCHANGED <<exe, new>>
    /\ UNCHANGED <<old, installing, undone>> /\ Stays

\* rename_retry(&old, exe) after the move in failed.
PutBack(p) ==
    /\ apply[p].pc = "putback"
    /\ \/ exe' = old /\ old' = None
       \/ "stuck" \in Faults /\ UNCHANGED <<exe, old>>
    /\ GiveUp(p)
    /\ UNCHANGED <<new, undone>> /\ Stays

\* The new executable started with --replaces.
Spawn(p) ==
    /\ apply[p].pc = "spawn"
    /\ \/ \E q \in Procs :
            /\ Start(q, TRUE)
            /\ apply' = [apply EXCEPT ![p] = [pc |-> "grace", child |-> q]]
       \/ "sharing" \in Faults /\ Goto(p, "aside") /\ UNCHANGED proc
    /\ UNCHANGED <<files, installing, handler, reply, panelVars, history>>

\* STARTUP_GRACE is over: a new copy that dies when it is started has done so.
GraceOver(p) == apply[p].pc = "grace" /\ proc[apply[p].child].st # "starting"

HandOver(p) ==
    /\ GraceOver(p) /\ Alive(apply[p].child)
    /\ End({p})
    /\ UNCHANGED <<files, panelVars, history>>

ChildGone(p) ==
    /\ GraceOver(p) /\ ~Alive(apply[p].child)
    /\ apply' = [apply EXCEPT ![p] = [pc |-> "aside", child |-> NoProc]]
    /\ UNCHANGED <<files, installing, undone>> /\ Stays

AsideOnly(p) ==
    /\ apply[p].pc = "aside"
    /\ new' = exe /\ exe' = None
    /\ undone' = undone \cup ({exe} \ {None})
    /\ GiveUp(p)
    /\ UNCHANGED old /\ Stays

\* restore: rename_retry(exe, &new)
Aside(p) ==
    /\ apply[p].pc = "aside"
    /\ \/ /\ new' = exe /\ exe' = None
          /\ undone' = undone \cup ({exe} \ {None})
          /\ Goto(p, "restore") /\ UNCHANGED installing
       \/ /\ "stuck" \in Faults
          /\ GiveUp(p) /\ UNCHANGED <<exe, new, undone>>
    /\ UNCHANGED old /\ Stays

\* restore: rename_retry(&old, exe)
Restore(p) ==
    /\ apply[p].pc = "restore"
    /\ \/ exe' = old /\ old' = None
       \/ "stuck" \in Faults /\ UNCHANGED <<exe, old>>
    /\ GiveUp(p)
    /\ UNCHANGED <<new, undone>> /\ Stays

-----------------------------------------------------------------------------
(* The copies of the service: main(), Service::run and, on the port, exit.   *)

\* A broken executable dies at once; any other goes for the port.
StartUp(p) ==
    /\ proc[p].st = "starting"
    /\ proc' = [proc EXCEPT ![p] = IF @.ver \in Broken THEN NoCopy
                                   ELSE [@ EXCEPT !.st = "binding"]]
    /\ UNCHANGED <<files, installing, apply, handler, reply, panelVars, history>>

\* A copy that an update started waits a minute for the port.  One that another
\* overtakes may still take it later: then the order of versions is lost.
Overtakes(p) == \E q \in Procs \ {p} : OnItsWay(q) /\ proc[q].replaces
ServedNext(p) ==
    IF lastServed = None \/ Overtakes(p) THEN None ELSE proc[p].ver

BindBeside(p) ==
    /\ proc[p].st = "binding"
    /\ proc' = [proc EXCEPT ![p].st = "serving"]
    /\ old' = IF proc[p].replaces THEN None ELSE old
    /\ lastServed' = ServedNext(p)
    /\ UNCHANGED <<exe, new, installing, apply, handler, reply, panelVars, undone>>

\* The port is free: serve, and if this copy replaces another, tidy().
Bind(p) ==
    /\ proc[p].st = "binding" /\ PortFree
    /\ proc' = [proc EXCEPT ![p].st = "serving"]
    /\ old' = IF proc[p].replaces THEN None ELSE old
    /\ lastServed' = ServedNext(p)
    /\ UNCHANGED <<exe, new, installing, apply, handler, reply, panelVars, undone>>

LeavePortAnyway(p) ==
    /\ proc[p].st = "binding" /\ ~PortFree
    /\ proc' = [proc EXCEPT ![p] = NoCopy]
    /\ UNCHANGED <<files, installing, apply, handler, reply, panelVars, history>>

\* Another copy answers and this one is not an update: it exits.
LeavePort(p) ==
    /\ proc[p].st = "binding" /\ ~PortFree /\ ~proc[p].replaces
    /\ proc' = [proc EXCEPT ![p] = NoCopy]
    /\ UNCHANGED <<files, installing, apply, handler, reply, panelVars, history>>

\* An update that has waited a minute for the port.  The copy that started
\* it lets go of the port long before that.
StopWaiting(p) ==
    /\ proc[p].st = "binding" /\ ~PortFree /\ proc[p].replaces
    /\ \A q \in Procs : apply[q].child # p
    /\ proc' = [proc EXCEPT ![p] = NoCopy]
    /\ UNCHANGED <<files, installing, apply, handler, reply, panelVars, history>>

-----------------------------------------------------------------------------
(* The window on the PC: spawn_poller, its buttons, ensure_service_running.  *)

\* The owner opens the window, or the window opens itself again.
OpenPanel ==
    /\ powered /\ panel = None
    /\ exe \notin Broken \cup {None}
    /\ panel' = exe /\ restarted' = FALSE /\ stopped' = FALSE
    /\ UNCHANGED <<files, proc, installing, apply, handler, reply, powered, history>>

\* ensure_service_running, unless the owner stopped the service.  The poller
\* looks once a second; a copy that waits for the port looks twice as often.
EnsureService ==
    /\ panel # None /\ ~stopped /\ PortFree
    /\ \A p \in Procs : ~(proc[p].st = "binding" /\ proc[p].replaces)
    /\ \E p \in Procs : Start(p, FALSE)
    /\ UNCHANGED <<files, installing, apply, handler, reply, panelVars, history>>

\* UpdateAction::RestartService, once: /v1/quit, then EnsureService.
RestartService(p) ==
    /\ Serving(p) /\ panel > proc[p].ver /\ ~restarted
    /\ restarted' = TRUE
    /\ End({p})
    /\ UNCHANGED <<files, powered, panel, stopped, history>>

\* UpdateAction::RelaunchPanel: a new window from the file on disk, which a
\* broken file does not open.
RelaunchPanel(p) ==
    /\ Serving(p) /\ panel # None /\ panel < proc[p].ver
    /\ exe # None
    /\ panel' = IF exe \in Broken THEN None ELSE exe
    /\ restarted' = FALSE /\ stopped' = FALSE
    /\ UNCHANGED <<files, proc, installing, apply, handler, reply, powered, history>>

\* stop_service: /v1/quit, and the poller leaves the service alone.
StopService(p) ==
    /\ "stop" \in Faults
    /\ Serving(p) /\ panel # None
    /\ stopped' = TRUE
    /\ End({p})
    /\ UNCHANGED <<files, powered, panel, restarted, history>>

\* start_service; EnsureService follows.
StartService ==
    /\ panel # None /\ stopped
    /\ stopped' = FALSE
    /\ UNCHANGED <<files, proc, installing, apply, handler, reply, powered,
                   panel, restarted, history>>

-----------------------------------------------------------------------------
(* The PC loses power, and starts what the logon entry names.                *)

PowerLoss ==
    /\ "power" \in Faults /\ powered
    /\ powered' = FALSE /\ panel' = None
    /\ restarted' = FALSE /\ stopped' = FALSE
    /\ End(Procs)
    /\ UNCHANGED <<files, history>>

Boot ==
    /\ ~powered /\ powered' = TRUE
    /\ IF exe = None THEN UNCHANGED proc ELSE \E p \in Procs : Start(p, FALSE)
    /\ UNCHANGED <<files, installing, apply, handler, reply, panel, restarted,
                   stopped, history>>

-----------------------------------------------------------------------------

Upload(h) == TakeTurn(h) \/ Defer(h) \/ NotNewer(h) \/ Stage(h) \/ StageFails(h)
Update(p) == Retire(p) \/ MoveIn(p) \/ PutBack(p) \/ Spawn(p) \/ HandOver(p)
             \/ ChildGone(p) \/ Aside(p) \/ Restore(p)
Live(p) == StartUp(p) \/ Bind(p) \/ LeavePort(p) \/ StopWaiting(p)
Window(p) == RestartService(p) \/ RelaunchPanel(p)

Pc == \/ \E h \in Handlers : Upload(h)
      \/ \E p \in Procs : Update(p) \/ Live(p) \/ Window(p) \/ StopService(p)
      \/ OpenPanel \/ EnsureService \/ StartService
      \/ PowerLoss \/ Boot

Next == Pc \/ \E h \in Handlers, v \in Versions : Arrive(h, v)

Spec == Init /\ [][Next]_vars

\* Every thread and process runs; an upload, a click and an outage may fail
\* to happen.
Fairness ==
    /\ \A h \in Handlers : WF_vars(Upload(h))
    /\ \A p \in Procs : WF_vars(Update(p)) /\ WF_vars(Live(p)) /\ WF_vars(Window(p))
    /\ WF_vars(EnsureService) /\ WF_vars(Boot)

FairSpec == Spec /\ Fairness

-----------------------------------------------------------------------------

\* What is moved in is what the upload was checked for: no other upload
\* touches the staged file between its check and the swap.
InstalledIsStaged ==
    \A p \in Procs : apply[p].pc \in {"delay", "movein"} => new > proc[p].ver

\* At most one update thread is at work on the files.
OneUpdate ==
    \A p, q \in Procs :
        (apply[p].pc # "none" /\ apply[q].pc # "none") => p = q

\* No copy that an update started was overtaken on its way to the port; one
\* that was may take it later, and its window ends it in the middle of the
\* next update.
InOrder == lastServed # None

\* While nothing has cut the service off, a PC without a service on the port
\* is about to get one: a copy that can run is on its way to the port, or
\* the window is open and the file it starts is there and runs.
NeverUnserved ==
    InOrder /\ powered /\ PortFree /\ ~stopped =>
        \/ \E p \in Procs : Alive(p) /\ proc[p].ver \notin Broken
        \/ panel # None /\ exe \notin Broken \cup {None}

\* The executable is there whenever nobody is about to put one there.
Startable ==
    InOrder /\ exe = None =>
        \E p \in Procs : apply[p].pc \in {"movein", "putback", "restore"}

\* A broken executable is not left where the logon entry finds it.
BrokenGoes ==
    InOrder /\ exe \in Broken => \E p \in Procs : apply[p].pc \in {"spawn", "grace", "aside"}

\* The executable is there, and runs, whenever the PC has no power.
ComesBack == ~powered => exe \notin Broken \cup {None}

\* The PC never goes back to an older version once it served a newer one, as
\* long as no copy that an update started is overtaken on its way to the port.
NeverOlder == [][lastServed' # None => lastServed' >= lastServed]_vars

\* A staged release that runs becomes what the PC starts, one that does not is
\* undone, and the service is there once either is done.
Staged(v) == new = v /\ \E p \in Procs : apply[p].pc = "delay"
Settled == ~PortFree /\ \A p \in Procs : apply[p].pc = "none"
Arrived(v) == Settled /\ IF v \in Broken THEN exe \notin Broken ELSE exe >= v

\* Again and again: the service comes back as long as the owner did not stop
\* it.
Served == powered /\ PortFree => stopped

=============================================================================
