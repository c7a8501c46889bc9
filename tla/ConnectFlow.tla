----------------------------- MODULE ConnectFlow -----------------------------
(***************************************************************************)
(* One connection attempt after another in the viewer (crates/client):     *)
(* the connect worker of session.rs that wakes, waits, pairs, launches and *)
(* starts a session; the window of app.rs that shows its progress, cancels *)
(* it, drains the session's events and lets the session go; and the        *)
(* updater of update.rs, which installs only when neither is at work.      *)
(*                                                                         *)
(* They share two locks: "progress" and "live".  The sessions themselves   *)
(* move as SessionLife says, which StreamSession implements.               *)
(***************************************************************************)
EXTENDS Naturals, Sequences

CONSTANT MaxConnects    \* bound: how many times the user connects

ASSUME ConnectAssumption == MaxConnects \in Nat

Attempts == 1..MaxConnects
None == 0               \* the None of Live and of Progress::generation

VARIABLES
    progress,   \* Arc<Mutex<Progress>>
    live,       \* Arc<Mutex<Option<Live>>>: whose Live it is
    worker,     \* where the worker of each attempt is in run()
    phase,      \* the session of each attempt, see SessionLife
    done,       \* its Inner::done
    raised,     \* a termination was carried to it
    events,     \* its channel: Connected, Failed, Lost or Closed
    ui,         \* where the window is in update()
    snapshot,   \* update()'s clone of progress
    reconnect,  \* ClientApp::reconnect
    updater     \* "waiting" for a gap, "installing", or "current"

vars == <<progress, live, worker, phase, done, raised, events, ui, snapshot,
          reconnect, updater>>
sessionVars == <<phase, done, raised, events>>
uiVars == <<ui, snapshot, reconnect>>

Life == INSTANCE SessionLife WITH
            Sessions <- Attempts, Senders <- {}, Nobody <- None,
            using <- <<>>

Quiet == {"Idle", "Ended", "EndedError"}    \* EndedError: Ended{error: Some}
Steps == Quiet \cup {"Waking", "Waiting", "Pairing", "Launching",
                     "Connecting", "Streaming"}
WorkerSteps == {"none", "wake", "waking", "port", "waiting", "check", "pair",
                "checkLaunch", "launching", "launch", "checkStart", "start",
                "checkLive", "publish", "report", "bail", "gone"}

\* Progress::active.
IsActive(p) == p.updating \/ p.step \notin Quiet

TypeOK ==
    /\ progress \in [step: Steps, cancel: BOOLEAN, updating: BOOLEAN,
                     generation: 0..MaxConnects]
    /\ live \in 0..MaxConnects
    /\ worker \in [Attempts -> WorkerSteps]
    /\ phase \in [Attempts -> Life!Phases]
    /\ done \in [Attempts -> BOOLEAN]
    /\ raised \in [Attempts -> BOOLEAN]
    /\ events \in [Attempts -> Seq({"Connected", "Failed", "Lost", "Closed"})]
    /\ ui \in {"poll", "polled", "look", "view", "home", "page", "stop"}
    /\ snapshot \in [active: BOOLEAN, updating: BOOLEAN, step: Steps]
    /\ reconnect \in BOOLEAN
    /\ updater \in {"waiting", "installing", "current"}

NoProgress == [step |-> "Idle", cancel |-> FALSE, updating |-> FALSE,
               generation |-> None]
NoSnapshot == [active |-> FALSE, updating |-> FALSE, step |-> "Idle"]

Init ==
    /\ progress = NoProgress
    /\ live = None
    /\ worker = [g \in Attempts |-> "none"]
    /\ phase = [g \in Attempts |-> "new"]
    /\ done = [g \in Attempts |-> FALSE]
    /\ raised = [g \in Attempts |-> FALSE]
    /\ events = [g \in Attempts |-> <<>>]
    /\ ui = "poll"
    /\ snapshot = NoSnapshot
    /\ reconnect = FALSE
    /\ updater = "waiting"

Finished(g) == phase[g] = "over"

\* poll_live holds both locks from its first event to its last decision.
LocksFree == ui # "polled"
Show(step) == progress' = [progress EXCEPT !.step = step]
Goto(g, step) == worker' = [worker EXCEPT ![g] = step]

Stale(g) == progress.cancel \/ progress.generation # g

-----------------------------------------------------------------------------
(* Faulty variants of definitions below, one bug each.  No specification     *)
(* uses them: they show that the properties notice such a bug.               *)

\* A stale attempt leaks its session instead of dropping it.
LiveCheckLeaks(g) ==
    /\ worker[g] = "checkLive" /\ LocksFree
    /\ Goto(g, IF Stale(g) THEN "bail" ELSE "publish")
    /\ UNCHANGED <<progress, live, sessionVars, uiVars, updater>>

\* An event shown as it came.
AfterAsIs(event) == IF event = "Connected" THEN "Streaming" ELSE event

\* Cancel that declares the attempt over before its worker is.
CancelEndsAtOnce ==
    /\ progress' = [progress EXCEPT !.cancel = TRUE, !.step = "Ended"]
    /\ ui' = "stop"

\* Cancel that takes the window back to idle at once.
CancelForgets ==
    /\ progress' = [progress EXCEPT !.cancel = TRUE, !.step = "Idle"]
    /\ ui' = "stop"

\* An install that looks for a stream only.
InstallMidAttempt ==
    /\ updater = "waiting" /\ LocksFree
    /\ live = None
    /\ progress' = [progress EXCEPT !.updating = TRUE]
    /\ updater' = "installing"
    /\ UNCHANGED <<live, worker, sessionVars, uiVars>>

-----------------------------------------------------------------------------
(* The connect worker.                                                       *)

\* The worker at step "at" reports "step" and goes on at one of "outcomes".
\* report() does not look at the generation.
Report(g, at, step, outcomes) ==
    /\ worker[g] = at /\ LocksFree
    /\ Show(step)
    /\ \E o \in outcomes : Goto(g, o)
    /\ UNCHANGED <<live, sessionVars, uiVars, updater>>

\* The worker at step "at" gives up if the attempt is stale.
Check(g, at, next) ==
    /\ worker[g] = at /\ LocksFree
    /\ Goto(g, IF Stale(g) THEN "bail" ELSE next)
    /\ UNCHANGED <<progress, live, sessionVars, uiVars, updater>>

\* Work that touches no shared state: it succeeds or it fails.
Work(g, at, next) ==
    /\ worker[g] = at
    /\ \E o \in {next, "bail"} : Goto(g, o)
    /\ UNCHANGED <<progress, live, sessionVars, uiVars, updater>>

\* Both loops: a look at the cancel, a report, a try that ends the loop, that
\* does not, or that was the last.
WakeCheck(g) == Check(g, "wake", "waking")
Wake(g) == Report(g, "waking", "Waking", {"wake", "port", "bail"})
PortCheck(g) == Check(g, "port", "waiting")
PortWait(g) == Report(g, "waiting", "Waiting", {"port", "check", "bail"})
\* The port may answer at the first try, before any look at the cancel.
PortOpen(g) ==
    /\ worker[g] = "port"
    /\ Goto(g, "check")
    /\ UNCHANGED <<progress, live, sessionVars, uiVars, updater>>
CheckPairing(g) == Report(g, "check", "Launching", {"pair", "checkLaunch", "bail"})

Pair(g) == Report(g, "pair", "Pairing", {"checkLaunch", "bail"})

LaunchCheck(g) == Check(g, "checkLaunch", "launching")
MeasurePath(g) == Report(g, "launching", "Launching", {"launch"})
\* app_list, quitting the game before, and launch or resume.
Launch(g) == Work(g, "launch", "checkStart")
StartCheck(g) == Check(g, "checkStart", "start")

StartSession(g) ==
    /\ worker[g] = "start"
    /\ Life!Start(g)
    /\ Goto(g, "checkLive")
    /\ UNCHANGED <<progress, live, done, raised, events, uiVars, updater>>

\* A stale attempt drops its session: Drop stops it.
LiveCheck(g) ==
    /\ worker[g] = "checkLive" /\ LocksFree
    /\ IF Stale(g)
       THEN Goto(g, "bail") /\ done' = [done EXCEPT ![g] = TRUE]
       ELSE Goto(g, "publish") /\ UNCHANGED done
    /\ UNCHANGED <<progress, live, phase, raised, events, uiVars, updater>>

Publish(g) ==
    /\ worker[g] = "publish" /\ LocksFree
    /\ live' = g
    /\ Goto(g, "report")
    /\ UNCHANGED <<progress, sessionVars, uiVars, updater>>

ReportConnecting(g) == Report(g, "report", "Connecting", {"gone"})

\* connect()'s thread delivers an error, to its own attempt only.
Bail(g) ==
    /\ worker[g] = "bail" /\ LocksFree
    /\ IF progress.generation = g
       THEN Show(IF progress.cancel THEN "Ended" ELSE "EndedError")
       ELSE UNCHANGED progress
    /\ Goto(g, "gone")
    /\ UNCHANGED <<live, sessionVars, uiVars, updater>>

WorkerStep(g) ==
    WakeCheck(g) \/ Wake(g) \/ PortCheck(g) \/ PortWait(g) \/ PortOpen(g)
    \/ CheckPairing(g) \/ Pair(g) \/ LaunchCheck(g) \/ MeasurePath(g)
    \/ Launch(g) \/ StartCheck(g) \/ StartSession(g) \/ LiveCheck(g)
    \/ Publish(g) \/ ReportConnecting(g) \/ Bail(g)

-----------------------------------------------------------------------------
(* The sessions: SessionLife's steps with the flags and events that go with  *)
(* them in crates/stream.                                                    *)

Emit(g, kind) == events' = [events EXCEPT ![g] = Append(@, kind)]
elsewhere == <<progress, live, worker, uiVars, updater>>

SessionOpens(g) ==
    /\ IF done[g] THEN Life!Skip(g) ELSE Life!Open(g)
    /\ UNCHANGED <<done, raised, events, elsewhere>>

SessionOpened(g) ==
    /\ Life!Opened(g)
    /\ Emit(g, "Connected")
    /\ UNCHANGED <<done, raised, elsewhere>>

\* A stage failed.
SessionFails(g) ==
    /\ Life!Fail(g)
    /\ Emit(g, "Failed")
    /\ done' = [done EXCEPT ![g] = TRUE]
    /\ UNCHANGED <<raised, elsewhere>>

\* LiStartConnection refused before its first stage: no event, done untouched.
SessionRefused(g) ==
    /\ Life!Fail(g)
    /\ UNCHANGED <<done, raised, events, elsewhere>>

\* A termination reaches the session, from its own connection or, late, from
\* the one before it (see TerminationFindsItsSession in StreamSession).
SessionTerminates(g, kind) ==
    /\ Life!Busy(g) /\ ~raised[g]
    /\ IF phase[g] = "up" THEN Life!Close(g) ELSE UNCHANGED phase
    /\ Emit(g, kind)
    /\ done' = [done EXCEPT ![g] = TRUE]
    /\ raised' = [raised EXCEPT ![g] = TRUE]
    /\ UNCHANGED elsewhere

SessionCloses(g) ==
    /\ done[g] /\ Life!Close(g)
    /\ UNCHANGED <<done, raised, events, elsewhere>>

SessionEnds(g) ==
    /\ Life!End(g)
    /\ UNCHANGED <<done, raised, events, elsewhere>>

-----------------------------------------------------------------------------
(* The window: one update() after another.                                   *)

After(event) ==
    CASE event = "Connected" -> "Streaming"
      [] event = "Closed" -> "Ended"
      [] event \in {"Failed", "Lost"} ->
            IF progress.cancel THEN "Ended" ELSE "EndedError"

\* poll_live without a Live.
PollNothing ==
    /\ ui = "poll" /\ live = None
    /\ ui' = "look"
    /\ UNCHANGED <<progress, live, worker, sessionVars, snapshot, reconnect,
                   updater>>

\* poll_live takes what the channel holds; the last event decides the step.
PollEvents ==
    /\ ui = "poll" /\ live # None
    /\ IF events[live] = <<>>
       THEN UNCHANGED progress
       ELSE Show(After(events[live][Len(events[live])]))
    /\ events' = [events EXCEPT ![live] = <<>>]
    /\ ui' = "polled"
    /\ UNCHANGED <<live, worker, phase, done, raised, snapshot, reconnect,
                   updater>>

\* Then it looks whether the session has finished.  Both dropping it and an
\* end it has shown stop it.
PollFinished ==
    LET ended == progress.step \in {"Ended", "EndedError"} IN
    /\ ui = "polled"
    /\ IF Finished(live) /\ ~ended THEN Show("Ended") ELSE UNCHANGED progress
    /\ live' = IF Finished(live) THEN None ELSE live
    /\ done' = [done EXCEPT ![live] = @ \/ Finished(live) \/ ended]
    /\ ui' = "look"
    /\ UNCHANGED <<worker, phase, raised, events, snapshot, reconnect, updater>>

\* The stream view, or the pages with a copy of the progress.
Look ==
    /\ ui = "look"
    /\ ui' = IF live # None THEN "view" ELSE "home"
    /\ snapshot' = IF live # None THEN snapshot
                   ELSE [active |-> IsActive(progress),
                         updating |-> progress.updating, step |-> progress.step]
    /\ UNCHANGED <<progress, live, worker, sessionVars, reconnect, updater>>

\* disconnect(): cancel under the progress lock, then stop under the live one.
Cancel ==
    /\ progress' = [progress EXCEPT !.cancel = @ \/ IsActive(progress)]
    /\ ui' = "stop"

Stop ==
    /\ ui = "stop"
    /\ done' = IF live = None THEN done ELSE [done EXCEPT ![live] = TRUE]
    /\ ui' = "poll"
    /\ UNCHANGED <<progress, live, worker, phase, raised, events, snapshot,
                   reconnect, updater>>

\* session::connect: refused while an attempt or an install is active.
Connect ==
    LET g == progress.generation + 1 IN
    /\ IF IsActive(progress)
       THEN UNCHANGED <<progress, worker>>
       ELSE /\ g \in Attempts
            /\ progress' = [step |-> "Launching", cancel |-> FALSE,
                            updating |-> FALSE, generation |-> g]
            /\ \E first \in {"wake", "port"} : Goto(g, first)
    /\ ui' = "poll"

ViewNothing ==
    /\ ui = "view"
    /\ ui' = "poll"
    /\ UNCHANGED <<progress, live, worker, sessionVars, snapshot, reconnect,
                   updater>>

\* Disconnect, Cancel and the power actions.
ViewDisconnect ==
    /\ ui = "view"
    /\ Cancel
    /\ UNCHANGED <<live, worker, sessionVars, snapshot, reconnect, updater>>

\* Restart, other settings, HDR off, and a display that changed.
ViewRestart ==
    /\ ui = "view"
    /\ reconnect' = TRUE
    /\ Cancel
    /\ UNCHANGED <<live, worker, sessionVars, snapshot, updater>>

\* A reconnect that waits goes ahead when the copy of progress allows it.
HomeReconnect ==
    /\ ui = "home" /\ reconnect /\ ~snapshot.active
    /\ reconnect' = FALSE
    /\ Connect
    /\ UNCHANGED <<live, sessionVars, snapshot, updater>>

HomePage ==
    /\ ui = "home" /\ ~(reconnect /\ ~snapshot.active)
    /\ ui' = "page"
    /\ UNCHANGED <<progress, live, worker, sessionVars, snapshot, reconnect,
                   updater>>

PageNothing ==
    /\ ui = "page"
    /\ ui' = "poll"
    /\ UNCHANGED <<progress, live, worker, sessionVars, snapshot, reconnect,
                   updater>>

PageConnect ==
    /\ ui = "page" /\ ~snapshot.active
    /\ Connect
    /\ UNCHANGED <<live, sessionVars, snapshot, reconnect, updater>>

PageCancel ==
    /\ ui = "page" /\ snapshot.active /\ ~snapshot.updating
    /\ Cancel
    /\ UNCHANGED <<live, worker, sessionVars, snapshot, reconnect, updater>>

\* Try again, on the card an attempt that ended with an error leaves, or
\* Dismiss, on either card.
PageCard ==
    /\ ui = "page" /\ ~snapshot.active /\ snapshot.step \in {"Ended", "EndedError"}
    /\ reconnect' \in {reconnect, snapshot.step = "EndedError"}
    /\ reconnect => reconnect'
    /\ Show("Idle")
    /\ ui' = "poll"
    /\ UNCHANGED <<live, worker, sessionVars, snapshot, updater>>

Frame == PollNothing \/ PollEvents \/ PollFinished \/ Look \/ Stop
         \/ ViewNothing \/ ViewDisconnect \/ ViewRestart
         \/ HomeReconnect \/ HomePage
         \/ PageNothing \/ PageConnect \/ PageCancel \/ PageCard

-----------------------------------------------------------------------------
(* The updater, with a release downloaded and ready.                         *)

Install ==
    /\ updater = "waiting" /\ LocksFree
    /\ live = None /\ ~IsActive(progress)
    /\ progress' = [progress EXCEPT !.updating = TRUE]
    /\ updater' = "installing"
    /\ UNCHANGED <<live, worker, sessionVars, uiVars>>

InstallFails ==
    /\ updater = "installing" /\ LocksFree
    /\ progress' = [progress EXCEPT !.updating = FALSE]
    /\ updater' = "waiting"
    /\ UNCHANGED <<live, worker, sessionVars, uiVars>>

\* The new version starts from nothing and finds nothing newer.
Relaunch ==
    /\ updater = "installing"
    /\ updater' = "current"
    /\ progress' = NoProgress /\ live' = None
    /\ worker' = [g \in Attempts |-> "none"]
    /\ phase' = [g \in Attempts |-> "new"]
    /\ done' = [g \in Attempts |-> FALSE]
    /\ raised' = [g \in Attempts |-> FALSE]
    /\ events' = [g \in Attempts |-> <<>>]
    /\ ui' = "poll" /\ snapshot' = NoSnapshot /\ reconnect' = FALSE

-----------------------------------------------------------------------------
\* A session that was started moves on by itself: its worker opens or skips
\* it, reaches a verdict, and closes it once it is done.
SessionStep(g) == SessionOpens(g) \/ SessionCloses(g) \/ SessionEnds(g)
Verdict(g) == SessionOpened(g) \/ SessionFails(g) \/ SessionRefused(g)

Next ==
    \/ \E g \in Attempts :
         \/ WorkerStep(g) \/ SessionStep(g) \/ Verdict(g)
         \/ \E kind \in {"Lost", "Closed"} : SessionTerminates(g, kind)
    \/ Frame
    \/ Install \/ InstallFails \/ Relaunch

Spec == Init /\ [][Next]_vars

\* Every thread keeps running: frames are requested whenever something the
\* window shows changes, and the locks are parking_lot's, which hand
\* themselves to a waiter in the end, so the window's frames cannot starve a
\* worker (hence SF).  Nothing makes a PC wake, a user act, an update arrive.
Fairness ==
    /\ \A g \in Attempts :
        /\ SF_vars(WorkerStep(g))
        /\ WF_vars(SessionStep(g))
        /\ WF_vars(Verdict(g))
    /\ WF_vars(Frame)

FairSpec == Spec /\ Fairness

-----------------------------------------------------------------------------
(* Properties.                                                               *)

\* The worker of an attempt that has not yet handed over its session.
Attempting(g) == worker[g] \notin {"none", "report", "gone"}

\* An update installs only between attempts and streams, and none begins
\* while it does (CHANGELOG.md:265-267, update.rs:164-175).
UpdateAlone ==
    progress.updating => live = None /\ \A g \in Attempts : ~Attempting(g)

\* No two workers wake, pair or launch at the same time, whatever the user
\* cancels, dismisses or tries again.
OneAttempt ==
    \A g, h \in Attempts : Attempting(g) /\ Attempting(h) => g = h

\* A worker never hands its session to a later attempt (session.rs:20-21).
LiveIsCurrent == live # None => live = progress.generation

\* Every session that is not stopped can be: the window holds it, or its
\* worker is about to hand it over or to drop it.
NoOrphan ==
    \A g \in Attempts :
        phase[g] \in {"queued", "opening", "up"} /\ ~done[g] =>
            live = g \/ worker[g] \in {"checkLive", "publish"}

\* A cancelled attempt's worker stops without relying on any timeout: every
\* loop it can be in looks at the cancel (CHANGELOG.md:158-160).
Cancelled(g) == progress.cancel /\ progress.generation = g /\ worker[g] # "none"
WorkerGone(g) == worker[g] \in {"none", "gone"}

\* Again and again: a stream that was stopped is let go of, so that another
\* can start.
StoppedStreamGone ==
    live # None => ~done[live]

-----------------------------------------------------------------------------
\* docs/MACOS.md:97-99 says more than the code keeps: Cancel ends the attempt.
CancelEndsAttempt ==
    progress.cancel ~> (~progress.cancel \/ progress.step \in Quiet)
=============================================================================
