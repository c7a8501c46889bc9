---------------------------- MODULE StreamSession ----------------------------
(***************************************************************************)
(* The life of a streaming session in crates/stream: the worker thread of  *)
(* session.rs, the C shim, and the start, stop, interrupt and termination  *)
(* paths of the one connection moonlight-common-c can hold.                *)
(*                                                                         *)
(* Five kinds of thread meet here.  The owner of a session starts, stops   *)
(* and drops it; the session's worker takes the CONNECTION lock, brings    *)
(* the connection up stage by stage, sleeps until the session is done and  *)
(* tears it down; the stream threads of moonlight raise a termination; a   *)
(* detached thread ("AsyncTerm") carries it to whatever session CURRENT    *)
(* then holds; and senders push input under the INPUT lock.                *)
(***************************************************************************)
EXTENDS Naturals, Sequences

CONSTANTS
    Sessions,       \* every session the viewer ever starts
    LastStage,      \* connection stages are 1..LastStage (11 in Limelight.h)
    Unfailing,      \* the stages whose initialisation returns nothing
    StreamThreads,  \* moonlight threads that can raise a termination
    StartedIn,      \* the stage that starts each of them
    Senders,        \* threads that hold an Input handle and send with it
    Nobody

ASSUME StreamAssumption ==
    /\ LastStage \in Nat \ {0}
    /\ Unfailing \subseteq 1..LastStage
    /\ StartedIn \in [StreamThreads -> 1..LastStage]
    /\ Nobody \notin Sessions \cup Senders
    /\ Sessions \cap Senders = {}

VARIABLES
    \* crates/stream/src/session.rs
    worker,      \* where the worker thread of a session is in run()
    handle,      \* the owner's Session value: "none", "held" or "dropped"
    stopper,     \* where the owner is in Session::stop
    done,        \* Inner::done
    finished,    \* Inner::finished
    connected,   \* Inner::connected
    events,      \* what Inner::emit has sent, per session
    connection,  \* holder of the CONNECTION lock
    input,       \* holder of the INPUT lock
    current,     \* CURRENT: whose Inner the callbacks find
    sending,     \* the session a sender is calling LiSend* for
    \* third_party/moonlight-common-c/src/Connection.c
    stage,
    alreadyTerminated,
    interrupted, \* ConnectionInterrupted
    term,        \* the progress of the termination a stream thread raises
    target       \* the session a termination callback took from CURRENT

rustVars == <<worker, handle, stopper, done, finished, connected, events,
              connection, input, current, sending>>
cVars == <<stage, alreadyTerminated, interrupted, term, target>>
vars == <<worker, handle, stopper, done, finished, connected, events,
          connection, input, current, sending,
          stage, alreadyTerminated, interrupted, term, target>>

WorkerSteps == {"none", "lock", "locked", "enter", "starting", "failed",
                "unwind", "notify", "waiting", "grab", "stopping", "clearing",
                "finishing", "unlock", "gone"}
TermSteps == {"quiet", "passed", "spawned", "took", "marked", "emitted", "gone"}
EventKinds == {"Connected", "Failed", "Terminated"}

\* The worker is between entering LiStartConnection and the end of bl_stop.
InLibrary(s) == worker[s] \in {"enter", "starting", "failed", "unwind",
                               "notify", "waiting", "grab", "stopping"}

\* The stream thread r of s's connection exists: its stage is up, being
\* brought up, or not yet joined.
Alive(s, r) ==
    /\ InLibrary(s)
    /\ \/ stage >= StartedIn[r]
       \/ worker[s] = "starting" /\ stage + 1 = StartedIn[r]

\* Every thread that stage k started has left ClInternalConnectionTerminated,
\* so joining it returns.
Joined(s, k) == \A r \in StreamThreads : StartedIn[r] = k => term[s][r] # "passed"

TypeOK ==
    /\ worker \in [Sessions -> WorkerSteps]
    /\ handle \in [Sessions -> {"none", "held", "dropped"}]
    /\ stopper \in [Sessions -> {"no", "interrupt", "finish"}]
    /\ done \in [Sessions -> BOOLEAN]
    /\ finished \in [Sessions -> BOOLEAN]
    /\ connected \in [Sessions -> BOOLEAN]
    /\ events \in [Sessions -> Seq(EventKinds)]
    /\ connection \in Sessions \cup {Nobody}
    /\ input \in Sessions \cup Senders \cup {Nobody}
    /\ current \in Sessions \cup {Nobody}
    /\ sending \in [Senders -> Sessions \cup {Nobody}]
    /\ stage \in 0..LastStage
    /\ alreadyTerminated \in BOOLEAN
    /\ interrupted \in BOOLEAN
    /\ term \in [Sessions -> [StreamThreads -> TermSteps]]
    /\ target \in [Sessions -> [StreamThreads -> Sessions \cup {Nobody}]]

Init ==
    /\ worker = [s \in Sessions |-> "none"]
    /\ handle = [s \in Sessions |-> "none"]
    /\ stopper = [s \in Sessions |-> "no"]
    /\ done = [s \in Sessions |-> FALSE]
    /\ finished = [s \in Sessions |-> FALSE]
    /\ connected = [s \in Sessions |-> FALSE]
    /\ events = [s \in Sessions |-> <<>>]
    /\ connection = Nobody
    /\ input = Nobody
    /\ current = Nobody
    /\ sending = [x \in Senders |-> Nobody]
    /\ stage = 0
    /\ alreadyTerminated = FALSE
    /\ interrupted = FALSE
    /\ term = [s \in Sessions |-> [r \in StreamThreads |-> "quiet"]]
    /\ target = [s \in Sessions |-> [r \in StreamThreads |-> Nobody]]

Goto(s, step) == worker' = [worker EXCEPT ![s] = step]
Emit(s, kind) == events' = [events EXCEPT ![s] = Append(@, kind)]

-----------------------------------------------------------------------------
(* Faulty variants of the actions below, one bug each.  No specification     *)
(* uses them: they show that the properties notice such a bug.               *)

\* Drop that leaves the stop to a thread of its own.
ReleaseEarly(s) ==
    /\ handle[s] = "held"
    /\ handle' = [handle EXCEPT ![s] = "dropped"]
    /\ UNCHANGED <<worker, stopper, done, finished, connected, events,
                   connection, input, current, sending, cVars>>

\* No CONNECTION lock.
AcquireAnyway(s) ==
    /\ worker[s] = "lock"
    /\ connection' = s
    /\ Goto(s, "locked")
    /\ UNCHANGED <<handle, stopper, done, finished, connected, events,
                   input, current, sending, cVars>>

\* The early return for a stopped session forgets to say it is finished.
CheckDoneSilently(s) ==
    /\ worker[s] = "locked"
    /\ IF done[s]
       THEN Goto(s, "unlock") /\ UNCHANGED current
       ELSE Goto(s, "enter") /\ current' = s
    /\ UNCHANGED <<handle, stopper, done, finished, connected, events,
                   connection, input, sending, cVars>>

\* One stage too many.
StageDoneTwice(s) ==
    /\ worker[s] = "starting" /\ stage <= LastStage
    /\ stage' = stage + 1
    /\ UNCHANGED <<rustVars, alreadyTerminated, interrupted, term, target>>

\* A stage is taken down without joining its threads.
StopStageUnjoined(s) ==
    /\ worker[s] \in {"unwind", "stopping"} /\ stage > 0
    /\ stage' = stage - 1
    /\ UNCHANGED <<rustVars, alreadyTerminated, interrupted, term, target>>

\* The session still takes input while the worker waits to tear it down.
LeaveConnected(s) ==
    /\ \/ worker[s] = "unwind" /\ stage = 0
       \/ worker[s] = "waiting" /\ done[s]
    /\ Goto(s, "grab")
    /\ UNCHANGED <<handle, stopper, done, finished, connected, events,
                   connection, input, current, sending, cVars>>

\* bl_stop outside the INPUT lock.
StopLibraryUnlocked(s) ==
    /\ worker[s] = "grab"
    /\ alreadyTerminated' = TRUE
    /\ interrupted' = TRUE
    /\ Goto(s, "stopping")
    /\ UNCHANGED <<handle, stopper, done, finished, connected, events,
                   connection, input, current, sending, stage, term, target>>

\* CURRENT keeps the finished session.
KeepCurrent(s) ==
    /\ worker[s] = "clearing"
    /\ Goto(s, "finishing")
    /\ UNCHANGED <<handle, stopper, done, finished, connected, events,
                   connection, input, current, sending, cVars>>

\* A termination that reports the end but does not wake the worker.
TermForgets(s, r) ==
    /\ term[s][r] = "emitted"
    /\ term' = [term EXCEPT ![s][r] = "gone"]
    /\ UNCHANGED <<rustVars, stage, alreadyTerminated, interrupted, target>>

-----------------------------------------------------------------------------
(* The owner: Session::start, Session::stop and Drop.                        *)

\* The viewer starts a session only once it has let go of the one before:
\* there is one Live slot, and a connect is refused while an attempt is
\* active (crates/client, modelled in ConnectFlow).
Start(s) ==
    /\ handle[s] = "none"
    /\ \A t \in Sessions : handle[t] # "held"
    /\ handle' = [handle EXCEPT ![s] = "held"]
    /\ Goto(s, "lock")
    /\ UNCHANGED <<stopper, done, finished, connected, events, connection,
                   input, current, sending, cVars>>

\* stop() returns at once when the session is done already.
StopBegin(s) ==
    /\ handle[s] = "held" /\ stopper[s] = "no" /\ ~done[s]
    /\ stopper' = [stopper EXCEPT ![s] = "interrupt"]
    /\ UNCHANGED <<worker, handle, done, finished, connected, events,
                   connection, input, current, sending, cVars>>

StopInterrupt(s) ==
    /\ stopper[s] = "interrupt"
    /\ interrupted' = TRUE
    /\ stopper' = [stopper EXCEPT ![s] = "finish"]
    /\ UNCHANGED <<worker, handle, done, finished, connected, events,
                   connection, input, current, sending,
                   stage, alreadyTerminated, term, target>>

StopFinish(s) ==
    /\ stopper[s] = "finish"
    /\ done' = [done EXCEPT ![s] = TRUE]
    /\ stopper' = [stopper EXCEPT ![s] = "no"]
    /\ UNCHANGED <<worker, handle, finished, connected, events,
                   connection, input, current, sending, cVars>>

\* Drop calls stop() first, so the handle goes only after done is set.
Release(s) ==
    /\ handle[s] = "held" /\ stopper[s] = "no" /\ done[s]
    /\ handle' = [handle EXCEPT ![s] = "dropped"]
    /\ UNCHANGED <<worker, stopper, done, finished, connected, events,
                   connection, input, current, sending, cVars>>

-----------------------------------------------------------------------------
(* The worker: run() before bl_start.                                        *)

Acquire(s) ==
    /\ worker[s] = "lock" /\ connection = Nobody
    /\ connection' = s
    /\ Goto(s, "locked")
    /\ UNCHANGED <<handle, stopper, done, finished, connected, events,
                   input, current, sending, cVars>>

\* A session stopped while it queued never reaches the library.
CheckDone(s) ==
    /\ worker[s] = "locked"
    /\ IF done[s]
       THEN /\ finished' = [finished EXCEPT ![s] = TRUE]
            /\ Goto(s, "unlock")
            /\ UNCHANGED current
       ELSE /\ current' = s
            /\ Goto(s, "enter")
            /\ UNCHANGED finished
    /\ UNCHANGED <<handle, stopper, done, connected, events, connection,
                   input, sending, cVars>>

-----------------------------------------------------------------------------
(* LiStartConnection, on the worker.                                         *)

\* An unusable app version or codec mask fails before the flags are reset:
\* LiStopConnection runs with nothing up and no stage is reported.
EnterInvalid(s) ==
    /\ worker[s] = "enter"
    /\ alreadyTerminated' = TRUE
    /\ interrupted' = TRUE
    /\ Goto(s, "unwind")
    /\ UNCHANGED <<handle, stopper, done, finished, connected, events,
                   connection, input, current, sending, stage, term, target>>

EnterReset(s) ==
    /\ worker[s] = "enter"
    /\ alreadyTerminated' = FALSE
    /\ interrupted' = FALSE
    /\ Goto(s, "starting")
    /\ UNCHANGED <<handle, stopper, done, finished, connected, events,
                   connection, input, current, sending, stage, term, target>>

StageDone(s) ==
    /\ worker[s] = "starting" /\ stage < LastStage
    /\ stage' = stage + 1
    /\ UNCHANGED <<rustVars, alreadyTerminated, interrupted, term, target>>

\* The stage that fails joins the threads it had started; the callback
\* emits Failed before it marks the session done.
StageFail(s) ==
    /\ worker[s] = "starting" /\ stage < LastStage
    /\ stage + 1 \notin Unfailing
    /\ Joined(s, stage + 1)
    /\ Emit(current, "Failed")
    /\ Goto(s, "failed")
    /\ UNCHANGED <<handle, stopper, done, finished, connected, connection,
                   input, current, sending, cVars>>

\* finish() after the Failed event, then Cleanup calls LiStopConnection.
StageFailFinish(s) ==
    /\ worker[s] = "failed"
    /\ done' = [done EXCEPT ![current] = TRUE]
    /\ alreadyTerminated' = TRUE
    /\ interrupted' = TRUE
    /\ Goto(s, "unwind")
    /\ UNCHANGED <<handle, stopper, finished, connected, events, connection,
                   input, current, sending, stage, term, target>>

\* connectionStarted: connected first, the event after it.
NotifyStore(s) ==
    /\ worker[s] = "starting" /\ stage = LastStage
    /\ connected' = [connected EXCEPT ![current] = TRUE]
    /\ Goto(s, "notify")
    /\ UNCHANGED <<handle, stopper, done, finished, events, connection,
                   input, current, sending, cVars>>

NotifyEmit(s) ==
    /\ worker[s] = "notify"
    /\ Emit(current, "Connected")
    /\ Goto(s, "waiting")
    /\ UNCHANGED <<handle, stopper, done, finished, connected, connection,
                   input, current, sending, cVars>>

\* One stage of LiStopConnection: the threads it started are joined.
StopStage(s) ==
    /\ worker[s] \in {"unwind", "stopping"} /\ stage > 0
    /\ Joined(s, stage)
    /\ stage' = stage - 1
    /\ UNCHANGED <<rustVars, alreadyTerminated, interrupted, term, target>>

-----------------------------------------------------------------------------
(* The worker: run() after bl_start.                                         *)

\* bl_start failed, or it succeeded and the session is done now.
Leave(s) ==
    /\ \/ worker[s] = "unwind" /\ stage = 0
       \/ worker[s] = "waiting" /\ done[s]
    /\ connected' = [connected EXCEPT ![s] = FALSE]
    /\ Goto(s, "grab")
    /\ UNCHANGED <<handle, stopper, done, finished, events, connection,
                   input, current, sending, cVars>>

\* bl_stop, under the INPUT lock.
StopLibrary(s) ==
    /\ worker[s] = "grab" /\ input = Nobody
    /\ input' = s
    /\ alreadyTerminated' = TRUE
    /\ interrupted' = TRUE
    /\ Goto(s, "stopping")
    /\ UNCHANGED <<handle, stopper, done, finished, connected, events,
                   connection, current, sending, stage, term, target>>

LibraryStopped(s) ==
    /\ worker[s] = "stopping" /\ stage = 0
    /\ input' = Nobody
    /\ Goto(s, "clearing")
    /\ UNCHANGED <<handle, stopper, done, finished, connected, events,
                   connection, current, sending, cVars>>

ClearCurrent(s) ==
    /\ worker[s] = "clearing"
    /\ current' = Nobody
    /\ Goto(s, "finishing")
    /\ UNCHANGED <<handle, stopper, done, finished, connected, events,
                   connection, input, sending, cVars>>

SetFinished(s) ==
    /\ worker[s] = "finishing"
    /\ finished' = [finished EXCEPT ![s] = TRUE]
    /\ Goto(s, "unlock")
    /\ UNCHANGED <<handle, stopper, done, connected, events, connection,
                   input, current, sending, cVars>>

Unlock(s) ==
    /\ worker[s] = "unlock"
    /\ connection' = Nobody
    /\ Goto(s, "gone")
    /\ UNCHANGED <<handle, stopper, done, finished, connected, events,
                   input, current, sending, cVars>>

-----------------------------------------------------------------------------
(* Terminations.  The check and the assignment that follows it in            *)
(* ClInternalConnectionTerminated are not one step: two stream threads can   *)
(* both pass the check (a data race on plain bools).                         *)

RaiseCheck(s, r) ==
    /\ Alive(s, r) /\ term[s][r] = "quiet"
    /\ ~alreadyTerminated /\ ~interrupted
    /\ term' = [term EXCEPT ![s][r] = "passed"]
    /\ UNCHANGED <<rustVars, stage, alreadyTerminated, interrupted, target>>

RaiseSpawn(s, r) ==
    /\ term[s][r] = "passed"
    /\ alreadyTerminated' = TRUE
    /\ term' = [term EXCEPT ![s][r] = "spawned"]
    /\ UNCHANGED <<rustVars, stage, interrupted, target>>

\* The detached thread runs terminated(): it finds the Inner in CURRENT.
TermTake(s, r) ==
    /\ term[s][r] = "spawned"
    /\ target' = [target EXCEPT ![s][r] = current]
    /\ term' = [term EXCEPT ![s][r] = IF current = Nobody THEN "gone" ELSE "took"]
    /\ UNCHANGED <<rustVars, stage, alreadyTerminated, interrupted>>

TermMark(s, r) ==
    /\ term[s][r] = "took"
    /\ connected' = [connected EXCEPT ![target[s][r]] = FALSE]
    /\ term' = [term EXCEPT ![s][r] = "marked"]
    /\ UNCHANGED <<worker, handle, stopper, done, finished, events, connection,
                   input, current, sending,
                   stage, alreadyTerminated, interrupted, target>>

TermEmit(s, r) ==
    /\ term[s][r] = "marked"
    /\ Emit(target[s][r], "Terminated")
    /\ term' = [term EXCEPT ![s][r] = "emitted"]
    /\ UNCHANGED <<worker, handle, stopper, done, finished, connected,
                   connection, input, current, sending,
                   stage, alreadyTerminated, interrupted, target>>

TermFinish(s, r) ==
    /\ term[s][r] = "emitted"
    /\ done' = [done EXCEPT ![target[s][r]] = TRUE]
    /\ term' = [term EXCEPT ![s][r] = "gone"]
    /\ UNCHANGED <<worker, handle, stopper, finished, connected, events,
                   connection, input, current, sending,
                   stage, alreadyTerminated, interrupted, target>>

-----------------------------------------------------------------------------
(* Input: send_input holds INPUT from the check of connected to the end of   *)
(* the LiSend* call.  A send on a session that is not connected does nothing.*)

SendBegin(x, s) ==
    /\ handle[s] # "none" /\ input = Nobody /\ connected[s]
    /\ input' = x
    /\ sending' = [sending EXCEPT ![x] = s]
    /\ UNCHANGED <<worker, handle, stopper, done, finished, connected, events,
                   connection, current, cVars>>

SendEnd(x) ==
    /\ sending[x] # Nobody
    /\ input' = Nobody
    /\ sending' = [sending EXCEPT ![x] = Nobody]
    /\ UNCHANGED <<worker, handle, stopper, done, finished, connected, events,
                   connection, current, cVars>>

-----------------------------------------------------------------------------
OwnerStep(s) == Start(s) \/ StopBegin(s) \/ StopInterrupt(s) \/ StopFinish(s)
                \/ Release(s)
StartStep(s) == EnterInvalid(s) \/ EnterReset(s) \/ StageDone(s) \/ StageFail(s)
                \/ StageFailFinish(s) \/ NotifyStore(s) \/ NotifyEmit(s)
WorkerStep(s) == Acquire(s) \/ CheckDone(s) \/ StartStep(s) \/ StopStage(s)
                 \/ Leave(s) \/ StopLibrary(s) \/ LibraryStopped(s)
                 \/ ClearCurrent(s) \/ SetFinished(s) \/ Unlock(s)
Terminate(s, r) == RaiseSpawn(s, r) \/ TermTake(s, r) \/ TermMark(s, r)
                   \/ TermEmit(s, r) \/ TermFinish(s, r)

Next ==
    \/ \E s \in Sessions :
         \/ OwnerStep(s)
         \/ WorkerStep(s)
         \/ \E r \in StreamThreads : RaiseCheck(s, r) \/ Terminate(s, r)
         \/ \E x \in Senders : SendBegin(x, s)
    \/ \E x \in Senders : SendEnd(x)

Spec == Init /\ [][Next]_vars

\* Threads that are running keep running: each stage of a start ends by its
\* own timeout or by the interrupt, a call that has begun returns.  Nothing
\* makes the owner act, a connection break, or a sender send.
Fairness ==
    /\ \A s \in Sessions :
         /\ WF_vars(WorkerStep(s))
         /\ WF_vars(StopInterrupt(s))
         /\ WF_vars(StopFinish(s))
         /\ \A r \in StreamThreads : WF_vars(Terminate(s, r))
    /\ \A x \in Senders : WF_vars(SendEnd(x))

FairSpec == Spec /\ Fairness

-----------------------------------------------------------------------------
(* Properties.                                                               *)

\* Input never reaches a half-built or half-destroyed connection: while a
\* sender is inside LiSend*, every stage is up and the connection is the one
\* of the session the sender holds (session.rs:18-20).
InputOnlyWhileUp ==
    \A x \in Senders : sending[x] # Nobody =>
        /\ stage = LastStage
        /\ connection = sending[x]
        /\ InLibrary(sending[x])

\* A connection is only ever started from scratch: nothing of the one before
\* is up, and none of its threads is still deciding to raise a termination
\* (Connection.c:138 and the serialisation session.rs:3-4 promises).
CleanStart ==
    \A s \in Sessions : worker[s] = "enter" =>
        /\ stage = 0
        /\ \A t \in Sessions, r \in StreamThreads : term[t][r] # "passed"

\* Once a session says it is finished nothing of it is left in the library:
\* it takes no input, its stages are down and callbacks no longer find it
\* (session.rs:326).
FinishedIsQuiet ==
    \A s \in Sessions : finished[s] =>
        /\ ~connected[s]
        /\ current # s
        /\ ~InLibrary(s)

\* A stop meant for one session never cuts off another: when the owner is
\* about to raise the interrupt flag, the connection in the library, if any,
\* is its own or belongs to a session whose owner has stopped it too.
InterruptHitsOwn ==
    \A s, t \in Sessions :
        stopper[s] = "interrupt" /\ t # s /\ InLibrary(t) => done[t]

\* Stopping the session that has the library ends it: its worker tears
\* everything down whatever the start, the stream threads and the senders
\* are doing.
StopFinishes ==
    \A s \in Sessions : (connection = s /\ done[s]) ~> finished[s]

\* When every session started so far has been stopped, they all finish, the
\* queued ones too, unless another is started meanwhile.  (A stopped session
\* that queues may wait for as long as a later one that got the lock lives.)
Stopped(s) == handle[s] = "none" \/ done[s]
QueueDrains ==
    (\A s \in Sessions : Stopped(s))
        ~> \/ \E s \in Sessions : ~Stopped(s)
           \/ \A s \in Sessions : handle[s] # "none" => finished[s]

\* A termination that has been raised is never lost: the session it was
\* raised for ends.
TerminationEndsSession ==
    \A s \in Sessions, r \in StreamThreads : (term[s][r] = "spawned") ~> finished[s]

-----------------------------------------------------------------------------
(* The promise of SessionLife, kept by this module.                          *)

\* The abstract phase of a session.  A termination ends "up" before the
\* worker wakes, and can end it before Connected has been reported.
Phase(s) ==
    CASE worker[s] = "none" -> "new"
      [] worker[s] \in {"lock", "locked"} -> "queued"
      [] worker[s] \in {"enter", "starting", "failed", "unwind"} -> "opening"
      [] worker[s] \in {"notify", "waiting"} /\ connected[s] -> "up"
      [] worker[s] \in {"notify", "waiting"} /\ ~connected[s] -> "closing"
      [] worker[s] \in {"grab", "stopping", "clearing", "finishing"} -> "closing"
      [] worker[s] \in {"unlock", "gone"} -> "over"

Life == INSTANCE SessionLife WITH
            phase <- [s \in Sessions |-> Phase(s)],
            using <- sending

\* The sessions of this module are sessions as the viewer may rely on them:
\* one at a time in the library, every phase in order, input only while up
\* and none on its way to a session that is over; and under FairSpec every
\* opening is decided and every closing ends.
LifeSpec == Life!Spec
LifeFairSpec == Life!FairSpec

-----------------------------------------------------------------------------
\* session.rs:21-22 says more than the code keeps: CURRENT keeps a session's
\* Inner for the termination thread that fires after bl_stop, so the thread
\* finds the session it is for.
TerminationFindsItsSession ==
    \A s \in Sessions, r \in StreamThreads :
        term[s][r] \in {"took", "marked", "emitted"} => target[s][r] = s
=============================================================================
