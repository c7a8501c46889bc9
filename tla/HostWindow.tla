----------------------------- MODULE HostWindow -----------------------------
(***************************************************************************)
(* The Sharing page of the Latch window (host/src/app.rs, product.rs): a   *)
(* poller asks the background service how it is and starts it when it does *)
(* not answer, a setup thread and the threads of the page's actions report *)
(* back, the user presses Stop, Start and the rest, and the machine list   *)
(* keeps a copy of what the page knows, taken again when a number moves.   *)
(* A frame is drawn when somebody asks for it, or the user moves the mouse.*)
(***************************************************************************)
EXTENDS Naturals

CONSTANTS MaxJobs,    \* bound: page actions that report back
          MaxClicks,  \* bound: presses of Stop, Start, setup and autostart
          MaxFaults   \* bound: crashes, lost requests and failed spawns

WindowAssumption == {MaxJobs, MaxClicks, MaxFaults} \subseteq Nat

ServiceVersions == {"older", "same", "newer"}   \* the service's, against the window's
Jobs == 1..MaxJobs

VARIABLES
  svc,        \* the background service: "down", or the version that runs
  shared,     \* Shared: status, service_error, setup_running, setup_result
  local,      \* LocalShare, the machine list's copy of it
  synced,     \* NodeApp::synced is Some(shared.rev)
  repaint,    \* a frame is asked for
  drawn,      \* what the page's widgets of this frame were made from; NoFrame between
  poll, answer, changed, failures, restarted,  \* the poller and its variables
  setupOwes,  \* the setup thread has let go of the lock and not yet asked for a frame
  wish,       \* the user's last word: "up" or "stop"
  jobs, slots, pending, note,   \* later, and the page's one line of result
  clicks, faults, gone          \* gone: the window has replaced itself

pollVars == <<poll, answer, changed, failures, restarted>>
noteVars == <<jobs, slots, pending, note>>
vars == <<svc, shared, local, synced, repaint, drawn, pollVars, setupOwes, wish,
          noteVars, clicks, faults, gone>>

NoFrame == [status |-> "none", running |-> TRUE, error |-> "none"]
Facts(s) == [status |-> s.status, running |-> s.running, result |-> s.result,
             stopped |-> s.error = "stopped"]

Init ==
  /\ svc \in ServiceVersions \cup {"down"}
  /\ shared = [status |-> "none", error |-> "none", running |-> FALSE, result |-> "none"]
  /\ local = Facts(shared) /\ synced = FALSE /\ repaint = TRUE /\ drawn = NoFrame
  /\ poll = "idle" /\ answer = "down" /\ changed = FALSE /\ failures = 0 /\ restarted = FALSE
  /\ setupOwes = FALSE /\ wish = "up"
  /\ jobs = 0 /\ slots = [j \in Jobs |-> 0] /\ pending = 0 /\ note = 0
  /\ clicks = 0 /\ faults = 0 /\ gone = FALSE

Fault == faults < MaxFaults /\ faults' = faults + 1

\* ensure_service_running: nothing, when somebody answers; a spawn may fail.
Ensure ==
  \/ /\ svc' = IF svc = "down" THEN "same" ELSE svc
     /\ UNCHANGED faults
  \/ svc = "down" /\ Fault /\ UNCHANGED svc
\* POST /v1/quit, the answer to which nobody reads.
Quit ==
  \/ svc' = "down" /\ UNCHANGED faults
  \/ Fault /\ UNCHANGED svc

Crash ==
  /\ svc # "down" /\ Fault /\ svc' = "down"
  /\ UNCHANGED <<shared, local, synced, repaint, drawn, pollVars, setupOwes, wish,
                 noteVars, clicks, gone>>

-----------------------------------------------------------------------------
(* spawn_poller, once a second.                                            *)

pollRest == <<local, drawn, setupOwes, wish, noteVars, clicks>>

AskStatus ==
  /\ poll = "idle" /\ ~gone /\ poll' = "answer"
  /\ \/ answer' = svc /\ UNCHANGED faults
     \/ answer' = "down" /\ Fault
  /\ UNCHANGED <<svc, shared, synced, repaint, changed, failures, restarted, gone, pollRest>>

\* An older service is told to go, once, and started again a second later.
RestartService ==
  /\ \/ /\ poll = "answer" /\ answer = "older" /\ ~restarted
        /\ restarted' = TRUE /\ poll' = "sleep" /\ Quit
     \/ poll = "sleep" /\ poll' = "write" /\ Ensure /\ UNCHANGED restarted
  /\ UNCHANGED <<shared, synced, repaint, answer, changed, failures, gone, pollRest>>

RelaunchPanel ==
  /\ poll = "answer" /\ answer = "newer"
  /\ \/ gone' = TRUE /\ poll' = "idle" /\ UNCHANGED faults
     \/ Fault /\ poll' = "write" /\ UNCHANGED gone
  /\ UNCHANGED <<svc, shared, synced, repaint, answer, changed, failures, restarted, pollRest>>

WriteStatus ==
  /\ \/ poll = "write"
     \/ poll = "answer" /\ (answer = "same" \/ (answer = "older" /\ restarted))
  /\ failures' = 0 /\ poll' = "announce"
  /\ shared' = [shared EXCEPT !.status = answer,
                              !.error = IF @ = "stopped" THEN @ ELSE "none"]
  /\ changed' = (shared' # shared)
  /\ UNCHANGED <<svc, synced, repaint, answer, restarted, faults, gone, pollRest>>

\* The second silence of every four starts the service, unless Stop did it.
WriteFailure ==
  /\ poll = "answer" /\ answer = "down"
  /\ failures' = (failures + 1) % 4
  /\ shared' = [shared EXCEPT !.status = "none",
                              !.error = IF @ = "stopped" THEN @ ELSE "failed"]
  /\ changed' = (shared' # shared)
  /\ poll' = IF failures' = 2 /\ shared.error # "stopped" THEN "ensure" ELSE "announce"
  /\ UNCHANGED <<svc, synced, repaint, answer, restarted, faults, gone, pollRest>>

EnsureRunning ==
  /\ poll = "ensure" /\ poll' = "announce" /\ Ensure
  /\ UNCHANGED <<shared, synced, repaint, answer, changed, failures, restarted, gone, pollRest>>

\* touch(), then request_repaint().
Announce ==
  /\ \/ /\ poll = "announce" /\ synced' = (synced /\ ~changed) /\ UNCHANGED <<repaint, changed>>
        /\ poll' = IF changed THEN "repaint" ELSE "idle"
     \/ poll = "repaint" /\ repaint' = TRUE /\ changed' = FALSE /\ poll' = "idle" /\ UNCHANGED synced
  /\ UNCHANGED <<svc, shared, answer, failures, restarted, faults, gone, pollRest>>

-----------------------------------------------------------------------------
(* The window: sync, poll_note and the page; then at most one press.       *)

Frame ==
  /\ ~gone /\ repaint' = FALSE /\ synced' = TRUE
  /\ local' = IF synced THEN local ELSE Facts(shared)
  /\ drawn' = [status |-> shared.status, running |-> shared.running, error |-> shared.error]
  /\ IF pending # 0 /\ slots[pending] # 0
       THEN note' = slots[pending] /\ pending' = 0 ELSE UNCHANGED <<note, pending>>
  /\ UNCHANGED <<svc, shared, pollVars, setupOwes, wish, jobs, slots, clicks, faults, gone>>

\* A press on a widget of the frame; egui draws again after it.
Press ==
  /\ ~gone /\ drawn' = NoFrame /\ repaint' = TRUE
  /\ clicks < MaxClicks /\ clicks' = clicks + 1
pressRest == <<local, pollVars, setupOwes, noteVars, gone>>

\* stop_service; the request is on a thread of its own, here it arrives at once or never.
StopService ==
  /\ Press /\ drawn.status # "none" /\ Quit /\ wish' = "stop"
  /\ shared' = [shared EXCEPT !.status = "none", !.error = "stopped"] /\ synced' = FALSE
  /\ UNCHANGED pressRest

\* start_service.
StartService ==
  /\ Press /\ drawn.status = "none" /\ drawn.error = "stopped" /\ Ensure /\ wish' = "up"
  /\ shared' = [shared EXCEPT !.error = "none"] /\ synced' = FALSE
  /\ UNCHANGED pressRest

StartSetup ==
  /\ Press /\ drawn.status # "none" /\ ~drawn.running
  /\ shared' = [shared EXCEPT !.running = TRUE, !.result = "none"] /\ synced' = FALSE
  /\ UNCHANGED <<svc, wish, faults, pressRest>>

SetupEnds ==
  /\ \/ /\ shared.running /\ setupOwes' = TRUE /\ synced' = FALSE /\ UNCHANGED repaint
        /\ \E result \in {"ok", "failed"} :
             shared' = [shared EXCEPT !.running = FALSE, !.result = result]
     \/ setupOwes /\ setupOwes' = FALSE /\ repaint' = TRUE /\ UNCHANGED <<shared, synced>>
  /\ UNCHANGED <<svc, local, drawn, pollVars, wish, noteVars, clicks, faults, gone>>

\* later: unpair, install_gamepad_driver.
Later ==
  /\ drawn.status # "none" /\ drawn' = NoFrame /\ jobs < MaxJobs
  /\ jobs' = jobs + 1 /\ pending' = jobs + 1 /\ repaint' = TRUE
  /\ UNCHANGED <<svc, shared, local, synced, pollVars, setupOwes, wish, slots, note,
                 clicks, faults, gone>>

\* The job's thread fills the slot that was made for it, and asks for a frame.
JobEnds ==
  /\ \E j \in 1..jobs : slots[j] = 0 /\ slots' = [slots EXCEPT ![j] = j]
  /\ repaint' = TRUE
  /\ UNCHANGED <<svc, shared, local, synced, drawn, pollVars, setupOwes, wish, jobs,
                 pending, note, clicks, faults, gone>>

NoteOver ==
  /\ note # 0 /\ note' = 0
  /\ UNCHANGED <<svc, shared, local, synced, repaint, drawn, pollVars, setupOwes, wish,
                 jobs, slots, pending, clicks, faults, gone>>

Poller ==
  \/ AskStatus \/ RestartService \/ RelaunchPanel \/ WriteStatus \/ WriteFailure
  \/ EnsureRunning \/ Announce

Next ==
  \/ Crash \/ Poller \/ Frame \/ StopService \/ StartService \/ StartSetup
  \/ ~gone /\ (SetupEnds \/ Later \/ JobEnds \/ NoteOver)

Spec == Init /\ [][Next]_vars

-----------------------------------------------------------------------------
(* Every part holds values of its kind.                                    *)
TypeOK ==
  /\ svc \in ServiceVersions \cup {"down"}
  /\ shared \in [status : ServiceVersions \cup {"none"}, error : {"none", "failed", "stopped"},
                 running : BOOLEAN, result : {"none", "ok", "failed"}]
  /\ poll \in {"idle", "answer", "sleep", "write", "ensure", "announce", "repaint"}
  /\ failures \in 0..3 /\ note \in 0..jobs /\ pending \in 0..jobs

(* sync (product.rs:78) and spawn_poller: the machine list is never left   *)
(* behind in a window that draws only when asked.  Where its copy differs  *)
(* from what the page knows, a frame is asked for or a thread is about to. *)
NothingUnseen ==
  local # Facts(shared) =>
    (repaint /\ ~synced) \/ changed \/ setupOwes \/ gone

(* later (app.rs:150): each action has a slot of its own, so a late result *)
(* of an earlier one is never shown as that of the last.                   *)
NoteIsItsOwn ==
  note' \notin {0, note} => note' = pending

(* spawn_poller and start_service, again and again: a service that ends    *)
(* without the user's Stop, or does not come up after the user's Start, is *)
(* started again as often as it takes.                                     *)
ServiceIsBack == svc # "down" \/ wish = "stop" \/ gone
=============================================================================
