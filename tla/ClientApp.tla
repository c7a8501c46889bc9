----------------------------- MODULE ClientApp -----------------------------
(***************************************************************************)
(* The window between streams (client/src/app.rs): what a frame makes of   *)
(* the stream's events, of the user's clicks and of what the threads it    *)
(* started have answered, and when it connects again by itself.  The       *)
(* worker of an attempt and the session appear as what they report;        *)
(* ConnectFlow and StreamSession have their steps.  One PC; drawing and    *)
(* texts are left out.                                                     *)
(***************************************************************************)
EXTENDS Naturals, Sequences

CONSTANTS
  MaxStreams,   \* attempts to connect in a behaviour
  MaxJobs       \* threads started by notify_later in a behaviour

AppAssumption == MaxStreams \in Nat /\ MaxJobs \in Nat

VARIABLES
  w,        \* ClientApp with its progress, its live stream and its threads
  said      \* the user's last word about the stream

vars == <<w, said>>

Steps == {"idle", "working", "streaming", "ended", "failed"}
Kinds == {"Connected", "Failed", "Terminated", "TerminatedError"}
Helps == {"none", "hdr", "other"}
Jobs == 1..MaxJobs
Streams == 1..MaxStreams

Init ==
  /\ w = [step |-> "idle", cancel |-> FALSE, gen |-> 0,
          live |-> "none", up |-> FALSE, stop |-> FALSE, events |-> <<>>,
          streamed |-> FALSE, streamFailed |-> FALSE, full |-> FALSE,
          endedSeen |-> TRUE, offer |-> FALSE, confirm |-> FALSE,
          last |-> FALSE, reconnect |-> FALSE, restart |-> FALSE,
          asked |-> FALSE, asking |-> {}, help |-> "none", busy |-> FALSE,
          display |-> "same", started |-> 0, running |-> {}, hdr |-> {},
          pending |-> 0, full_slots |-> {}, notice |-> 0]
  /\ said = "nothing"

Active(s) == s.step \in {"working", "streaming"}
Over(step) == step \in {"ended", "failed"}

---------------------------------------------------------------------------
(* Pieces of a frame. *)

\* The job's thread fills a slot of its own; the window looks at one slot.
NotifyLater(s) ==
  [s EXCEPT !.started = @ + 1, !.running = @ \cup {s.started + 1},
            !.pending = s.started + 1]

Disconnect(s) ==
  [s EXCEPT !.cancel = @ \/ Active(s),
            !.stop = @ \/ s.live # "none"]

Power(s) == NotifyLater(Disconnect(s))

\* Restart the stream: end this one and connect again once it has gone.
Restart(s) ==
  Disconnect([s EXCEPT !.restart = TRUE, !.reconnect = s.last])

TurnOffHdr(s) ==
  IF s.busy THEN s
  ELSE Restart([NotifyLater(s) EXCEPT !.busy = s.help # "none",
                                      !.hdr = @ \cup {s.started + 1}])

\* A new attempt; session::connect refuses it while another is under way.
Connect(s) ==
  LET fresh == [s EXCEPT !.endedSeen = FALSE, !.offer = FALSE,
                         !.streamed = FALSE, !.streamFailed = FALSE,
                         !.confirm = FALSE, !.last = TRUE, !.asked = FALSE,
                         !.help = "none", !.busy = FALSE, !.display = "same",
                         !.restart = FALSE]
  IN IF Active(s) THEN fresh
     ELSE [fresh EXCEPT !.step = "working", !.cancel = FALSE, !.gen = @ + 1]

\* MUTANT: an error is a failure, asked for or not.
TakeEventAsIs(s, ev) ==
  CASE ev = "Connected" ->
         [s EXCEPT !.step = "streaming", !.streamed = TRUE, !.full = TRUE]
    [] ev = "Terminated" -> [s EXCEPT !.step = "ended", !.streamFailed = FALSE]
    [] OTHER -> [s EXCEPT !.step = "failed", !.streamFailed = TRUE]

\* One event of the stream, as poll_live takes it.
TakeEvent(s, ev) ==
  CASE ev = "Connected" ->
         [s EXCEPT !.step = "streaming", !.streamed = TRUE, !.full = TRUE]
    [] ev = "Failed" ->
         [s EXCEPT !.step = IF s.cancel THEN "ended" ELSE "failed",
                   !.streamFailed = ~s.cancel]
    [] ev = "Terminated" ->
         [s EXCEPT !.step = "ended", !.streamFailed = FALSE]
    [] ev = "TerminatedError" ->
         [s EXCEPT !.step = IF s.cancel THEN "ended" ELSE "failed",
                   !.streamFailed = ~s.cancel]

\* The events the stream has left, in their order.
TakeEvents(s) ==
  LET taken[n \in 0..Len(s.events)] ==
        IF n = 0 THEN [s EXCEPT !.events = <<>>] ELSE TakeEvent(taken[n - 1], s.events[n])
  IN taken[Len(s.events)]

PollLive(s) ==
  IF s.live = "none" THEN s
  ELSE LET d == TakeEvents(s)
       IN IF s.live = "finished"
            THEN [d EXCEPT !.step = IF Over(d.step) THEN @ ELSE "ended",
                           !.live = "none", !.stop = FALSE, !.full = FALSE]
          ELSE IF Over(d.step) THEN [d EXCEPT !.stop = TRUE]
          ELSE d

PollNotice(s) ==
  IF s.pending \in s.full_slots
    THEN [s EXCEPT !.notice = s.pending, !.full_slots = @ \ {s.pending}, !.pending = 0]
    ELSE s

\* The first time a connected stream finds its picture broken.
AskWhyBlack(s, broken) ==
  IF s.asked \/ ~broken \/ ~s.up THEN s
  ELSE [s EXCEPT !.asked = TRUE, !.asking = @ \cup {s.gen}]

\* The display under the window has another size: restart once it has kept
\* it for a second.
DisplayTended(s) ==
  IF s.display = "same" THEN s
  ELSE IF s.reconnect THEN [s EXCEPT !.display = "changed"]
  ELSE IF s.display = "changed" THEN [s EXCEPT !.display = "seen"]
  ELSE IF s.display = "kept" THEN Restart(s)
  ELSE s

Polled == PollNotice(PollLive(w))

---------------------------------------------------------------------------
(* Frames.  A frame polls, does what the screen it shows brings with it,   *)
(* and one click of the user at most.                                      *)

Seen(broken) == AskWhyBlack(Polled, broken)

\* A frame of the stream screen that comes to s with its click.
StreamFrame(s) ==
  /\ Polled.live # "none"
  /\ w' = DisplayTended(s)

Watch ==
  /\ \E broken \in BOOLEAN : StreamFrame(Seen(broken))
  /\ w' # w
  /\ UNCHANGED said

\* Disconnect, and Cancel before the first picture.
ClickDisconnect ==
  /\ StreamFrame(Disconnect(Seen(FALSE)))
  /\ said' = "leave"

\* Apply and reconnect, and Restart stream.
ClickRestart ==
  /\ StreamFrame(Restart(Seen(FALSE)))
  /\ said' = "again"

ClickPower ==
  /\ w.started < MaxJobs
  /\ StreamFrame(Power(Seen(FALSE)))
  /\ said' = "leave"

\* The button is there when the PC has said that HDR is on.
ClickTurnOffHdr ==
  /\ w.started < MaxJobs
  /\ Polled.help = "hdr"
  /\ StreamFrame(TurnOffHdr(Seen(FALSE)))
  /\ said' = IF w.busy THEN said ELSE "again"

ClickFullscreen ==
  /\ StreamFrame([Seen(FALSE) EXCEPT !.full = ~@])
  /\ UNCHANGED said

\* The waiting restart starts the next attempt, once this one is inactive.
Reconnect ==
  /\ Polled.live = "none" /\ Polled.reconnect
  /\ ~Active(Polled)
  /\ w.gen < MaxStreams
  /\ w' = Connect([Polled EXCEPT !.reconnect = FALSE])
  /\ UNCHANGED said

\* What an idle frame does before the user's click is looked at.
Tended(s, sleepPrompt) ==
  IF Over(s.step) /\ ~s.endedSeen
    THEN [s EXCEPT !.endedSeen = TRUE, !.offer = IF sleepPrompt THEN TRUE ELSE @]
    ELSE s

Drawn == {Tended(Polled, sleepPrompt) : sleepPrompt \in BOOLEAN}

\* An idle frame that comes to one of these with its click.
IdleFrame(states) ==
  /\ Polled.live = "none"
  /\ Polled.reconnect => Active(Polled)
  /\ w' \in states

Idle ==
  /\ IdleFrame(Drawn)
  /\ w' # w
  /\ UNCHANGED said

\* Connect in the machine list is not enabled during an attempt.
ClickConnect ==
  /\ ~Active(Polled) /\ w.gen < MaxStreams
  /\ IdleFrame({Connect(s) : s \in Drawn})
  /\ said' = "connect"

ClickCancel ==
  /\ Active(Polled)
  /\ IdleFrame({Disconnect(s) : s \in Drawn})
  /\ said' = "leave"

\* The card of an attempt that ended with an error.
ClickTryAgain ==
  /\ Polled.step = "failed" /\ Polled.last
  /\ IdleFrame({[s EXCEPT !.reconnect = TRUE, !.step = "idle"] : s \in Drawn})
  /\ said' = "again"

ClickDismiss ==
  /\ \/ Polled.step = "failed"
     \/ Polled.step = "ended" /\ w.offer
  /\ IdleFrame({[s EXCEPT !.offer = FALSE, !.step = "idle"] : s \in Drawn})
  /\ UNCHANGED said

\* The offer after a session that ended well.
ClickSleep ==
  /\ Polled.step = "ended" /\ w.offer /\ w.started < MaxJobs
  /\ IdleFrame({[Power(s) EXCEPT !.offer = FALSE, !.step = "idle"] : s \in Drawn})
  /\ said' = "leave"

\* "Restart…" in a machine's menu, and its answer; Escape drops it.
ClickAsk ==
  /\ ~w.confirm
  /\ IdleFrame({[s EXCEPT !.confirm = TRUE] : s \in Drawn})
  /\ UNCHANGED said

ClickConfirm ==
  /\ w.confirm /\ w.started < MaxJobs
  /\ IdleFrame({[Power(s) EXCEPT !.confirm = FALSE] : s \in Drawn})
  /\ said' = "leave"

ClickRefuse ==
  /\ w.confirm
  /\ IdleFrame({[s EXCEPT !.confirm = FALSE] : s \in Drawn})
  /\ UNCHANGED said

\* Test waking, from a machine's menu.
ClickTestWake ==
  /\ w.started < MaxJobs
  /\ IdleFrame({NotifyLater(s) : s \in Drawn})
  /\ UNCHANGED said

---------------------------------------------------------------------------
(* What goes on beside the window. *)

WorkerFails ==
  /\ w.step = "working" /\ w.live = "none"
  /\ w' = [w EXCEPT !.step = IF w.cancel THEN "ended" ELSE "failed"]
  /\ UNCHANGED said

WorkerPublishes ==
  /\ w.step = "working" /\ w.live = "none" /\ ~w.cancel
  /\ w' = [w EXCEPT !.live = "starting"]
  /\ UNCHANGED said

\* The stream's library calls back.
SessionSays(from, to, up, evs) ==
  /\ w.live = from
  /\ w' = [w EXCEPT !.live = to, !.up = up, !.events = @ \o evs]
  /\ UNCHANGED said

SessionConnects == ~w.stop /\ SessionSays("starting", "up", TRUE, <<"Connected">>)

SessionFails == SessionSays("starting", "finished", FALSE, <<"Failed">>)

SessionTerminates ==
  \E ev \in {"Terminated", "TerminatedError"} : SessionSays("up", "ending", FALSE, <<ev>>)

SessionStops ==
  \/ w.stop /\ SessionSays("starting", "finished", FALSE, <<>>)
  \/ w.stop /\ SessionSays("up", "finished", FALSE, <<>>)
  \/ SessionSays("ending", "finished", FALSE, <<>>)

\* The PC's answer about its picture goes into the one slot there is.
PcAnswers ==
  \E g \in w.asking, h \in Helps :
    /\ w' = [w EXCEPT !.asking = @ \ {g},
                      !.help = IF h = "none" THEN @ ELSE h,
                      !.busy = IF h = "none" THEN @ ELSE FALSE]
    /\ UNCHANGED said

\* A job's thread ends; turning HDR off also says so in the help.
JobEnds ==
  \E j \in w.running, ok \in BOOLEAN :
    /\ w' = [w EXCEPT !.running = @ \ {j}, !.full_slots = @ \cup {j},
                      !.busy = IF j \in w.hdr THEN FALSE ELSE @,
                      !.help = IF j \notin w.hdr \/ w.help = "none" THEN @
                               ELSE IF ok THEN "other" ELSE "hdr"]
    /\ UNCHANGED said

\* The window is dragged to another display, or stays there for a second.
DisplayChanges ==
  /\ w.live # "none"
  /\ \/ w.display = "same" /\ w' = [w EXCEPT !.display = "changed"]
     \/ w.display = "seen" /\ w' = [w EXCEPT !.display = "kept"]
  /\ UNCHANGED said

Clicks ==
  \/ ClickDisconnect \/ ClickRestart \/ ClickPower \/ ClickTurnOffHdr
  \/ ClickFullscreen \/ ClickConnect \/ ClickCancel \/ ClickTryAgain
  \/ ClickDismiss \/ ClickSleep \/ ClickAsk \/ ClickConfirm \/ ClickRefuse
  \/ ClickTestWake

Session ==
  SessionConnects \/ SessionFails \/ SessionTerminates \/ SessionStops

Next ==
  \/ Watch \/ Idle \/ Reconnect \/ Clicks
  \/ WorkerFails \/ WorkerPublishes \/ Session
  \/ PcAnswers \/ JobEnds \/ DisplayChanges

Spec == Init /\ [][Next]_vars

---------------------------------------------------------------------------
(* Properties. *)

TypeOK ==
  /\ w.step \in Steps /\ w.gen \in 0..MaxStreams
  /\ w.live \in {"none", "starting", "up", "ending", "finished"}
  /\ w.events \in Seq(Kinds) /\ Len(w.events) <= 2
  /\ w.up = (w.live = "up")
  /\ w.help \in Helps /\ w.asking \subseteq Streams
  /\ w.display \in {"same", "changed", "seen", "kept"}
  /\ w.running \subseteq 1..w.started /\ w.started <= MaxJobs
  /\ w.pending \in 0..w.started /\ w.notice \in 0..w.started
  /\ said \in {"nothing", "connect", "again", "leave"}

\* An end the user asked for is never shown as a failure, whatever error the
\* stream or the worker reports while it ends.
AskedEndIsNoFailure ==
  w.cancel => w.step # "failed"

\* "Turning HDR off…" is shown only while a thread is at it: the button
\* comes back whatever happens to that thread, the stream and the answer.
BusyWhileFixing ==
  w.busy => w.hdr \cap w.running # {}

\* A fresh capture is asked of the attempt it was meant for: while it is
\* wanted, the reconnect that is to take it is waiting, too.
RestartIsMeant ==
  w.restart => w.reconnect

\* The window does not stay in full screen after the stream has gone.
WindowedWhenIdle ==
  w.live = "none" => ~w.full

\* Again and again: a restart that waits is made when the old stream is
\* gone, whatever is clicked meanwhile (up to the bound on attempts).
RestartMade ==
  w.reconnect => w.gen = MaxStreams
=============================================================================
