------------------------------ MODULE VideoPath ------------------------------
(***************************************************************************)
(* A decoded picture's way through the client: the protocol's decoder      *)
(* thread hands each access unit to video_frame (stream/src/session.rs),   *)
(* which has the VideoToolbox decoder fill a spare frame                   *)
(* (video/videotoolbox.rs), and publishes it in the FrameSlot              *)
(* (stream/src/video.rs); the window's thread takes it, uploads it into    *)
(* textures that outlive the stream and paints them (client/src/video.rs). *)
(* The window is the third actor: the worker's end of run() empties the    *)
(* slot.  A picture is its number; parameter sets are numbers, 0 none.     *)
(***************************************************************************)
EXTENDS Naturals, FiniteSets

CONSTANTS Sets,       \* parameter sets the PC may send, 1..Sets
          Spares,     \* SPARES
          Late,       \* the five seconds of VideoHealth::problem, in ticks
          MaxUnits,   \* bound: access units the PC sends
          MaxFaults   \* bound: VideoToolbox failures and lost sessions

\* One buffer is being filled, one waits and one is being uploaded: with room
\* for fewer spares, buffers would be thrown away and allocated anew.
VideoAssumption ==
  /\ Sets \in Nat \ {0} /\ Spares \in Nat /\ Spares >= 3 /\ Late \in Nat \ {0}
  /\ {MaxUnits, MaxFaults} \subseteq Nat

VARIABLES
  dec,     \* the decoder: its session, format and params
  vt,      \* the decoder thread: its step, its unit, what it holds
  slot,    \* the FrameSlot: latest (0 none), seq, number of spare buffers
  ui,      \* the window: its step, the frame it took, the texture, the picture shown
  health,  \* VideoHealth: ages of the last frame and of the first black one
  net,     \* moonlight: an IDR is wanted, units sent, the PC's current sets
  wake,    \* a repaint was asked for
  worker,  \* the end of run(): "runs", "decoder", "latest", "finished"
  made, news, dropped, faults  \* pictures decoded, buffers allocated and lost; faults used

vars == <<dec, vt, slot, ui, health, net, wake, worker, made, news, dropped, faults>>

Never == Late + 1          \* an age not counted: no such moment yet
NoUnit == [idr |-> FALSE, sets |-> 0, body |-> FALSE]
Idle == [at |-> "idle", unit |-> NoUnit, buffer |-> FALSE, undrawn |-> FALSE, result |-> "none"]

Init ==
  /\ dec = [session |-> "none", format |-> 0, params |-> 0]
  /\ vt = Idle
  /\ slot = [latest |-> 0, seq |-> 0, spare |-> 0]
  /\ ui = [at |-> "idle", frame |-> 0, planes |-> "old", shown |-> "nothing", last |-> 0]
  /\ health = [frame |-> Never, black |-> Never, error |-> FALSE, since |-> Never]
  /\ net = [wantsIdr |-> TRUE, sent |-> 0, sets |-> 1]
  /\ wake = FALSE /\ worker = "runs"
  /\ made = 0 /\ news = 0 /\ dropped = 0 /\ faults = 0

-----------------------------------------------------------------------------
(* The decoder.                                                            *)

\* create_session: makes a session for the current format, or fails and leaves none.
Create(d, works) == [d EXCEPT !.session = IF works THEN "ok" ELSE "none"]

\* MUTANT: known sets are taken as settled whatever became of the session.
SetParametersSettled(d, sets, fmt, accepts, works) ==
  IF sets = d.params /\ d.format # 0 THEN d
  ELSE IF ~fmt THEN d
  ELSE LET new == [d EXCEPT !.format = sets, !.params = sets]
       IN  IF d.session # "none" /\ accepts THEN new ELSE Create(new, works)

\* set_parameters; fmt: the format description could be made, accepts: the
\* session takes it, works: a session could be made.
SetParameters(d, sets, fmt, accepts, works) ==
  IF sets = d.params /\ d.format # 0
    THEN IF d.session = "none" THEN Create(d, works) ELSE d
  ELSE IF ~fmt THEN d
  ELSE LET new == [d EXCEPT !.format = sets, !.params = sets]
       IN  IF d.session # "none" /\ accepts THEN new ELSE Create(new, works)

\* VTDecompressionSessionDecodeFrame's answer: a lost session is dropped and
\* made again at once, and the frame is lost either way.
DecodeStatus(d, works) == IF d.session = "dead" THEN Create(d, works) ELSE d

\* The sleep of the Mac, or a reset of its GPU, invalidates the session.
Dies ==
  /\ dec.session = "ok" /\ faults < MaxFaults
  /\ dec' = [dec EXCEPT !.session = "dead"] /\ faults' = faults + 1
  /\ UNCHANGED <<vt, slot, ui, health, net, wake, worker, made, news, dropped>>

\* moonlight hands over the next unit: nothing but a keyframe while it wants
\* one.  The PC changes its parameter sets at keyframes only.
Unit ==
  /\ worker = "runs" /\ vt.at = "idle" /\ net.sent < MaxUnits
  /\ \E idr \in BOOLEAN, sets \in 1..Sets, body \in BOOLEAN :
       /\ idr \/ (~net.wantsIdr /\ sets = net.sets)
       /\ body \/ idr
       /\ vt' = [Idle EXCEPT !.at = "decode", !.buffer = slot.spare > 0,
                   !.unit = [idr |-> idr, sets |-> IF idr THEN sets ELSE 0, body |-> body]]
       /\ net' = [net EXCEPT !.sent = @ + 1, !.sets = sets, !.wantsIdr = @ /\ ~idr]
  /\ slot' = [slot EXCEPT !.spare = IF @ > 0 THEN @ - 1 ELSE 0]
  /\ UNCHANGED <<dec, ui, health, wake, worker, made, news, dropped, faults>>

\* Decoder::decode with each of its failures: the format or the session cannot
\* be made, no parameter sets have come, only parameter sets came (no picture),
\* the session was lost, the data or the picture was bad.
Decode ==
  LET u == vt.unit IN
  /\ vt.at = "decode"
  /\ \E fmt, accepts, works, good \in BOOLEAN :
       LET failed == (u.sets # 0 /\ u.sets # dec.params /\ ~fmt)
           d1 == IF u.sets = 0 THEN dec ELSE SetParameters(dec, u.sets, fmt, accepts, works)
           result == IF failed \/ d1.session = "none" THEN "error"
                     ELSE IF ~u.body THEN "none"
                     ELSE IF d1.session = "dead" \/ ~good THEN "error"
                     ELSE "frame"
           d2 == IF failed \/ ~u.body THEN d1 ELSE DecodeStatus(d1, works)
           trouble == Cardinality({x \in {<<1, fmt>>, <<2, works>>, <<3, good>>} : ~x[2]})
       IN  /\ faults + trouble <= MaxFaults
           /\ faults' = faults + trouble
           /\ dec' = d2
           /\ vt' = [vt EXCEPT !.at = IF result = "frame" THEN "frame" ELSE "answer",
                               !.result = result, !.buffer = FALSE]
           /\ made' = IF result = "frame" THEN made + 1 ELSE made
           /\ news' = IF result = "frame" /\ ~vt.buffer THEN news + 1 ELSE news
           /\ dropped' = IF result # "frame" /\ vt.buffer THEN dropped + 1 ELSE dropped
  /\ UNCHANGED <<slot, ui, health, net, wake, worker>>

-----------------------------------------------------------------------------
(* video_frame after the decode, and FrameSlot.                            *)

\* VideoHealth::frame, before the picture is published.
HealthFrame ==
  /\ vt.at = "frame"
  /\ \E black \in BOOLEAN :
       health' = [health EXCEPT !.frame = 0, !.error = FALSE,
                    !.black = IF ~black THEN Never ELSE IF @ = Never THEN 0 ELSE @]
  /\ vt' = [vt EXCEPT !.at = "publish"]
  /\ UNCHANGED <<dec, slot, ui, net, wake, worker, made, news, dropped, faults>>

\* MUTANT: the counter rises before the picture is in the slot.
PublishCountsFirst ==
  /\ \/ /\ vt.at = "publish" /\ slot.seq < made
        /\ slot' = [slot EXCEPT !.seq = @ + 1] /\ UNCHANGED vt
     \/ /\ vt.at = "publish" /\ slot.seq = made
        /\ vt' = [vt EXCEPT !.at = "undrawn", !.undrawn = slot.latest # 0]
        /\ slot' = [slot EXCEPT !.latest = made]
  /\ UNCHANGED <<dec, ui, health, net, wake, worker, made, news, dropped, faults>>

\* FrameSlot::publish: the new picture replaces one not drawn yet, whose
\* buffer goes back while the lock on latest is still held.
Publish ==
  /\ vt.at = "publish"
  /\ slot' = [slot EXCEPT !.latest = made]
  /\ vt' = [vt EXCEPT !.at = "undrawn", !.undrawn = slot.latest # 0]
  /\ UNCHANGED <<dec, ui, health, net, wake, worker, made, news, dropped, faults>>

\* FrameSlot::recycle of the undrawn picture, then the counter.
Undrawn ==
  /\ vt.at = "undrawn"
  /\ slot' = [slot EXCEPT !.seq = made,
                !.spare = IF vt.undrawn /\ @ < Spares THEN @ + 1 ELSE @]
  /\ vt' = [vt EXCEPT !.at = "wake", !.undrawn = FALSE]
  /\ UNCHANGED <<dec, ui, health, net, wake, worker, made, news, dropped, faults>>

\* MUTANT: the window is woken for the first picture only.
WakeFirst ==
  /\ vt.at = "wake"
  /\ vt' = Idle /\ wake' = (wake \/ slot.seq = 1)
  /\ UNCHANGED <<dec, slot, ui, health, net, worker, made, news, dropped, faults>>

\* account() and wake(), and DR_OK to moonlight.
Wake ==
  /\ vt.at = "wake"
  /\ vt' = Idle /\ wake' = TRUE
  /\ UNCHANGED <<dec, slot, ui, health, net, worker, made, news, dropped, faults>>

\* No picture: nothing more to do; an error is remembered and a keyframe asked for.
Answer ==
  /\ vt.at = "answer" /\ vt' = Idle
  /\ health' = [health EXCEPT !.error = @ \/ vt.result = "error"]
  /\ net' = [net EXCEPT !.wantsIdr = @ \/ vt.result = "error"]
  /\ UNCHANGED <<dec, slot, ui, wake, worker, made, news, dropped, faults>>

-----------------------------------------------------------------------------
(* The window, and the end of the worker.                                  *)

\* A pass of the window: without a picture yet it shows the waiting card and
\* no video, otherwise it goes on to the paint callback.
Look ==
  /\ ui.at = "idle" /\ wake' = FALSE
  /\ ui' = IF slot.seq = 0 THEN [ui EXCEPT !.shown = "nothing"] ELSE [ui EXCEPT !.at = "take"]
  /\ UNCHANGED <<dec, vt, slot, health, net, worker, made, news, dropped, faults>>

\* Resources::upload: FrameSlot::take, kept off while publish holds the lock.
Take ==
  /\ ui.at = "take" /\ vt.at # "undrawn"
  /\ slot' = [slot EXCEPT !.latest = 0]
  /\ ui' = [ui EXCEPT !.frame = slot.latest, !.at = IF slot.latest = 0 THEN "paint" ELSE "upload"]
  /\ UNCHANGED <<dec, vt, health, net, wake, worker, made, news, dropped, faults>>

\* Resources::upload: planes of the picture's size, the copy, the buffer back.
Upload ==
  /\ ui.at = "upload"
  /\ ui' = [ui EXCEPT !.planes = "ours", !.last = ui.frame, !.frame = 0, !.at = "paint"]
  /\ slot' = [slot EXCEPT !.spare = IF @ < Spares THEN @ + 1 ELSE @]
  /\ UNCHANGED <<dec, vt, health, net, wake, worker, made, news, dropped, faults>>

\* Paint::paint draws whatever the textures hold.
Paint ==
  /\ ui.at = "paint"
  /\ ui' = [ui EXCEPT !.at = "idle", !.shown = ui.planes]
  /\ UNCHANGED <<dec, vt, slot, health, net, wake, worker, made, news, dropped, faults>>

\* The end of run(), its library threads joined: the decoder goes, then
\* FrameSlot::clear empties latest and spares, then finished and a wake.
WorkerEnds ==
  /\ vt.at = "idle"
  /\ \/ /\ worker = "runs" /\ worker' = "decoder"
        /\ dec' = [session |-> "none", format |-> 0, params |-> 0]
        /\ UNCHANGED <<slot, wake>>
     \/ /\ worker = "decoder" /\ worker' = "latest"
        /\ slot' = [slot EXCEPT !.latest = 0]
        /\ UNCHANGED <<dec, wake>>
     \/ /\ worker = "latest" /\ worker' = "finished"
        /\ slot' = [slot EXCEPT !.spare = 0] /\ wake' = TRUE
        /\ UNCHANGED dec
  /\ UNCHANGED <<vt, ui, health, net, made, news, dropped, faults>>

\* connected(), from which the ages of VideoHealth count.
Connected ==
  /\ worker = "runs" /\ health.since = Never
  /\ health' = [health EXCEPT !.since = 0]
  /\ UNCHANGED <<dec, vt, slot, ui, net, wake, worker, made, news, dropped, faults>>

Older(a) == IF a < Late THEN a + 1 ELSE a
Tick ==
  /\ worker = "runs"
  /\ health' = [health EXCEPT !.frame = Older(@), !.black = Older(@), !.since = Older(@)]
  /\ health' # health
  /\ UNCHANGED <<dec, vt, slot, ui, net, wake, worker, made, news, dropped, faults>>

\* VideoHealth::problem, asked by Session::stats while connected.
Problem ==
  IF health.since = Never THEN "none"
  ELSE IF (IF health.frame # Never THEN health.frame ELSE health.since) >= Late
    THEN IF health.error THEN "undecodable"
         ELSE IF health.frame # Never THEN "stopped" ELSE "no video"
  ELSE IF health.black # Never /\ health.black >= Late THEN "black"
  ELSE "none"

\* The decoder thread, once it has a unit; the window, once it is asked and
\* once it paints.
Thread == Decode \/ HealthFrame \/ Publish \/ Undrawn \/ Wake \/ Answer
Asked == wake /\ Look
Frame == Take \/ Upload \/ Paint

Next == \/ Dies \/ Unit \/ Thread \/ Look \/ Frame \/ WorkerEnds \/ Connected \/ Tick

Spec == Init /\ [][Next]_vars

-----------------------------------------------------------------------------
(* Every part holds values of its kind; a picture is in one place at a     *)
(* time, so one being uploaded is never also the newest.                   *)
TypeOK ==
  /\ dec \in [session : {"none", "ok", "dead"}, format : 0..Sets, params : 0..Sets]
  /\ vt.at \in {"idle", "decode", "frame", "publish", "undrawn", "wake", "answer"}
  /\ slot \in [latest : 0..MaxUnits, seq : 0..MaxUnits, spare : 0..Spares]
  /\ ui.at \in {"idle", "take", "upload", "paint"}
  /\ health \in [frame : 0..Never, black : 0..Never, error : BOOLEAN, since : 0..Never]
  /\ net.wantsIdr \in BOOLEAN /\ net.sent \in 0..MaxUnits
  /\ worker \in {"runs", "decoder", "latest", "finished"}
  /\ dec.params = dec.format
  /\ ui.frame # 0 => ui.frame # slot.latest

(* video.rs (client): the textures outlive the stream, and a picture that  *)
(* an earlier stream left in them is not painted once this one is on       *)
(* screen - except in the last pass after the worker has emptied the slot. *)
NoOldPicture == ui.shown = "old" => worker \in {"latest", "finished"}

(* FrameSlot: "the decoder fills the same few buffers over and over": three *)
(* buffers are ever allocated, and one more for each that a unit without a *)
(* picture threw away.                                                     *)
FewBuffers == news <= 3 + dropped

(* VideoHealth::problem: what the user is told is so.  "No video has       *)
(* arrived" is said only while nothing is published, and "stopped" never   *)
(* while the decoder, having refused a unit, waits for a keyframe.         *)
ProblemIsTrue ==
  /\ Problem = "no video" => slot.seq = 0
  /\ Problem = "stopped" => ~net.wantsIdr

(* set_parameters: a keyframe decoded with nothing failing brings a        *)
(* picture, whatever failed before it; only a session that died since is   *)
(* lost first.                                                             *)
KeyframeHeals ==
  (vt.at = "decode" /\ vt'.at # "decode" /\ vt.unit.idr /\ vt.unit.body
     /\ dec.session # "dead" /\ faults' = faults) => vt'.result = "frame"

(* publish and wake, again and again: the newest picture is taken by the   *)
(* window, even when it came while the window was busy with the one before.*)
NewestIsTaken == slot.latest = 0
=============================================================================
