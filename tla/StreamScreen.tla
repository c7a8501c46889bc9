---------------------------- MODULE StreamScreen ----------------------------
(***************************************************************************)
(* The stream screen of the window (client/src/stream.rs) and the keys and *)
(* buttons it holds down on the PC (client/src/input.rs).  A frame of the  *)
(* window is one step: what the hand on this machine does, what of it is   *)
(* forwarded, and what the toolbar's widgets change.  Pastes run on        *)
(* threads of their own and press their chord key by key.  Pictures,       *)
(* texts, positions and mouse motion are left out; what the buttons ask of *)
(* the window (disconnect, power, ...) is in ClientApp.                    *)
(***************************************************************************)
EXTENDS Naturals, Sequences, FiniteSets

CONSTANTS
  MaxPastes,    \* pastes of one stream, which bounds the threads
  FreeMouse,    \* the settings of capture_mouse the user may choose
  ModSets,      \* the sets of modifiers a hand holds down at once
  Questions     \* the confirmations that can be open: "power", "install"

Mods == {"ctrl", "alt", "cmd"}          \* on this machine's keyboard

ScreenAssumption ==
  /\ MaxPastes \in Nat
  /\ FreeMouse \subseteq BOOLEAN
  /\ ModSets \subseteq SUBSET Mods

VARIABLES
  screen,   \* the View, and .pc: what the PC takes to be down
  cfg,      \* the settings the screen reads
  hand,     \* what is physically down on this machine
  stream,   \* the connection
  focused,  \* the window had the focus in the last frame
  popup,    \* a menu of the toolbar is open
  pastes,   \* the threads of this stream's pastes
  done      \* Clipboard::pastes_done

vars == <<screen, cfg, hand, stream, focused, popup, pastes, done>>

PcMods == {"CONTROL", "LWIN", "MENU"}
Plain == {"a", "left"}                  \* a key and a mouse button
PcKeys == PcMods \cup Plain \cup {"C", "V", "TAB"}
Pressing == 1..4                        \* a paste's four key events
Finished == 6

\* The connection is up: what Input sends reaches the PC.
Up == stream = "up"
Overlay(s) == s.ask # {} \/ s.settings
Busy == \E i \in DOMAIN pastes : pastes[i].at # Finished

Init ==
  /\ screen = [captured |-> FALSE, bar |-> FALSE, ask |-> {},
               settings |-> FALSE, chord |-> FALSE,
               held |-> {}, seen |-> 0, pc |-> {}]
  /\ cfg \in [capture : FreeMouse, cmdIsCtrl : {TRUE}]
  /\ hand = {}
  /\ stream = "starting"
  /\ focused = TRUE
  /\ popup = FALSE
  /\ pastes = <<>>
  /\ done = 0

---------------------------------------------------------------------------
(* Keys and buttons held on the PC (Held). *)

Press(s, k) ==
  [s EXCEPT !.held = @ \cup {k}, !.pc = IF Up THEN @ \cup {k} ELSE @]

Let(s, k) ==
  [s EXCEPT !.held = @ \ {k}, !.pc = IF Up THEN @ \ {k} ELSE @]

ReleaseAll(s) ==
  [s EXCEPT !.held = {}, !.pc = IF Up THEN @ \ s.held ELSE @]

\* The modifiers the PC should have down for the ones down here.
Wanted(m) ==
  {k \in PcMods : \/ k = "CONTROL" /\ ("ctrl" \in m \/ ("cmd" \in m /\ cfg.cmdIsCtrl))
                  \/ k = "LWIN" /\ "cmd" \in m /\ ~cfg.cmdIsCtrl
                  \/ k = "MENU" /\ "alt" \in m}

Modifiers(s, m) ==
  LET want == Wanted(m)
      gone == (s.held \cap PcMods) \ want
  IN [s EXCEPT !.held = (@ \ gone) \cup want,
               !.pc = (@ \ gone) \cup (want \ s.held)]

\* A chord sent within the frame: the keys not held go down and up again.
Chord(s, keys) ==
  [s EXCEPT !.pc = IF Up THEN @ \ (keys \ s.held) ELSE @]

\* MUTANTS: what is pressed again is not what is held; nothing is.
RepressUnheld(s) ==
  IF s.seen = done THEN s
  ELSE [s EXCEPT !.seen = done,
                 !.pc = @ \cup {IF cfg.cmdIsCtrl THEN "CONTROL" ELSE "LWIN"}]

\* A paste's chord releases its modifier: press it again if it is held here.
Repress(s) ==
  IF s.seen = done THEN s
  ELSE [s EXCEPT !.seen = done,
                 !.pc = @ \cup (s.held \cap {"CONTROL", "LWIN"})]

ClipboardModifier == IF cfg.cmdIsCtrl THEN "CONTROL" ELSE "LWIN"

---------------------------------------------------------------------------
(* The screen's own steps. *)

Reset(s) ==
  [ReleaseAll(s) EXCEPT !.captured = FALSE, !.bar = FALSE, !.ask = {},
                        !.settings = FALSE, !.chord = FALSE]

Grab(s) == [ReleaseAll(s) EXCEPT !.captured = TRUE, !.bar = FALSE]

GiveBack(s) == [ReleaseAll(s) EXCEPT !.captured = FALSE]

HostKey(s) ==
  IF s.captured \/ ~s.bar THEN [GiveBack(s) EXCEPT !.bar = TRUE]
  ELSE IF cfg.capture THEN Grab(s)
  ELSE [s EXCEPT !.bar = FALSE]

StreamStarted(s) == IF cfg.capture /\ focused THEN Grab(s) ELSE s

\* A menu or a question keeps the toolbar there until it is answered.
BarVisible(s) == s.bar \/ popup \/ s.ask # {}

---------------------------------------------------------------------------
(* A frame's events. *)

Events == {"nothing", "key", "clickOnPicture", "clickElsewhere", "copy",
           "paste", "pasteAtOnce"}

IsClick(ev) == ev \in {"clickOnPicture", "clickElsewhere"}

\* The key or button of this hand an event is about, pressed if it is not
\* down and released if it is.
Moved(ev) == IF ev = "key" THEN {"a"} ELSE IF IsClick(ev) THEN {"left"} ELSE {}

Presses(ev) == Moved(ev) \cap hand = {}

\* The keyboard's events of this frame go to the PC.
KeysToPc(s, f, typing) == f /\ ~typing /\ ~popup /\ ~Overlay(s) /\ Up

PointerOnStream(s, ev) == ev = "clickOnPicture" /\ ~popup /\ ~Overlay(s)

\* A click on the picture puts the toolbar away and may take the mouse; it
\* goes to the PC all the same.
Click(s, ev) ==
  CASE Presses(ev) /\ s.captured -> Press(s, "left")
    [] Presses(ev) /\ ~s.captured /\ PointerOnStream(s, ev) ->
         Press(IF cfg.capture THEN Grab(s) ELSE [s EXCEPT !.bar = FALSE], "left")
    [] ~Presses(ev) /\ (s.captured \/ PointerOnStream(s, ev) \/ s.held # {}) ->
         Let(s, "left")
    [] OTHER -> s

Forward(s, ev, toPc) ==
  CASE ev = "key" /\ toPc -> IF Presses(ev) THEN Press(s, "a") ELSE Let(s, "a")
    [] ev = "copy" /\ toPc -> Chord(s, {ClipboardModifier, "C"})
    [] ev = "pasteAtOnce" /\ toPc -> Chord(s, {ClipboardModifier, "V"})
    [] IsClick(ev) -> Click(s, ev)
    [] OTHER -> s

\* View::input for a frame with modifiers m, focus f, and keyboard focus in
\* a widget when `typing`.
Input(s, m, ev, f, typing) ==
  LET idle == [s EXCEPT !.chord = FALSE]
      toPc == KeysToPc(s, f, typing)
  IN IF ~f THEN IF s.held # {} \/ s.captured THEN Reset(s) ELSE s
     ELSE IF {"ctrl", "alt"} \subseteq m
       THEN IF s.chord \/ ~Up THEN s ELSE HostKey([s EXCEPT !.chord = TRUE])
     ELSE Forward(IF toPc THEN Repress(Modifiers(idle, m)) ELSE ReleaseAll(idle),
                  ev, toPc)

\* A frame without a click on a widget.  While the mouse is captured no
\* widget keeps the keyboard.
Play ==
  \E m \in ModSets, ev \in Events, f, typing \in BOOLEAN :
    /\ stream # "none"
    /\ ~f => ev = "nothing" /\ ~typing /\ m = {}
    /\ typing => /\ ev \in {"nothing", "key"}
                 /\ ~screen.captured \/ popup \/ Overlay(screen)
    /\ ev \in {"copy", "paste", "pasteAtOnce"} =>
         KeysToPc(screen, f, typing) /\ ~({"ctrl", "alt"} \subseteq m)
    /\ ev \in {"paste", "pasteAtOnce"} => Len(pastes) < MaxPastes
    /\ screen' = Input(screen, m, ev, f, typing)
    /\ hand' = m \cup (IF Presses(ev) THEN (hand \ Mods) \cup Moved(ev)
                       ELSE (hand \ Mods) \ Moved(ev))
    /\ pastes' = CASE ev = "paste" -> Append(pastes, [mod |-> ClipboardModifier, at |-> 0])
                   [] ev = "pasteAtOnce" ->
                        Append(pastes, [mod |-> ClipboardModifier, at |-> Finished])
                   [] OTHER -> pastes
    /\ done' = IF ev = "pasteAtOnce" THEN done + 1 ELSE done
    /\ focused' = f
    /\ UNCHANGED <<cfg, stream, popup>>

---------------------------------------------------------------------------
(* A frame in which a widget is clicked.  The pointer is on the widget, so  *)
(* the click itself goes nowhere else; the rest of the frame still runs.    *)

\* The rest of the frame, once the widget has done s to the screen.
After(s) ==
  /\ focused
  /\ screen' = Input(s, hand \cap Mods, "nothing", TRUE, FALSE)
  /\ UNCHANGED <<hand, stream, focused, pastes, done>>

OnBar == stream # "none" /\ BarVisible(screen)
InMenu == OnBar /\ popup

OpenMenu == OnBar /\ ~popup /\ popup' = TRUE /\ After(screen) /\ UNCHANGED cfg

CloseMenu == popup /\ popup' = FALSE /\ After(screen) /\ UNCHANGED cfg

StreamSettings ==
  /\ OnBar
  /\ After([GiveBack(screen) EXCEPT !.settings = TRUE])
  /\ UNCHANGED <<cfg, popup>>

\* Apply, Cancel, Escape or the panel's own close button.
CloseSettings ==
  /\ stream # "none" /\ screen.settings
  /\ After([screen EXCEPT !.settings = FALSE])
  /\ UNCHANGED <<cfg, popup>>

\* "Restart…", "Shut down…" and "Update Latch Host…".
Ask ==
  /\ InMenu
  /\ popup' = FALSE
  /\ \E q \in Questions : After([screen EXCEPT !.ask = @ \cup {q}])
  /\ UNCHANGED cfg

Answer ==
  /\ OnBar
  /\ \E q \in screen.ask : After([screen EXCEPT !.ask = @ \ {q}])
  /\ UNCHANGED <<cfg, popup>>

\* Alt+Tab from the Keys menu, and whether Command acts as Ctrl.
SendKeys ==
  /\ InMenu
  /\ popup' = FALSE
  /\ After(Chord(screen, {"MENU", "TAB"}))
  /\ UNCHANGED cfg

ToggleCmd ==
  /\ InMenu
  /\ popup' = FALSE
  /\ After(screen)
  /\ cfg' = [cfg EXCEPT !.cmdIsCtrl = ~@]

MouseItems ==
  /\ InMenu
  /\ popup' = FALSE
  /\ ~cfg.capture \in FreeMouse
  /\ cfg' = [cfg EXCEPT !.capture = ~@]
  /\ After(IF cfg.capture THEN GiveBack(screen) ELSE screen)

---------------------------------------------------------------------------
(* The stream itself and the pastes' threads. *)

Connected ==
  /\ stream = "starting"
  /\ stream' = "up"
  /\ screen' = StreamStarted(screen)
  /\ UNCHANGED <<cfg, hand, focused, popup, pastes, done>>

\* The connection closes; the window has not looked yet.
Lost ==
  /\ stream \in {"starting", "up"}
  /\ stream' = "lost"
  /\ UNCHANGED <<screen, cfg, hand, focused, popup, pastes, done>>

\* poll_live finds the session finished, and the screen goes.
Gone ==
  /\ stream = "lost"
  /\ stream' = "none"
  /\ screen' = [Reset(screen) EXCEPT !.pc = {}]
  /\ popup' = FALSE
  /\ UNCHANGED <<cfg, hand, focused, pastes, done>>

\* The next stream has a clipboard, and a count of pastes, of its own.
Again ==
  /\ stream = "none"
  /\ stream' = "starting"
  /\ pastes' = <<>>
  /\ done' = 0
  /\ UNCHANGED <<screen, cfg, hand, focused, popup>>

\* Mod down, V down, V up, mod up: press_chord on the paste's thread.
PressChord(i) ==
  LET p == pastes[i] IN
  /\ p.at \in Pressing
  /\ pastes' = [pastes EXCEPT ![i].at = @ + 1]
  /\ screen' = IF ~Up THEN screen
               ELSE [screen EXCEPT !.pc =
                      CASE p.at = 1 -> @ \cup {p.mod}
                        [] p.at = 2 -> @ \cup {"V"}
                        [] p.at = 3 -> @ \ {"V"}
                        [] p.at = 4 -> @ \ {p.mod}]
  /\ UNCHANGED <<cfg, hand, stream, focused, popup, done>>

\* The text is on the PC, or did not get there.
TextSent(i) ==
  /\ pastes[i].at = 0
  /\ pastes' = [pastes EXCEPT ![i].at = 1]
  /\ UNCHANGED <<screen, cfg, hand, stream, focused, popup, done>>

PasteDone(i) ==
  /\ pastes[i].at = 5
  /\ pastes' = [pastes EXCEPT ![i].at = Finished]
  /\ done' = done + 1
  /\ UNCHANGED <<screen, cfg, hand, stream, focused, popup>>

Next ==
  \/ Play
  \/ OpenMenu \/ CloseMenu \/ StreamSettings \/ CloseSettings
  \/ Ask \/ Answer \/ SendKeys \/ ToggleCmd \/ MouseItems
  \/ Connected \/ Lost \/ Gone \/ Again
  \/ \E i \in DOMAIN pastes : TextSent(i) \/ PressChord(i) \/ PasteDone(i)

Spec == Init /\ [][Next]_vars

---------------------------------------------------------------------------
(* Properties. *)

\* The state has the types of View, Held and the clipboard's counters.
TypeOK ==
  /\ screen \in [captured : BOOLEAN, bar : BOOLEAN, ask : SUBSET Questions,
                 settings : BOOLEAN, chord : BOOLEAN,
                 held : SUBSET (PcMods \cup Plain), seen : 0..MaxPastes,
                 pc : SUBSET PcKeys]
  /\ cfg \in [capture : BOOLEAN, cmdIsCtrl : BOOLEAN]
  /\ hand \subseteq Mods \cup Plain
  /\ stream \in {"starting", "up", "lost", "none"}
  /\ focused \in BOOLEAN /\ popup \in BOOLEAN
  /\ pastes \in Seq([mod : PcMods, at : 0..Finished]) /\ Len(pastes) <= MaxPastes
  /\ done \in 0..Len(pastes)

\* What the PC has down is either held by the view, which will release it,
\* or is in the middle of a paste's chord, which will: nothing is left down
\* that nobody releases, whatever pastes, clicks, focus and the host key do.
NothingForgotten ==
  Up => screen.pc \subseteq
          screen.held \cup UNION {{pastes[i].mod, "V"} :
                                   i \in {j \in DOMAIN pastes : pastes[j].at \in Pressing}}

\* A modifier held here is down on the PC, so the next shortcut of the same
\* hold arrives with it; only a paste that runs, or whose end no frame has
\* seen yet, may have taken it away.
HoldSurvivesPaste ==
  Up /\ ~Busy /\ screen.seen = done => screen.held \cap PcMods \subseteq screen.pc

\* The PC does not see a held chord after the toolbar has opened: while the
\* host key that opened it is down, nothing is held there.
ChordOpensClean ==
  screen.chord /\ screen.bar => screen.held = {}

\* A window without the focus holds nothing on the PC and not the mouse.
UnfocusedLetsGo ==
  ~focused => screen.held = {} /\ ~screen.captured

=============================================================================
