---------------------------- MODULE BlackPicture ----------------------------
(***************************************************************************)
(* A stream whose picture is black: the Mac asks the PC what its displays  *)
(* are doing (client/src/display.rs, host/src/service.rs), says what the   *)
(* cause is, and offers to turn the displays' HDR or wide colour off; the  *)
(* PC does that display by display, switch by switch                       *)
(* (host/src/display.rs).  Windows is outside: it may refuse a switch, or  *)
(* take it and do nothing.                                                 *)
(***************************************************************************)
EXTENDS Naturals, Sequences, SequencesExt

CONSTANTS Displays,    \* how many display paths Windows knows
          MaxChanges,  \* bound: changes of a display while somebody looks
          MaxFaults    \* bound: switches that Windows refuses or ignores

PictureAssumption == {Displays, MaxChanges, MaxFaults} \subseteq Nat

Paths == 1..Displays
Modes == {"SDR", "wide colour", "HDR"}
\* A display that Windows keeps in wide colour is supported and on by nobody.
Display == {x \in [active : BOOLEAN, supported : BOOLEAN, enforced : BOOLEAN,
                   wide : BOOLEAN, hdr : BOOLEAN] :
              x.enforced => ~x.supported /\ ~x.wide /\ ~x.hdr}
NoHelp == [cause |-> "none", button |-> FALSE, mode |-> ""]

VARIABLES
  win11,    \* Windows reports the two modes, and has a switch for each
  disp,     \* the displays
  desktop,  \* what the probe sees: a monitor, a dark screen, the lock screen
  at,       \* the step of the question, and of the request that follows it
  help,     \* ClientApp::video_help
  want,     \* advanced_color of the request
  cur,      \* the path that is being set
  order,    \* the switches still to try on it
  touched, refused,
  told,     \* what the user is told in the end
  still,    \* history: no display has changed since the report
  changes, faults

vars == <<win11, disp, desktop, at, help, want, cur, order, touched, refused, told,
          still, changes, faults>>
setVars == <<want, cur, order, touched, refused>>

Mode(x) ==
  IF x.enforced THEN "wide colour" ELSE IF x.hdr THEN "HDR"
  ELSE IF x.wide THEN "wide colour" ELSE "SDR"
Enabled(x) == Mode(x) # "SDR"

Init ==
  /\ win11 \in BOOLEAN /\ disp \in [Paths -> Display]
  /\ \A p \in Paths : disp[p].wide => win11
  /\ desktop \in [monitor : BOOLEAN, dark : BOOLEAN, locked : BOOLEAN]
  /\ at = "black" /\ help = NoHelp /\ want = FALSE /\ cur = 0 /\ order = <<>>
  /\ touched = 0 /\ refused = 0 /\ told = "nothing" /\ still = TRUE
  /\ changes = 0 /\ faults = 0

\* A monitor goes or comes, or somebody at the PC changes a setting; not
\* within the calls for one path, which take no time a person could hit.
World ==
  /\ at # "switch" /\ changes < MaxChanges /\ changes' = changes + 1
  /\ \E p \in Paths, x \in Display : (x.wide => win11) /\ disp' = [disp EXCEPT ![p] = x]
  /\ still' = FALSE
  /\ UNCHANGED <<win11, desktop, at, help, setVars, told, faults>>

\* paths(): those Windows drives, or all it knows when it drives none.
Listed ==
  IF \E p \in Paths : disp[p].active THEN {p \in Paths : disp[p].active} ELSE Paths

-----------------------------------------------------------------------------
(* The report, and what the Mac makes of it.                               *)

\* report(): one entry for each path, the two modes only where Windows has them.
Entry(p) ==
  [on |-> Enabled(disp[p]), supported |-> disp[p].supported,
   hdrOn |-> win11 /\ disp[p].hdr, wideOn |-> win11 /\ disp[p].wide,
   enforced |-> disp[p].enforced, mode |-> IF win11 THEN Mode(disp[p]) ELSE ""]

\* colour_mode: the first display that names one; or by what is enforced.
ColourMode(r) ==
  LET named == {p \in DOMAIN r : r[p].mode # ""}
  IN IF named # {} THEN r[CHOOSE p \in named : \A q \in named : p <= q].mode
     ELSE IF \E p \in DOMAIN r : r[p].on /\ r[p].enforced THEN "wide colour" ELSE "HDR"

\* can_be_turned_off.
CanBeTurnedOff(r) ==
  \E p \in DOMAIN r : r[p].on /\ (r[p].supported \/ r[p].hdrOn \/ r[p].wideOn)

\* verdict(): the first cause that fits, in the code's order.
Verdict(r) ==
  LET hdr == \E p \in DOMAIN r : r[p].on
      Says(cause) == [cause |-> cause, button |-> FALSE, mode |-> ""]
  IN IF hdr /\ ~CanBeTurnedOff(r) THEN [Says("kept by Windows") EXCEPT !.mode = ColourMode(r)]
     ELSE IF hdr THEN [cause |-> IF desktop.monitor THEN "mode" ELSE "mode, no monitor",
                       button |-> TRUE, mode |-> ColourMode(r)]
     ELSE IF desktop.dark THEN Says(IF desktop.monitor THEN "asleep" ELSE "nothing drawn")
     ELSE IF desktop.locked THEN Says("locked")
     ELSE IF ~desktop.monitor THEN Says("no monitor")
     ELSE Says("capture")

\* ask_why_black, and GET /v1/display.
Ask ==
  /\ at = "black" /\ at' = "shown"
  /\ help' = Verdict([p \in Listed |-> Entry(p)])
  /\ still' = TRUE
  /\ UNCHANGED <<win11, disp, desktop, setVars, told, changes, faults>>

\* turn_off_hdr; another machine may ask for either over the control API.
Press ==
  /\ at \in {"black", "shown"}
  /\ \/ help.button /\ want' = FALSE
     \/ at = "black" /\ want' \in BOOLEAN
  /\ at' = "next" /\ cur' = 0 /\ order' = <<>> /\ touched' = 0 /\ refused' = 0
  /\ UNCHANGED <<win11, disp, desktop, help, told, still, changes, faults>>

-----------------------------------------------------------------------------
(* set(): each path that is not as asked, and each switch until one works. *)

\* The switch of the mode that is on comes first, the old one last.
Order(x) ==
  IF ~win11 THEN <<"old">>
  ELSE IF x.wide \/ Mode(x) = "wide colour" THEN <<"wide", "hdr", "old">>
  ELSE IF x.hdr THEN <<"hdr", "wide", "old">>
  ELSE <<"wide", "hdr", "old">>

\* Windows: what a switch does to a display when it is taken.
Switched(x, kind) == IF kind = "wide" THEN [x EXCEPT !.wide = want] ELSE [x EXCEPT !.hdr = want]
Takes(x, kind) ==
  /\ ~x.enforced
  /\ kind = "old" => x.supported \/ ~win11
  /\ want => x.supported

NextPath ==
  LET left == {p \in Listed : p > cur}
  IN /\ at = "next" /\ left # {}
     /\ LET p == CHOOSE p \in left : \A q \in left : p <= q IN
          /\ cur' = p
          /\ IF Enabled(disp[p]) = want THEN UNCHANGED <<at, order>>
             ELSE at' = "switch" /\ order' = Order(disp[p])
     /\ UNCHANGED <<win11, disp, desktop, help, want, touched, refused, told, still, changes, faults>>

\* The display is believed, not the return code.
Works(x, taken) == taken /\ Enabled(x) = want

Switch ==
  /\ at = "switch"
  /\ LET x == disp[cur]
         Done(y, taken) ==
           /\ disp' = [disp EXCEPT ![cur] = y]
           /\ IF Works(y, taken) THEN touched' = touched + 1 /\ at' = "next" /\ UNCHANGED <<order, refused>>
              ELSE IF Len(order) = 1
                THEN refused' = refused + 1 /\ at' = "next" /\ UNCHANGED <<order, touched>>
              ELSE order' = Tail(order) /\ UNCHANGED <<at, touched, refused>>
     IN \/ /\ IF Takes(x, Head(order)) THEN Done(Switched(x, Head(order)), TRUE) ELSE Done(x, FALSE)
           /\ UNCHANGED faults
        \/ /\ faults < MaxFaults /\ faults' = faults + 1
           /\ \E taken \in BOOLEAN : Done(x, taken)
  /\ UNCHANGED <<win11, desktop, help, want, cur, told, still, changes>>

\* The answer is an error when all refused, and the displays' state otherwise.
Answer ==
  /\ at = "next" /\ ~\E p \in Listed : p > cur
  /\ told' = IF touched = 0 /\ refused > 0 THEN "refused"
             ELSE IF \E p \in Listed : Enabled(disp[p]) THEN "on" ELSE "off"
  /\ at' = "told"
  /\ UNCHANGED <<win11, disp, desktop, help, setVars, still, changes, faults>>

\* The stream comes up again, black or not.
Again ==
  /\ at \in {"shown", "told"} /\ at' = "black" /\ help' = NoHelp /\ told' = "nothing"
  /\ want' = FALSE /\ cur' = 0 /\ order' = <<>> /\ touched' = 0 /\ refused' = 0
  /\ still' = TRUE
  /\ UNCHANGED <<win11, disp, desktop, changes, faults>>

Next == World \/ Ask \/ Press \/ NextPath \/ Switch \/ Answer \/ Again

Spec == Init /\ [][Next]_vars

-----------------------------------------------------------------------------
(* Every part holds values of its kind, and at most one result is counted  *)
(* for each path.                                                          *)
TypeOK ==
  /\ disp \in [Paths -> Display] /\ help.mode \in Modes \cup {""}
  /\ at \in {"black", "shown", "next", "switch", "told"}
  /\ cur \in 0..Displays /\ touched + refused <= cur
  /\ told \in {"nothing", "refused", "on", "off"}

(* set (host/src/display.rs:64): a display that is as asked is left as it  *)
(* is, in either direction and whatever happens to the others.             *)
LeavesOthersAlone ==
  Switch => \A p \in Paths : Enabled(disp[p]) = want => disp'[p] = disp[p]

(* can_be_turned_off and set: the button is offered only when it can work. *)
(* If nothing changes after the report and Windows takes its switches,     *)
(* every display that could be turned off is off once the PC has answered, *)
(* and what stays on is what Windows keeps on.                             *)
OfferedWorks ==
  at = "told" /\ help.button /\ still /\ faults = 0 =>
    \A p \in Listed : Enabled(disp[p]) => disp[p].enforced

=============================================================================
