--------------------------- MODULE FolderTakeover ---------------------------
(***************************************************************************)
(* The folder that 4.0 and older kept their settings in becomes this       *)
(* version's (core/config.rs data_dir, adopt; core/legacy.rs).  Every      *)
(* process of Latch does it at its first use of the folder: the window,    *)
(* the service and setup can start at once, and each can end at any step.  *)
(***************************************************************************)
EXTENDS Naturals

CONSTANTS Processes, MaxFaults   \* MaxFaults bounds kills, and calls that fail

TakeoverAssumption == MaxFaults \in Nat

VARIABLES
  windows,  \* a folder with a running program in it cannot be moved
  old,      \* the old folder: "none" or "whole"
  new,      \* this version's: "none", "empty", "half", "whole", or "fresh" settings
  stage,    \* each process's staging folder: "none", "half", "whole"
  pc, faults

vars == <<windows, old, new, stage, pc, faults>>

Init ==
  /\ windows \in BOOLEAN /\ old \in {"none", "whole"} /\ new = "none"
  /\ stage = [p \in Processes |-> "none"] /\ pc = [p \in Processes |-> "off"]
  /\ faults = 0

Fault == faults < MaxFaults /\ faults' = faults + 1
Goes(p, to) == pc' = [pc EXCEPT ![p] = to]
Stages(p, what) == stage' = [stage EXCEPT ![p] = what]

\* adopt: only when the old folder is there and the new one is not.
Look(p) ==
  /\ pc[p] = "off"
  /\ Goes(p, IF new # "none" \/ old = "none" THEN "make" ELSE IF windows THEN "copy" ELSE "move")
  /\ UNCHANGED <<windows, old, new, stage, faults>>

\* rename, which replaces an empty folder and no other; else the copy.
Move(p) ==
  /\ pc[p] = "move"
  /\ \/ /\ old = "whole" /\ new \in {"none", "empty"} /\ UNCHANGED faults
        /\ old' = "none" /\ new' = "whole" /\ Goes(p, "make")
     \/ /\ old = "none" \/ new \notin {"none", "empty"}
        /\ Goes(p, "copy") /\ UNCHANGED <<old, new, faults>>
     \/ Fault /\ Goes(p, "copy") /\ UNCHANGED <<old, new>>
  /\ UNCHANGED <<windows, stage>>

\* copy_tree, file by file, into a folder of the process's own.
Copy(p) ==
  /\ pc[p] = "copy"
  /\ \/ /\ old = "whole" /\ stage[p] = "none" /\ Stages(p, "half") /\ UNCHANGED <<pc, faults>>
     \/ /\ old = "whole" /\ stage[p] = "half" /\ Stages(p, "whole") /\ Goes(p, "place")
        /\ UNCHANGED faults
     \/ /\ (old = "none" /\ UNCHANGED faults) \/ Fault
        /\ Stages(p, "none") /\ Goes(p, "make")
  /\ UNCHANGED <<windows, old, new>>

\* rename of the staging folder; it is removed when that fails.
Place(p) ==
  /\ pc[p] = "place" /\ Goes(p, "make") /\ Stages(p, "none")
  /\ \/ new \in (IF windows THEN {"none"} ELSE {"none", "empty"}) /\ new' = stage[p]
        /\ UNCHANGED faults
     \/ new \notin (IF windows THEN {"none"} ELSE {"none", "empty"}) /\ UNCHANGED <<new, faults>>
     \/ Fault /\ UNCHANGED new
  /\ UNCHANGED <<windows, old>>

\* create_dir_all; then the process reads and saves its settings there.
Make(p) ==
  /\ pc[p] = "make" /\ Goes(p, "runs")
  /\ new' = IF new = "none" THEN "empty" ELSE new
  /\ UNCHANGED <<windows, old, stage, faults>>

Save(p) ==
  /\ pc[p] = "runs" /\ new = "empty" /\ new' = "fresh"
  /\ UNCHANGED <<windows, old, stage, pc, faults>>

\* The process ends; the next one has another number, and finds no folder of its own.
Kill(p) ==
  /\ pc[p] # "off" /\ Fault /\ Goes(p, "off") /\ Stages(p, "none")
  /\ UNCHANGED <<windows, old, new>>

Next ==
  \E p \in Processes :
    Look(p) \/ Move(p) \/ Copy(p) \/ Place(p) \/ Make(p) \/ Save(p) \/ Kill(p)

Spec == Init /\ [][Next]_vars

-----------------------------------------------------------------------------
(* Every part holds values of its kind.                                    *)
TypeOK ==
  /\ old \in {"none", "whole"} /\ new \in {"none", "empty", "half", "whole", "fresh"}
  /\ stage \in [Processes -> {"none", "half", "whole"}]
  /\ pc \in [Processes -> {"off", "move", "copy", "place", "make", "runs"}]

(* adopt (core/config.rs:81): "a copy cut short never leaves a half-filled *)
(* folder that the next start mistakes for the real one", whichever of the *)
(* processes is cut short and at which step.                               *)
NeverHalf == new # "half"

(* data_dir: with nothing failing, whoever comes first and however the     *)
(* processes interleave, none of them runs on empty settings while the old *)
(* ones wait.                                                              *)
TakenOver ==
  faults = 0 /\ (\E p \in Processes : pc[p] = "runs") => new = "whole" \/ old = "none"
=============================================================================
