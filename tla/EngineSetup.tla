---------------------------- MODULE EngineSetup ----------------------------
(***************************************************************************)
(* The setup of a Windows PC: the elevated script of host/src/setup.rs     *)
(* with the parts that legacy.rs, migrate.rs and virtual_display.rs write  *)
(* into it, step by step, so that a step can throw, the power can go, the  *)
(* service can start an engine of its own accord in between, and the owner *)
(* can run it again.                                                       *)
(***************************************************************************)
EXTENDS Naturals

CONSTANTS
  MaxFaults,    \* throws, silent failures and power cuts in a behaviour
  MaxRuns       \* times the owner runs setup

SetupAssumption == MaxFaults \in Nat /\ MaxRuns \in Nat

VARIABLES
  pc,       \* the PC: engine folders, services, what listens, rules
  script,   \* the running script
  past      \* faults and runs so far

vars == <<pc, script, past>>

\* Latch's own engine, the one in the folder an earlier version used, and
\* one that somebody installed with its MSI.
Dirs == {"latch", "old", "msi"}
None == "none"

\* pair: the pairing state and web login in a folder's config, as the Macs
\* know them, not all there, or an engine's own from a start without any.
NoEngine == [files |-> None, pair |-> None, login |-> FALSE, ours |-> FALSE, branded |-> FALSE]
Installed == [NoEngine EXCEPT !.files = "whole", !.pair = "paired", !.login = TRUE]

Idle == [at |-> "idle", migrate |-> FALSE, install |-> FALSE, dir |-> None, error |-> FALSE]

\* Any of the three, or none, set up and running, or stopped.
Init ==
  /\ \E d \in Dirs \cup {None}, up \in BOOLEAN :
     pc = [dirs |-> [x \in Dirs |-> IF x = d THEN Installed ELSE NoEngine],
           bak |-> FALSE,
           svc |-> [x \in Dirs |-> IF x = d THEN "auto" ELSE None],
           runs |-> IF up THEN d ELSE None, wrapped |-> up /\ d # None,
           rules |-> None, tail |-> FALSE, modes |-> FALSE]
  /\ script = Idle
  /\ past = [faults |-> 0, runs |-> 0, result |-> None, paired |-> pc.dirs # [x \in Dirs |-> NoEngine]]

Has(d) == pc.dirs[d].files # None

\* streamer::find, and the script's own list, which leaves the old folder out.
Kind == IF Has("latch") THEN "latch" ELSE IF Has("old") THEN "old"
        ELSE IF Has("msi") THEN "msi" ELSE None

\* An engine that starts without its state makes a new one.
Started(p, d, wrapped) ==
  [p EXCEPT !.runs = d, !.wrapped = wrapped,
            !.dirs[d].login = @ /\ p.dirs[d].pair \notin {None, "part"},
            !.dirs[d].pair = IF @ \in {None, "part"} THEN "fresh" ELSE @]

Stopped(p) == [p EXCEPT !.runs = None, !.wrapped = FALSE]

\* The service of a folder starts what is in it, unless the port is taken.
ServiceStarts(p, d) ==
  IF p.runs = None /\ p.dirs[d].files = "whole" THEN Started(p, d, TRUE) ELSE p

---------------------------------------------------------------------------

At(step) == script.at = step
Goto(step) == script' = [script EXCEPT !.at = step]
Fault == past.faults < MaxFaults /\ past' = [past EXCEPT !.faults = @ + 1]
NoFault == UNCHANGED past
Move(from, to) == At(from) /\ Goto(to)

\* What a critical step throws ends the engine's part of the script.
Failed == [script EXCEPT !.at = "rules", !.error = TRUE, !.dir = None]

\* start_setup, run_as_admin: what is found decides on the plan.
Run ==
  /\ At("idle") /\ past.runs < MaxRuns
  /\ script' = [Idle EXCEPT !.at = "retire", !.migrate = Kind = "msi",
                 !.install = Kind \in {None, "msi", "old"} \/ pc.runs = None]
  /\ past' = [past EXCEPT !.runs = @ + 1, !.result = None]
  /\ UNCHANGED pc

\* MUTANT: the old folder goes whether or not its engine could be moved.
RetireDrops ==
  /\ Move("retire", "pick")
  /\ \/ ~Has("old") /\ UNCHANGED pc /\ NoFault
     \/ /\ Has("old")
        /\ \E moved \in BOOLEAN :
             /\ IF moved THEN NoFault ELSE Fault
             /\ LET p == [IF pc.runs = "old" THEN Stopped(pc) ELSE pc EXCEPT !.svc["old"] = None]
                IN pc' = [p EXCEPT !.dirs["latch"] = IF moved /\ ~Has("latch") THEN p.dirs["old"] ELSE @,
                                   !.dirs["old"] = NoEngine]

\* What an earlier version registered goes, and its engine moves, unless
\* there is one in the new folder or the move fails.
Retire ==
  /\ Move("retire", "pick")
  /\ \/ ~Has("old") /\ UNCHANGED pc /\ NoFault
     \/ /\ Has("old")
        /\ LET p == [IF pc.runs = "old" THEN Stopped(pc) ELSE pc EXCEPT !.svc["old"] = None]
           IN \/ /\ ~Has("latch") /\ NoFault
                 /\ pc' = [p EXCEPT !.dirs["latch"] = p.dirs["old"], !.dirs["old"] = NoEngine]
              \/ ~Has("latch") /\ Fault /\ pc' = p
              \/ Has("latch") /\ NoFault /\ pc' = p

Pick ==
  /\ At("pick")
  /\ LET dir == IF Has("latch") THEN "latch" ELSE IF Has("msi") THEN "msi" ELSE None
         next == IF ~script.install THEN IF dir = None THEN "rules" ELSE "brand existing"
                 ELSE IF dir # "latch" THEN "unpack"
                 ELSE IF pc.wrapped THEN "brand existing"
                 ELSE IF script.migrate THEN "state" ELSE "conf"
     IN script' = [script EXCEPT !.at = next, !.dir = dir]
  /\ UNCHANGED <<pc, past>>

\* The archive, checked and unpacked beside; then its files one by one: the
\* program is there before the service's is.
Unpack == Move("unpack", "copy") /\ UNCHANGED <<pc, past>>

CopyBegins ==
  /\ Move("copy", "copied")
  /\ pc' = [pc EXCEPT !.dirs["latch"].files = IF @ = None THEN "exe" ELSE @]
  /\ NoFault

CopyEnds ==
  /\ At("copied")
  /\ pc' = [pc EXCEPT !.dirs["latch"].files = "whole"]
  /\ script' = [script EXCEPT !.at = IF script.migrate THEN "state" ELSE "conf", !.dir = "latch"]
  /\ NoFault

\* copy_ps: the state file by file, and once more beside it; verified.
StateBegins ==
  /\ Move("state", "state copied") /\ pc.dirs["msi"].pair # None
  /\ pc' = [pc EXCEPT !.dirs["latch"].pair = "part"]
  /\ NoFault

StateEnds ==
  /\ Move("state copied", "backup")
  /\ pc' = [pc EXCEPT !.dirs["latch"].pair = pc.dirs["msi"].pair,
                      !.dirs["latch"].login = pc.dirs["msi"].login]
  /\ NoFault

Backup ==
  /\ Move("backup", "conf")
  /\ pc' = [pc EXCEPT !.bak = TRUE]
  /\ NoFault

\* Write-EngineConf.
Conf ==
  /\ \/ Move("conf", "brand")
     \/ Move("conf again", "creds")
  /\ pc' = [pc EXCEPT !.dirs[script.dir].ours = TRUE]
  /\ NoFault

\* Brand-Engine: what runs from the folder is paused and comes back; it may
\* keep its upstream name.
Brand ==
  /\ Move("brand", "brand ends") \/ Move("brand existing", "existing ends")
  /\ pc' = IF script.dir = "latch" /\ ~pc.dirs["latch"].branded /\ pc.runs = "latch" /\ pc.wrapped
           THEN Stopped(pc) ELSE pc
  /\ NoFault

BrandEnds ==
  /\ Move("brand ends", "stop old") \/ Move("existing ends", "conf again")
  /\ LET back == IF pc.svc["latch"] \in {"auto", "manual"} /\ pc.runs = None
                 THEN ServiceStarts(pc, "latch") ELSE pc
     IN \/ pc' = [back EXCEPT !.dirs["latch"].branded = @ \/ script.dir = "latch"]
        \/ pc' = back
  /\ NoFault

\* stop_old_ps, which may fail without a word.
StopOld ==
  /\ Move("stop old", "register")
  /\ \/ /\ pc' = [IF pc.runs = "msi" THEN Stopped(pc) ELSE pc
                   EXCEPT !.svc["msi"] = IF @ = None THEN @ ELSE "disabled"]
        /\ NoFault
     \/ UNCHANGED pc /\ Fault

\* The service is registered anew and has to run: a folder without the
\* wrapper's program does not get that far, under either name.  Its engine
\* may still not listen.
Register ==
  /\ At("register")
  /\ LET stopped == IF pc.runs = "latch" /\ pc.wrapped THEN Stopped(pc) ELSE pc
         there == stopped.dirs[script.dir].files = "whole"
         svc == IF there \/ pc.svc["msi"] = None THEN "auto" ELSE None
         registered == [stopped EXCEPT !.svc["latch"] = svc]
     IN /\ \/ pc' = (IF there THEN ServiceStarts(registered, script.dir) ELSE registered) /\ NoFault
           \/ there /\ pc' = registered /\ Fault
        /\ script' = [script EXCEPT
             !.at = IF ~there THEN "rules" ELSE IF script.migrate THEN "prove" ELSE "brand existing",
             !.error = ~there, !.dir = IF there THEN @ ELSE None]

\* after_start_ps: something listens before the MSI goes, then what it left.
Prove ==
  /\ At("prove")
  /\ script' = IF pc.runs # None THEN [script EXCEPT !.at = "uninstall"] ELSE Failed
  /\ UNCHANGED <<pc, past>>

Uninstall ==
  /\ Move("uninstall", "clean")
  /\ pc' = [IF pc.runs = "msi" THEN Stopped(pc) ELSE pc
             EXCEPT !.dirs["msi"].files = None, !.svc["msi"] = None]
  /\ NoFault

Clean ==
  /\ Move("clean", "brand existing")
  /\ pc' = [pc EXCEPT !.dirs["msi"] = IF Has("msi") THEN @ ELSE NoEngine]
  /\ NoFault

\* A migrated engine keeps its login.  Every service is started again.
Creds ==
  /\ Move("creds", "take over")
  /\ LET set == [pc EXCEPT !.dirs[script.dir].login = TRUE,
                           !.dirs[script.dir].pair = IF @ \in {None, "part"} THEN "fresh" ELSE @]
     IN \/ script.migrate /\ UNCHANGED pc
        \/ ~script.migrate /\ set.runs # None /\ pc' = set
        \/ /\ ~script.migrate /\ set.runs = None
           /\ \/ \E d \in {"latch", "msi"} :
                   set.svc[d] \in {"auto", "manual"} /\ pc' = ServiceStarts(set, d)
              \/ (\A d \in {"latch", "msi"} : set.svc[d] \notin {"auto", "manual"}) /\ pc' = set
  /\ NoFault

\* take-over-engine.ps1: the engine in Latch's folder, or the old one, as
\* the signed-in user.  An MSI's wrapper may bring its engine back before
\* the script looks again.
TakeOver(p) ==
  LET d == IF p.dirs["latch"].files # None THEN "latch" ELSE "old"
      quiet == [p EXCEPT !.svc = [x \in Dirs |-> IF x # "msi" /\ @[x] # None THEN "manual" ELSE @[x]]]
  IN IF p.dirs[d].files = None \/ (p.runs = d /\ ~p.wrapped) THEN {p}
     ELSE {Started(quiet, d, FALSE)} \cup (IF p.runs = "msi" THEN {quiet} ELSE {})

TakesOver ==
  /\ Move("take over", "rules")
  /\ \/ pc' \in TakeOver(pc) /\ NoFault
     \/ Fault /\ pc' = IF \E p \in TakeOver(pc) : p # pc THEN Stopped(pc) ELSE pc

\* The steps that do not depend on the engine.
Rules ==
  /\ Move("rules", "modes")
  /\ pc' = [pc EXCEPT !.rules = IF script.dir = None THEN @ ELSE script.dir]
  /\ NoFault

\* The virtual display's sizes; Fast Startup, idle sleep and the adapter.
Modes ==
  /\ Move("modes", "tail")
  /\ \E listed \in {TRUE, pc.modes} : pc' = [pc EXCEPT !.modes = listed]
  /\ NoFault

Tail ==
  /\ Move("tail", "end")
  /\ pc' = [pc EXCEPT !.tail = TRUE]
  /\ NoFault

End ==
  /\ At("end")
  /\ script' = Idle
  /\ past' = [past EXCEPT !.result = IF script.error THEN "failed" ELSE "ok"]
  /\ UNCHANGED pc

Critical == {"unpack", "copy", "copied", "state", "state copied", "backup", "conf", "brand",
             "stop old", "register", "prove", "uninstall", "clean", "conf again"}

Throws ==
  /\ script.at \in Critical /\ Fault
  /\ script' = Failed
  /\ UNCHANGED pc

\* The PC comes back without the script; what starts with Windows starts.
PowerCut ==
  /\ Fault
  /\ script' = Idle
  /\ LET off == Stopped(pc)
         boot == {d \in Dirs : off.svc[d] = "auto" /\ off.dirs[d].files = "whole"}
     IN \/ \E d \in boot : pc' = ServiceStarts(off, d)
        \/ boot = {} /\ pc' = off

\* The service finds its engine down (streamer::start).
HostStarts ==
  /\ pc.runs = None
  /\ pc' \in TakeOver(pc)
  /\ pc'.runs # None
  /\ UNCHANGED <<script, past>>

Step ==
  \/ Retire \/ Pick \/ Unpack \/ CopyBegins \/ CopyEnds \/ StateBegins \/ StateEnds \/ Backup
  \/ Conf \/ Brand \/ BrandEnds \/ StopOld \/ Register \/ Prove \/ Uninstall \/ Clean \/ Creds
  \/ TakesOver \/ Rules \/ Modes \/ Tail \/ End

Next == Run \/ Step \/ Throws \/ PowerCut \/ HostStarts

Spec == Init /\ [][Next]_vars

---------------------------------------------------------------------------
(* Properties. *)

TypeOK ==
  /\ \A d \in Dirs :
       /\ pc.dirs[d].files \in {None, "exe", "whole"}
       /\ pc.dirs[d].pair \in {None, "part", "paired", "fresh"}
       /\ pc.svc[d] \in {None, "auto", "manual", "disabled"}
  /\ pc.runs # None => Has(pc.runs)
  /\ pc.wrapped => pc.runs # None
  /\ script.dir \in Dirs \cup {None}
  /\ past.faults \in 0..MaxFaults /\ past.runs \in 0..MaxRuns

\* The pairing the Macs know is whole somewhere on the disk, whatever throws
\* and whenever the power goes.
PairingSurvives ==
  past.paired => pc.bak \/ \E d \in Dirs : pc.dirs[d].pair = "paired"

\* "copy -> verify -> start -> prove -> uninstall, never uninstall-first"
\* (migrate.rs): what was installed goes only when Latch's engine is whole,
\* something listens, and the state is there twice.
UninstallLast ==
  Has("msi") /\ pc'.dirs["msi"].files = None =>
    /\ pc.dirs["latch"].files = "whole" /\ pc.runs # None
    /\ pc.bak /\ pc.dirs["latch"].pair = pc.dirs["msi"].pair

\* However the engine's part ended, the steps that keep the PC reachable and
\* wakeable were taken.
ReachableAnyway == past.result # None => pc.tail

\* A setup that met no failure leaves one engine at most to start with
\* Windows, the PC's pairing in its folder, its tray and web page hidden.
SmoothSetup ==
  (past.result = "ok" /\ past.faults = 0) =>
     /\ pc.dirs["latch"].ours /\ pc.dirs["latch"].login /\ pc.svc["latch"] # None
     /\ past.paired => Kind = "latch" /\ pc.dirs["latch"].pair = "paired"
     /\ \A d \in Dirs \ {"latch"} : pc.svc[d] # "auto"

=============================================================================
