------------------------------ MODULE Discovery ------------------------------
(***************************************************************************)
(* The list of machines (client/src/session.rs): a thread rescans the      *)
(* tailnet, saves what it learns of each machine, and gives the window a   *)
(* new list; the window draws it when it is asked to, and connects to a    *)
(* machine as it was listed, or again to the one it had listed then; the   *)
(* connection forgets a certificate that is not the machine's any more,    *)
(* pairs when it knows none, and saves the one it gets.  A certificate is  *)
(* the number of the engine's installation that made it, 0 is none.        *)
(***************************************************************************)
EXTENDS Naturals, FiniteSets

CONSTANTS Machines,    \* the peers of the tailnet
          Relays,      \* those that are tagged as relays
          MaxChanges,  \* bound: changes of the machines and of Tailscale
          MaxConnects  \* bound: connections that are made

DiscoveryAssumption ==
  /\ Machines # {} /\ Relays \subseteq Machines
  /\ MaxChanges \in Nat /\ MaxConnects \in Nat

Unlisted == [in |-> FALSE, online |-> FALSE, host |-> FALSE, mac |-> FALSE,
             cert |-> 0, remembered |-> FALSE]
Unknown == [name |-> FALSE, mac |-> FALSE, cert |-> 0]
Met == [name |-> TRUE, mac |-> TRUE, cert |-> 1]
Nobody == [to |-> "nobody", cert |-> 0]

VARIABLES
  world,     \* per machine: "off", "on", or "host" when Latch answers on it
  engine,    \* per machine: its engine's present certificate
  up,        \* Tailscale on this machine runs
  seen,      \* the machines Tailscale says are online
  disk,      \* ClientConfig::pcs in the file
  at,        \* the scan's step
  cfg,       \* the scan's copy of the file
  online,    \* the scan's tailscale::status()
  todo,      \* the machines it has still to probe
  found,     \* the list it makes
  list,      \* the shared Discovery
  repaint,   \* a repaint is asked for
  drawn,     \* the list the window last drew
  last,      \* ClientApp::last_pc
  target,    \* the Target that is connected to
  changes, connects

vars == <<world, engine, up, seen, disk, at, cfg, online, todo, found, list, repaint, drawn,
          last, target, changes, connects>>
worldVars == <<world, engine, up, seen, changes>>
scanVars == <<at, cfg, online, todo, found>>
windowVars == <<drawn, last, target, connects>>

\* A machine is new, or it was met and paired with before this start.
Init ==
  /\ world = [m \in Machines |-> "off"] /\ engine = [m \in Machines |-> 1]
  /\ up = TRUE /\ seen = {}
  /\ disk \in [Machines -> {Unknown, Met}]
  /\ at = "load" /\ cfg = disk /\ online = {} /\ todo = {}
  /\ found = [m \in Machines |-> Unlisted] /\ list = found
  /\ repaint = FALSE /\ drawn = list
  /\ last = Nobody /\ target = Nobody
  /\ changes = 0 /\ connects = 0

\* A machine starts, stops, or Latch on it does, or its engine is installed
\* again; Tailscale here stops or starts.
World ==
  /\ changes < MaxChanges /\ changes' = changes + 1
  /\ \/ \E m \in Machines, w \in {"off", "on", "host"} :
          world' = [world EXCEPT ![m] = w] /\ UNCHANGED <<engine, up>>
     \/ \E m \in Machines : engine' = [engine EXCEPT ![m] = @ + 1] /\ UNCHANGED <<world, up>>
     \/ up' = ~up /\ UNCHANGED <<world, engine>>
  /\ UNCHANGED <<seen, disk, scanVars, list, repaint, windowVars>>

\* Tailscale's view lags behind.
TailscaleSees ==
  /\ seen' = {m \in Machines : world[m] # "off"} /\ seen' # seen
  /\ UNCHANGED <<world, engine, up, changes, disk, scanVars, list, repaint, windowVars>>

-----------------------------------------------------------------------------
(* spawn_discovery's loop.                                                 *)

Load ==
  /\ at = "load" /\ cfg' = disk /\ at' = "status"
  /\ UNCHANGED <<worldVars, disk, online, todo, found, list, repaint, windowVars>>

\* remembered(): the machines that have a name in the file.
Remembered(m) ==
  IF cfg[m].name
    THEN [Unlisted EXCEPT !.in = TRUE, !.mac = cfg[m].mac, !.cert = cfg[m].cert,
                          !.remembered = TRUE]
  ELSE Unlisted

\* scan(): Tailscale's peers, or what is remembered when it does not say.
Status ==
  /\ at = "status"
  /\ IF up THEN at' = "probe" /\ online' = seen /\ todo' = Machines /\ UNCHANGED found
     ELSE at' = "learn" /\ found' = [m \in Machines |-> Remembered(m)] /\ UNCHANGED <<online, todo>>
  /\ UNCHANGED <<worldVars, disk, cfg, list, repaint, windowVars>>

\* The details the file has of a machine, whether it answers or not.
KnownOf(m) == cfg[m]

\* probe_peer, one machine after another; a relay is listed when it answers.
Probe ==
  /\ at = "probe" /\ todo # {}
  /\ \E m \in todo :
       LET answers == m \in online /\ world[m] = "host" IN
         /\ todo' = todo \ {m}
         /\ found' = [found EXCEPT ![m] =
              IF m \in Relays /\ ~answers THEN Unlisted
              ELSE [in |-> TRUE, online |-> m \in online, host |-> answers,
                    mac |-> KnownOf(m).mac, cert |-> KnownOf(m).cert, remembered |-> FALSE]]
         /\ at' = IF todo = {m} THEN "learn" ELSE "probe"
  /\ UNCHANGED <<worldVars, disk, cfg, online, list, repaint, windowVars>>

\* MUTANT: what is saved is the scan's copy, with what was learned.
LearnIntoCopy ==
  /\ at = "learn"
  /\ \/ disk' = [m \in Machines |->
          IF ~found[m].in \/ found[m].remembered THEN disk[m]
          ELSE [cfg[m] EXCEPT !.name = TRUE, !.mac = @ \/ found[m].host]]
     \/ UNCHANGED disk
  /\ at' = "publish"
  /\ UNCHANGED <<worldVars, cfg, online, todo, found, list, repaint, windowVars>>

\* learn(): into the file as it is by now, if that can be saved.
Learn ==
  /\ at = "learn"
  /\ \/ disk' = [m \in Machines |->
          IF ~found[m].in \/ found[m].remembered THEN disk[m]
          ELSE [disk[m] EXCEPT !.name = TRUE, !.mac = @ \/ found[m].host]]
     \/ UNCHANGED disk
  /\ at' = "publish"
  /\ UNCHANGED <<worldVars, cfg, online, todo, found, list, repaint, windowVars>>

\* listing_changed.
ListingChanged(old, new) == old # new

\* The list is shared, and a repaint asked for when it is another.
Publish ==
  /\ at = "publish" /\ list' = found
  /\ repaint' = (repaint \/ ListingChanged(list, found))
  /\ at' = "load"
  /\ UNCHANGED <<worldVars, disk, cfg, online, todo, found, windowVars>>

-----------------------------------------------------------------------------
(* The window, and a connection.                                           *)

Draw ==
  /\ repaint /\ repaint' = FALSE /\ drawn' = list
  /\ UNCHANGED <<worldVars, disk, scanVars, list, last, target, connects>>

\* Target::from_pc, of a machine in the list, or of the one that was
\* connected to before: `last_pc` is as it was listed then.
Connect ==
  /\ target = Nobody /\ connects < MaxConnects /\ connects' = connects + 1
  /\ \/ \E m \in Machines :
          /\ drawn[m].in /\ (drawn[m].host \/ drawn[m].mac)
          /\ target' = [to |-> m, cert |-> drawn[m].cert]
     \/ last # Nobody /\ target' = last
  /\ last' = target'
  /\ UNCHANGED <<worldVars, disk, scanVars, list, repaint, drawn>>

\* run(): the machine shows another certificate than the target has, which
\* is then forgotten, in the file too if that can be saved.
Mismatch ==
  LET m == target.to IN
    /\ target # Nobody /\ world[m] = "host" /\ target.cert \notin {0, engine[m]}
    /\ target' = [target EXCEPT !.cert = 0]
    /\ \/ disk' = [disk EXCEPT ![m].cert = 0]
       \/ UNCHANGED disk
    /\ UNCHANGED <<worldVars, scanVars, list, repaint, drawn, last, connects>>

\* The machine is paired with, when no certificate of it is known or it knows
\* this Mac no more, and remember_cert saves the new one, if it can.
Pair ==
  LET m == target.to IN
    /\ target # Nobody /\ world[m] = "host" /\ target.cert \in {0, engine[m]}
    /\ target' = Nobody
    /\ \/ disk' = [disk EXCEPT ![m].name = TRUE, ![m].cert = engine[m]]
       \/ UNCHANGED disk
    /\ UNCHANGED <<worldVars, scanVars, list, repaint, drawn, last, connects>>

\* The attempt ends without: no answer, no PIN in time, or it is cancelled.
Leave ==
  /\ target # Nobody /\ target' = Nobody
  /\ UNCHANGED <<worldVars, disk, scanVars, list, repaint, drawn, last, connects>>

Scan == Load \/ Status \/ Probe \/ Learn \/ Publish

Attempt == Mismatch \/ Pair \/ Leave

Next == World \/ TailscaleSees \/ Scan \/ Draw \/ Connect \/ Attempt

Spec == Init /\ [][Next]_vars

-----------------------------------------------------------------------------
Listing == [in : BOOLEAN, online : BOOLEAN, host : BOOLEAN, mac : BOOLEAN,
            cert : Nat, remembered : BOOLEAN]

(* Every part holds values of its kind; a remembered machine is not shown  *)
(* as one that answers.                                                    *)
TypeOK ==
  /\ world \in [Machines -> {"off", "on", "host"}] /\ engine \in [Machines -> Nat \ {0}]
  /\ up \in BOOLEAN /\ seen \subseteq Machines
  /\ {disk, cfg} \subseteq [Machines -> [name : BOOLEAN, mac : BOOLEAN, cert : Nat]]
  /\ {found, list, drawn} \subseteq [Machines -> Listing]
  /\ \A m \in Machines : list[m].remembered => ~list[m].host /\ ~list[m].online
  /\ (at = "probe") = (todo # {})

(* learn, forget_pin_on_mismatch and remember_cert: no step takes away a   *)
(* machine's name or what wakes it; and its certificate changes only by a  *)
(* connection to it, to the one its engine has now, or to none when the    *)
(* one that was used is not.  So a scan that read the file before neither  *)
(* drops a new certificate nor brings back one that was revoked.           *)
NeverForgets ==
  \A m \in Machines :
    /\ \A f \in {"name", "mac"} : disk[m][f] => disk'[m][f]
    /\ disk'[m].cert # disk[m].cert =>
         /\ target.to = m
         /\ \/ disk'[m].cert = engine[m]
            \/ disk'[m].cert = 0 /\ target.cert \notin {0, engine[m]}

(* scan and remembered: a machine that is asleep, or that Tailscale cannot *)
(* say anything of, stays in every new list with what is needed to wake it.*)
StaysWakeable ==
  list' # list => \A m \in Machines \ Relays : cfg[m].mac => list'[m].in /\ list'[m].mac

Truth(m) ==
  IF ~up THEN IF disk[m].name
                THEN [Unlisted EXCEPT !.in = TRUE, !.mac = disk[m].mac, !.cert = disk[m].cert,
                                      !.remembered = TRUE]
              ELSE Unlisted
  ELSE IF m \in Relays /\ world[m] # "host" THEN Unlisted
  ELSE [in |-> TRUE, online |-> world[m] # "off", host |-> world[m] = "host",
        mac |-> disk[m].mac, cert |-> disk[m].cert, remembered |-> FALSE]

(* spawn_discovery, in the end: once the machines stay as they are, the    *)
(* window shows them as they are, without a timer of its own.              *)
ShowsTheTruth == \A m \in Machines : drawn[m] = Truth(m)

=============================================================================
