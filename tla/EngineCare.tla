----------------------------- MODULE EngineCare -----------------------------
(***************************************************************************)
(* How a PC's service looks after its streaming engine and its own view of *)
(* the network: the refresh loop of host/src/service.rs with the calls it  *)
(* makes into host/src/streamer.rs and audio.rs, one step per question or  *)
(* command, so that the engine, Windows and the Mac move in between.       *)
(***************************************************************************)
EXTENDS Naturals

CONSTANTS
  Slow,         \* every this many refreshes: login, profile, start (6)
  Slower,       \* every this many: the engine's log (12)
  NetTicks,     \* every this many: netcheck (NETCHECK_TICKS)
  MaxFaults,    \* things that go wrong in a behaviour
  MaxApps       \* apps the Mac starts in a behaviour

CareAssumption ==
  /\ Slow \in Nat \ {0} /\ Slower \in Nat \ {0} /\ NetTicks \in Nat \ {0, 1}
  /\ Slower % Slow = 0 /\ MaxFaults \in Nat /\ MaxApps \in Nat

VARIABLES
  world,    \* the engine, its sound, the network
  svc,      \* what the service remembers between refreshes
  turn,     \* what this refresh has found so far
  net       \* netcheck's thread and its last report

vars == <<world, svc, turn, net>>

Unknown == "unknown"
Networks == {"easy", "hard"}

Init ==
  /\ world \in [installed : BOOLEAN, up : {FALSE}, app : {FALSE}, login : BOOLEAN,
                creds : BOOLEAN, ours : BOOLEAN, sound : BOOLEAN, network : {"easy"},
                tailscale : BOOLEAN, faults : {0}, apps : {0}]
  /\ world.creds = world.login
  /\ svc = [tick |-> 0, tailscale |-> FALSE, running |-> FALSE, api |-> FALSE, apiAge |-> 0,
            encoder |-> FALSE, silent |-> FALSE, marker |-> FALSE]
  /\ turn = [pc |-> "look", creds |-> FALSE, install |-> FALSE, running |-> FALSE,
             api |-> FALSE, encoder |-> FALSE, silent |-> FALSE]
  /\ net = [running |-> FALSE, sees |-> Unknown, nat |-> Unknown]

Every(n) == svc.tick % n = 0

---------------------------------------------------------------------------
(* What goes on outside the service. *)

\* The engine ends, together with what it streams; its login or its sound is
\* lost; host.toml loads without the login, or with it again; the network
\* changes, or the tailnet goes or comes.
Breakdowns ==
  /\ world.faults < MaxFaults
  /\ \/ world.up /\ world' = [world EXCEPT !.up = FALSE, !.app = FALSE, !.faults = @ + 1]
     \/ world.login /\ world' = [world EXCEPT !.login = FALSE, !.faults = @ + 1]
     \/ world' = [world EXCEPT !.creds = ~@, !.faults = @ + 1]
     \/ world.sound /\ world' = [world EXCEPT !.sound = FALSE, !.faults = @ + 1]
     \/ \E n \in Networks \ {world.network} :
          world' = [world EXCEPT !.network = n, !.faults = @ + 1]
     \/ world' = [world EXCEPT !.tailscale = ~@, !.faults = @ + 1]
  /\ UNCHANGED <<svc, turn, net>>

\* The owner runs setup, which installs the engine, gives it a login and
\* saves that in host.toml.
Setup ==
  /\ ~world.installed \/ ~world.login \/ ~world.creds
  /\ world' = [world EXCEPT !.installed = TRUE, !.login = TRUE, !.creds = TRUE]
  /\ UNCHANGED <<svc, turn, net>>

SignsIn ==
  /\ ~world.tailscale
  /\ world' = [world EXCEPT !.tailscale = TRUE]
  /\ UNCHANGED <<svc, turn, net>>

AppStarts ==
  /\ world.up /\ ~world.app /\ world.apps < MaxApps
  /\ world' = [world EXCEPT !.app = TRUE, !.apps = @ + 1]
  /\ UNCHANGED <<svc, turn, net>>

AppEnds ==
  /\ world.app
  /\ world' = [world EXCEPT !.app = FALSE]
  /\ UNCHANGED <<svc, turn, net>>

---------------------------------------------------------------------------
(* The refresh loop. *)

At(pc) == turn.pc = pc

\* A thread for netcheck, one at a time; it sees the network as it is now.
SpawnNetcheck(up, cameUp) ==
  net' = IF up /\ (cameUp \/ svc.tick % NetTicks = 1) /\ ~net.running
         THEN [net EXCEPT !.running = TRUE, !.sees = world.network] ELSE net

NetcheckEnds ==
  /\ net.running
  /\ \/ net' = [net EXCEPT !.running = FALSE, !.nat = net.sees]
     \/ net' = [net EXCEPT !.running = FALSE]
  /\ UNCHANGED <<world, svc, turn>>

\* The settings, Tailscale, then the engine's folder and its port.
Look ==
  /\ At("look")
  /\ SpawnNetcheck(world.tailscale, world.tailscale /\ ~svc.tailscale)
  /\ svc' = [svc EXCEPT !.tailscale = world.tailscale]
  /\ turn' = [turn EXCEPT !.pc = "login", !.creds = world.creds, !.install = world.installed,
                          !.running = world.installed /\ world.up]
  /\ UNCHANGED world

\* The login is tried every Slow refreshes, and at each as long as it fails;
\* without one to try, what was found last stands while the engine runs.
\* apiAge says how many refreshes ago it was tried, or there was none to try,
\* for the property.
Login ==
  /\ At("login")
  /\ IF turn.running /\ turn.creds /\ (Every(Slow) \/ ~svc.api)
     THEN /\ turn' = [turn EXCEPT !.pc = "profile", !.api = world.up /\ world.login]
          /\ svc' = [svc EXCEPT !.apiAge = 0]
     ELSE /\ turn' = [turn EXCEPT !.pc = "profile", !.api = turn.running /\ svc.api]
          /\ svc' = [svc EXCEPT !.apiAge =
                       IF ~turn.creds THEN 0 ELSE IF @ < Slow THEN @ + 1 ELSE @]
  /\ UNCHANGED <<world, net>>

ProfileOver == turn' = [turn EXCEPT !.pc = "log"]

\* upgrade_stream_profile: not while an app is running, nor for an engine
\* that does not answer, or not to the login of this refresh.
Answers == world.up /\ world.login /\ turn.creds

ProfileAsks ==
  /\ At("profile")
  /\ IF Every(Slow) /\ turn.api /\ turn.install /\ ~svc.marker
        /\ Answers /\ ~world.app
     THEN turn' = [turn EXCEPT !.pc = "config"]
     ELSE ProfileOver
  /\ UNCHANGED <<world, svc, net>>

ProfileReads ==
  /\ At("config")
  /\ IF Answers
     THEN turn' = [turn EXCEPT !.pc = IF world.ours THEN "mark" ELSE "write"]
     ELSE ProfileOver
  /\ UNCHANGED <<world, svc, net>>

ProfileWrites ==
  /\ At("write")
  /\ IF Answers
     THEN /\ world' = [world EXCEPT !.ours = TRUE]
          /\ turn' = [turn EXCEPT !.pc = "restart"]
     ELSE ProfileOver /\ UNCHANGED world
  /\ UNCHANGED <<svc, net>>

\* The engine starts again, and whatever it streams ends; its answer, and
\* whether it was there to be told, is not looked at.
ProfileRestarts ==
  /\ At("restart")
  /\ world' = [world EXCEPT !.app = FALSE]
  /\ turn' = [turn EXCEPT !.pc = "wait"]
  /\ UNCHANGED <<svc, net>>

\* Twenty seconds for the engine to answer again.
ProfileWaits ==
  /\ At("wait")
  /\ IF Answers THEN turn' = [turn EXCEPT !.pc = "mark"]
                ELSE turn' = [turn EXCEPT !.pc = "log"]
  /\ UNCHANGED <<world, svc, net>>

\* The marker may not be written: then the profile is looked at again.
ProfileMarks ==
  /\ At("mark")
  /\ \E written \in BOOLEAN : svc' = [svc EXCEPT !.marker = written]
  /\ ProfileOver
  /\ UNCHANGED <<world, net>>

\* The engine's log: the encoder it found, and whether it could capture
\* sound when it last tried.
ReadLog ==
  /\ At("log")
  /\ IF Every(Slower) \/ ~svc.encoder
     THEN turn' = [turn EXCEPT !.pc = "store", !.encoder = turn.install,
                               !.silent = turn.install /\ ~world.sound]
     ELSE turn' = [turn EXCEPT !.pc = "store", !.encoder = svc.encoder, !.silent = svc.silent]
  /\ UNCHANGED <<world, svc, net>>

Store ==
  /\ At("store")
  /\ svc' = [svc EXCEPT !.running = turn.running, !.api = turn.api,
                        !.encoder = turn.encoder, !.silent = turn.silent]
  /\ turn' = [turn EXCEPT !.pc = "care"]
  /\ UNCHANGED <<world, net>>

Sleep ==
  /\ turn' = [pc |-> "look", creds |-> FALSE, install |-> FALSE, running |-> FALSE,
              api |-> FALSE, encoder |-> FALSE, silent |-> FALSE]
  /\ svc' = [svc EXCEPT !.tick = (@ + 1) % (Slower * NetTicks)]

\* streamer::start and take_over_engine: the engine as the logged-on user
\* and a playback device as the default, or neither.
TakeOver ==
  \/ world' = [world EXCEPT !.up = TRUE, !.sound = TRUE]
  \/ UNCHANGED world

Needed == Every(Slow) /\ turn.install /\ (~world.up \/ svc.silent)

Care ==
  /\ At("care")
  /\ IF Needed THEN TakeOver ELSE UNCHANGED world
  /\ Sleep
  /\ UNCHANGED net

Refresh ==
  \/ Look \/ Login \/ ProfileAsks \/ ProfileReads \/ ProfileWrites \/ ProfileRestarts
  \/ ProfileWaits \/ ProfileMarks \/ ReadLog \/ Store \/ Care

Next == Breakdowns \/ Setup \/ SignsIn \/ AppStarts \/ AppEnds \/ NetcheckEnds \/ Refresh

\* A start, a write of the marker and a netcheck that succeed: tried again
\* and again, they do at last.
GoodStart == Care /\ world'.up /\ world'.sound /\ Needed
GoodMark == ProfileMarks /\ svc'.marker
GoodCheck == NetcheckEnds /\ net'.nat = net.sees

Spec == Init /\ [][Next]_vars

---------------------------------------------------------------------------
(* Properties. *)

TypeOK ==
  /\ svc.tick \in 0..(Slower * NetTicks - 1) /\ svc.apiAge \in 0..Slow
  /\ world.faults \in 0..MaxFaults /\ world.apps \in 0..MaxApps
  /\ world.app => world.up
  /\ net.nat \in Networks \cup {Unknown} /\ net.sees \in Networks \cup {Unknown}
  /\ turn.pc \in {"look", "login", "profile", "config", "write", "restart", "wait", "mark",
                  "log", "store", "care"}

\* The marker that stops the profile from being looked at is there only when
\* the engine has the profile, whatever ended or failed on the way
\* (stream-profile-v3).
MarkedMeansOurs == svc.marker => world.ours

\* A login that is shown as working worked within the last Slow refreshes,
\* unless host.toml loaded without the login within them: then nothing is
\* tried, and what was shown stays shown.
LoginIsRecent == At("look") /\ svc.api => svc.apiAge < Slow

\* What holds again and again: an engine that is installed comes back after
\* it has ended, and so does its sound; and one that Latch can log into has
\* the streaming profile, also if an app was running, or the engine died,
\* when it was its turn.
CaredFor ==
  world.installed =>
    world.up /\ world.sound /\ (world.login /\ world.creds => world.ours)

\* What holds in the end: the network that is reported is the network there
\* is, once it stays.
NatIsRight == world.tailscale => net.nat = world.network
=============================================================================
