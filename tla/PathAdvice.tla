----------------------------- MODULE PathAdvice -----------------------------
(***************************************************************************)
(* What the Mac believes of the path to a PC and what it advises           *)
(* (client/src/path.rs, session.rs probe_peer and measure_path, and        *)
(* core/tailscale.rs Node::direct).  Tailscale is outside: packets go      *)
(* through the PC's home relay until a better path is found, and its home  *)
(* relay is reported whether or not packets go through it.                 *)
(***************************************************************************)
EXTENDS Naturals

CONSTANT MaxChanges   \* bound: changes of the route and of the two reports

AdviceAssumption == MaxChanges \in Nat

Unknown == "unknown"
Nats == [known : {TRUE}, udp : BOOLEAN, hard : BOOLEAN, portmap : BOOLEAN]
        \cup {[known |-> FALSE, udp |-> TRUE, hard |-> FALSE, portmap |-> FALSE]}
Routes == {"none", "derp", "peer relay", "direct"}

VARIABLES
  route,     \* what carries packets: "none" before any traffic
  node,      \* tailscale status of the peer: cur_addr, relay, peer_relay, active
  path,      \* Path: direct and peer_relay, as the machine list has it
  rtt,       \* one round trip: "none", "short", or "long" from 80 ms on
  pcNat, macNat,
  changes

vars == <<route, node, path, rtt, pcNat, macNat, changes>>

\* Tailscale's report of a route; an idle peer keeps its last direct address.
Reported(r, was) ==
  [cur |-> r = "direct" \/ (r = "none" /\ was.cur), relay |-> TRUE,
   peer |-> r = "peer relay", active |-> r # "none"]

Init ==
  /\ route = "none" /\ rtt = "none"
  /\ node = [cur |-> FALSE, relay |-> TRUE, peer |-> FALSE, active |-> FALSE]
  /\ path = [direct |-> Unknown, peer |-> FALSE]
  /\ pcNat \in Nats /\ macNat \in Nats /\ changes = 0

Change ==
  /\ changes < MaxChanges /\ changes' = changes + 1
  /\ \/ route' \in Routes /\ node' = Reported(route', node) /\ UNCHANGED <<pcNat, macNat>>
     \/ pcNat' \in Nats /\ UNCHANGED <<route, node, macNat>>
     \/ macNat' \in Nats /\ UNCHANGED <<route, node, pcNat>>
  /\ UNCHANGED <<path, rtt>>

\* Node::direct.
Direct ==
  IF node.cur THEN "yes" ELSE IF node.active \/ node.relay THEN "no" ELSE Unknown

\* probe_peer, once a scan.
Probe ==
  /\ path' = [direct |-> Direct, peer |-> node.peer]
  /\ rtt' \in {"none", "short", "long"}
  /\ UNCHANGED <<route, node, pcNat, macNat, changes>>

\* measure_path, before a stream; the round trip is the best of a few and of the one before.
MeasurePath ==
  /\ path' = [direct |-> IF Direct = Unknown THEN path.direct ELSE Direct, peer |-> node.peer]
  /\ rtt' \in (CASE rtt = "none" -> {"none", "short", "long"}
                 [] rtt = "short" -> {"short"} [] OTHER -> {"short", "long"})
  /\ UNCHANGED <<route, node, pcNat, macNat, changes>>

Next == Change \/ Probe \/ MeasurePath

Spec == Init /\ [][Next]_vars

-----------------------------------------------------------------------------
(* path_kind, Path::tone and explain.                                      *)

PathKind ==
  IF path.direct = "yes" THEN "direct" ELSE IF path.peer THEN "peer relay"
  ELSE IF path.direct = "no" THEN "derp" ELSE Unknown

PathTone ==
  IF PathKind = "derp" THEN "warning"
  ELSE IF PathKind = "direct" /\ rtt # "long" THEN "success" ELSE "neutral"

\* A router that lets nobody in first.
Hard(n) == n.known /\ n.hard /\ ~n.portmap

\* The obstacles that explain names; none where the networks look easy or are not known.
Causes ==
  IF pcNat.known /\ ~pcNat.udp THEN {"pc blocks UDP"}
  ELSE IF macNat.known /\ ~macNat.udp THEN {"mac blocks UDP"}
  ELSE IF pcNat.known /\ Hard(pcNat)
    THEN {"pc hard"} \cup (IF Hard(macNat) THEN {"mac hard"} ELSE {})
  ELSE IF Hard(macNat) THEN {"mac hard"} ELSE {}

Explain == IF PathKind \in {"peer relay", "derp"} THEN Causes ELSE {}

-----------------------------------------------------------------------------
(* explain (path.rs:101): when a relayed path has a known obstacle, the    *)
(* advice names one, and what it names is there; a direct path, or one     *)
(* that is not known, is not explained.                                    *)
AdviceIsTrue ==
  LET Is(c) == CASE c = "pc blocks UDP" -> pcNat.known /\ ~pcNat.udp
                 [] c = "mac blocks UDP" -> macNat.known /\ ~macNat.udp
                 [] c = "pc hard" -> Hard(pcNat)
                 [] OTHER -> Hard(macNat)
      All == {"pc blocks UDP", "mac blocks UDP", "pc hard", "mac hard"}
  IN /\ \A c \in Explain : Is(c)
     /\ PathKind \in {"peer relay", "derp"} /\ (\E c \in All : Is(c)) => Explain # {}

(* path.rs:74: "A DERP detour is the one thing worth a warning", and no    *)
(* detour through a relay is shown as good.  After a scan of a peer whose  *)
(* traffic flows the tone is that of the route in use.                     *)
DetoursAreShown ==
  (Probe \/ MeasurePath) /\ route # "none" =>
    (PathTone' = "warning" <=> route = "derp") /\ (PathTone' = "success" => route = "direct")

=============================================================================
