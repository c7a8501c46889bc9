------------------------------ MODULE WakeTest ------------------------------
(***************************************************************************)
(* The test of Wake-on-LAN: the Mac sends its packets everywhere a wake    *)
(* would go, waits, and asks the service of the PC whether one came        *)
(* (core/wake.rs plan and send, client/src/session.rs wake_test,           *)
(* host/src/wake.rs listen and service.rs wake_packet).  Time passes in    *)
(* half seconds.                                                           *)
(***************************************************************************)
EXTENDS Naturals

CONSTANTS
  Networks,   \* where machines can be
  Settle,     \* the Mac's sleep before it asks (1.5 s)
  Limit,      \* host_status' limit (3 s)
  Fresh,      \* a packet of less than this age counts (5 whole seconds)
  MaxTests,   \* bound: tests in a behaviour
  MaxFaults   \* bound: lost packets, failed sockets, probes and answers

Tailnet == "tailnet"       \* Tailscale's own interface
Default == "default"       \* the default route
Old == Fresh               \* an age from Fresh on, or no packet yet

WakeAssumption ==
  /\ Tailnet \notin Networks
  /\ {Settle, Limit, Fresh, MaxTests, MaxFaults} \subseteq Nat
  /\ Settle # 0 /\ Settle + Limit < Fresh

VARIABLES
  mac,     \* the Mac: its interfaces, what it knows of the PC
  pc,      \* the PC: its network, its router, its service's view
  air,     \* packets under way that will reach the PC, by their test
  test,    \* the Mac's thread
  faults

vars == <<mac, pc, air, test, faults>>

Idle == [at |-> "idle", left |-> 0, n |-> 0, came |-> FALSE, clean |-> TRUE, result |-> "none"]

Init ==
  /\ mac \in [on : SUBSET (Networks \cup {Tailnet}), address : BOOLEAN, lan : BOOLEAN,
              public : BOOLEAN]
  /\ pc \in [at : Networks, forwards : BOOLEAN, adapter : BOOLEAN, seen : {Old}]
  /\ air = {} /\ test = Idle /\ faults = 0

Fault == faults < MaxFaults /\ faults' = faults + 1

-----------------------------------------------------------------------------
(* The Mac.                                                                *)

\* plan: each interface but Tailscale's, with its broadcasts and the PC's own
\* address, and the public address by the default route.
Plan ==
  LET own == mac.on \ {Tailnet}
      locals == IF own = {} THEN {Default} ELSE own
  IN (locals \X ({"broadcast"} \cup (IF mac.lan THEN {"address"} ELSE {})))
     \cup (IF mac.public THEN {<<Default, "public">>} ELSE {})

\* The PC hears what is sent on its network, and what its router forwards.
Heard(packet) == packet[1] = pc.at \/ (packet[2] = "public" /\ pc.forwards)

\* wake_only and send: without the adapter's address there is no packet; a
\* socket that cannot be bound is left out.
Send ==
  /\ test.at \in {"idle", "told"} /\ test.n < MaxTests
  /\ IF ~mac.address
     THEN /\ test' = [Idle EXCEPT !.at = "told", !.n = test.n + 1, !.result = "error"]
          /\ UNCHANGED <<air, faults>>
     ELSE \E lost \in SUBSET {p[1] : p \in Plan} :
          /\ IF lost = {} THEN UNCHANGED faults ELSE Fault
          /\ air' = IF \E p \in Plan : Heard(p) /\ p[1] \notin lost
                    THEN air \cup {test.n + 1} ELSE air
          /\ test' = [Idle EXCEPT !.at = "sleeps", !.left = Settle, !.n = test.n + 1,
                                  !.clean = lost = {} /\ pc.adapter]
  /\ UNCHANGED <<mac, pc>>

Ask ==
  /\ test.at = "sleeps" /\ test.left = 0
  /\ test' = [test EXCEPT !.at = "asks", !.left = Limit]
  /\ UNCHANGED <<mac, pc, air, faults>>

NoAnswer ==
  /\ test.at = "asks" /\ Fault
  /\ test' = [test EXCEPT !.at = "told", !.left = 0, !.result = "error"]
  /\ UNCHANGED <<mac, pc, air>>

-----------------------------------------------------------------------------
(* The PC, and the network between them.                                   *)

\* listen and wake_packet: a packet for the adapter the service knows of.
WakePacket(n) ==
  /\ n \in air /\ air' = air \ {n}
  /\ IF pc.adapter THEN /\ pc' = [pc EXCEPT !.seen = 0]
                        /\ test' = [test EXCEPT !.came = @ \/ n = test.n]
     ELSE UNCHANGED <<pc, test>>
  /\ UNCHANGED <<mac, faults>>

Lose(n) ==
  /\ n \in air /\ Fault /\ air' = air \ {n}
  /\ test' = [test EXCEPT !.clean = FALSE]
  /\ UNCHANGED <<mac, pc>>

\* wake::probe, once in a few refreshes: PowerShell may not answer.
Probe ==
  /\ \/ pc' = [pc EXCEPT !.adapter = TRUE] /\ UNCHANGED <<test, faults>>
     \/ /\ Fault /\ pc' = [pc EXCEPT !.adapter = FALSE]
        /\ test' = [test EXCEPT !.clean = FALSE]
  /\ UNCHANGED <<mac, air>>

\* The age in whole seconds that the status gives, and what the Mac makes of it.
Status ==
  /\ test.at = "asks"
  /\ test' = [test EXCEPT !.at = "told", !.left = 0,
                          !.result = IF pc.seen < Fresh THEN "received" ELSE "missed"]
  /\ UNCHANGED <<mac, pc, air, faults>>

\* A packet that is not lost comes while the Mac sleeps; a sleep and a limit
\* end when they are over.
Tick ==
  /\ test.at \in {"sleeps", "asks"} => test.left > 0
  /\ test.at = "sleeps" /\ test.left = 1 => test.n \notin air
  /\ test' = IF test.at \in {"sleeps", "asks"} THEN [test EXCEPT !.left = @ - 1] ELSE test
  /\ pc' = [pc EXCEPT !.seen = IF @ < Old THEN @ + 1 ELSE Old]
  /\ pc' # pc \/ test' # test
  /\ UNCHANGED <<mac, air, faults>>

Next == Send \/ Ask \/ NoAnswer \/ Probe \/ Status \/ Tick
        \/ \E n \in 1..MaxTests : WakePacket(n) \/ Lose(n)

Spec == Init /\ [][Next]_vars

-----------------------------------------------------------------------------
(* Every part holds values of its kind.                                    *)
TypeOK ==
  /\ pc.seen \in 0..Old /\ air \subseteq 1..MaxTests /\ faults \in 0..MaxFaults
  /\ test.at \in {"idle", "sleeps", "asks", "told"} /\ test.left \in 0..Settle + Limit
  /\ test.result \in {"none", "received", "missed", "error"}

(* wake_test: a packet of this test that the service took is not denied,   *)
(* however long the Mac slept and the status took.                         *)
CameIsTold == test.result = "missed" => ~test.came

(* plan and wake_test: if nothing fails, a PC on any network the Mac is on *)
(* is not said to be out of reach.                                         *)
SameNetworkIsReached ==
  test.clean /\ pc.at \in mac.on => test.result # "missed"
=============================================================================
