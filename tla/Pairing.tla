------------------------------ MODULE Pairing ------------------------------
(***************************************************************************)
(* How a Mac becomes known to a PC: the identity it keeps                  *)
(* (stream/src/identity.rs), the handshake (stream/src/nvhttp.rs), the PIN *)
(* that Latch on the PC types into the engine for it (submit_pin of        *)
(* client/src/session.rs, pin of host/src/service.rs, submit_pin of        *)
(* host/src/streamer.rs), and the certificate both sides then hold on to.  *)
(***************************************************************************)
EXTENDS Naturals

CONSTANTS
  Macs,
  MaxFaults,    \* lost answers, failures, kills, reinstalls, removals
  MaxTries      \* attempts to connect in a behaviour

PairingAssumption == MaxFaults \in Nat /\ MaxTries \in Nat

VARIABLES
  mac,      \* each Mac: its files, its attempt, the certificate it saved
  engine,   \* the engine: its certificate, the Macs it knows, its sessions
  pins,     \* where each Mac's PIN is: with Latch on the PC, or on the way
  past

vars == <<mac, engine, pins, past>>

None == "none"
NoSession == [at |-> None, pin |-> None]

Init ==
  /\ mac = [m \in Macs |-> [key |-> 0, crt |-> 0, known |-> 0, at |-> "idle", cert |-> 0,
                            der |-> 0, cancel |-> FALSE, result |-> None, disturbed |-> FALSE]]
  /\ engine = [cert |-> 1, paired |-> {}, session |-> [m \in Macs |-> NoSession]]
  /\ pins = [asked |-> {}, late |-> {}]
  /\ past = [faults |-> 0, tries |-> 0, ids |-> 0, met |-> {}]

At(m, step) == mac[m].at = step
Go(m, step) == mac' = [mac EXCEPT ![m].at = step]
Busy(m) == ~At(m, "idle")
Me(m) == <<m, mac[m].crt>>

\* A fault is one of MaxFaults, and the Macs it concerns may be delayed.
Fault(ms, changed) ==
  /\ past.faults < MaxFaults
  /\ past' = [past EXCEPT !.faults = @ + 1]
  /\ mac' = [m \in Macs |-> IF m \in ms THEN [changed[m] EXCEPT !.disturbed = TRUE] ELSE changed[m]]

NoPin(m) == pins' = [pins EXCEPT !.asked = @ \ {m}]

\* An attempt that has ended; its pairing, if there is one, is withdrawn.
Ended(m, result) ==
  [mac EXCEPT ![m].at = "idle", ![m].result = result, ![m].cert = 0, ![m].der = 0]

Withdrawn(m) == [engine EXCEPT !.session[m] = NoSession]

Fails(m) == mac' = Ended(m, "failed") /\ UNCHANGED past

---------------------------------------------------------------------------
(* The Mac's attempt. *)

\* Another Mac whose pairing, or what is left of it, can cross this one.
Crosses(y) == Busy(y) \/ engine.session[y].at = "waiting"

Start(m) ==
  /\ At(m, "idle") /\ past.tries < MaxTries
  /\ mac' = [x \in Macs |->
       IF x = m THEN [mac[m] EXCEPT !.at = "identity", !.cert = mac[m].known, !.result = None,
                                    !.cancel = FALSE,
                                    !.disturbed = pins.late # {} \/ \E y \in Macs \ {m} : Crosses(y)]
       ELSE [mac[x] EXCEPT !.disturbed = @ \/ Busy(x)]]
  /\ past' = [past EXCEPT !.tries = @ + 1]
  /\ UNCHANGED <<engine, pins>>

\* A pair that is not complete is made anew, the key first.
Create(m) ==
  /\ At(m, "identity") /\ (mac[m].key = 0 \/ mac[m].crt = 0)
  /\ past' = [past EXCEPT !.ids = @ + 1]
  /\ mac' = [mac EXCEPT ![m].key = past.ids + 1, ![m].at = "identity written"]
  /\ UNCHANGED <<engine, pins>>

CreateEnds(m) ==
  /\ At(m, "identity written")
  /\ mac' = [mac EXCEPT ![m].crt = mac[m].key, ![m].at = "info"]
  /\ UNCHANGED <<engine, pins, past>>

Load(m) ==
  /\ At(m, "identity") /\ mac[m].key # 0 /\ mac[m].crt # 0
  /\ Go(m, "info")
  /\ UNCHANGED <<engine, pins, past>>

\* The engine was installed again: what was saved of it is forgotten.
Mismatch(m) ==
  /\ At(m, "info") /\ mac[m].cert \notin {0, engine.cert}
  /\ mac' = [mac EXCEPT ![m].known = 0, ![m].cert = 0]
  /\ UNCHANGED <<engine, pins, past>>

\* serverinfo: without a certificate, or where the engine does not know ours
\* (401), the answer is the open one, which never says paired.
Info(m) ==
  /\ At(m, "info") /\ mac[m].cert \in {0, engine.cert}
  /\ IF mac[m].cert # 0 /\ Me(m) \in engine.paired THEN mac' = Ended(m, "ok") ELSE Go(m, "ask")
  /\ UNCHANGED <<engine, pins, past>>

\* The first request, which the engine holds until a PIN is entered there.
Ask(m) ==
  /\ At(m, "ask") /\ Go(m, "pin")
  /\ engine' = [engine EXCEPT !.session[m] = [at |-> "waiting", pin |-> None]]
  /\ UNCHANGED <<pins, past>>

SendPin(m) ==
  /\ At(m, "pin") /\ ~mac[m].cancel /\ m \notin pins.asked
  /\ pins' = [pins EXCEPT !.asked = @ \cup {m}]
  /\ UNCHANGED <<mac, engine, past>>

\* A cancel ends the sending, and so do 75 seconds, which pass only if
\* something kept the PIN from being taken.
PinOver(m) ==
  /\ At(m, "pin") /\ (mac[m].cancel \/ mac[m].disturbed)
  /\ Go(m, "answer") /\ NoPin(m)
  /\ UNCHANGED <<engine, past>>

Answer(m) ==
  /\ At(m, "answer") /\ ~mac[m].cancel /\ engine.session[m].at = "given"
  /\ mac' = [mac EXCEPT ![m].der = engine.cert, ![m].at = "challenge"]
  /\ UNCHANGED <<engine, pins, past>>

\* The first request is aborted, refused, or not answered in 90 seconds.
NoAnswer(m) ==
  /\ At(m, "answer")
  /\ IF mac[m].cancel THEN mac' = Ended(m, "cancelled")
     ELSE engine.session[m].at # "given" /\ mac' = Ended(m, "failed")
  /\ engine' = Withdrawn(m)
  /\ UNCHANGED <<pins, past>>

\* MUTANT: what the engine answered is not compared with what it has to be.
ChallengeUnchecked(m) ==
  /\ At(m, "challenge") /\ engine.session[m].at = "given"
  /\ Go(m, "secret")
  /\ UNCHANGED <<engine, pins, past>>

\* The challenge and the response: the engine's hash tells which PIN it has.
Challenge(m) ==
  /\ At(m, "challenge") /\ engine.session[m] = [at |-> "given", pin |-> m]
  /\ Go(m, "secret")
  /\ UNCHANGED <<engine, pins, past>>

ChallengeFails(m) ==
  /\ \/ At(m, "challenge") /\ engine.session[m] # [at |-> "given", pin |-> m]
     \/ At(m, "secret") /\ engine.session[m].at # "given"
     \/ At(m, "last") /\ (mac[m].der # engine.cert \/ Me(m) \notin engine.paired)
  /\ Fails(m)
  /\ engine' = Withdrawn(m)
  /\ UNCHANGED pins

\* The signed secret: the engine adds the Mac to those it knows.
Secret(m) ==
  /\ At(m, "secret") /\ engine.session[m].at = "given"
  /\ Go(m, "last")
  /\ engine' = [Withdrawn(m) EXCEPT !.paired = @ \cup {Me(m)}]
  /\ past' = [past EXCEPT !.met = @ \cup {<<m, mac[m].crt, engine.cert>>}]
  /\ UNCHANGED pins

\* The first request over TLS, to the engine with that certificate.
Last(m) ==
  /\ At(m, "last") /\ mac[m].der = engine.cert /\ Me(m) \in engine.paired
  /\ mac' = [mac EXCEPT ![m].cert = mac[m].der, ![m].at = "remember"]
  /\ UNCHANGED <<engine, pins, past>>

Remember(m) ==
  /\ At(m, "remember")
  /\ mac' = [mac EXCEPT ![m].known = mac[m].cert, ![m].at = "check"]
  /\ UNCHANGED <<engine, pins, past>>

Check(m) ==
  /\ At(m, "check")
  /\ mac' = Ended(m, IF mac[m].cert = engine.cert /\ Me(m) \in engine.paired THEN "ok" ELSE "failed")
  /\ UNCHANGED <<engine, pins, past>>

Cancel(m) ==
  /\ Busy(m) /\ ~mac[m].cancel
  /\ mac' = [mac EXCEPT ![m].cancel = TRUE]
  /\ UNCHANGED <<engine, pins, past>>

---------------------------------------------------------------------------
(* Latch on the PC, and its engine. *)

\* submit_pin: the PIN for one of the pairings the engine lists, or has; it
\* takes the first, whichever Mac asked for it.
Waiting == {w \in Macs : engine.session[w].at = "waiting"}

Given(m) ==
  \E w \in Waiting : engine' = [engine EXCEPT !.session[w] = [at |-> "given", pin |-> m]]

TakesPin(m) ==
  /\ m \in pins.asked /\ Given(m)
  /\ pins' = [pins EXCEPT !.asked = @ \ {m}]
  /\ mac' = [mac EXCEPT ![m].at = "answer"]
  /\ UNCHANGED past

RefusesPin(m) ==
  /\ m \in pins.asked /\ Waiting = {}
  /\ pins' = [pins EXCEPT !.asked = @ \ {m}]
  /\ UNCHANGED <<mac, engine, past>>

\* The Mac waits one second for the answer; the PIN may be taken after it.
AnswerLost(m) ==
  /\ m \in pins.asked
  /\ Fault({m}, mac)
  /\ pins' = [asked |-> pins.asked \ {m}, late |-> pins.late \cup {m}]
  /\ UNCHANGED engine

LateTaken(m) ==
  /\ m \in pins.late
  /\ Given(m) \/ (Waiting = {} /\ UNCHANGED engine)
  /\ pins' = [pins EXCEPT !.late = @ \ {m}]
  /\ UNCHANGED <<mac, past>>

\* The engine is installed again: a new certificate, and nobody paired.
Reinstall ==
  /\ Fault(Macs, mac)
  /\ engine' = [cert |-> engine.cert + 1, paired |-> {}, session |-> [m \in Macs |-> NoSession]]
  /\ UNCHANGED pins

\* The owner removes a Mac from the paired devices.
Unpair(m) ==
  /\ Me(m) \in engine.paired
  /\ Fault({m}, mac)
  /\ engine' = [engine EXCEPT !.paired = @ \ {Me(m)}]
  /\ UNCHANGED pins

Breaks(m) ==
  /\ Busy(m)
  /\ Fault({m}, Ended(m, "failed"))
  /\ NoPin(m)
  /\ engine' \in {engine, Withdrawn(m)}

\* Latch is killed on the Mac; the engine goes on waiting for its PIN.
Kill(m) ==
  /\ Busy(m)
  /\ Fault({m}, Ended(m, None))
  /\ NoPin(m)
  /\ UNCHANGED engine

Attempt(m) ==
  \/ Create(m) \/ CreateEnds(m) \/ Load(m) \/ Mismatch(m) \/ Info(m) \/ Ask(m) \/ SendPin(m)
  \/ PinOver(m) \/ Answer(m) \/ NoAnswer(m) \/ Challenge(m) \/ ChallengeFails(m) \/ Secret(m)
  \/ Last(m) \/ Remember(m) \/ Check(m) \/ TakesPin(m) \/ RefusesPin(m)

Next ==
  \/ Reinstall
  \/ \E m \in Macs :
       \/ Start(m) \/ Attempt(m) \/ Cancel(m) \/ LateTaken(m)
       \/ AnswerLost(m) \/ Unpair(m) \/ Breaks(m) \/ Kill(m)

Spec == Init /\ [][Next]_vars

---------------------------------------------------------------------------
(* Properties. *)

TypeOK ==
  /\ \A m \in Macs :
       /\ mac[m].result \in {None, "ok", "failed", "cancelled"}
       /\ mac[m].crt \in 0..past.ids /\ mac[m].key \in 0..past.ids
       /\ mac[m].known \in 0..engine.cert
       /\ engine.session[m].pin \in Macs \cup {None}
  /\ pins.asked \subseteq {m \in Macs : At(m, "pin")}

\* The key and the certificate belong together whenever they are used, and
\* a PC is never left with a Mac it no longer is: what was paired stays on
\* disk, whatever is killed when (identity.rs:25, "never rotated").
IdentityKept ==
  /\ \A m \in Macs : mac[m].at \notin {"idle", "identity", "identity written"} => mac[m].key = mac[m].crt
  /\ \A t \in past.met : mac[t[1]].crt = t[2]

\* The Mac proves who it is only to an engine that knows its PIN.
SecretAfterProof ==
  \A m \in Macs : At(m, "secret") /\ engine.session[m].at = "given" => engine.session[m].pin = m

\* The certificate a Mac has saved is of an engine that did add this Mac.
SavedMeansPaired ==
  \A m \in Macs : mac[m].known # 0 => <<m, mac[m].crt, mac[m].known>> \in past.met

\* An attempt that nothing disturbed ends well, from whatever an earlier one,
\* a reinstall or the owner has left behind.
UndisturbedSucceeds == \A m \in Macs : mac[m].result = "failed" => mac[m].disturbed

\* An attempt that ended well did so with an engine that knew the Mac then.
OkMeansPaired ==
  \A m \in Macs : mac[m].result # "ok" /\ mac'[m].result = "ok" => Me(m) \in engine.paired

\* What holds again and again: every attempt ends, also if an answer is lost
\* or the engine goes away.
AttemptOver(m) == At(m, "idle")

=============================================================================
