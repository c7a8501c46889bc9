----------------------------- MODULE PartsProofs -----------------------------
(***************************************************************************)
(* TrafficParts puts several parts into one run, each with bounds of its   *)
(* own.  What is proved of a part, for any bounds, holds of that run: here *)
(* the invariants of the run, and what no step of it does.                 *)
(*                                                                         *)
(* A part is an instance of its module in TrafficParts.  Pairing, pictures,*)
(* sound, the black picture, the path and held keys are proved about those *)
(* instances.  Of the others it is proved in their own proof modules, which*)
(* are instances here, at the end, with the same substitution.  To the     *)
(* prover these have different operators; the lemmas called Same... say,   *)
(* by expanding both, that they are equal.  An operator whose expansion is *)
(* large has a lemma of its own, which those above it cite.                *)
(***************************************************************************)
EXTENDS TrafficParts, FiniteSetTheorems, SequenceTheorems, WellFoundedInduction, TLAPS

-----------------------------------------------------------------------------
(* Pairing.                                                                *)

\* Pairing's variables.
mac == v1
engine == v2
pins == v3
past == v4
USE DEF mac, engine, pins, past

(***************************************************************************)
(* Proofs about Pairing, for any Macs, attempts and faults.                *)
(*                                                                         *)
(* A Mac, the engine and Latch on the PC each know part of a pairing, and  *)
(* any of them can lose its part at any time.  The invariant says of each  *)
(* step of an attempt what the others have done by then: for every attempt *)
(* (IdInv, KnownInv, SecretInv), and more for one that nothing disturbed   *)
(* (CleanInv).                                                             *)
(***************************************************************************)

Steps == {"idle", "identity", "identity written", "info", "ask", "pin", "answer", "challenge",
          "secret", "last", "remember", "check"}
Results == {Pair!None, "ok", "failed", "cancelled"}
MacRecords == [key : Nat, crt : Nat, known : Nat, at : Steps, cert : Nat, der : Nat,
               cancel : BOOLEAN, result : Results, disturbed : BOOLEAN]
SessionRecords == [at : {Pair!None, "waiting", "given"}, pin : Macs \cup {Pair!None}]
EngineRecords == [cert : Nat, paired : SUBSET (Macs \X Nat), session : [Macs -> SessionRecords]]
PinRecords == [asked : SUBSET Macs, late : SUBSET Macs]
PastRecords == [faults : Nat, tries : Nat, ids : Nat, met : SUBSET (Macs \X Nat \X Nat)]

PairTypes ==
  /\ mac \in [Macs -> MacRecords] /\ engine \in EngineRecords
  /\ pins \in PinRecords /\ past \in PastRecords

Session(m) == engine.session[m]
GivenTo(m) == [at |-> "given", pin |-> m]
Met(m, cert) == <<m, mac[m].crt, cert>> \in past.met

\* The certificate follows the key, and is not made anew once it is there.
IdInv(m) ==
  /\ mac[m].key <= past.ids
  /\ mac[m].crt \in {0, mac[m].key}
  /\ Pair!At(m, "identity written") => mac[m].key # 0 /\ mac[m].crt = 0
  /\ mac[m].at \notin {"idle", "identity", "identity written"} => mac[m].crt # 0

\* What a Mac takes an engine's certificate to be is one that met it.
KnownInv(m) ==
  /\ mac[m].known <= engine.cert /\ mac[m].cert <= engine.cert /\ mac[m].der <= engine.cert
  /\ mac[m].known # 0 => Met(m, mac[m].known)
  /\ mac[m].at \in {"remember", "check"} => Met(m, mac[m].cert)

\* Past the challenge the pairing has the Mac's own PIN or is gone.
SecretInv(m) == Pair!At(m, "secret") => Session(m) \in {Pair!NoSession, GivenTo(m)}

\* What an attempt that nothing disturbed can rely on.
Alone(m) == pins.late = {} /\ \A y \in Macs \ {m} : ~Pair!Crosses(y)
Reliable(m) ==
  /\ (Pair!At(m, "answer") /\ ~mac[m].cancel) \/ mac[m].at \in {"challenge", "secret"} =>
       Session(m) = GivenTo(m)
  /\ mac[m].at \in {"challenge", "secret", "last"} => mac[m].der = engine.cert
  /\ mac[m].at \in {"remember", "check"} => mac[m].cert = engine.cert
  /\ mac[m].at \in {"last", "remember", "check"} => Pair!Me(m) \in engine.paired
CleanInv(m) == Pair!Busy(m) /\ ~mac[m].disturbed => Alone(m) /\ Reliable(m)

\* The result is that of the attempt that is over.
ResultInv(m) ==
  /\ Pair!Busy(m) => mac[m].result = Pair!None
  /\ mac[m].result = "failed" => mac[m].disturbed

MacInv(m) == IdInv(m) /\ KnownInv(m) /\ SecretInv(m) /\ CleanInv(m) /\ ResultInv(m)

\* Who met is still who he was, and who is paired has met.
MetInv == \A t \in past.met : mac[t[1]].crt = t[2] /\ t[2] # 0 /\ t[3] \in 0..engine.cert
PairedInv == \A t \in engine.paired : <<t[1], t[2], engine.cert>> \in past.met
PinInv == \A m \in pins.asked : Pair!At(m, "pin")

PairInv == PairTypes /\ MetInv /\ PairedInv /\ PinInv /\ \A m \in Macs : MacInv(m)

LEMMA PairInit == Pair!PairingAssumption /\ Pair!Init => PairInv
<1> SUFFICES ASSUME Pair!Init PROVE PairInv
  OBVIOUS
<1>1. Pair!NoSession \in SessionRecords
  BY DEF Pair!NoSession, SessionRecords
<1>2. mac \in [Macs -> MacRecords]
  <2>1. [key |-> 0, crt |-> 0, known |-> 0, at |-> "idle", cert |-> 0,
         der |-> 0, cancel |-> FALSE, result |-> Pair!None, disturbed |-> FALSE] \in MacRecords
    BY DEF MacRecords, Steps, Results
  <2>2. QED
    BY <2>1 DEF Pair!Init
<1>3. engine \in EngineRecords /\ pins \in PinRecords /\ past \in PastRecords
  BY <1>1 DEF Pair!Init, EngineRecords, PinRecords, PastRecords
<1>4. MetInv /\ PairedInv /\ PinInv
  BY DEF Pair!Init, MetInv, PairedInv, PinInv
<1>5. \A m \in Macs : MacInv(m)
  <2> SUFFICES ASSUME NEW m \in Macs PROVE MacInv(m)
    OBVIOUS
  <2>1. /\ mac[m].key = 0 /\ mac[m].crt = 0 /\ mac[m].known = 0 /\ mac[m].at = "idle"
        /\ mac[m].cert = 0 /\ mac[m].der = 0 /\ mac[m].result = "none"
        /\ past.ids = 0 /\ engine.cert = 1
    BY DEF Pair!Init, Pair!None
  <2>2. IdInv(m)
    BY <2>1 DEF IdInv, Pair!At
  <2>3. KnownInv(m)
    BY <2>1 DEF KnownInv
  <2>4. SecretInv(m) /\ CleanInv(m) /\ ResultInv(m)
    BY <2>1 DEF SecretInv, CleanInv, ResultInv, Pair!At, Pair!Busy
  <2>5. QED
    BY <2>2, <2>3, <2>4 DEF MacInv
<1>6. QED
  BY <1>2, <1>3, <1>4, <1>5 DEF PairInv, PairTypes

-----------------------------------------------------------------------------
(* What the steps of an attempt have in common.                            *)

\* A step of an attempt disturbs no invariant of another Mac: any other that
\* is under way is disturbed already.
LEMMA OthersKeep ==
  ASSUME PairInv, NEW m \in Macs, Pair!Busy(m),
         \A x \in Macs \ {m} :
           mac'[x] = mac[x] /\ (Session(x)' = Session(x) \/ Session(x).at = "waiting"),
         engine'.cert = engine.cert, past.met \subseteq past'.met, past'.ids >= past.ids,
         past' \in PastRecords
  PROVE  \A x \in Macs \ {m} : MacInv(x)'
<1> SUFFICES ASSUME NEW x \in Macs, x # m PROVE MacInv(x)'
  OBVIOUS
<1>1. mac[x] \in MacRecords /\ mac'[x] = mac[x] /\ MacInv(x) /\ past \in PastRecords
  BY DEF PairInv, PairTypes
<1>2. IdInv(x)'
  <2>1. mac[x].key \in Nat /\ past.ids \in Nat /\ past'.ids \in Nat
    BY <1>1 DEF MacRecords, PastRecords
  <2>2. mac[x].key <= past'.ids
    <3>1. mac[x].key <= past.ids
      BY <1>1 DEF MacInv, IdInv
    <3>2. QED
      BY <2>1, <3>1
  <2>3. QED
    BY <1>1, <2>2 DEF MacInv, IdInv, Pair!At
<1>3. KnownInv(x)'
  BY <1>1 DEF MacInv, KnownInv, Met
<1>4. SecretInv(x)'
  BY <1>1 DEF MacInv, SecretInv, Pair!At, Pair!NoSession, GivenTo, Pair!None
<1>5. CleanInv(x)'
  <2>1. ~(Pair!Busy(x) /\ ~mac[x].disturbed)
    BY <1>1 DEF MacInv, CleanInv, Alone, Pair!Crosses
  <2>2. QED
    BY <1>1, <2>1 DEF CleanInv, Pair!Busy, Pair!At
<1>6. ResultInv(x)'
  BY <1>1 DEF MacInv, ResultInv, Pair!Busy, Pair!At
<1>7. QED
  BY <1>2, <1>3, <1>4, <1>5, <1>6 DEF MacInv

\* A step of m's attempt that makes it r, and leaves who has met whom alone.
LEMMA StepKeeps ==
  ASSUME PairInv, NEW m \in Macs, Pair!Busy(m),
         NEW r \in MacRecords, mac' = [mac EXCEPT ![m] = r], r.crt = mac[m].crt,
         engine' \in EngineRecords, engine'.cert = engine.cert,
         engine'.paired = engine.paired,
         \A x \in Macs \ {m} : Session(x)' = Session(x) \/ Session(x).at = "waiting",
         pins' \in PinRecords, pins'.asked \subseteq pins.asked \cup {m},
         m \in pins'.asked => r.at = "pin",
         past' \in PastRecords, past'.met = past.met, past'.ids >= past.ids,
         MacInv(m)'
  PROVE  PairInv'
<1>1. mac' \in [Macs -> MacRecords] /\ mac'[m] = r /\ \A x \in Macs \ {m} : mac'[x] = mac[x]
  BY DEF PairInv, PairTypes
<1>2. PairTypes'
  BY <1>1 DEF PairTypes
<1>3. MetInv' /\ PairedInv'
  <2>1. \A t \in past.met : t[1] \in Macs
    BY DEF PairInv, PairTypes, PastRecords
  <2>2. \A x \in Macs : mac'[x].crt = mac[x].crt
    BY <1>1
  <2>3. QED
    BY <2>1, <2>2 DEF PairInv, MetInv, PairedInv
<1>4. PinInv'
  BY <1>1 DEF PairInv, PairTypes, PinRecords, PinInv, Pair!At
<1>5. \A x \in Macs \ {m} : MacInv(x)'
  BY <1>1, OthersKeep
<1>6. QED
  BY <1>2, <1>3, <1>4, <1>5 DEF PairInv

\* An attempt ends, by itself or by a fault.
LEMMA EndKeeps ==
  ASSUME PairInv, NEW m \in Macs, Pair!Busy(m),
         NEW r \in MacRecords, mac' = [mac EXCEPT ![m] = r],
         r.key = mac[m].key, r.crt = mac[m].crt, r.known = mac[m].known,
         r.at = "idle", r.cert = 0, r.der = 0, r.result = "failed" => r.disturbed,
         engine' \in {engine, Pair!Withdrawn(m)},
         pins' \in PinRecords, pins'.asked \subseteq pins.asked \ {m},
         past' \in PastRecords, past'.met = past.met, past'.ids = past.ids
  PROVE  PairInv'
<1>1. /\ engine' \in EngineRecords /\ engine'.cert = engine.cert
      /\ engine'.paired = engine.paired
      /\ \A x \in Macs \ {m} : Session(x)' = Session(x)
  <2>1. engine \in EngineRecords /\ Pair!NoSession \in SessionRecords
    BY DEF PairInv, PairTypes, Pair!NoSession, SessionRecords
  <2>2. Pair!Withdrawn(m) \in EngineRecords /\ Pair!Withdrawn(m).cert = engine.cert
        /\ Pair!Withdrawn(m).paired = engine.paired
        /\ \A x \in Macs \ {m} : Pair!Withdrawn(m).session[x] = engine.session[x]
    BY <2>1 DEF Pair!Withdrawn, EngineRecords
  <2>3. QED
    BY <2>1, <2>2 DEF Session
<1>2. mac'[m] = r
  BY DEF PairInv, PairTypes
<1>3. MacInv(m)'
  <2>1. MacInv(m)
    BY DEF PairInv
  <2>2. IdInv(m)'
    BY <1>2, <2>1 DEF MacInv, IdInv, Pair!At
  <2>3. KnownInv(m)'
    <3>1. 0 <= engine.cert
      BY DEF PairInv, PairTypes, EngineRecords
    <3>2. QED
      BY <1>1, <1>2, <2>1, <3>1 DEF MacInv, KnownInv, Pair!At, Met
  <2>4. SecretInv(m)' /\ CleanInv(m)' /\ ResultInv(m)'
    BY <1>2 DEF SecretInv, CleanInv, ResultInv, Pair!At, Pair!Busy
  <2>5. QED
    BY <2>2, <2>3, <2>4 DEF MacInv
<1>4. QED
  <2>1. past'.ids >= past.ids /\ m \notin pins'.asked /\ pins'.asked \subseteq pins.asked \cup {m}
    BY DEF PastRecords
  <2>2. QED
    BY <1>1, <1>3, <2>1, StepKeeps

\* What is known of the Mac that takes a step.
LEMMA Here ==
  ASSUME PairInv, NEW m \in Macs
  PROVE  /\ mac[m] \in MacRecords /\ mac \in [Macs -> MacRecords]
         /\ IdInv(m) /\ KnownInv(m) /\ SecretInv(m) /\ CleanInv(m) /\ ResultInv(m)
         /\ engine \in EngineRecords /\ pins \in PinRecords /\ past \in PastRecords
BY DEF PairInv, PairTypes, MacInv

\* A step of m's attempt that goes on, with r for its record.
LEMMA OnKeeps ==
  ASSUME PairInv, NEW m \in Macs, Pair!Busy(m),
         NEW r \in MacRecords, mac' = [mac EXCEPT ![m] = r], r.crt = mac[m].crt,
         r.result = mac[m].result,
         engine' \in EngineRecords, engine'.cert = engine.cert,
         engine'.paired = engine.paired,
         \A x \in Macs \ {m} : Session(x)' = Session(x) \/ Session(x).at = "waiting",
         pins' \in PinRecords, pins'.asked \subseteq pins.asked \cup {m},
         m \in pins'.asked => r.at = "pin",
         past' \in PastRecords, past'.met = past.met, past'.ids >= past.ids,
         IdInv(m)', KnownInv(m)', SecretInv(m)',
         ~r.disturbed => ~mac[m].disturbed /\ pins'.late \subseteq pins.late /\ Reliable(m)'
  PROVE  PairInv'
<1>1. mac'[m] = r /\ \A x \in Macs \ {m} : mac'[x] = mac[x]
  BY DEF PairInv, PairTypes
<1>2. CleanInv(m)'
  <2> SUFFICES ASSUME ~r.disturbed PROVE Alone(m)' /\ Reliable(m)'
    BY <1>1 DEF CleanInv
  <2>1. Alone(m)
    BY Here DEF CleanInv
  <2>2. \A y \in Macs \ {m} : ~Pair!Crosses(y)'
    <3> SUFFICES ASSUME NEW y \in Macs \ {m} PROVE ~Pair!Crosses(y)'
      OBVIOUS
    <3>1. ~Pair!Busy(y) /\ Session(y).at # "waiting"
      BY <2>1 DEF Alone, Pair!Crosses, Session
    <3>2. Session(y)' = Session(y) /\ mac'[y] = mac[y]
      BY <1>1, <3>1
    <3>3. QED
      BY <3>1, <3>2 DEF Pair!Crosses, Pair!Busy, Pair!At, Session
  <2>3. QED
    BY <2>1, <2>2 DEF Alone
<1>3. ResultInv(m)'
  <2>1. mac[m].result = Pair!None
    BY Here DEF ResultInv
  <2>2. QED
    BY <1>1, <2>1 DEF ResultInv, Pair!Busy, Pair!At, Pair!None
<1>4. QED
  <2>1. MacInv(m)'
    BY <1>2, <1>3 DEF MacInv
  <2>2. QED
    BY <2>1, StepKeeps

-----------------------------------------------------------------------------
(* The steps of the Mac's own attempt.                                     *)

\* A step of m's attempt that changes nothing but its record.
LEMMA QuietKeeps ==
  ASSUME PairInv, NEW m \in Macs, Pair!Busy(m),
         NEW r \in MacRecords, mac' = [mac EXCEPT ![m] = r], r.crt = mac[m].crt,
         r.result = mac[m].result, UNCHANGED <<engine, pins, past>>,
         m \in pins.asked => r.at = "pin",
         IdInv(m)', KnownInv(m)', SecretInv(m)',
         ~r.disturbed => ~mac[m].disturbed /\ Reliable(m)'
  PROVE  PairInv'
<1>1. engine' = engine /\ pins' = pins /\ past' = past
  OBVIOUS
<1>2. \A x \in Macs \ {m} : Session(x)' = Session(x) \/ Session(x).at = "waiting"
  BY <1>1 DEF Session
<1>3. engine \in EngineRecords /\ pins \in PinRecords /\ past \in PastRecords
  BY Here
<1>4. past'.ids >= past.ids
  BY <1>1, <1>3 DEF PastRecords
<1>5. QED
  BY <1>1, <1>2, <1>3, <1>4, OnKeeps

\* The key and the certificate are read.
LEMMA LoadKeeps ==
  ASSUME PairInv, NEW m \in Macs, Pair!Load(m)
  PROVE  PairInv'
<1> DEFINE r == [mac[m] EXCEPT !.at = "info"]
<1>1. mac[m] \in MacRecords /\ engine.cert \in Nat
  BY Here DEF EngineRecords
<1>2. r \in MacRecords
  BY <1>1 DEF MacRecords, Steps
<1>3. mac' = [mac EXCEPT ![m] = r] /\ mac'[m] = r /\ Pair!Busy(m)
      /\ UNCHANGED <<engine, pins, past>>
  BY Here DEF Pair!Load, Pair!Go, Pair!At, Pair!Busy
<1>4. /\ r.key = mac[m].key /\ r.crt = mac[m].crt /\ r.known = mac[m].known /\ r.at = "info"
      /\ r.cert = mac[m].cert /\ r.der = mac[m].der /\ r.cancel = mac[m].cancel
      /\ r.result = mac[m].result /\ r.disturbed = mac[m].disturbed
  BY <1>1 DEF MacRecords
<1> HIDE DEF r
<1>5. IdInv(m)'
  BY <1>3, <1>4, Here DEF Pair!Load, IdInv, Pair!At, Pair!Busy
<1>6. KnownInv(m)'
  <2>1. r.known <= engine.cert /\ r.cert <= engine.cert /\ r.der <= engine.cert
    BY <1>1, <1>4, Here DEF KnownInv
  <2>2. QED
    BY <1>3, <1>4, <2>1, Here DEF Pair!Load, KnownInv, Met, Pair!At
<1>7. SecretInv(m)'
  BY <1>3, <1>4, Here DEF Pair!Load, SecretInv, Pair!At, Session, GivenTo
<1>8. m \in pins.asked => r.at = "pin"
  BY <1>4 DEF Pair!Load, PairInv, PinInv, Pair!At
<1>9. ~r.disturbed => ~mac[m].disturbed /\ Reliable(m)'
  BY <1>3, <1>4, Here
     DEF Pair!Load, CleanInv, Reliable, Session, GivenTo, Pair!Me, Pair!At, Pair!Busy
<1>10. QED
  BY <1>2, <1>3, <1>4, <1>5, <1>6, <1>7, <1>8, <1>9, QuietKeeps

\* What was saved of another engine is dropped.
LEMMA MismatchKeeps ==
  ASSUME PairInv, NEW m \in Macs, Pair!Mismatch(m)
  PROVE  PairInv'
<1> DEFINE r == [mac[m] EXCEPT !.known = 0, !.cert = 0]
<1>1. mac[m] \in MacRecords /\ engine.cert \in Nat
  BY Here DEF EngineRecords
<1>2. r \in MacRecords
  BY <1>1 DEF MacRecords, Steps
<1>3. mac' = [mac EXCEPT ![m] = r] /\ mac'[m] = r /\ Pair!Busy(m)
      /\ UNCHANGED <<engine, pins, past>>
  BY Here DEF Pair!Mismatch, Pair!Go, Pair!At, Pair!Busy
<1>4. /\ r.key = mac[m].key /\ r.crt = mac[m].crt /\ r.known = 0 /\ r.at = mac[m].at
      /\ r.cert = 0 /\ r.der = mac[m].der /\ r.cancel = mac[m].cancel /\ r.result = mac[m].result
      /\ r.disturbed = mac[m].disturbed
  BY <1>1 DEF MacRecords
<1> HIDE DEF r
<1>5. IdInv(m)'
  BY <1>3, <1>4, Here DEF Pair!Mismatch, IdInv, Pair!At, Pair!Busy
<1>6. KnownInv(m)'
  <2>1. r.known <= engine.cert /\ r.cert <= engine.cert /\ r.der <= engine.cert
    BY <1>1, <1>4, Here DEF KnownInv
  <2>2. QED
    BY <1>3, <1>4, <2>1, Here DEF Pair!Mismatch, KnownInv, Met, Pair!At
<1>7. SecretInv(m)'
  BY <1>3, <1>4, Here DEF Pair!Mismatch, SecretInv, Pair!At, Session, GivenTo
<1>8. m \in pins.asked => r.at = "pin"
  BY <1>4 DEF Pair!Mismatch, PairInv, PinInv, Pair!At
<1>9. ~r.disturbed => ~mac[m].disturbed /\ Reliable(m)'
  BY <1>3, <1>4, Here
     DEF Pair!Mismatch, CleanInv, Reliable, Session, GivenTo, Pair!Me, Pair!At, Pair!Busy
<1>10. QED
  BY <1>2, <1>3, <1>4, <1>5, <1>6, <1>7, <1>8, <1>9, QuietKeeps

\* The engine answers with its certificate.
LEMMA AnswerKeeps ==
  ASSUME PairInv, NEW m \in Macs, Pair!Answer(m)
  PROVE  PairInv'
<1> DEFINE r == [mac[m] EXCEPT !.der = engine.cert, !.at = "challenge"]
<1>1. mac[m] \in MacRecords /\ engine.cert \in Nat
  BY Here DEF EngineRecords
<1>2. r \in MacRecords
  BY <1>1 DEF MacRecords, Steps
<1>3. mac' = [mac EXCEPT ![m] = r] /\ mac'[m] = r /\ Pair!Busy(m)
      /\ UNCHANGED <<engine, pins, past>>
  BY Here DEF Pair!Answer, Pair!Go, Pair!At, Pair!Busy
<1>4. /\ r.key = mac[m].key /\ r.crt = mac[m].crt /\ r.known = mac[m].known /\ r.at = "challenge"
      /\ r.cert = mac[m].cert /\ r.der = engine.cert /\ r.cancel = mac[m].cancel
      /\ r.result = mac[m].result /\ r.disturbed = mac[m].disturbed
  BY <1>1 DEF MacRecords
<1> HIDE DEF r
<1>5. IdInv(m)'
  BY <1>3, <1>4, Here, SMTT(40), ZenonT(60) DEF Pair!Answer, IdInv, Pair!At, Pair!Busy
<1>6. KnownInv(m)'
  <2>1. r.known <= engine.cert /\ r.cert <= engine.cert /\ r.der <= engine.cert
    BY <1>1, <1>4, Here DEF KnownInv
  <2>2. QED
    BY <1>3, <1>4, <2>1, Here DEF Pair!Answer, KnownInv, Met, Pair!At
<1>7. SecretInv(m)'
  BY <1>3, <1>4, Here DEF Pair!Answer, SecretInv, Pair!At, Session, GivenTo
<1>8. m \in pins.asked => r.at = "pin"
  BY <1>4 DEF Pair!Answer, PairInv, PinInv, Pair!At
<1>9. ~r.disturbed => ~mac[m].disturbed /\ Reliable(m)'
  BY <1>3, <1>4, Here, SMTT(40), ZenonT(60)
     DEF Pair!Answer, CleanInv, Reliable, Session, GivenTo, Pair!Me, Pair!At, Pair!Busy
<1>10. QED
  BY <1>2, <1>3, <1>4, <1>5, <1>6, <1>7, <1>8, <1>9, QuietKeeps

\* The engine has shown that it has this Mac's PIN.
LEMMA ChallengeKeeps ==
  ASSUME PairInv, NEW m \in Macs, Pair!Challenge(m)
  PROVE  PairInv'
<1> DEFINE r == [mac[m] EXCEPT !.at = "secret"]
<1>1. mac[m] \in MacRecords /\ engine.cert \in Nat
  BY Here DEF EngineRecords
<1>2. r \in MacRecords
  BY <1>1 DEF MacRecords, Steps
<1>3. mac' = [mac EXCEPT ![m] = r] /\ mac'[m] = r /\ Pair!Busy(m)
      /\ UNCHANGED <<engine, pins, past>>
  BY Here DEF Pair!Challenge, Pair!Go, Pair!At, Pair!Busy
<1>4. /\ r.key = mac[m].key /\ r.crt = mac[m].crt /\ r.known = mac[m].known /\ r.at = "secret"
      /\ r.cert = mac[m].cert /\ r.der = mac[m].der /\ r.cancel = mac[m].cancel
      /\ r.result = mac[m].result /\ r.disturbed = mac[m].disturbed
  BY <1>1 DEF MacRecords
<1> HIDE DEF r
<1>5. IdInv(m)'
  BY <1>3, <1>4, Here DEF Pair!Challenge, IdInv, Pair!At, Pair!Busy
<1>6. KnownInv(m)'
  <2>1. r.known <= engine.cert /\ r.cert <= engine.cert /\ r.der <= engine.cert
    BY <1>1, <1>4, Here DEF KnownInv
  <2>2. QED
    BY <1>3, <1>4, <2>1, Here DEF Pair!Challenge, KnownInv, Met, Pair!At
<1>7. SecretInv(m)'
  BY <1>3, <1>4, Here DEF Pair!Challenge, SecretInv, Pair!At, Session, GivenTo
<1>8. m \in pins.asked => r.at = "pin"
  BY <1>4 DEF Pair!Challenge, PairInv, PinInv, Pair!At
<1>9. ~r.disturbed => ~mac[m].disturbed /\ Reliable(m)'
  BY <1>3, <1>4, Here
     DEF Pair!Challenge, CleanInv, Reliable, Session, GivenTo, Pair!Me, Pair!At, Pair!Busy
<1>10. QED
  BY <1>2, <1>3, <1>4, <1>5, <1>6, <1>7, <1>8, <1>9, QuietKeeps

\* The engine answers over TLS: it has added this Mac.
LEMMA LastKeeps ==
  ASSUME PairInv, NEW m \in Macs, Pair!Last(m)
  PROVE  PairInv'
<1> DEFINE r == [mac[m] EXCEPT !.cert = mac[m].der, !.at = "remember"]
<1>1. mac[m] \in MacRecords /\ engine.cert \in Nat
  BY Here DEF EngineRecords
<1>2. r \in MacRecords
  BY <1>1 DEF MacRecords, Steps
<1>3. mac' = [mac EXCEPT ![m] = r] /\ mac'[m] = r /\ Pair!Busy(m)
      /\ UNCHANGED <<engine, pins, past>>
  BY Here DEF Pair!Last, Pair!Go, Pair!At, Pair!Busy
<1>4. /\ r.key = mac[m].key /\ r.crt = mac[m].crt /\ r.known = mac[m].known /\ r.at = "remember"
      /\ r.cert = mac[m].der /\ r.der = mac[m].der /\ r.cancel = mac[m].cancel
      /\ r.result = mac[m].result /\ r.disturbed = mac[m].disturbed
  BY <1>1 DEF MacRecords
<1> HIDE DEF r
<1>5. IdInv(m)'
  BY <1>3, <1>4, Here DEF Pair!Last, IdInv, Pair!At, Pair!Busy
<1>6. KnownInv(m)'
  <2>1. r.known <= engine.cert /\ r.cert <= engine.cert /\ r.der <= engine.cert
    BY <1>1, <1>4, Here DEF KnownInv
  <2>2. Met(m, mac[m].der)
    BY DEF Pair!Last, Pair!Me, Met, PairInv, PairedInv
  <2>3. QED
    BY <1>3, <1>4, <2>1, <2>2, Here DEF KnownInv, Met
<1>7. SecretInv(m)'
  BY <1>3, <1>4, Here DEF Pair!Last, SecretInv, Pair!At, Session, GivenTo
<1>8. m \in pins.asked => r.at = "pin"
  BY <1>4 DEF Pair!Last, PairInv, PinInv, Pair!At
<1>9. ~r.disturbed => ~mac[m].disturbed /\ Reliable(m)'
  BY <1>3, <1>4, Here
     DEF Pair!Last, CleanInv, Reliable, Session, GivenTo, Pair!Me, Pair!At, Pair!Busy
<1>10. QED
  BY <1>2, <1>3, <1>4, <1>5, <1>6, <1>7, <1>8, <1>9, QuietKeeps

\* The certificate is saved.
LEMMA RememberKeeps ==
  ASSUME PairInv, NEW m \in Macs, Pair!Remember(m)
  PROVE  PairInv'
<1> DEFINE r == [mac[m] EXCEPT !.known = mac[m].cert, !.at = "check"]
<1>1. mac[m] \in MacRecords /\ engine.cert \in Nat
  BY Here DEF EngineRecords
<1>2. r \in MacRecords
  BY <1>1 DEF MacRecords, Steps
<1>3. mac' = [mac EXCEPT ![m] = r] /\ mac'[m] = r /\ Pair!Busy(m)
      /\ UNCHANGED <<engine, pins, past>>
  BY Here DEF Pair!Remember, Pair!Go, Pair!At, Pair!Busy
<1>4. /\ r.key = mac[m].key /\ r.crt = mac[m].crt /\ r.known = mac[m].cert /\ r.at = "check"
      /\ r.cert = mac[m].cert /\ r.der = mac[m].der /\ r.cancel = mac[m].cancel
      /\ r.result = mac[m].result /\ r.disturbed = mac[m].disturbed
  BY <1>1 DEF MacRecords
<1> HIDE DEF r
<1>5. IdInv(m)'
  BY <1>3, <1>4, Here DEF Pair!Remember, IdInv, Pair!At, Pair!Busy
<1>6. KnownInv(m)'
  <2>1. r.known <= engine.cert /\ r.cert <= engine.cert /\ r.der <= engine.cert
    BY <1>1, <1>4, Here DEF KnownInv
  <2>2. QED
    BY <1>3, <1>4, <2>1, Here DEF Pair!Remember, KnownInv, Met, Pair!At
<1>7. SecretInv(m)'
  BY <1>3, <1>4, Here DEF Pair!Remember, SecretInv, Pair!At, Session, GivenTo
<1>8. m \in pins.asked => r.at = "pin"
  BY <1>4 DEF Pair!Remember, PairInv, PinInv, Pair!At
<1>9. ~r.disturbed => ~mac[m].disturbed /\ Reliable(m)'
  BY <1>3, <1>4, Here
     DEF Pair!Remember, CleanInv, Reliable, Session, GivenTo, Pair!Me, Pair!At, Pair!Busy
<1>10. QED
  BY <1>2, <1>3, <1>4, <1>5, <1>6, <1>7, <1>8, <1>9, QuietKeeps

\* The user cancels.
LEMMA CancelKeeps ==
  ASSUME PairInv, NEW m \in Macs, Pair!Cancel(m)
  PROVE  PairInv'
<1> DEFINE r == [mac[m] EXCEPT !.cancel = TRUE]
<1>1. mac[m] \in MacRecords /\ engine.cert \in Nat
  BY Here DEF EngineRecords
<1>2. r \in MacRecords
  BY <1>1 DEF MacRecords, Steps
<1>3. mac' = [mac EXCEPT ![m] = r] /\ mac'[m] = r /\ Pair!Busy(m)
      /\ UNCHANGED <<engine, pins, past>>
  BY Here DEF Pair!Cancel, Pair!Go, Pair!At, Pair!Busy
<1>4. /\ r.key = mac[m].key /\ r.crt = mac[m].crt /\ r.known = mac[m].known /\ r.at = mac[m].at
      /\ r.cert = mac[m].cert /\ r.der = mac[m].der /\ r.cancel = TRUE
      /\ r.result = mac[m].result /\ r.disturbed = mac[m].disturbed
  BY <1>1 DEF MacRecords
<1> HIDE DEF r
<1>5. IdInv(m)'
  BY <1>3, <1>4, Here, SMTT(40), ZenonT(60) DEF Pair!Cancel, IdInv, Pair!At, Pair!Busy
<1>6. KnownInv(m)'
  <2>1. r.known <= engine.cert /\ r.cert <= engine.cert /\ r.der <= engine.cert
    BY <1>1, <1>4, Here DEF KnownInv
  <2>2. QED
    BY <1>3, <1>4, <2>1, Here DEF Pair!Cancel, KnownInv, Met, Pair!At
<1>7. SecretInv(m)'
  BY <1>3, <1>4, Here DEF Pair!Cancel, SecretInv, Pair!At, Session, GivenTo
<1>8. m \in pins.asked => r.at = "pin"
  BY <1>4 DEF Pair!Cancel, PairInv, PinInv, Pair!At
<1>9. ~r.disturbed => ~mac[m].disturbed /\ Reliable(m)'
  BY <1>3, <1>4, Here
     DEF Pair!Cancel, CleanInv, Reliable, Session, GivenTo, Pair!Me, Pair!At, Pair!Busy
<1>10. QED
  BY <1>2, <1>3, <1>4, <1>5, <1>6, <1>7, <1>8, <1>9, QuietKeeps

LEMMA EndsKeep ==
  ASSUME PairInv, NEW m \in Macs, Pair!Busy(m), NEW result \in Results,
         mac' = Pair!Ended(m, result), result = "failed" => mac[m].disturbed,
         engine' \in {engine, Pair!Withdrawn(m)}, m \notin pins.asked, UNCHANGED <<pins, past>>
  PROVE  PairInv'
<1> DEFINE r == [mac[m] EXCEPT !.at = "idle", !.result = result, !.cert = 0, !.der = 0]
<1>1. mac[m] \in MacRecords /\ mac \in [Macs -> MacRecords]
  BY Here
<1>2. r \in MacRecords /\ mac' = [mac EXCEPT ![m] = r]
  BY <1>1 DEF Pair!Ended, MacRecords, Steps
<1>3. /\ r.key = mac[m].key /\ r.crt = mac[m].crt /\ r.known = mac[m].known
      /\ r.at = "idle" /\ r.cert = 0 /\ r.der = 0
      /\ r.result = "failed" => r.disturbed
  BY <1>1 DEF MacRecords
<1>4. pins' \in PinRecords /\ pins'.asked \subseteq pins.asked \ {m}
      /\ past' \in PastRecords /\ past'.met = past.met /\ past'.ids = past.ids
  BY Here
<1> HIDE DEF r
<1>5. QED
  BY <1>2, <1>3, <1>4, EndKeeps

\* The pairing is given up, or was none: it fails only if it was disturbed.
LEMMA NoAnswerKeeps ==
  ASSUME PairInv, NEW m \in Macs, Pair!NoAnswer(m)
  PROVE  PairInv'
<1>1. Pair!Busy(m) /\ m \notin pins.asked /\ engine' \in {engine, Pair!Withdrawn(m)}
      /\ UNCHANGED <<pins, past>>
  BY DEF Pair!NoAnswer, Pair!At, Pair!Busy, PairInv, PinInv
<1>2. CASE mac[m].cancel
  <2>1. mac' = Pair!Ended(m, "cancelled")
    BY <1>2 DEF Pair!NoAnswer
  <2>2. QED
    BY <1>1, <2>1, EndsKeep DEF Results
<1>3. CASE ~mac[m].cancel
  <2>1. mac' = Pair!Ended(m, "failed") /\ engine.session[m].at # "given" /\ Pair!At(m, "answer")
    BY <1>3 DEF Pair!NoAnswer
  <2>2. mac[m].disturbed
    <3>1. mac[m].disturbed \/ Reliable(m)
      BY <1>1, Here DEF CleanInv
    <3>2. Reliable(m) => Session(m) = GivenTo(m)
      BY <1>3, <2>1 DEF Reliable
    <3>3. QED
      BY <2>1, <3>1, <3>2 DEF Session, GivenTo
  <2>3. QED
    BY <1>1, <2>1, <2>2, EndsKeep DEF Results
<1>4. QED
  BY <1>2, <1>3

LEMMA ChallengeFailsKeeps ==
  ASSUME PairInv, NEW m \in Macs, Pair!ChallengeFails(m)
  PROVE  PairInv'
<1>1. Pair!Busy(m) /\ m \notin pins.asked /\ engine' \in {engine, Pair!Withdrawn(m)}
      /\ UNCHANGED <<pins, past>> /\ mac' = Pair!Ended(m, "failed")
  BY DEF Pair!ChallengeFails, Pair!Fails, Pair!At, Pair!Busy, PairInv, PinInv
<1>2. mac[m].disturbed
  BY <1>1, Here DEF Pair!ChallengeFails, CleanInv, Reliable, Session, GivenTo, Pair!At
<1>3. QED
  BY <1>1, <1>2, EndsKeep DEF Results

LEMMA CheckKeeps ==
  ASSUME PairInv, NEW m \in Macs, Pair!Check(m)
  PROVE  PairInv'
<1>1. Pair!Busy(m) /\ m \notin pins.asked /\ engine' \in {engine, Pair!Withdrawn(m)}
      /\ UNCHANGED <<pins, past>>
  BY DEF Pair!Check, Pair!At, Pair!Busy, PairInv, PinInv
<1>2. CASE mac[m].cert = engine.cert /\ Pair!Me(m) \in engine.paired
  BY <1>1, <1>2, EndsKeep DEF Pair!Check, Results
<1>3. CASE ~(mac[m].cert = engine.cert /\ Pair!Me(m) \in engine.paired)
  <2>1. mac[m].disturbed
    BY <1>1, <1>3, Here DEF Pair!Check, CleanInv, Reliable, Pair!At
  <2>2. QED
    BY <1>1, <1>3, <2>1, EndsKeep DEF Pair!Check, Results
<1>4. QED
  BY <1>2, <1>3

\* A fault ends the attempt: the engine is gone, or Latch is killed.
LEMMA FaultEndKeeps ==
  ASSUME PairInv, NEW m \in Macs, Pair!Busy(m), NEW result \in Results,
         Pair!Fault({m}, Pair!Ended(m, result)), Pair!NoPin(m),
           engine' \in {engine, Pair!Withdrawn(m)}
  PROVE  PairInv'
<1> DEFINE r == [mac[m] EXCEPT !.at = "idle", !.result = result, !.cert = 0, !.der = 0,
                               !.disturbed = TRUE]
<1>1. mac[m] \in MacRecords /\ mac \in [Macs -> MacRecords] /\ past \in PastRecords
      /\ pins \in PinRecords
  BY Here
<1>2. r \in MacRecords
  BY <1>1 DEF MacRecords, Steps
<1>3. mac' = [mac EXCEPT ![m] = r]
  <2>1. Pair!Ended(m, result)[m] = [mac[m] EXCEPT !.at = "idle", !.result = result, !.cert = 0,
        !.der = 0]
        /\ \A x \in Macs \ {m} : Pair!Ended(m, result)[x] = mac[x]
    BY <1>1 DEF Pair!Ended
  <2>2. mac' = [x \in Macs |-> IF x \in {m}
        THEN [Pair!Ended(m, result)[x] EXCEPT !.disturbed = TRUE]
        ELSE Pair!Ended(m, result)[x]]
    BY DEF Pair!Fault
  <2>3. [Pair!Ended(m, result)[m] EXCEPT !.disturbed = TRUE] = r
    BY <1>1, <2>1 DEF MacRecords
  <2> HIDE DEF r
  <2>4. QED
    BY <1>1, <2>1, <2>2, <2>3
<1>4. /\ r.key = mac[m].key /\ r.crt = mac[m].crt /\ r.known = mac[m].known
      /\ r.at = "idle" /\ r.cert = 0 /\ r.der = 0 /\ r.disturbed
  BY <1>1 DEF MacRecords
<1>5. pins' \in PinRecords /\ pins'.asked \subseteq pins.asked \ {m}
  BY <1>1 DEF Pair!NoPin, PinRecords
<1>6. past' \in PastRecords /\ past'.met = past.met /\ past'.ids = past.ids
  BY <1>1 DEF Pair!Fault, PastRecords
<1> HIDE DEF r
<1>7. QED
  BY <1>2, <1>3, <1>4, <1>5, <1>6, EndKeeps

LEMMA BreaksKeeps ==
  ASSUME PairInv, NEW m \in Macs, Pair!Breaks(m) \/ Pair!Kill(m)
  PROVE  PairInv'
<1>1. CASE Pair!Breaks(m)
  BY <1>1, FaultEndKeeps DEF Pair!Breaks, Results
<1>2. CASE Pair!Kill(m)
  <2>1. Pair!None \in Results /\ engine' \in {engine, Pair!Withdrawn(m)}
    BY <1>2 DEF Pair!Kill, Results
  <2>2. QED
    BY <1>2, <2>1, FaultEndKeeps DEF Pair!Kill
<1>3. QED
  BY <1>1, <1>2

\* The open answer sends the Mac on to a pairing; the other one ends it well.
LEMMA InfoKeeps ==
  ASSUME PairInv, NEW m \in Macs, Pair!Info(m)
  PROVE  PairInv'
<1>1. mac[m] \in MacRecords /\ Pair!Busy(m) /\ m \notin pins.asked /\ mac[m].crt # 0
  BY Here DEF Pair!Info, Pair!At, Pair!Busy, PairInv, PinInv, IdInv
<1>2. CASE mac' = Pair!Ended(m, "ok")
  BY <1>1, <1>2, EndsKeep DEF Pair!Info, Results
<1>3. CASE Pair!Go(m, "ask")
  <2> DEFINE r == [mac[m] EXCEPT !.at = "ask"]
  <2>1. r \in MacRecords /\ mac' = [mac EXCEPT ![m] = r] /\ mac'[m] = r
    BY <1>1, <1>3, Here DEF Pair!Go, MacRecords, Steps
  <2>2. /\ r.key = mac[m].key /\ r.crt = mac[m].crt /\ r.known = mac[m].known /\ r.at = "ask"
        /\ r.cert = mac[m].cert /\ r.der = mac[m].der /\ r.result = mac[m].result
        /\ r.disturbed = mac[m].disturbed
    BY <1>1 DEF MacRecords
  <2>3. UNCHANGED <<engine, pins, past>>
    BY DEF Pair!Info
  <2> HIDE DEF r
  <2>4. IdInv(m)' /\ SecretInv(m)'
    BY <1>1, <2>1, <2>2, <2>3, Here DEF IdInv, SecretInv, Pair!At
  <2>5. KnownInv(m)'
    BY <2>1, <2>2, <2>3, Here DEF KnownInv, Met
  <2>6. ~r.disturbed => ~mac[m].disturbed /\ Reliable(m)'
    BY <2>1, <2>2 DEF Reliable, Pair!At
  <2>7. QED
    BY <1>1, <2>1, <2>2, <2>3, <2>4, <2>5, <2>6, QuietKeeps
<1>4. QED
  BY <1>2, <1>3 DEF Pair!Info

\* The key is made first; the certificate is not there yet.
LEMMA CreateKeeps ==
  ASSUME PairInv, NEW m \in Macs, Pair!Create(m)
  PROVE  PairInv'
<1> DEFINE r == [mac[m] EXCEPT !.key = past.ids + 1, !.at = "identity written"]
<1>1. /\ mac[m] \in MacRecords /\ past \in PastRecords /\ past.ids + 1 \in Nat
      /\ past.ids + 1 # 0 /\ past.ids + 1 <= past.ids + 1 /\ past.ids + 1 >= past.ids
      /\ Pair!Busy(m) /\ mac[m].crt = 0
  <2>1. mac[m] \in MacRecords /\ past \in PastRecords /\ IdInv(m)
    BY Here
  <2>2. mac[m].crt = 0
    BY <2>1 DEF Pair!Create, IdInv
  <2>3. past.ids \in Nat
    BY <2>1 DEF PastRecords
  <2>4. /\ past.ids + 1 \in Nat /\ past.ids + 1 # 0 /\ past.ids + 1 <= past.ids + 1
        /\ past.ids + 1 >= past.ids
    BY <2>3
  <2>5. Pair!Busy(m)
    BY DEF Pair!Create, Pair!At, Pair!Busy
  <2>6. QED
    BY <2>1, <2>2, <2>4, <2>5
<1>2. r \in MacRecords
  <2> DEFINE k == past.ids + 1
  <2>1. k \in Nat
    BY <1>1
  <2> HIDE DEF k
  <2>2. [mac[m] EXCEPT !.key = k, !.at = "identity written"] \in MacRecords
    BY <1>1, <2>1 DEF MacRecords, Steps
  <2>3. QED
    BY <2>2 DEF k
<1>3. mac' = [mac EXCEPT ![m] = r] /\ mac'[m] = r /\ engine' = engine /\ pins' = pins
  BY Here DEF Pair!Create
<1>4. /\ r.key = past.ids + 1 /\ r.crt = mac[m].crt /\ r.known = mac[m].known
      /\ r.at = "identity written" /\ r.cert = mac[m].cert /\ r.der = mac[m].der
      /\ r.result = mac[m].result /\ r.disturbed = mac[m].disturbed
  BY <1>1 DEF MacRecords
<1>5. /\ past' \in PastRecords /\ past'.met = past.met /\ past'.ids = past.ids + 1
      /\ past'.ids >= past.ids
  BY <1>1 DEF Pair!Create, PastRecords
<1>6. m \notin pins.asked
  BY DEF Pair!Create, PairInv, PinInv, Pair!At
<1> HIDE DEF r
<1>7. IdInv(m)'
  BY <1>1, <1>3, <1>4, <1>5 DEF IdInv, Pair!At
<1>8. KnownInv(m)' /\ SecretInv(m)'
  BY <1>3, <1>4, <1>5, Here DEF KnownInv, Met, SecretInv, Pair!At
<1>9. ~r.disturbed => ~mac[m].disturbed /\ Reliable(m)'
  BY <1>3, <1>4 DEF Reliable, Pair!At
<1>10. \A x \in Macs \ {m} : Session(x)' = Session(x)
  BY <1>3 DEF Session
<1>11. QED
  BY <1>1, <1>2, <1>3, <1>4, <1>5, <1>6, <1>7, <1>8, <1>9, <1>10, Here, OnKeeps

\* The certificate: whoever had none has met no engine.
LEMMA CreateEndsKeeps ==
  ASSUME PairInv, NEW m \in Macs, Pair!CreateEnds(m)
  PROVE  PairInv'
<1> DEFINE r == [mac[m] EXCEPT !.crt = mac[m].key, !.at = "info"]
<1>1. /\ mac[m] \in MacRecords /\ mac[m].key # 0 /\ mac[m].crt = 0 /\ Pair!Busy(m)
  BY Here DEF Pair!CreateEnds, IdInv, Pair!At, Pair!Busy
<1>2. r \in MacRecords
  BY <1>1 DEF MacRecords, Steps
<1>3. /\ mac' = [mac EXCEPT ![m] = r] /\ mac'[m] = r /\ UNCHANGED <<engine, pins, past>>
      /\ \A x \in Macs \ {m} : mac'[x] = mac[x]
      /\ mac' \in [Macs -> MacRecords]
  BY <1>2, Here DEF Pair!CreateEnds
<1>4. /\ r.key = mac[m].key /\ r.crt = mac[m].key /\ r.known = mac[m].known
      /\ r.at = "info" /\ r.cert = mac[m].cert /\ r.der = mac[m].der
      /\ r.result = mac[m].result /\ r.disturbed = mac[m].disturbed
  BY <1>1 DEF MacRecords
<1> HIDE DEF r
<1>5. \A t \in past.met : t[1] \in Macs /\ t[1] # m /\ t[2] # 0
  BY <1>1, Here DEF PairInv, MetInv, PastRecords
<1>6. MetInv' /\ PairedInv' /\ PinInv' /\ PairTypes'
  <2>1. MetInv'
    BY <1>3, <1>5 DEF PairInv, MetInv
  <2>2. PairedInv' /\ PairTypes'
    BY <1>3 DEF PairInv, PairedInv, PairTypes
  <2>3. PinInv'
    BY <1>1, <1>3, Here DEF PairInv, PinInv, Pair!CreateEnds, Pair!At, PinRecords
  <2>4. QED
    BY <2>1, <2>2, <2>3
<1>7. MacInv(m)'
  <2>1. mac[m].known = 0
    BY <1>1, <1>5, Here DEF KnownInv, Met
  <2>2. IdInv(m)' /\ KnownInv(m)' /\ SecretInv(m)'
    BY <1>1, <1>3, <1>4, <2>1, Here DEF IdInv, KnownInv, SecretInv, Pair!At
  <2>3. CleanInv(m)'
    <3>1. mac[m].disturbed \/ Alone(m)
      BY <1>1, Here DEF CleanInv
    <3>2. Alone(m) => Alone(m)'
      BY <1>3 DEF Alone, Pair!Crosses, Pair!Busy, Pair!At
    <3>3. Reliable(m)'
      BY <1>3, <1>4 DEF Reliable, Pair!At
    <3>4. QED
      BY <1>3, <1>4, <3>1, <3>2, <3>3 DEF CleanInv
  <2>4. ResultInv(m)'
    BY <1>1, <1>3, <1>4, Here DEF ResultInv, Pair!None
  <2>5. QED
    BY <2>2, <2>3, <2>4 DEF MacInv
<1>8. \A x \in Macs \ {m} : MacInv(x)'
  <2>1. past'.ids >= past.ids /\ past' \in PastRecords
    BY <1>3, Here DEF PastRecords
  <2>2. QED
    BY <1>1, <1>3, <2>1, OthersKeep DEF Session
<1>9. QED
  BY <1>6, <1>7, <1>8 DEF PairInv

\* The engine waits for the PIN of this Mac.
LEMMA AskKeeps ==
  ASSUME PairInv, NEW m \in Macs, Pair!Ask(m)
  PROVE  PairInv'
<1> DEFINE r == [mac[m] EXCEPT !.at = "pin"]
<1>1. /\ mac[m] \in MacRecords /\ Pair!Busy(m) /\ engine \in EngineRecords /\ mac[m].crt # 0
      /\ past \in PastRecords
  BY Here DEF Pair!Ask, IdInv, Pair!At, Pair!Busy
<1>2. r \in MacRecords
  BY <1>1 DEF MacRecords, Steps
<1>3. mac' = [mac EXCEPT ![m] = r] /\ mac'[m] = r /\ pins' = pins /\ past' = past
  BY Here DEF Pair!Ask, Pair!Go
<1>4. /\ r.key = mac[m].key /\ r.crt = mac[m].crt /\ r.known = mac[m].known /\ r.at = "pin"
      /\ r.cert = mac[m].cert /\ r.der = mac[m].der /\ r.result = mac[m].result
      /\ r.disturbed = mac[m].disturbed
  BY <1>1 DEF MacRecords
<1>5. /\ engine' \in EngineRecords /\ engine'.cert = engine.cert /\ engine'.paired = engine.paired
      /\ \A x \in Macs \ {m} : Session(x)' = Session(x)
  <2>1. [at |-> "waiting", pin |-> Pair!None] \in SessionRecords
    BY DEF SessionRecords
  <2>2. QED
    BY <1>1, <2>1 DEF Pair!Ask, EngineRecords, Session
<1> HIDE DEF r
<1>6. IdInv(m)' /\ SecretInv(m)'
  BY <1>1, <1>3, <1>4, Here DEF IdInv, SecretInv, Pair!At
<1>7. KnownInv(m)'
  BY <1>3, <1>4, <1>5, Here DEF KnownInv, Met
<1>8. ~r.disturbed => ~mac[m].disturbed /\ Reliable(m)'
  BY <1>3, <1>4 DEF Reliable, Pair!At
<1>9. past'.ids >= past.ids /\ past' \in PastRecords /\ pins' \in PinRecords
  BY <1>1, <1>3, Here DEF PastRecords
<1>10. QED
  BY <1>1, <1>2, <1>3, <1>4, <1>5, <1>6, <1>7, <1>8, <1>9, OnKeeps

LEMMA GivenTyped == \A m \in Macs : GivenTo(m) \in SessionRecords
BY DEF GivenTo, SessionRecords

\* Latch on the PC is asked, the asking ends, or it takes or refuses the PIN.
LEMMA SendPinKeeps ==
  ASSUME PairInv, NEW m \in Macs, Pair!SendPin(m) \/ Pair!RefusesPin(m)
  PROVE  PairInv'
<1>1. /\ mac[m] \in MacRecords /\ mac \in [Macs -> MacRecords]
      /\ engine \in EngineRecords /\ past \in PastRecords /\ pins \in PinRecords
  BY Here
<1>2. Pair!At(m, "pin") /\ Pair!Busy(m) /\ mac' = mac /\ engine' = engine /\ past' = past
  BY DEF Pair!SendPin, Pair!RefusesPin, PairInv, PinInv, Pair!At, Pair!Busy
<1>3. mac' = [mac EXCEPT ![m] = mac[m]]
  BY <1>1, <1>2
<1>4. /\ pins' \in PinRecords /\ pins'.asked \subseteq pins.asked \cup {m}
      /\ pins'.late = pins.late
  BY <1>1 DEF Pair!SendPin, Pair!RefusesPin, PinRecords
<1>5. IdInv(m)' /\ KnownInv(m)' /\ SecretInv(m)'
  BY <1>2, Here DEF IdInv, KnownInv, SecretInv, Met, Pair!At, Session
<1>6. ~mac[m].disturbed => ~mac[m].disturbed /\ pins'.late \subseteq pins.late /\ Reliable(m)'
  BY <1>2, <1>4 DEF Reliable, Pair!At
<1>7. past'.ids >= past.ids /\ \A x \in Macs \ {m} : Session(x)' = Session(x)
  BY <1>1, <1>2 DEF PastRecords, Session
<1>8. mac[m].at = "pin"
  BY <1>2 DEF Pair!At
<1>9. QED
  BY <1>1, <1>2, <1>3, <1>4, <1>5, <1>6, <1>7, <1>8, OnKeeps

LEMMA PinOverKeeps ==
  ASSUME PairInv, NEW m \in Macs, Pair!PinOver(m)
  PROVE  PairInv'
<1> DEFINE r == [mac[m] EXCEPT !.at = "answer"]
<1>1. /\ mac[m] \in MacRecords /\ Pair!Busy(m) /\ engine \in EngineRecords /\ mac[m].crt # 0
      /\ past \in PastRecords /\ pins \in PinRecords
  BY Here DEF Pair!PinOver, IdInv, Pair!At, Pair!Busy
<1>2. r \in MacRecords
  BY <1>1 DEF MacRecords, Steps
<1>3. mac' = [mac EXCEPT ![m] = r] /\ mac'[m] = r /\ engine' = engine /\ past' = past
  BY Here DEF Pair!PinOver, Pair!Go
<1>4. /\ r.key = mac[m].key /\ r.crt = mac[m].crt /\ r.known = mac[m].known /\ r.at = "answer"
      /\ r.cert = mac[m].cert /\ r.der = mac[m].der /\ r.result = mac[m].result
      /\ r.cancel = mac[m].cancel /\ r.disturbed = mac[m].disturbed
  BY <1>1 DEF MacRecords
<1>5. /\ pins' \in PinRecords /\ pins'.asked \subseteq pins.asked \cup {m}
      /\ m \notin pins'.asked /\ pins'.late = pins.late
  BY <1>1 DEF Pair!PinOver, Pair!NoPin, PinRecords
<1> HIDE DEF r
<1>6. IdInv(m)' /\ SecretInv(m)'
  BY <1>1, <1>3, <1>4, Here DEF IdInv, SecretInv, Pair!At
<1>7. KnownInv(m)'
  BY <1>3, <1>4, <1>5, Here DEF KnownInv, Met
<1>8. ~r.disturbed => ~mac[m].disturbed /\ pins'.late \subseteq pins.late /\ Reliable(m)'
  BY <1>3, <1>4, <1>5 DEF Reliable, Pair!PinOver, Pair!At
<1>9. past'.ids >= past.ids /\ \A x \in Macs \ {m} : Session(x)' = Session(x)
  BY <1>1, <1>3 DEF PastRecords, Session
<1>10. QED
  BY <1>1, <1>2, <1>3, <1>4, <1>5, <1>6, <1>7, <1>8, <1>9, OnKeeps

\* The first pairing the engine lists has the PIN: for an attempt that nothing
\* disturbed no other is listed.
LEMMA TakesPinKeeps ==
  ASSUME PairInv, NEW m \in Macs, Pair!TakesPin(m)
  PROVE  PairInv'
<1> DEFINE r == [mac[m] EXCEPT !.at = "answer"]
<1>1. /\ mac[m] \in MacRecords /\ Pair!Busy(m) /\ engine \in EngineRecords /\ mac[m].crt # 0
      /\ past \in PastRecords /\ pins \in PinRecords
  BY Here DEF Pair!TakesPin, PairInv, PinInv, IdInv, Pair!At, Pair!Busy
<1>2. r \in MacRecords
  BY <1>1 DEF MacRecords, Steps
<1>3. mac' = [mac EXCEPT ![m] = r] /\ mac'[m] = r /\ past' = past
  BY Here DEF Pair!TakesPin
<1>4. /\ r.key = mac[m].key /\ r.crt = mac[m].crt /\ r.known = mac[m].known /\ r.at = "answer"
      /\ r.cert = mac[m].cert /\ r.der = mac[m].der /\ r.result = mac[m].result
      /\ r.disturbed = mac[m].disturbed
  BY <1>1 DEF MacRecords
<1>5. /\ pins' \in PinRecords /\ pins'.asked \subseteq pins.asked \cup {m}
      /\ m \notin pins'.asked /\ pins'.late = pins.late
  BY <1>1 DEF Pair!TakesPin, PinRecords
<1>6. PICK w \in Pair!Waiting : engine' = [engine EXCEPT !.session[w] = GivenTo(m)]
  BY DEF Pair!TakesPin, Pair!Given, GivenTo
<1>7. w \in Macs /\ Session(w).at = "waiting"
  BY DEF Pair!Waiting, Session
<1>8. /\ engine' \in EngineRecords /\ engine'.cert = engine.cert /\ engine'.paired = engine.paired
      /\ Session(w)' = GivenTo(m) /\ \A x \in Macs \ {w} : Session(x)' = Session(x)
  BY <1>1, <1>6, <1>7, GivenTyped DEF EngineRecords, Session
<1> HIDE DEF r
<1>9. IdInv(m)' /\ SecretInv(m)'
  BY <1>1, <1>3, <1>4, Here DEF IdInv, SecretInv, Pair!At
<1>10. KnownInv(m)'
  BY <1>3, <1>4, <1>8, Here DEF KnownInv, Met
<1>11. ~r.disturbed => ~mac[m].disturbed /\ pins'.late \subseteq pins.late /\ Reliable(m)'
  <2> SUFFICES ASSUME ~r.disturbed PROVE Reliable(m)'
    BY <1>4, <1>5
  <2>1. w = m
    <3>1. \A y \in Macs \ {m} : ~Pair!Crosses(y)
      BY <1>1, <1>4, Here DEF CleanInv, Alone
    <3>2. QED
      BY <1>7, <3>1 DEF Pair!Crosses, Session
  <2>2. QED
    BY <1>3, <1>4, <1>8, <2>1 DEF Reliable, Pair!At
<1>12. past'.ids >= past.ids
       /\ \A x \in Macs \ {m} : Session(x)' = Session(x) \/ Session(x).at = "waiting"
  BY <1>1, <1>3, <1>7, <1>8 DEF PastRecords
<1>13. QED
  BY <1>1, <1>2, <1>3, <1>4, <1>5, <1>8, <1>9, <1>10, <1>11, <1>12, OnKeeps

\* The PIN may be taken later than the Mac believes.
LEMMA AnswerLostKeeps ==
  ASSUME PairInv, NEW m \in Macs, Pair!AnswerLost(m)
  PROVE  PairInv'
<1> DEFINE r == [mac[m] EXCEPT !.disturbed = TRUE]
<1>1. /\ mac[m] \in MacRecords /\ mac \in [Macs -> MacRecords] /\ engine \in EngineRecords
      /\ past \in PastRecords /\ pins \in PinRecords /\ Pair!At(m, "pin") /\ Pair!Busy(m)
  BY Here DEF Pair!AnswerLost, PairInv, PinInv, Pair!At, Pair!Busy
<1>2. r \in MacRecords
  BY <1>1 DEF MacRecords
<1>3. mac' = [mac EXCEPT ![m] = r] /\ mac'[m] = r /\ engine' = engine
  BY <1>1 DEF Pair!AnswerLost, Pair!Fault
<1>4. /\ r.key = mac[m].key /\ r.crt = mac[m].crt /\ r.known = mac[m].known /\ r.at = mac[m].at
      /\ r.cert = mac[m].cert /\ r.der = mac[m].der /\ r.result = mac[m].result
      /\ r.disturbed
  BY <1>1 DEF MacRecords
<1>5. /\ pins' \in PinRecords /\ pins'.asked \subseteq pins.asked \cup {m}
      /\ m \notin pins'.asked
  BY <1>1 DEF Pair!AnswerLost, PinRecords
<1>6. past' \in PastRecords /\ past'.met = past.met /\ past'.ids = past.ids /\ past'.ids >= past.ids
  BY <1>1 DEF Pair!AnswerLost, Pair!Fault, PastRecords
<1> HIDE DEF r
<1>7. IdInv(m)' /\ SecretInv(m)'
  BY <1>1, <1>3, <1>4, <1>6, Here DEF IdInv, SecretInv, Pair!At
<1>8. KnownInv(m)'
  BY <1>3, <1>4, <1>6, Here DEF KnownInv, Met
<1>9. \A x \in Macs \ {m} : Session(x)' = Session(x)
  BY <1>3 DEF Session
<1>10. QED
  BY <1>1, <1>2, <1>3, <1>4, <1>5, <1>6, <1>7, <1>8, <1>9, OnKeeps

\* The engine adds the Mac, which has proved who it is; it has met it now.
LEMMA SecretKeeps ==
  ASSUME PairInv, NEW m \in Macs, Pair!Secret(m)
  PROVE  PairInv'
<1> DEFINE r == [mac[m] EXCEPT !.at = "last"]
           t == <<m, mac[m].crt, engine.cert>>
<1>1. /\ mac[m] \in MacRecords /\ mac \in [Macs -> MacRecords] /\ engine \in EngineRecords
      /\ past \in PastRecords /\ pins \in PinRecords
      /\ mac[m].crt # 0 /\ Pair!At(m, "secret") /\ Pair!Busy(m) /\ m \notin pins.asked
  BY Here DEF Pair!Secret, IdInv, Pair!At, Pair!Busy, PairInv, PinInv
<1>2. mac[m].crt \in Nat /\ engine.cert \in Nat /\ past.ids \in Nat
  BY <1>1 DEF MacRecords, EngineRecords, PastRecords
<1>3. r \in MacRecords /\ mac' = [mac EXCEPT ![m] = r] /\ mac'[m] = r
      /\ mac' \in [Macs -> MacRecords] /\ \A x \in Macs \ {m} : mac'[x] = mac[x]
  BY <1>1 DEF Pair!Secret, Pair!Go, MacRecords, Steps
<1>4. /\ r.key = mac[m].key /\ r.crt = mac[m].crt /\ r.known = mac[m].known /\ r.at = "last"
      /\ r.cert = mac[m].cert /\ r.der = mac[m].der /\ r.result = mac[m].result
      /\ r.disturbed = mac[m].disturbed
  BY <1>1 DEF MacRecords
<1>5. /\ engine' \in EngineRecords /\ engine'.cert = engine.cert
      /\ engine'.paired = engine.paired \cup {Pair!Me(m)}
      /\ \A x \in Macs \ {m} : Session(x)' = Session(x)
  <2>1. Pair!NoSession \in SessionRecords
    BY DEF Pair!NoSession, SessionRecords
  <2>2. /\ Pair!Withdrawn(m) \in EngineRecords /\ Pair!Withdrawn(m).cert = engine.cert
        /\ Pair!Withdrawn(m).paired = engine.paired
        /\ \A x \in Macs \ {m} : Pair!Withdrawn(m).session[x] = engine.session[x]
    BY <1>1, <2>1 DEF Pair!Withdrawn, EngineRecords
  <2>3. engine' = [Pair!Withdrawn(m) EXCEPT !.paired = @ \cup {Pair!Me(m)}]
        /\ Pair!Me(m) \in Macs \X Nat
    BY <1>2 DEF Pair!Secret, Pair!Me
  <2>4. QED
    BY <2>2, <2>3 DEF EngineRecords, Session
<1>6. /\ past' \in PastRecords /\ past'.met = past.met \cup {t} /\ past'.ids = past.ids
      /\ past'.ids >= past.ids
  <2>1. t \in Macs \X Nat \X Nat
    BY <1>2
  <2>2. past' = [past EXCEPT !.met = @ \cup {t}]
    BY DEF Pair!Secret
  <2> HIDE DEF t
  <2>3. QED
    BY <1>1, <1>2, <2>1, <2>2 DEF PastRecords
<1>7. pins' = pins
  BY DEF Pair!Secret
<1>8. t[1] = m /\ t[2] = mac[m].crt /\ t[3] = engine.cert
  OBVIOUS
<1> HIDE DEF r
<1>9. MetInv' /\ PairedInv' /\ PinInv' /\ PairTypes'
  <2>1. \A x \in Macs : mac'[x].crt = mac[x].crt
    BY <1>3, <1>4
  <2>2. MetInv'
    <3>1. \A u \in past.met : u[1] \in Macs
      BY <1>1 DEF PastRecords
    <3>2. engine.cert \in 0..engine.cert
      BY <1>2
    <3> HIDE DEF t
    <3>3. QED
      BY <1>1, <1>5, <1>6, <1>8, <2>1, <3>1, <3>2 DEF PairInv, MetInv
  <2>3. PairedInv'
    <3> SUFFICES ASSUME NEW u \in engine'.paired
                 PROVE  <<u[1], u[2], engine.cert>> \in past'.met
      BY <1>5 DEF PairedInv
    <3>1. CASE u \in engine.paired
      BY <1>6, <3>1 DEF PairInv, PairedInv
    <3>2. CASE u = Pair!Me(m)
      BY <1>6, <3>2 DEF Pair!Me
    <3>3. QED
      BY <1>5, <3>1, <3>2
  <2>4. PinInv' /\ PairTypes'
    BY <1>1, <1>3, <1>5, <1>6, <1>7 DEF PairInv, PinInv, PairTypes, PinRecords, Pair!At
  <2>5. QED
    BY <2>2, <2>3, <2>4
<1>10. MacInv(m)'
  <2>1. IdInv(m)' /\ SecretInv(m)'
    BY <1>1, <1>3, <1>4, <1>6, Here DEF IdInv, SecretInv, Pair!At
  <2>2. KnownInv(m)'
    BY <1>3, <1>4, <1>5, <1>6, Here DEF KnownInv, Met
  <2>3. CleanInv(m)'
    <3> SUFFICES ASSUME ~mac[m].disturbed PROVE Alone(m)' /\ Reliable(m)'
      BY <1>3, <1>4 DEF CleanInv
    <3>1. Alone(m) /\ Reliable(m)
      BY <1>1, Here DEF CleanInv
    <3>2. Alone(m)'
      BY <1>3, <1>5, <1>7, <3>1 DEF Alone, Pair!Crosses, Pair!Busy, Pair!At, Session
    <3>3. Reliable(m)'
      BY <1>1, <1>3, <1>4, <1>5, <3>1 DEF Reliable, Pair!At, Pair!Me
    <3>4. QED
      BY <3>2, <3>3
  <2>4. ResultInv(m)'
    BY <1>1, <1>3, <1>4, Here DEF ResultInv, Pair!None
  <2>5. QED
    BY <2>1, <2>2, <2>3, <2>4 DEF MacInv
<1>11. \A x \in Macs \ {m} : MacInv(x)'
  BY <1>1, <1>3, <1>5, <1>6, OthersKeep
<1>12. QED
  BY <1>9, <1>10, <1>11 DEF PairInv

-----------------------------------------------------------------------------
(* The steps that concern the others as well.                              *)

\* Whoever starts disturbs those under way, and is disturbed by them.
LEMMA StartKeeps ==
  ASSUME PairInv, NEW m \in Macs, Pair!Start(m)
  PROVE  PairInv'
<1> DEFINE b == pins.late # {} \/ \E y \in Macs \ {m} : Pair!Crosses(y)
           r == [mac[m] EXCEPT !.at = "identity", !.cert = mac[m].known, !.result = Pair!None,
                               !.cancel = FALSE, !.disturbed = b]
           q(x) == [mac[x] EXCEPT !.disturbed = @ \/ Pair!Busy(x)]
<1>1. /\ mac \in [Macs -> MacRecords] /\ engine \in EngineRecords
      /\ past \in PastRecords /\ pins \in PinRecords
      /\ \A x \in Macs : mac[x] \in MacRecords /\ MacInv(x)
  BY Here DEF PairInv
<1>2. engine' = engine /\ pins' = pins /\ Pair!At(m, "idle")
  BY DEF Pair!Start
<1>3. past' \in PastRecords /\ past'.ids = past.ids /\ past'.met = past.met
  <2>1. past.tries + 1 \in Nat
    BY <1>1 DEF PastRecords
  <2>2. past' = [past EXCEPT !.tries = past.tries + 1]
    BY DEF Pair!Start
  <2>3. QED
    BY <1>1, <2>1, <2>2 DEF PastRecords
<1>4. r \in MacRecords /\ \A x \in Macs : q(x) \in MacRecords
  <2>1. b \in BOOLEAN /\ \A x \in Macs : (mac[x].disturbed \/ Pair!Busy(x)) \in BOOLEAN
    OBVIOUS
  <2> HIDE DEF b
  <2>2. r \in MacRecords
    BY <1>1, <2>1, SMTT(40), ZenonT(60) DEF MacRecords, Steps, Results
  <2>3. \A x \in Macs : q(x) \in MacRecords
    BY <1>1, <2>1 DEF MacRecords
  <2>4. QED
    BY <2>2, <2>3
<1>5. mac' = [x \in Macs |-> IF x = m THEN r ELSE q(x)]
  BY DEF Pair!Start
<1>6. /\ r.key = mac[m].key /\ r.crt = mac[m].crt /\ r.known = mac[m].known
      /\ r.at = "identity" /\ r.cert = mac[m].known /\ r.der = mac[m].der /\ r.result = Pair!None
      /\ r.disturbed <=> b
  BY <1>1 DEF MacRecords
<1>7. \A x \in Macs : /\ q(x).key = mac[x].key /\ q(x).crt = mac[x].crt
                      /\ q(x).known = mac[x].known /\ q(x).at = mac[x].at
                      /\ q(x).cert = mac[x].cert /\ q(x).der = mac[x].der
                      /\ q(x).result = mac[x].result
                      /\ q(x).disturbed <=> mac[x].disturbed \/ Pair!Busy(x)
  BY <1>1 DEF MacRecords
<1> HIDE DEF r, q
<1>8. mac' \in [Macs -> MacRecords] /\ mac'[m] = r /\ \A x \in Macs \ {m} : mac'[x] = q(x)
  BY <1>4, <1>5
<1>9. \A x \in Macs : mac'[x].crt = mac[x].crt
  BY <1>6, <1>7, <1>8
<1>10. MetInv' /\ PairedInv' /\ PairTypes' /\ PinInv'
  <2>1. MetInv' /\ PairedInv'
    BY <1>1, <1>2, <1>3, <1>9 DEF PairInv, MetInv, PairedInv, PastRecords
  <2>2. PairTypes'
    BY <1>1, <1>2, <1>3, <1>8 DEF PairTypes
  <2>3. PinInv'
    BY <1>1, <1>2, <1>7, <1>8 DEF PairInv, PinInv, PinRecords, Pair!At
  <2>4. QED
    BY <2>1, <2>2, <2>3
<1>11. MacInv(m)'
  <2>1. IdInv(m)' /\ SecretInv(m)'
    BY <1>1, <1>2, <1>3, <1>6, <1>8 DEF MacInv, IdInv, SecretInv, Pair!At
  <2>2. KnownInv(m)'
    BY <1>1, <1>2, <1>3, <1>6, <1>8 DEF MacInv, KnownInv, Met
  <2>3. CleanInv(m)'
    <3>1. Reliable(m)'
      BY <1>6, <1>8 DEF Reliable, Pair!At
    <3>2. ~b => Alone(m)'
      BY <1>2, <1>7, <1>8 DEF Alone, Pair!Crosses, Pair!Busy, Pair!At
    <3>3. mac'[m].disturbed <=> b
      BY <1>6, <1>8
    <3> HIDE DEF b
    <3>4. QED
      BY <3>1, <3>2, <3>3 DEF CleanInv
  <2>4. ResultInv(m)'
    BY <1>6, <1>8 DEF ResultInv, Pair!None
  <2>5. QED
    BY <2>1, <2>2, <2>3, <2>4 DEF MacInv
<1>12. ASSUME NEW x \in Macs \ {m} PROVE MacInv(x)'
  <2>1. IdInv(x)'
    <3>1. IdInv(x) /\ mac'[x] = q(x)
      BY <1>1, <1>8 DEF MacInv
    <3>2. q(x).key = mac[x].key /\ q(x).crt = mac[x].crt /\ q(x).at = mac[x].at
      BY <1>7
    <3>3. QED
      BY <1>3, <3>1, <3>2 DEF IdInv, Pair!At
  <2>2. KnownInv(x)'
    BY <1>1, <1>2, <1>3, <1>7, <1>8 DEF MacInv, KnownInv, Met
  <2>3. SecretInv(x)'
    BY <1>1, <1>2, <1>7, <1>8 DEF MacInv, SecretInv, Pair!At, Session
  <2>4. CleanInv(x)' /\ ResultInv(x)'
    BY <1>1, <1>7, <1>8 DEF MacInv, CleanInv, ResultInv, Pair!Busy, Pair!At
  <2>5. QED
    BY <2>1, <2>2, <2>3, <2>4 DEF MacInv
<1>13. QED
  BY <1>10, <1>11, <1>12 DEF PairInv

\* A PIN that is late disturbs everyone who is under way.
LEMMA LateTakenKeeps ==
  ASSUME PairInv, NEW m \in Macs, Pair!LateTaken(m)
  PROVE  PairInv'
<1>1. /\ mac \in [Macs -> MacRecords] /\ engine \in EngineRecords
      /\ past \in PastRecords /\ pins \in PinRecords
      /\ \A x \in Macs : MacInv(x)
  BY Here DEF PairInv
<1>2. mac' = mac /\ past' = past
  BY DEF Pair!LateTaken
<1>3. pins' \in PinRecords /\ pins'.asked = pins.asked
  BY <1>1 DEF Pair!LateTaken, PinRecords
<1>4. /\ engine' \in EngineRecords /\ engine'.cert = engine.cert /\ engine'.paired = engine.paired
      /\ \A x \in Macs : Session(x)' = Session(x) \/ Session(x).at = "waiting"
  <2>1. CASE engine' = engine
    BY <1>1, <2>1 DEF Session
  <2>2. CASE Pair!Given(m)
    <3>1. PICK w \in Pair!Waiting : engine' = [engine EXCEPT !.session[w] = GivenTo(m)]
      BY <2>2 DEF Pair!Given, GivenTo
    <3>2. w \in Macs /\ Session(w).at = "waiting"
      BY DEF Pair!Waiting, Session
    <3>3. QED
      BY <1>1, <3>1, <3>2, GivenTyped DEF EngineRecords, Session
  <2>3. QED
    BY <2>1, <2>2 DEF Pair!LateTaken
<1>5. \A x \in Macs : Pair!Busy(x) => mac[x].disturbed
  BY <1>1 DEF Pair!LateTaken, MacInv, CleanInv, Alone
<1>6. PairTypes' /\ MetInv' /\ PairedInv' /\ PinInv'
  BY <1>1, <1>2, <1>3, <1>4 DEF PairInv, PairTypes, MetInv, PairedInv, PinInv, Pair!At
<1>7. ASSUME NEW x \in Macs PROVE MacInv(x)'
  <2>1. IdInv(x)' /\ ResultInv(x)'
    BY <1>1, <1>2 DEF MacInv, IdInv, ResultInv, Pair!Busy, Pair!At
  <2>2. KnownInv(x)'
    BY <1>1, <1>2, <1>4 DEF MacInv, KnownInv, Met
  <2>3. SecretInv(x)'
    BY <1>1, <1>2, <1>4 DEF MacInv, SecretInv, Pair!At, Pair!NoSession, GivenTo, Pair!None
  <2>4. CleanInv(x)'
    BY <1>2, <1>5 DEF CleanInv, Pair!Busy, Pair!At
  <2>5. QED
    BY <2>1, <2>2, <2>3, <2>4 DEF MacInv
<1>8. QED
  BY <1>6, <1>7 DEF PairInv

\* A new engine knows nobody; who met the old one has met it all the same.
LEMMA ReinstallKeeps ==
  ASSUME PairInv, Pair!Reinstall
  PROVE  PairInv'
<1>1. /\ mac \in [Macs -> MacRecords] /\ engine \in EngineRecords
      /\ past \in PastRecords /\ pins \in PinRecords
      /\ \A x \in Macs : mac[x] \in MacRecords /\ MacInv(x)
  BY DEF PairInv, PairTypes
<1>2. engine.cert \in Nat /\ engine.cert + 1 \in Nat
      /\ \A c \in Nat : c <= engine.cert => c <= engine.cert + 1
  BY <1>1 DEF EngineRecords
<1>3. engine' = [cert |-> engine.cert + 1, paired |-> {},
      session |-> [x \in Macs |-> Pair!NoSession]]
      /\ pins' = pins
  BY DEF Pair!Reinstall
<1>4. engine' \in EngineRecords /\ engine'.cert = engine.cert + 1 /\ engine'.paired = {}
      /\ \A x \in Macs : Session(x)' = Pair!NoSession
  <2>1. Pair!NoSession \in SessionRecords
    BY DEF Pair!NoSession, SessionRecords
  <2>2. QED
    BY <1>2, <1>3, <2>1 DEF EngineRecords, Session
<1>5. past' \in PastRecords /\ past'.met = past.met /\ past'.ids = past.ids
  BY <1>1 DEF Pair!Reinstall, Pair!Fault, PastRecords
<1>6. \A x \in Macs : mac'[x] = [mac[x] EXCEPT !.disturbed = TRUE]
  BY DEF Pair!Reinstall, Pair!Fault
<1>7. \A x \in Macs : /\ mac'[x] \in MacRecords /\ mac'[x].disturbed
                      /\ mac'[x].key = mac[x].key /\ mac'[x].crt = mac[x].crt
                      /\ mac'[x].known = mac[x].known /\ mac'[x].at = mac[x].at
                      /\ mac'[x].cert = mac[x].cert /\ mac'[x].der = mac[x].der
                      /\ mac'[x].result = mac[x].result
  <2>1. \A r \in MacRecords : LET t == [r EXCEPT !.disturbed = TRUE] IN
          /\ t \in MacRecords /\ t.disturbed /\ t.key = r.key /\ t.crt = r.crt
          /\ t.known = r.known /\ t.at = r.at /\ t.cert = r.cert /\ t.der = r.der
          /\ t.result = r.result
    BY DEF MacRecords
  <2>2. ASSUME NEW x \in Macs
        PROVE  /\ mac'[x] \in MacRecords /\ mac'[x].disturbed
               /\ mac'[x].key = mac[x].key /\ mac'[x].crt = mac[x].crt
               /\ mac'[x].known = mac[x].known /\ mac'[x].at = mac[x].at
               /\ mac'[x].cert = mac[x].cert /\ mac'[x].der = mac[x].der
               /\ mac'[x].result = mac[x].result
    <3>1. mac[x] \in MacRecords /\ mac'[x] = [mac[x] EXCEPT !.disturbed = TRUE]
      BY <1>1, <1>6
    <3>2. QED
      BY <2>1, <3>1
  <2>3. QED
    BY <2>2
<1>8. PairTypes' /\ PairedInv' /\ PinInv'
  <2>1. mac' \in [Macs -> MacRecords]
    BY <1>7 DEF Pair!Reinstall, Pair!Fault
  <2>2. PairTypes' /\ PairedInv'
    BY <1>1, <1>3, <1>4, <1>5, <2>1 DEF PairTypes, PairedInv
  <2>3. PinInv'
    BY <1>1, <1>3, <1>7 DEF PairInv, PinInv, PinRecords, Pair!At
  <2>4. QED
    BY <2>2, <2>3
<1>9. MetInv'
  <2> SUFFICES ASSUME NEW t \in past.met
               PROVE  mac'[t[1]].crt = t[2] /\ t[2] # 0 /\ t[3] \in 0..engine.cert + 1
    BY <1>4, <1>5 DEF MetInv
  <2>1. t[1] \in Macs /\ mac[t[1]].crt = t[2] /\ t[2] # 0 /\ t[3] \in 0..engine.cert
    BY <1>1 DEF PairInv, MetInv, PastRecords
  <2>2. QED
    BY <1>2, <1>7, <2>1
<1>10. ASSUME NEW x \in Macs PROVE MacInv(x)'
  <2>1. IdInv(x)'
    BY <1>1, <1>5, <1>7, SMTT(40), ZenonT(60) DEF MacInv, IdInv, Pair!At
  <2>2. KnownInv(x)'
    <3>1. mac[x].known \in Nat /\ mac[x].cert \in Nat /\ mac[x].der \in Nat
      BY <1>1 DEF MacRecords
    <3>2. mac[x].known <= engine.cert /\ mac[x].cert <= engine.cert /\ mac[x].der <= engine.cert
      BY <1>1 DEF MacInv, KnownInv
    <3>3. /\ mac[x].known <= engine.cert + 1 /\ mac[x].cert <= engine.cert + 1
          /\ mac[x].der <= engine.cert + 1
      BY <1>2, <3>1, <3>2
    <3>4. QED
      BY <1>1, <1>4, <1>5, <1>7, <3>3 DEF MacInv, KnownInv, Met
  <2>3. SecretInv(x)'
    BY <1>4 DEF SecretInv
  <2>4. CleanInv(x)' /\ ResultInv(x)'
    BY <1>1, <1>7 DEF MacInv, CleanInv, ResultInv, Pair!Busy, Pair!At
  <2>5. QED
    BY <2>1, <2>2, <2>3, <2>4 DEF MacInv
<1>11. QED
  BY <1>8, <1>9, <1>10 DEF PairInv

\* The owner removes one Mac: it is the one that is disturbed.
LEMMA UnpairKeeps ==
  ASSUME PairInv, NEW m \in Macs, Pair!Unpair(m)
  PROVE  PairInv'
<1>1. /\ mac \in [Macs -> MacRecords] /\ engine \in EngineRecords
      /\ past \in PastRecords /\ pins \in PinRecords
      /\ \A x \in Macs : mac[x] \in MacRecords /\ MacInv(x)
  BY DEF PairInv, PairTypes
<1>2. pins' = pins /\ past' \in PastRecords /\ past'.met = past.met /\ past'.ids = past.ids
  BY <1>1 DEF Pair!Unpair, Pair!Fault, PastRecords
<1>3. /\ engine' \in EngineRecords /\ engine'.cert = engine.cert
      /\ engine'.paired = engine.paired \ {Pair!Me(m)}
      /\ \A x \in Macs : Session(x)' = Session(x)
  BY <1>1 DEF Pair!Unpair, EngineRecords, Session
<1>4. \A x \in Macs : mac'[x] = IF x = m THEN [mac[x] EXCEPT !.disturbed = TRUE] ELSE mac[x]
  BY DEF Pair!Unpair, Pair!Fault
<1>5. \A x \in Macs : /\ mac'[x] \in MacRecords /\ (x = m => mac'[x].disturbed)
                      /\ mac'[x].key = mac[x].key /\ mac'[x].crt = mac[x].crt
                      /\ mac'[x].known = mac[x].known /\ mac'[x].at = mac[x].at
                      /\ mac'[x].cert = mac[x].cert /\ mac'[x].der = mac[x].der
                      /\ mac'[x].result = mac[x].result
                      /\ mac[x].disturbed => mac'[x].disturbed
  <2> SUFFICES ASSUME NEW x \in Macs
               PROVE  /\ mac'[x] \in MacRecords /\ (x = m => mac'[x].disturbed)
                      /\ mac'[x].key = mac[x].key /\ mac'[x].crt = mac[x].crt
                      /\ mac'[x].known = mac[x].known /\ mac'[x].at = mac[x].at
                      /\ mac'[x].cert = mac[x].cert /\ mac'[x].der = mac[x].der
                      /\ mac'[x].result = mac[x].result
                      /\ mac[x].disturbed => mac'[x].disturbed
    OBVIOUS
  <2>1. CASE x = m
    BY <1>1, <1>4, <2>1, SMTT(40), ZenonT(60) DEF MacRecords
  <2>2. CASE x # m
    BY <1>1, <1>4, <2>2
  <2>3. QED
    BY <2>1, <2>2
<1>6. PairTypes' /\ MetInv' /\ PairedInv' /\ PinInv'
  <2>1. mac' \in [Macs -> MacRecords]
    BY <1>5 DEF Pair!Unpair, Pair!Fault
  <2>2. PairTypes' /\ MetInv' /\ PairedInv'
    BY <1>1, <1>2, <1>3, <1>5, <2>1 DEF PairInv, PairTypes, MetInv, PairedInv, PastRecords
  <2>3. PinInv'
    BY <1>1, <1>2, <1>5 DEF PairInv, PinInv, PinRecords, Pair!At
  <2>4. QED
    BY <2>2, <2>3
<1>7. ASSUME NEW x \in Macs PROVE MacInv(x)'
  <2>1. IdInv(x)'
    <3>1. IdInv(x)
      BY <1>1 DEF MacInv
    <3>2. mac'[x].key = mac[x].key /\ mac'[x].crt = mac[x].crt /\ mac'[x].at = mac[x].at
      BY <1>5
    <3>3. QED
      BY <1>2, <3>1, <3>2 DEF IdInv, Pair!At
  <2>2. KnownInv(x)'
    BY <1>1, <1>2, <1>3, <1>5 DEF MacInv, KnownInv, Met
  <2>3. SecretInv(x)'
    BY <1>1, <1>3, <1>5 DEF MacInv, SecretInv, Pair!At
  <2>4. CleanInv(x)'
    <3> SUFFICES ASSUME x # m, Pair!Busy(x), ~mac[x].disturbed PROVE Alone(x)' /\ Reliable(x)'
      BY <1>5 DEF CleanInv, Pair!Busy, Pair!At
    <3>1. Alone(x) /\ Reliable(x) /\ mac'[x] = mac[x]
      BY <1>1, <1>4 DEF MacInv, CleanInv
    <3>2. Alone(x)'
      BY <1>2, <1>3, <1>5, <3>1 DEF Alone, Pair!Crosses, Pair!Busy, Pair!At, Session
    <3>3. Pair!Me(x)' = Pair!Me(x) /\ Pair!Me(x) # Pair!Me(m)
      BY <3>1 DEF Pair!Me
    <3>4. Reliable(x)'
      BY <1>3, <3>1, <3>3 DEF Reliable, Pair!At
    <3>5. QED
      BY <3>2, <3>4
  <2>5. ResultInv(x)'
    BY <1>1, <1>5 DEF MacInv, ResultInv, Pair!Busy, Pair!At
  <2>6. QED
    BY <2>1, <2>2, <2>3, <2>4, <2>5 DEF MacInv
<1>8. QED
  BY <1>6, <1>7 DEF PairInv

-----------------------------------------------------------------------------
(* The theorems.                                                           *)

LEMMA PairNext ==
  ASSUME PairInv, [Pair!Next]_Pair!vars
  PROVE  PairInv'
<1>1. CASE Pair!Reinstall
  BY <1>1, ReinstallKeeps
<1>2. ASSUME NEW m \in Macs,
             Pair!Start(m) \/ Pair!Cancel(m) \/ Pair!LateTaken(m) \/ Pair!AnswerLost(m)
               \/ Pair!Unpair(m)
             \/ Pair!Breaks(m) \/ Pair!Kill(m)
      PROVE  PairInv'
  BY <1>2, StartKeeps, CancelKeeps, LateTakenKeeps, AnswerLostKeeps, UnpairKeeps, BreaksKeeps
<1>3. ASSUME NEW m \in Macs,
             Pair!Create(m) \/ Pair!CreateEnds(m) \/ Pair!Load(m) \/ Pair!Mismatch(m)
               \/ Pair!Info(m) \/ Pair!Ask(m)
             \/ Pair!SendPin(m) \/ Pair!PinOver(m) \/ Pair!Answer(m)
      PROVE  PairInv'
  BY <1>3, CreateKeeps, CreateEndsKeeps, LoadKeeps, MismatchKeeps, InfoKeeps, AskKeeps,
     SendPinKeeps, PinOverKeeps, AnswerKeeps
<1>4. ASSUME NEW m \in Macs,
             Pair!NoAnswer(m) \/ Pair!Challenge(m) \/ Pair!ChallengeFails(m) \/ Pair!Secret(m)
               \/ Pair!Last(m)
             \/ Pair!Remember(m) \/ Pair!Check(m) \/ Pair!TakesPin(m) \/ Pair!RefusesPin(m)
      PROVE  PairInv'
  BY <1>4, NoAnswerKeeps, ChallengeKeeps, ChallengeFailsKeeps, SecretKeeps, LastKeeps,
     RememberKeeps, CheckKeeps, TakesPinKeeps, SendPinKeeps
<1>5. CASE UNCHANGED Pair!vars
  BY <1>5, SMTT(30), ZenonT(60)
     DEF Pair!vars, PairInv, PairTypes, MetInv, PairedInv, PinInv, MacInv, IdInv, KnownInv,
         SecretInv, CleanInv, Alone, Reliable, ResultInv, Session, Met, Pair!Me, Pair!Crosses,
         Pair!Busy, Pair!At
<1>6. QED
  BY <1>1, <1>2, <1>3, <1>4, <1>5 DEF Pair!Next, Pair!Attempt

LEMMA PairMeans ==
  ASSUME PairInv
  PROVE  Pair!TypeOK /\ Pair!IdentityKept /\ Pair!SecretAfterProof /\ Pair!SavedMeansPaired
         /\ Pair!UndisturbedSucceeds
<1>1. Pair!TypeOK
  <2>1. ASSUME NEW m \in Macs
        PROVE  /\ mac[m].result \in {Pair!None, "ok", "failed", "cancelled"}
               /\ mac[m].crt \in 0..past.ids /\ mac[m].key \in 0..past.ids
               /\ mac[m].known \in 0..engine.cert
               /\ engine.session[m].pin \in Macs \cup {Pair!None}
    <3>1. /\ mac[m].result \in Results /\ mac[m].key \in Nat /\ mac[m].crt \in Nat
          /\ mac[m].known \in Nat /\ past.ids \in Nat /\ engine.cert \in Nat
          /\ engine.session[m] \in SessionRecords
      BY Here DEF MacRecords, PastRecords, EngineRecords
    <3>2. mac[m].key <= past.ids /\ mac[m].crt \in {0, mac[m].key} /\ mac[m].known <= engine.cert
      BY Here DEF IdInv, KnownInv
    <3>3. QED
      BY <3>1, <3>2 DEF Results, SessionRecords
  <2>2. pins.asked \subseteq {m \in Macs : Pair!At(m, "pin")}
    BY DEF PairInv, PairTypes, PinRecords, PinInv
  <2>3. QED
    BY <2>1, <2>2 DEF Pair!TypeOK
<1>2. Pair!IdentityKept
  <2>1. \A m \in Macs : mac[m].at \notin {"idle", "identity", "identity written"}
                          => mac[m].key = mac[m].crt
    BY Here DEF IdInv
  <2>2. QED
    BY <2>1 DEF Pair!IdentityKept, PairInv, MetInv
<1>3. Pair!SecretAfterProof
  BY Here DEF Pair!SecretAfterProof, SecretInv, Session, Pair!NoSession, GivenTo, Pair!None
<1>4. Pair!SavedMeansPaired
  BY Here DEF Pair!SavedMeansPaired, KnownInv, Met
<1>5. Pair!UndisturbedSucceeds
  BY Here DEF Pair!UndisturbedSucceeds, ResultInv
<1>6. QED
  BY <1>1, <1>2, <1>3, <1>4, <1>5

\* What the Macs, the engine and Latch on the PC know of each other at any
\* time, whatever is lost and in whatever order they go on.
THEOREM PairingIsSound == ASSUME Pair!PairingAssumption PROVE Pair!Spec => []PairInv
<1>1. Pair!Init => PairInv
  BY PairInit
<1>2. PairInv /\ [Pair!Next]_Pair!vars => PairInv'
  BY PairNext
<1>3. QED
  BY <1>1, <1>2, PTL DEF Pair!Spec

\* A Mac keeps its identity once an engine has added it: the owner of a PC
\* does not have to pair it again (identity.rs:25).
THEOREM IdentityStays == ASSUME Pair!PairingAssumption PROVE Pair!Spec => []Pair!IdentityKept
<1>1. PairInv => Pair!IdentityKept
  BY PairMeans
<1>2. QED
  BY <1>1, PairingIsSound, PTL

\* The Mac signs for an engine only once that has shown its PIN
\* (nvhttp.rs, the challenge before the secret).
THEOREM SecretComesLast == ASSUME Pair!PairingAssumption PROVE Pair!Spec => []Pair!SecretAfterProof
<1>1. PairInv => Pair!SecretAfterProof
  BY PairMeans
<1>2. QED
  BY <1>1, PairingIsSound, PTL

\* What is saved of an engine is of one that added this Mac.
THEOREM SavedIsPaired == ASSUME Pair!PairingAssumption PROVE Pair!Spec => []Pair!SavedMeansPaired
<1>1. PairInv => Pair!SavedMeansPaired
  BY PairMeans
<1>2. QED
  BY <1>1, PairingIsSound, PTL

\* An attempt fails only if something happened to it: what earlier ones left
\* behind, on either side, is in no one's way.
THEOREM CleanAttemptsSucceed == ASSUME Pair!PairingAssumption
  PROVE Pair!Spec => []Pair!UndisturbedSucceeds
<1>1. PairInv => Pair!UndisturbedSucceeds
  BY PairMeans
<1>2. QED
  BY <1>1, PairingIsSound, PTL

\* A step that says of an attempt that it went well asked the engine first.
LEMMA OkStep ==
  ASSUME PairInv, [Pair!Next]_Pair!vars
  PROVE  Pair!OkMeansPaired
<1> SUFFICES ASSUME NEW m \in Macs, mac[m].result # "ok", mac'[m].result = "ok"
             PROVE  Pair!Me(m) \in engine.paired
  BY DEF Pair!OkMeansPaired
<1>1. mac \in [Macs -> MacRecords] /\ mac[m] \in MacRecords
  BY DEF PairInv, PairTypes
<1>2. \A y \in Macs : mac[y] \in MacRecords
  BY <1>1
<1>3. ASSUME NEW x \in Macs, NEW step, mac' = [mac EXCEPT ![x].at = step] PROVE FALSE
  <2>1. mac'[m].result = mac[m].result
    BY <1>1, <1>2, <1>3 DEF MacRecords
  <2>2. QED
    BY <2>1
<1>4. ASSUME NEW x \in Macs, NEW end \in Results, mac' = Pair!Ended(x, end), end # "ok" \/ x # m
      PROVE  FALSE
  <2>1. mac'[m].result = mac[m].result \/ (mac'[m].result = end /\ end # "ok")
    BY <1>1, <1>2, <1>4 DEF MacRecords, Pair!Ended
  <2>2. QED
    BY <2>1
<1>5. CASE Pair!Reinstall
  <2>1. mac' = [y \in Macs |-> [mac[y] EXCEPT !.disturbed = TRUE]]
    BY <1>1, <1>5 DEF Pair!Reinstall, Pair!Fault
  <2>2. mac'[m].result = mac[m].result
    BY <1>1, <2>1 DEF MacRecords
  <2>3. QED
    BY <2>2
<1>6. ASSUME NEW x \in Macs, Pair!Info(x) PROVE Pair!Me(m) \in engine.paired
  <2>1. CASE mac' = Pair!Ended(x, "ok") /\ Pair!Me(x) \in engine.paired
    BY <1>4, <2>1 DEF Results
  <2>2. CASE Pair!Go(x, "ask")
    BY <1>3, <2>2 DEF Pair!Go
  <2>3. QED
    BY <1>6, <2>1, <2>2 DEF Pair!Info
<1>7. ASSUME NEW x \in Macs, Pair!Check(x) PROVE Pair!Me(m) \in engine.paired
  <2>1. CASE mac' = Pair!Ended(x, "ok") /\ Pair!Me(x) \in engine.paired
    BY <1>4, <2>1 DEF Results
  <2>2. CASE mac' = Pair!Ended(x, "failed")
    BY <1>4, <2>2 DEF Results
  <2>3. QED
    BY <1>7, <2>1, <2>2 DEF Pair!Check
<1>8. ASSUME NEW x \in Macs, Pair!Start(x) PROVE FALSE
  <2>1. mac'[m].result = mac[m].result \/ mac'[m].result = Pair!None
    BY <1>1, <1>8 DEF Pair!Start, MacRecords
  <2>2. QED
    BY <2>1 DEF Pair!None
<1>9. ASSUME NEW x \in Macs,
             \/ Pair!Create(x) \/ Pair!CreateEnds(x) \/ Pair!Mismatch(x)
             \/ Pair!Last(x) \/ Pair!Remember(x) \/ Pair!Cancel(x)
      PROVE  FALSE
  <2>1. CASE Pair!Create(x)
    BY <1>1, <1>2, <2>1 DEF Pair!Create, MacRecords
  <2>2. CASE Pair!CreateEnds(x)
    BY <1>1, <1>2, <2>2 DEF Pair!CreateEnds, MacRecords
  <2>3. CASE Pair!Mismatch(x)
    BY <1>1, <1>2, <2>3 DEF Pair!Mismatch, MacRecords
  <2>4. CASE Pair!Last(x)
    BY <1>1, <1>2, <2>4 DEF Pair!Last, MacRecords
  <2>5. CASE Pair!Remember(x)
    BY <1>1, <1>2, <2>5 DEF Pair!Remember, MacRecords
  <2>6. CASE Pair!Cancel(x)
    BY <1>1, <1>2, <2>6 DEF Pair!Cancel, MacRecords
  <2>7. QED
    BY <1>9, <2>1, <2>2, <2>3, <2>4, <2>5, <2>6
<1>10. ASSUME NEW x \in Macs,
              \/ Pair!Load(x) \/ Pair!Ask(x) \/ Pair!PinOver(x)
              \/ Pair!Challenge(x) \/ Pair!Secret(x) \/ Pair!TakesPin(x)
       PROVE  FALSE
  BY <1>3, <1>10
     DEF Pair!Load, Pair!Ask, Pair!PinOver, Pair!Challenge, Pair!Secret, Pair!TakesPin, Pair!Go
<1>11. ASSUME NEW x \in Macs, Pair!Answer(x) PROVE FALSE
  BY <1>1, <1>2, <1>11 DEF Pair!Answer, MacRecords
<1>12. ASSUME NEW x \in Macs, Pair!NoAnswer(x) \/ Pair!ChallengeFails(x) PROVE FALSE
  <2>1. mac' = Pair!Ended(x, "cancelled") \/ mac' = Pair!Ended(x, "failed")
    BY <1>12 DEF Pair!NoAnswer, Pair!ChallengeFails, Pair!Fails
  <2>2. QED
    BY <1>4, <2>1 DEF Results
<1>13. ASSUME NEW x \in Macs, Pair!Breaks(x) \/ Pair!Kill(x) PROVE FALSE
  <2>1. PICK end \in {"failed", Pair!None} :
          mac' = [y \in Macs |-> IF y \in {x} THEN [Pair!Ended(x, end)[y] EXCEPT !.disturbed = TRUE]
                                 ELSE Pair!Ended(x, end)[y]]
    BY <1>13 DEF Pair!Breaks, Pair!Kill, Pair!Fault
  <2>2. Pair!Ended(x, end) \in [Macs -> MacRecords] /\ Pair!Ended(x, end)[x].result = end
        /\ \A y \in Macs \ {x} : Pair!Ended(x, end)[y] = mac[y]
    <3> DEFINE r == [mac[x] EXCEPT !.at = "idle", !.result = end, !.cert = 0, !.der = 0]
    <3>1. end \in Results /\ "idle" \in Steps
      BY DEF Results, Steps
    <3>2. r \in MacRecords /\ r.result = end
      BY <1>2, <3>1 DEF MacRecords
    <3>3. Pair!Ended(x, end) = [mac EXCEPT ![x] = r]
      BY <1>1 DEF Pair!Ended
    <3> HIDE DEF r
    <3>4. QED
      BY <1>1, <3>2, <3>3
  <2>3. mac'[m].result = mac[m].result \/ mac'[m].result = end
    BY <2>1, <2>2 DEF MacRecords
  <2>4. QED
    BY <2>3 DEF Pair!None
<1>14. ASSUME NEW x \in Macs, Pair!AnswerLost(x) \/ Pair!Unpair(x) PROVE FALSE
  <2>1. mac' = [y \in Macs |-> IF y \in {x} THEN [mac[y] EXCEPT !.disturbed = TRUE] ELSE mac[y]]
    BY <1>14 DEF Pair!AnswerLost, Pair!Unpair, Pair!Fault
  <2>2. mac'[m].result = mac[m].result
    BY <1>1, <2>1 DEF MacRecords
  <2>3. QED
    BY <2>2
<1>15. ASSUME UNCHANGED mac PROVE FALSE
  BY <1>15
<1>16. ASSUME NEW x \in Macs, Pair!SendPin(x) \/ Pair!RefusesPin(x) \/ Pair!LateTaken(x) PROVE FALSE
  BY <1>15, <1>16 DEF Pair!SendPin, Pair!RefusesPin, Pair!LateTaken
<1>17. ASSUME NEW x \in Macs, Pair!Attempt(x) PROVE Pair!Me(m) \in engine.paired
  BY <1>6, <1>7, <1>9, <1>10, <1>11, <1>12, <1>16, <1>17 DEF Pair!Attempt
<1>18. QED
  BY <1>5, <1>8, <1>9, <1>13, <1>14, <1>15, <1>16, <1>17 DEF Pair!Next, Pair!vars

-----------------------------------------------------------------------------
(* Pairing, in the run.                                                    *)

PairPart == part = "pairing" => PairInv

LEMMA PairPartKept == TrafficSpec => []PairPart
<1>1. TrafficInit => PairPart
  BY BoundsAssumption, PairInit DEF TrafficInit, PairPart
<1>2. PairPart /\ [TrafficNext]_allVars => PairPart'
  <2> SUFFICES ASSUME PairPart, [TrafficNext]_allVars, part' = "pairing"
               PROVE  PairInv'
    BY DEF PairPart
  <2>1. part = "pairing" /\ PairInv
    BY DEF PairPart, TrafficNext, allVars
  <2>2. [Pair!Next]_Pair!vars
    BY <2>1 DEF TrafficNext, allVars, Pair!vars
  <2>3. QED
    BY <2>1, <2>2, BoundsAssumption, PairNext
<1>3. QED
  BY <1>1, <1>2, PTL DEF TrafficSpec

\* Both sides of a pairing know each other or neither does, in every behaviour
\* of the run, whichever part it is of.
THEOREM TrafficPairsRight == TrafficSpec => []PairingIsRight
<1>1. PairPart => PairingIsRight
  BY BoundsAssumption, PairMeans DEF PairPart, PairingIsRight
<1>2. QED
  BY <1>1, PairPartKept, PTL

-----------------------------------------------------------------------------
(* Pictures.                                                               *)

\* VideoPath's variables.
dec == v1
vt == v2
slot == v3
ui == v4
health == v5
net == v6
wake == v7
worker == v8
made == v9
news == v10
dropped == v11
videoFaults == v12
USE DEF dec, vt, slot, ui, health, net, wake, worker, made, news, dropped, videoFaults

\* The count that VideoPath takes is the one the library's theorems are about.
LEMMA SameCounting == \A S : Video!Cardinality(S) = Cardinality(S)
BY DEF Video!Cardinality, Video!IsFiniteSet, Cardinality, IsFiniteSet

VideoSteps == {"idle", "decode", "frame", "publish", "undrawn", "wake", "answer"}

Units == [at : VideoSteps, unit : [idr : BOOLEAN, sets : 0..Sets, body : BOOLEAN],
          buffer : BOOLEAN, undrawn : BOOLEAN, result : {"none", "error", "frame"}]
Slots == [latest : Nat, seq : Nat, spare : 0..Spares]
Windows == [at : {"idle", "take", "upload", "paint"}, frame : Nat, planes : {"old", "ours"},
            shown : {"nothing", "old", "ours"}, last : Nat]
Healths == [frame : 0..Video!Never, black : 0..Video!Never, error : BOOLEAN, since : 0..Video!Never]
Nets == [wantsIdr : BOOLEAN, sent : 0..MaxUnits, sets : 1..Sets]

Kinds ==
  /\ dec \in [session : {"none", "ok", "dead"}, format : 0..Sets, params : 0..Sets]
  /\ dec.params = dec.format
  /\ vt \in Units
  /\ slot \in Slots
  /\ ui \in Windows
  /\ health \in Healths
  /\ net \in Nets
  /\ wake \in BOOLEAN /\ worker \in {"runs", "decoder", "latest", "finished"}
  /\ made \in Nat /\ news \in Nat /\ dropped \in Nat /\ videoFaults \in Nat

\* A picture is counted when it is made, so one that is not published yet is
\* newer than all that the slot and the window have.
PlaceInv ==
  /\ made + (IF vt.at = "decode" THEN 1 ELSE 0) <= net.sent
  /\ slot.latest <= made /\ slot.seq <= made /\ ui.frame <= made
  /\ vt.at \in {"frame", "publish"} => slot.latest < made /\ ui.frame < made
  /\ vt.at \in {"frame", "publish", "undrawn", "wake"} => made # 0
  /\ vt.at = "undrawn" => slot.latest # 0
  /\ ui.frame # 0 => ui.frame # slot.latest
  /\ ui.frame # 0 <=> ui.at = "upload"
  /\ vt.unit.idr => vt.unit.sets # 0
  /\ vt.at \notin {"idle", "answer"} => worker = "runs"

\* Once a picture is counted one is on its way to the textures, or in them,
\* until the worker empties the slot.
NewInv ==
  /\ ui.at # "idle" => slot.seq # 0
  /\ slot.seq # 0 /\ ui.planes = "old" =>
       slot.latest # 0 \/ ui.frame # 0 \/ worker \in {"latest", "finished"}
  /\ ui.at = "paint" /\ ui.planes = "old" => worker \in {"latest", "finished"}
  /\ Video!NoOldPicture

\* The buffers there are: each was allocated, and each is in one place.
One(c) == IF c THEN 1 ELSE 0
Around == slot.spare + One(slot.latest # 0) + One(ui.frame # 0) + One(vt.undrawn)
Filling == One(vt.buffer) + One(vt.at \in {"frame", "publish"})
BufferInv ==
  /\ vt.buffer => vt.at = "decode"
  /\ vt.undrawn => vt.at = "undrawn"
  /\ Around + Filling <= 3
  /\ vt.at = "decode" /\ ~vt.buffer => Around <= 2
  /\ worker \in {"runs", "decoder"} => news <= dropped + Around + Filling
  /\ news <= 3 + dropped

\* What is remembered of errors and pictures.
HealthInv ==
  /\ slot.seq # 0 \/ vt.at \in {"publish", "undrawn", "wake"} => health.frame # Video!Never
  /\ net.wantsIdr => vt.at = "idle" /\ (health.error \/ health.frame = Video!Never)

VideoInv == Kinds /\ PlaceInv /\ NewInv /\ BufferInv /\ HealthInv

LEMMA VideoInit == Video!VideoAssumption /\ Video!Init => VideoInv
<1> SUFFICES ASSUME Video!VideoAssumption, Video!Init PROVE VideoInv
  OBVIOUS
<1>1. Kinds
  <2>1. dec \in [session : {"none", "ok", "dead"}, format : 0..Sets, params : 0..Sets]
        /\ dec.params = dec.format
    BY DEF Video!VideoAssumption, Video!Init
  <2>2. vt \in Units
    BY DEF Video!VideoAssumption, Video!Init, VideoSteps, Video!Idle, Video!NoUnit, Units
  <2>3. health \in Healths
    BY DEF Video!VideoAssumption, Video!Init, Video!Never, Healths
  <2>4. slot \in Slots
    BY DEF Video!VideoAssumption, Video!Init, Slots
  <2>5. ui \in Windows
    BY DEF Video!Init, Windows
  <2>6. net \in Nets
    BY DEF Video!VideoAssumption, Video!Init, Nets
  <2>7. wake \in BOOLEAN /\ worker \in {"runs", "decoder", "latest", "finished"}
        /\ made \in Nat /\ news \in Nat /\ dropped \in Nat /\ videoFaults \in Nat
    BY DEF Video!Init
  <2>8. QED
    BY <2>1, <2>2, <2>3, <2>4, <2>5, <2>6, <2>7 DEF Kinds
<1>2. PlaceInv /\ NewInv /\ HealthInv
  BY DEF Video!VideoAssumption, Video!Init, PlaceInv, NewInv, HealthInv, Video!Idle,
         Video!NoUnit, Video!NoOldPicture
<1>3. BufferInv
  BY DEF Video!VideoAssumption, Video!Init, BufferInv, Around, Filling, One, Video!Idle,
         Video!NoUnit
<1>4. QED
  BY <1>1, <1>2, <1>3 DEF VideoInv

\* What a decoder may be.
Decoders == {d \in [session : {"none", "ok", "dead"}, format : 0..Sets, params : 0..Sets] :
               d.params = d.format}

LEMMA CreateKinds == \A d \in Decoders, works \in BOOLEAN : Video!Create(d, works) \in Decoders
BY DEF Video!Create, Decoders

LEMMA SettingKinds ==
  \A d \in Decoders, sets \in 0..Sets, fmt, accepts, works \in BOOLEAN :
    Video!SetParameters(d, sets, fmt, accepts, works) \in Decoders
<1> TAKE d \in Decoders, sets \in 0..Sets, fmt, accepts, works \in BOOLEAN
<1> DEFINE new == [d EXCEPT !.format = sets, !.params = sets]
<1>1. new \in Decoders
  BY DEF Decoders
<1>2. Video!Create(new, works) \in Decoders /\ Video!Create(d, works) \in Decoders
  BY <1>1, CreateKinds
<1>3. QED
  BY <1>1, <1>2 DEF Video!SetParameters

LEMMA StatusKinds == \A d \in Decoders, works \in BOOLEAN :
  Video!DecodeStatus(d, works) \in Decoders
BY CreateKinds DEF Video!DecodeStatus

\* The decoder after a unit with sets.
After(d, sets, fmt, accepts, works) ==
  IF sets = 0 THEN d ELSE Video!SetParameters(d, sets, fmt, accepts, works)

\* Nothing fails: no trouble is counted.
LEMMA NoTrouble ==
  \A fmt, works, good \in BOOLEAN :
    LET bad == {x \in {<<1, fmt>>, <<2, works>>, <<3, good>>} : ~x[2]} IN
      Video!Cardinality(bad) \in Nat /\ (Video!Cardinality(bad) = 0 => fmt /\ works /\ good)
<1> TAKE fmt, works, good \in BOOLEAN
<1> DEFINE all == {<<1, fmt>>, <<2, works>>, <<3, good>>}
           bad == {x \in all : ~x[2]}
<1>1. IsFiniteSet(all)
  <2>1. IsFiniteSet({<<1, fmt>>}) /\ IsFiniteSet({<<2, works>>}) /\ IsFiniteSet({<<3, good>>})
    BY FS_Singleton
  <2>2. all = ({<<1, fmt>>} \cup {<<2, works>>}) \cup {<<3, good>>}
    OBVIOUS
  <2> HIDE DEF all
  <2>3. QED
    BY <2>1, <2>2, FS_Union
<1>2. IsFiniteSet(bad) /\ bad \subseteq all
  <2>1. bad \subseteq all
    OBVIOUS
  <2> HIDE DEF all, bad
  <2>2. QED
    BY <1>1, <2>1, FS_Subset
<1>3. Video!Cardinality(bad) \in Nat /\ (Video!Cardinality(bad) = 0 => bad = {})
  <2> HIDE DEF all, bad
  <2>1. QED
    BY <1>2, FS_CardinalityType, FS_EmptySet, SameCounting
<1>4. bad = {} => fmt /\ works /\ good
  <2> HAVE bad = {}
  <2>1. <<1, fmt>> \notin bad /\ <<2, works>> \notin bad /\ <<3, good>> \notin bad
    OBVIOUS
  <2>2. QED
    BY <2>1
<1>5. QED
  BY <1>3, <1>4

\* What the decoder thread has in hand after Decode, by the result.
LEMMA DecodeStep ==
  ASSUME Video!VideoAssumption, Kinds, Video!Decode
  PROVE  /\ vt.at = "decode" /\ dec' \in Decoders /\ videoFaults' \in Nat
         /\ vt' = [vt EXCEPT !.at = vt'.at, !.result = vt'.result, !.buffer = FALSE]
         /\ vt'.at \in {"frame", "answer"} /\ vt'.result \in {"none", "error", "frame"}
         /\ vt'.result = "frame" <=> vt'.at = "frame"
         /\ made' = IF vt'.at = "frame" THEN made + 1 ELSE made
         /\ news' = IF vt'.at = "frame" /\ ~vt.buffer THEN news + 1 ELSE news
         /\ dropped' = IF vt'.at # "frame" /\ vt.buffer THEN dropped + 1 ELSE dropped
         /\ UNCHANGED <<slot, ui, health, net, wake, worker>>
<1>1. PICK fmt, accepts, works, good \in BOOLEAN :
       LET u == vt.unit
           failed == (u.sets # 0 /\ u.sets # dec.params /\ ~fmt)
           d1 == IF u.sets = 0 THEN dec ELSE Video!SetParameters(dec, u.sets, fmt, accepts, works)
           result == IF failed \/ d1.session = "none" THEN "error"
                     ELSE IF ~u.body THEN "none"
                     ELSE IF d1.session = "dead" \/ ~good THEN "error"
                     ELSE "frame"
           d2 == IF failed \/ ~u.body THEN d1 ELSE Video!DecodeStatus(d1, works)
           trouble == Video!Cardinality({x \in {<<1, fmt>>, <<2, works>>, <<3, good>>} : ~x[2]})
       IN  /\ videoFaults + trouble <= VideoFaults
           /\ videoFaults' = videoFaults + trouble
           /\ dec' = d2
           /\ vt' = [vt EXCEPT !.at = IF result = "frame" THEN "frame" ELSE "answer",
                               !.result = result, !.buffer = FALSE]
           /\ made' = IF result = "frame" THEN made + 1 ELSE made
           /\ news' = IF result = "frame" /\ ~vt.buffer THEN news + 1 ELSE news
           /\ dropped' = IF result # "frame" /\ vt.buffer THEN dropped + 1 ELSE dropped
  BY DEF Video!Decode
<1> DEFINE u == vt.unit
           failed == (u.sets # 0 /\ u.sets # dec.params /\ ~fmt)
           d1 == After(dec, u.sets, fmt, accepts, works)
           result == IF failed \/ d1.session = "none" THEN "error"
                     ELSE IF ~u.body THEN "none"
                     ELSE IF d1.session = "dead" \/ ~good THEN "error"
                     ELSE "frame"
           d2 == IF failed \/ ~u.body THEN d1 ELSE Video!DecodeStatus(d1, works)
           trouble == Video!Cardinality({x \in {<<1, fmt>>, <<2, works>>, <<3, good>>} : ~x[2]})
<1>2. /\ videoFaults' = videoFaults + trouble
      /\ dec' = d2
      /\ vt' = [vt EXCEPT !.at = IF result = "frame" THEN "frame" ELSE "answer",
                          !.result = result, !.buffer = FALSE]
      /\ made' = IF result = "frame" THEN made + 1 ELSE made
      /\ news' = IF result = "frame" /\ ~vt.buffer THEN news + 1 ELSE news
      /\ dropped' = IF result # "frame" /\ vt.buffer THEN dropped + 1 ELSE dropped
  BY <1>1 DEF After
<1>3. result \in {"none", "error", "frame"}
  OBVIOUS
<1>4. d2 \in Decoders
  <2>1. dec \in Decoders /\ u.sets \in 0..Sets
    BY DEF Kinds, Decoders, Units
  <2>2. d1 \in Decoders
    BY <2>1, SettingKinds DEF After
  <2> HIDE DEF d1
  <2>3. QED
    BY <2>2, StatusKinds
<1>5. trouble \in Nat
  BY NoTrouble
<1> HIDE DEF trouble, d2, result
<1>6. vt.at = "decode" /\ UNCHANGED <<slot, ui, health, net, wake, worker>>
  BY DEF Video!Decode
<1>7. DOMAIN vt = {"at", "unit", "buffer", "undrawn", "result"} /\ videoFaults \in Nat
  BY DEF Kinds, Units
<1>8. vt'.at = IF result = "frame" THEN "frame" ELSE "answer"
  BY <1>2, <1>7
<1>9. vt'.result = result
  BY <1>2, <1>7
<1>10. QED
  BY <1>2, <1>3, <1>4, <1>5, <1>6, <1>7, <1>8, <1>9, SMTT(40), ZenonT(60)

\* Each step keeps the kinds.
LEMMA KindsStep == ASSUME Video!VideoAssumption, VideoInv, [Video!Next]_Video!vars PROVE Kinds'
<1> USE DEF Video!VideoAssumption
<1>k. Kinds
  BY DEF VideoInv
<1>b. /\ vt \in Units /\ slot \in Slots /\ ui \in Windows /\ health \in Healths /\ net \in Nets
      /\ videoFaults \in Nat /\ made \in Nat /\ news \in Nat /\ dropped \in Nat
  BY <1>k DEF Kinds
<1>1. CASE Video!Dies
  BY <1>k, <1>1 DEF Kinds, Video!Dies
<1>2. CASE Video!Unit
  <2>1. PICK idr \in BOOLEAN, sets \in 1..Sets, body \in BOOLEAN :
          /\ vt' = [Video!Idle EXCEPT !.at = "decode", !.buffer = slot.spare > 0,
                   !.unit = [idr |-> idr, sets |-> IF idr THEN sets ELSE 0, body |-> body]]
          /\ net' = [net EXCEPT !.sent = @ + 1, !.sets = sets, !.wantsIdr = @ /\ ~idr]
    BY <1>2 DEF Video!Unit
  <2>2. vt' \in Units
    <3>1. (slot.spare > 0) \in BOOLEAN /\ (IF idr THEN sets ELSE 0) \in 0..Sets
      BY <1>b DEF Slots
    <3>2. QED
      BY <2>1, <3>1 DEF Video!Idle, Video!NoUnit, VideoSteps, Units
  <2>3. net' \in Nets
    <3>1. (net.wantsIdr /\ ~idr) \in BOOLEAN /\ net.sent + 1 \in 0..MaxUnits
      BY <1>b, <1>2 DEF Nets, Video!Unit
    <3>2. \A w \in BOOLEAN, n \in 0..MaxUnits :
            [net EXCEPT !.sent = n, !.sets = sets, !.wantsIdr = w] \in Nets
      BY <1>b DEF Nets
    <3>3. net' = [net EXCEPT !.sent = net.sent + 1, !.sets = sets, !.wantsIdr = net.wantsIdr
          /\ ~idr]
      BY <1>b, <2>1 DEF Nets
    <3>4. QED
      BY <3>1, <3>2, <3>3
  <2>4. slot' \in Slots
    BY <1>b, <1>2 DEF Slots, Video!Unit
  <2>5. QED
    BY <1>k, <1>2, <2>2, <2>3, <2>4 DEF Kinds, Video!Unit
<1>3. CASE Video!Decode
  <2>1. /\ dec' \in Decoders /\ videoFaults' \in Nat
        /\ vt' = [vt EXCEPT !.at = vt'.at, !.result = vt'.result, !.buffer = FALSE]
        /\ vt'.at \in {"frame", "answer"} /\ vt'.result \in {"none", "error", "frame"}
        /\ made' = IF vt'.at = "frame" THEN made + 1 ELSE made
        /\ news' = IF vt'.at = "frame" /\ ~vt.buffer THEN news + 1 ELSE news
        /\ dropped' = IF vt'.at # "frame" /\ vt.buffer THEN dropped + 1 ELSE dropped
        /\ UNCHANGED <<slot, ui, health, net, wake, worker>>
    BY <1>k, <1>3, DecodeStep
  <2>2. vt' \in Units
    <3>2. vt'.at \in VideoSteps /\ vt'.result \in {"none", "error", "frame"}
      BY <2>1 DEF VideoSteps
    <3>3. \A a \in VideoSteps, r \in {"none", "error", "frame"} :
            [vt EXCEPT !.at = a, !.result = r, !.buffer = FALSE] \in Units
      BY <1>b DEF Units
    <3>4. [vt EXCEPT !.at = vt'.at, !.result = vt'.result, !.buffer = FALSE] \in Units
      BY <3>2, <3>3
    <3>5. vt' = [vt EXCEPT !.at = vt'.at, !.result = vt'.result, !.buffer = FALSE]
      BY <2>1
    <3>6. QED
      BY <3>4, <3>5
  <2>3. made' \in Nat /\ news' \in Nat /\ dropped' \in Nat
    BY <1>b, <2>1
  <2>5. dec' \in [session : {"none", "ok", "dead"}, format : 0..Sets, params : 0..Sets]
        /\ dec'.params = dec'.format
    BY <2>1 DEF Decoders
  <2>4. QED
    BY <1>k, <2>1, <2>2, <2>3, <2>5 DEF Kinds
<1>4. CASE Video!HealthFrame
  <2>1. vt' \in Units
    <3>1. "publish" \in VideoSteps
      BY DEF VideoSteps
    <3>2. QED
      BY <1>b, <1>4, <3>1 DEF Video!HealthFrame, Units
  <2>2. \A b \in 0..Video!Never :
        [health EXCEPT !.frame = 0, !.error = FALSE, !.black = b] \in Healths
    <3>1. 0 \in 0..Video!Never
      BY DEF Video!Never
    <3>2. QED
      BY <1>b, <3>1 DEF Healths
  <2>3. PICK black \in BOOLEAN :
          health' = [health EXCEPT !.frame = 0, !.error = FALSE,
                       !.black = IF ~black THEN Video!Never ELSE IF @ = Video!Never THEN 0 ELSE @]
    BY <1>4 DEF Video!HealthFrame
  <2>4. health'= [health EXCEPT !.frame = 0, !.error = FALSE,
                    !.black = IF ~black THEN Video!Never ELSE IF health.black = Video!Never
                      THEN 0 ELSE health.black]
    BY <1>b, <2>3 DEF Healths
  <2>5. (IF ~black THEN Video!Never ELSE IF health.black = Video!Never THEN 0
        ELSE health.black) \in 0..Video!Never
    BY <1>b DEF Healths, Video!Never
  <2>6. QED
    BY <1>k, <1>4, <2>1, <2>2, <2>4, <2>5 DEF Kinds, Video!HealthFrame
<1>5. CASE Video!Publish
  <2>1. \A b \in BOOLEAN : [vt EXCEPT !.at = "undrawn", !.undrawn = b] \in Units
    BY <1>b DEF Units, VideoSteps
  <2>2. slot' \in Slots
    BY <1>b, <1>5 DEF Video!Publish, Slots
  <2>3. vt' \in Units
    BY <1>5, <2>1 DEF Video!Publish
  <2>4. QED
    BY <1>k, <1>5, <2>2, <2>3 DEF Kinds, Video!Publish
<1>6. CASE Video!Undrawn
  <2>1. slot' \in Slots
    <3>1. (IF vt.undrawn /\ slot.spare < Spares THEN slot.spare + 1 ELSE slot.spare) \in 0..Spares
      BY <1>b DEF Slots
    <3>2. \A n \in 0..Spares : [slot EXCEPT !.seq = made, !.spare = n] \in Slots
      BY <1>b DEF Slots
    <3>3. slot' = [slot EXCEPT !.seq = made, !.spare = IF vt.undrawn /\ slot.spare < Spares
                                                       THEN slot.spare + 1 ELSE slot.spare]
      BY <1>b, <1>6 DEF Video!Undrawn, Slots
    <3>4. QED
      BY <3>1, <3>2, <3>3
  <2>2. vt' \in Units
    BY <1>b, <1>6 DEF Video!Undrawn, Units, VideoSteps
  <2>3. QED
    BY <1>k, <1>6, <2>1, <2>2 DEF Kinds, Video!Undrawn
<1>7. CASE Video!Wake
  <2>1. vt' \in Units
    BY <1>7 DEF Video!Wake, Units, VideoSteps, Video!Idle, Video!NoUnit
  <2>2. QED
    BY <1>k, <1>7, <2>1 DEF Kinds, Video!Wake
<1>8. CASE Video!Answer
  <2>1. vt' \in Units
    BY <1>8 DEF Video!Answer, VideoSteps, Video!Idle, Video!NoUnit, Units
  <2>2. health' \in Healths
    <3>1. \A b \in BOOLEAN : [health EXCEPT !.error = b] \in Healths
      BY <1>b DEF Healths
    <3>2. health' = [health EXCEPT !.error = health.error \/ vt.result = "error"]
      BY <1>b, <1>8 DEF Video!Answer, Healths
    <3>3. (health.error \/ vt.result = "error") \in BOOLEAN
      BY <1>b DEF Healths
    <3>4. QED
      BY <3>1, <3>2, <3>3
  <2>3. net' \in Nets
    <3>1. \A b \in BOOLEAN : [net EXCEPT !.wantsIdr = b] \in Nets
      BY <1>b DEF Nets
    <3>2. net' = [net EXCEPT !.wantsIdr = net.wantsIdr \/ vt.result = "error"]
      BY <1>b, <1>8 DEF Video!Answer, Nets
    <3>3. (net.wantsIdr \/ vt.result = "error") \in BOOLEAN
      BY <1>b DEF Nets
    <3>4. QED
      BY <3>1, <3>2, <3>3
  <2>4. QED
    BY <1>k, <1>8, <2>1, <2>2, <2>3 DEF Kinds, Video!Answer
<1>9. CASE Video!Look
  <2>1. ui' \in Windows /\ wake' \in BOOLEAN
    BY <1>b, <1>9 DEF Windows, Video!Look
  <2>2. QED
    BY <1>k, <1>9, <2>1 DEF Kinds, Video!Look
<1>10. CASE Video!Take
  <2>1. slot' \in Slots
    BY <1>b, <1>10 DEF Slots, Video!Take
  <2>2. ui' \in Windows
    BY <1>b, <1>10 DEF Slots, Windows, Video!Take
  <2>3. QED
    BY <1>k, <1>10, <2>1, <2>2 DEF Kinds, Video!Take
<1>11. CASE Video!Upload
  <2>1. slot' \in Slots
    BY <1>b, <1>11 DEF Slots, Video!Upload
  <2>2. ui' \in Windows
    BY <1>b, <1>11 DEF Windows, Video!Upload
  <2>3. QED
    BY <1>k, <1>11, <2>1, <2>2 DEF Kinds, Video!Upload
<1>12. CASE Video!Paint
  <2>1. ui' \in Windows
    BY <1>b, <1>12 DEF Windows, Video!Paint
  <2>2. QED
    BY <1>k, <1>12, <2>1 DEF Kinds, Video!Paint
<1>13. CASE Video!WorkerEnds
  <2>1. slot' \in Slots
    BY <1>b, <1>13 DEF Slots, Video!WorkerEnds
  <2>2. dec' \in [session : {"none", "ok", "dead"}, format : 0..Sets, params : 0..Sets]
        /\ dec'.params = dec'.format
    BY <1>k, <1>13 DEF Kinds, Video!WorkerEnds
  <2>3. QED
    BY <1>k, <1>13, <2>1, <2>2 DEF Kinds, Video!WorkerEnds
<1>14. CASE Video!Connected
  <2>1. health' \in Healths
    BY <1>b, <1>14 DEF Healths, Video!Connected, Video!Never
  <2>2. QED
    BY <1>k, <1>14, <2>1 DEF Kinds, Video!Connected
<1>15. CASE Video!Tick
  <2>1. Video!Older(health.frame) \in 0..Video!Never /\ Video!Older(health.black) \in 0..Video!Never
        /\ Video!Older(health.since) \in 0..Video!Never
    BY <1>b DEF Healths, Video!Older, Video!Never
  <2>2. \A f, b, n \in 0..Video!Never :
          [health EXCEPT !.frame = f, !.black = b, !.since = n] \in Healths
    BY <1>b DEF Healths
  <2>3. health' = [health EXCEPT !.frame = Video!Older(health.frame),
        !.black = Video!Older(health.black),
                                 !.since = Video!Older(health.since)]
    BY <1>b, <1>15 DEF Video!Tick, Healths
  <2>4. health' \in Healths
    BY <2>1, <2>2, <2>3
  <2>5. QED
    BY <1>k, <1>15, <2>4 DEF Kinds, Video!Tick
<1>16. CASE UNCHANGED Video!vars
  BY <1>k, <1>16 DEF Kinds, Video!vars
<1>17. QED
  BY <1>1, <1>2, <1>3, <1>4, <1>5, <1>6, <1>7, <1>8, <1>9, <1>10, <1>11, <1>12, <1>13, <1>14,
     <1>15, <1>16 DEF Video!Next, Video!Thread, Video!Frame

\* Each step keeps the rest of the invariant, as seen through the pieces it changes.
LEMMA PlaceStep == ASSUME Video!VideoAssumption, VideoInv, [Video!Next]_Video!vars PROVE PlaceInv'
<1> USE DEF Video!VideoAssumption
<1>k. /\ vt \in Units /\ slot \in Slots /\ ui \in Windows /\ net \in Nets
      /\ made \in Nat /\ PlaceInv /\ Kinds
  BY DEF VideoInv, Kinds
<1>1. CASE Video!Dies
  BY <1>k, <1>1 DEF PlaceInv, Video!Dies
<1>2. CASE Video!Unit
  <2>1. PICK idr \in BOOLEAN, sets \in 1..Sets, body \in BOOLEAN :
          /\ vt' = [Video!Idle EXCEPT !.at = "decode", !.buffer = slot.spare > 0,
                   !.unit = [idr |-> idr, sets |-> IF idr THEN sets ELSE 0, body |-> body]]
          /\ net' = [net EXCEPT !.sent = @ + 1, !.sets = sets, !.wantsIdr = @ /\ ~idr]
    BY <1>2 DEF Video!Unit
  <2>2. vt'.at = "decode" /\ net'.sent = net.sent + 1 /\ (vt'.unit.idr => vt'.unit.sets # 0)
    BY <1>k, <2>1 DEF Video!Idle, Video!NoUnit, Nets
  <2>3. slot'.latest = slot.latest /\ slot'.seq = slot.seq /\ UNCHANGED <<ui, made, worker>>
    BY <1>k, <1>2 DEF Video!Unit, Slots
  <2>4. vt.at = "idle" /\ worker = "runs"
    BY <1>2 DEF Video!Unit
  <2>5. QED
    BY <1>k, <2>2, <2>3, <2>4 DEF PlaceInv, Nets
<1>3. CASE Video!Decode
  <2>1. /\ vt.at = "decode"
        /\ vt' = [vt EXCEPT !.at = vt'.at, !.result = vt'.result, !.buffer = FALSE]
        /\ vt'.at \in {"frame", "answer"}
        /\ made' = IF vt'.at = "frame" THEN made + 1 ELSE made
        /\ UNCHANGED <<slot, ui, health, net, wake, worker>>
    BY <1>k, <1>3, DecodeStep
  <2>2. vt'.unit = vt.unit
    BY <1>k, <2>1 DEF Units
  <2>3. QED
    BY <1>k, <2>1, <2>2 DEF PlaceInv, Units, Nets, Slots, Windows
<1>4. CASE Video!HealthFrame
  BY <1>k, <1>4 DEF PlaceInv, Video!HealthFrame, Units
<1>5. CASE Video!Publish
  <2>1. vt'.at = "undrawn" /\ vt'.unit = vt.unit /\ vt.at = "publish"
    BY <1>k, <1>5 DEF Video!Publish, Units
  <2>2. slot'.latest = made /\ slot'.seq = slot.seq /\ UNCHANGED <<ui, net, made, worker>>
    BY <1>k, <1>5 DEF Video!Publish, Slots
  <2>3. QED
    BY <1>k, <2>1, <2>2 DEF PlaceInv, Nets, Slots, Windows
<1>6. CASE Video!Undrawn
  <2>1. vt'.at = "wake" /\ vt'.unit = vt.unit /\ vt.at = "undrawn"
    BY <1>k, <1>6 DEF Video!Undrawn, Units
  <2>2. slot'.latest = slot.latest /\ slot'.seq = made /\ UNCHANGED <<ui, net, made, worker>>
    BY <1>k, <1>6 DEF Video!Undrawn, Slots
  <2>3. QED
    BY <1>k, <2>1, <2>2 DEF PlaceInv, Nets, Slots, Windows
<1>7. CASE Video!Wake
  <2>1. vt'.at = "idle" /\ vt'.unit = Video!NoUnit /\ vt.at = "wake"
    BY <1>7 DEF Video!Wake, Video!Idle
  <2>2. QED
    BY <1>k, <1>7, <2>1 DEF PlaceInv, Video!Wake, Video!NoUnit, Nets
<1>8. CASE Video!Answer
  <2>1. vt'.at = "idle" /\ vt'.unit = Video!NoUnit /\ vt.at = "answer"
    BY <1>8 DEF Video!Answer, Video!Idle
  <2>2. net'.sent = net.sent /\ UNCHANGED <<slot, ui, made, worker>>
    BY <1>k, <1>8 DEF Video!Answer, Nets
  <2>3. QED
    BY <1>k, <2>1, <2>2 DEF PlaceInv, Video!NoUnit, Nets
<1>9. CASE Video!Look
  <2>1. ui'.frame = ui.frame /\ ui'.at \in {"idle", "take"} /\ ui.at = "idle"
    BY <1>k, <1>9 DEF Video!Look, Windows
  <2>2. QED
    BY <1>k, <1>9, <2>1 DEF PlaceInv, Video!Look
<1>10. CASE Video!Take
  <2>1. slot'.latest = 0 /\ slot'.seq = slot.seq /\ UNCHANGED <<vt, net, made, worker>>
    BY <1>k, <1>10 DEF Video!Take, Slots
  <2>2. ui'.frame = slot.latest /\ ui'.at = (IF slot.latest = 0 THEN "paint" ELSE "upload")
    BY <1>k, <1>10 DEF Video!Take, Windows
  <2>3. vt.at # "undrawn"
    BY <1>10 DEF Video!Take
  <2>4. QED
    BY <1>k, <2>1, <2>2, <2>3 DEF PlaceInv, Slots
<1>11. CASE Video!Upload
  <2>1. slot'.latest = slot.latest /\ slot'.seq = slot.seq /\ UNCHANGED <<vt, net, made, worker>>
    BY <1>k, <1>11 DEF Video!Upload, Slots
  <2>2. ui'.frame = 0 /\ ui'.at = "paint"
    BY <1>k, <1>11 DEF Video!Upload, Windows
  <2>3. QED
    BY <1>k, <2>1, <2>2 DEF PlaceInv
<1>12. CASE Video!Paint
  <2>1. ui'.frame = ui.frame /\ ui'.at = "idle" /\ ui.at = "paint"
    BY <1>k, <1>12 DEF Video!Paint, Windows
  <2>2. QED
    BY <1>k, <1>12, <2>1 DEF PlaceInv, Video!Paint
<1>13. CASE Video!WorkerEnds
  <2>1. slot'.latest \in {0, slot.latest} /\ slot'.seq = slot.seq
    BY <1>k, <1>13 DEF Video!WorkerEnds, Slots
  <2>2. QED
    BY <1>k, <1>13, <2>1 DEF PlaceInv, Video!WorkerEnds
<1>14. CASE Video!Connected
  BY <1>k, <1>14 DEF PlaceInv, Video!Connected
<1>15. CASE Video!Tick
  BY <1>k, <1>15 DEF PlaceInv, Video!Tick
<1>16. CASE UNCHANGED Video!vars
  BY <1>k, <1>16 DEF PlaceInv, Video!vars
<1>17. QED
  BY <1>1, <1>2, <1>3, <1>4, <1>5, <1>6, <1>7, <1>8, <1>9, <1>10, <1>11, <1>12, <1>13, <1>14,
     <1>15, <1>16 DEF Video!Next, Video!Thread, Video!Frame

LEMMA NewStep == ASSUME Video!VideoAssumption, VideoInv, [Video!Next]_Video!vars PROVE NewInv'
<1> USE DEF Video!VideoAssumption
<1>k. /\ vt \in Units /\ slot \in Slots /\ ui \in Windows
      /\ made \in Nat /\ PlaceInv /\ NewInv /\ Kinds
  BY DEF VideoInv, Kinds
<1>1. CASE Video!Dies
  BY <1>k, <1>1 DEF NewInv, Video!NoOldPicture, Video!Dies
<1>2. CASE Video!Unit
  <2>1. slot'.latest = slot.latest /\ slot'.seq = slot.seq /\ UNCHANGED <<ui, worker>>
    BY <1>k, <1>2 DEF Video!Unit, Slots
  <2>2. QED
    BY <1>k, <2>1 DEF NewInv, Video!NoOldPicture
<1>3. CASE Video!Decode
  <2>1. UNCHANGED <<slot, ui, worker>>
    BY <1>3 DEF Video!Decode
  <2>2. QED
    BY <1>k, <2>1 DEF NewInv, Video!NoOldPicture
<1>4. CASE Video!HealthFrame
  BY <1>k, <1>4 DEF NewInv, Video!NoOldPicture, Video!HealthFrame
<1>5. CASE Video!Publish
  <2>1. slot'.latest = made /\ slot'.seq = slot.seq /\ UNCHANGED <<ui, worker>> /\ made # 0
    BY <1>k, <1>5 DEF Video!Publish, Slots, PlaceInv
  <2>2. QED
    BY <1>k, <2>1 DEF NewInv, Video!NoOldPicture
<1>6. CASE Video!Undrawn
  <2>1. slot'.latest = slot.latest /\ slot'.seq = made /\ made # 0 /\ slot.latest # 0
        /\ UNCHANGED <<ui, worker>>
    BY <1>k, <1>6 DEF Video!Undrawn, Slots, PlaceInv
  <2>2. QED
    BY <1>k, <2>1 DEF NewInv, Video!NoOldPicture
<1>7. CASE Video!Wake
  BY <1>k, <1>7 DEF NewInv, Video!NoOldPicture, Video!Wake
<1>8. CASE Video!Answer
  BY <1>k, <1>8 DEF NewInv, Video!NoOldPicture, Video!Answer
<1>9. CASE Video!Look
  <2>1. ui'.frame = ui.frame /\ ui'.planes = ui.planes
        /\ \/ ui'.at = "idle" /\ ui'.shown = "nothing"
           \/ ui'.at = "take" /\ slot.seq # 0 /\ ui'.shown = ui.shown
    BY <1>k, <1>9 DEF Video!Look, Windows
  <2>2. QED
    BY <1>k, <1>9, <2>1 DEF NewInv, Video!NoOldPicture, Video!Look
<1>10. CASE Video!Take
  <2>1. slot'.latest = 0 /\ slot'.seq = slot.seq /\ UNCHANGED worker
    BY <1>k, <1>10 DEF Video!Take, Slots
  <2>2. /\ ui'.frame = slot.latest /\ ui'.planes = ui.planes /\ ui'.shown = ui.shown
        /\ ui'.at = (IF slot.latest = 0 THEN "paint" ELSE "upload")
        /\ ui.at = "take" /\ ui.frame = 0
    BY <1>k, <1>10 DEF Video!Take, Windows, PlaceInv
  <2>4. QED
    BY <1>k, <2>1, <2>2 DEF NewInv, Video!NoOldPicture
<1>11. CASE Video!Upload
  <2>1. slot'.latest = slot.latest /\ slot'.seq = slot.seq /\ UNCHANGED worker
    BY <1>k, <1>11 DEF Video!Upload, Slots
  <2>2. ui'.planes = "ours" /\ ui'.shown = ui.shown /\ ui'.at = "paint" /\ ui.at = "upload"
    BY <1>k, <1>11 DEF Video!Upload, Windows
  <2>3. QED
    BY <1>k, <2>1, <2>2 DEF NewInv, Video!NoOldPicture
<1>12. CASE Video!Paint
  <2>1. /\ ui'.frame = ui.frame /\ ui'.at = "idle" /\ ui.at = "paint" /\ ui'.planes = ui.planes
        /\ ui'.shown = ui.planes
    BY <1>k, <1>12 DEF Video!Paint, Windows
  <2>2. QED
    BY <1>k, <1>12, <2>1 DEF NewInv, Video!NoOldPicture, Video!Paint
<1>13. CASE Video!WorkerEnds
  <2>1. slot'.seq = slot.seq /\ UNCHANGED ui
    BY <1>k, <1>13 DEF Video!WorkerEnds, Slots
  <2>2. slot'.latest # slot.latest \/ worker \in {"latest", "finished"} =>
          worker' \in {"latest", "finished"}
    BY <1>k, <1>13 DEF Video!WorkerEnds, Slots
  <2>3. QED
    BY <1>k, <2>1, <2>2 DEF NewInv, Video!NoOldPicture
<1>14. CASE Video!Connected
  BY <1>k, <1>14 DEF NewInv, Video!NoOldPicture, Video!Connected
<1>15. CASE Video!Tick
  BY <1>k, <1>15 DEF NewInv, Video!NoOldPicture, Video!Tick
<1>16. CASE UNCHANGED Video!vars
  BY <1>k, <1>16 DEF NewInv, Video!NoOldPicture, Video!vars
<1>17. QED
  BY <1>1, <1>2, <1>3, <1>4, <1>5, <1>6, <1>7, <1>8, <1>9, <1>10, <1>11, <1>12, <1>13, <1>14,
     <1>15, <1>16 DEF Video!Next, Video!Thread, Video!Frame

LEMMA HealthStep == ASSUME Video!VideoAssumption, VideoInv, [Video!Next]_Video!vars PROVE HealthInv'
<1> USE DEF Video!VideoAssumption
<1>k. /\ vt \in Units /\ slot \in Slots /\ health \in Healths /\ net \in Nets
      /\ made \in Nat /\ PlaceInv /\ HealthInv /\ Kinds /\ Video!Never # 0
  BY DEF VideoInv, Kinds, Video!Never
<1>1. CASE Video!Dies
  BY <1>k, <1>1 DEF HealthInv, Video!Dies
<1>2. CASE Video!Unit
  <2>1. PICK idr \in BOOLEAN, sets \in 1..Sets, body \in BOOLEAN :
          /\ idr \/ (~net.wantsIdr /\ sets = net.sets)
          /\ vt' = [Video!Idle EXCEPT !.at = "decode", !.buffer = slot.spare > 0,
                   !.unit = [idr |-> idr, sets |-> IF idr THEN sets ELSE 0, body |-> body]]
          /\ net' = [net EXCEPT !.sent = @ + 1, !.sets = sets, !.wantsIdr = @ /\ ~idr]
    BY <1>2 DEF Video!Unit
  <2>2. vt'.at = "decode" /\ ~net'.wantsIdr
    BY <1>k, <2>1 DEF Video!Idle, Video!NoUnit, Nets
  <2>3. slot'.seq = slot.seq /\ UNCHANGED health /\ vt.at = "idle"
    BY <1>k, <1>2 DEF Video!Unit, Slots
  <2>5. QED
    BY <1>k, <2>2, <2>3 DEF HealthInv
<1>3. CASE Video!Decode
  <2>1. /\ vt.at = "decode" /\ vt'.at \in {"frame", "answer"}
        /\ UNCHANGED <<slot, health, net>>
    BY <1>k, <1>3, DecodeStep
  <2>3. QED
    BY <1>k, <2>1 DEF HealthInv
<1>4. CASE Video!HealthFrame
  <2>1. vt.at = "frame" /\ health'.frame = 0 /\ UNCHANGED net
    BY <1>k, <1>4 DEF Video!HealthFrame, Healths
  <2>2. QED
    BY <1>k, <2>1 DEF HealthInv
<1>5. CASE Video!Publish
  <2>1. vt'.at = "undrawn" /\ vt.at = "publish"
    BY <1>k, <1>5 DEF Video!Publish, Units
  <2>2. slot'.seq = slot.seq /\ UNCHANGED <<net, health>>
    BY <1>k, <1>5 DEF Video!Publish, Slots
  <2>3. QED
    BY <1>k, <2>1, <2>2 DEF HealthInv
<1>6. CASE Video!Undrawn
  <2>1. vt'.at = "wake" /\ vt.at = "undrawn" /\ UNCHANGED <<net, health>>
    BY <1>k, <1>6 DEF Video!Undrawn, Units
  <2>3. QED
    BY <1>k, <2>1 DEF HealthInv
<1>7. CASE Video!Wake
  <2>1. vt'.at = "idle" /\ vt.at = "wake"
    BY <1>7 DEF Video!Wake, Video!Idle
  <2>2. QED
    BY <1>k, <1>7, <2>1 DEF HealthInv, Video!Wake
<1>8. CASE Video!Answer
  <2>1. vt'.at = "idle" /\ vt.at = "answer"
    BY <1>8 DEF Video!Answer, Video!Idle
  <2>2. /\ net'.wantsIdr <=> net.wantsIdr \/ vt.result = "error"
        /\ health'.error <=> health.error \/ vt.result = "error"
        /\ health'.frame = health.frame /\ UNCHANGED slot
    BY <1>k, <1>8 DEF Video!Answer, Nets, Healths
  <2>3. QED
    BY <1>k, <2>1, <2>2 DEF HealthInv
<1>9. CASE Video!Look
  BY <1>k, <1>9 DEF HealthInv, Video!Look
<1>10. CASE Video!Take
  <2>1. slot'.seq = slot.seq /\ UNCHANGED <<vt, net, health>>
    BY <1>k, <1>10 DEF Video!Take, Slots
  <2>4. QED
    BY <1>k, <2>1 DEF HealthInv
<1>11. CASE Video!Upload
  <2>1. slot'.seq = slot.seq /\ UNCHANGED <<vt, net, health>>
    BY <1>k, <1>11 DEF Video!Upload, Slots
  <2>3. QED
    BY <1>k, <2>1 DEF HealthInv
<1>12. CASE Video!Paint
  BY <1>k, <1>12 DEF HealthInv, Video!Paint
<1>13. CASE Video!WorkerEnds
  <2>1. slot'.seq = slot.seq
    BY <1>k, <1>13 DEF Video!WorkerEnds, Slots
  <2>2. QED
    BY <1>k, <1>13, <2>1 DEF HealthInv, Video!WorkerEnds
<1>14. CASE Video!Connected
  <2>1. health'.frame = health.frame /\ health'.error = health.error
    BY <1>k, <1>14 DEF Video!Connected, Healths
  <2>2. QED
    BY <1>k, <1>14, <2>1 DEF HealthInv, Video!Connected
<1>15. CASE Video!Tick
  <2>1. health'.frame = Video!Older(health.frame) /\ health'.error = health.error
    BY <1>k, <1>15 DEF Video!Tick, Healths
  <2>2. Video!Older(health.frame) = Video!Never <=> health.frame = Video!Never
    BY <1>k DEF Video!Older, Video!Never, Healths
  <2>3. QED
    BY <1>k, <1>15, <2>1, <2>2 DEF HealthInv, Video!Tick
<1>16. CASE UNCHANGED Video!vars
  BY <1>k, <1>16 DEF HealthInv, Video!vars
<1>17. QED
  BY <1>1, <1>2, <1>3, <1>4, <1>5, <1>6, <1>7, <1>8, <1>9, <1>10, <1>11, <1>12, <1>13, <1>14,
     <1>15, <1>16 DEF Video!Next, Video!Thread, Video!Frame

LEMMA BufferStep == ASSUME Video!VideoAssumption, VideoInv, [Video!Next]_Video!vars PROVE BufferInv'
<1> USE DEF Video!VideoAssumption
<1>k. /\ vt \in Units /\ slot \in Slots /\ ui \in Windows
      /\ made \in Nat /\ news \in Nat /\ dropped \in Nat /\ PlaceInv /\ BufferInv /\ Kinds
  BY DEF VideoInv, Kinds
<1>1. CASE Video!Dies
  BY <1>k, <1>1 DEF BufferInv, Around, Filling, Video!Dies
<1>2. CASE Video!Unit
  <2>1. PICK idr \in BOOLEAN, sets \in 1..Sets, body \in BOOLEAN :
          vt' = [Video!Idle EXCEPT !.at = "decode", !.buffer = slot.spare > 0,
                   !.unit = [idr |-> idr, sets |-> IF idr THEN sets ELSE 0, body |-> body]]
    BY <1>2 DEF Video!Unit
  <2>2. vt'.at = "decode" /\ (vt'.buffer <=> slot.spare > 0) /\ ~vt'.undrawn
    BY <1>k, <2>1 DEF Video!Idle, Video!NoUnit
  <2>3. /\ slot'.latest = slot.latest /\ slot'.spare = IF slot.spare > 0 THEN slot.spare - 1 ELSE 0
        /\ UNCHANGED <<ui, worker, news, dropped>>
    BY <1>k, <1>2 DEF Video!Unit, Slots
  <2>4. vt.at = "idle" /\ slot.spare \in Nat
    BY <1>k, <1>2 DEF Video!Unit, Slots
  <2>5. QED
    BY <1>k, <2>2, <2>3, <2>4 DEF BufferInv, Around, Filling, One
<1>3. CASE Video!Decode
  <2>1. /\ vt.at = "decode"
        /\ vt' = [vt EXCEPT !.at = vt'.at, !.result = vt'.result, !.buffer = FALSE]
        /\ vt'.at \in {"frame", "answer"}
        /\ news' = IF vt'.at = "frame" /\ ~vt.buffer THEN news + 1 ELSE news
        /\ dropped' = IF vt'.at # "frame" /\ vt.buffer THEN dropped + 1 ELSE dropped
        /\ UNCHANGED <<slot, ui, health, net, wake, worker>>
    BY <1>k, <1>3, DecodeStep
  <2>2. ~vt'.buffer /\ vt'.undrawn = vt.undrawn /\ worker = "runs"
    BY <1>k, <2>1 DEF Units, PlaceInv
  <2>3. Around' = Around /\ Around \in Nat
    BY <1>k, <2>1, <2>2 DEF Around, One, Slots
  <2>4. Filling' = One(vt'.at = "frame") /\ Filling = One(vt.buffer)
    BY <2>1, <2>2 DEF Filling, One
  <2>5. QED
    BY <1>k, <2>1, <2>2, <2>3, <2>4 DEF BufferInv, One
<1>4. CASE Video!HealthFrame
  <2>1. vt.at = "frame" /\ vt'.at = "publish" /\ vt'.buffer = vt.buffer /\ vt'.undrawn = vt.undrawn
    BY <1>k, <1>4 DEF Video!HealthFrame, Units
  <2>2. QED
    BY <1>k, <1>4, <2>1 DEF BufferInv, Around, Filling, One, Video!HealthFrame
<1>5. CASE Video!Publish
  <2>1. vt'.at = "undrawn" /\ vt.at = "publish" /\ (vt'.undrawn <=> slot.latest # 0)
        /\ vt'.buffer = vt.buffer
    BY <1>k, <1>5 DEF Video!Publish, Units
  <2>2. slot'.latest = made /\ slot'.spare = slot.spare /\ slot.spare \in Nat /\ made # 0
        /\ UNCHANGED <<ui, worker, news, dropped>>
    BY <1>k, <1>5 DEF Video!Publish, Slots, PlaceInv
  <2>3. QED
    BY <1>k, <2>1, <2>2 DEF BufferInv, Around, Filling, One
<1>6. CASE Video!Undrawn
  <2>1. vt'.at = "wake" /\ vt.at = "undrawn" /\ ~vt'.undrawn /\ vt'.buffer = vt.buffer
    BY <1>k, <1>6 DEF Video!Undrawn, Units
  <2>2. /\ slot'.latest = slot.latest /\ slot.spare \in Nat
        /\ slot'.spare = IF vt.undrawn /\ slot.spare < Spares THEN slot.spare + 1 ELSE slot.spare
        /\ UNCHANGED <<ui, worker, news, dropped>>
    BY <1>k, <1>6 DEF Video!Undrawn, Slots
  <2>3. vt.undrawn => slot.spare < Spares
    BY <1>k, <2>2 DEF BufferInv, Around, Filling, One
  <2>4. Around' = Around /\ Filling' = Filling
    BY <2>1, <2>2, <2>3, <1>k DEF Around, Filling, One, BufferInv
  <2>5. QED
    BY <1>k, <2>1, <2>2, <2>4 DEF BufferInv
<1>7. CASE Video!Wake
  <2>1. vt'.at = "idle" /\ vt.at = "wake" /\ ~vt'.buffer /\ ~vt'.undrawn
    BY <1>7 DEF Video!Wake, Video!Idle
  <2>2. QED
    BY <1>k, <1>7, <2>1 DEF BufferInv, Around, Filling, One, Video!Wake
<1>8. CASE Video!Answer
  <2>1. vt'.at = "idle" /\ vt.at = "answer" /\ ~vt'.buffer /\ ~vt'.undrawn
    BY <1>8 DEF Video!Answer, Video!Idle
  <2>2. QED
    BY <1>k, <1>8, <2>1 DEF BufferInv, Around, Filling, One, Video!Answer
<1>9. CASE Video!Look
  <2>1. ui'.frame = ui.frame
    BY <1>k, <1>9 DEF Video!Look, Windows
  <2>2. QED
    BY <1>k, <1>9, <2>1 DEF BufferInv, Around, Filling, Video!Look
<1>10. CASE Video!Take
  <2>1. slot'.latest = 0 /\ slot'.spare = slot.spare
        /\ UNCHANGED <<vt, worker, news, dropped>>
    BY <1>k, <1>10 DEF Video!Take, Slots
  <2>2. ui'.frame = slot.latest /\ ui.frame = 0
    BY <1>k, <1>10 DEF Video!Take, Windows, PlaceInv
  <2>3. Around' = Around /\ Filling' = Filling
    BY <1>k, <2>1, <2>2 DEF Around, Filling, One, Slots
  <2>4. QED
    BY <1>k, <2>1, <2>3 DEF BufferInv
<1>11. CASE Video!Upload
  <2>1. slot'.latest = slot.latest /\ slot.spare \in Nat
        /\ slot'.spare = (IF slot.spare < Spares THEN slot.spare + 1 ELSE slot.spare)
        /\ UNCHANGED <<vt, worker, news, dropped>>
    BY <1>k, <1>11 DEF Video!Upload, Slots
  <2>2. ui'.frame = 0 /\ ui.frame # 0
    BY <1>k, <1>11 DEF Video!Upload, Windows, PlaceInv
  <2>3. slot.spare < Spares
    BY <1>k, <2>1, <2>2 DEF BufferInv, Around, Filling, One
  <2>4. Around' = Around /\ Filling' = Filling
    BY <1>k, <2>1, <2>2, <2>3 DEF Around, Filling, One
  <2>5. QED
    BY <1>k, <2>1, <2>4 DEF BufferInv
<1>12. CASE Video!Paint
  <2>1. ui'.frame = ui.frame
    BY <1>k, <1>12 DEF Video!Paint, Windows
  <2>2. QED
    BY <1>k, <1>12, <2>1 DEF BufferInv, Around, Filling, Video!Paint
<1>13. CASE Video!WorkerEnds
  <2>1. vt.at = "idle" /\ UNCHANGED <<vt, ui, news, dropped>>
    BY <1>13 DEF Video!WorkerEnds
  <2>2. slot' \in Slots /\ Around' <= Around
        /\ (worker' \in {"runs", "decoder"} => slot' = slot /\ worker \in {"runs", "decoder"})
    <3>1. \/ slot' = slot /\ worker = "runs"
          \/ slot' = [slot EXCEPT !.latest = 0] /\ worker' = "latest"
          \/ slot' = [slot EXCEPT !.spare = 0] /\ worker' = "finished"
      BY <1>13 DEF Video!WorkerEnds
    <3>2. CASE slot' = slot /\ worker = "runs"
      BY <1>k, <2>1, <3>2 DEF Around, One, Slots
    <3>3. CASE slot' = [slot EXCEPT !.latest = 0] /\ worker' = "latest"
      <4>1. slot' \in Slots /\ slot'.latest = 0 /\ slot'.spare = slot.spare
        BY <1>k, <3>3 DEF Slots
      <4>2. QED
        BY <1>k, <2>1, <3>3, <4>1 DEF Around, One, Slots
    <3>4. CASE slot' = [slot EXCEPT !.spare = 0] /\ worker' = "finished"
      <4>1. slot' \in Slots /\ slot'.latest = slot.latest /\ slot'.spare = 0
        BY <1>k, <3>4 DEF Slots
      <4>2. QED
        BY <1>k, <2>1, <3>4, <4>1 DEF Around, One, Slots
    <3>5. QED
      BY <3>1, <3>2, <3>3, <3>4
  <2>3. slot' = slot => Around' = Around
    BY <2>1 DEF Around
  <2>4. Filling' = Filling /\ Filling \in Nat /\ Around \in Nat /\ Around' \in Nat
    BY <1>k, <2>1, <2>2 DEF Filling, Around, One, Slots
  <2>5. Around' + Filling' <= 3
    <3>1. Around + Filling <= 3
      BY <1>k DEF BufferInv
    <3>2. Around' <= Around
      BY <2>2
    <3>3. \A a, b, f \in Nat : a + f <= 3 /\ b <= a => b + f <= 3
      OBVIOUS
    <3>4. Around' + Filling <= 3
      BY <2>4, <3>1, <3>2, <3>3
    <3>5. QED
      BY <2>4, <3>4
  <2>6. worker' \in {"runs", "decoder"} => news <= dropped + Around' + Filling'
    BY <1>k, <2>2, <2>3, <2>4 DEF BufferInv
  <2>7. QED
    BY <1>k, <2>1, <2>5, <2>6 DEF BufferInv
<1>14. CASE Video!Connected
  BY <1>k, <1>14 DEF BufferInv, Around, Filling, Video!Connected
<1>15. CASE Video!Tick
  BY <1>k, <1>15 DEF BufferInv, Around, Filling, Video!Tick
<1>16. CASE UNCHANGED Video!vars
  BY <1>k, <1>16 DEF BufferInv, Around, Filling, Video!vars
<1>17. QED
  BY <1>1, <1>2, <1>3, <1>4, <1>5, <1>6, <1>7, <1>8, <1>9, <1>10, <1>11, <1>12, <1>13, <1>14,
     <1>15, <1>16 DEF Video!Next, Video!Thread, Video!Frame

LEMMA VideoNext == Video!VideoAssumption /\ VideoInv /\ [Video!Next]_Video!vars => VideoInv'
BY KindsStep, PlaceStep, NewStep, BufferStep, HealthStep DEF VideoInv

LEMMA VideoMeans ==
  Video!VideoAssumption /\ VideoInv
    => Video!TypeOK /\ Video!NoOldPicture /\ Video!FewBuffers /\ Video!ProblemIsTrue
<1> SUFFICES ASSUME Video!VideoAssumption, VideoInv
             PROVE  Video!TypeOK /\ Video!NoOldPicture /\ Video!FewBuffers /\ Video!ProblemIsTrue
  OBVIOUS
<1>1. Video!TypeOK
  <2>1. vt.at \in VideoSteps /\ ui.at \in {"idle", "take", "upload", "paint"}
    BY DEF VideoInv, Kinds, Units, Windows
  <2>2. net.wantsIdr \in BOOLEAN /\ net.sent \in 0..MaxUnits
    BY DEF VideoInv, Kinds, Nets
  <2>3. slot \in [latest : 0..MaxUnits, seq : 0..MaxUnits, spare : 0..Spares]
    <3>1. slot.latest \in 0..MaxUnits /\ slot.seq \in 0..MaxUnits
      BY <2>2 DEF VideoInv, Kinds, Slots, PlaceInv, Video!VideoAssumption
    <3>2. QED
      BY <3>1 DEF VideoInv, Kinds, Slots
  <2>4. ui.frame # 0 => ui.frame # slot.latest
    BY DEF VideoInv, PlaceInv
  <2>5. QED
    BY <2>1, <2>2, <2>3, <2>4 DEF VideoInv, Kinds, Video!TypeOK, VideoSteps, Healths
<1>2. Video!NoOldPicture /\ Video!FewBuffers
  BY DEF VideoInv, NewInv, BufferInv, Video!FewBuffers, Video!NoOldPicture
<1>3. Video!ProblemIsTrue
  <2>1. Video!Problem = "no video" => health.frame = Video!Never
    BY DEF Video!Problem
  <2>2. Video!Problem = "stopped" => health.frame # Video!Never /\ ~health.error
    BY DEF Video!Problem
  <2>3. QED
    BY <2>1, <2>2 DEF VideoInv, HealthInv, Video!ProblemIsTrue
<1>4. QED
  BY <1>1, <1>2, <1>3

\* The keyframe that follows a failure brings the picture back.
LEMMA KeyframeStep == Video!VideoAssumption /\ VideoInv /\ [Video!Next]_Video!vars
  => Video!KeyframeHeals
<1> SUFFICES ASSUME Video!VideoAssumption, VideoInv, [Video!Next]_Video!vars,
                    vt.at = "decode", vt'.at # "decode", vt.unit.idr, vt.unit.body,
                    dec.session # "dead", videoFaults' = videoFaults
             PROVE  vt'.result = "frame"
  BY DEF Video!KeyframeHeals
<1>1. Video!Decode
  BY SMTT(40), ZenonT(60)
     DEF Video!Next, Video!Thread, Video!Frame, Video!vars, Video!Dies, Video!Unit,
         Video!HealthFrame, Video!Publish, Video!Undrawn, Video!Wake, Video!Answer, Video!Look,
         Video!Take, Video!Upload, Video!Paint, Video!WorkerEnds, Video!Connected, Video!Tick
<1>2. PICK fmt, accepts, works, good \in BOOLEAN :
       LET u == vt.unit
           failed == (u.sets # 0 /\ u.sets # dec.params /\ ~fmt)
           d1 == IF u.sets = 0 THEN dec ELSE Video!SetParameters(dec, u.sets, fmt, accepts, works)
           result == IF failed \/ d1.session = "none" THEN "error"
                     ELSE IF ~u.body THEN "none"
                     ELSE IF d1.session = "dead" \/ ~good THEN "error"
                     ELSE "frame"
           d2 == IF failed \/ ~u.body THEN d1 ELSE Video!DecodeStatus(d1, works)
           trouble == Video!Cardinality({x \in {<<1, fmt>>, <<2, works>>, <<3, good>>} : ~x[2]})
       IN  /\ videoFaults + trouble <= VideoFaults
           /\ videoFaults' = videoFaults + trouble
           /\ dec' = d2
           /\ vt' = [vt EXCEPT !.at = IF result = "frame" THEN "frame" ELSE "answer",
                               !.result = result, !.buffer = FALSE]
           /\ made' = IF result = "frame" THEN made + 1 ELSE made
           /\ news' = IF result = "frame" /\ ~vt.buffer THEN news + 1 ELSE news
           /\ dropped' = IF result # "frame" /\ vt.buffer THEN dropped + 1 ELSE dropped
  BY <1>1 DEF Video!Decode
<1> DEFINE d1 == Video!SetParameters(dec, vt.unit.sets, fmt, accepts, works)
           bad == {x \in {<<1, fmt>>, <<2, works>>, <<3, good>>} : ~x[2]}
<1>3. fmt /\ works /\ good
  <2>1. videoFaults' = videoFaults + Video!Cardinality(bad)
    BY <1>2
  <2>2. Video!Cardinality(bad) \in Nat /\ (Video!Cardinality(bad) = 0 => fmt /\ works /\ good)
    BY NoTrouble
  <2>3. videoFaults \in Nat
    BY DEF VideoInv, Kinds
  <2> HIDE DEF bad
  <2>4. QED
    BY <2>1, <2>2, <2>3
<1>4. /\ dec \in [session : {"none", "ok", "dead"}, format : 0..Sets, params : 0..Sets]
      /\ dec.params = dec.format /\ vt.unit.sets # 0
  BY DEF VideoInv, Kinds, PlaceInv
<1>5. d1.session = "ok"
  BY <1>3, <1>4 DEF Video!SetParameters, Video!Create
<1>6. vt'.result = IF (vt.unit.sets # dec.params /\ ~fmt) \/ d1.session = "none" THEN "error"
                   ELSE IF d1.session = "dead" \/ ~good THEN "error" ELSE "frame"
  <2>1. DOMAIN vt = {"at", "unit", "buffer", "undrawn", "result"}
    BY DEF VideoInv, Kinds, Units
  <2> HIDE DEF d1
  <2>2. QED
    BY <1>2, <1>4, <2>1 DEF d1
<1>7. QED
  BY <1>3, <1>5, <1>6

-----------------------------------------------------------------------------
(* Sound.                                                                  *)

\* AudioPath's variables.
player == v1
queue == v2
mixer == v3
output == v4
thread == v5
sent == v6
packets == v7
lost == v8
undecodable == v9
pulled == v10
heard == v11
warned == v12
notices == v13
USE DEF player, queue, mixer, output, thread, sent, packets, lost, undecodable, pulled, heard,
    warned, notices

\* A sample of one of the first m frames, and one that may be silence.
Sounding(m) == [n : 1..m, c : 1..Channels]
Sample(m) == [n : 0..m, c : 1..Channels]
Column(i) == ((i - 1) % Channels) + 1
Row(i) == (i - 1) \div Channels

\* The queue: whole frames of the first m, in order, each channel in its place.
QueueInv(q, m) ==
  /\ q \in Seq(Sounding(m))
  /\ Len(q) % Channels = 0
  /\ \A i \in 1..Len(q) : q[i].c = Column(i)
  /\ \A i, j \in 1..Len(q) : Row(i) = Row(j) => q[i].n = q[j].n
  /\ \A i, j \in 1..Len(q) : i <= j => q[i].n <= q[j].n

\* One frame, silent or not, each channel in its place.
FrameInv(x, m) ==
  /\ x \in [1..Channels -> Sample(m)]
  /\ \A c \in 1..Channels : x[c].c = c /\ x[c].n = x[1].n

\* What the mixer, the record of what was heard and both with the queue are.
Mixers(m) == [started : BOOLEAN, pos : 0..(InRate + OutRate), prev : [1..Channels -> Sample(m)],
              next : [1..Channels -> Sample(m)]]
Hearings(m) == [n : 0..m, right : BOOLEAN]
Sounds(m) == [q : Seq(Sounding(m)), m : Mixers(m), heard : Hearings(m)]

\* What waits is not older than what is next, nor that than what was heard.
SoundInv(s, m) ==
  /\ s \in Sounds(m)
  /\ QueueInv(s.q, m) /\ Len(s.q) <= MaxQueued
  /\ FrameInv(s.m.next, m)
  /\ s.heard.right
  /\ s.m.next[1].n # 0 => s.m.next[1].n >= s.heard.n
  /\ \A i \in 1..Len(s.q) : s.m.next[1].n <= s.q[i].n /\ s.heard.n <= s.q[i].n

\* The player, its thread and the counts.
Thread ==
  /\ player \in {"none", "lives", "refused", "gone"}
  /\ output \in {"none", "Opening", "Playing", "Failed"}
  /\ thread \in {"none", "opening", "holds", "ended"}
  /\ sent \in 0..MaxFrames /\ {packets, lost, undecodable, pulled} \subseteq Nat
  /\ warned \in BOOLEAN /\ notices = IF warned THEN 1 ELSE 0

\* The mixer starts with a pull, so that what it gives first is not silence.
AudioInv ==
  /\ Thread
  /\ SoundInv([q |-> queue, m |-> mixer, heard |-> heard], sent)
  /\ ~mixer.started => mixer = Audio!Fresh
  /\ mixer.started \/ pulled # 0 => heard.n # 0

-----------------------------------------------------------------------------
(* Quotients and remainders.                                               *)

LEMMA Counts == Audio!AudioAssumption => /\ Channels \in Nat \ {0} /\ InRate \in Nat \ {0}
                                         /\ OutRate \in Nat \ {0} /\ OutFrames \in Nat \ {0}
                                         /\ Preroll \in Nat \ {0} /\ MaxQueued \in Nat
                                         /\ Keep \in Nat
                                         /\ MaxFrames \in Nat /\ MaxLost \in Nat
BY DEF Audio!AudioAssumption

\* Quotient and remainder are what they should be, and nothing else is.
LEMMA DivMod ==
  ASSUME NEW C \in Nat \ {0}, NEW x \in Nat
  PROVE  /\ x % C \in 0..(C - 1) /\ x \div C \in Nat
         /\ x = (x \div C) * C + (x % C)
OBVIOUS

LEMMA Unique ==
  ASSUME NEW C \in Nat \ {0}, NEW a \in Nat, NEW r \in 0..(C - 1)
  PROVE  /\ (a * C + r) \div C = a
         /\ (a * C + r) % C = r
<1> DEFINE x == a * C + r
           b == x \div C
           t == x % C
<1>1. x \in Nat
  OBVIOUS
<1>2. b \in Nat /\ t \in 0..(C - 1) /\ x = b * C + t
  BY <1>1, DivMod
<1>3. a * C + r = b * C + t
  BY <1>2
<1> HIDE DEF b, t
<1>4. CASE a < b
  <2>1. PICK d \in Nat : b = a + d + 1
    <3>1. b - a - 1 \in Nat /\ b = a + (b - a - 1) + 1
      BY <1>2, <1>4
    <3>2. QED
      BY <3>1
  <2>2. b * C = a * C + d * C + C /\ a * C \in Nat /\ d * C \in Nat
    BY <2>1
  <2>3. QED
    BY <1>2, <1>3, <2>2
<1>5. CASE b < a
  <2>1. PICK d \in Nat : a = b + d + 1
    <3>1. a - b - 1 \in Nat /\ a = b + (a - b - 1) + 1
      BY <1>2, <1>5
    <3>2. QED
      BY <3>1
  <2>2. a * C = b * C + d * C + C /\ b * C \in Nat /\ d * C \in Nat
    BY <2>1, <1>2
  <2>3. QED
    BY <1>2, <1>3, <2>2
<1>6. CASE a = b
  <2>1. a * C \in Nat /\ t = r
    BY <1>2, <1>3, <1>6
  <2>2. QED
    BY <2>1, <1>6 DEF b, t
<1>7. QED
  BY <1>2, <1>4, <1>5, <1>6

\* Whole frames before a number add to its quotient and not to its remainder.
LEMMA Shift ==
  ASSUME NEW C \in Nat \ {0}, NEW a \in Nat, NEW x \in Nat
  PROVE  /\ (a * C + x) \div C = a + x \div C
         /\ (a * C + x) % C = x % C
<1> DEFINE b == x \div C
           r == x % C
<1>1. b \in Nat /\ r \in 0..(C - 1) /\ x = b * C + r
  BY DivMod
<1> HIDE DEF b, r
<1>2. a * C + x = (a + b) * C + r /\ a + b \in Nat
  BY <1>1
<1>3. ((a + b) * C + r) \div C = a + b /\ ((a + b) * C + r) % C = r
  BY <1>1, <1>2, Unique
<1>4. (a * C + x) \div C = a + b /\ (a * C + x) % C = r
  BY <1>2, <1>3
<1>5. QED
  BY <1>4 DEF b, r

LEMMA Multiple ==
  ASSUME NEW C \in Nat \ {0}, NEW x \in Nat, x % C = 0
  PROVE  \E a \in Nat : x = a * C
<1>1. x \div C \in Nat /\ x = (x \div C) * C + (x % C)
  BY DivMod
<1>2. QED
  BY <1>1

\* An index so many whole frames further on.
LEMMA Further ==
  ASSUME Channels \in Nat \ {0}, NEW k \in Nat, k % Channels = 0
  PROVE  \E a \in Nat : \A i \in Nat \ {0} :
           Column(i + k) = Column(i) /\ Row(i + k) = a + Row(i) /\ Row(i) \in Nat
<1>1. PICK a \in Nat : k = a * Channels
  BY Multiple
<1>2. ASSUME NEW i \in Nat \ {0}
      PROVE Column(i + k) = Column(i) /\ Row(i + k) = a + Row(i) /\ Row(i) \in Nat
  <2>1. i - 1 \in Nat /\ (i + k) - 1 = a * Channels + (i - 1)
    BY <1>1
  <2>2. /\ (a * Channels + (i - 1)) \div Channels = a + (i - 1) \div Channels
        /\ (a * Channels + (i - 1)) % Channels = (i - 1) % Channels
    BY <2>1, Shift
  <2>3. (i - 1) \div Channels \in Nat
    BY <2>1, DivMod
  <2>4. QED
    BY <2>1, <2>2, <2>3 DEF Column, Row
<1>3. QED
  BY <1>2

-----------------------------------------------------------------------------
(* The queue.                                                              *)

\* What is left when whole frames go from the front.
LEMMA DropWhole ==
  ASSUME Audio!AudioAssumption, NEW m \in Nat, NEW q, QueueInv(q, m),
         NEW k \in 0..Len(q), k % Channels = 0
  PROVE  LET r == SubSeq(q, k + 1, Len(q)) IN
         /\ QueueInv(r, m) /\ Len(r) = Len(q) - k
         /\ \A i \in 1..Len(r) : r[i] = q[i + k] /\ i + k \in 1..Len(q)
<1> DEFINE r == SubSeq(q, k + 1, Len(q))
<1>1. Channels \in Nat \ {0}
  BY Counts
<1>2. q \in Seq(Sounding(m)) /\ Len(q) \in Nat /\ Len(q) % Channels = 0 /\ k \in Nat
  BY DEF QueueInv
<1>3. /\ r \in Seq(Sounding(m)) /\ Len(r) = Len(q) - k
      /\ \A i \in 1..Len(r) : r[i] = q[i + k] /\ i + k \in 1..Len(q)
  BY <1>2
<1> HIDE DEF r
<1>4. PICK a \in Nat : \A i \in Nat \ {0} :
        Column(i + k) = Column(i) /\ Row(i + k) = a + Row(i) /\ Row(i) \in Nat
  BY <1>1, <1>2, Further
<1>5. Len(r) % Channels = 0
  <2>1. PICK b \in Nat : Len(q) = b * Channels
    BY <1>1, <1>2, Multiple
  <2>2. PICK d \in Nat : k = d * Channels
    BY <1>1, <1>2, Multiple
  <2>3. Len(r) = (b - d) * Channels
    BY <1>1, <1>3, <2>1, <2>2
  <2>4. b - d \in Nat
    <3>1. CASE b < d
      <4>1. PICK e \in Nat : d = b + e + 1
        <5>1. d - b - 1 \in Nat /\ d = b + (d - b - 1) + 1
          BY <3>1
        <5>2. QED
          BY <5>1
      <4>2. d * Channels = b * Channels + e * Channels + Channels /\ e * Channels \in Nat
        BY <1>1, <4>1
      <4>3. QED
        BY <1>1, <1>2, <2>1, <2>2, <4>2
    <3>2. QED
      BY <3>1
  <2>5. QED
    <3>1. (b - d) * Channels = (b - d) * Channels + 0
      BY <1>1, <2>4
    <3>2. QED
      <4>1. 0 \in 0..(Channels - 1)
        BY <1>1
      <4>2. ((b - d) * Channels + 0) % Channels = 0
        BY <1>1, <2>4, <4>1, Unique
      <4>3. QED
        BY <2>3, <3>1, <4>2
<1>6. \A i \in 1..Len(r) : r[i].c = Column(i)
  <2>1. ASSUME NEW i \in 1..Len(r) PROVE r[i].c = Column(i)
    <3>1. i \in Nat \ {0} /\ i + k \in 1..Len(q) /\ r[i] = q[i + k]
      BY <1>3, <1>2
    <3>2. q[i + k].c = Column(i + k)
      BY <3>1 DEF QueueInv
    <3>3. QED
      BY <3>1, <3>2, <1>4
  <2>2. QED
    BY <2>1
<1>7. \A i, j \in 1..Len(r) : Row(i) = Row(j) => r[i].n = r[j].n
  <2>1. ASSUME NEW i \in 1..Len(r), NEW j \in 1..Len(r), Row(i) = Row(j)
        PROVE  r[i].n = r[j].n
    <3>1. i \in Nat \ {0} /\ i + k \in 1..Len(q) /\ r[i] = q[i + k]
      BY <1>3, <1>2
    <3>2. j \in Nat \ {0} /\ j + k \in 1..Len(q) /\ r[j] = q[j + k]
      BY <1>3, <1>2
    <3>3. Row(i + k) = Row(j + k)
      BY <3>1, <3>2, <2>1, <1>4
    <3>4. q[i + k].n = q[j + k].n
      BY <3>1, <3>2, <3>3 DEF QueueInv
    <3>5. QED
      BY <3>1, <3>2, <3>4
  <2>2. QED
    BY <2>1
<1>8. \A i, j \in 1..Len(r) : i <= j => r[i].n <= r[j].n
  <2>1. ASSUME NEW i \in 1..Len(r), NEW j \in 1..Len(r), i <= j
        PROVE  r[i].n <= r[j].n
    <3>1. /\ i + k \in 1..Len(q) /\ r[i] = q[i + k] /\ j + k \in 1..Len(q) /\ r[j] = q[j + k]
          /\ i + k <= j + k
      BY <1>3, <1>2, <2>1
    <3>2. q[i + k].n <= q[j + k].n
      BY <3>1 DEF QueueInv
    <3>3. QED
      BY <3>1, <3>2
  <2>2. QED
    BY <2>1
<1>9. QED
  BY <1>3, <1>5, <1>6, <1>7, <1>8 DEF QueueInv, r

\* The queue of more frames, and the one that goes on with new ones.
LEMMA LaterWhole ==
  ASSUME Audio!AudioAssumption, NEW m \in Nat, NEW n \in Nat, NEW q, QueueInv(q, m)
  PROVE  QueueInv(q, m + n)
<1>1. Sounding(m) \subseteq Sounding(m + n)
  BY DEF Sounding
<1>2. q \in Seq(Sounding(m + n))
  BY <1>1 DEF QueueInv
<1>3. QED
  BY <1>2 DEF QueueInv

\* New frames, sample by sample.
LEMMA FramesAre ==
  ASSUME Audio!AudioAssumption, NEW m \in Nat, NEW n \in Nat
  PROVE  LET f == Audio!Frames(m + 1, n) IN
         /\ f \in Seq(Sounding(m + n)) /\ Len(f) = n * Channels
         /\ \A i \in 1..Len(f) : f[i].n = m + 1 + Row(i) /\ f[i].c = Column(i)
         /\ \A i \in 1..Len(f) : Row(i) \in Nat
<1> DEFINE f == Audio!Frames(m + 1, n)
<1>1. Channels \in Nat \ {0}
  BY Counts
<1>2. n * Channels \in Nat
  BY <1>1
<1>3. ASSUME NEW i \in 1..(n * Channels)
      PROVE  /\ Row(i) \in Nat /\ m + 1 + Row(i) \in 1..(m + n)
             /\ Column(i) \in 1..Channels
  <2>1. i - 1 \in Nat /\ i - 1 < n * Channels
    BY <1>2
  <2>2. /\ Row(i) \in Nat /\ Column(i) \in 1..Channels
        /\ i - 1 = Row(i) * Channels + (Column(i) - 1)
    <3>1. /\ (i - 1) % Channels \in 0..(Channels - 1) /\ (i - 1) \div Channels \in Nat
          /\ i - 1 = ((i - 1) \div Channels) * Channels + ((i - 1) % Channels)
      BY <1>1, <2>1, DivMod
    <3>2. QED
      BY <1>1, <3>1 DEF Row, Column
  <2>3. Row(i) < n
    <3>1. CASE n <= Row(i)
      <4>1. PICK d \in Nat : Row(i) = n + d
        <5>1. Row(i) - n \in Nat /\ Row(i) = n + (Row(i) - n)
          BY <2>2, <3>1
        <5>2. QED
          BY <5>1
      <4>2. Row(i) * Channels = n * Channels + d * Channels /\ d * Channels \in Nat
        BY <1>1, <4>1
      <4>3. QED
        BY <1>2, <2>1, <2>2, <4>2
    <3>2. QED
      BY <2>2, <3>1
  <2>4. QED
    BY <2>2, <2>3
<1>4. f = [i \in 1..(n * Channels) |-> [n |-> m + 1 + Row(i), c |-> Column(i)]]
  BY DEF Audio!Frames, Row, Column
<1>5. \A i \in 1..(n * Channels) : [n |-> m + 1 + Row(i), c |-> Column(i)] \in Sounding(m + n)
  BY <1>3 DEF Sounding
<1> HIDE DEF f
<1>6. f \in Seq(Sounding(m + n)) /\ Len(f) = n * Channels
  BY <1>2, <1>4, <1>5
<1>7. \A i \in 1..Len(f) : f[i].n = m + 1 + Row(i) /\ f[i].c = Column(i)
  BY <1>4, <1>6
<1>8. QED
  BY <1>3, <1>6, <1>7 DEF f

\* Row does not fall as the index grows.
LEMMA RowGrows ==
  ASSUME Channels \in Nat \ {0}, NEW i \in Nat \ {0}, NEW j \in Nat \ {0}, i <= j
  PROVE  Row(i) <= Row(j)
<1>1. /\ i - 1 \in Nat /\ j - 1 \in Nat
  OBVIOUS
<1>2. /\ (i - 1) % Channels \in 0..(Channels - 1) /\ Row(i) \in Nat
      /\ i - 1 = Row(i) * Channels + ((i - 1) % Channels)
  BY <1>1, DivMod DEF Row
<1>3. /\ (j - 1) % Channels \in 0..(Channels - 1) /\ Row(j) \in Nat
      /\ j - 1 = Row(j) * Channels + ((j - 1) % Channels)
  BY <1>1, DivMod DEF Row
<1>4. CASE Row(j) < Row(i)
  <2>1. PICK d \in Nat : Row(i) = Row(j) + d + 1
    <3>1. Row(i) - Row(j) - 1 \in Nat /\ Row(i) = Row(j) + (Row(i) - Row(j) - 1) + 1
      BY <1>2, <1>3, <1>4
    <3>2. QED
      BY <3>1
  <2>2. /\ Row(i) * Channels = Row(j) * Channels + d * Channels + Channels
        /\ d * Channels \in Nat /\ Row(j) * Channels \in Nat
    BY <1>3, <2>1
  <2>3. QED
    BY <1>2, <1>3, <2>2
<1>5. QED
  BY <1>2, <1>3, <1>4

\* What a packet adds keeps the queue whole.
LEMMA AppendWhole ==
  ASSUME Audio!AudioAssumption, NEW m \in Nat, NEW n \in Nat, NEW q, QueueInv(q, m)
  PROVE  LET r == q \o Audio!Frames(m + 1, n) IN
         /\ QueueInv(r, m + n)
         /\ \A i \in 1..Len(r) : r[i].n > m \/ (i \in 1..Len(q) /\ r[i] = q[i])
<1> DEFINE f == Audio!Frames(m + 1, n)
           r == q \o f
           k == Len(q)
<1>1. Channels \in Nat \ {0}
  BY Counts
<1>2. QueueInv(q, m + n) /\ q \in Seq(Sounding(m + n)) /\ k \in Nat /\ k % Channels = 0
  <2>1. QueueInv(q, m + n)
    BY LaterWhole
  <2>2. q \in Seq(Sounding(m + n)) /\ Len(q) % Channels = 0
    BY <2>1 DEF QueueInv
  <2>3. QED
    BY <2>1, <2>2
<1>3. /\ f \in Seq(Sounding(m + n)) /\ Len(f) = n * Channels /\ Len(f) \in Nat
      /\ \A i \in 1..Len(f) : f[i].n = m + 1 + Row(i) /\ f[i].c = Column(i)
      /\ \A i \in 1..Len(f) : Row(i) \in Nat
  <2>1. n * Channels \in Nat
    BY <1>1
  <2>2. /\ f \in Seq(Sounding(m + n)) /\ Len(f) = n * Channels
        /\ \A i \in 1..Len(f) : f[i].n = m + 1 + Row(i) /\ f[i].c = Column(i)
        /\ \A i \in 1..Len(f) : Row(i) \in Nat
    BY FramesAre
  <2> HIDE DEF f
  <2>3. QED
    BY <2>1, <2>2
<1> HIDE DEF f
<1>4. PICK a \in Nat : \A i \in Nat \ {0} :
        Column(i + k) = Column(i) /\ Row(i + k) = a + Row(i) /\ Row(i) \in Nat
  BY <1>1, <1>2, Further
<1>5. /\ r \in Seq(Sounding(m + n)) /\ Len(r) = k + Len(f)
      /\ \A i \in 1..k : r[i] = q[i]
      /\ \A i \in 1..Len(f) : r[i + k] = f[i]
  <2>1. r \in Seq(Sounding(m + n)) /\ Len(r) = k + Len(f)
    BY <1>2, <1>3, SMTT(30), ZenonT(60)
  <2>2. \A i \in 1..k : r[i] = q[i]
    BY <1>2, <1>3
  <2>3. ASSUME NEW i \in 1..Len(f) PROVE r[i + k] = f[i]
    <3>1. i + k \in 1..(k + Len(f)) /\ i + k > k /\ (i + k) - k = i
      BY <1>2, <1>3
    <3>2. QED
      BY <1>2, <1>3, <3>1
  <2>4. QED
    BY <2>1, <2>2, <2>3
<1> HIDE DEF r, k
<1>6. ASSUME NEW i \in 1..Len(r), i > k
      PROVE  /\ i - k \in 1..Len(f) /\ r[i] = f[i - k]
             /\ r[i].c = Column(i) /\ Row(i) = a + Row(i - k)
             /\ r[i].n = m + 1 + Row(i - k) /\ Row(i - k) \in Nat
  <2>1. i - k \in 1..Len(f) /\ (i - k) + k = i /\ i - k \in Nat \ {0}
    BY <1>2, <1>3, <1>5, <1>6, SMTT(40), ZenonT(60)
  <2>2. r[i] = f[i - k]
    BY <1>5, <2>1
  <2>3. Column(i) = Column(i - k) /\ Row(i) = a + Row(i - k)
    BY <1>4, <2>1
  <2>4. QED
    BY <1>3, <2>1, <2>2, <2>3
<1>7. ASSUME NEW i \in 1..Len(r), ~(i > k)
      PROVE  /\ i \in 1..Len(q) /\ r[i] = q[i] /\ r[i].c = Column(i) /\ r[i].n \in 1..m
  <2>1. i \in 1..Len(q) /\ r[i] = q[i]
    BY <1>2, <1>5, <1>7 DEF k
  <2>2. q[i].c = Column(i) /\ q[i] \in Sounding(m)
    BY <2>1 DEF QueueInv
  <2>3. QED
    BY <2>1, <2>2 DEF Sounding
<1>8. Len(r) % Channels = 0
  <2>1. PICK b \in Nat : k = b * Channels
    BY <1>1, <1>2, Multiple
  <2>2. Len(r) = (b + n) * Channels + 0 /\ b + n \in Nat /\ 0 \in 0..(Channels - 1)
    BY <1>1, <1>3, <1>5, <2>1
  <2>3. ((b + n) * Channels + 0) % Channels = 0
    BY <1>1, <2>2, Unique
  <2>4. QED
    BY <2>2, <2>3
<1>9. \A i \in 1..Len(r) : r[i].c = Column(i)
  BY <1>6, <1>7
<1>10. ASSUME NEW i \in 1..Len(r), NEW j \in 1..Len(r), Row(i) = Row(j)
       PROVE  r[i].n = r[j].n
  <2>1. ASSUME NEW x \in 1..Len(r), NEW y \in 1..Len(r), x > k, ~(y > k), Row(x) = Row(y)
        PROVE  FALSE
    <3>1. Row(x) >= a
      BY <1>6, <2>1
    <3>2. Row(y) < a
      <4>1. PICK b \in Nat : k = b * Channels
        BY <1>1, <1>2, Multiple
      <4>2. Row(1 + k) = a + Row(1)
        BY <1>4
      <4>3. Row(1 + k) = b /\ Row(1) = 0
        <5>1. (1 + k) - 1 = b * Channels + 0 /\ 1 - 1 = 0 * Channels + 0 /\ 0 \in 0..(Channels - 1)
          BY <1>1, <1>2, <4>1
        <5>2. /\ (b * Channels + 0) \div Channels = b
              /\ (0 * Channels + 0) \div Channels = 0
          BY <1>1, <5>1, Unique
        <5>3. QED
          BY <5>1, <5>2 DEF Row
      <4>4. y \in Nat \ {0} /\ y <= k /\ a = b
        BY <1>2, <2>1, <4>2, <4>3
      <4>5. y - 1 \in Nat /\ y - 1 < a * Channels
        BY <4>1, <4>4
      <4>6. /\ (y - 1) % Channels \in 0..(Channels - 1) /\ Row(y) \in Nat
            /\ y - 1 = Row(y) * Channels + ((y - 1) % Channels)
        BY <1>1, <4>5, DivMod DEF Row
      <4>7. CASE Row(y) >= a
        <5>1. PICK d \in Nat : Row(y) = a + d
          <6>1. Row(y) - a \in Nat /\ Row(y) = a + (Row(y) - a)
            BY <4>6, <4>7
          <6>2. QED
            BY <6>1
        <5>2. Row(y) * Channels = a * Channels + d * Channels /\ d * Channels \in Nat
              /\ a * Channels \in Nat
          BY <1>1, <5>1
        <5>3. QED
          BY <4>5, <4>6, <5>2
      <4>8. QED
        BY <4>6, <4>7
    <3>3. QED
      <4>1. Row(y) \in Nat /\ Row(x) \in Nat
        <5>1. x \in Nat \ {0} /\ y \in Nat \ {0}
          OBVIOUS
        <5>2. QED
          BY <1>4, <5>1
      <4>2. QED
        BY <2>1, <3>1, <3>2, <4>1
  <2>2. CASE i > k /\ j > k
    <3>1. a + Row(i - k) = a + Row(j - k) /\ Row(i - k) \in Nat /\ Row(j - k) \in Nat
      BY <1>6, <1>10, <2>2
    <3>2. QED
      BY <1>6, <2>2, <3>1
  <2>3. CASE ~(i > k) /\ ~(j > k)
    <3>1. i \in 1..Len(q) /\ j \in 1..Len(q) /\ r[i] = q[i] /\ r[j] = q[j]
      BY <1>7, <2>3
    <3>2. QED
      BY <1>10, <3>1 DEF QueueInv
  <2>4. QED
    BY <2>1, <2>2, <2>3, <1>10
<1>11. ASSUME NEW i \in 1..Len(r), NEW j \in 1..Len(r), i <= j
       PROVE  r[i].n <= r[j].n
  <2>1. CASE i > k
    <3>1. j > k
      BY <1>2, <1>11, <2>1
    <3>2. i - k \in Nat \ {0} /\ j - k \in Nat \ {0} /\ i - k <= j - k
      BY <1>2, <1>11, <2>1, <3>1
    <3>3. Row(i - k) <= Row(j - k)
      BY <1>1, <3>2, RowGrows
    <3>4. QED
      BY <1>6, <2>1, <3>1, <3>3
  <2>2. CASE ~(i > k) /\ j > k
    BY <1>6, <1>7, <2>2, SMTT(40), ZenonT(60)
  <2>3. CASE ~(i > k) /\ ~(j > k)
    <3>1. i \in 1..Len(q) /\ j \in 1..Len(q) /\ r[i] = q[i] /\ r[j] = q[j]
      BY <1>7, <2>3
    <3>2. QED
      BY <1>11, <3>1 DEF QueueInv
  <2>4. QED
    BY <2>1, <2>2, <2>3
<1>12. QueueInv(r, m + n)
  BY <1>5, <1>8, <1>9, <1>10, <1>11 DEF QueueInv
<1>13. \A i \in 1..Len(r) : r[i].n > m \/ (i \in 1..Len(q) /\ r[i] = q[i])
  BY <1>6, <1>7
<1>14. QED
  BY <1>12, <1>13 DEF r, f

-----------------------------------------------------------------------------
(* Loops.                                                                  *)

\* Of some numbers below a bound there is a least.
LEMMA Least ==
  ASSUME NEW N \in Nat, NEW S \in SUBSET (0..N), S # {}
  PROVE  \E x \in S : \A y \in S : x <= y
<1> DEFINE upto(x) == 0..x
           T == {upto(x) : x \in S}
           R == StrictSubsetOrdering(0..N)
<1>1. T \subseteq FiniteSubsetsOf(0..N) /\ T # {}
  <2>1. SUBSET (0..N) = FiniteSubsetsOf(0..N)
    <3>1. IsFiniteSet(0..N)
      <4>1. 0 \in Int /\ N \in Int
        OBVIOUS
      <4>2. QED
        BY <4>1, FS_Interval
    <3>2. QED
      BY <3>1, FS_FiniteSubsetsOfFinite
  <2>2. \A x \in S : upto(x) \in SUBSET (0..N)
    OBVIOUS
  <2>3. T \subseteq SUBSET (0..N)
    BY <2>2
  <2>4. T # {}
    <3>1. PICK x \in S : TRUE
      OBVIOUS
    <3>2. upto(x) \in T
      BY <3>1
    <3>3. QED
      BY <3>2
  <2> HIDE DEF T
  <2>5. QED
    BY <2>1, <2>3, <2>4
<1>2. PICK t \in T : \A u \in T : ~(<<u, t>> \in R)
  <2> HIDE DEF T, R
  <2>1. IsWellFoundedOn(R, FiniteSubsetsOf(0..N))
    BY FS_StrictSubsetOrderingWellFounded DEF R
  <2>2. QED
    BY <1>1, <2>1, WFMin
<1>3. PICK x \in S : t = upto(x)
  OBVIOUS
<1>4. ASSUME NEW y \in S, ~(x <= y) PROVE FALSE
  <2>1. upto(y) \subseteq upto(x) /\ x \in upto(x) /\ x \notin upto(y)
    BY <1>4
  <2>2. upto(y) \in SUBSET (0..N) /\ upto(x) \in SUBSET (0..N) /\ upto(x) # upto(y)
    BY <2>1
  <2>3. <<upto(y), upto(x)>> \in R
    BY <2>1, <2>2 DEF StrictSubsetOrdering
  <2>4. QED
    BY <1>2, <1>3, <2>3
<1>5. QED
  BY <1>4

\* What holds at the start and passes from each round to the next holds after all.
LEMMA Along ==
  ASSUME NEW N \in Nat, NEW S \in SUBSET (0..N), 0 \in S,
         \A k \in 1..N : k - 1 \in S => k \in S
  PROVE  S = 0..N
<1>1. ASSUME NEW x \in 0..N, x \notin S PROVE FALSE
  <2> DEFINE T == {k \in 0..N : k \notin S}
  <2>1. T \in SUBSET (0..N) /\ T # {}
    BY <1>1
  <2>2. PICK k \in T : \A y \in T : k <= y
    BY <2>1, Least
  <2>3. k \in 1..N /\ k - 1 \in 0..N
    BY <2>2
  <2>4. k - 1 \in S
    BY <2>2, <2>3
  <2>5. QED
    BY <2>2, <2>3, <2>4
<1>2. QED
  BY <1>1

-----------------------------------------------------------------------------
(* Pulls.                                                                  *)

\* The queue's first frame, or silence, and the rest of it.
LEMMA SilenceIs ==
  ASSUME Audio!AudioAssumption, NEW m \in Nat
  PROVE  FrameInv(Audio!Silence, m) /\ Audio!Silence[1].n = 0
<1>1. Channels \in Nat \ {0}
  BY Counts
<1>2. Audio!Silence = [c \in 1..Channels |-> [n |-> 0, c |-> c]]
  BY DEF Audio!Silence
<1>3. \A c \in 1..Channels : [n |-> 0, c |-> c] \in Sample(m)
  BY DEF Sample
<1>4. 1 \in 1..Channels
  BY <1>1
<1>5. QED
  BY <1>2, <1>3, <1>4 DEF FrameInv

LEMMA HeadIs ==
  ASSUME Audio!AudioAssumption, NEW m \in Nat, NEW q, QueueInv(q, m)
  PROVE  /\ FrameInv(Audio!AtHead(q), m)
         /\ Len(q) >= Channels
            => Audio!AtHead(q)[1].n = q[1].n /\ q[1].n \in 1..m /\ 1 \in 1..Len(q)
         /\ ~(Len(q) >= Channels) => Audio!AtHead(q)[1].n = 0
<1>1. Channels \in Nat \ {0} /\ 1 \in 1..Channels
  BY Counts
<1>2. q \in Seq(Sounding(m)) /\ Len(q) \in Nat
  BY DEF QueueInv
<1>3. CASE ~(Len(q) >= Channels)
  BY <1>3, SilenceIs DEF Audio!AtHead
<1>4. CASE Len(q) >= Channels
  <2>1. Audio!AtHead(q) = [c \in 1..Channels |-> q[c]]
    BY <1>4 DEF Audio!AtHead
  <2>2. ASSUME NEW c \in 1..Channels
        PROVE  q[c] \in Sounding(m) /\ q[c].c = c /\ q[c].n = q[1].n /\ c \in 1..Len(q)
    <3>1. c \in 1..Len(q) /\ 1 \in 1..Len(q)
      BY <1>1, <1>2, <1>4
    <3>2. q[c].c = Column(c) /\ (Row(c) = Row(1) => q[c].n = q[1].n) /\ q[c] \in Sounding(m)
      BY <1>2, <3>1 DEF QueueInv
    <3>3. /\ (0 * Channels + (c - 1)) \div Channels = 0
          /\ (0 * Channels + (c - 1)) % Channels = c - 1
          /\ (0 * Channels + 0) \div Channels = 0
      <4>1. c - 1 \in 0..(Channels - 1) /\ 0 \in 0..(Channels - 1)
        BY <1>1
      <4>2. QED
        BY <1>1, <4>1, Unique
    <3>4. 0 * Channels + (c - 1) = c - 1 /\ 0 * Channels + 0 = 1 - 1
      BY <1>1
    <3>5. Column(c) = c /\ Row(c) = 0 /\ Row(1) = 0
      BY <3>3, <3>4 DEF Column, Row
    <3>6. QED
      BY <3>1, <3>2, <3>5
  <2>3. Sounding(m) \subseteq Sample(m)
    BY DEF Sounding, Sample
  <2>4. Audio!AtHead(q) \in [1..Channels -> Sample(m)]
    BY <2>1, <2>2, <2>3
  <2>5. \A c \in 1..Channels : Audio!AtHead(q)[c] = q[c]
    BY <2>1
  <2>6. q[1].n \in 1..m
    BY <1>1, <2>2 DEF Sounding
  <2>7. QED
    BY <1>1, <1>4, <2>2, <2>4, <2>5, <2>6 DEF FrameInv
<1>5. QED
  BY <1>3, <1>4

LEMMA RestIs ==
  ASSUME Audio!AudioAssumption, NEW m \in Nat, NEW q, QueueInv(q, m)
  PROVE  /\ QueueInv(Audio!Rest(q), m) /\ Len(Audio!Rest(q)) <= Len(q)
         /\ \A i \in 1..Len(Audio!Rest(q)) :
              \E j \in 1..Len(q) : Audio!Rest(q)[i] = q[j] /\ 1 \in 1..Len(q) /\ q[1].n <= q[j].n
<1>1. Channels \in Nat \ {0}
  BY Counts
<1>2. q \in Seq(Sounding(m)) /\ Len(q) \in Nat
  BY DEF QueueInv
<1>3. \A j \in 1..Len(q) : 1 \in 1..Len(q) /\ q[1].n <= q[j].n
  BY <1>2 DEF QueueInv
<1>4. CASE ~(Len(q) >= Channels)
  BY <1>2, <1>3, <1>4 DEF Audio!Rest
<1>5. CASE Len(q) >= Channels
  <2>1. Channels \in 0..Len(q) /\ Channels % Channels = 0
    <3>1. Channels = 1 * Channels + 0 /\ 0 \in 0..(Channels - 1)
      BY <1>1
    <3>2. (1 * Channels + 0) % Channels = 0
      BY <1>1, <3>1, Unique
    <3>3. QED
      BY <1>1, <1>2, <1>5, <3>1, <3>2
  <2>2. Audio!Rest(q) = SubSeq(q, Channels + 1, Len(q))
    BY <1>5 DEF Audio!Rest
  <2>3. /\ QueueInv(Audio!Rest(q), m) /\ Len(Audio!Rest(q)) = Len(q) - Channels
        /\ \A i \in 1..Len(Audio!Rest(q)) :
             Audio!Rest(q)[i] = q[i + Channels] /\ i + Channels \in 1..Len(q)
    BY <2>1, <2>2, DropWhole
  <2>4. QED
    BY <1>1, <1>2, <1>3, <2>3
<1>6. QED
  BY <1>4, <1>5

\* One pull.
LEMMA PullIs ==
  ASSUME Audio!AudioAssumption, NEW m \in Nat, NEW s \in Sounds(m)
  PROVE  /\ Audio!Pull(s).q = Audio!Rest(s.q) /\ Audio!Pull(s).heard = s.heard
         /\ Audio!Pull(s).m.started = s.m.started /\ Audio!Pull(s).m.pos = s.m.pos - OutRate
         /\ Audio!Pull(s).m.next = Audio!AtHead(s.q)
<1>1. Audio!Pull(s).q = Audio!Rest(s.q)
  BY DEF Audio!Pull, Sounds
<1>2. Audio!Pull(s).heard = s.heard
  BY DEF Audio!Pull, Sounds
<1>3. Audio!Pull(s).m.started = s.m.started
  BY DEF Audio!Pull, Sounds, Mixers
<1>4. Audio!Pull(s).m.pos = s.m.pos - OutRate
  BY DEF Audio!Pull, Sounds, Mixers
<1>5. Audio!Pull(s).m.next = Audio!AtHead(s.q)
  BY DEF Audio!Pull, Sounds, Mixers
<1>6. QED
  BY <1>1, <1>2, <1>3, <1>4, <1>5

LEMMA PullKinds ==
  ASSUME Audio!AudioAssumption, NEW m \in Nat, NEW s \in Sounds(m), s.m.pos >= OutRate,
         Audio!Rest(s.q) \in Seq(Sounding(m)), Audio!AtHead(s.q) \in [1..Channels -> Sample(m)]
  PROVE  Audio!Pull(s) \in Sounds(m)
<1>1. s.m.pos - OutRate \in 0..(InRate + OutRate)
  BY Counts, SMTT(40), ZenonT(60) DEF Sounds, Mixers
<1>2. s.m.next \in [1..Channels -> Sample(m)]
  BY DEF Sounds, Mixers
<1>3. [s.m EXCEPT !.pos = @ - OutRate, !.prev = s.m.next, !.next = Audio!AtHead(s.q)] \in Mixers(m)
  BY <1>1, <1>2 DEF Sounds, Mixers
<1>4. QED
  BY <1>3 DEF Audio!Pull, Sounds

LEMMA PullKeeps ==
  ASSUME Audio!AudioAssumption, NEW m \in Nat, NEW s, SoundInv(s, m), s.m.pos >= OutRate
  PROVE  /\ SoundInv(Audio!Pull(s), m)
         /\ Audio!Pull(s).heard = s.heard /\ Audio!Pull(s).m.started = s.m.started
         /\ Audio!Pull(s).m.pos = s.m.pos - OutRate
         /\ Len(s.q) >= Channels => Audio!Pull(s).m.next[1].n # 0
<1>1. s \in Sounds(m) /\ QueueInv(s.q, m)
  BY DEF SoundInv
<1>2. /\ FrameInv(Audio!AtHead(s.q), m)
      /\ Len(s.q) >= Channels =>
           Audio!AtHead(s.q)[1].n = s.q[1].n /\ s.q[1].n \in 1..m /\ 1 \in 1..Len(s.q)
      /\ ~(Len(s.q) >= Channels) => Audio!AtHead(s.q)[1].n = 0
  BY <1>1, HeadIs
<1>3. /\ QueueInv(Audio!Rest(s.q), m) /\ Len(Audio!Rest(s.q)) <= MaxQueued
      /\ \A i \in 1..Len(Audio!Rest(s.q)) : \E j \in 1..Len(s.q) :
           Audio!Rest(s.q)[i] = s.q[j] /\ 1 \in 1..Len(s.q) /\ s.q[1].n <= s.q[j].n
  <2>1. /\ QueueInv(Audio!Rest(s.q), m) /\ Len(Audio!Rest(s.q)) <= Len(s.q)
        /\ \A i \in 1..Len(Audio!Rest(s.q)) : \E j \in 1..Len(s.q) :
             Audio!Rest(s.q)[i] = s.q[j] /\ 1 \in 1..Len(s.q) /\ s.q[1].n <= s.q[j].n
    BY <1>1, RestIs
  <2>2. Len(s.q) \in Nat /\ Len(s.q) <= MaxQueued /\ Len(Audio!Rest(s.q)) \in Nat
        /\ MaxQueued \in Nat
    BY <2>1, Counts DEF SoundInv, QueueInv
  <2>3. QED
    BY <2>1, <2>2
<1>4. Audio!Rest(s.q) \in Seq(Sounding(m)) /\ Audio!AtHead(s.q) \in [1..Channels -> Sample(m)]
  BY <1>2, <1>3 DEF QueueInv, FrameInv
<1>5. Audio!Pull(s) \in Sounds(m)
  BY <1>1, <1>4, PullKinds
<1>6. /\ Audio!Pull(s).q = Audio!Rest(s.q) /\ Audio!Pull(s).heard = s.heard
      /\ Audio!Pull(s).m.started = s.m.started /\ Audio!Pull(s).m.pos = s.m.pos - OutRate
      /\ Audio!Pull(s).m.next = Audio!AtHead(s.q)
  BY <1>1, PullIs
<1>7. /\ s.heard.right /\ \A i \in 1..Len(s.q) : s.heard.n <= s.q[i].n
      /\ s.heard.n \in Nat
  BY DEF SoundInv, Sounds, Hearings
<1>8. Audio!AtHead(s.q)[1].n # 0 => Audio!AtHead(s.q)[1].n >= s.heard.n
  BY <1>2, <1>7
<1>9. ASSUME NEW i \in 1..Len(Audio!Rest(s.q))
      PROVE  Audio!AtHead(s.q)[1].n <= Audio!Rest(s.q)[i].n /\ s.heard.n <= Audio!Rest(s.q)[i].n
  <2>1. PICK j \in 1..Len(s.q) :
          Audio!Rest(s.q)[i] = s.q[j] /\ 1 \in 1..Len(s.q) /\ s.q[1].n <= s.q[j].n
    BY <1>3
  <2>2. s.q[j].n \in Nat
    <3>1. s.q \in Seq(Sounding(m))
      BY <1>1 DEF QueueInv
    <3>2. s.q[j] \in Sounding(m)
      BY <3>1
    <3>3. QED
      BY <3>2 DEF Sounding
  <2>3. QED
    BY <1>2, <1>7, <2>1, <2>2
<1>10. SoundInv(Audio!Pull(s), m)
  BY <1>2, <1>3, <1>5, <1>6, <1>7, <1>8, <1>9 DEF SoundInv
<1>11. QED
  BY <1>2, <1>6, <1>10

\* The loop's bound is enough for the position to be below a sample.
LEMMA PullsEnough ==
  ASSUME Audio!AudioAssumption
  PROVE  Audio!PerFrame \in Nat \ {0} /\ Audio!PerFrame * OutRate >= InRate + OutRate
<1>1. OutRate \in Nat \ {0} /\ InRate \in Nat \ {0} /\ InRate + OutRate - 1 \in Nat
  BY Counts
<1> DEFINE d == (InRate + OutRate - 1) \div OutRate
           r == (InRate + OutRate - 1) % OutRate
<1>2. d \in Nat /\ r \in 0..(OutRate - 1) /\ InRate + OutRate - 1 = d * OutRate + r
  BY <1>1, DivMod
<1>3. Audio!PerFrame = d + 1
  BY DEF Audio!PerFrame
<1> HIDE DEF d, r
<1>4. Audio!PerFrame * OutRate = d * OutRate + OutRate /\ d * OutRate \in Nat
  BY <1>1, <1>2, <1>3
<1>5. QED
  BY <1>1, <1>2, <1>3, <1>4

LEMMA PulledKeeps ==
  ASSUME Audio!AudioAssumption, NEW m \in Nat, NEW s, SoundInv(s, m)
  PROVE  /\ SoundInv(Audio!Pulled(s), m)
         /\ Audio!Pulled(s).heard = s.heard /\ Audio!Pulled(s).m.started = s.m.started
         /\ Audio!Pulled(s).m.pos < OutRate
         /\ s.m.pos = OutRate /\ Len(s.q) >= Channels => Audio!Pulled(s).m.next[1].n # 0
<1> DEFINE step(x) == IF x.m.pos >= OutRate THEN Audio!Pull(x) ELSE x
           is(t, n) == t = [k \in 0..n |-> IF k = 0 THEN s ELSE step(t[k - 1])]
           t == CHOOSE t : is(t, Audio!PerFrame)
<1>1. OutRate \in Nat \ {0} /\ InRate \in Nat \ {0} /\ Audio!PerFrame \in Nat \ {0}
      /\ Audio!PerFrame * OutRate >= InRate + OutRate
  BY Counts, PullsEnough
<1>2. Audio!Pulled(s) = t[Audio!PerFrame]
  BY DEF Audio!Pulled
<1>3. is(t, Audio!PerFrame)
  <2> HIDE DEF step
  <2> DEFINE S == {n \in 0..Audio!PerFrame : \E u : is(u, n)}
  <2>1. 0 \in S
    <3>1. is([k \in 0..0 |-> s], 0)
      OBVIOUS
    <3>2. 0 \in 0..Audio!PerFrame
      BY <1>1
    <3> HIDE DEF is
    <3>3. QED
      BY <3>1, <3>2
  <2>2. ASSUME NEW n \in 1..Audio!PerFrame, n - 1 \in S PROVE n \in S
    <3>1. PICK u : is(u, n - 1)
      BY <2>2
    <3> DEFINE w == [k \in 0..n |-> IF k < n THEN u[k] ELSE step(u[n - 1])]
    <3>2. ASSUME NEW k \in 0..n PROVE w[k] = IF k = 0 THEN s ELSE step(w[k - 1])
      BY <1>1, <3>1
    <3>3. w = [k \in 0..n |-> w[k]]
      OBVIOUS
    <3> HIDE DEF w
    <3>4. is(w, n)
      BY <3>2, <3>3
    <3>5. QED
      BY <3>4
  <2>3. S = 0..Audio!PerFrame
    <3> HIDE DEF is
    <3>1. S \in SUBSET (0..Audio!PerFrame)
      OBVIOUS
    <3> HIDE DEF S
    <3>2. QED
      BY <1>1, <2>1, <2>2, <3>1, Along
  <2>4. Audio!PerFrame \in S
    BY <1>1, <2>3
  <2> HIDE DEF is
  <2>5. QED
    BY <2>4
<1> HIDE DEF t
<1>4. t[0] = s /\ \A k \in 1..Audio!PerFrame : t[k] = step(t[k - 1])
  BY <1>1, <1>3
<1> HIDE DEF is
<1> DEFINE Good(k) ==
      /\ SoundInv(t[k], m)
      /\ t[k].heard = s.heard /\ t[k].m.started = s.m.started
      /\ t[k].m.pos < OutRate \/ t[k].m.pos + k * OutRate = s.m.pos
      /\ s.m.pos = OutRate /\ Len(s.q) >= Channels /\ k # 0 =>
           t[k].m.pos < OutRate /\ t[k].m.next[1].n # 0
<1>5. s.m.pos \in 0..(InRate + OutRate)
  BY DEF SoundInv, Sounds, Mixers
<1>6. Good(0)
  BY <1>4, <1>5, <1>1
<1>7. ASSUME NEW k \in 1..Audio!PerFrame, Good(k - 1) PROVE Good(k)
  <2> DEFINE x == t[k - 1]
  <2>1. t[k] = step(x) /\ k \in Nat /\ k - 1 \in Nat
    <3>1. k \in Nat /\ k - 1 \in Nat
      OBVIOUS
    <3> HIDE DEF step
    <3>2. t[k] = step(x)
      BY <1>4
    <3>3. QED
      BY <3>1, <3>2
  <2>2. /\ SoundInv(x, m) /\ x.heard = s.heard /\ x.m.started = s.m.started
        /\ x.m.pos < OutRate \/ x.m.pos + (k - 1) * OutRate = s.m.pos
        /\ s.m.pos = OutRate /\ Len(s.q) >= Channels /\ k - 1 # 0 =>
             x.m.pos < OutRate /\ x.m.next[1].n # 0
        /\ k - 1 = 0 => x = s
    BY <1>4, <1>7, SMTT(40), ZenonT(60)
  <2>3. x.m.pos \in Nat
    BY <2>2 DEF SoundInv, Sounds, Mixers
  <2> HIDE DEF x
  <2>4. CASE x.m.pos >= OutRate
    <3>1. t[k] = Audio!Pull(x)
      BY <2>1, <2>4
    <3>2. /\ SoundInv(Audio!Pull(x), m) /\ Audio!Pull(x).heard = x.heard
          /\ Audio!Pull(x).m.started = x.m.started /\ Audio!Pull(x).m.pos = x.m.pos - OutRate
          /\ Len(x.q) >= Channels => Audio!Pull(x).m.next[1].n # 0
      BY <2>2, <2>4, PullKeeps
    <3>3. x.m.pos + (k - 1) * OutRate = s.m.pos
      BY <1>1, <2>2, <2>3, <2>4
    <3>4. (x.m.pos - OutRate) + k * OutRate = s.m.pos
      <4>1. k * OutRate = (k - 1) * OutRate + OutRate /\ (k - 1) * OutRate \in Nat
        BY <1>1, <2>1
      <4>2. QED
        BY <1>1, <1>5, <2>3, <3>3, <4>1
    <3>5. s.m.pos = OutRate /\ Len(s.q) >= Channels =>
            x.m.pos - OutRate < OutRate /\ Audio!Pull(x).m.next[1].n # 0
      <4>1. CASE k - 1 # 0
        BY <1>1, <2>2, <2>3, <2>4, <4>1
      <4>2. CASE k - 1 = 0
        BY <1>1, <2>2, <2>3, <3>2, <4>2
      <4>3. QED
        BY <4>1, <4>2
    <3>6. QED
      BY <2>2, <3>1, <3>2, <3>4, <3>5
  <2>5. CASE ~(x.m.pos >= OutRate)
    <3>1. t[k] = x /\ x.m.pos < OutRate
      BY <1>1, <2>1, <2>3, <2>5
    <3>2. s.m.pos = OutRate /\ Len(s.q) >= Channels => k - 1 # 0
      BY <1>1, <2>2, <3>1
    <3>3. QED
      BY <2>2, <3>1, <3>2
  <2>6. QED
    BY <2>4, <2>5
<1>8. Good(Audio!PerFrame)
  <2> HIDE DEF Good
  <2> DEFINE S == {k \in 0..Audio!PerFrame : Good(k)}
  <2>1. S \in SUBSET (0..Audio!PerFrame) /\ 0 \in S
    BY <1>1, <1>6
  <2>2. \A k \in 1..Audio!PerFrame : k - 1 \in S => k \in S
    BY <1>7
  <2>3. S = 0..Audio!PerFrame
    <3> HIDE DEF S
    <3>1. QED
      BY <1>1, <2>1, <2>2, Along
  <2>4. Audio!PerFrame \in S
    BY <1>1, <2>3
  <2>5. QED
    BY <2>4
<1>9. t[Audio!PerFrame].m.pos < OutRate
  <2>1. t[Audio!PerFrame].m.pos \in Nat
    BY <1>8 DEF SoundInv, Sounds, Mixers
  <2>2. QED
    BY <1>1, <1>5, <1>8, <2>1
<1>10. QED
  BY <1>1, <1>2, <1>8, <1>9

-----------------------------------------------------------------------------
(* What the device is given.                                               *)

\* A frame of the device, and all it asks for.
LEMMA GivenIs ==
  ASSUME Audio!AudioAssumption, NEW m \in Nat, NEW s \in Sounds(m), s.m.pos < OutRate,
         s.m.next[1].n \in 0..m
  PROVE  /\ Audio!Given(s) \in Sounds(m)
         /\ Audio!Given(s).q = s.q /\ Audio!Given(s).m.next = s.m.next
         /\ Audio!Given(s).m.started = s.m.started
         /\ Audio!Given(s).heard.n = IF s.m.next[1].n # 0 THEN s.m.next[1].n ELSE s.heard.n
         /\ Audio!Given(s).heard.right <=>
              /\ s.heard.right
              /\ \A c \in 1..Channels : s.m.next[c].c = c
              /\ \A c, d \in 1..Channels : s.m.next[c].n = s.m.next[d].n
              /\ s.m.next[1].n # 0 => s.m.next[1].n >= s.heard.n
<1>1. s.m.pos + InRate \in 0..(InRate + OutRate)
  BY Counts, SMTT(40), ZenonT(60) DEF Sounds, Mixers
<1>2. [s.m EXCEPT !.pos = @ + InRate] \in Mixers(m)
  BY <1>1 DEF Sounds, Mixers
<1> DEFINE h == [n |-> IF s.m.next[1].n # 0 THEN s.m.next[1].n ELSE s.heard.n,
                 right |-> /\ s.heard.right
                           /\ \A c \in 1..Channels : s.m.next[c].c = c
                           /\ \A c, d \in 1..Channels : s.m.next[c].n = s.m.next[d].n
                           /\ s.m.next[1].n # 0 => s.m.next[1].n >= s.heard.n]
<1>3. h \in Hearings(m)
  <2>1. h.n \in 0..m
    BY DEF Sounds, Hearings
  <2>2. h.right \in BOOLEAN
    OBVIOUS
  <2>3. QED
    BY <2>1, <2>2 DEF Hearings
<1>4. Audio!Given(s) = [s EXCEPT !.m.pos = @ + InRate, !.heard = h]
  BY DEF Audio!Given
<1> HIDE DEF h
<1>5. Audio!Given(s) \in Sounds(m)
  BY <1>2, <1>3, <1>4 DEF Sounds
<1>6. Audio!Given(s).q = s.q
  BY <1>4 DEF Sounds
<1>7. Audio!Given(s).m.next = s.m.next
  BY <1>4 DEF Sounds, Mixers
<1>8. Audio!Given(s).m.started = s.m.started
  BY <1>4 DEF Sounds, Mixers
<1>9. Audio!Given(s).heard = h
  BY <1>4 DEF Sounds
<1>10. QED
  BY <1>5, <1>6, <1>7, <1>8, <1>9 DEF h

LEMMA OutFrameKeeps ==
  ASSUME Audio!AudioAssumption, NEW m \in Nat, NEW s, SoundInv(s, m)
  PROVE  /\ SoundInv(Audio!OutFrame(s), m) /\ Audio!OutFrame(s).m.started = s.m.started
         /\ s.heard.n # 0 => Audio!OutFrame(s).heard.n # 0
         /\ s.m.pos = OutRate /\ Len(s.q) >= Channels => Audio!OutFrame(s).heard.n # 0
<1> DEFINE p == Audio!Pulled(s)
<1>1. /\ SoundInv(p, m) /\ p.heard = s.heard /\ p.m.started = s.m.started
      /\ p.m.pos < OutRate
      /\ s.m.pos = OutRate /\ Len(s.q) >= Channels => p.m.next[1].n # 0
  BY PulledKeeps
<1>2. Audio!OutFrame(s) = Audio!Given(p)
  BY DEF Audio!OutFrame
<1> HIDE DEF p
<1>3. /\ p \in Sounds(m) /\ QueueInv(p.q, m) /\ Len(p.q) <= MaxQueued
      /\ FrameInv(p.m.next, m) /\ p.heard.right
      /\ p.m.next[1].n # 0 => p.m.next[1].n >= p.heard.n
      /\ \A i \in 1..Len(p.q) : p.m.next[1].n <= p.q[i].n /\ p.heard.n <= p.q[i].n
  BY <1>1 DEF SoundInv
<1>4. 1 \in 1..Channels
  BY Counts
<1>5. p.m.next[1].n \in 0..m /\ p.heard.n \in 0..m
  <2>1. p.m.next[1] \in Sample(m)
    BY <1>3, <1>4 DEF FrameInv
  <2>2. p.heard \in Hearings(m)
    BY <1>3 DEF Sounds
  <2>3. QED
    BY <2>1, <2>2 DEF Sample, Hearings
<1>6. /\ \A c \in 1..Channels : p.m.next[c].c = c
      /\ \A c, d \in 1..Channels : p.m.next[c].n = p.m.next[d].n
  BY <1>3 DEF FrameInv
<1>7. /\ Audio!Given(p) \in Sounds(m) /\ Audio!Given(p).q = p.q /\ Audio!Given(p).m.next = p.m.next
      /\ Audio!Given(p).m.started = p.m.started
      /\ Audio!Given(p).heard.n = IF p.m.next[1].n # 0 THEN p.m.next[1].n ELSE p.heard.n
      /\ Audio!Given(p).heard.right
  <2>1. /\ Audio!Given(p) \in Sounds(m) /\ Audio!Given(p).q = p.q
        /\ Audio!Given(p).m.next = p.m.next
        /\ Audio!Given(p).m.started = p.m.started
        /\ Audio!Given(p).heard.n = IF p.m.next[1].n # 0 THEN p.m.next[1].n ELSE p.heard.n
        /\ Audio!Given(p).heard.right <=>
              /\ p.heard.right
              /\ \A c \in 1..Channels : p.m.next[c].c = c
              /\ \A c, d \in 1..Channels : p.m.next[c].n = p.m.next[d].n
              /\ p.m.next[1].n # 0 => p.m.next[1].n >= p.heard.n
    BY <1>1, <1>3, <1>5, GivenIs
  <2>2. QED
    BY <2>1, <1>3, <1>6
<1>8. p.m.next[1].n # 0 => p.m.next[1].n >= Audio!Given(p).heard.n
  BY <1>5, <1>7
<1>9. \A i \in 1..Len(p.q) : p.m.next[1].n <= p.q[i].n /\ Audio!Given(p).heard.n <= p.q[i].n
  BY <1>3, <1>7
<1>10. SoundInv(Audio!Given(p), m)
  BY <1>3, <1>7, <1>8, <1>9 DEF SoundInv
<1>11. QED
  BY <1>1, <1>2, <1>7, <1>10

LEMMA FilledKeeps ==
  ASSUME Audio!AudioAssumption, NEW m \in Nat, NEW s, SoundInv(s, m),
         s.heard.n # 0 \/ (s.m.pos = OutRate /\ Len(s.q) >= Channels)
  PROVE  /\ SoundInv(Audio!Filled(s), m) /\ Audio!Filled(s).m.started = s.m.started
         /\ Audio!Filled(s).heard.n # 0
<1> DEFINE is(t, n) == t = [k \in 0..n |-> IF k = 0 THEN s ELSE Audio!OutFrame(t[k - 1])]
           t == CHOOSE t : is(t, OutFrames)
<1>1. OutFrames \in Nat \ {0}
  BY Counts
<1>2. Audio!Filled(s) = t[OutFrames]
  BY DEF Audio!Filled
<1>3. is(t, OutFrames)
  <2> DEFINE S == {n \in 0..OutFrames : \E u : is(u, n)}
  <2>1. 0 \in S
    <3>1. is([k \in 0..0 |-> s], 0)
      OBVIOUS
    <3>2. 0 \in 0..OutFrames
      BY <1>1
    <3> HIDE DEF is
    <3>3. QED
      BY <3>1, <3>2
  <2>2. ASSUME NEW n \in 1..OutFrames, n - 1 \in S PROVE n \in S
    <3>1. PICK u : is(u, n - 1)
      BY <2>2
    <3> DEFINE w == [k \in 0..n |-> IF k < n THEN u[k] ELSE Audio!OutFrame(u[n - 1])]
    <3>2. ASSUME NEW k \in 0..n PROVE w[k] = IF k = 0 THEN s ELSE Audio!OutFrame(w[k - 1])
      BY <1>1, <3>1
    <3>3. w = [k \in 0..n |-> w[k]]
      OBVIOUS
    <3> HIDE DEF w
    <3>4. is(w, n)
      BY <3>2, <3>3
    <3>5. QED
      BY <3>4
  <2>3. S = 0..OutFrames
    <3> HIDE DEF is
    <3>1. S \in SUBSET (0..OutFrames)
      OBVIOUS
    <3> HIDE DEF S
    <3>2. QED
      BY <1>1, <2>1, <2>2, <3>1, Along
  <2>4. OutFrames \in S
    BY <1>1, <2>3, SMTT(40), ZenonT(60)
  <2> HIDE DEF is
  <2>5. QED
    BY <2>4
<1> HIDE DEF t
<1>4. t[0] = s /\ \A k \in 1..OutFrames : t[k] = Audio!OutFrame(t[k - 1])
  BY <1>1, <1>3
<1> HIDE DEF is
<1> DEFINE Good(k) == /\ SoundInv(t[k], m) /\ t[k].m.started = s.m.started
                      /\ k # 0 => t[k].heard.n # 0
<1>5. Good(0)
  BY <1>4
<1>6. ASSUME NEW k \in 1..OutFrames, Good(k - 1) PROVE Good(k)
  <2> DEFINE x == t[k - 1]
  <2>1. /\ t[k] = Audio!OutFrame(x) /\ SoundInv(x, m) /\ x.m.started = s.m.started
        /\ k - 1 # 0 => x.heard.n # 0
        /\ k - 1 = 0 => x = s
    BY <1>4, <1>6
  <2> HIDE DEF x
  <2>2. /\ SoundInv(Audio!OutFrame(x), m) /\ Audio!OutFrame(x).m.started = x.m.started
        /\ x.heard.n # 0 => Audio!OutFrame(x).heard.n # 0
        /\ x.m.pos = OutRate /\ Len(x.q) >= Channels => Audio!OutFrame(x).heard.n # 0
    BY <2>1, OutFrameKeeps
  <2>3. Audio!OutFrame(x).heard.n # 0
    BY <2>1, <2>2
  <2>4. QED
    BY <2>1, <2>2, <2>3
<1>7. Good(OutFrames)
  <2> HIDE DEF Good
  <2> DEFINE S == {k \in 0..OutFrames : Good(k)}
  <2>1. S \in SUBSET (0..OutFrames) /\ 0 \in S
    BY <1>1, <1>5
  <2>2. \A k \in 1..OutFrames : k - 1 \in S => k \in S
    BY <1>6
  <2>3. S = 0..OutFrames
    <3> HIDE DEF S
    <3>1. QED
      BY <1>1, <2>1, <2>2, Along
  <2>4. OutFrames \in S
    BY <1>1, <2>3
  <2>5. QED
    BY <2>4
<1>8. QED
  BY <1>1, <1>2, <1>7

-----------------------------------------------------------------------------
(* The steps.                                                              *)

LEMMA AudioInit == Audio!AudioAssumption /\ Audio!Init => AudioInv
<1> SUFFICES ASSUME Audio!AudioAssumption, Audio!Init PROVE AudioInv
  OBVIOUS
<1>1. /\ player = "none" /\ queue = <<>> /\ mixer = Audio!Fresh
      /\ output = "none" /\ thread = "none"
      /\ sent = 0 /\ packets = 0 /\ lost = 0 /\ undecodable = 0 /\ pulled = 0
      /\ heard = [n |-> 0, right |-> TRUE] /\ warned = FALSE /\ notices = 0
  BY DEF Audio!Init
<1>2. Thread
  <2>1. sent \in 0..MaxFrames /\ {packets, lost, undecodable, pulled} \subseteq Nat
    BY <1>1, Counts
  <2>2. warned \in BOOLEAN /\ notices = IF warned THEN 1 ELSE 0
    BY <1>1
  <2>3. /\ player \in {"none", "lives", "refused", "gone"}
        /\ output \in {"none", "Opening", "Playing", "Failed"}
        /\ thread \in {"none", "opening", "holds", "ended"}
    BY <1>1
  <2>4. QED
    BY <2>1, <2>2, <2>3 DEF Thread
<1>3. Len(queue) = 0 /\ queue \in Seq(Sounding(0)) /\ MaxQueued \in Nat
  BY <1>1, Counts
<1>4. QueueInv(queue, 0)
  <2>1. 0 % Channels = 0
    <3>1. Channels \in Nat \ {0} /\ 0 \in 0..(Channels - 1) /\ 0 * Channels + 0 = 0
      BY Counts
    <3>2. (0 * Channels + 0) % Channels = 0
      BY <3>1, Unique
    <3>3. QED
      BY <3>1, <3>2
  <2>2. QED
    BY <1>3, <2>1 DEF QueueInv
<1>5. FrameInv(Audio!Silence, 0) /\ Audio!Silence[1].n = 0
  BY SilenceIs
<1>6. Audio!Fresh \in Mixers(0) /\ Audio!Fresh.next = Audio!Silence /\ ~Audio!Fresh.started
  <2>1. Audio!Silence \in [1..Channels -> Sample(0)]
    BY <1>5 DEF FrameInv
  <2>2. OutRate \in 0..(InRate + OutRate)
    BY Counts
  <2>3. QED
    BY <2>1, <2>2 DEF Audio!Fresh, Mixers
<1>7. heard \in Hearings(0) /\ heard.n = 0 /\ heard.right
  BY <1>1 DEF Hearings
<1>8. SoundInv([q |-> queue, m |-> mixer, heard |-> heard], sent)
  BY <1>1, <1>3, <1>4, <1>5, <1>6, <1>7 DEF SoundInv, Sounds
<1>9. QED
  BY <1>1, <1>2, <1>3, <1>6, <1>8 DEF AudioInv

LEMMA AudioMeans == Audio!AudioAssumption /\ AudioInv
  => Audio!TypeOK /\ Audio!ChannelsStay /\ Audio!PlaysMeansHeard
<1> SUFFICES ASSUME Audio!AudioAssumption, AudioInv
                    PROVE Audio!TypeOK /\ Audio!ChannelsStay /\ Audio!PlaysMeansHeard
  OBVIOUS
<1>1. /\ queue \in Seq(Sounding(sent)) /\ Len(queue) % Channels = 0
      /\ mixer \in Mixers(sent) /\ heard.right /\ Len(queue) <= MaxQueued
  BY DEF AudioInv, SoundInv, Sounds, QueueInv
<1>2. \A i \in 1..Len(queue) : queue[i] \in [n : 1..sent, c : 1..Channels]
  <2>1. \A i \in 1..Len(queue) : queue[i] \in Sounding(sent)
    BY <1>1
  <2>2. QED
    BY <2>1 DEF Sounding
<1>3. mixer.started \in BOOLEAN /\ mixer.pos \in 0..(InRate + OutRate)
  BY <1>1 DEF Mixers
<1>4. Audio!TypeOK
  BY <1>1, <1>2, <1>3 DEF Audio!TypeOK, AudioInv, Thread
<1>5. Audio!ChannelsStay
  BY <1>1 DEF Audio!ChannelsStay
<1>6. Audio!PlaysMeansHeard
  BY DEF Audio!PlaysMeansHeard, Audio!Describe, AudioInv
<1>7. QED
  BY <1>4, <1>5, <1>6

\* The queue without its oldest sound.
LEMMA TrimIs ==
  ASSUME Audio!AudioAssumption, NEW m \in Nat, NEW q, QueueInv(q, m)
  PROVE  /\ QueueInv(Audio!Trim(q), m) /\ Len(Audio!Trim(q)) <= MaxQueued
         /\ \A i \in 1..Len(Audio!Trim(q)) : \E j \in 1..Len(q) : Audio!Trim(q)[i] = q[j]
<1>1. Channels \in Nat \ {0} /\ MaxQueued \in Nat /\ Keep \in Nat /\ Keep <= MaxQueued
      /\ Keep % Channels = 0
  BY Counts DEF Audio!AudioAssumption
<1>2. q \in Seq(Sounding(m)) /\ Len(q) \in Nat /\ Len(q) % Channels = 0
  BY DEF QueueInv
<1>3. CASE ~(Len(q) > MaxQueued)
  BY <1>1, <1>2, <1>3 DEF Audio!Trim
<1>4. CASE Len(q) > MaxQueued
  <2> DEFINE k == Len(q) - Keep
  <2>1. k \in 0..Len(q) /\ Audio!Trim(q) = SubSeq(q, k + 1, Len(q))
    BY <1>1, <1>2, <1>4 DEF Audio!Trim
  <2>2. k % Channels = 0
    <3>1. PICK a \in Nat : Len(q) = a * Channels
      BY <1>1, <1>2, Multiple
    <3>2. PICK b \in Nat : Keep = b * Channels
      BY <1>1, Multiple
    <3>3. b <= a
      <4>1. CASE b > a
        <5>1. PICK d \in Nat : b = a + d + 1
          <6>1. b - a - 1 \in Nat /\ b = a + (b - a - 1) + 1
            BY <4>1
          <6>2. QED
            BY <6>1
        <5>2. b * Channels = a * Channels + d * Channels + Channels /\ d * Channels \in Nat
          BY <1>1, <5>1
        <5>3. QED
          BY <1>1, <1>2, <1>4, <3>1, <3>2, <5>2
      <4>2. QED
        BY <4>1
    <3>4. a - b \in Nat /\ k = (a - b) * Channels + 0 /\ 0 \in 0..(Channels - 1)
      BY <1>1, <3>1, <3>2, <3>3
    <3>5. ((a - b) * Channels + 0) % Channels = 0
      BY <1>1, <3>4, Unique
    <3>6. QED
      BY <3>4, <3>5
  <2>3. /\ QueueInv(Audio!Trim(q), m) /\ Len(Audio!Trim(q)) = Len(q) - k
        /\ \A i \in 1..Len(Audio!Trim(q)) : Audio!Trim(q)[i] = q[i + k] /\ i + k \in 1..Len(q)
    <3> HIDE DEF k
    <3>1. QED
      BY <2>1, <2>2, DropWhole
  <2>4. Len(Audio!Trim(q)) <= MaxQueued
    BY <1>1, <1>2, <2>3
  <2>5. QED
    BY <2>3, <2>4
<1>5. QED
  BY <1>3, <1>4

\* A packet keeps the queue whole and what was heard behind it.
LEMMA PushKeeps ==
  ASSUME Audio!AudioAssumption, NEW m \in Nat, NEW n \in Nat, NEW s, SoundInv(s, m),
         NEW q, q = s.q \/ q = Audio!Trim(s.q \o Audio!Frames(m + 1, n))
  PROVE  SoundInv([q |-> q, m |-> s.m, heard |-> s.heard], m + n)
<1>1. /\ Len(s.q) <= MaxQueued
      /\ s \in Sounds(m) /\ QueueInv(s.q, m) /\ FrameInv(s.m.next, m) /\ s.heard.right
      /\ s.m.next[1].n # 0 => s.m.next[1].n >= s.heard.n
      /\ \A i \in 1..Len(s.q) : s.m.next[1].n <= s.q[i].n /\ s.heard.n <= s.q[i].n
  BY DEF SoundInv
<1>2. 1 \in 1..Channels
  BY Counts
<1>3. s.heard.n \in 0..m /\ s.m.next[1].n \in 0..m
  <2>1. s.m.next[1] \in Sample(m) /\ s.heard \in Hearings(m)
    BY <1>1, <1>2 DEF FrameInv, Sounds
  <2>2. QED
    BY <2>1 DEF Sample, Hearings
<1>4. Sample(m) \subseteq Sample(m + n) /\ Hearings(m) \subseteq Hearings(m + n)
  BY DEF Sample, Hearings
<1>5. s.m \in Mixers(m + n) /\ s.heard \in Hearings(m + n) /\ FrameInv(s.m.next, m + n)
  <2>1. s.m \in Mixers(m) /\ s.heard \in Hearings(m)
    BY <1>1 DEF Sounds
  <2>2. [1..Channels -> Sample(m)] \subseteq [1..Channels -> Sample(m + n)]
    BY <1>4
  <2>3. Mixers(m) \subseteq Mixers(m + n)
    BY <2>2 DEF Mixers
  <2>4. FrameInv(s.m.next, m + n)
    BY <1>1, <2>2 DEF FrameInv
  <2>5. QED
    BY <1>4, <2>1, <2>3, <2>4
<1>6. /\ QueueInv(q, m + n) /\ Len(q) <= MaxQueued
      /\ \A i \in 1..Len(q) : s.m.next[1].n <= q[i].n /\ s.heard.n <= q[i].n
  <2>1. CASE q = s.q
    BY <1>1, <2>1, LaterWhole
  <2>2. CASE q = Audio!Trim(s.q \o Audio!Frames(m + 1, n))
    <3> DEFINE r == s.q \o Audio!Frames(m + 1, n)
    <3>1. /\ QueueInv(r, m + n)
          /\ \A i \in 1..Len(r) : r[i].n > m \/ (i \in 1..Len(s.q) /\ r[i] = s.q[i])
      <4>1. \A o : QueueInv(o, m) =>
              LET e == o \o Audio!Frames(m + 1, n) IN
              /\ QueueInv(e, m + n)
              /\ \A i \in 1..Len(e) : e[i].n > m \/ (i \in 1..Len(o) /\ e[i] = o[i])
        BY AppendWhole
      <4>2. QED
        BY <1>1, <4>1
    <3> HIDE DEF r
    <3>2. /\ QueueInv(Audio!Trim(r), m + n) /\ Len(Audio!Trim(r)) <= MaxQueued
          /\ \A i \in 1..Len(Audio!Trim(r)) : \E j \in 1..Len(r) : Audio!Trim(r)[i] = r[j]
      BY <3>1, TrimIs
    <3>3. ASSUME NEW i \in 1..Len(Audio!Trim(r))
          PROVE  s.m.next[1].n <= Audio!Trim(r)[i].n /\ s.heard.n <= Audio!Trim(r)[i].n
      <4>1. PICK j \in 1..Len(r) : Audio!Trim(r)[i] = r[j]
        BY <3>2
      <4>2. r[j].n \in Nat
        <5>1. r \in Seq(Sounding(m + n))
          BY <3>1 DEF QueueInv
        <5>2. r[j] \in Sounding(m + n)
          BY <5>1
        <5>3. QED
          BY <5>2 DEF Sounding
      <4>3. CASE r[j].n > m
        BY <1>3, <4>1, <4>2, <4>3, SMTT(40), ZenonT(60)
      <4>4. CASE j \in 1..Len(s.q) /\ r[j] = s.q[j]
        BY <1>1, <4>1, <4>4
      <4>5. QED
        BY <3>1, <4>3, <4>4
    <3>4. q = Audio!Trim(r)
      BY <2>2 DEF r
    <3>5. QED
      BY <3>2, <3>3, <3>4
  <2>3. QED
    BY <2>1, <2>2
<1>7. q \in Seq(Sounding(m + n))
  BY <1>6 DEF QueueInv
<1> DEFINE u == [q |-> q, m |-> s.m, heard |-> s.heard]
<1>8. u.q = q /\ u.m = s.m /\ u.heard = s.heard /\ u \in Sounds(m + n)
  BY <1>5, <1>7 DEF Sounds
<1> HIDE DEF u
<1>9. SoundInv(u, m + n)
  BY <1>1, <1>5, <1>6, <1>8 DEF SoundInv
<1>10. QED
  BY <1>6, <1>9 DEF u

LEMMA PacketKeeps == Audio!AudioAssumption /\ AudioInv /\ Audio!Packet => AudioInv'
<1> SUFFICES ASSUME Audio!AudioAssumption, AudioInv, Audio!Packet PROVE AudioInv'
  OBVIOUS
<1>1. PICK n \in 1..2, gone \in BOOLEAN, bad \in BOOLEAN :
        /\ sent + n <= MaxFrames /\ Audio!Push(bad, n) /\ sent' = sent + n
        /\ lost' = lost + (IF gone THEN 1 ELSE 0)
        /\ packets' = packets + (IF gone THEN 0 ELSE 1)
  BY DEF Audio!Packet
<1>2. UNCHANGED <<player, mixer, output, thread, pulled, heard, warned, notices>>
  BY DEF Audio!Packet
<1>3. sent \in Nat /\ n \in Nat /\ Thread
  BY DEF AudioInv, Thread
<1> DEFINE s == [q |-> queue, m |-> mixer, heard |-> heard]
<1>4. SoundInv(s, sent) /\ s.q = queue /\ s.m = mixer /\ s.heard = heard
  BY DEF AudioInv
<1> HIDE DEF s
<1>5. queue' = s.q \/ queue' = Audio!Trim(s.q \o Audio!Frames(sent + 1, n))
  BY <1>1, <1>4 DEF Audio!Push
<1>6. SoundInv([q |-> queue', m |-> s.m, heard |-> s.heard], sent + n)
  BY <1>3, <1>4, <1>5, PushKeeps
<1>7. SoundInv([q |-> queue', m |-> mixer', heard |-> heard'], sent')
  BY <1>1, <1>2, <1>4, <1>6
<1>8. Thread'
  <2>1. sent' \in 0..MaxFrames
    BY <1>1, <1>3, Counts
  <2>2. undecodable' = undecodable + (IF bad THEN 1 ELSE 0)
    BY <1>1 DEF Audio!Push
  <2>3. packets' \in Nat /\ lost' \in Nat /\ undecodable' \in Nat
    <3>1. packets \in Nat /\ lost \in Nat /\ undecodable \in Nat
      BY <1>3 DEF Thread
    <3>2. QED
      BY <1>1, <2>2, <3>1
  <2>4. QED
    BY <1>2, <1>3, <2>1, <2>3 DEF Thread
<1>9. /\ ~mixer'.started => mixer' = Audio!Fresh
      /\ mixer'.started \/ pulled' # 0 => heard'.n # 0
  BY <1>2 DEF AudioInv
<1>10. QED
  BY <1>7, <1>8, <1>9 DEF AudioInv

LEMMA FillKeeps == Audio!AudioAssumption /\ AudioInv /\ Audio!Fill => AudioInv'
<1> SUFFICES ASSUME Audio!AudioAssumption, AudioInv, Audio!Fill PROVE AudioInv'
  OBVIOUS
<1>1. UNCHANGED <<player, output, thread, sent, packets, lost, undecodable, warned, notices>>
  BY DEF Audio!Fill
<1>2. /\ Thread
      /\ SoundInv([q |-> queue, m |-> mixer, heard |-> heard], sent)
      /\ ~mixer.started => mixer = Audio!Fresh
      /\ mixer.started \/ pulled # 0 => heard.n # 0
  BY DEF AudioInv
<1>3. CASE UNCHANGED <<queue, mixer, heard, pulled>>
  BY <1>1, <1>2, <1>3 DEF AudioInv, Thread
<1>4. CASE ~(~mixer.started /\ Len(queue) < Preroll)
  <2> DEFINE s == [q |-> queue, m |-> [mixer EXCEPT !.started = TRUE], heard |-> heard]
             z == Audio!Filled(s)
  <2>1. queue' = z.q /\ mixer' = z.m /\ heard' = z.heard /\ pulled' = 1
    BY <1>4 DEF Audio!Fill
  <2>2. sent \in Nat
    BY <1>2 DEF Thread
  <2>3. /\ queue \in Seq(Sounding(sent)) /\ mixer \in Mixers(sent) /\ heard \in Hearings(sent)
        /\ QueueInv(queue, sent) /\ Len(queue) <= MaxQueued /\ FrameInv(mixer.next, sent)
        /\ heard.right
        /\ mixer.next[1].n # 0 => mixer.next[1].n >= heard.n
        /\ \A i \in 1..Len(queue) : mixer.next[1].n <= queue[i].n /\ heard.n <= queue[i].n
    BY <1>2 DEF SoundInv, Sounds
  <2>4. /\ s.q = queue /\ s.heard = heard /\ s.m.next = mixer.next /\ s.m.pos = mixer.pos
        /\ s.m.started = TRUE /\ s.m \in Mixers(sent)
    BY <2>3 DEF Mixers
  <2>5. s \in Sounds(sent)
    BY <2>3, <2>4 DEF Sounds
  <2> HIDE DEF s
  <2>6. SoundInv(s, sent)
    BY <2>3, <2>4, <2>5 DEF SoundInv
  <2>7. s.heard.n # 0 \/ (s.m.pos = OutRate /\ Len(s.q) >= Channels)
    <3>1. CASE mixer.started
      BY <1>2, <2>4, <3>1
    <3>2. CASE ~mixer.started
      <4>1. s.m.pos = OutRate
        BY <1>2, <2>4, <3>2 DEF Audio!Fresh
      <4>2. Len(queue) \in Nat /\ Len(queue) >= 1 /\ Len(queue) % Channels = 0
        BY <1>4, <2>3, <3>2, Counts DEF QueueInv
      <4>3. PICK a \in Nat : Len(queue) = a * Channels
        BY <4>2, Counts, Multiple
      <4>4. Len(queue) >= Channels
        <5>1. Channels \in Nat \ {0} /\ a # 0
          BY <4>2, <4>3, Counts
        <5>2. a - 1 \in Nat /\ a * Channels = (a - 1) * Channels + Channels
          BY <5>1
        <5>3. (a - 1) * Channels \in Nat
          BY <5>1, <5>2
        <5>4. QED
          BY <4>3, <5>1, <5>2, <5>3
      <4>5. QED
        BY <2>4, <4>1, <4>4
    <3>3. QED
      BY <3>1, <3>2
  <2>8. SoundInv(z, sent) /\ z.m.started = TRUE /\ z.heard.n # 0
    BY <2>2, <2>4, <2>6, <2>7, FilledKeeps
  <2> HIDE DEF z
  <2>9. z = [q |-> z.q, m |-> z.m, heard |-> z.heard]
    BY <2>8 DEF SoundInv, Sounds
  <2>10. SoundInv([q |-> queue', m |-> mixer', heard |-> heard'], sent')
    BY <1>1, <2>1, <2>8, <2>9
  <2>11. Thread'
    BY <1>1, <1>2, <2>1 DEF Thread
  <2>12. QED
    BY <2>1, <2>8, <2>10, <2>11 DEF AudioInv
<1>5. QED
  BY <1>3, <1>4 DEF Audio!Fill

LEMMA AudioNext == Audio!AudioAssumption /\ AudioInv /\ [Audio!Next]_Audio!vars => AudioInv'
<1> SUFFICES ASSUME Audio!AudioAssumption, AudioInv, [Audio!Next]_Audio!vars PROVE AudioInv'
  OBVIOUS
<1>1. ASSUME UNCHANGED <<queue, mixer, heard, sent, pulled>>, Thread' PROVE AudioInv'
  BY <1>1 DEF AudioInv
<1>2. Thread
  BY DEF AudioInv
<1>3. CASE Audio!Setup
  BY <1>1, <1>2, <1>3 DEF Audio!Setup, Thread
<1>4. CASE Audio!Packet
  BY <1>4, PacketKeeps
<1>5. CASE Audio!Fill
  BY <1>5, FillKeeps
<1>6. CASE Audio!Open
  BY <1>1, <1>2, <1>6 DEF Audio!Open, Thread
<1>7. CASE Audio!Close
  BY <1>1, <1>2, <1>7 DEF Audio!Close, Thread
<1>8. CASE Audio!Cleanup
  BY <1>1, <1>2, <1>8 DEF Audio!Cleanup, Thread
<1>9. CASE Audio!Second
  <2>1. ~warned /\ warned' /\ warned' \in BOOLEAN /\ notices' = notices + 1 /\ notices = 0
    BY <1>2, <1>9 DEF Audio!Second, Thread
  <2>2. notices' = IF warned' THEN 1 ELSE 0
    BY <2>1
  <2>3. UNCHANGED <<player, queue, mixer, output, thread, sent, packets, lost, undecodable,
                    pulled, heard>>
    BY <1>9 DEF Audio!Second
  <2>4. Thread'
    BY <1>2, <2>1, <2>2, <2>3 DEF Thread
  <2>5. QED
    BY <1>1, <2>3, <2>4
<1>10. CASE UNCHANGED Audio!vars
  BY <1>1, <1>2, <1>10 DEF Audio!vars, Thread
<1>11. QED
  BY <1>3, <1>4, <1>5, <1>6, <1>7, <1>8, <1>9, <1>10 DEF Audio!Next

-----------------------------------------------------------------------------
(* A black picture.                                                        *)

\* BlackPicture's variables.
win11 == v1
disp == v2
desktop == v3
at == v4
help == v5
want == v6
cur == v7
order == v8
touched == v9
refused == v10
told == v11
still == v12
displayChanges == v13
displayFaults == v14
USE DEF win11, disp, desktop, at, help, want, cur, order, touched, refused, told, still,
    displayChanges, displayFaults

LEMMA LeastPath ==
  ASSUME Displays \in Nat, NEW S \in SUBSET Display!Paths, S # {}
  PROVE  LET p == CHOOSE p \in S : \A q \in S : p <= q IN p \in S /\ \A q \in S : p <= q
<1>1. S \in SUBSET (0..Displays)
  BY DEF Display!Paths
<1>2. QED
  BY <1>1, Least

Switches == {"wide", "hdr", "old"}
Has(kind) == \E i \in 1..Len(order) : order[i] = kind

Causes == {"none", "kept by Windows", "mode", "mode, no monitor", "asleep", "nothing drawn",
           "locked", "no monitor", "capture"}
Helps == [cause : Causes, button : BOOLEAN, mode : Display!Modes \cup {""}]

DisplayKinds ==
  /\ win11 \in BOOLEAN /\ disp \in [Display!Paths -> Display!Display]
  /\ \A p \in Display!Paths : disp[p].wide => win11
  /\ help \in Helps
  /\ at \in {"black", "shown", "next", "switch", "told"}
  /\ want \in BOOLEAN /\ order \in Seq(Switches) /\ still \in BOOLEAN
  /\ cur \in 0..Displays /\ touched \in Nat /\ refused \in Nat
  /\ told \in {"nothing", "refused", "on", "off"} /\ displayFaults \in Nat

\* A path is being switched because it is not as asked, with a switch left to try.
SwitchInv ==
  /\ touched + refused <= cur
  /\ at = "switch" =>
       /\ cur \in Display!Paths /\ touched + refused < cur
       /\ order # <<>> /\ (Display!Enabled(disp[cur]) <=> ~want)
       /\ ~win11 => Len(order) = 1 /\ order[1] = "old"

\* The button was pressed on a report that still holds, and nothing has failed.
Plain == help.button /\ still /\ displayFaults = 0 /\ at \in {"next", "switch", "told"}

\* A mode that is on has its switch among those left.
Reachable(x) == (x.wide => Has("wide")) /\ (x.hdr /\ win11 => Has("hdr"))

\* What the requests of the Mac have come to so far.
OfferInv ==
  /\ at = "black" => ~help.button
  /\ help.button /\ at \in {"next", "switch", "told"} => ~want
  /\ Plain => \A p \in Display!Listed :
       /\ Display!Enabled(disp[p]) /\ ~disp[p].enforced
          => at # "told" /\ (at = "switch" => p >= cur)
       /\ Display!Enabled(disp[p]) /\ ~disp[p].enforced /\ at = "next" => p > cur
  /\ Plain /\ at = "switch" /\ ~disp[cur].enforced => Reachable(disp[cur])

DisplayInv == DisplayKinds /\ SwitchInv /\ OfferInv

LEMMA DisplayInit == Display!PictureAssumption /\ Display!Init => DisplayInv
<1> SUFFICES ASSUME Display!PictureAssumption, Display!Init PROVE DisplayInv
  OBVIOUS
<1>1. order \in Seq(Switches) /\ order = <<>>
  BY DEF Display!Init
<1>2. help = Display!NoHelp /\ help \in Helps /\ ~help.button
  BY DEF Display!Init, Display!NoHelp, Helps, Causes
<1>3. want = FALSE /\ still = TRUE
  BY DEF Display!Init
<1>4. /\ at = "black" /\ touched = 0 /\ refused = 0 /\ displayFaults = 0 /\ told = "nothing"
      /\ cur = 0 /\ Displays \in Nat
  BY DEF Display!Init, Display!PictureAssumption
<1>5. /\ win11 \in BOOLEAN /\ disp \in [Display!Paths -> Display!Display]
      /\ \A p \in Display!Paths : disp[p].wide => win11
  BY DEF Display!Init
<1>6. DisplayKinds
  <2>1. want \in BOOLEAN /\ still \in BOOLEAN
    BY <1>3
  <2>2. cur \in 0..Displays /\ touched \in Nat /\ refused \in Nat /\ displayFaults \in Nat
    BY <1>4
  <2>3. /\ at \in {"black", "shown", "next", "switch", "told"}
        /\ told \in {"nothing", "refused", "on", "off"}
    BY <1>4
  <2>4. QED
    BY <1>1, <1>2, <1>5, <2>1, <2>2, <2>3 DEF DisplayKinds
<1>7. SwitchInv
  BY <1>4 DEF SwitchInv
<1>8. OfferInv
  BY <1>2, <1>4 DEF OfferInv, Plain
<1>9. QED
  BY <1>6, <1>7, <1>8 DEF DisplayInv

LEMMA EnabledMeans ==
  \A x \in Display!Display : /\ Display!Enabled(x) \in BOOLEAN
                             /\ Display!Enabled(x) <=> x.enforced \/ x.hdr \/ x.wide
BY DEF Display!Enabled, Display!Mode, Display!Display

LEMMA ListedPaths == Display!Listed \subseteq Display!Paths
BY DEF Display!Listed

\* The report names a mode that there is.
LEMMA VerdictKinds ==
  ASSUME Display!PictureAssumption, DisplayKinds
  PROVE  LET h == Display!Verdict([p \in Display!Listed |-> Display!Entry(p)]) IN
         h \in Helps
<1> DEFINE r == [p \in Display!Listed |-> Display!Entry(p)]
           named == {p \in DOMAIN r : r[p].mode # ""}
           least == CHOOSE p \in named : \A q \in named : p <= q
<1>1. \A p \in Display!Listed : r[p].mode \in Display!Modes \cup {""}
  BY ListedPaths DEF Display!Entry, Display!Mode, Display!Modes
<1>2. DOMAIN r = Display!Listed
  OBVIOUS
<1>3. named # {} => least \in named
  <2>1. named \in SUBSET Display!Paths
    BY ListedPaths
  <2> HIDE DEF r, named
  <2>2. QED
    BY <2>1, LeastPath DEF Display!PictureAssumption
<1>4. Display!ColourMode(r) \in Display!Modes \cup {""}
  <2>1. named # {} => r[least].mode \in Display!Modes \cup {""}
    BY <1>1, <1>2, <1>3
  <2> HIDE DEF r
  <2>2. Display!ColourMode(r) = IF named # {} THEN r[least].mode
                        ELSE IF \E p \in DOMAIN r : r[p].on /\ r[p].enforced THEN "wide colour"
                          ELSE "HDR"
    BY DEF Display!ColourMode
  <2>3. QED
    BY <2>1, <2>2 DEF Display!Modes
<1> HIDE DEF r
<1> DEFINE mode == Display!ColourMode(r)
<1>5. /\ "" \in Display!Modes \cup {""} /\ mode \in Display!Modes \cup {""}
  BY <1>4
<1> HIDE DEF mode
<1>6. PICK c \in Causes, b \in BOOLEAN, m \in {"", mode} :
        Display!Verdict(r) = [cause |-> c, button |-> b, mode |-> m]
  BY DEF Display!Verdict, mode, Causes
<1>7. m \in Display!Modes \cup {""}
  BY <1>5
<1>8. Display!Verdict(r) \in Helps
  <2>1. \A d \in Causes, e \in BOOLEAN, n \in Display!Modes \cup {""} :
          [cause |-> d, button |-> e, mode |-> n] \in Helps
    BY DEF Helps
  <2>2. [cause |-> c, button |-> b, mode |-> m] \in Helps
    BY <1>7, <2>1
  <2>3. QED
    BY <1>6, <2>2
<1>9. QED
  BY <1>8 DEF r

\* What stays of a display when a switch is tried on it.
LEMMA SwitchedKinds ==
  ASSUME want \in BOOLEAN, NEW x \in Display!Display, NEW kind \in Switches, ~x.enforced
  PROVE  LET y == Display!Switched(x, kind) IN
         /\ y \in Display!Display /\ y.active = x.active /\ y.enforced = x.enforced
         /\ kind = "wide" => y.wide = want /\ y.hdr = x.hdr
         /\ kind # "wide" => y.hdr = want /\ y.wide = x.wide
BY DEF Display!Switched, Display!Display, Switches

LEMMA OrderKinds ==
  ASSUME win11 \in BOOLEAN, NEW x \in Display!Display, x.wide => win11
  PROVE  /\ Display!Order(x) \in Seq(Switches) /\ Display!Order(x) # <<>>
         /\ ~win11 => Len(Display!Order(x)) = 1 /\ Display!Order(x)[1] = "old"
         /\ win11 => \E i, j \in 1..Len(Display!Order(x)) : Display!Order(x)[i] = "wide"
            /\ Display!Order(x)[j] = "hdr"
<1>1. <<"old">> \in Seq(Switches) /\ <<"wide", "hdr", "old">> \in Seq(Switches)
      /\ <<"hdr", "wide", "old">> \in Seq(Switches)
  BY DEF Switches
<1>2. Len(<<"old">>) = 1 /\ Len(<<"wide", "hdr", "old">>) = 3 /\ Len(<<"hdr", "wide", "old">>) = 3
  OBVIOUS
<1>3. \/ ~win11 /\ Display!Order(x) = <<"old">>
      \/ win11 /\ Display!Order(x) = <<"wide", "hdr", "old">>
      \/ win11 /\ Display!Order(x) = <<"hdr", "wide", "old">>
  BY DEF Display!Order
<1>4. CASE win11 /\ Display!Order(x) = <<"wide", "hdr", "old">>
  <2>1. Display!Order(x)[1] = "wide" /\ Display!Order(x)[2] = "hdr" /\ Len(Display!Order(x)) = 3
    BY <1>4
  <2>2. QED
    BY <1>1, <1>4, <2>1
<1>5. CASE win11 /\ Display!Order(x) = <<"hdr", "wide", "old">>
  <2>1. Display!Order(x)[2] = "wide" /\ Display!Order(x)[1] = "hdr" /\ Len(Display!Order(x)) = 3
    BY <1>5
  <2>2. QED
    BY <1>1, <1>5, <2>1
<1>6. CASE ~win11 /\ Display!Order(x) = <<"old">>
  BY <1>1, <1>6
<1>7. QED
  BY <1>3, <1>4, <1>5, <1>6

LEMMA DisplayKindsStep ==
  ASSUME Display!PictureAssumption, DisplayInv, [Display!Next]_Display!vars PROVE DisplayKinds'
<1>k. DisplayKinds /\ SwitchInv /\ Displays \in Nat
  BY DEF DisplayInv, Display!PictureAssumption
<1>1. CASE Display!World
  <2>1. PICK p \in Display!Paths, x \in Display!Display : (x.wide => win11)
             /\ disp' = [disp EXCEPT ![p] = x]
    BY <1>1 DEF Display!World
  <2>2. disp' \in [Display!Paths -> Display!Display] /\ \A q \in Display!Paths : disp'[q].wide
        => win11
    BY <1>k, <2>1 DEF DisplayKinds
  <2>3. QED
    BY <1>k, <1>1, <2>2 DEF DisplayKinds, Display!World, Display!setVars
<1>2. CASE Display!Ask
  <2>1. help' \in Helps
    BY <1>k, <1>2, VerdictKinds DEF Display!Ask
  <2>2. QED
    BY <1>k, <1>2, <2>1 DEF DisplayKinds, Display!Ask, Display!setVars
<1>3. CASE Display!Press
  <2>1. order' \in Seq(Switches)
    BY <1>3 DEF Display!Press
  <2>2. want' \in BOOLEAN
    BY <1>3 DEF Display!Press
  <2>3. at' = "next" /\ cur' = 0 /\ touched' = 0 /\ refused' = 0
        /\ UNCHANGED <<win11, disp, desktop, help, told, still, displayChanges, displayFaults>>
    BY <1>3 DEF Display!Press
  <2>4. QED
    BY <1>k, <2>1, <2>2, <2>3 DEF DisplayKinds
<1>4. CASE Display!NextPath
  <2>1. PICK p \in Display!Paths :
          /\ cur' = p
          /\ \/ UNCHANGED <<at, order>>
             \/ at' = "switch" /\ order' = Display!Order(disp[p])
    <3> DEFINE left == {p \in Display!Listed : p > cur}
    <3>1. left # {} /\ left \in SUBSET Display!Paths
      BY <1>4, ListedPaths DEF Display!NextPath
    <3>2. (CHOOSE p \in left : \A q \in left : p <= q) \in Display!Paths
      BY <1>k, <3>1, LeastPath
    <3>3. QED
      BY <1>4, <3>2 DEF Display!NextPath
  <2>2. order' \in Seq(Switches)
    <3>1. Display!Order(disp[p]) \in Seq(Switches)
      <4>1. disp[p] \in Display!Display /\ (disp[p].wide => win11) /\ win11 \in BOOLEAN
        BY <1>k DEF DisplayKinds
      <4>2. QED
        BY <4>1, OrderKinds
    <3>2. QED
      BY <1>k, <2>1, <3>1 DEF DisplayKinds
  <2>3. at' \in {"black", "shown", "next", "switch", "told"} /\ cur' \in 0..Displays
    BY <1>k, <2>1 DEF DisplayKinds, Display!Paths
  <2>4. QED
    BY <1>k, <1>4, <2>2, <2>3 DEF DisplayKinds, Display!NextPath
<1>5. CASE Display!Switch
  <2>1. /\ at = "switch" /\ cur \in Display!Paths /\ order # <<>>
        /\ UNCHANGED <<win11, desktop, help, want, cur, told, still, displayChanges>>
    BY <1>k, <1>5 DEF Display!Switch, SwitchInv
  <2>2. PICK y \in Display!Display : disp' = [disp EXCEPT ![cur] = y] /\ (y.wide => win11)
    <3>1. disp[cur] \in Display!Display /\ (disp[cur].wide => win11) /\ Head(order) \in Switches
      BY <1>k, <2>1, HeadTailProperties DEF DisplayKinds
    <3>2. Display!Takes(disp[cur], Head(order)) =>
            /\ Display!Switched(disp[cur], Head(order)) \in Display!Display
            /\ Display!Switched(disp[cur], Head(order)).wide => win11
      <4>1. Display!Takes(disp[cur], Head(order)) => ~disp[cur].enforced
        BY DEF Display!Takes
      <4>2. Head(order) = "wide" => win11
        <5>1. ~win11 => order[1] = "old"
          BY <1>k, <2>1 DEF SwitchInv
        <5>2. QED
          BY <5>1
      <4>3. QED
        BY <1>k, <3>1, <4>1, <4>2, SwitchedKinds DEF DisplayKinds
    <3>3. \/ disp' = [disp EXCEPT ![cur] = disp[cur]]
          \/ Display!Takes(disp[cur], Head(order))
               /\ disp' = [disp EXCEPT ![cur] = Display!Switched(disp[cur], Head(order))]
      BY <1>5 DEF Display!Switch
    <3>4. QED
      BY <3>1, <3>2, <3>3
  <2>3. disp' \in [Display!Paths -> Display!Display] /\ \A q \in Display!Paths : disp'[q].wide
        => win11
    BY <1>k, <2>1, <2>2 DEF DisplayKinds
  <2>4. order' \in {order, Tail(order)} /\ touched' \in {touched, touched + 1}
        /\ refused' \in {refused, refused + 1} /\ at' \in {"switch", "next"}
        /\ displayFaults' \in {displayFaults, displayFaults + 1}
    BY <1>5, <2>1 DEF Display!Switch
  <2>5. order' \in Seq(Switches)
    <3>1. order \in Seq(Switches) /\ Tail(order) \in Seq(Switches)
      BY <1>k, <2>1, HeadTailProperties DEF DisplayKinds
    <3>2. QED
      BY <2>4, <3>1
  <2>6. touched' \in Nat /\ refused' \in Nat /\ displayFaults' \in Nat
    BY <1>k, <2>4 DEF DisplayKinds
  <2>7. QED
    BY <1>k, <2>1, <2>3, <2>4, <2>5, <2>6 DEF DisplayKinds
<1>6. CASE Display!Answer
  BY <1>k, <1>6 DEF DisplayKinds, Display!Answer, Display!setVars
<1>7. CASE Display!Again
  <2>1. help' \in Helps
    BY <1>7 DEF Display!Again, Display!NoHelp, Helps, Causes
  <2>2. order' \in Seq(Switches)
    BY <1>7 DEF Display!Again
  <2>3. QED
    <3>1. /\ at' = "black" /\ told' = "nothing" /\ want' = FALSE /\ cur' = 0 /\ touched' = 0
          /\ refused' = 0 /\ still' = TRUE /\ UNCHANGED <<win11, disp, displayFaults>>
      BY <1>7 DEF Display!Again
    <3>2. want' \in BOOLEAN /\ still' \in BOOLEAN
      BY <3>1
    <3>3. QED
      BY <1>k, <2>1, <2>2, <3>1, <3>2 DEF DisplayKinds
<1>8. CASE UNCHANGED Display!vars
  BY <1>k, <1>8 DEF DisplayKinds, Display!vars
<1>9. QED
  BY <1>1, <1>2, <1>3, <1>4, <1>5, <1>6, <1>7, <1>8 DEF Display!Next

\* What a call for the display that is being set comes to.
LEMMA SwitchStep ==
  ASSUME DisplayKinds, SwitchInv, Display!Switch
  PROVE  \E y \in Display!Display, taken \in BOOLEAN :
           /\ at = "switch" /\ cur \in Display!Paths /\ order # <<>>
           /\ disp' = [disp EXCEPT ![cur] = y]
           /\ \/ y = disp[cur] /\ (~taken \/ displayFaults' = displayFaults + 1)
              \/ Display!Takes(disp[cur], Head(order))
                 /\ y = Display!Switched(disp[cur], Head(order)) /\ taken
           /\ \/ displayFaults' = displayFaults + 1
              \/ /\ displayFaults' = displayFaults
                 /\ ~Display!Takes(disp[cur], Head(order)) /\ y = disp[cur]
              \/ /\ displayFaults' = displayFaults /\ Display!Takes(disp[cur], Head(order)) /\ taken
                 /\ y = Display!Switched(disp[cur], Head(order))
           /\ \/ /\ Display!Works(y, taken) /\ touched' = touched + 1 /\ at' = "next"
                 /\ UNCHANGED <<order, refused>>
              \/ /\ ~Display!Works(y, taken) /\ Len(order) = 1 /\ refused' = refused + 1
                 /\ at' = "next"
                 /\ UNCHANGED <<order, touched>>
              \/ /\ ~Display!Works(y, taken) /\ Len(order) # 1 /\ order' = Tail(order)
                 /\ UNCHANGED <<at, touched, refused>>
           /\ UNCHANGED <<win11, desktop, help, want, cur, told, still, displayChanges>>
<1>1. at = "switch" /\ cur \in Display!Paths /\ order # <<>>
  BY DEF Display!Switch, SwitchInv
<1>2. disp[cur] \in Display!Display /\ Head(order) \in Switches
  BY <1>1, HeadTailProperties DEF DisplayKinds
<1>3. Display!Takes(disp[cur], Head(order))
      => Display!Switched(disp[cur], Head(order)) \in Display!Display
  <2>1. Display!Takes(disp[cur], Head(order)) => ~disp[cur].enforced
    BY DEF Display!Takes
  <2>2. QED
    BY <1>2, <2>1, SwitchedKinds DEF DisplayKinds
<1> DEFINE Done(y, taken) ==
           /\ disp' = [disp EXCEPT ![cur] = y]
           /\ IF Display!Works(y, taken) THEN touched' = touched + 1 /\ at' = "next"
              /\ UNCHANGED <<order, refused>>
              ELSE IF Len(order) = 1
                THEN refused' = refused + 1 /\ at' = "next" /\ UNCHANGED <<order, touched>>
              ELSE order' = Tail(order) /\ UNCHANGED <<at, touched, refused>>
<1>4. \/ Display!Takes(disp[cur], Head(order))
         /\ Done(Display!Switched(disp[cur], Head(order)), TRUE)
           /\ UNCHANGED displayFaults
      \/ ~Display!Takes(disp[cur], Head(order)) /\ Done(disp[cur], FALSE) /\ UNCHANGED displayFaults
      \/ displayFaults' = displayFaults + 1 /\ \E taken \in BOOLEAN : Done(disp[cur], taken)
  BY DEF Display!Switch
<1>5. UNCHANGED <<win11, desktop, help, want, cur, told, still, displayChanges>>
  BY DEF Display!Switch
<1>6. \A y, taken : Done(y, taken) =>
           /\ disp' = [disp EXCEPT ![cur] = y]
           /\ \/ /\ Display!Works(y, taken) /\ touched' = touched + 1 /\ at' = "next"
                 /\ UNCHANGED <<order, refused>>
              \/ /\ ~Display!Works(y, taken) /\ Len(order) = 1 /\ refused' = refused + 1
                 /\ at' = "next"
                 /\ UNCHANGED <<order, touched>>
              \/ /\ ~Display!Works(y, taken) /\ Len(order) # 1 /\ order' = Tail(order)
                 /\ UNCHANGED <<at, touched, refused>>
  OBVIOUS
<1> HIDE DEF Done
<1>7. CASE Display!Takes(disp[cur], Head(order))
           /\ Done(Display!Switched(disp[cur], Head(order)), TRUE)
           /\ UNCHANGED displayFaults
  <2> DEFINE y == Display!Switched(disp[cur], Head(order))
  <2>1. y \in Display!Display /\ Done(y, TRUE)
    BY <1>3, <1>7
  <2> HIDE DEF y
  <2>2. QED
    BY <1>1, <1>5, <1>6, <1>7, <2>1 DEF y
<1>8. CASE ~Display!Takes(disp[cur], Head(order)) /\ Done(disp[cur], FALSE)
           /\ UNCHANGED displayFaults
  BY <1>1, <1>2, <1>5, <1>6, <1>8
<1>9. CASE displayFaults' = displayFaults + 1 /\ \E taken \in BOOLEAN : Done(disp[cur], taken)
  BY <1>1, <1>2, <1>5, <1>6, <1>9
<1>10. QED
  BY <1>4, <1>7, <1>8, <1>9

LEMMA SwitchInvStep ==
  ASSUME Display!PictureAssumption, DisplayInv, [Display!Next]_Display!vars PROVE SwitchInv'
<1>k. DisplayKinds /\ SwitchInv /\ Displays \in Nat
  BY DEF DisplayInv, Display!PictureAssumption
<1>1. CASE Display!World
  BY <1>k, <1>1 DEF SwitchInv, Display!World, Display!setVars
<1>2. CASE Display!Ask
  BY <1>k, <1>2 DEF SwitchInv, Display!Ask, Display!setVars
<1>3. CASE Display!Press
  <2>1. at' = "next" /\ cur' = 0 /\ touched' = 0 /\ refused' = 0
    BY <1>3 DEF Display!Press
  <2>2. QED
    BY <2>1 DEF SwitchInv
<1>4. CASE Display!NextPath
  <2>1. PICK p \in Display!Paths :
          /\ cur' = p /\ p > cur
          /\ IF Display!Enabled(disp[p]) = want THEN UNCHANGED <<at, order>>
             ELSE at' = "switch" /\ order' = Display!Order(disp[p])
    <3> DEFINE left == {p \in Display!Listed : p > cur}
               least == CHOOSE p \in left : \A q \in left : p <= q
    <3>1. left # {} /\ left \in SUBSET Display!Paths
      BY <1>4, ListedPaths DEF Display!NextPath
    <3>2. least \in left
      BY <1>k, <3>1, LeastPath
    <3>3. least \in Display!Paths /\ least > cur
      BY <3>1, <3>2
    <3>4. /\ cur' = least
          /\ IF Display!Enabled(disp[least]) = want THEN UNCHANGED <<at, order>>
             ELSE at' = "switch" /\ order' = Display!Order(disp[least])
      BY <1>4 DEF Display!NextPath
    <3> HIDE DEF least
    <3>5. QED
      BY <3>3, <3>4
  <2>2. UNCHANGED <<win11, disp, want, touched, refused>> /\ at = "next"
    BY <1>4 DEF Display!NextPath
  <2>3. touched' + refused' < cur'
    BY <1>k, <2>1, <2>2 DEF SwitchInv, DisplayKinds, Display!Paths
  <2>4. CASE at' = "switch" /\ order' = Display!Order(disp[p]) /\ Display!Enabled(disp[p]) # want
    <3>1. disp[p] \in Display!Display /\ (disp[p].wide => win11) /\ win11 \in BOOLEAN
          /\ want \in BOOLEAN
      BY <1>k DEF DisplayKinds
    <3>2. Display!Order(disp[p]) # <<>>
          /\ (~win11 => Len(Display!Order(disp[p])) = 1 /\ Display!Order(disp[p])[1] = "old")
      BY <3>1, OrderKinds
    <3>3. Display!Enabled(disp[p]) <=> ~want
      BY <2>4, <3>1, EnabledMeans
    <3>4. order' # <<>> /\ (~win11' => Len(order)' = 1 /\ order'[1] = "old")
      BY <2>2, <2>4, <3>2
    <3>5. Display!Enabled(disp[cur])' <=> ~want'
      BY <2>1, <2>2, <3>3 DEF Display!Enabled, Display!Mode
    <3>6. touched' + refused' <= cur' /\ cur' \in Display!Paths
      BY <1>k, <2>1, <2>2, <2>3 DEF DisplayKinds, Display!Paths
    <3>7. Display!Paths' = Display!Paths
      BY DEF Display!Paths
    <3>8. QED
      BY <2>3, <3>4, <3>5, <3>6, <3>7 DEF SwitchInv
  <2>5. CASE at' = at
    BY <1>k, <2>1, <2>2, <2>3, <2>5 DEF SwitchInv, DisplayKinds
  <2>6. QED
    BY <2>1, <2>4, <2>5
<1>5. CASE Display!Switch
  <2>1. PICK y \in Display!Display, taken \in BOOLEAN :
           /\ at = "switch" /\ cur \in Display!Paths /\ order # <<>>
           /\ disp' = [disp EXCEPT ![cur] = y]
           /\ \/ y = disp[cur]
              \/ taken
           /\ \/ /\ Display!Works(y, taken) /\ touched' = touched + 1 /\ at' = "next"
                 /\ UNCHANGED <<order, refused>>
              \/ /\ ~Display!Works(y, taken) /\ Len(order) = 1 /\ refused' = refused + 1
                 /\ at' = "next"
                 /\ UNCHANGED <<order, touched>>
              \/ /\ ~Display!Works(y, taken) /\ Len(order) # 1 /\ order' = Tail(order)
                 /\ UNCHANGED <<at, touched, refused>>
           /\ UNCHANGED <<win11, want, cur>>
    BY <1>k, <1>5, SwitchStep
  <2>2. CASE at' = "next" /\ touched' + refused' = touched + refused + 1
    <3>1. touched + refused < cur
      BY <1>k, <2>1 DEF SwitchInv
    <3>2. QED
      BY <1>k, <2>1, <2>2, <3>1 DEF SwitchInv, DisplayKinds
  <2>3. CASE ~Display!Works(y, taken) /\ Len(order) # 1 /\ order' = Tail(order)
             /\ UNCHANGED <<at, touched, refused>>
    <3>1. order \in Seq(Switches) /\ want \in BOOLEAN /\ Display!Enabled(y) \in BOOLEAN
      BY <1>k, EnabledMeans DEF DisplayKinds
    <3>2. Len(order) \in Nat /\ Len(order) # 0
      BY <2>1, <3>1, EmptySeq
    <3>3. order' # <<>> /\ win11
      <4>1. Len(Tail(order)) = Len(order) - 1
        BY <2>1, <3>1, HeadTailProperties
      <4>2. Tail(order) # <<>>
        BY <2>3, <3>2, <4>1
      <4>3. ~win11 => Len(order) = 1
        BY <1>k, <2>1 DEF SwitchInv
      <4>4. QED
        BY <2>3, <4>2, <4>3
    <3>4. Display!Enabled(y) <=> ~want
      <4>1. Display!Enabled(disp[cur]) <=> ~want
        BY <1>k, <2>1 DEF SwitchInv
      <4>2. taken => Display!Enabled(y) # want
        BY <2>3 DEF Display!Works
      <4>3. QED
        BY <2>1, <3>1, <4>1, <4>2
    <3>5. disp'[cur] = y
      BY <1>k, <2>1 DEF DisplayKinds
    <3>6. Display!Enabled(disp[cur])' <=> Display!Enabled(y)
      BY <2>1, <3>5 DEF Display!Enabled, Display!Mode
    <3>7. QED
      BY <1>k, <2>1, <2>3, <3>3, <3>4, <3>6 DEF SwitchInv
  <2>4. QED
    BY <1>k, <2>1, <2>2, <2>3 DEF DisplayKinds
<1>6. CASE Display!Answer
  BY <1>k, <1>6 DEF SwitchInv, Display!Answer, Display!setVars
<1>7. CASE Display!Again
  <2>1. at' = "black" /\ cur' = 0 /\ touched' = 0 /\ refused' = 0
    BY <1>7 DEF Display!Again
  <2>2. QED
    BY <2>1 DEF SwitchInv
<1>8. CASE UNCHANGED Display!vars
  BY <1>k, <1>8 DEF SwitchInv, Display!vars
<1>9. QED
  BY <1>1, <1>2, <1>3, <1>4, <1>5, <1>6, <1>7, <1>8 DEF Display!Next

LEMMA OfferInvStep ==
  ASSUME Display!PictureAssumption, DisplayInv, [Display!Next]_Display!vars PROVE OfferInv'
<1>k. DisplayKinds /\ SwitchInv /\ OfferInv /\ Displays \in Nat
  BY DEF DisplayInv, Display!PictureAssumption
<1>1. CASE Display!World
  <2>1. ~still' /\ UNCHANGED <<at, help, want>>
    BY <1>1 DEF Display!World, Display!setVars
  <2>2. QED
    BY <1>k, <2>1 DEF OfferInv, Plain
<1>2. CASE Display!Ask
  <2>1. at' = "shown"
    BY <1>2 DEF Display!Ask
  <2>2. QED
    BY <2>1 DEF OfferInv, Plain
<1>3. CASE Display!Press
  <2>1. /\ at' = "next" /\ cur' = 0 /\ UNCHANGED <<disp, help>>
        /\ (help.button /\ want' = FALSE) \/ at = "black"
    BY <1>3 DEF Display!Press
  <2>2. help.button => ~want'
    BY <1>k, <2>1 DEF OfferInv
  <2>3. \A p \in Display!Listed' : p > cur'
    BY <2>1, ListedPaths DEF Display!Paths, Display!Listed
  <2>4. QED
    BY <2>1, <2>2, <2>3 DEF OfferInv
<1>4. CASE Display!NextPath
  <2>0. /\ at = "next" /\ UNCHANGED <<win11, disp, help, want, still, displayFaults>>
        /\ Display!Listed' = Display!Listed
        /\ want \in BOOLEAN
    BY <1>k, <1>4 DEF Display!NextPath, Display!Listed, Display!Paths, DisplayKinds
  <2>1. PICK p \in Display!Listed :
          /\ cur' = p /\ p > cur /\ \A q \in Display!Listed : q > cur => p <= q
          /\ IF Display!Enabled(disp[p]) = want THEN UNCHANGED <<at, order>>
             ELSE at' = "switch" /\ order' = Display!Order(disp[p])
    <3> DEFINE left == {p \in Display!Listed : p > cur}
               least == CHOOSE p \in left : \A q \in left : p <= q
    <3>1. left # {} /\ left \in SUBSET Display!Paths
      BY <1>4, ListedPaths DEF Display!NextPath
    <3>2. least \in left /\ \A q \in left : least <= q
      BY <1>k, <3>1, LeastPath
    <3>4. /\ cur' = least
          /\ IF Display!Enabled(disp[least]) = want THEN UNCHANGED <<at, order>>
             ELSE at' = "switch" /\ order' = Display!Order(disp[least])
      BY <1>4 DEF Display!NextPath
    <3> HIDE DEF least
    <3>5. QED
      BY <3>2, <3>4
  <2>2. at' \in {"next", "switch"} /\ (Plain' => Plain /\ ~want)
    BY <1>k, <2>0, <2>1 DEF Plain, OfferInv
  <2>3. ASSUME Plain, ~want, NEW q \in Display!Listed, Display!Enabled(disp[q]), ~disp[q].enforced
        PROVE  q > cur /\ q >= p /\ (at' = "next" => q > p)
    <3>1. q > cur
      BY <1>k, <2>0, <2>3 DEF OfferInv
    <3>2. q >= p /\ q \in Nat /\ p \in Nat
      BY <2>1, <3>1, ListedPaths DEF Display!Paths
    <3>3. at' = "next" => q # p
      BY <2>0, <2>1, <2>3
    <3>4. QED
      BY <3>1, <3>2, <3>3
  <2>4. at' = "switch" => Reachable(disp[p])'
    <3> SUFFICES ASSUME at' = "switch" PROVE Reachable(disp[p])'
      OBVIOUS
    <3>1. disp[p] \in Display!Display /\ (disp[p].wide => win11) /\ win11 \in BOOLEAN
      BY <1>k, ListedPaths DEF DisplayKinds
    <3>2. order' = Display!Order(disp[p])
      BY <2>0, <2>1
    <3>3. win11 => \E i, j \in 1..Len(order') : order'[i] = "wide" /\ order'[j] = "hdr"
      BY <3>1, <3>2, OrderKinds
    <3>4. win11 => Has("wide")' /\ Has("hdr")'
      BY <3>3 DEF Has
    <3>5. QED
      BY <2>0, <3>1, <3>4 DEF Reachable
  <2>5. QED
    <3>1. \A q \in Display!Listed : Plain' /\ Display!Enabled(disp[q])' /\ ~disp'[q].enforced =>
             q >= cur' /\ (at' = "next" => q > cur')
      <4>1. \A q \in Display!Listed : Display!Enabled(disp[q])' <=> Display!Enabled(disp[q])
        BY <2>0 DEF Display!Enabled, Display!Mode
      <4>2. QED
        BY <2>0, <2>1, <2>2, <2>3, <4>1
    <3>2. at' = "switch" => Reachable(disp[cur])'
      BY <2>1, <2>4 DEF Reachable
    <3>3. at' # "black" /\ at' # "told" /\ (help'.button => ~want')
      BY <1>k, <2>0, <2>2 DEF OfferInv
    <3>4. QED
      BY <2>0, <3>1, <3>2, <3>3 DEF OfferInv
<1>5. CASE Display!Switch
  <2>1. PICK y \in Display!Display, taken \in BOOLEAN :
           /\ at = "switch" /\ cur \in Display!Paths /\ order # <<>>
           /\ disp' = [disp EXCEPT ![cur] = y]
           /\ \/ y = disp[cur] /\ (~taken \/ displayFaults' = displayFaults + 1)
              \/ Display!Takes(disp[cur], Head(order))
                 /\ y = Display!Switched(disp[cur], Head(order)) /\ taken
           /\ \/ displayFaults' = displayFaults + 1
              \/ /\ displayFaults' = displayFaults
                 /\ ~Display!Takes(disp[cur], Head(order)) /\ y = disp[cur]
              \/ /\ displayFaults' = displayFaults /\ Display!Takes(disp[cur], Head(order)) /\ taken
                 /\ y = Display!Switched(disp[cur], Head(order))
           /\ \/ /\ Display!Works(y, taken) /\ touched' = touched + 1 /\ at' = "next"
                 /\ UNCHANGED <<order, refused>>
              \/ /\ ~Display!Works(y, taken) /\ Len(order) = 1 /\ refused' = refused + 1
                 /\ at' = "next"
                 /\ UNCHANGED <<order, touched>>
              \/ /\ ~Display!Works(y, taken) /\ Len(order) # 1 /\ order' = Tail(order)
                 /\ UNCHANGED <<at, touched, refused>>
           /\ UNCHANGED <<win11, desktop, help, want, cur, told, still, displayChanges>>
    BY <1>k, <1>5, SwitchStep
  <2>2. at' \in {"next", "switch"} /\ at = "switch" /\ (help'.button => ~want')
    BY <1>k, <2>1 DEF OfferInv
  <2>3. SUFFICES ASSUME Plain'
                 PROVE  /\ \A p \in Display!Listed' : Display!Enabled(disp[p])'
                           /\ ~disp'[p].enforced =>
                             p >= cur /\ (at' = "next" => p > cur)
                        /\ at' = "switch" /\ ~y.enforced => Reachable(y)'
    <3>1. disp'[cur] = y
      BY <1>k, <2>1 DEF DisplayKinds
    <3>2. Reachable(disp[cur])' <=> Reachable(y)'
      BY <2>1, <3>1 DEF Reachable, Has
    <3>3. QED
      BY <2>1, <2>2, <2>3, <3>1, <3>2 DEF OfferInv
  <2>4. Plain /\ displayFaults' = displayFaults /\ ~want
    BY <1>k, <2>1, <2>2, <2>3 DEF Plain, OfferInv, DisplayKinds
  <2>5. DEFINE x == disp[cur]
               kind == Head(order)
  <2>6. x \in Display!Display /\ kind \in Switches /\ order \in Seq(Switches) /\ win11 \in BOOLEAN
        /\ want \in BOOLEAN /\ (x.wide => win11)
    BY <1>k, <2>1, HeadTailProperties DEF DisplayKinds
  <2>7. ~x.enforced => Reachable(x)
    BY <1>k, <2>1, <2>4 DEF OfferInv
  <2>8. y.enforced = x.enforced /\ y.active = x.active
    <3>1. Display!Takes(x, kind) => ~x.enforced
      BY DEF Display!Takes
    <3>2. QED
      BY <2>1, <2>6, <3>1, SwitchedKinds
  <2>9. Display!Listed' = Display!Listed
    <3>1. \A p \in Display!Paths : disp'[p].active = disp[p].active
      BY <1>k, <2>1, <2>8 DEF DisplayKinds
    <3>2. QED
      BY <3>1 DEF Display!Listed, Display!Paths
  <2>10. ASSUME ~x.enforced
         PROVE  /\ kind \in {"wide", "hdr"} => Display!Takes(x, kind)
                /\ y.wide => x.wide /\ kind # "wide"
                /\ y.hdr => x.hdr /\ (kind # "hdr" \/ ~win11)
                /\ ~win11 => kind = "old" /\ Display!Takes(x, kind) /\ ~y.hdr /\ ~y.wide
    <3>1. ~win11 => kind = "old"
      BY <1>k, <2>1 DEF SwitchInv
    <3>2. Display!Takes(x, kind) <=> (kind = "old" => x.supported \/ ~win11)
      BY <2>4, <2>10 DEF Display!Takes
    <3>3. Display!Takes(x, kind) => y = Display!Switched(x, kind)
      BY <2>1, <2>4, <1>k DEF DisplayKinds
    <3>4. ~Display!Takes(x, kind) => y = x
      BY <2>1, <2>4, <1>k DEF DisplayKinds
    <3>5. LET z == Display!Switched(x, kind) IN
          /\ z \in Display!Display /\ z.active = x.active /\ z.enforced = x.enforced
          /\ kind = "wide" => z.wide = want /\ z.hdr = x.hdr
          /\ kind # "wide" => z.hdr = want /\ z.wide = x.wide
      BY <2>6, <2>10, SwitchedKinds
    <3> HIDE DEF x, kind
    <3>6. QED
      BY <2>4, <2>6, <3>1, <3>2, <3>3, <3>4, <3>5
  <2>11. at' = "next" /\ ~x.enforced => ~y.wide /\ ~y.hdr
    <3> SUFFICES ASSUME at' = "next", ~x.enforced PROVE ~y.wide /\ ~y.hdr
      OBVIOUS
    <3>1. CASE Display!Works(y, taken)
      <4>1. Display!Enabled(y) = want
        BY <3>1 DEF Display!Works
      <4>2. QED
        BY <2>1, <2>4, <2>6, <4>1, EnabledMeans
    <3>2. CASE Len(order) = 1
      <4>1. kind = order[1] /\ \A i \in 1..Len(order) : order[i] = kind
        BY <3>2
      <4>2. (x.wide => kind = "wide") /\ (x.hdr /\ win11 => kind = "hdr")
        BY <2>7, <4>1 DEF Reachable, Has
      <4>3. QED
        BY <2>6, <2>10, <4>2
    <3>3. QED
      BY <2>1, <2>2, <3>1, <3>2
  <2>12. at' = "switch" /\ ~x.enforced => Reachable(y)'
    <3> SUFFICES ASSUME at' = "switch", ~x.enforced PROVE Reachable(y)'
      OBVIOUS
    <3>1. order' = Tail(order) /\ Len(order) \in Nat
      BY <2>1, <2>6, EmptySeq
    <3>2. Len(order') = Len(order) - 1 /\ \A i \in 1..Len(order') : order'[i] = order[i + 1]
      BY <2>1, <2>6, <3>1, HeadTailProperties
    <3>3. \A k \in Switches : Has(k) /\ k # kind => Has(k)'
      <4> SUFFICES ASSUME NEW k \in Switches, NEW i \in 1..Len(order), order[i] = k, k # kind
                   PROVE  \E j \in 1..Len(order') : order'[j] = k
        BY DEF Has
      <4>1. i # 1
        OBVIOUS
      <4>2. i - 1 \in 1..Len(order') /\ (i - 1) + 1 = i
        BY <3>1, <3>2, <4>1
      <4>3. QED
        BY <3>2, <4>2
    <3>4. (y.wide => Has("wide") /\ kind # "wide") /\ (y.hdr /\ win11 => Has("hdr") /\ kind # "hdr")
      BY <2>6, <2>7, <2>10 DEF Reachable
    <3>5. QED
      BY <2>1, <3>3, <3>4 DEF Reachable, Switches
  <2>13. QED
    <3>1. ASSUME NEW p \in Display!Listed', Display!Enabled(disp[p])', ~disp'[p].enforced
          PROVE  p >= cur /\ (at' = "next" => p > cur)
      <4>1. p \in Display!Listed /\ p \in Display!Paths
        BY <2>9, ListedPaths
      <4>2. CASE p = cur
        <5>1. disp'[p] = y
          BY <1>k, <2>1, <4>2 DEF DisplayKinds
        <5>2. Display!Enabled(y) /\ ~y.enforced
          BY <3>1, <5>1 DEF Display!Enabled, Display!Mode
        <5>3. at' # "next"
          BY <2>8, <2>11, <5>2, EnabledMeans
        <5>4. QED
          BY <4>1, <4>2, <5>3 DEF Display!Paths
      <4>3. CASE p # cur
        <5>1. disp'[p] = disp[p]
          BY <1>k, <2>1, <4>1, <4>3 DEF DisplayKinds
        <5>2. Display!Enabled(disp[p]) /\ ~disp[p].enforced
          BY <3>1, <5>1 DEF Display!Enabled, Display!Mode
        <5>3. p >= cur
          BY <1>k, <2>1, <2>4, <4>1, <5>2 DEF OfferInv
        <5>4. QED
          BY <1>k, <4>1, <4>3, <5>3 DEF Display!Paths, DisplayKinds
      <4>4. QED
        BY <4>2, <4>3
    <3>2. QED
      BY <2>8, <2>12, <3>1
<1>6. CASE Display!Answer
  <2>1. /\ at = "next" /\ at' = "told" /\ ~\E p \in Display!Listed : p > cur
        /\ UNCHANGED <<win11, disp, help, want, cur, still, displayFaults>>
        /\ Display!Listed' = Display!Listed
    BY <1>6 DEF Display!Answer, Display!setVars, Display!Listed, Display!Paths
  <2>2. Plain' => Plain
    BY <2>1 DEF Plain
  <2>3. \A p \in Display!Listed : Display!Enabled(disp[p])' <=> Display!Enabled(disp[p])
    BY <2>1 DEF Display!Enabled, Display!Mode
  <2>4. QED
    BY <1>k, <2>1, <2>2, <2>3 DEF OfferInv
<1>7. CASE Display!Again
  <2>1. at' = "black" /\ ~help'.button
    BY <1>7 DEF Display!Again, Display!NoHelp
  <2>2. QED
    BY <2>1 DEF OfferInv, Plain
<1>8. CASE UNCHANGED Display!vars
  BY <1>k, <1>8
     DEF OfferInv, Plain, Reachable, Has, Display!Listed, Display!Enabled, Display!Mode,
         Display!Paths, Display!vars
<1>9. QED
  BY <1>1, <1>2, <1>3, <1>4, <1>5, <1>6, <1>7, <1>8 DEF Display!Next

LEMMA DisplayNext == Display!PictureAssumption /\ DisplayInv /\ [Display!Next]_Display!vars
  => DisplayInv'
BY DisplayKindsStep, SwitchInvStep, OfferInvStep DEF DisplayInv

LEMMA DisplayMeans == Display!PictureAssumption /\ DisplayInv
  => Display!TypeOK /\ Display!OfferedWorks
<1> SUFFICES ASSUME Display!PictureAssumption, DisplayInv
                    PROVE Display!TypeOK /\ Display!OfferedWorks
  OBVIOUS
<1>1. Display!TypeOK
  <2>1. help.mode \in Display!Modes \cup {""}
    BY DEF DisplayInv, DisplayKinds, Helps
  <2>2. QED
    BY <2>1 DEF DisplayInv, DisplayKinds, SwitchInv, Display!TypeOK
<1>2. Display!OfferedWorks
  BY DEF DisplayInv, OfferInv, Plain, Display!OfferedWorks
<1>3. QED
  BY <1>1, <1>2

LEMMA OthersStep == DisplayInv => Display!LeavesOthersAlone
<1> SUFFICES ASSUME DisplayInv, Display!Switch, NEW p \in Display!Paths,
                    Display!Enabled(disp[p]) = want
             PROVE  disp'[p] = disp[p]
  BY DEF Display!LeavesOthersAlone
<1>k. DisplayKinds /\ SwitchInv
  BY DEF DisplayInv
<1>1. PICK y \in Display!Display : disp' = [disp EXCEPT ![cur] = y] /\ at = "switch"
           /\ cur \in Display!Paths
  BY <1>k, SwitchStep
<1>2. Display!Enabled(disp[cur]) <=> ~want
  BY <1>k, <1>1 DEF SwitchInv
<1>3. want \in BOOLEAN
  BY <1>k DEF DisplayKinds
<1>4. p # cur
  BY <1>2, <1>3
<1>5. QED
  BY <1>k, <1>1, <1>4 DEF DisplayKinds

-----------------------------------------------------------------------------
(* The way to the PC.                                                      *)

\* PathAdvice's variables.
route == v1
node == v2
path == v3
rtt == v4
pcNat == v5
macNat == v6
pathChanges == v7
USE DEF route, node, path, rtt, pcNat, macNat, pathChanges

\* While anything carries packets Tailscale reports what does.
RouteInv ==
  /\ route \in Path!Routes /\ rtt \in {"none", "short", "long"}
  /\ node \in [cur : BOOLEAN, relay : BOOLEAN, peer : BOOLEAN, active : BOOLEAN]
  /\ node.relay
  /\ node.active <=> route # "none"
  /\ route # "none" => (node.cur <=> route = "direct") /\ (node.peer <=> route = "peer relay")
  /\ pcNat \in Path!Nats /\ macNat \in Path!Nats

LEMMA PathInit == Path!Init => RouteInv
BY DEF Path!Init, RouteInv, Path!Routes

LEMMA PathNext == RouteInv /\ [Path!Next]_Path!vars => RouteInv'
<1> SUFFICES ASSUME RouteInv, [Path!Next]_Path!vars PROVE RouteInv'
  OBVIOUS
<1>1. CASE Path!Change
  <2>1. CASE route' \in Path!Routes /\ node' = Path!Reported(route', node)
             /\ UNCHANGED <<pcNat, macNat>>
    <3>1. (route' = "direct" \/ (route' = "none" /\ node.cur)) \in BOOLEAN
          /\ (route' = "peer relay") \in BOOLEAN /\ (route' # "none") \in BOOLEAN
      BY DEF RouteInv
    <3>2. node' \in [cur : BOOLEAN, relay : BOOLEAN, peer : BOOLEAN, active : BOOLEAN]
      BY <2>1, <3>1 DEF Path!Reported
    <3>3. /\ node'.cur <=> route' = "direct" \/ (route' = "none" /\ node.cur)
          /\ node'.relay /\ (node'.peer <=> route' = "peer relay")
          /\ (node'.active <=> route' # "none")
      BY <2>1, <3>1 DEF Path!Reported
    <3>4. QED
      BY <1>1, <2>1, <3>2, <3>3 DEF RouteInv, Path!Change
  <2>2. CASE UNCHANGED <<route, node>> /\ pcNat' \in Path!Nats /\ macNat' \in Path!Nats
    BY <1>1, <2>2 DEF RouteInv, Path!Change
  <2>3. QED
    BY <1>1, <2>1, <2>2 DEF Path!Change, RouteInv
<1>2. CASE Path!Probe
  BY <1>2 DEF RouteInv, Path!Probe
<1>3. CASE Path!MeasurePath
  BY <1>3 DEF RouteInv, Path!MeasurePath
<1>4. CASE UNCHANGED Path!vars
  BY <1>4 DEF RouteInv, Path!vars
<1>5. QED
  BY <1>1, <1>2, <1>3, <1>4 DEF Path!Next

LEMMA PathMeans == RouteInv => Path!AdviceIsTrue
<1> SUFFICES ASSUME RouteInv PROVE Path!AdviceIsTrue
  OBVIOUS
<1>1. /\ "pc blocks UDP" \in Path!Explain => pcNat.known /\ ~pcNat.udp
      /\ "mac blocks UDP" \in Path!Explain => macNat.known /\ ~macNat.udp
      /\ "pc hard" \in Path!Explain => Path!Hard(pcNat)
      /\ "mac hard" \in Path!Explain => Path!Hard(macNat)
      /\ Path!Explain \subseteq {"pc blocks UDP", "mac blocks UDP", "pc hard", "mac hard"}
  BY DEF Path!Explain, Path!Causes
<1>2. Path!PathKind \in {"peer relay", "derp"} /\ Path!Explain = {} =>
        /\ ~(pcNat.known /\ ~pcNat.udp) /\ ~(macNat.known /\ ~macNat.udp)
        /\ ~Path!Hard(pcNat) /\ ~Path!Hard(macNat)
  BY DEF Path!Explain, Path!Causes, Path!Hard
<1>3. QED
  BY <1>1, <1>2 DEF Path!AdviceIsTrue

LEMMA DetourStep == RouteInv /\ [Path!Next]_Path!vars => Path!DetoursAreShown
<1> SUFFICES ASSUME RouteInv, Path!Probe \/ Path!MeasurePath, route # "none"
             PROVE  /\ Path!PathTone' = "warning" <=> route = "derp"
                    /\ Path!PathTone' = "success" => route = "direct"
  BY DEF Path!DetoursAreShown
<1>1. Path!Direct \in {"yes", "no"} /\ (Path!Direct = "yes" <=> route = "direct")
  BY DEF RouteInv, Path!Direct
<1>2. path' = [direct |-> Path!Direct, peer |-> node.peer]
  BY <1>1 DEF Path!Probe, Path!MeasurePath, Path!Unknown
<1>3. path'.direct = Path!Direct /\ (path'.peer <=> route = "peer relay")
  BY <1>2 DEF RouteInv
<1>4. Path!PathKind' = IF route = "direct" THEN "direct" ELSE IF route = "peer relay"
      THEN "peer relay"
                  ELSE "derp"
  BY <1>1, <1>3 DEF Path!PathKind, Path!Unknown
<1>5. route \in {"direct", "peer relay", "derp"}
  BY DEF RouteInv, Path!Routes
<1>6. QED
  BY <1>4, <1>5 DEF Path!PathTone

-----------------------------------------------------------------------------
(* The pictures and the sound, and what no step does.                      *)

MediaPart ==
  /\ part = "video" => VideoInv
  /\ part = "audio" => AudioInv
  /\ part = "display" => DisplayInv
  /\ part = "path" => RouteInv

\* What the parts have in common is kept, whichever the behaviour is of.
LEMMA MediaKept == TrafficSpec => []MediaPart
<1>1. TrafficInit => MediaPart
  BY BoundsAssumption, VideoInit, AudioInit, DisplayInit, PathInit DEF TrafficInit, MediaPart
<1>2. MediaPart /\ [TrafficNext]_allVars => MediaPart'
  <2> SUFFICES ASSUME MediaPart, [TrafficNext]_allVars PROVE MediaPart'
    OBVIOUS
  <2>1. part' = part
    BY DEF TrafficNext, allVars
  <2>2. ASSUME part = "video" PROVE VideoInv'
    <3>1. VideoInv
      BY <2>2 DEF MediaPart
    <3>2. [Video!Next]_Video!vars
      BY <2>2 DEF TrafficNext, allVars, Video!vars
    <3>3. QED
      BY <3>1, <3>2, BoundsAssumption, VideoNext
  <2>3. ASSUME part = "audio" PROVE AudioInv'
    <3>1. AudioInv
      BY <2>3 DEF MediaPart
    <3>2. [Audio!Next]_Audio!vars
      BY <2>3 DEF TrafficNext, allVars, Audio!vars
    <3>3. QED
      BY <3>1, <3>2, BoundsAssumption, AudioNext
  <2>4. ASSUME part = "display" PROVE DisplayInv'
    <3>1. DisplayInv
      BY <2>4 DEF MediaPart
    <3>2. [Display!Next]_Display!vars
      BY <2>4 DEF TrafficNext, allVars, Display!vars
    <3>3. QED
      BY <3>1, <3>2, BoundsAssumption, DisplayNext
  <2>5. ASSUME part = "path" PROVE RouteInv'
    <3>1. RouteInv
      BY <2>5 DEF MediaPart
    <3>2. [Path!Next]_Path!vars
      BY <2>5 DEF TrafficNext, allVars, Path!vars
    <3>3. QED
      BY <3>1, <3>2, BoundsAssumption, PathNext
  <2>6. QED
    BY <2>1, <2>2, <2>3, <2>4, <2>5 DEF MediaPart
<1>3. QED
  BY <1>1, <1>2, PTL DEF TrafficSpec

\* The picture and the sound are of this stream, in order and whole, and what
\* is said of them is so, in every behaviour of the run.
THEOREM TrafficPicturesRight == TrafficSpec => []PictureIsRight
<1>1. MediaPart => PictureIsRight
  BY BoundsAssumption, VideoMeans, AudioMeans, DisplayMeans, PathMeans
     DEF MediaPart, PictureIsRight
<1>2. QED
  BY <1>1, MediaKept, PTL

\* No step leaves a sound decoder without its picture, switches a display that
\* nobody asked about, shows a detour as a good path or reports a pairing that
\* the engine does not have.
THEOREM TrafficStepsRight == TrafficSpec => TrafficSteps
<1> DEFINE Allowed ==
      /\ part = "video" => Video!KeyframeHeals
      /\ part = "display" => Display!LeavesOthersAlone
      /\ part = "path" => Path!DetoursAreShown
      /\ part = "pairing" => Pair!OkMeansPaired
<1>1. MediaPart /\ PairPart /\ [TrafficNext]_allVars => Allowed
  <2> SUFFICES ASSUME MediaPart, PairPart, [TrafficNext]_allVars PROVE Allowed
    OBVIOUS
  <2>1. ASSUME part = "video" PROVE Video!KeyframeHeals
    <3>1. VideoInv
      BY <2>1 DEF MediaPart
    <3>2. [Video!Next]_Video!vars
      BY <2>1 DEF TrafficNext, allVars, Video!vars
    <3>3. QED
      BY <3>1, <3>2, BoundsAssumption, KeyframeStep
  <2>2. ASSUME part = "display" PROVE Display!LeavesOthersAlone
    BY <2>2, OthersStep DEF MediaPart
  <2>3. ASSUME part = "path" PROVE Path!DetoursAreShown
    <3>1. RouteInv
      BY <2>3 DEF MediaPart
    <3>2. [Path!Next]_Path!vars
      BY <2>3 DEF TrafficNext, allVars, Path!vars
    <3>3. QED
      BY <3>1, <3>2, DetourStep
  <2>4. ASSUME part = "pairing" PROVE Pair!OkMeansPaired
    <3>1. PairInv
      BY <2>4 DEF PairPart
    <3>2. [Pair!Next]_Pair!vars
      BY <2>4 DEF TrafficNext, allVars, Pair!vars
    <3>3. QED
      BY <3>1, <3>2, OkStep
  <2>5. QED
    BY <2>1, <2>2, <2>3, <2>4
<1>2. TrafficSpec => []PairPart
  BY PairPartKept
<1>3. TrafficSpec => [][Allowed]_allVars
  BY <1>1, <1>2, MediaKept, PTL DEF TrafficSpec
<1>4. QED
  BY <1>3 DEF TrafficSteps

-----------------------------------------------------------------------------
(* Keys and buttons.                                                       *)

\* StreamScreen's variables.
screen == v1
cfg == v2
hand == v3
stream == v4
focused == v5
popup == v6
pastes == v7
done == v8
USE DEF screen, cfg, hand, stream, focused, popup, pastes, done

(***************************************************************************)
(* Proofs about StreamScreen, for any number of pastes, any settings, sets *)
(* of modifiers and questions.                                             *)
(*                                                                         *)
(* A frame is a function from one View to the next, put together of a few  *)
(* helpers; pastes press keys beside it, on threads of their own.  So the  *)
(* invariant is a statement about a View, Good, that each helper keeps,    *)
(* and that holds for the pastes and the connection at the time.           *)
(***************************************************************************)

ScreenType ==
  [captured : BOOLEAN, bar : BOOLEAN, ask : SUBSET Questions,
   settings : BOOLEAN, chord : BOOLEAN, held : SUBSET (Screen!PcMods \cup Screen!Plain),
   seen : 0..MaxPastes, pc : SUBSET Screen!PcKeys]

PasteType == [mod : {"CONTROL", "LWIN"}, at : 0..Screen!Finished]

\* A key that the chord of a running paste has down, and will let go.
Pressed(k) ==
  \E i \in DOMAIN pastes :
    \/ k = "V" /\ pastes[i].at = 3
    \/ k = pastes[i].mod /\ pastes[i].at \in 2..4

\* A paste has let its modifier go, and not said yet that it is done.
Ending == \E i \in DOMAIN pastes : pastes[i].at = 5

\* While the chord that opened the toolbar is down, nothing is held.
Clean(s) == s.chord /\ s.bar => s.held = {}

\* What the PC has down is held, or a paste's.
Accounted(s) == Screen!Up => \A k \in s.pc : k \in s.held \/ Pressed(k)

\* What is held is down on the PC.  A paste takes away none but its own
\* modifier, and a frame makes up for it when the paste has said it is done.
HeldDown(s) ==
  Screen!Up => /\ "MENU" \in s.held => "MENU" \in s.pc
               /\ s.held \cap Screen!PcMods \subseteq s.pc \/ s.seen # done \/ Ending

\* A connection begins with nothing down and no modifier held.
FreshStart(s) ==
  stream \in {"starting", "none"} => s.pc = {} /\ s.held \cap Screen!PcMods = {}

\* What was seen of an earlier stream's pastes is more than there are now only
\* until this stream has its first.
SeenInv(s) == s.seen <= done \/ pastes = <<>>

\* What a View keeps while it is put together, and what it is in the end.
Sound(s) ==
  s \in ScreenType /\ Accounted(s) /\ HeldDown(s) /\ FreshStart(s) /\ SeenInv(s)

Good(s) == Sound(s) /\ Clean(s)

\* The pastes that are over have been counted.
Over == {i \in DOMAIN pastes : pastes[i].at = Screen!Finished}

OtherTypes ==
  /\ cfg \in [capture : BOOLEAN, cmdIsCtrl : BOOLEAN]
  /\ hand \subseteq Screen!Mods \cup Screen!Plain
  /\ stream \in {"starting", "up", "lost", "none"}
  /\ focused \in BOOLEAN /\ popup \in BOOLEAN
  /\ pastes \in Seq(PasteType) /\ Len(pastes) <= MaxPastes
  /\ done = Cardinality(Over)

ScreenInv == OtherTypes /\ Good(screen) /\ Screen!UnfocusedLetsGo

-----------------------------------------------------------------------------
(* What the helpers of a frame do to a View.                                 *)

\* A View with other values in the fields that say nothing of keys.
LEMMA RestOfView ==
  ASSUME NEW s, Sound(s), NEW t \in ScreenType,
         t.held = s.held, t.pc = s.pc, t.seen = s.seen
  PROVE  Sound(t)
BY DEF Sound, Accounted, HeldDown, FreshStart, SeenInv

LEMMA ReleaseAllKeeps ==
  ASSUME NEW s, Sound(s)
  PROVE  Sound(Screen!ReleaseAll(s)) /\ Screen!ReleaseAll(s).held = {}
         /\ Screen!ReleaseAll(s).chord = s.chord /\ Screen!ReleaseAll(s).bar = s.bar
<1> DEFINE t == Screen!ReleaseAll(s)
<1>1. t \in ScreenType /\ t.held = {} /\ t.seen = s.seen /\ t.chord = s.chord /\ t.bar = s.bar
      /\ t.pc = IF Screen!Up THEN s.pc \ s.held ELSE s.pc
  BY DEF Screen!ReleaseAll, Sound, ScreenType
<1> HIDE DEF t
<1>2. Accounted(t) /\ HeldDown(t) /\ FreshStart(t) /\ SeenInv(t)
  BY <1>1 DEF Sound, Accounted, HeldDown, FreshStart, SeenInv, Screen!Up
<1>3. QED
  BY <1>1, <1>2 DEF Sound, t

LEMMA ResetKeeps ==
  ASSUME NEW s, Sound(s)
  PROVE  Sound(Screen!Reset(s)) /\ Screen!Reset(s).held = {} /\ ~Screen!Reset(s).captured
         /\ ~Screen!Reset(s).chord
<1> DEFINE r == Screen!ReleaseAll(s)
           t == [r EXCEPT !.captured = FALSE, !.bar = FALSE, !.ask = {},
                          !.settings = FALSE, !.chord = FALSE]
<1>1. Sound(r) /\ r.held = {}
  BY ReleaseAllKeeps
<1>2. Screen!Reset(s) = t
  BY DEF Screen!Reset
<1> HIDE DEF r
<1>3. t \in ScreenType /\ t.held = r.held /\ t.pc = r.pc /\ t.seen = r.seen /\ ~t.chord
      /\ ~t.captured
  BY <1>1 DEF Sound, ScreenType
<1>4. QED
  BY <1>1, <1>2, <1>3, RestOfView

\* The mouse taken or given back.
LEMMA MouseKeeps ==
  ASSUME NEW s, Sound(s), NEW t \in {Screen!Grab(s), Screen!GiveBack(s)}
  PROVE  Sound(t) /\ t.held = {} /\ t.chord = s.chord /\ t.pc \subseteq s.pc
<1> DEFINE r == Screen!ReleaseAll(s)
<1>1. Sound(r) /\ r.held = {} /\ r.chord = s.chord /\ r.pc \subseteq s.pc
  <2>1. r.pc = IF Screen!Up THEN s.pc \ s.held ELSE s.pc
    BY DEF Screen!ReleaseAll, Sound, ScreenType
  <2>2. QED
    BY <2>1, ReleaseAllKeeps
<1>2. \/ t = [r EXCEPT !.captured = TRUE, !.bar = FALSE]
      \/ t = [r EXCEPT !.captured = FALSE]
  BY DEF Screen!Grab, Screen!GiveBack
<1> HIDE DEF r
<1>3. t \in ScreenType /\ t.held = r.held /\ t.pc = r.pc /\ t.seen = r.seen
      /\ t.chord = r.chord
  BY <1>1, <1>2 DEF Sound, ScreenType
<1>4. QED
  BY <1>1, <1>3, RestOfView

\* The host key opens the toolbar with nothing held, or puts it away.
LEMMA HostKeyKeeps ==
  ASSUME NEW s, Sound(s)
  PROVE  Good(Screen!HostKey(s))
<1>1. CASE s.captured \/ ~s.bar
  <2> DEFINE r == Screen!GiveBack(s)
             t == [r EXCEPT !.bar = TRUE]
  <2>1. Sound(r) /\ r.held = {}
    BY MouseKeeps
  <2>2. Screen!HostKey(s) = t
    BY <1>1 DEF Screen!HostKey
  <2> HIDE DEF r
  <2>3. t \in ScreenType /\ t.held = r.held /\ t.pc = r.pc /\ t.seen = r.seen
    BY <2>1 DEF Sound, ScreenType
  <2>4. QED
    BY <2>1, <2>2, <2>3, RestOfView DEF Good, Clean
<1>2. CASE ~(s.captured \/ ~s.bar) /\ cfg.capture
  BY <1>2, MouseKeeps DEF Screen!HostKey, Good, Clean
<1>3. CASE ~(s.captured \/ ~s.bar) /\ ~cfg.capture
  <2> DEFINE t == [s EXCEPT !.bar = FALSE]
  <2>1. Screen!HostKey(s) = t
    BY <1>3 DEF Screen!HostKey
  <2>2. t \in ScreenType /\ t.held = s.held /\ t.pc = s.pc /\ t.seen = s.seen /\ ~t.bar
    BY DEF Sound, ScreenType
  <2>3. QED
    BY <2>1, <2>2, RestOfView DEF Good, Clean
<1>4. QED
  BY <1>1, <1>2, <1>3

\* A key or a button of this hand.
LEMMA KeyKeeps ==
  ASSUME NEW s, Sound(s), NEW k \in Screen!Plain, NEW t \in {Screen!Press(s, k), Screen!Let(s, k)}
  PROVE  Sound(t) /\ t.chord = s.chord
<1>1. /\ t \in ScreenType /\ t.seen = s.seen /\ t.chord = s.chord
      /\ \/ t.held = s.held \cup {k} /\ t.pc = IF Screen!Up THEN s.pc \cup {k} ELSE s.pc
         \/ t.held = s.held \ {k} /\ t.pc = IF Screen!Up THEN s.pc \ {k} ELSE s.pc
  <2>1. s \in ScreenType
    BY DEF Sound
  <2>2. CASE t = Screen!Press(s, k)
    BY <2>1, <2>2 DEF Screen!Press, ScreenType, Screen!PcKeys
  <2>3. CASE t = Screen!Let(s, k)
    BY <2>1, <2>3 DEF Screen!Let, ScreenType
  <2>4. QED
    BY <2>2, <2>3
<1>2. k \notin Screen!PcMods /\ "MENU" # k
  BY DEF Screen!PcMods, Screen!Plain
<1>3. Accounted(t) /\ HeldDown(t)
  BY <1>1, <1>2 DEF Sound, Accounted, HeldDown
<1>4. FreshStart(t) /\ SeenInv(t)
  BY <1>1, <1>2 DEF Sound, FreshStart, SeenInv, Screen!Up
<1>5. QED
  BY <1>1, <1>3, <1>4 DEF Sound

\* The modifiers follow the hand while the keyboard goes to the PC.
LEMMA ModifiersKeep ==
  ASSUME NEW s, Sound(s), Screen!Up, NEW m \in SUBSET Screen!Mods
  PROVE  Sound(Screen!Modifiers(s, m)) /\ Screen!Modifiers(s, m).chord = s.chord
<1> DEFINE t == Screen!Modifiers(s, m)
           wished == Screen!Wanted(m)
           gone == (s.held \cap Screen!PcMods) \ wished
<1>1. wished \subseteq Screen!PcMods
  BY DEF Screen!Wanted
<1>2. /\ t \in ScreenType /\ t.seen = s.seen /\ t.chord = s.chord
      /\ t.held = (s.held \ gone) \cup wished
      /\ t.pc = (s.pc \ gone) \cup (wished \ s.held)
  <2> HIDE DEF wished
  <2>1. t = [s EXCEPT !.held = (s.held \ gone) \cup wished,
                      !.pc = (s.pc \ gone) \cup (wished \ s.held)]
    BY DEF Screen!Modifiers, wished, Sound, ScreenType
  <2>2. QED
    BY <1>1, <2>1 DEF Sound, ScreenType, Screen!PcKeys
<1> HIDE DEF t, wished
<1>3. Accounted(t)
  BY <1>1, <1>2 DEF Sound, Accounted
<1>4. HeldDown(t)
  <2>1. t.held \cap Screen!PcMods \subseteq wished
    BY <1>2
  <2>2. \A k \in wished : k \in t.pc \/ (k \in s.held /\ k \notin s.pc)
    BY <1>2
  <2>3. QED
    BY <1>1, <1>2, <2>1, <2>2 DEF Sound, HeldDown
<1>5. FreshStart(t) /\ SeenInv(t)
  BY <1>2 DEF Sound, FreshStart, SeenInv, Screen!Up
<1>6. QED
  BY <1>2, <1>3, <1>4, <1>5 DEF Sound, t

\* A chord of the frame itself touches nothing that is held.
LEMMA ChordKeeps ==
  ASSUME NEW s, Sound(s), NEW keys
  PROVE  Sound(Screen!Chord(s, keys)) /\ Screen!Chord(s, keys).chord = s.chord
         /\ Screen!Chord(s, keys).held = s.held /\ Screen!Chord(s, keys).bar = s.bar
         /\ Screen!Chord(s, keys).seen = s.seen
<1> DEFINE t == Screen!Chord(s, keys)
<1>1. /\ t \in ScreenType /\ t.seen = s.seen /\ t.chord = s.chord /\ t.held = s.held
      /\ t.bar = s.bar
      /\ t.pc = IF Screen!Up THEN s.pc \ (keys \ s.held) ELSE s.pc
  BY DEF Screen!Chord, Sound, ScreenType
<1> HIDE DEF t
<1>2. Accounted(t) /\ HeldDown(t) /\ FreshStart(t) /\ SeenInv(t)
  BY <1>1 DEF Sound, Accounted, HeldDown, FreshStart, SeenInv, Screen!Up
<1>3. QED
  BY <1>1, <1>2 DEF Sound, t

\* The pastes that were done are seen, and what they took is down again.
LEMMA RepressKeeps ==
  ASSUME NEW s, Sound(s), done \in 0..MaxPastes
  PROVE  Sound(Screen!Repress(s)) /\ Screen!Repress(s).seen = done
         /\ Screen!Repress(s).chord = s.chord
<1>1. CASE s.seen = done
  BY <1>1 DEF Screen!Repress
<1>2. CASE s.seen # done
  <2> DEFINE t == Screen!Repress(s)
  <2>1. /\ t \in ScreenType /\ t.seen = done /\ t.chord = s.chord /\ t.held = s.held
        /\ t.pc = s.pc \cup (s.held \cap {"CONTROL", "LWIN"})
    BY <1>2 DEF Screen!Repress, Sound, ScreenType, Screen!PcKeys, Screen!PcMods
  <2> HIDE DEF t
  <2>2. Accounted(t) /\ HeldDown(t) /\ FreshStart(t) /\ SeenInv(t)
    BY <2>1 DEF Sound, Accounted, HeldDown, FreshStart, SeenInv, Screen!PcMods
  <2>3. QED
    BY <2>1, <2>2 DEF Sound, t
<1>3. QED
  BY <1>1, <1>2

-----------------------------------------------------------------------------
(* A frame.                                                                  *)

LEMMA ClickKeeps ==
  ASSUME NEW s, Sound(s), ~s.chord, NEW ev
  PROVE  Sound(Screen!Click(s, ev)) /\ ~Screen!Click(s, ev).chord
<1>1. \A r : Sound(r) /\ ~r.chord =>
        /\ Sound(Screen!Press(r, "left")) /\ ~Screen!Press(r, "left").chord
        /\ Sound(Screen!Let(r, "left")) /\ ~Screen!Let(r, "left").chord
  BY KeyKeeps DEF Screen!Plain
<1>2. Sound(Screen!Grab(s)) /\ ~Screen!Grab(s).chord
  BY MouseKeeps
<1> DEFINE b == [s EXCEPT !.bar = FALSE]
<1>3. Sound(b) /\ ~b.chord
  <2>1. b \in ScreenType /\ b.held = s.held /\ b.pc = s.pc /\ b.seen = s.seen /\ ~b.chord
    BY DEF Sound, ScreenType
  <2>2. QED
    BY <2>1, RestOfView
<1> DEFINE c == IF cfg.capture THEN Screen!Grab(s) ELSE b
<1>4. Sound(c) /\ ~c.chord
  BY <1>2, <1>3
<1>5. Screen!Click(s, ev) \in {Screen!Press(s, "left"), Screen!Press(c, "left"),
      Screen!Let(s, "left"), s}
  <2> DEFINE grabs == ~s.captured /\ Screen!PointerOnStream(s, ev)
             lets == s.captured \/ Screen!PointerOnStream(s, ev) \/ s.held # {}
  <2>1. CASE Screen!Presses(ev) /\ s.captured
    BY <2>1 DEF Screen!Click
  <2>2. CASE Screen!Presses(ev) /\ grabs
    BY <2>2 DEF Screen!Click
  <2>3. CASE ~Screen!Presses(ev) /\ lets
    BY <2>3 DEF Screen!Click
  <2>4. CASE ~(Screen!Presses(ev) /\ s.captured) /\ ~(Screen!Presses(ev) /\ grabs)
             /\ ~(~Screen!Presses(ev) /\ lets)
    BY <2>4 DEF Screen!Click
  <2>5. QED
    BY <2>1, <2>2, <2>3, <2>4
<1> HIDE DEF c
<1>6. QED
  BY <1>1, <1>4, <1>5

LEMMA ForwardKeeps ==
  ASSUME NEW s, Sound(s), ~s.chord, NEW ev, NEW toPc \in BOOLEAN
  PROVE  /\ Sound(Screen!Forward(s, ev, toPc)) /\ ~Screen!Forward(s, ev, toPc).chord
         /\ ev \in {"paste", "pasteAtOnce"} => Screen!Forward(s, ev, toPc).seen = s.seen
<1>1. CASE ev = "key" /\ toPc
  <2>1. Screen!Forward(s, ev, toPc) \in {Screen!Press(s, "a"), Screen!Let(s, "a")}
    BY <1>1 DEF Screen!Forward, Screen!IsClick
  <2>2. QED
    BY <1>1, <2>1, KeyKeeps DEF Screen!Plain
<1>2. CASE ev \in {"copy", "pasteAtOnce"} /\ toPc
  <2>1. \E keys : Screen!Forward(s, ev, toPc) = Screen!Chord(s, keys)
    BY <1>2 DEF Screen!Forward, Screen!IsClick
  <2>2. QED
    BY <2>1, ChordKeeps
<1>3. CASE Screen!IsClick(ev)
  <2>1. ev \notin {"key", "copy", "paste", "pasteAtOnce"}
    BY <1>3 DEF Screen!IsClick
  <2>2. Screen!Forward(s, ev, toPc) = Screen!Click(s, ev)
    BY <1>3, <2>1 DEF Screen!Forward
  <2>3. QED
    BY <2>1, <2>2, ClickKeeps
<1>4. CASE ~(ev = "key" /\ toPc) /\ ~(ev \in {"copy", "pasteAtOnce"} /\ toPc) /\ ~Screen!IsClick(ev)
  <2>1. Screen!Forward(s, ev, toPc) = s
    BY <1>4 DEF Screen!Forward
  <2>2. QED
    BY <2>1
<1>5. QED
  BY <1>1, <1>2, <1>3, <1>4

\* A frame that starts a paste.
PasteFrame(s, m, ev, f, typing) ==
  /\ ev \in {"paste", "pasteAtOnce"}
  /\ Screen!KeysToPc(s, f, typing) /\ ~({"ctrl", "alt"} \subseteq m)

\* A frame of the window keeps the invariant, and a frame that starts a paste
\* has seen those before it.
LEMMA InputKeeps ==
  ASSUME NEW s, Good(s), done \in 0..MaxPastes, NEW m \in SUBSET Screen!Mods, NEW ev,
         NEW f \in BOOLEAN, NEW typing \in BOOLEAN
  PROVE  /\ Good(Screen!Input(s, m, ev, f, typing))
         /\ ~f => Screen!Input(s, m, ev, f, typing).held = {}
            /\ ~Screen!Input(s, m, ev, f, typing).captured
         /\ PasteFrame(s, m, ev, f, typing) => Screen!Input(s, m, ev, f, typing).seen = done
<1> DEFINE t == Screen!Input(s, m, ev, f, typing)
<1>1. CASE ~f
  <2>1. ~Screen!KeysToPc(s, f, typing)
    BY <1>1 DEF Screen!KeysToPc
  <2>2. t = IF s.held # {} \/ s.captured THEN Screen!Reset(s) ELSE s
    BY <1>1 DEF Screen!Input
  <2>3. QED
    BY <1>1, <2>1, <2>2, ResetKeeps DEF Good, Clean, PasteFrame
<1>2. CASE f /\ {"ctrl", "alt"} \subseteq m
  <2> DEFINE c == [s EXCEPT !.chord = TRUE]
  <2>1. t \in {s, Screen!HostKey(c)}
    BY <1>2 DEF Screen!Input
  <2>2. c \in ScreenType /\ c.held = s.held /\ c.pc = s.pc /\ c.seen = s.seen
    BY DEF Good, Sound, ScreenType
  <2>3. Good(Screen!HostKey(c))
    BY <2>2, RestOfView, HostKeyKeeps DEF Good
  <2>4. QED
    BY <1>2, <2>1, <2>3 DEF PasteFrame
<1>3. CASE f /\ ~({"ctrl", "alt"} \subseteq m)
  <2> DEFINE idle == [s EXCEPT !.chord = FALSE]
             toPc == Screen!KeysToPc(s, f, typing)
             r == IF toPc THEN Screen!Repress(Screen!Modifiers(idle, m))
               ELSE Screen!ReleaseAll(idle)
  <2>1. t = Screen!Forward(r, ev, toPc)
    BY <1>3 DEF Screen!Input
  <2>2. Sound(idle) /\ ~idle.chord
    <3>1. /\ idle \in ScreenType /\ idle.held = s.held /\ idle.pc = s.pc
          /\ idle.seen = s.seen /\ ~idle.chord
      BY DEF Good, Sound, ScreenType
    <3>2. QED
      BY <3>1, RestOfView DEF Good
  <2> HIDE DEF idle
  <2>3. toPc \in BOOLEAN /\ (toPc => Screen!Up)
    BY DEF Screen!KeysToPc
  <2>4. Sound(r) /\ ~r.chord /\ (toPc => r.seen = done)
    <3>1. CASE toPc
      BY <2>2, <2>3, <3>1, ModifiersKeep, RepressKeeps
    <3>2. CASE ~toPc
      BY <2>2, <3>2, ReleaseAllKeeps
    <3>3. QED
      BY <3>1, <3>2
  <2> HIDE DEF r, toPc
  <2>5. /\ Sound(t) /\ ~t.chord
        /\ ev \in {"paste", "pasteAtOnce"} => t.seen = r.seen
    BY <2>1, <2>3, <2>4, ForwardKeeps
  <2>6. Good(t)
    BY <2>5 DEF Good, Clean
  <2>7. QED
    BY <1>3, <2>4, <2>5, <2>6 DEF toPc, PasteFrame
<1>4. QED
  BY <1>1, <1>2, <1>3

-----------------------------------------------------------------------------
(* The count of the pastes that are over.                                    *)

LEMMA PastesDomain ==
  ASSUME OtherTypes
  PROVE  DOMAIN pastes = 1..Len(pastes) /\ Len(pastes) \in Nat
         /\ \A i \in DOMAIN pastes : pastes[i] \in PasteType
BY DEF OtherTypes

LEMMA DoneIsCounted ==
  ASSUME Screen!ScreenAssumption, OtherTypes
  PROVE  IsFiniteSet(Over) /\ done \in 0..Len(pastes) /\ done \in 0..MaxPastes
<1>1. IsFiniteSet(1..Len(pastes)) /\ Cardinality(1..Len(pastes)) = Len(pastes)
  <2>1. Len(pastes) \in Nat /\ 1 \in Int /\ Len(pastes) \in Int
    BY PastesDomain
  <2>2. /\ IsFiniteSet(1..Len(pastes))
        /\ Cardinality(1..Len(pastes)) = IF 1 > Len(pastes) THEN 0 ELSE Len(pastes) - 1 + 1
    BY <2>1, FS_Interval
  <2>3. QED
    BY <2>1, <2>2
<1>2. Over \in SUBSET (1..Len(pastes))
  BY PastesDomain DEF Over
<1>3. IsFiniteSet(Over) /\ Cardinality(Over) <= Len(pastes)
  BY <1>1, <1>2, FS_Subset
<1>4. Cardinality(Over) \in Nat
  BY <1>3, FS_CardinalityType
<1>5. QED
  BY <1>3, <1>4, PastesDomain DEF Screen!ScreenAssumption, OtherTypes

-----------------------------------------------------------------------------
(* Every step.                                                               *)

LEMMA ScreenInit == Screen!ScreenAssumption /\ Screen!Init => ScreenInv
<1> SUFFICES ASSUME Screen!ScreenAssumption, Screen!Init PROVE ScreenInv
  OBVIOUS
<1>1. OtherTypes
  <2>1. Over = {}
    BY DEF Screen!Init, Over
  <2>2. cfg \in [capture : BOOLEAN, cmdIsCtrl : BOOLEAN]
    BY DEF Screen!Init, Screen!ScreenAssumption
  <2>3. pastes \in Seq(PasteType) /\ Len(pastes) <= MaxPastes
    BY DEF Screen!Init, Screen!ScreenAssumption
  <2>4. QED
    BY <2>1, <2>2, <2>3, FS_EmptySet DEF Screen!Init, OtherTypes
<1>2. screen \in ScreenType
  BY DEF Screen!Init, ScreenType, Screen!ScreenAssumption
<1>3. Good(screen)
  BY <1>2 DEF Screen!Init, Good, Sound, Clean, Accounted, HeldDown, FreshStart, SeenInv, Screen!Up
<1>4. QED
  BY <1>1, <1>3 DEF ScreenInv, Screen!UnfocusedLetsGo, Screen!Init

\* A step of the screen alone.
LEMMA ScreenAlone ==
  ASSUME OtherTypes, cfg' \in [capture : BOOLEAN, cmdIsCtrl : BOOLEAN],
         hand' \subseteq Screen!Mods \cup Screen!Plain, focused' \in BOOLEAN, popup' \in BOOLEAN,
         UNCHANGED <<stream, pastes, done>>, Good(screen')
  PROVE  OtherTypes' /\ Good(screen)'
<1>1. Over' = Over
  BY DEF Over
<1>2. OtherTypes'
  BY <1>1 DEF OtherTypes
<1>3. Good(screen)'
  BY DEF Good, Sound, Clean, Accounted, HeldDown, FreshStart, SeenInv, Screen!Up, Pressed, Ending
<1>4. QED
  BY <1>2, <1>3

LEMMA AfterKeeps ==
  ASSUME Screen!ScreenAssumption, ScreenInv, NEW s, Good(s), Screen!After(s),
         cfg' \in [capture : BOOLEAN, cmdIsCtrl : BOOLEAN], popup' \in BOOLEAN
  PROVE  ScreenInv'
<1>1. hand \cap Screen!Mods \in SUBSET Screen!Mods /\ done \in 0..MaxPastes /\ focused'
  BY DoneIsCounted DEF ScreenInv, Screen!After
<1>2. Good(screen')
  BY <1>1, InputKeeps DEF Screen!After
<1>3. OtherTypes' /\ Good(screen)'
  BY <1>2, ScreenAlone DEF ScreenInv, OtherTypes, Screen!After
<1>4. QED
  BY <1>1, <1>3 DEF ScreenInv, Screen!UnfocusedLetsGo

LEMMA PlayKeeps ==
  ASSUME Screen!ScreenAssumption, ScreenInv, Screen!Play
  PROVE  ScreenInv'
<1>1. PICK m \in ModSets, ev \in Screen!Events, f \in BOOLEAN, typing \in BOOLEAN :
        /\ ev \in {"copy", "paste", "pasteAtOnce"} =>
             Screen!KeysToPc(screen, f, typing) /\ ~({"ctrl", "alt"} \subseteq m)
        /\ ev \in {"paste", "pasteAtOnce"} => Len(pastes) < MaxPastes
        /\ screen' = Screen!Input(screen, m, ev, f, typing)
        /\ hand' = m \cup (IF Screen!Presses(ev) THEN (hand \ Screen!Mods) \cup Screen!Moved(ev)
                           ELSE (hand \ Screen!Mods) \ Screen!Moved(ev))
        /\ pastes' = CASE ev = "paste" -> Append(pastes,
           [mod |-> Screen!ClipboardModifier, at |-> 0])
                       [] ev = "pasteAtOnce" ->
                            Append(pastes, [mod |-> Screen!ClipboardModifier,
                              at |-> Screen!Finished])
                       [] OTHER -> pastes
        /\ done' = IF ev = "pasteAtOnce" THEN done + 1 ELSE done
        /\ focused' = f
  BY DEF Screen!Play
<1>2. UNCHANGED <<cfg, stream, popup>>
  BY DEF Screen!Play
<1>3. m \in SUBSET Screen!Mods /\ done \in 0..MaxPastes
  BY DoneIsCounted DEF Screen!ScreenAssumption, ScreenInv
<1>4. /\ Good(screen')
      /\ ev \in {"paste", "pasteAtOnce"} => screen'.seen = done
      /\ Screen!UnfocusedLetsGo'
  <2> DEFINE t == Screen!Input(screen, m, ev, f, typing)
  <2>1. Good(t) /\ (~f => t.held = {} /\ ~t.captured)
    BY <1>3, InputKeeps DEF ScreenInv
  <2>2. ASSUME ev \in {"paste", "pasteAtOnce"} PROVE t.seen = done
    <3>1. PasteFrame(screen, m, ev, f, typing)
      BY <1>1, <2>2 DEF PasteFrame
    <3>2. Good(screen)
      BY DEF ScreenInv
    <3>3. QED
      BY <1>3, <3>1, <3>2, InputKeeps, SMTT(40), ZenonT(60)
  <2>3. screen' = t /\ focused' = f
    BY <1>1
  <2> HIDE DEF t
  <2>4. QED
    BY <2>1, <2>2, <2>3 DEF Screen!UnfocusedLetsGo
<1>5. hand' \subseteq Screen!Mods \cup Screen!Plain
  <2>1. Screen!Moved(ev) \subseteq Screen!Plain /\ m \subseteq Screen!Mods
        /\ hand \subseteq Screen!Mods \cup Screen!Plain
    BY <1>3 DEF Screen!Moved, Screen!Plain, ScreenInv, OtherTypes
  <2>2. QED
    BY <1>1, <2>1
<1>6. CASE ev \notin {"paste", "pasteAtOnce"}
  <2>1. UNCHANGED <<pastes, done>>
    BY <1>1, <1>6
  <2>2. OtherTypes' /\ Good(screen)'
    BY <1>1, <1>2, <1>4, <1>5, <2>1, ScreenAlone DEF ScreenInv, OtherTypes
  <2>3. QED
    BY <1>4, <2>2 DEF ScreenInv
<1>7. CASE ev \in {"paste", "pasteAtOnce"}
  <2> DEFINE p == [mod |-> Screen!ClipboardModifier, at |-> IF ev = "paste" THEN 0
      ELSE Screen!Finished]
             n == Len(pastes) + 1
  <2>1. p \in PasteType /\ p.at \in {0, Screen!Finished} /\ pastes' = Append(pastes, p)
    BY <1>1, <1>7 DEF PasteType, Screen!ClipboardModifier, Screen!Finished
  <2> HIDE DEF p
  <2>2. /\ n \notin DOMAIN pastes /\ DOMAIN pastes' = DOMAIN pastes \cup {n}
        /\ pastes'[n] = p /\ \A i \in DOMAIN pastes : pastes'[i] = pastes[i]
        /\ pastes' \in Seq(PasteType) /\ Len(pastes') <= MaxPastes /\ pastes' # <<>>
    BY <1>1, <1>7, <2>1, PastesDomain DEF ScreenInv, OtherTypes, Screen!ScreenAssumption
  <2>3. Over' = IF ev = "pasteAtOnce" THEN Over \cup {n} ELSE Over
    <3>1. p.at = Screen!Finished <=> ev = "pasteAtOnce"
      BY <1>7 DEF p, Screen!Finished
    <3>2. QED
      BY <2>2, <3>1 DEF Over
  <2>4. done' = Cardinality(Over')
    <3>1. n \notin Over /\ IsFiniteSet(Over)
      BY <2>2, DoneIsCounted DEF Over, ScreenInv
    <3>2. QED
      BY <1>1, <2>3, <3>1, FS_AddElement DEF ScreenInv, OtherTypes
  <2>5. OtherTypes'
    BY <1>1, <1>2, <1>5, <2>2, <2>4 DEF ScreenInv, OtherTypes
  <2>6. /\ \A k : Pressed(k) => Pressed(k)'
        /\ Ending => Ending'
    BY <2>2 DEF Pressed, Ending
  <2>7. Accounted(screen)' /\ FreshStart(screen)' /\ Clean(screen)' /\ screen' \in ScreenType
    BY <1>2, <1>4, <2>6 DEF Good, Sound, Accounted, FreshStart, Clean, Screen!Up
  <2>8. HeldDown(screen)' /\ SeenInv(screen)'
    <3>1. screen'.seen = done /\ (done' = done \/ screen'.seen # done') /\ done <= done'
      BY <1>1, <1>3, <1>4, <1>7
    <3>2. QED
      BY <1>2, <1>4, <2>6, <3>1 DEF Good, Sound, HeldDown, SeenInv, Screen!Up
  <2>9. QED
    BY <1>4, <2>5, <2>7, <2>8 DEF ScreenInv, Good, Sound, ScreenType
<1>8. QED
  BY <1>6, <1>7

\* A click on a widget: whatever it does to the View first, the rest of the
\* frame follows.
LEMMA WidgetsKeep ==
  ASSUME Screen!ScreenAssumption, ScreenInv,
         Screen!OpenMenu \/ Screen!CloseMenu \/ Screen!StreamSettings \/ Screen!CloseSettings
           \/ Screen!Ask \/ Screen!Answer
           \/ Screen!SendKeys \/ Screen!ToggleCmd \/ Screen!MouseItems
  PROVE  ScreenInv'
<1> DEFINE Kept == cfg' \in [capture : BOOLEAN, cmdIsCtrl : BOOLEAN] /\ popup' \in BOOLEAN
<1>1. Good(screen) /\ Sound(screen) /\ screen \in ScreenType
      /\ cfg \in [capture : BOOLEAN, cmdIsCtrl : BOOLEAN] /\ popup \in BOOLEAN
  BY DEF ScreenInv, OtherTypes, Good, Sound
<1>2. \A t \in ScreenType : t.held = screen.held /\ t.pc = screen.pc /\ t.seen = screen.seen
                            /\ t.chord = screen.chord /\ t.bar = screen.bar => Good(t)
  BY <1>1, RestOfView DEF Good, Clean
<1>3. CASE Screen!OpenMenu \/ Screen!CloseMenu \/ Screen!ToggleCmd
  <2>1. Screen!After(screen) /\ Kept
    BY <1>1, <1>3 DEF Screen!OpenMenu, Screen!CloseMenu, Screen!ToggleCmd
  <2>2. QED
    BY <1>1, <2>1, AfterKeeps
<1>4. CASE Screen!StreamSettings
  <2> DEFINE r == Screen!GiveBack(screen)
             t == [r EXCEPT !.settings = TRUE]
  <2>1. Sound(r) /\ r.held = {}
    BY <1>1, MouseKeeps
  <2>2. Screen!After(t) /\ Kept
    BY <1>1, <1>4 DEF Screen!StreamSettings
  <2> HIDE DEF r
  <2>3. t \in ScreenType /\ t.held = r.held /\ t.pc = r.pc /\ t.seen = r.seen
    BY <2>1 DEF Sound, ScreenType
  <2>4. Good(t)
    BY <2>1, <2>3, RestOfView DEF Good, Clean
  <2> HIDE DEF t
  <2>5. QED
    BY <2>2, <2>4, AfterKeeps
<1>5. CASE Screen!CloseSettings
  <2> DEFINE t == [screen EXCEPT !.settings = FALSE]
  <2>1. Screen!After(t) /\ Kept
    BY <1>1, <1>5 DEF Screen!CloseSettings
  <2>2. Good(t)
    <3>1. t \in ScreenType /\ t.held = screen.held /\ t.pc = screen.pc /\ t.seen = screen.seen
          /\ t.chord = screen.chord /\ t.bar = screen.bar
      BY <1>1 DEF ScreenType
    <3>2. QED
      BY <1>2, <3>1
  <2> HIDE DEF t
  <2>3. QED
    BY <2>1, <2>2, AfterKeeps
<1>6. CASE Screen!Ask \/ Screen!Answer
  <2>1. PICK qs \in SUBSET Questions : Screen!After([screen EXCEPT !.ask = qs]) /\ Kept
    <3>1. screen.ask \in SUBSET Questions
      BY <1>1 DEF ScreenType
    <3>2. CASE Screen!Ask
      <4>1. PICK q \in Questions : Screen!After([screen EXCEPT !.ask = @ \cup {q}])
        BY <3>2 DEF Screen!Ask
      <4>2. [screen EXCEPT !.ask = @ \cup {q}] = [screen EXCEPT !.ask = screen.ask \cup {q}]
        OBVIOUS
      <4>3. screen.ask \cup {q} \in SUBSET Questions /\ Kept
        BY <1>1, <3>1, <3>2 DEF Screen!Ask
      <4>4. QED
        BY <4>1, <4>2, <4>3
    <3>3. CASE Screen!Answer
      <4>1. PICK q \in screen.ask : Screen!After([screen EXCEPT !.ask = @ \ {q}])
        BY <3>3 DEF Screen!Answer
      <4>2. [screen EXCEPT !.ask = @ \ {q}] = [screen EXCEPT !.ask = screen.ask \ {q}]
        OBVIOUS
      <4>3. screen.ask \ {q} \in SUBSET Questions /\ Kept
        BY <1>1, <3>1, <3>3 DEF Screen!Answer
      <4>4. QED
        BY <4>1, <4>2, <4>3
    <3>4. QED
      BY <1>6, <3>2, <3>3
  <2> DEFINE t == [screen EXCEPT !.ask = qs]
  <2>2. Good(t)
    <3>1. t \in ScreenType /\ t.held = screen.held /\ t.pc = screen.pc /\ t.seen = screen.seen
          /\ t.chord = screen.chord /\ t.bar = screen.bar
      BY <1>1 DEF ScreenType
    <3>2. QED
      BY <1>2, <3>1
  <2>3. QED
    BY <2>1, <2>2, AfterKeeps
<1>7. CASE Screen!SendKeys
  <2> DEFINE t == Screen!Chord(screen, {"MENU", "TAB"})
  <2>1. Screen!After(t) /\ Kept
    BY <1>1, <1>7 DEF Screen!SendKeys
  <2>2. Good(t)
    BY <1>1, ChordKeeps DEF Good, Clean
  <2> HIDE DEF t
  <2>3. QED
    BY <2>1, <2>2, AfterKeeps
<1>8. CASE Screen!MouseItems
  <2> DEFINE t == IF cfg.capture THEN Screen!GiveBack(screen) ELSE screen
  <2>1. Screen!After(t) /\ Kept
    BY <1>1, <1>8 DEF Screen!MouseItems
  <2>2. Good(t)
    BY <1>1, MouseKeeps DEF Good, Clean
  <2> HIDE DEF t
  <2>3. QED
    BY <2>1, <2>2, AfterKeeps
<1>9. QED
  BY <1>3, <1>4, <1>5, <1>6, <1>7, <1>8

\* The connection comes, goes and is shown as gone.
LEMMA StreamKeeps ==
  ASSUME Screen!ScreenAssumption, ScreenInv, Screen!Connected \/ Screen!Lost \/ Screen!Gone
         \/ Screen!Again
  PROVE  ScreenInv'
<1> USE DEF ScreenInv
<1>1. CASE Screen!Connected
  <2>1. /\ Sound(Screen!StreamStarted(screen))
        /\ Screen!StreamStarted(screen).pc \subseteq screen.pc
        /\ Screen!StreamStarted(screen).held \in {{}, screen.held}
        /\ Clean(Screen!StreamStarted(screen))
    BY MouseKeeps DEF Screen!StreamStarted, Good, Clean
  <2>2. /\ screen' = Screen!StreamStarted(screen) /\ stream = "starting" /\ stream' = "up"
        /\ UNCHANGED <<cfg, hand, focused, popup, pastes, done>>
    BY <1>1 DEF Screen!Connected
  <2>3. screen'.pc = {} /\ screen'.held \cap Screen!PcMods = {} /\ screen' \in ScreenType
    BY <2>1, <2>2 DEF Good, Sound, FreshStart
  <2>4. Good(screen)'
    <3>1. Clean(screen)' /\ SeenInv(screen)'
      BY <2>1, <2>2 DEF Sound, Clean, SeenInv
    <3>2. Accounted(screen)' /\ HeldDown(screen)' /\ FreshStart(screen)'
      BY <2>2, <2>3 DEF Accounted, HeldDown, FreshStart, Screen!PcMods
    <3>3. QED
      BY <2>3, <3>1, <3>2 DEF Good, Sound, ScreenType
  <2>5. OtherTypes'
    BY <2>2 DEF OtherTypes, Over
  <2>6. Screen!UnfocusedLetsGo'
    BY <1>1 DEF Screen!UnfocusedLetsGo, Screen!Connected, Screen!StreamStarted
  <2>7. QED
    BY <2>4, <2>5, <2>6
<1>2. CASE Screen!Lost
  <2>1. stream' = "lost" /\ UNCHANGED <<screen, cfg, hand, focused, popup, pastes, done>>
    BY <1>2 DEF Screen!Lost
  <2>2. OtherTypes' /\ Screen!UnfocusedLetsGo'
    BY <2>1 DEF OtherTypes, Over, Screen!UnfocusedLetsGo
  <2>3. Good(screen)'
    BY <2>1 DEF Good, Sound, Clean, Accounted, HeldDown, FreshStart, SeenInv, Screen!Up, ScreenType
  <2>4. QED
    BY <2>2, <2>3
<1>3. CASE Screen!Gone
  <2> DEFINE r == Screen!Reset(screen)
  <2>1. Sound(r) /\ r.held = {} /\ ~r.captured /\ ~r.chord
    BY ResetKeeps DEF Good
  <2>2. /\ screen' = [r EXCEPT !.pc = {}] /\ stream' = "none" /\ popup' = FALSE
        /\ UNCHANGED <<cfg, hand, focused, pastes, done>>
    BY <1>3 DEF Screen!Gone
  <2> HIDE DEF r
  <2>3. /\ screen' \in ScreenType /\ screen'.held = {} /\ screen'.pc = {}
        /\ screen'.seen = r.seen /\ ~screen'.captured
    BY <2>1, <2>2 DEF Sound, ScreenType
  <2>4. OtherTypes' /\ Screen!UnfocusedLetsGo'
    BY <2>2, <2>3 DEF OtherTypes, Over, Screen!UnfocusedLetsGo
  <2>5. Good(screen)'
    BY <2>1, <2>2, <2>3 DEF Good, Sound, Clean, Accounted, HeldDown, FreshStart, SeenInv, Screen!Up,
                            ScreenType
  <2>6. QED
    BY <2>4, <2>5
<1>4. CASE Screen!Again
  <2>1. /\ stream = "none" /\ stream' = "starting" /\ pastes' = <<>> /\ done' = 0
        /\ UNCHANGED <<screen, cfg, hand, focused, popup>>
    BY <1>4 DEF Screen!Again
  <2>2. Over' = {}
    BY <2>1 DEF Over
  <2>3. OtherTypes' /\ Screen!UnfocusedLetsGo'
    BY <2>1, <2>2, FS_EmptySet DEF OtherTypes, Screen!UnfocusedLetsGo, Screen!ScreenAssumption
  <2>4. Good(screen)'
    BY <2>1 DEF Good, Sound, Clean, Accounted, HeldDown, FreshStart, SeenInv, Screen!Up, ScreenType
  <2>5. QED
    BY <2>3, <2>4
<1>5. QED
  BY <1>1, <1>2, <1>3, <1>4

\* A paste's thread, one key event at a time.
LEMMA PasteKeeps ==
  ASSUME Screen!ScreenAssumption, ScreenInv, NEW i \in DOMAIN pastes,
         Screen!TextSent(i) \/ Screen!PressChord(i) \/ Screen!PasteDone(i)
  PROVE  ScreenInv'
<1> DEFINE pressAt == pastes[i].at
<1>1. /\ DOMAIN pastes = 1..Len(pastes) /\ Len(pastes) \in Nat
      /\ \A j \in DOMAIN pastes : pastes[j] \in PasteType
  BY PastesDomain DEF ScreenInv
<1>2. /\ UNCHANGED <<cfg, hand, stream, focused, popup>>
      /\ pressAt \in 0..5 /\ pastes' = [pastes EXCEPT ![i].at = pressAt + 1]
      /\ done' = IF pressAt = 5 THEN done + 1 ELSE done
  BY <1>1
     DEF Screen!TextSent, Screen!PressChord, Screen!PasteDone, Screen!Pressing, Screen!Finished,
         PasteType
<1>3. /\ pastes' \in Seq(PasteType) /\ Len(pastes') = Len(pastes)
      /\ DOMAIN pastes' = DOMAIN pastes
      /\ \A j \in DOMAIN pastes \ {i} : pastes'[j] = pastes[j]
      /\ pastes'[i].at = pressAt + 1 /\ pastes'[i].mod = pastes[i].mod
  <2> DEFINE p == [pastes[i] EXCEPT !.at = pressAt + 1]
  <2>1. p \in PasteType /\ p.at = pressAt + 1 /\ p.mod = pastes[i].mod
    BY <1>1, <1>2 DEF PasteType, Screen!Finished
  <2>2. pastes' = [pastes EXCEPT ![i] = p]
    BY <1>2
  <2> HIDE DEF p
  <2>3. QED
    BY <1>1, <2>1, <2>2 DEF ScreenInv, OtherTypes
<1> HIDE DEF pressAt
<1>4. OtherTypes'
  <2>1. Over' = IF pressAt = 5 THEN Over \cup {i} ELSE Over
    BY <1>2, <1>3 DEF Over, Screen!Finished, pressAt
  <2>2. i \notin Over /\ IsFiniteSet(Over)
    BY <1>2, DoneIsCounted DEF Over, pressAt, Screen!Finished, ScreenInv
  <2>3. done' = Cardinality(Over')
    BY <1>2, <2>1, <2>2, FS_AddElement DEF ScreenInv, OtherTypes
  <2>4. QED
    BY <1>2, <1>3, <2>3 DEF ScreenInv, OtherTypes
<1>5. pastes # <<>> /\ pastes' # <<>> /\ done \in Nat
  BY <1>1, <1>3, DoneIsCounted DEF ScreenInv
<1>6. screen' \in ScreenType /\ screen'.held = screen.held /\ screen'.seen = screen.seen
      /\ screen'.captured = screen.captured /\ screen'.chord = screen.chord
      /\ screen'.bar = screen.bar
      /\ screen'.pc = IF ~Screen!Up THEN screen.pc
                      ELSE CASE pressAt = 1 -> screen.pc \cup {pastes[i].mod}
                             [] pressAt = 2 -> screen.pc \cup {"V"}
                             [] pressAt = 3 -> screen.pc \ {"V"}
                             [] pressAt = 4 -> screen.pc \ {pastes[i].mod}
                             [] OTHER -> screen.pc
  <2>1. screen \in ScreenType
    BY DEF ScreenInv, Good, Sound
  <2>2. CASE pressAt \notin Screen!Pressing
    <3>1. screen' = screen /\ pressAt \notin 1..4
      BY <2>2 DEF Screen!TextSent, Screen!PressChord, Screen!PasteDone, Screen!Pressing, pressAt
    <3>2. QED
      BY <2>1, <3>1
  <2>3. CASE pressAt \in Screen!Pressing
    <3>1. Screen!PressChord(i)
      BY <2>3 DEF Screen!TextSent, Screen!PasteDone, Screen!Pressing, pressAt
    <3>2. CASE ~Screen!Up
      BY <2>1, <3>1, <3>2 DEF Screen!PressChord
    <3>3. CASE Screen!Up
      <4> DEFINE pc == CASE pressAt = 1 -> screen.pc \cup {pastes[i].mod}
                         [] pressAt = 2 -> screen.pc \cup {"V"}
                         [] pressAt = 3 -> screen.pc \ {"V"}
                         [] pressAt = 4 -> screen.pc \ {pastes[i].mod}
                         [] OTHER -> screen.pc
      <4>1. screen' = [screen EXCEPT !.pc = pc]
        BY <2>3, <3>1, <3>3 DEF Screen!PressChord, Screen!Pressing, pressAt
      <4>2. pc \in SUBSET Screen!PcKeys
        BY <1>1, <2>1, <2>3 DEF ScreenType, PasteType, Screen!PcKeys, Screen!PcMods, Screen!Pressing
      <4> HIDE DEF pc
      <4>3. screen' = [screen EXCEPT !.pc = pc] /\ screen' \in ScreenType /\ screen'.pc = pc
            /\ screen'.held = screen.held /\ screen'.seen = screen.seen
            /\ screen'.captured = screen.captured /\ screen'.chord = screen.chord
            /\ screen'.bar = screen.bar
        BY <2>1, <4>1, <4>2 DEF ScreenType
      <4>4. QED
        BY <3>3, <4>3 DEF pc
    <3>4. QED
      BY <3>2, <3>3
  <2>4. QED
    BY <2>2, <2>3
<1>7. Clean(screen)' /\ FreshStart(screen)' /\ Screen!UnfocusedLetsGo'
  BY <1>2, <1>6 DEF ScreenInv, Good, Sound, Clean, FreshStart, Screen!UnfocusedLetsGo, Screen!Up
<1>8. SeenInv(screen)'
  BY <1>2, <1>5, <1>6 DEF ScreenInv, Good, Sound, SeenInv, ScreenType
<1>9. Accounted(screen)'
  <2> SUFFICES ASSUME Screen!Up, NEW k \in screen'.pc
               PROVE  k \in screen.held \/ Pressed(k)'
    BY <1>2, <1>6 DEF Accounted, Screen!Up
  <2>1. CASE k \in screen.pc /\ k \notin screen.held
    <3>1. PICK j \in DOMAIN pastes :
            \/ k = "V" /\ pastes[j].at = 3
            \/ k = pastes[j].mod /\ pastes[j].at \in 2..4
      BY <2>1 DEF ScreenInv, Good, Sound, Accounted, Pressed
    <3>2. CASE j # i
      BY <1>3, <3>1, <3>2 DEF Pressed
    <3>3. CASE j = i
      <4>1. pastes[i].mod # "V"
        BY <1>1 DEF PasteType
      <4>2. k = pastes[i].mod /\ pressAt \in 2..3
        BY <1>6, <2>1, <3>1, <3>3, <4>1 DEF pressAt
      <4>3. QED
        BY <1>3, <4>2 DEF Pressed
    <3>4. QED
      BY <3>2, <3>3
  <2>2. CASE k \notin screen.pc
    <3>1. (pressAt = 1 /\ k = pastes[i].mod) \/ (pressAt = 2 /\ k = "V")
      BY <1>2, <1>6, <2>2
    <3>2. QED
      BY <1>3, <3>1 DEF Pressed
  <2>3. QED
    BY <2>1, <2>2
<1>10. HeldDown(screen)'
  <2> SUFFICES ASSUME Screen!Up
               PROVE  /\ "MENU" \in screen.held => "MENU" \in screen'.pc
                      /\ \/ screen.held \cap Screen!PcMods \subseteq screen'.pc
                         \/ screen.seen # done'
                         \/ Ending'
    BY <1>2, <1>6 DEF HeldDown, Screen!Up
  <2>1. /\ "MENU" \in screen.held => "MENU" \in screen.pc
        /\ screen.held \cap Screen!PcMods \subseteq screen.pc \/ screen.seen # done \/ Ending
    BY DEF ScreenInv, Good, Sound, HeldDown
  <2>2. pastes[i].mod # "MENU" /\ "V" \notin Screen!PcMods /\ "MENU" # "V"
    BY <1>1 DEF PasteType, Screen!PcMods
  <2>3. CASE pressAt = 4
    <3>1. Ending'
      BY <1>3, <2>3 DEF Ending
    <3>2. QED
      BY <1>6, <2>1, <2>2, <2>3, <3>1
  <2>4. CASE pressAt = 5
    <3>1. done' = done + 1 /\ screen'.pc = screen.pc
      BY <1>2, <1>6, <2>4
    <3>2. screen.seen # done'
      BY <1>5, <3>1 DEF ScreenInv, Good, Sound, SeenInv, ScreenType
    <3>3. QED
      BY <2>1, <3>1, <3>2
  <2>5. CASE pressAt \in 0..3
    <3>1. done' = done /\ \A k \in Screen!PcMods : k \in screen.pc => k \in screen'.pc
      BY <1>2, <1>6, <2>2, <2>5
    <3>2. Ending => Ending'
      BY <1>3, <2>5 DEF Ending, pressAt
    <3>3. "MENU" \in Screen!PcMods
      BY DEF Screen!PcMods
    <3>4. QED
      BY <2>1, <3>1, <3>2, <3>3
  <2>6. QED
    BY <1>2, <2>3, <2>4, <2>5
<1>11. Good(screen)'
  BY <1>6, <1>7, <1>8, <1>9, <1>10 DEF Good, Sound, ScreenType
<1>12. QED
  BY <1>4, <1>7, <1>11 DEF ScreenInv

LEMMA ScreenNext ==
  ASSUME Screen!ScreenAssumption, ScreenInv, [Screen!Next]_Screen!vars
  PROVE  ScreenInv'
<1>1. CASE UNCHANGED Screen!vars
  <2>1. UNCHANGED <<screen, cfg, hand, stream, focused, popup, pastes, done>>
    BY <1>1 DEF Screen!vars
  <2>2. Good(screen)' /\ OtherTypes' /\ Screen!UnfocusedLetsGo'
    BY <2>1 DEF ScreenInv, Good, Sound, Clean, Accounted, HeldDown, FreshStart, SeenInv, Screen!Up,
                Pressed, Ending, ScreenType, OtherTypes, Over, Screen!UnfocusedLetsGo
  <2>3. QED
    BY <2>2 DEF ScreenInv
<1>2. QED
  BY <1>1, PlayKeeps, WidgetsKeep, StreamKeeps, PasteKeeps DEF Screen!Next

LEMMA ScreenMeans ==
  Screen!ScreenAssumption /\ ScreenInv =>
    Screen!TypeOK /\ Screen!NothingForgotten /\ Screen!HoldSurvivesPaste
      /\ Screen!ChordOpensClean /\ Screen!UnfocusedLetsGo
<1> SUFFICES ASSUME Screen!ScreenAssumption, ScreenInv
             PROVE  Screen!TypeOK /\ Screen!NothingForgotten /\ Screen!HoldSurvivesPaste
                    /\ Screen!ChordOpensClean
  BY DEF ScreenInv
<1> USE DEF ScreenInv, Good, Sound
<1>1. Screen!TypeOK
  <2>1. pastes \in Seq([mod : Screen!PcMods, at : 0..Screen!Finished])
    BY SeqMonotonic DEF OtherTypes, PasteType, Screen!PcMods
  <2>2. QED
    BY <2>1, DoneIsCounted, SMTT(40), ZenonT(60) DEF Screen!TypeOK, OtherTypes, ScreenType
<1>2. Screen!NothingForgotten
  <2> DEFINE Down(i) == {pastes[i].mod, "V"}
  <2> SUFFICES ASSUME Screen!Up, NEW k \in screen.pc, k \notin screen.held
               PROVE  \E i \in DOMAIN pastes : pastes[i].at \in Screen!Pressing /\ k \in Down(i)
    BY DEF Screen!NothingForgotten
  <2>1. PICK i \in DOMAIN pastes :
          \/ k = "V" /\ pastes[i].at = 3
          \/ k = pastes[i].mod /\ pastes[i].at \in 2..4
    BY DEF Accounted, Pressed
  <2>2. QED
    BY <2>1 DEF Screen!Pressing
<1>3. Screen!HoldSurvivesPaste
  <2>1. ~Screen!Busy => ~Ending
    BY DEF Screen!Busy, Ending, Screen!Finished
  <2>2. QED
    BY <2>1 DEF Screen!HoldSurvivesPaste, HeldDown
<1>4. Screen!ChordOpensClean
  BY DEF Screen!ChordOpensClean, Clean
<1>5. QED
  BY <1>1, <1>2, <1>3, <1>4

\* The inductive invariant of the stream screen.
THEOREM ScreenIsSound == ASSUME Screen!ScreenAssumption PROVE Screen!Spec => []ScreenInv
<1>1. Screen!Init => ScreenInv
  BY ScreenInit
<1>2. ScreenInv /\ [Screen!Next]_Screen!vars => ScreenInv'
  BY ScreenNext
<1>3. QED
  BY <1>1, <1>2, PTL DEF Screen!Spec

\* Whatever pastes, clicks, focus and the host key do to each other, nothing is
\* left down on the PC that nobody will release (client/src/stream.rs, Held;
\* clipboard.rs, press_chord).
THEOREM NothingStaysDown == ASSUME Screen!ScreenAssumption
  PROVE Screen!Spec => []Screen!NothingForgotten
<1>1. ScreenInv => Screen!NothingForgotten
  BY ScreenMeans
<1>2. QED
  BY ScreenIsSound, <1>1, PTL

\* A modifier that is held here is down on the PC again once a paste is over
\* and a frame has seen that (View::input, repress).
THEOREM HoldsComeBack == ASSUME Screen!ScreenAssumption
  PROVE Screen!Spec => []Screen!HoldSurvivesPaste
<1>1. ScreenInv => Screen!HoldSurvivesPaste
  BY ScreenMeans
<1>2. QED
  BY ScreenIsSound, <1>1, PTL

ScreenPart == part = "screen" => ScreenInv

\* Keys and buttons are let go in every behaviour of the run, whichever part it
\* is of.
THEOREM TrafficLetsGo == TrafficSpec => []HandsLetGo
<1>1. TrafficInit => ScreenPart
  BY BoundsAssumption, ScreenInit DEF TrafficInit, ScreenPart
<1>2. ScreenPart /\ [TrafficNext]_allVars => ScreenPart'
  <2> SUFFICES ASSUME ScreenPart, [TrafficNext]_allVars, part' = "screen"
               PROVE  ScreenInv'
    BY DEF ScreenPart
  <2>1. part = "screen" /\ ScreenInv
    BY DEF ScreenPart, TrafficNext, allVars
  <2>2. [Screen!Next]_Screen!vars
    BY <2>1 DEF TrafficNext, allVars, Screen!vars
  <2>3. QED
    BY <2>1, <2>2, BoundsAssumption, ScreenNext
<1>3. ScreenPart => HandsLetGo
  BY BoundsAssumption, ScreenMeans DEF ScreenPart, HandsLetGo
<1>4. QED
  BY <1>1, <1>2, <1>3, PTL DEF TrafficSpec

-----------------------------------------------------------------------------
(* The parts that are proved in modules of their own.                      *)

SwapProofs == INSTANCE HostSwapProofs WITH Faults <- {}, exe <- v1, new <- v2, old <- v3,
    proc <- v4, installing <- v5, apply <- v6, handler <- v7, reply <- v8, powered <- v9,
    panel <- v10, restarted <- v11, stopped <- v12, lastServed <- v13, undone <- v14
Serving == INSTANCE ServiceProofs WITH Peers <- ControlPeers, Workers <- ControlWorkers,
    MaxConnections <- ControlConnections, RememberFor <- ControlRemembers, world <- v1,
    svc <- v2, work <- v3, acting <- v4, Runs <- [t \in Threads |-> t], holder <- v1,
    at <- v2, Fresh <- FreshFor, MaxFaults <- WakeFaults, sender <- v1, sleeper <- v2,
    air <- v3, test <- v4, faults <- v5
Caching == INSTANCE ServiceProofs WITH Peers <- CachePeers, Workers <- CacheWorkers,
    MaxConnections <- CacheConnections, RememberFor <- CacheRemembers, world <- v1,
    svc <- v2, work <- v3, acting <- v4, Runs <- [t \in Threads |-> t], holder <- v1,
    at <- v2, Fresh <- FreshFor, MaxFaults <- WakeFaults, sender <- v1, sleeper <- v2,
    air <- v3, test <- v4, faults <- v5

-----------------------------------------------------------------------------
(* The update of a PC's own executable.                                    *)

LEMMA SwapBounds == SwapProofs!SwapAssumption /\ SwapProofs!NoProcAssumption
BY BoundsAssumption
   DEF Swap!SwapAssumption, Swap!NoProcAssumption, SwapProofs!SwapAssumption,
       SwapProofs!NoProcAssumption

LEMMA SameSwapInit == Swap!Init <=> SwapProofs!Init
BY DEF Swap!Init, Swap!None, Swap!NoCopy, Swap!NoApply, Swap!NoRequest, SwapProofs!Init,
       SwapProofs!None, SwapProofs!NoCopy, SwapProofs!NoApply, SwapProofs!NoRequest

LEMMA SameSwapNext == Swap!Next <=> SwapProofs!Next
BY DEF Swap!None, Swap!NoCopy, Swap!NoApply, Swap!NoRequest, Swap!Serving, Swap!PortFree,
       Swap!Alive, Swap!OnItsWay, Swap!Spare, Swap!End, Swap!Start, Swap!Arrive, Swap!Answer,
       Swap!TakeTurn, Swap!Refuse, Swap!Defer, Swap!NotNewer, Swap!Stage, Swap!StageFails,
       Swap!Goto, Swap!GiveUp, Swap!Stays, Swap!Retire, Swap!MoveIn, Swap!PutBack, Swap!Spawn,
       Swap!GraceOver, Swap!HandOver, Swap!ChildGone, Swap!Aside, Swap!Restore, Swap!StartUp,
       Swap!Overtakes, Swap!ServedNext, Swap!Bind, Swap!LeavePort, Swap!StopWaiting,
       Swap!OpenPanel, Swap!EnsureService, Swap!RestartService, Swap!RelaunchPanel,
       Swap!StopService, Swap!StartService, Swap!PowerLoss, Swap!Boot, Swap!Upload,
       Swap!Update, Swap!Live, Swap!Window, Swap!Pc, Swap!files, Swap!panelVars, Swap!history,
       Swap!Next, SwapProofs!None, SwapProofs!NoCopy, SwapProofs!NoApply, SwapProofs!NoRequest,
       SwapProofs!Serving, SwapProofs!PortFree, SwapProofs!Alive, SwapProofs!OnItsWay,
       SwapProofs!Spare, SwapProofs!End, SwapProofs!Start, SwapProofs!Arrive,
       SwapProofs!Answer, SwapProofs!TakeTurn, SwapProofs!Refuse, SwapProofs!Defer,
       SwapProofs!NotNewer, SwapProofs!Stage, SwapProofs!StageFails, SwapProofs!Goto,
       SwapProofs!GiveUp, SwapProofs!Stays, SwapProofs!Retire, SwapProofs!MoveIn,
       SwapProofs!PutBack, SwapProofs!Spawn, SwapProofs!GraceOver, SwapProofs!HandOver,
       SwapProofs!ChildGone, SwapProofs!Aside, SwapProofs!Restore, SwapProofs!StartUp,
       SwapProofs!Overtakes, SwapProofs!ServedNext, SwapProofs!Bind, SwapProofs!LeavePort,
       SwapProofs!StopWaiting, SwapProofs!OpenPanel, SwapProofs!EnsureService,
       SwapProofs!RestartService, SwapProofs!RelaunchPanel, SwapProofs!StopService,
       SwapProofs!StartService, SwapProofs!PowerLoss, SwapProofs!Boot, SwapProofs!Upload,
       SwapProofs!Update, SwapProofs!Live, SwapProofs!Window, SwapProofs!Pc, SwapProofs!files,
       SwapProofs!panelVars, SwapProofs!history, SwapProofs!Next

SwapPart == part = "swap" => SwapProofs!SwapInv /\ SwapProofs!OrderInv /\ SwapProofs!ServeInv

LEMMA SameServed ==
  ServedThroughout <=>
    (part = "swap" => SwapProofs!NeverUnserved /\ SwapProofs!Startable /\ SwapProofs!BrokenGoes)
BY DEF ServedThroughout, Swap!None, Swap!NeverUnserved, Swap!Startable, Swap!BrokenGoes,
       Swap!InOrder, Swap!PortFree, Swap!Serving, Swap!Alive, SwapProofs!None,
       SwapProofs!NeverUnserved, SwapProofs!Startable, SwapProofs!BrokenGoes,
       SwapProofs!InOrder, SwapProofs!PortFree, SwapProofs!Serving, SwapProofs!Alive

\* While nothing cuts the service off, a PC keeps a service and an executable
\* that runs through every update, in every behaviour of the run, whichever
\* part it is of (host/src/update.rs, service.rs run).
THEOREM TrafficStaysServed == TrafficSpec => []ServedThroughout
<1>1. TrafficInit => SwapPart
  BY SameSwapInit, SwapBounds, SwapProofs!SwapInit, SwapProofs!OrderInit, SwapProofs!ServeInit
     DEF TrafficInit, SwapPart
<1>2. SwapPart /\ [TrafficNext]_allVars => SwapPart'
  <2> SUFFICES ASSUME SwapPart, [TrafficNext]_allVars, part' = "swap"
               PROVE  SwapProofs!SwapInv' /\ SwapProofs!OrderInv' /\ SwapProofs!ServeInv'
    BY DEF SwapPart
  <2>1. part = "swap" /\ SwapProofs!SwapInv /\ SwapProofs!OrderInv /\ SwapProofs!ServeInv
    BY DEF SwapPart, TrafficNext, allVars
  <2>2. [SwapProofs!Next]_SwapProofs!vars
    BY <2>1, SameSwapNext
       DEF TrafficNext, allVars, SwapProofs!vars, SwapProofs!files,
           SwapProofs!panelVars, SwapProofs!history
  <2>3. QED
    BY <2>1, <2>2, SwapBounds, SwapProofs!SwapNext, SwapProofs!OrderNext, SwapProofs!ServeNext
<1>3. SwapPart => ServedThroughout
  BY SameServed, SwapBounds, SwapProofs!ServeMeans DEF SwapPart
<1>4. QED
  BY <1>1, <1>2, <1>3, PTL DEF TrafficSpec

-----------------------------------------------------------------------------
(* The control service, its mutexes and the test of Wake-on-LAN.           *)

LEMMA SameControlInit == Control!Init <=> Serving!Init
BY DEF Control!OwnerOf, Control!Person, Control!Tagged, Control!TaggedUser, Control!NotThere,
       Control!Machines, Control!Homes, Control!Belongs, Control!Admits, Control!Stale,
       Control!AtMost, Control!Thread, Control!Idle, Control!Noted, Control!Init,
       Serving!OwnerOf, Serving!Person, Serving!Tagged, Serving!TaggedUser, Serving!NotThere,
       Serving!Machines, Serving!Homes, Serving!Belongs, Serving!Admits, Serving!Stale,
       Serving!AtMost, Serving!Thread, Serving!Idle, Serving!Noted, Serving!Init

LEMMA SameControlRoom == \A auth : Control!MakeRoom(auth) = Serving!MakeRoom(auth)
BY DEF Control!MakeRoom, Control!Cardinality, Serving!MakeRoom, Serving!Cardinality

LEMMA SameControlNext == Control!Next <=> Serving!Next
<1>1. Control!Moves <=> Serving!Moves
  BY DEF Control!OwnerOf, Control!Person, Control!Tagged, Control!TaggedUser, Control!NotThere,
         Control!Machines, Control!Homes, Control!Belongs, Control!Admits, Control!Stale,
         Control!AtMost, Control!Thread, Control!Idle, Control!Noted, Control!Moves,
         Serving!OwnerOf, Serving!Person, Serving!Tagged, Serving!TaggedUser, Serving!NotThere,
         Serving!Machines, Serving!Homes, Serving!Belongs, Serving!Admits, Serving!Stale,
         Serving!AtMost, Serving!Thread, Serving!Idle, Serving!Noted, Serving!Moves
<1>2. Control!Tick <=> Serving!Tick
  BY DEF Control!OwnerOf, Control!Person, Control!Tagged, Control!TaggedUser, Control!NotThere,
         Control!Machines, Control!Homes, Control!Belongs, Control!Admits, Control!Stale,
         Control!AtMost, Control!Thread, Control!Idle, Control!Noted, Control!Aged,
         Control!Tick, Serving!OwnerOf, Serving!Person, Serving!Tagged, Serving!TaggedUser,
         Serving!NotThere, Serving!Machines, Serving!Homes, Serving!Belongs, Serving!Admits,
         Serving!Stale, Serving!AtMost, Serving!Thread, Serving!Idle, Serving!Noted,
         Serving!Aged, Serving!Tick
<1>3. /\ Control!Refresh <=> Serving!Refresh
      /\ Control!PowerActs <=> Serving!PowerActs
  BY DEF Control!OwnerOf, Control!Person, Control!Tagged, Control!TaggedUser, Control!NotThere,
         Control!Refresh, Control!PowerActs, Serving!OwnerOf, Serving!Person, Serving!Tagged,
         Serving!TaggedUser, Serving!NotThere, Serving!Refresh, Serving!PowerActs
<1>4. ASSUME NEW w
      PROVE  Control!Remember(w) <=> Serving!Remember(w)
  BY SameControlRoom
     DEF Control!OwnerOf, Control!Person, Control!Tagged, Control!TaggedUser, Control!NotThere,
         Control!Thread, Control!Idle, Control!At, Control!Verdict, Control!Leave,
         Control!Remember, Serving!OwnerOf, Serving!Person, Serving!Tagged, Serving!TaggedUser,
         Serving!NotThere, Serving!Thread, Serving!Idle, Serving!At, Serving!Verdict,
         Serving!Leave, Serving!Remember
<1>5. ASSUME NEW w
      PROVE  Control!AskCache(w) <=> Serving!AskCache(w)
  BY DEF Control!OwnerOf, Control!Person, Control!Tagged, Control!TaggedUser, Control!NotThere,
         Control!Thread, Control!Idle, Control!At, Control!Verdict, Control!Leave,
         Control!Known, Control!AskCache, Serving!OwnerOf, Serving!Person, Serving!Tagged,
         Serving!TaggedUser, Serving!NotThere, Serving!Thread, Serving!Idle, Serving!At,
         Serving!Verdict, Serving!Leave, Serving!Known, Serving!AskCache
<1>6. ASSUME NEW w
      PROVE  Control!WhoIs(w) <=> Serving!WhoIs(w)
  BY DEF Control!OwnerOf, Control!Person, Control!Tagged, Control!TaggedUser, Control!NotThere,
         Control!Thread, Control!Idle, Control!At, Control!Verdict, Control!Leave,
         Control!Admits, Control!WhoIs, Serving!OwnerOf, Serving!Person, Serving!Tagged,
         Serving!TaggedUser, Serving!NotThere, Serving!Thread, Serving!Idle, Serving!At,
         Serving!Verdict, Serving!Leave, Serving!Admits, Serving!WhoIs
<1>7. ASSUME NEW w
      PROVE  /\ Control!Accept(w) <=> Serving!Accept(w)
             /\ Control!Read(w) <=> Serving!Read(w)
             /\ Control!Refuse(w) <=> Serving!Refuse(w)
             /\ Control!Handle(w) <=> Serving!Handle(w)
  BY DEF Control!OwnerOf, Control!Person, Control!Tagged, Control!TaggedUser, Control!NotThere,
         Control!Thread, Control!Idle, Control!At, Control!Verdict, Control!Leave,
         Control!Accept, Control!ReadRequest, Control!Read, Control!Refuse, Control!Power,
         Control!Handle, Serving!OwnerOf, Serving!Person, Serving!Tagged, Serving!TaggedUser,
         Serving!NotThere, Serving!Thread, Serving!Idle, Serving!At, Serving!Verdict,
         Serving!Leave, Serving!Accept, Serving!ReadRequest, Serving!Read, Serving!Refuse,
         Serving!Power, Serving!Handle
<1>8. ASSUME NEW w
      PROVE  Control!Connection(w) <=> Serving!Connection(w)
  BY <1>4, <1>5, <1>6, <1>7 DEF Control!Connection, Serving!Connection
<1>9. QED
  BY <1>1, <1>2, <1>3, <1>8 DEF Control!Next, Serving!Next

LEMMA SameControlProps ==
  /\ Control!TypeOK <=> Serving!TypeOK
  /\ Control!AnswersItsOwn <=> Serving!AnswersItsOwn
  /\ Control!RefusesStrangers <=> Serving!RefusesStrangers
  /\ Control!CacheBounded <=> Serving!CacheBounded
  /\ Control!SlotsReturned <=> Serving!SlotsReturned
  /\ Control!PowerIsAllowed <=> Serving!PowerIsAllowed
BY DEF Control!NotThere, Control!TypeOK, Control!At, Control!AnswersItsOwn,
       Control!RefusesStrangers, Control!CacheBounded, Control!SlotsReturned,
       Control!PowerIsAllowed, Control!Cardinality, Serving!NotThere, Serving!TypeOK,
       Serving!At, Serving!AnswersItsOwn, Serving!RefusesStrangers, Serving!CacheBounded,
       Serving!SlotsReturned, Serving!PowerIsAllowed, Serving!Cardinality

LEMMA SameCacheInit == Cache!Init <=> Caching!Init
BY DEF Cache!OwnerOf, Cache!Person, Cache!Tagged, Cache!TaggedUser, Cache!NotThere,
       Cache!Machines, Cache!Homes, Cache!Belongs, Cache!Admits, Cache!Stale, Cache!AtMost,
       Cache!Thread, Cache!Idle, Cache!Noted, Cache!Init, Caching!OwnerOf, Caching!Person,
       Caching!Tagged, Caching!TaggedUser, Caching!NotThere, Caching!Machines, Caching!Homes,
       Caching!Belongs, Caching!Admits, Caching!Stale, Caching!AtMost, Caching!Thread,
       Caching!Idle, Caching!Noted, Caching!Init

LEMMA SameCacheRoom == \A auth : Cache!MakeRoom(auth) = Caching!MakeRoom(auth)
BY DEF Cache!MakeRoom, Cache!Cardinality, Caching!MakeRoom, Caching!Cardinality

LEMMA SameCacheNext == Cache!Next <=> Caching!Next
<1>1. Cache!Moves <=> Caching!Moves
  BY DEF Cache!OwnerOf, Cache!Person, Cache!Tagged, Cache!TaggedUser, Cache!NotThere,
         Cache!Machines, Cache!Homes, Cache!Belongs, Cache!Admits, Cache!Stale, Cache!AtMost,
         Cache!Thread, Cache!Idle, Cache!Noted, Cache!Moves, Caching!OwnerOf, Caching!Person,
         Caching!Tagged, Caching!TaggedUser, Caching!NotThere, Caching!Machines, Caching!Homes,
         Caching!Belongs, Caching!Admits, Caching!Stale, Caching!AtMost, Caching!Thread,
         Caching!Idle, Caching!Noted, Caching!Moves
<1>2. Cache!Tick <=> Caching!Tick
  BY DEF Cache!OwnerOf, Cache!Person, Cache!Tagged, Cache!TaggedUser, Cache!NotThere,
         Cache!Machines, Cache!Homes, Cache!Belongs, Cache!Admits, Cache!Stale, Cache!AtMost,
         Cache!Thread, Cache!Idle, Cache!Noted, Cache!Aged, Cache!Tick, Caching!OwnerOf,
         Caching!Person, Caching!Tagged, Caching!TaggedUser, Caching!NotThere, Caching!Machines,
         Caching!Homes, Caching!Belongs, Caching!Admits, Caching!Stale, Caching!AtMost,
         Caching!Thread, Caching!Idle, Caching!Noted, Caching!Aged, Caching!Tick
<1>3. /\ Cache!Refresh <=> Caching!Refresh
      /\ Cache!PowerActs <=> Caching!PowerActs
  BY DEF Cache!OwnerOf, Cache!Person, Cache!Tagged, Cache!TaggedUser, Cache!NotThere,
         Cache!Refresh, Cache!PowerActs, Caching!OwnerOf, Caching!Person, Caching!Tagged,
         Caching!TaggedUser, Caching!NotThere, Caching!Refresh, Caching!PowerActs
<1>4. ASSUME NEW w
      PROVE  Cache!Remember(w) <=> Caching!Remember(w)
  BY SameCacheRoom
     DEF Cache!OwnerOf, Cache!Person, Cache!Tagged, Cache!TaggedUser, Cache!NotThere,
         Cache!Thread, Cache!Idle, Cache!At, Cache!Verdict, Cache!Leave, Cache!Remember,
         Caching!OwnerOf, Caching!Person, Caching!Tagged, Caching!TaggedUser, Caching!NotThere,
         Caching!Thread, Caching!Idle, Caching!At, Caching!Verdict, Caching!Leave,
         Caching!Remember
<1>5. ASSUME NEW w
      PROVE  Cache!AskCache(w) <=> Caching!AskCache(w)
  BY DEF Cache!OwnerOf, Cache!Person, Cache!Tagged, Cache!TaggedUser, Cache!NotThere,
         Cache!Thread, Cache!Idle, Cache!At, Cache!Verdict, Cache!Leave, Cache!Known,
         Cache!AskCache, Caching!OwnerOf, Caching!Person, Caching!Tagged, Caching!TaggedUser,
         Caching!NotThere, Caching!Thread, Caching!Idle, Caching!At, Caching!Verdict,
         Caching!Leave, Caching!Known, Caching!AskCache
<1>6. ASSUME NEW w
      PROVE  Cache!WhoIs(w) <=> Caching!WhoIs(w)
  BY DEF Cache!OwnerOf, Cache!Person, Cache!Tagged, Cache!TaggedUser, Cache!NotThere,
         Cache!Thread, Cache!Idle, Cache!At, Cache!Verdict, Cache!Leave, Cache!Admits,
         Cache!WhoIs, Caching!OwnerOf, Caching!Person, Caching!Tagged, Caching!TaggedUser,
         Caching!NotThere, Caching!Thread, Caching!Idle, Caching!At, Caching!Verdict,
         Caching!Leave, Caching!Admits, Caching!WhoIs
<1>7. ASSUME NEW w
      PROVE  /\ Cache!Accept(w) <=> Caching!Accept(w)
             /\ Cache!Read(w) <=> Caching!Read(w)
             /\ Cache!Refuse(w) <=> Caching!Refuse(w)
             /\ Cache!Handle(w) <=> Caching!Handle(w)
  BY DEF Cache!OwnerOf, Cache!Person, Cache!Tagged, Cache!TaggedUser, Cache!NotThere,
         Cache!Thread, Cache!Idle, Cache!At, Cache!Verdict, Cache!Leave, Cache!Accept,
         Cache!ReadRequest, Cache!Read, Cache!Refuse, Cache!Power, Cache!Handle,
         Caching!OwnerOf, Caching!Person, Caching!Tagged, Caching!TaggedUser, Caching!NotThere,
         Caching!Thread, Caching!Idle, Caching!At, Caching!Verdict, Caching!Leave,
         Caching!Accept, Caching!ReadRequest, Caching!Read, Caching!Refuse, Caching!Power,
         Caching!Handle
<1>8. ASSUME NEW w
      PROVE  Cache!Connection(w) <=> Caching!Connection(w)
  BY <1>4, <1>5, <1>6, <1>7 DEF Cache!Connection, Caching!Connection
<1>9. QED
  BY <1>1, <1>2, <1>3, <1>8 DEF Cache!Next, Caching!Next

LEMMA SameCacheProps ==
  /\ Cache!TypeOK <=> Caching!TypeOK
  /\ Cache!AnswersItsOwn <=> Caching!AnswersItsOwn
  /\ Cache!RefusesStrangers <=> Caching!RefusesStrangers
  /\ Cache!CacheBounded <=> Caching!CacheBounded
  /\ Cache!SlotsReturned <=> Caching!SlotsReturned
  /\ Cache!PowerIsAllowed <=> Caching!PowerIsAllowed
BY DEF Cache!NotThere, Cache!TypeOK, Cache!At, Cache!AnswersItsOwn, Cache!RefusesStrangers,
       Cache!CacheBounded, Cache!SlotsReturned, Cache!PowerIsAllowed, Cache!Cardinality,
       Caching!NotThere, Caching!TypeOK, Caching!At, Caching!AnswersItsOwn,
       Caching!RefusesStrangers, Caching!CacheBounded, Caching!SlotsReturned,
       Caching!PowerIsAllowed, Caching!Cardinality

LEMMA SameWakeInit == Waking!Init <=> Serving!Waking!Init
BY DEF Waking!Tailnet, Waking!Old, Waking!Idle, Waking!Init, Serving!Waking!Tailnet,
       Serving!Waking!Old, Serving!Waking!Idle, Serving!Waking!Init

LEMMA SameWakeNext == Waking!Next <=> Serving!Waking!Next
BY DEF Waking!Tailnet, Waking!Default, Waking!Old, Waking!Idle, Waking!Fault, Waking!Plan,
       Waking!Heard, Waking!Send, Waking!Ask, Waking!NoAnswer, Waking!WakePacket, Waking!Lose,
       Waking!Probe, Waking!Status, Waking!Tick, Waking!Next, Serving!Waking!Tailnet,
       Serving!Waking!Default, Serving!Waking!Old, Serving!Waking!Idle, Serving!Waking!Fault,
       Serving!Waking!Plan, Serving!Waking!Heard, Serving!Waking!Send, Serving!Waking!Ask,
       Serving!Waking!NoAnswer, Serving!Waking!WakePacket, Serving!Waking!Lose,
       Serving!Waking!Probe, Serving!Waking!Status, Serving!Waking!Tick, Serving!Waking!Next

LEMMA SameWakeProps ==
  /\ Waking!TypeOK <=> Serving!Waking!TypeOK
  /\ Waking!CameIsTold <=> Serving!Waking!CameIsTold
  /\ Waking!SameNetworkIsReached <=> Serving!Waking!SameNetworkIsReached
BY DEF Waking!Old, Waking!TypeOK, Waking!CameIsTold, Waking!SameNetworkIsReached,
       Serving!Waking!Old, Serving!Waking!TypeOK, Serving!Waking!CameIsTold,
       Serving!Waking!SameNetworkIsReached

LEMMA SameProgram == \A t : Mutexes!Program(t) = Serving!Mutexes!Program(t)
BY DEF Mutexes!Free, Mutexes!Locks, Mutexes!Take, Mutexes!Drop, Mutexes!Calls, Mutexes!Brief,
       Mutexes!Under, Mutexes!Log, Mutexes!Refresh, Mutexes!Status, Mutexes!Authorized,
       Mutexes!Netcheck, Mutexes!WakePacket, Mutexes!Acts, Mutexes!Program,
       Serving!Mutexes!Free, Serving!Mutexes!Locks, Serving!Mutexes!Take, Serving!Mutexes!Drop,
       Serving!Mutexes!Calls, Serving!Mutexes!Brief, Serving!Mutexes!Under, Serving!Mutexes!Log,
       Serving!Mutexes!Refresh, Serving!Mutexes!Status, Serving!Mutexes!Authorized,
       Serving!Mutexes!Netcheck, Serving!Mutexes!WakePacket, Serving!Mutexes!Acts,
       Serving!Mutexes!Program

LEMMA SameOp == \A t : Mutexes!Op(t) = Serving!Mutexes!Op(t)
BY SameProgram DEF Mutexes!Op, Serving!Mutexes!Op

LEMMA SameLocksInit == Mutexes!Init <=> Serving!Mutexes!Init
BY DEF Mutexes!Free, Mutexes!Locks, Mutexes!Init, Serving!Mutexes!Free, Serving!Mutexes!Locks,
       Serving!Mutexes!Init

LEMMA SameLocksNext == Mutexes!Next <=> Serving!Mutexes!Next
BY SameProgram, SameOp
   DEF Mutexes!Free, Mutexes!On, Mutexes!Lock, Mutexes!Unlock, Mutexes!Work, Mutexes!Next,
       Serving!Mutexes!Free, Serving!Mutexes!On, Serving!Mutexes!Lock, Serving!Mutexes!Unlock,
       Serving!Mutexes!Work, Serving!Mutexes!Next

LEMMA SameLocksProps ==
  /\ Mutexes!TypeOK <=> Serving!Mutexes!TypeOK
  /\ Mutexes!NoCircle <=> Serving!Mutexes!NoCircle
  /\ Mutexes!NoLockAcrossCalls <=> Serving!Mutexes!NoLockAcrossCalls
BY SameProgram, SameOp
   DEF Mutexes!Free, Mutexes!Locks, Mutexes!TypeOK, Mutexes!WaitsFor, Mutexes!NoCircle,
       Mutexes!NoLockAcrossCalls, Serving!Mutexes!Free, Serving!Mutexes!Locks,
       Serving!Mutexes!TypeOK, Serving!Mutexes!WaitsFor, Serving!Mutexes!NoCircle,
       Serving!Mutexes!NoLockAcrossCalls

ServicePart ==
  /\ part = "service" => Serving!ServiceInv
  /\ part = "cache" => Caching!ServiceInv
  /\ part = "wake" => Serving!WakeInv
  /\ part = "locks" => Serving!LocksInv

LEMMA ServiceBounds ==
  /\ Serving!ServiceAssumption /\ Caching!ServiceAssumption
  /\ Serving!Waking!WakeAssumption /\ Serving!Mutexes!LocksAssumption
BY BoundsAssumption
   DEF Control!ServiceAssumption, Cache!ServiceAssumption, Waking!WakeAssumption,
       Waking!Tailnet, Mutexes!LocksAssumption, Mutexes!Free,
       Serving!ServiceAssumption, Caching!ServiceAssumption, Serving!Waking!WakeAssumption,
       Serving!Waking!Tailnet, Serving!Mutexes!LocksAssumption, Serving!Mutexes!Free

\* The service answers its own machines and no others, allows what it does,
\* leaks nothing and waits for nobody, and a wake packet that came is not
\* denied, in every behaviour of the run, whichever part it is of.
THEOREM TrafficServesRight == TrafficSpec => []ServiceIsRight
<1>1. TrafficInit => ServicePart
  BY SameControlInit, SameCacheInit, SameWakeInit, SameLocksInit, ServiceBounds,
     Serving!ServiceInit, Caching!ServiceInit, Serving!WakeInit, Serving!LocksInit
     DEF TrafficInit, ServicePart
<1>2. ServicePart /\ [TrafficNext]_allVars => ServicePart'
  <2> SUFFICES ASSUME ServicePart, [TrafficNext]_allVars
               PROVE  ServicePart'
    OBVIOUS
  <2>1. UNCHANGED part
    BY DEF TrafficNext, allVars
  <2>2. CASE part = "service"
    <3>1. [Serving!Next]_Serving!vars
      BY <2>2, SameControlNext DEF TrafficNext, allVars, Serving!vars
    <3>2. Serving!ServiceInv'
      BY <2>2, <3>1, ServiceBounds, Serving!ServiceNext DEF ServicePart
    <3>3. QED
      BY <2>1, <2>2, <3>2 DEF ServicePart
  <2>3. CASE part = "cache"
    <3>1. [Caching!Next]_Caching!vars
      BY <2>3, SameCacheNext DEF TrafficNext, allVars, Caching!vars
    <3>2. Caching!ServiceInv'
      BY <2>3, <3>1, ServiceBounds, Caching!ServiceNext DEF ServicePart
    <3>3. QED
      BY <2>1, <2>3, <3>2 DEF ServicePart
  <2>4. CASE part = "wake"
    <3>1. [Serving!Waking!Next]_(Serving!Waking!vars)
      BY <2>4, SameWakeNext DEF TrafficNext, allVars, Serving!Waking!vars
    <3>2. Serving!WakeInv'
      BY <2>4, <3>1, ServiceBounds, Serving!WakeNext DEF ServicePart
    <3>3. QED
      BY <2>1, <2>4, <3>2 DEF ServicePart
  <2>5. CASE part = "locks"
    <3>1. [Serving!Mutexes!Next]_(Serving!Mutexes!vars)
      BY <2>5, SameLocksNext DEF TrafficNext, allVars, Serving!Mutexes!vars
    <3>2. Serving!LocksInv'
      BY <2>5, <3>1, ServiceBounds, Serving!LocksNext DEF ServicePart
    <3>3. QED
      BY <2>1, <2>5, <3>2 DEF ServicePart
  <2>6. CASE part \notin {"service", "cache", "wake", "locks"}
    BY <2>1, <2>6 DEF ServicePart
  <2>7. QED
    BY <2>2, <2>3, <2>4, <2>5, <2>6
<1>3. ServicePart => ServiceIsRight
  BY SameControlProps, SameCacheProps, SameWakeProps, SameLocksProps, ServiceBounds,
     Serving!ServiceMeans, Caching!ServiceMeans, Serving!WakeMeans, Serving!LocksMeans
     DEF ServicePart, ServiceIsRight
<1>4. QED
  BY <1>1, <1>2, <1>3, PTL DEF TrafficSpec

==============================================================================
