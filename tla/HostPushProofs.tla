---------------------------- MODULE HostPushProofs ----------------------------
(***************************************************************************)
(* Proofs about HostPush, for any releases, Macs, copies of the service    *)
(* and faults.  A Mac knows of one release at a time and of each newer     *)
(* one later, and remembers the last that a PC said it took.  That is      *)
(* enough: PushInv joins it to what the PC said to it ever, which nothing  *)
(* in the code keeps, and to where the Mac is in sending a release.        *)
(***************************************************************************)
EXTENDS HostPush, TLAPS

Steps == {"idle", "decide", "send", "wait", "ask"}

PushTypes ==
    /\ release \in [Macs -> Nat] /\ delivered \in [Macs -> Nat]
    /\ at \in [Macs -> Steps]
    /\ told \in [Macs -> SUBSET Nat]

\* What the PC has said it took is no newer than what this Mac knows of.
\* If it is that release, the Mac remembers it.
Remembers(m) ==
    /\ \A v \in told[m] : v <= release[m]
    /\ release[m] \in told[m] => delivered[m] = release[m]

\* A release under way was not taken before.
UnderWay(m) == at[m] \in {"send", "wait", "ask"} => delivered[m] # release[m]

PushInv == PushTypes /\ \A m \in Macs : Remembers(m) /\ UnderWay(m)

LEMMA PushStarts ==
    ASSUME PushInit
    PROVE  PushInv
BY DEF PushInit, PushInv, PushTypes, Remembers, UnderWay, Steps, None

\* What says nothing of releases or of the place of the Mac.
LEMMA OthersMove ==
    ASSUME PushInv, UNCHANGED <<release, at, delivered, told>>
    PROVE  PushInv'
BY DEF PushInv, PushTypes, Remembers, UnderWay

\* The Mac goes elsewhere, and remembers what it did.
LEMMA MacGoes ==
    ASSUME PushInv, NEW m \in Macs, NEW where \in Steps, Goes(m, where),
           UNCHANGED <<release, delivered, told>>,
           where \in {"send", "wait", "ask"} => delivered[m] # release[m]
    PROVE  PushInv'
<1>1. PushTypes'
    BY DEF PushInv, PushTypes, Goes
<1>2. ASSUME NEW n \in Macs
      PROVE  (Remembers(n) /\ UnderWay(n))'
    BY DEF PushInv, PushTypes, Remembers, UnderWay, Goes
<1>3. QED
    BY <1>1, <1>2 DEF PushInv

\* The PC has taken the release, whether it said so or was asked.
LEMMA MacDelivers ==
    ASSUME PushInv, NEW m \in Macs, Delivered(m), UNCHANGED release,
           \/ told' = told
           \/ told' = [told EXCEPT ![m] = @ \cup {release[m]}]
    PROVE  PushInv'
<1>1. /\ delivered' = [delivered EXCEPT ![m] = release[m]]
      /\ at' = [at EXCEPT ![m] = "idle"]
    BY DEF Delivered, Ends, Goes
<1>2. PushTypes'
    BY <1>1 DEF PushInv, PushTypes, Steps
<1>3. ASSUME NEW n \in Macs
      PROVE  (Remembers(n) /\ UnderWay(n))'
    BY <1>1 DEF PushInv, PushTypes, Remembers, UnderWay
<1>4. QED
    BY <1>2, <1>3 DEF PushInv

\* An error sends the Mac to ask or ends its round.
LEMMA MacFails ==
    ASSUME PushInv, NEW m \in Macs, NEW b, Failed(m, b) \/ NotSent(m),
           at[m] \in {"send", "wait", "ask"}, UNCHANGED <<release, told>>
    PROVE  PushInv'
<1>1. delivered[m] # release[m]
    BY DEF PushInv, UnderWay
<1>2. \/ Goes(m, "ask")
      \/ Goes(m, "idle")
    BY DEF Failed, NotSent, Ends
<1>3. delivered' = delivered
    BY DEF Failed, NotSent, stateVars
<1>4. QED
    BY <1>1, <1>2, <1>3, MacGoes DEF Steps

LEMMA PushMoves ==
    ASSUME SwapAssumption, PushInv, [PushNext]_allVars
    PROVE  PushInv'
<1> USE DEF Steps
<1>1. CASE OnPc \/ UNCHANGED allVars
    BY <1>1, OthersMove DEF OnPc, macVars, stateVars, allVars
<1>2. ASSUME NEW m \in Macs, Released(m)
      PROVE  PushInv'
    <2>1. PICK v \in Versions : v > release[m] /\ release' = [release EXCEPT ![m] = v]
        BY <1>2 DEF Released
    <2>2. at[m] = "idle" /\ UNCHANGED <<at, delivered, told>>
        BY <1>2 DEF Released, stateVars
    <2>3. v \in Nat
        BY SwapAssumption
    <2>4. PushTypes'
        BY <2>1, <2>2, <2>3 DEF PushInv, PushTypes
    <2>5. ASSUME NEW n \in Macs
          PROVE  (Remembers(n) /\ UnderWay(n))'
        BY <2>1, <2>2, <2>3 DEF PushInv, PushTypes, Remembers, UnderWay
    <2>6. QED
        BY <2>4, <2>5 DEF PushInv
<1>3. ASSUME NEW m \in Macs, Probe(m) \/ GraceEnds(m)
      PROVE  PushInv'
    BY <1>3, OthersMove DEF Probe, GraceEnds, stateVars
<1>4. ASSUME NEW m \in Macs, Look(m)
      PROVE  PushInv'
    BY <1>4, MacGoes DEF Look, stateVars
<1>5. ASSUME NEW m \in Macs, Pass(m) \/ UpToDate(m) \/ Conclude(m)
      PROVE  PushInv'
    BY <1>5, MacGoes DEF Pass, UpToDate, Conclude, Decide
<1>6. ASSUME NEW m \in Macs, Push(m)
      PROVE  PushInv'
    BY <1>6, MacGoes DEF Push, Decide
<1>7. ASSUME NEW m \in Macs, Send(m)
      PROVE  PushInv'
    BY <1>7, MacGoes DEF Send, stateVars, PushInv, UnderWay
<1>8. ASSUME NEW m \in Macs, SendFails(m)
      PROVE  PushInv'
    BY <1>8, MacFails DEF SendFails
<1>9. ASSUME NEW m \in Macs, Hear(m)
      PROVE  PushInv'
    <2>1. CASE Delivered(m) /\ told' = [told EXCEPT ![m] = @ \cup {release[m]}]
        BY <1>9, <2>1, MacDelivers DEF Hear
    <2>2. CASE (Failed(m, FALSE) \/ Failed(m, TRUE)) /\ UNCHANGED told
        BY <1>9, <2>2, MacFails DEF Hear
    <2>3. QED
        BY <1>9, <2>1, <2>2 DEF Hear
<1>10. ASSUME NEW m \in Macs, AskRuns(m)
       PROVE  PushInv'
    BY <1>10, MacDelivers DEF AskRuns
<1>11. ASSUME NEW m \in Macs, AskOlder(m)
       PROVE  PushInv'
    <2>1. CASE NotSent(m)
        BY <1>11, <2>1, MacFails DEF AskOlder
    <2>2. CASE Goes(m, "send") /\ UNCHANGED stateVars
        BY <1>11, <2>2, MacGoes DEF AskOlder, stateVars, PushInv, UnderWay
    <2>3. QED
        BY <1>11, <2>1, <2>2 DEF AskOlder
<1>12. QED
    BY <1>1, <1>2, <1>3, <1>4, <1>5, <1>6, <1>7, <1>8, <1>9, <1>10, <1>11
       DEF PushNext, Updater

\* At every moment of the updater's rounds: what the PC said it took is
\* remembered while it is the newest release, and none such is under way.
THEOREM PushIsConsistent == PushSpec => []PushInv
<1>1. PushInit => PushInv
    BY PushStarts
<1>2. PushInv /\ [PushNext]_allVars => PushInv'
    BY SwapAssumption, PushMoves
<1>3. QED
    BY <1>1, <1>2, PTL DEF PushSpec

\* No Mac sends a release again that the PC has told it to have taken and has
\* undone since, whatever discovery saw, however often connections break, and
\* with every fault of the PC.
THEOREM UndoneStaysAway == PushSpec => NotResent
<1> DEFINE Again == \A m \in Macs : at[m] = "send" /\ at'[m] = "wait" =>
                        release[m] \notin undone \cap told[m]
<1>1. PushInv /\ [PushNext]_allVars => [Again]_allVars
    BY DEF PushInv, Remembers, UnderWay
<1>2. PushSpec => [][Again]_allVars
    BY <1>1, PushIsConsistent, PTL DEF PushSpec
<1>3. QED
    BY <1>2 DEF NotResent

===============================================================================
