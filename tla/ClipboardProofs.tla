--------------------------- MODULE ClipboardProofs ---------------------------
(***************************************************************************)
(* Proofs about ClipboardSync, for any texts, any number of copies and     *)
(* pastes, and a network that fails or does not.                           *)
(*                                                                         *)
(* The poller knows a text of the PC only with the number that was read    *)
(* before it, so the two need not belong together.  NewsInv says what the  *)
(* pair still proves: a number above the first means that the text, read   *)
(* no earlier, was copied on the PC or sent there during this stream.      *)
(***************************************************************************)
EXTENDS ClipboardSync, TLAPS

PasteRecords == [at : {"unused", "sending", "written", "chord", "done"},
                 want : Any, got : Any, quiet : BOOLEAN, true : BOOLEAN]
PollRecords == [at : {"wait", "reading", "answered", "off"}, seq : Nat, text : Any]
PcRecords == [text : Any, seq : Nat, speaks : BOOLEAN]

\* The state of both machines, the poller and the pastes keeps its type.
ClipboardTypes ==
    /\ pc \in PcRecords
    /\ mac \in Any
    /\ last \in Any /\ lastSeq \in Nat /\ incoming \in Any
    /\ unsupported \in BOOLEAN /\ primed \in BOOLEAN /\ stop \in BOOLEAN
    /\ poll \in PollRecords
    /\ paste \in [Pastes -> PasteRecords]
    /\ copies \in [pc : Nat, mac : Nat]
    /\ crossed \subseteq Any

Crossed(t) == t \in crossed \cup {NoText}

\* The numbers the poller has seen only grow, and a number above the first
\* comes with a text that crossed.
NewsInv ==
    /\ pc.seq >= 1 /\ lastSeq <= pc.seq
    /\ pc.seq > 1 => Crossed(Fit(pc.text))
    /\ primed => lastSeq >= 1
    /\ poll.at \in {"reading", "answered"} =>
            1 <= poll.seq /\ lastSeq <= poll.seq /\ poll.seq <= pc.seq
    /\ poll.at = "answered" /\ poll.seq > 1 => Crossed(poll.text)

\* From the moment the PC has a paste's text to the chord, it keeps it as
\* far as the paste is quiet.
PasteInv ==
    \A p \in Pastes :
        /\ paste[p].at = "written" /\ paste[p].quiet => pc.text = Fit(paste[p].want)
        /\ paste[p].at = "chord" /\ paste[p].quiet /\ paste[p].true =>
                pc.text = Fit(paste[p].want)

ClipboardInv ==
    ClipboardTypes /\ NewsInv /\ OnlyNewsComes /\ PasteInv /\ PasteIsRight

\* A text that was cut to fit is not cut again, and nothing stays nothing.
LEMMA FitTwice ==
    /\ \A t \in Any : Fit(t) \in Any /\ Fit(Fit(t)) = Fit(t)
    /\ Fit(NoText) = NoText
    /\ \A t \in Texts : Fit(t) \in Texts
BY ClipboardAssumption DEF Fit, Any

LEMMA InitInv == Init => ClipboardInv
<1> SUFFICES ASSUME Init PROVE ClipboardInv
    OBVIOUS
<1>1. ClipboardTypes
  <2>1. pc \in PcRecords
    BY DEF Init, PcRecords
  <2>2. NoText \in Any
    BY DEF Any
  <2>3. paste \in [Pastes -> PasteRecords] /\ poll \in PollRecords
    BY <2>2 DEF Init, Unused, PasteRecords, PollRecords
  <2>4. QED
    BY <2>1, <2>2, <2>3 DEF Init, ClipboardTypes
<1>2. QED
  BY <1>1 DEF Init, ClipboardInv, NewsInv, OnlyNewsComes, PasteInv, PasteIsRight, Finished,
              Unused

-----------------------------------------------------------------------------
(* What a new text on the PC's clipboard does.                               *)

LEMMA PlaceKeeps ==
    ASSUME ClipboardTypes, NEW t \in Any,
           NEW pastes \in [Pastes -> PasteRecords], Place(t, pastes)
    PROVE  /\ pc' \in PcRecords
           /\ pc'.text = t /\ pc'.seq = pc.seq + 1
           /\ paste' \in [Pastes -> PasteRecords]
           /\ \A p \in Pastes :
                /\ paste'[p].at = pastes[p].at /\ paste'[p].want = pastes[p].want
                /\ paste'[p].got = pastes[p].got /\ paste'[p].true = pastes[p].true
                /\ paste'[p].quiet => pastes[p].quiet /\ Fit(pastes[p].want) = t
<1> DEFINE placed(p) == [pastes[p] EXCEPT !.quiet = @ /\ Fit(pastes[p].want) = t]
<1>1. pc' \in PcRecords
      /\ pc'.text = t /\ pc'.seq = pc.seq + 1
  <2>1. pc' = [pc EXCEPT !.text = t, !.seq = @ + 1]
    BY DEF Place
  <2>2. pc.seq + 1 \in Nat
    BY DEF ClipboardTypes, PcRecords
  <2>3. QED
    BY <2>1, <2>2 DEF ClipboardTypes, PcRecords
<1>2. paste' = [p \in Pastes |-> placed(p)]
  BY DEF Place
<1>3. ASSUME NEW p \in Pastes
      PROVE  /\ placed(p) \in PasteRecords
             /\ placed(p).at = pastes[p].at /\ placed(p).want = pastes[p].want
             /\ placed(p).got = pastes[p].got /\ placed(p).true = pastes[p].true
             /\ placed(p).quiet => pastes[p].quiet /\ Fit(pastes[p].want) = t
  BY DEF PasteRecords
<1> HIDE DEF placed
<1>4. QED
  BY <1>1, <1>2, <1>3

-----------------------------------------------------------------------------
(* Steps that leave the PC's clipboard alone.                                *)

LEMMA PollSteps ==
    ASSUME ClipboardInv, Poll
    PROVE  ClipboardInv'
<1> USE DEF ClipboardInv, ClipboardTypes
<1>1. UNCHANGED <<pc, mac, paste, stop, copies, crossed>>
  BY DEF Poll, ReadSeq, ReadText, PollFails, PollUnsupported, Prime, News, NoNews, Answered,
         history
<1>2. PasteInv' /\ PasteIsRight'
  BY <1>1 DEF PasteInv, PasteIsRight, Finished
<1>3. CASE ReadSeq
  <2>1. ClipboardTypes' /\ NewsInv'
    BY <1>3 DEF ReadSeq, shared, history, NewsInv, Crossed, Any, PollRecords, PcRecords
  <2>2. QED
    BY <1>2, <1>3, <2>1 DEF ReadSeq, shared, history, OnlyNewsComes
<1>4. CASE ReadText
  <2>1. /\ pc.text \in Any /\ pc.seq \in Nat /\ Fit(pc.text) \in Any /\ poll.seq \in Nat
        /\ poll.at = "reading" /\ poll' = [poll EXCEPT !.at = "answered", !.text = Fit(pc.text)]
        /\ UNCHANGED <<pc, mac, last, lastSeq, incoming, unsupported, primed, paste, stop,
                       copies, crossed>>
    BY <1>4, FitTwice DEF ReadText, shared, history, PcRecords, PollRecords
  <2>2. ClipboardTypes'
    BY <2>1 DEF PollRecords
  <2>3. poll'.at = "answered" /\ poll'.seq = poll.seq /\ poll'.text = Fit(pc.text)
    BY <2>1 DEF PollRecords
  <2>4. NewsInv'
    BY <2>1, <2>3 DEF NewsInv, Crossed
  <2>5. QED
    BY <1>2, <2>1, <2>2, <2>4 DEF OnlyNewsComes
<1>5. CASE PollFails \/ PollUnsupported
  <2>1. /\ \E at \in {"wait", "off"} : poll' = [poll EXCEPT !.at = at]
        /\ UNCHANGED <<pc, mac, last, lastSeq, incoming, primed, paste, stop, copies, crossed>>
        /\ unsupported' \in BOOLEAN
    BY <1>5 DEF PollFails, PollUnsupported, shared, history
  <2>2. ClipboardTypes' /\ poll'.at \notin {"reading", "answered"}
    BY <2>1 DEF PollRecords
  <2>3. QED
    BY <1>2, <2>1, <2>2 DEF OnlyNewsComes, NewsInv, Crossed
<1>6. CASE Prime \/ News \/ NoNews
  <2>1. poll.at = "answered" /\ poll' = [poll EXCEPT !.at = "wait"] /\ lastSeq' = poll.seq
        /\ UNCHANGED <<pc, mac, unsupported, paste, stop, copies, crossed>>
    BY <1>6 DEF Prime, News, NoNews, Answered, history
  <2>2. /\ last' \in Any /\ primed' \in BOOLEAN
        /\ incoming' \in {incoming, poll.text}
        /\ incoming' # incoming => primed /\ poll.seq # lastSeq
    BY <1>6 DEF Prime, News, NoNews, PollRecords
  <2>3. ClipboardTypes' /\ NewsInv'
    BY <2>1, <2>2 DEF NewsInv, Crossed, PollRecords
  <2>4. OnlyNewsComes'
    <3>1. CASE incoming' = incoming
      BY <2>1, <3>1 DEF OnlyNewsComes
    <3>2. CASE incoming' # incoming
      <4>1. poll.seq > 1 /\ incoming' = poll.text
        BY <2>1, <2>2, <3>2 DEF NewsInv, PollRecords
      <4>2. QED
        BY <2>1, <4>1 DEF NewsInv, Crossed, OnlyNewsComes
    <3>3. QED
      BY <3>1, <3>2
  <2>5. QED
    BY <1>2, <2>3, <2>4
<1>7. QED
  BY <1>3, <1>4, <1>5, <1>6 DEF Poll

LEMMA MacSteps ==
    ASSUME ClipboardInv, (\E t \in Any : MacCopy(t)) \/ TakeIncoming \/ Stop
    PROVE  ClipboardInv'
<1> USE DEF ClipboardInv, ClipboardTypes, MacCopy, TakeIncoming, Stop, shared, history
<1>1. ClipboardTypes'
  <2>1. mac' \in Any /\ incoming' \in Any /\ stop' \in BOOLEAN
    BY DEF Any
  <2>2. copies' \in [pc : Nat, mac : Nat]
    <3>1. copies.mac + 1 \in Nat
      OBVIOUS
    <3>2. QED
      BY <3>1
  <2>3. QED
    BY <2>1, <2>2
<1>2. NewsInv' /\ OnlyNewsComes' /\ PasteInv' /\ PasteIsRight'
  BY DEF NewsInv, Crossed, OnlyNewsComes, PasteInv, PasteIsRight, Finished
<1>3. QED
  BY <1>1, <1>2

\* A paste moves on, and what it takes to be on the PC's clipboard is there.
LEMMA PasteMoves ==
    ASSUME ClipboardInv, NEW p \in Pastes, NEW record \in PasteRecords,
           paste' = [paste EXCEPT ![p] = record],
           \/ record.at = "sending"
           \/ record.at = "chord" /\ (record.quiet /\ record.true =>
                                        pc.text = Fit(record.want))
           \/ record.at = "done" /\ (record.quiet /\ record.true =>
                                        record.got = Fit(record.want)),
           UNCHANGED <<pc, mac, lastSeq, incoming, primed, poll, stop, copies, history>>,
           last' \in Any, unsupported' \in BOOLEAN
    PROVE  ClipboardInv'
<1> USE DEF ClipboardInv, ClipboardTypes, history
<1>1. paste' \in [Pastes -> PasteRecords]
      /\ \A q \in Pastes : paste'[q] = IF q = p THEN record ELSE paste[q]
  BY DEF PasteRecords
<1>2. ClipboardTypes'
  BY <1>1 DEF PasteRecords
<1>3. NewsInv' /\ OnlyNewsComes'
  BY DEF NewsInv, Crossed, OnlyNewsComes
<1>4. PasteInv' /\ PasteIsRight'
  BY <1>1 DEF PasteInv, PasteIsRight, Finished
<1>5. QED
  BY <1>2, <1>3, <1>4

LEMMA PasteSteps ==
    ASSUME ClipboardInv, NEW p \in Pastes,
           PasteAtOnce(p) \/ PasteSend(p) \/ Written(p) \/ SendFails(p) \/ Chord(p)
    PROVE  ClipboardInv'
<1>1. ClipboardTypes /\ paste[p] \in PasteRecords
  BY DEF ClipboardInv, ClipboardTypes, PasteRecords
<1>2. ASSUME NEW where \in {"chord", "sending"}, Begin(p, where), last' = last,
             where = "chord" => last = mac \/ unsupported \/ mac = NoText
      PROVE  ClipboardInv'
  <2> DEFINE quiet == mac # NoText /\ ~unsupported
             true == last # mac \/ pc.text = Fit(mac)
             record == [at |-> where, want |-> mac, got |-> NoText, quiet |-> quiet,
                        true |-> true]
  <2>1. paste' = [paste EXCEPT ![p] = record]
        /\ UNCHANGED <<pc, mac, lastSeq, incoming, unsupported, primed, poll, stop, copies,
                       history>>
    BY <1>2 DEF Begin
  <2>2. quiet \in BOOLEAN /\ true \in BOOLEAN
        /\ (where = "chord" /\ quiet /\ true => pc.text = Fit(mac))
    BY <1>2
  <2> HIDE DEF quiet, true
  <2>3. record \in PasteRecords
    BY <1>1, <2>2 DEF ClipboardTypes, PasteRecords, Any
  <2>4. record.at = where /\ record.quiet = quiet /\ record.true = true /\ record.want = mac
    OBVIOUS
  <2> HIDE DEF record
  <2>5. QED
    BY <1>1, <1>2, <2>1, <2>2, <2>3, <2>4, PasteMoves DEF ClipboardTypes
<1>3. CASE PasteAtOnce(p)
  BY <1>2, <1>3 DEF PasteAtOnce
<1>4. CASE PasteSend(p)
  BY <1>2, <1>4 DEF PasteSend
<1>5. CASE Written(p)
  <2> DEFINE record == [paste[p] EXCEPT !.at = "chord"]
  <2>1. record \in PasteRecords /\ record.at = "chord"
        /\ (record.quiet => pc.text = Fit(record.want))
    BY <1>1, <1>5 DEF Written, PasteRecords, ClipboardInv, PasteInv
  <2>2. paste' = [paste EXCEPT ![p] = record] /\ last' \in Any
        /\ UNCHANGED <<pc, mac, lastSeq, incoming, unsupported, primed, poll, stop, copies,
                       history>>
    BY <1>1, <1>5 DEF Written, ClipboardTypes, PasteRecords
  <2> HIDE DEF record
  <2>3. QED
    BY <1>1, <2>1, <2>2, PasteMoves DEF ClipboardTypes
<1>6. CASE SendFails(p)
  <2> DEFINE record == [paste[p] EXCEPT !.at = "chord", !.quiet = FALSE]
  <2>1. record \in PasteRecords /\ record.at = "chord" /\ ~record.quiet
    BY <1>1 DEF PasteRecords
  <2>2. paste' = [paste EXCEPT ![p] = record] /\ last' \in Any /\ unsupported' \in BOOLEAN
        /\ UNCHANGED <<pc, mac, lastSeq, incoming, primed, poll, stop, copies, history>>
    BY <1>1, <1>6 DEF SendFails, ClipboardTypes, PasteRecords
  <2> HIDE DEF record
  <2>3. QED
    BY <2>1, <2>2, PasteMoves
<1>7. CASE Chord(p)
  <2> DEFINE record == [paste[p] EXCEPT !.at = "done", !.got = pc.text]
  <2>1. record \in PasteRecords /\ record.at = "done" /\ record.got = pc.text
        /\ record.quiet = paste[p].quiet /\ record.true = paste[p].true
        /\ record.want = paste[p].want
    BY <1>1 DEF PasteRecords, ClipboardTypes, PcRecords
  <2>2. paste' = [paste EXCEPT ![p] = record] /\ last' \in Any /\ unsupported' \in BOOLEAN
        /\ UNCHANGED <<pc, mac, lastSeq, incoming, primed, poll, stop, copies, history>>
    BY <1>1, <1>7 DEF Chord, shared, ClipboardTypes, PasteRecords
  <2> HIDE DEF record
  <2>3. record.quiet /\ record.true => record.got = Fit(record.want)
    BY <1>7, <2>1 DEF Chord, ClipboardInv, PasteInv
  <2>4. QED
    BY <2>1, <2>2, <2>3, PasteMoves
<1>8. QED
  BY <1>3, <1>4, <1>5, <1>6, <1>7

-----------------------------------------------------------------------------
(* Steps that give the PC another text.                                      *)

LEMMA PlaceSteps ==
    ASSUME ClipboardInv,
           (\E t \in Any : PcCopy(t)) \/ (\E p \in Pastes : Write(p))
    PROVE  ClipboardInv'
<1>1. ClipboardTypes /\ paste \in [Pastes -> PasteRecords]
  BY DEF ClipboardInv, ClipboardTypes, PasteRecords
<1>2. \E t \in Any, pastes \in [Pastes -> PasteRecords] :
        /\ Place(t, pastes)
        /\ Fit(t) \in crossed' \cup {NoText}
        /\ \A p \in Pastes :
             /\ pastes[p].want = paste[p].want /\ pastes[p].got = paste[p].got
             /\ pastes[p].quiet = paste[p].quiet /\ pastes[p].true = paste[p].true
             /\ \/ pastes[p].at = paste[p].at
                \/ pastes[p].at = "written" /\ t = Fit(paste[p].want)
  <2>1. ASSUME NEW t \in Any, PcCopy(t)
        PROVE  Place(t, paste) /\ Fit(t) \in crossed' \cup {NoText}
    BY <2>1 DEF PcCopy
  <2>2. ASSUME NEW p \in Pastes, Write(p)
        PROVE  \E t \in Any, pastes \in [Pastes -> PasteRecords] :
                 /\ Place(t, pastes)
                 /\ Fit(t) \in crossed' \cup {NoText}
                 /\ \A q \in Pastes :
                      /\ pastes[q].want = paste[q].want /\ pastes[q].got = paste[q].got
                      /\ pastes[q].quiet = paste[q].quiet /\ pastes[q].true = paste[q].true
                      /\ \/ pastes[q].at = paste[q].at
                         \/ pastes[q].at = "written" /\ t = Fit(paste[q].want)
    <3> DEFINE text == Fit(paste[p].want)
               written == [paste EXCEPT ![p].at = "written"]
    <3>1. Place(text, written) /\ crossed' = crossed \cup {text}
      BY <2>2 DEF Write
    <3>2. text \in Any /\ Fit(text) = text
      BY <1>1, FitTwice DEF PasteRecords
    <3>3. written \in [Pastes -> PasteRecords]
          /\ \A q \in Pastes :
               /\ written[q].want = paste[q].want /\ written[q].got = paste[q].got
               /\ written[q].quiet = paste[q].quiet /\ written[q].true = paste[q].true
               /\ \/ written[q].at = paste[q].at
                  \/ written[q].at = "written" /\ text = Fit(paste[q].want)
      BY <1>1 DEF PasteRecords
    <3> HIDE DEF text, written
    <3>4. QED
      BY <3>1, <3>2, <3>3
  <2>3. QED
    BY <1>1, <2>1, <2>2
<1>3. PICK t \in Any, pastes \in [Pastes -> PasteRecords] :
        /\ Place(t, pastes)
        /\ Fit(t) \in crossed' \cup {NoText}
        /\ \A p \in Pastes :
             /\ pastes[p].want = paste[p].want /\ pastes[p].got = paste[p].got
             /\ pastes[p].quiet = paste[p].quiet /\ pastes[p].true = paste[p].true
             /\ \/ pastes[p].at = paste[p].at
                \/ pastes[p].at = "written" /\ t = Fit(paste[p].want)
  BY <1>2
<1>4. /\ pc' \in PcRecords
      /\ pc'.text = t /\ pc'.seq = pc.seq + 1
      /\ paste' \in [Pastes -> PasteRecords]
      /\ \A p \in Pastes :
           /\ paste'[p].at = pastes[p].at /\ paste'[p].want = paste[p].want
           /\ paste'[p].got = paste[p].got /\ paste'[p].true = paste[p].true
           /\ paste'[p].quiet => paste[p].quiet /\ Fit(paste[p].want) = t
  BY <1>1, <1>3, PlaceKeeps
<1>5. crossed \subseteq crossed' /\ crossed' \subseteq Any
      /\ UNCHANGED <<mac, shared, primed, poll, stop>>
      /\ copies' \in [pc : Nat, mac : Nat]
  <2>1. ASSUME NEW u \in Any, PcCopy(u)
        PROVE  crossed' = crossed \cup ({Fit(u)} \ {NoText})
               /\ copies' = [copies EXCEPT !.pc = @ + 1]
               /\ UNCHANGED <<mac, shared, primed, poll, stop>>
    BY <2>1 DEF PcCopy
  <2>2. ASSUME NEW p \in Pastes, Write(p)
        PROVE  crossed' = crossed \cup {Fit(paste[p].want)}
               /\ UNCHANGED <<mac, shared, primed, poll, stop, copies>>
    BY <2>2 DEF Write
  <2>3. \A p \in Pastes : paste[p].want \in Any
    BY <1>1 DEF PasteRecords
  <2>4. QED
    BY <1>1, <2>1, <2>2, <2>3, FitTwice DEF ClipboardTypes
<1>6. ClipboardTypes'
  BY <1>1, <1>4, <1>5 DEF ClipboardTypes, PasteRecords, shared
<1>7. NewsInv' /\ OnlyNewsComes'
  <2>1. pc.seq \in Nat /\ lastSeq \in Nat /\ poll.seq \in Nat
    BY <1>1 DEF ClipboardTypes, PcRecords, PollRecords
  <2>2. UNCHANGED <<lastSeq, incoming, primed, poll>>
    BY <1>5 DEF shared
  <2>3. QED
    BY <1>3, <1>4, <1>5, <2>1, <2>2 DEF ClipboardInv, NewsInv, Crossed, OnlyNewsComes
<1>8. PasteInv' /\ PasteIsRight'
  BY <1>3, <1>4 DEF ClipboardInv, PasteInv, PasteIsRight, Finished
<1>9. QED
  BY <1>6, <1>7, <1>8 DEF ClipboardInv

-----------------------------------------------------------------------------

LEMMA NextInv == ClipboardInv /\ [Next]_vars => ClipboardInv'
<1> SUFFICES ASSUME ClipboardInv, [Next]_vars PROVE ClipboardInv'
    OBVIOUS
<1>1. CASE Next
  BY <1>1, PollSteps, MacSteps, PasteSteps, PlaceSteps DEF Next, Push
<1>2. CASE UNCHANGED vars
  BY <1>2 DEF vars, shared, history, ClipboardInv, ClipboardTypes, NewsInv, Crossed,
              OnlyNewsComes, PasteInv, PasteIsRight, Finished
<1>3. QED
  BY <1>1, <1>2

\* What the poller, the window and the pastes rely on holds at any moment: the
\* types, the order of the numbers, and what the PC keeps for a paste.
THEOREM ClipboardIsConsistent == Spec => []ClipboardInv
BY InitInv, NextInv, PTL DEF Spec

\* Only what was copied on the PC, or sent there, during the stream comes to
\* the Mac: connecting overwrites nothing (clipboard.rs poll_loop).
THEOREM OnlyNewsCrosses == Spec => []OnlyNewsComes
<1>1. ClipboardInv => OnlyNewsComes
  BY DEF ClipboardInv
<1>2. QED
  BY <1>1, ClipboardIsConsistent, PTL

\* A paste whose sending succeeded, or that rightly took its text to be on
\* the PC, is answered with that text unless somebody else writes another to
\* the PC before the chord (clipboard.rs push).
THEOREM PastesAreRight == Spec => []PasteIsRight
<1>1. ClipboardInv => PasteIsRight
  BY DEF ClipboardInv
<1>2. QED
  BY <1>1, ClipboardIsConsistent, PTL
=============================================================================
