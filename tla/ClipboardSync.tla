----------------------------- MODULE ClipboardSync -----------------------------
(***************************************************************************)
(* The clipboard both ways while a stream runs (crates/client/src/         *)
(* clipboard.rs, its use in stream.rs and app.rs, and the PC's             *)
(* /v1/clipboard): a poller that fetches what the PC copied, the window    *)
(* that takes it over, and one thread for every paste that first has to    *)
(* send the Mac's text.                                                    *)
(***************************************************************************)
EXTENDS Naturals, FiniteSets

CONSTANTS
    Texts,          \* what a clipboard may hold as text
    NoText,         \* nothing, an image or a file; empty text on the wire
    Long, Cut,      \* texts that do not fit, and what is left of each
    Pastes,         \* bound: pastes during the stream
    MaxPcCopies,    \* bound: copies made on the PC
    MaxMacCopies,   \* bound: copies made on the Mac
    Lossy           \* requests may fail, before or after the PC acted

ASSUME ClipboardAssumption ==
    /\ NoText \notin Texts
    /\ Long \subseteq Texts /\ Cut \in Texts \ Long
    /\ {MaxPcCopies, MaxMacCopies} \subseteq Nat
    /\ Lossy \in BOOLEAN

VARIABLES
    pc,             \* the PC's clipboard: its text and Windows' number; and
                    \* whether its host is new enough to have /v1/clipboard
    mac,            \* the Mac's clipboard
    last, lastSeq, incoming, unsupported,   \* Shared
    primed,         \* poll_loop has had its first answer
    poll,           \* where poll_loop is, and the answer on its way
    paste,          \* each paste
    stop,           \* the stream has ended
    copies,         \* how often each side has copied
    crossed,        \* history: what was copied on or sent to the PC
    fresh,          \* history: the newest PC copy the Mac is to get
    old             \* history: that was the last text when it was copied

shared == <<last, lastSeq, incoming, unsupported>>
history == <<crossed, fresh, old>>
vars == <<pc, mac, shared, primed, poll, paste, stop, copies, history>>

Any == Texts \cup {NoText}
MaxSeq == MaxPcCopies + Cardinality(Pastes)
Unused == [at |-> "unused", want |-> NoText, got |-> NoText,
           quiet |-> FALSE, true |-> FALSE]

Init ==
    /\ pc \in [text : Any \ Long, seq : {1}, speaks : BOOLEAN] /\ mac = NoText
    /\ last = NoText /\ lastSeq = 0 /\ incoming = NoText
    /\ unsupported = FALSE /\ primed = FALSE /\ stop = FALSE
    /\ poll = [at |-> "wait", seq |-> 0, text |-> NoText]
    /\ paste = [p \in Pastes |-> Unused]
    /\ copies = [pc |-> 0, mac |-> 0]
    /\ crossed = {} /\ fresh = NoText /\ old = FALSE

\* Clipboard::fit, to_windows and from_windows: most texts cross as they are.
Fit(t) == IF t \in Long THEN Cut ELSE t

UnderWay == {p \in Pastes : paste[p].at \in {"sending", "written", "chord"}}

\* The PC's clipboard gets a text, and a new number.  A paste that is under
\* way and wanted another one is not to blame for what it will paste.
Place(t, pastes) ==
    /\ pc' = [pc EXCEPT !.text = t, !.seq = @ + 1]
    /\ paste' = [p \in Pastes |->
                    [pastes[p] EXCEPT !.quiet = @ /\ Fit(pastes[p].want) = t]]

-----------------------------------------------------------------------------
(* The people at the two machines.                                           *)

\* Something is copied on the PC.
PcCopy(t) ==
    /\ ~stop /\ copies.pc < MaxPcCopies
    /\ copies' = [copies EXCEPT !.pc = @ + 1]
    /\ Place(t, paste)
    /\ crossed' = crossed \cup ({Fit(t)} \ {NoText})
    /\ fresh' = IF primed /\ UnderWay = {} THEN Fit(t) ELSE NoText
    /\ old' = (Fit(t) = last)
    /\ UNCHANGED <<mac, shared, primed, poll, stop>>

MacCopy(t) ==
    /\ ~stop /\ copies.mac < MaxMacCopies
    /\ copies' = [copies EXCEPT !.mac = @ + 1]
    /\ mac' = t
    /\ UNCHANGED <<pc, shared, primed, poll, paste, stop, history>>

\* The window takes what the poller left for it.
TakeIncoming ==
    /\ ~stop /\ incoming # NoText
    /\ mac' = incoming /\ incoming' = NoText
    /\ fresh' = IF fresh = incoming THEN NoText ELSE fresh
    /\ UNCHANGED <<pc, last, lastSeq, unsupported, primed, poll, paste, stop,
                   copies, crossed, old>>

\* The stream ends; the pastes under way go on.
Stop ==
    /\ ~stop /\ stop' = TRUE
    /\ UNCHANGED <<pc, mac, shared, primed, poll, paste, copies, history>>

-----------------------------------------------------------------------------
(* poll_loop                                                                 *)

\* The request gets to the PC, which first reads the number.
ReadSeq ==
    /\ ~stop /\ pc.speaks /\ poll.at = "wait"
    /\ poll' = [at |-> "reading", seq |-> pc.seq, text |-> NoText]
    /\ UNCHANGED <<pc, mac, shared, primed, paste, stop, copies, history>>

\* It opens the clipboard, and answers.
ReadText ==
    /\ poll.at = "reading"
    /\ poll' = [poll EXCEPT !.at = "answered", !.text = Fit(pc.text)]
    /\ UNCHANGED <<pc, mac, shared, primed, paste, stop, copies, history>>

\* No answer: back off and ask again.
PollFails ==
    /\ Lossy /\ poll.at = "answered"
    /\ poll' = [poll EXCEPT !.at = "wait"]
    /\ UNCHANGED <<pc, mac, shared, primed, paste, stop, copies, history>>

\* 404: no more polls.
PollUnsupported ==
    /\ ~stop /\ ~pc.speaks /\ poll.at = "wait"
    /\ poll' = [poll EXCEPT !.at = "off"]
    /\ unsupported' = TRUE
    /\ UNCHANGED <<pc, mac, last, lastSeq, incoming, primed, paste, stop,
                   copies, history>>

\* Faulty variants carry the name of the definition after them and a word for
\* the bug; no specification uses them, they show that the properties notice.
AnsweredNumberLate ==
    /\ poll.at = "answered"
    /\ poll' = [poll EXCEPT !.at = "wait"]
    /\ lastSeq' = pc.seq
    /\ UNCHANGED <<pc, mac, unsupported, paste, stop, copies, history>>

Answered ==
    /\ poll.at = "answered"
    /\ poll' = [poll EXCEPT !.at = "wait"]
    /\ lastSeq' = poll.seq
    /\ UNCHANGED <<pc, mac, unsupported, paste, stop, copies, history>>

PrimeAsNews ==
    /\ Answered /\ ~primed /\ primed' = TRUE
    /\ last' = IF poll.text = NoText THEN last ELSE poll.text
    /\ incoming' = IF poll.text = NoText THEN incoming ELSE poll.text

\* The first answer is what the PC held before.
Prime ==
    /\ Answered /\ ~primed /\ primed' = TRUE
    /\ last' = IF poll.text = NoText THEN last ELSE poll.text
    /\ UNCHANGED incoming

\* A new number with a text that is not the last one.
News ==
    /\ Answered /\ primed /\ poll.seq # lastSeq
    /\ poll.text \notin {NoText, last}
    /\ last' = poll.text /\ incoming' = poll.text
    /\ UNCHANGED primed

NoNews ==
    /\ Answered /\ primed
    /\ poll.seq = lastSeq \/ poll.text \in {NoText, last}
    /\ UNCHANGED <<last, incoming, primed>>

-----------------------------------------------------------------------------
(* Sync::push and the thread it starts.                                      *)

Begin(p, where) ==
    /\ ~stop /\ paste[p].at = "unused"
    /\ paste' = [paste EXCEPT
            ![p] = [at |-> where, want |-> mac, got |-> NoText,
                    quiet |-> mac # NoText /\ ~unsupported,
                    true |-> last # mac \/ pc.text = Fit(mac)]]
    /\ UNCHANGED <<pc, mac, lastSeq, incoming, unsupported, primed, poll, stop,
                   copies, history>>

\* Nothing to send, or the PC is thought to have it: press the chord now.
PasteAtOnce(p) ==
    /\ last = mac \/ unsupported \/ mac = NoText
    /\ Begin(p, "chord")
    /\ UNCHANGED last

PasteSend(p) ==
    /\ last # mac /\ ~unsupported /\ mac # NoText
    /\ Begin(p, "sending")
    /\ UNCHANGED last

\* The PC replaces its clipboard.
Write(p) ==
    /\ pc.speaks /\ paste[p].at = "sending"
    /\ Place(Fit(paste[p].want), [paste EXCEPT ![p].at = "written"])
    /\ crossed' = crossed \cup {Fit(paste[p].want)}
    /\ fresh' = NoText
    /\ UNCHANGED <<mac, shared, primed, poll, stop, copies, old>>

\* The answer is in: Ok.
Written(p) ==
    /\ paste[p].at = "written"
    /\ last' = paste[p].want
    /\ paste' = [paste EXCEPT ![p].at = "chord"]
    /\ UNCHANGED <<pc, mac, lastSeq, incoming, unsupported, primed, poll, stop,
                   copies, history>>

SendFailsQuietly(p) ==
    /\ \/ Lossy /\ paste[p].at \in {"sending", "written"}
       \/ ~pc.speaks /\ paste[p].at = "sending"
    /\ paste' = [paste EXCEPT ![p].at = "unused", ![p].quiet = FALSE]
    /\ unsupported' = (unsupported \/ ~pc.speaks)
    /\ UNCHANGED <<pc, mac, last, lastSeq, incoming, primed, poll, stop,
                   copies, history>>

\* 404, or no answer, before or after the PC acted.
SendFails(p) ==
    /\ \/ Lossy /\ paste[p].at \in {"sending", "written"}
       \/ ~pc.speaks /\ paste[p].at = "sending"
    /\ paste' = [paste EXCEPT ![p].at = "chord", ![p].quiet = FALSE]
    /\ unsupported' = (unsupported \/ ~pc.speaks)
    /\ UNCHANGED <<pc, mac, last, lastSeq, incoming, primed, poll, stop,
                   copies, history>>

ChordEarly(p) ==
    /\ paste[p].at \in {"sending", "chord"}
    /\ paste' = [paste EXCEPT ![p].at = "done", ![p].got = pc.text]
    /\ UNCHANGED <<pc, mac, shared, primed, poll, stop, copies, history>>

\* then(): the PC pastes what it has.
Chord(p) ==
    /\ paste[p].at = "chord"
    /\ paste' = [paste EXCEPT ![p].at = "done", ![p].got = pc.text]
    /\ UNCHANGED <<pc, mac, shared, primed, poll, stop, copies, history>>

-----------------------------------------------------------------------------

Poll == ReadSeq \/ ReadText \/ PollFails \/ PollUnsupported \/ Prime \/ News \/ NoNews
Push(p) == Write(p) \/ Written(p) \/ SendFails(p) \/ Chord(p)

Next ==
    \/ \E t \in Any : PcCopy(t) \/ MacCopy(t)
    \/ TakeIncoming \/ Stop \/ Poll
    \/ \E p \in Pastes : PasteAtOnce(p) \/ PasteSend(p) \/ Push(p)

Spec == Init /\ [][Next]_vars

\* The window draws, the threads run, and some poll is answered; nobody has
\* to copy, paste or end the stream.
FairSpec ==
    /\ Spec
    /\ WF_vars(TakeIncoming) /\ WF_vars(Poll)
    /\ SF_vars(Prime) /\ SF_vars(News)
    /\ \A p \in Pastes : WF_vars(Push(p))

-----------------------------------------------------------------------------

Finished == {p \in Pastes : paste[p].at = "done"}

\* What reaches the Mac was copied on the PC, or sent there, during this
\* stream: connecting does not overwrite what the Mac was holding.
OnlyNewsComes == incoming \in crossed \cup {NoText}

\* A paste that sends its text, or that rightly takes it to be there, has the
\* PC paste it, as far as nobody else writes another to the PC meanwhile.
PasteIsRight ==
    \A p \in Finished : paste[p].quiet /\ paste[p].true => paste[p].got = Fit(paste[p].want)

\* A text copied on the PC that is not the last one either side saw gets to
\* the Mac unless another one follows it: no number is remembered for a text
\* older than it.
CopyArrives == (fresh # NoText /\ ~old) ~> (fresh = NoText \/ old \/ stop)

\* Every paste ends in its chord, with an old host and after a failed send
\* too: the PC pastes whatever it has rather than nothing.
PastePressed ==
    \A p \in Pastes : paste[p].at = "sending" ~> paste[p].at = "done"

-----------------------------------------------------------------------------
\* stream.rs:1161-1162 says more than the code keeps: the PC pastes what was
\* copied on the Mac, not what it had, if nobody else writes to the PC
\* meanwhile.
QuietPasteIsRight ==
    \A p \in Finished : paste[p].quiet => paste[p].got = Fit(paste[p].want)

=============================================================================
