----------------------------- MODULE SessionLife -----------------------------
(***************************************************************************)
(* What crates/stream promises the viewer about its sessions: each lives   *)
(* through the same phases in order, at most one of them has the streaming *)
(* library at a time, and input goes only to a session that is up and is   *)
(* over only when no input is on its way to it.                            *)
(***************************************************************************)
CONSTANTS Sessions, Senders, Nobody

VARIABLES
    phase,  \* where each session is in its life
    using   \* the session each sender is handing input to

vars == <<phase, using>>

Phases == {"new", "queued", "opening", "up", "closing", "over"}
Busy(s) == phase[s] \in {"opening", "up", "closing"}
LibraryFree == \A s \in Sessions : ~Busy(s)
Move(s, from, to) == phase[s] = from /\ phase' = [phase EXCEPT ![s] = to]

Init ==
    /\ phase = [s \in Sessions |-> "new"]
    /\ using = [x \in Senders |-> Nobody]

Start(s) == Move(s, "new", "queued") /\ UNCHANGED using

Open(s) ==
    /\ LibraryFree
    /\ Move(s, "queued", "opening")
    /\ UNCHANGED using

\* A session stopped while it queues is over without having been opened,
\* but it still waits for its turn to find that out.
Skip(s) ==
    /\ LibraryFree
    /\ Move(s, "queued", "over")
    /\ UNCHANGED using

Opened(s) == Move(s, "opening", "up") /\ UNCHANGED using

Fail(s) == Move(s, "opening", "closing") /\ UNCHANGED using

Close(s) == Move(s, "up", "closing") /\ UNCHANGED using

End(s) ==
    /\ \A x \in Senders : using[x] # s
    /\ Move(s, "closing", "over")
    /\ UNCHANGED using

Send(x, s) ==
    /\ phase[s] = "up" /\ using[x] = Nobody
    /\ using' = [using EXCEPT ![x] = s]
    /\ UNCHANGED phase

Sent(x) ==
    /\ using' = [using EXCEPT ![x] = Nobody]
    /\ UNCHANGED phase

Next ==
    \/ \E s \in Sessions :
         \/ Start(s) \/ Open(s) \/ Skip(s) \/ Opened(s) \/ Fail(s) \/ Close(s)
         \/ End(s)
         \/ \E x \in Senders : Send(x, s)
    \/ \E x \in Senders : Sent(x)

Spec == Init /\ [][Next]_vars

\* An attempt to open is decided, a closing session ends and a queued one
\* gets its turn when the library is free; a session that is up may stay so.
Fairness ==
    \A s \in Sessions :
        /\ WF_vars(Open(s) \/ Skip(s))
        /\ WF_vars(Opened(s) \/ Fail(s))
        /\ WF_vars(End(s))

FairSpec == Spec /\ Fairness
=============================================================================
