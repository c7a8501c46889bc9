------------------------------- MODULE HostPush -------------------------------
(***************************************************************************)
(* The updater of the Macs (crates/client/src/update.rs) and the PC it     *)
(* keeps up to date (HostSwap): discovery reports what the PC runs, the    *)
(* updater decides on a snapshot of that, sends the newer release, tries   *)
(* again when the connection breaks, and draws its conclusions about a PC  *)
(* that still runs the old version afterwards.                             *)
(*                                                                         *)
(* Each Mac has one upload handler of the PC: Handlers is the set of Macs. *)
(***************************************************************************)
EXTENDS HostSwap

CONSTANT Lossy      \* downloads and connections may fail

ASSUME PushAssumption == Lossy \in BOOLEAN

Macs == Handlers
MaxAttempts == 3    \* push_host's

VARIABLES
    release,    \* the newest release each Mac knows of
    seen,       \* discovery: the version the PC last reported, or None
    snapshot,   \* the updater's copy of that for this round
    at,         \* where the updater is
    attempt,    \* push_host's attempt
    transient,  \* the last error was one of is_transient's
    pushed,     \* State::pushed: the version, until PUSH_GRACE is over
    delivered,  \* State::delivered
    rolledBack, \* State::rolled_back
    told,       \* history: what the PC has answered it to have taken
    failed      \* history: versions whose swap ended without a hand-over

stateVars == <<pushed, delivered, rolledBack>>
macVars == <<release, seen, snapshot, at, attempt, transient, stateVars, told>>
allVars == <<vars, macVars, failed>>

PushInit ==
    /\ Init
    /\ release = [m \in Macs |-> None]
    /\ seen = [m \in Macs |-> None]
    /\ snapshot = [m \in Macs |-> None]
    /\ at = [m \in Macs |-> "idle"]
    /\ attempt = [m \in Macs |-> 1]
    /\ transient = [m \in Macs |-> FALSE]
    /\ pushed = [m \in Macs |-> None]
    /\ delivered = [m \in Macs |-> None]
    /\ rolledBack = [m \in Macs |-> None]
    /\ told = [m \in Macs |-> {}]
    /\ failed = {}

\* Nothing on the PC is on its way to another version.
PcQuiet ==
    /\ \A p \in Procs : apply[p].pc = "none" /\ proc[p].st \in {"none", "serving"}
    /\ \A h \in Handlers : handler[h].pc = "idle"

Running == {proc[p].ver : p \in {q \in Procs : Serving(q)}}
Goes(m, where) == at' = [at EXCEPT ![m] = where]

-----------------------------------------------------------------------------

\* update::latest finds a newer release.  They are hours apart.
Released(m) ==
    /\ at[m] = "idle" /\ PcQuiet
    /\ \E v \in Versions :
        /\ v > release[m]
        /\ release' = [release EXCEPT ![m] = v]
    /\ UNCHANGED <<vars, seen, snapshot, at, attempt, transient, stateVars,
                   told>>

\* What /v1/status on the PC answers now, None for nothing.
Reports == IF Running = {} THEN {None} ELSE Running

\* A scan of spawn_discovery.
Probe(m) ==
    /\ \E v \in Reports : seen' = [seen EXCEPT ![m] = v]
    /\ UNCHANGED <<vars, release, snapshot, at, attempt, transient, stateVars, told>>

\* PUSH_GRACE is over: three minutes, and a swap or a scan takes seconds.
GraceEnds(m) ==
    /\ pushed[m] # None /\ PcQuiet /\ seen[m] \in Reports
    /\ pushed' = [pushed EXCEPT ![m] = None]
    /\ UNCHANGED <<vars, release, seen, snapshot, at, attempt, transient,
                   delivered, rolledBack, told>>

\* The round starts from a copy of the discovery; the PCs before this one
\* in the list may take minutes.
Look(m) ==
    /\ at[m] = "idle" /\ release[m] # None
    /\ Goes(m, "decide")
    /\ snapshot' = [snapshot EXCEPT ![m] = seen[m]]
    /\ UNCHANGED <<vars, release, seen, attempt, transient, stateVars, told>>

Decide(m) ==
    /\ at[m] = "decide"
    /\ snapshot' = [snapshot EXCEPT ![m] = None]
    /\ UNCHANGED <<vars, release, seen, attempt, transient, pushed, delivered, told>>

Due(m) == snapshot[m] # None /\ release[m] > snapshot[m]
Settling(m) == pushed[m] = release[m] \/ rolledBack[m] = release[m]

\* No service seen, a stream to this PC, an update under way, or one that
\* failed there.
Pass(m) ==
    /\ Decide(m)
    /\ snapshot[m] = None \/ Due(m)
    /\ Goes(m, "idle")
    /\ UNCHANGED rolledBack

\* Faulty variants carry the name of the definition after them and a word for
\* the bug; no specification uses them, they show that the properties notice.
UpToDateKeeps(m) ==
    /\ Decide(m)
    /\ snapshot[m] # None /\ release[m] <= snapshot[m]
    /\ Goes(m, "idle")
    /\ UNCHANGED rolledBack

\* Updated after all.
UpToDate(m) ==
    /\ Decide(m)
    /\ snapshot[m] # None /\ release[m] <= snapshot[m]
    /\ Goes(m, "idle")
    /\ rolledBack' = [rolledBack EXCEPT ![m] = None]

\* It took the file, the grace is over, and it still runs the old version.
Conclude(m) ==
    /\ Decide(m)
    /\ Due(m) /\ ~Settling(m) /\ delivered[m] = release[m]
    /\ Goes(m, "idle")
    /\ rolledBack' = [rolledBack EXCEPT ![m] = release[m]]

PushAgain(m) ==
    /\ Decide(m)
    /\ Due(m) /\ ~Settling(m)
    /\ Goes(m, "send")
    /\ UNCHANGED rolledBack

Push(m) ==
    /\ Decide(m)
    /\ Due(m) /\ ~Settling(m) /\ delivered[m] # release[m]
    /\ Goes(m, "send")
    /\ UNCHANGED rolledBack

-----------------------------------------------------------------------------
(* push_host                                                                 *)

\* push_host returns, and its own variables are gone.
Ends(m) ==
    /\ Goes(m, "idle")
    /\ attempt' = [attempt EXCEPT ![m] = 1]
    /\ transient' = [transient EXCEPT ![m] = FALSE]

Delivered(m) ==
    /\ pushed' = [pushed EXCEPT ![m] = release[m]]
    /\ delivered' = [delivered EXCEPT ![m] = release[m]]
    /\ Ends(m)
    /\ UNCHANGED rolledBack

NotSentYetDelivered(m) ==
    /\ pushed' = [pushed EXCEPT ![m] = release[m]]
    /\ delivered' = [delivered EXCEPT ![m] = release[m]]
    /\ Ends(m)
    /\ UNCHANGED rolledBack

NotSent(m) ==
    /\ pushed' = [pushed EXCEPT ![m] = release[m]]
    /\ Ends(m)
    /\ UNCHANGED <<delivered, rolledBack>>

\* An error of send_host: on the first attempt only one that may have hidden
\* an answer makes the Mac ask what the PC runs.
Failed(m, isTransient) ==
    IF attempt[m] > 1 \/ isTransient
    THEN /\ Goes(m, "ask")
         /\ transient' = [transient EXCEPT ![m] = isTransient]
         /\ UNCHANGED <<attempt, stateVars>>
    ELSE NotSent(m)

Send(m) ==
    /\ at[m] = "send"
    /\ Arrive(m, release[m])
    /\ Goes(m, "wait")
    /\ UNCHANGED <<release, seen, snapshot, attempt, transient, stateVars, told>>

\* The release cannot be downloaded, nobody listens, or the connection breaks
\* before the upload is in.
SendFails(m) ==
    /\ at[m] = "send"
    /\ \/ Lossy /\ attempt[m] = 1 /\ NotSent(m)
       \/ PortFree /\ Failed(m, FALSE)
       \/ Lossy /\ Failed(m, TRUE)
    /\ UNCHANGED <<vars, release, seen, snapshot, told>>

\* The answer, once, unless the connection breaks before it is in.
Hear(m) ==
    /\ at[m] = "wait" /\ reply[m] # "none"
    /\ \/ /\ reply[m] = "ok" /\ Delivered(m)
          /\ told' = [told EXCEPT ![m] = @ \cup {release[m]}]
       \/ /\ reply[m] = "refused" /\ Failed(m, FALSE)
          /\ UNCHANGED told
       \/ /\ reply[m] = "dropped" \/ Lossy
          /\ Failed(m, TRUE) /\ UNCHANGED told
    /\ reply' = [reply EXCEPT ![m] = "none"]
    /\ UNCHANGED <<files, proc, installing, apply, handler, panelVars, history,
                   release, seen, snapshot>>

\* runs_at_least
AskRuns(m) ==
    /\ at[m] = "ask"
    /\ \E v \in Running : v >= release[m]
    /\ Delivered(m)
    /\ UNCHANGED <<vars, release, seen, snapshot, told>>

AskOlder(m) ==
    /\ at[m] = "ask"
    /\ ~ \E v \in Running : v >= release[m]
    /\ IF attempt[m] = MaxAttempts \/ ~transient[m]
       THEN NotSent(m)
       ELSE /\ attempt' = [attempt EXCEPT ![m] = @ + 1]
            /\ Goes(m, "send")
            /\ transient' = [transient EXCEPT ![m] = FALSE]
            /\ UNCHANGED stateVars
    /\ UNCHANGED <<vars, release, seen, snapshot, told>>

-----------------------------------------------------------------------------

\* The version an update thread is about to put in, or to take out again.
Swapping(p) ==
    IF apply[p].pc \in {"delay", "movein", "putback", "restore"} THEN {new}
    ELSE IF apply[p].pc \in {"spawn", "aside"} THEN {exe} ELSE {}

\* A step of the PC.  A thread that ends otherwise than in its grace period has
\* given up, or was ended with its process.
OnPc ==
    /\ Pc
    /\ failed' = failed \cup UNION {Swapping(p) : p \in {q \in Procs : apply'[q].pc = "none"}}
    /\ UNCHANGED macVars

Updater(m) == Look(m) \/ Pass(m) \/ UpToDate(m) \/ Conclude(m) \/ Push(m)
              \/ Send(m) \/ SendFails(m) \/ Hear(m) \/ AskRuns(m) \/ AskOlder(m)

PushNext ==
    \/ OnPc
    \/ /\ \E m \in Macs : Updater(m) \/ Released(m) \/ Probe(m) \/ GraceEnds(m)
       /\ UNCHANGED failed

PushSpec == PushInit /\ [][PushNext]_allVars

\* The updater and discovery go round, time passes, a stream to the PC ends
\* now and then, and some upload gets through.
PushFairSpec ==
    /\ PushSpec /\ Fairness
    /\ \A m \in Macs :
        /\ WF_macVars(Updater(m)) /\ WF_macVars(Probe(m)) /\ WF_macVars(GraceEnds(m))
        /\ SF_macVars(UpToDate(m)) /\ SF_macVars(Conclude(m)) /\ SF_macVars(Push(m))
        /\ SF_macVars(Send(m)) /\ SF_vars(Stage(m))

-----------------------------------------------------------------------------

\* A file the PC said it took, and has undone, is not sent to it again by the
\* same Mac (update.rs:60), whatever discovery saw and however often the
\* connection breaks.
NotResent ==
    [][\A m \in Macs : at[m] = "send" /\ at'[m] = "wait" =>
            release[m] \notin undone \cap told[m]]_allVars

\* A PC is shown as having rolled a version back (update.rs:248) when none of
\* its swaps to that version has failed, on a file in use or on an executable
\* that died, or when it runs that version by now.
Mistaken(m) ==
    /\ rolledBack[m] # None
    /\ rolledBack[m] \notin failed \/ \E v \in Running : v >= rolledBack[m]

\* Such a mistake, made of a late scan or a slow restart, is not shown for good:
\* a later look at the PC clears it, or the swap to that version fails after
\* all.  (A mark that a failed swap has earned stays, by design.)
MistakeClears == \A m \in Macs : Mistaken(m) ~> ~Mistaken(m)

\* A release that runs gets to the PC, or a newer one is out, unless a swap to
\* it has failed on the PC: that one is not tried again.
CatchesUp ==
    \A m \in Macs, v \in Versions \ (Broken \cup {First}) :
        release[m] = v ~> release[m] # v \/ (\E w \in Running : w >= v) \/ v \in failed

=============================================================================
