------------------------------ MODULE MacProofs ------------------------------
(***************************************************************************)
(* Proofs about connecting and the other parts of the Mac that MacParts    *)
(* puts into one run, each for any bounds.  A part other than ConnectFlow  *)
(* is an instance of its module in MacParts; what is proved of it first is *)
(* about that instance alone, and the last section puts them together.     *)
(*                                                                         *)
(* ConnectFlow comes first, for any number of connections: what the        *)
(* window, the connect workers and the updater may count on without ever   *)
(* holding both locks from one decision to the next.  The code never says  *)
(* that an attempt is at work; it says which step the window shows.        *)
(* ConnectInv states why that is enough: as long as a worker is            *)
(* attempting, its generation is the current one and the step shown is an  *)
(* active one, so that nobody else begins.                                 *)
(***************************************************************************)
EXTENDS MacParts, Integers, FiniteSets, FiniteSetTheorems, SequenceTheorems, TLAPS

\* The worker may still start a session.
Early == {"wake", "waking", "port", "waiting", "check", "pair", "checkLaunch",
          "launching", "launch", "checkStart", "start"}

\* An attempt that was not begun has neither a worker nor a session.
FreshInv ==
    \A g \in Attempts :
        g > progress.generation => worker[g] = "none" /\ phase[g] = "new"

\* A worker that may start a session has not started one.
EarlyInv == \A g \in Attempts : worker[g] \in Early => phase[g] = "new"

\* An attempt at work is the current one and is shown at work.
ShownInv ==
    \A g \in Attempts :
        Attempting(g) => g = progress.generation /\ progress.step \notin Quiet

\* A session the window holds was handed over, by the current attempt.
HandedInv ==
    live # None => live = progress.generation /\ ~Attempting(live)

\* poll_live decides about the Live it found.
PolledInv == ui = "polled" => live # None

\* Between two frames nothing begins behind an inactive copy of progress.
PageInv ==
    ui \in {"home", "page"} /\ ~snapshot.active =>
        live = None /\ \A g \in Attempts : ~Attempting(g)

\* All that the steps of one thread rely on in what the others have done.
ConnectInv == TypeOK /\ FreshInv /\ EarlyInv /\ ShownInv /\ HandedInv
              /\ PolledInv /\ PageInv /\ UpdateAlone /\ NoOrphan

-----------------------------------------------------------------------------
(* The properties that ConnectInv gives at once, and how it begins.          *)

LEMMA InvGives == ConnectInv => OneAttempt /\ LiveIsCurrent
BY DEF ConnectInv, ShownInv, HandedInv, OneAttempt, LiveIsCurrent

LEMMA InitInv == Init => ConnectInv
<1> SUFFICES ASSUME Init PROVE ConnectInv
    OBVIOUS
<1> USE ConnectAssumption DEF Init, NoProgress, NoSnapshot, None
<1>1. TypeOK
  <2>1. events \in [Attempts -> Seq({"Connected", "Failed", "Lost", "Closed"})]
    OBVIOUS
  <2>2. progress \in [step: Steps, cancel: BOOLEAN, updating: BOOLEAN,
                      generation: 0..MaxConnects]
    BY DEF Steps, Quiet
  <2>3. snapshot \in [active: BOOLEAN, updating: BOOLEAN, step: Steps]
    BY DEF Steps, Quiet
  <2>4. QED
    BY <2>1, <2>2, <2>3 DEF TypeOK, WorkerSteps, Life!Phases
<1>2. QED
  BY <1>1 DEF ConnectInv, FreshInv, EarlyInv, ShownInv, HandedInv, PolledInv,
              PageInv, UpdateAlone, NoOrphan, Attempting, Early

-----------------------------------------------------------------------------
(* The connect worker.                                                       *)

\* A step of a worker that has not started its session changes, of what
\* ConnectInv is about, where that worker is and at most the step shown.
LEMMA EarlyMoves ==
    ASSUME ConnectInv, NEW g \in Attempts, worker[g] \in Early,
           NEW to \in Early \cup {"bail"}, Goto(g, to),
           NEW step \in Steps \ Quiet,
           Show(step) \/ UNCHANGED progress,
           UNCHANGED <<live, sessionVars, uiVars, updater>>
    PROVE  ConnectInv'
<1> USE DEF ConnectInv, TypeOK, Goto, Show, sessionVars, uiVars
<1>1. TypeOK'
  <2>1. progress' \in [step: Steps, cancel: BOOLEAN, updating: BOOLEAN,
                       generation: 0..MaxConnects]
    OBVIOUS
  <2>2. worker' \in [Attempts -> WorkerSteps]
    BY DEF Early, WorkerSteps
  <2>3. QED
    BY <2>1, <2>2
<1>2. Attempting(g)
  BY DEF Attempting, Early
<1>3. \A h \in Attempts : Attempting(h)' => Attempting(h)
  BY <1>2 DEF Attempting
<1>4. progress'.generation = progress.generation /\ progress'.updating = progress.updating
      /\ (progress.step \notin Quiet => progress'.step \notin Quiet)
  OBVIOUS
<1>5. FreshInv' /\ EarlyInv'
  BY <1>2, <1>4, ConnectAssumption DEF FreshInv, EarlyInv, ShownInv, Attempts
<1>6. ShownInv' /\ HandedInv' /\ PolledInv' /\ PageInv' /\ UpdateAlone'
  BY <1>3, <1>4 DEF ShownInv, HandedInv, PolledInv, PageInv, UpdateAlone, Attempts, None
<1>7. NoOrphan'
  BY DEF NoOrphan, EarlyInv, Early
<1>8. QED
  BY <1>1, <1>5, <1>6, <1>7

LEMMA EarlySteps ==
    ASSUME ConnectInv, NEW g \in Attempts,
           \/ WakeCheck(g) \/ Wake(g) \/ PortCheck(g) \/ PortWait(g) \/ PortOpen(g)
           \/ CheckPairing(g) \/ Pair(g) \/ LaunchCheck(g) \/ MeasurePath(g)
           \/ Launch(g) \/ StartCheck(g)
    PROVE  ConnectInv'
<1>1. ASSUME WakeCheck(g) \/ PortCheck(g) \/ LaunchCheck(g) \/ StartCheck(g)
      PROVE  worker[g] \in Early /\ UNCHANGED progress
             /\ \E to \in Early \cup {"bail"} : Goto(g, to)
  BY <1>1 DEF WakeCheck, PortCheck, LaunchCheck, StartCheck, Check, Early
<1>2. ASSUME PortOpen(g) \/ Launch(g)
      PROVE  worker[g] \in Early /\ UNCHANGED progress
             /\ \E to \in Early \cup {"bail"} : Goto(g, to)
  BY <1>2 DEF PortOpen, Launch, Work, Early
<1>3. ASSUME Wake(g) \/ PortWait(g) \/ CheckPairing(g) \/ Pair(g) \/ MeasurePath(g)
      PROVE  /\ worker[g] \in Early
             /\ \E step \in Steps \ Quiet : Show(step)
             /\ \E to \in Early \cup {"bail"} : Goto(g, to)
  <2>1. PICK at \in Early, step \in Steps \ Quiet, outcomes \in SUBSET (Early \cup {"bail"}) :
            Report(g, at, step, outcomes)
    BY <1>3 DEF Wake, PortWait, CheckPairing, Pair, MeasurePath, Early, Steps, Quiet
  <2>2. QED
    BY <2>1 DEF Report
<1>4. /\ worker[g] \in Early
      /\ \E step \in Steps \ Quiet : Show(step) \/ UNCHANGED progress
      /\ \E to \in Early \cup {"bail"} : Goto(g, to)
  <2>1. "Waking" \in Steps \ Quiet
    BY DEF Steps, Quiet
  <2>2. QED
    BY <1>1, <1>2, <1>3, <2>1
<1>5. UNCHANGED <<live, sessionVars, uiVars, updater>>
  BY DEF WakeCheck, Wake, PortCheck, PortWait, PortOpen, CheckPairing, Pair, LaunchCheck,
         MeasurePath, Launch, StartCheck, Check, Report, Work
<1>6. QED
  BY <1>4, <1>5, EarlyMoves

\* From the start of its session on, a worker keeps its generation for itself
\* until it has handed the session over or dropped it.
LEMMA HandoverSteps ==
    ASSUME ConnectInv, NEW g \in Attempts,
           StartSession(g) \/ LiveCheck(g) \/ Publish(g) \/ Bail(g) \/ ReportConnecting(g)
    PROVE  ConnectInv'
<1> USE DEF ConnectInv, TypeOK, Goto, sessionVars, uiVars
<1>1. CASE StartSession(g)
  <2> USE <1>1 DEF StartSession, Life!Start, Life!Move
  <2>1. TypeOK'
    BY DEF WorkerSteps, Life!Phases
  <2>2. \A h \in Attempts : Attempting(h)' => Attempting(h)
    BY DEF Attempting
  <2>3. FreshInv' /\ EarlyInv'
    BY <2>2 DEF FreshInv, EarlyInv, Early
  <2>4. ShownInv' /\ HandedInv' /\ PolledInv' /\ PageInv' /\ UpdateAlone'
    BY <2>2 DEF ShownInv, HandedInv, PolledInv, PageInv, UpdateAlone, Attempts, None
  <2>5. NoOrphan'
    BY DEF NoOrphan
  <2>6. QED
    BY <2>1, <2>3, <2>4, <2>5
<1>2. CASE LiveCheck(g)
  <2> USE <1>2 DEF LiveCheck
  <2>1. TypeOK'
    BY SMTT(40), ZenonT(60) DEF WorkerSteps
  <2>2. \A h \in Attempts : Attempting(h)' => Attempting(h)
    BY DEF Attempting
  <2>3. FreshInv' /\ EarlyInv'
    BY <2>2 DEF FreshInv, EarlyInv, Early
  <2>4. ShownInv' /\ HandedInv' /\ PolledInv' /\ PageInv' /\ UpdateAlone'
    BY <2>2 DEF ShownInv, HandedInv, PolledInv, PageInv, UpdateAlone, Attempts, None
  <2>5. NoOrphan'
    BY DEF NoOrphan
  <2>6. QED
    BY <2>1, <2>3, <2>4, <2>5
<1>3. CASE Publish(g)
  <2> USE <1>3 DEF Publish
  <2>1. TypeOK'
    BY ConnectAssumption DEF WorkerSteps, Attempts
  <2>2. Attempting(g) /\ ~Attempting(g)' /\ \A h \in Attempts : Attempting(h)' => Attempting(h)
    BY DEF Attempting
  <2>3. live = None /\ g = progress.generation /\ progress.step \notin Quiet
        /\ ~progress.updating
    BY <2>2 DEF ShownInv, HandedInv, UpdateAlone
  <2>4. FreshInv' /\ EarlyInv'
    BY <2>2, <2>3 DEF FreshInv, EarlyInv, Early
  <2>5. ShownInv' /\ HandedInv' /\ PolledInv' /\ PageInv' /\ UpdateAlone'
    BY <2>2, <2>3 DEF ShownInv, HandedInv, PolledInv, PageInv, UpdateAlone, Attempts, None,
                      LocksFree
  <2>6. NoOrphan'
    BY <2>3 DEF NoOrphan, Attempts, None
  <2>7. QED
    BY <2>1, <2>4, <2>5, <2>6
<1>4. CASE Bail(g)
  <2> USE <1>4 DEF Bail, Show
  <2>1. TypeOK'
    <3>1. progress' \in [step: Steps, cancel: BOOLEAN, updating: BOOLEAN,
                         generation: 0..MaxConnects]
      BY DEF Steps, Quiet
    <3>2. QED
      BY <3>1 DEF WorkerSteps
  <2>2. Attempting(g) /\ ~Attempting(g)' /\ \A h \in Attempts : Attempting(h)' => Attempting(h)
    BY DEF Attempting
  <2>3. g = progress.generation /\ progress'.generation = progress.generation
        /\ progress'.updating = progress.updating
    BY <2>2 DEF ShownInv
  <2>4. \A h \in Attempts : ~Attempting(h)'
    BY <2>2, <2>3 DEF ShownInv
  <2>5. FreshInv' /\ EarlyInv'
    BY <2>2, <2>3 DEF FreshInv, EarlyInv, Early, Attempts
  <2>6. ShownInv' /\ HandedInv' /\ PolledInv' /\ PageInv' /\ UpdateAlone'
    BY <2>3, <2>4 DEF ShownInv, HandedInv, PolledInv, PageInv, UpdateAlone, Attempts, None
  <2>7. NoOrphan'
    BY DEF NoOrphan
  <2>8. QED
    BY <2>1, <2>5, <2>6, <2>7
<1>5. CASE ReportConnecting(g)
  <2> USE <1>5 DEF ReportConnecting, Report, Show
  <2>1. TypeOK'
    <3>1. progress' \in [step: Steps, cancel: BOOLEAN, updating: BOOLEAN,
                         generation: 0..MaxConnects]
      BY DEF Steps
    <3>2. QED
      BY <3>1 DEF WorkerSteps
  <2>2. \A h \in Attempts : Attempting(h)' => Attempting(h)
    BY DEF Attempting
  <2>3. progress'.generation = progress.generation /\ progress'.updating = progress.updating
        /\ progress'.step \notin Quiet
    BY DEF Quiet
  <2>4. FreshInv' /\ EarlyInv'
    BY <2>2, <2>3 DEF FreshInv, EarlyInv, Early, Attempts
  <2>5. ShownInv' /\ HandedInv' /\ PolledInv' /\ PageInv' /\ UpdateAlone'
    BY <2>2, <2>3 DEF ShownInv, HandedInv, PolledInv, PageInv, UpdateAlone, Attempts, None
  <2>6. NoOrphan'
    BY DEF NoOrphan
  <2>7. QED
    BY <2>1, <2>4, <2>5, <2>6
<1>6. QED
  BY <1>1, <1>2, <1>3, <1>4, <1>5

-----------------------------------------------------------------------------
(* The sessions.                                                             *)

Kinds == {"Connected", "Failed", "Lost", "Closed"}
Unstopped == {"queued", "opening", "up"}

\* Sessions that live on, are told to stop or say what happened to them.
LEMMA SessionMoves ==
    ASSUME ConnectInv,
           UNCHANGED <<progress, live, worker, snapshot, reconnect, updater>>,
           phase' \in [Attempts -> Life!Phases], done' \in [Attempts -> BOOLEAN],
           raised' \in [Attempts -> BOOLEAN], events' \in [Attempts -> Seq(Kinds)],
           \A g \in Attempts : phase[g] = "new" => phase'[g] = "new",
           \A g \in Attempts : done[g] => done'[g],
           \A g \in Attempts : phase'[g] \in Unstopped => phase[g] \in Unstopped,
           ui' = ui \/ ui' = "poll"
    PROVE  ConnectInv'
<1> USE DEF ConnectInv, TypeOK, Kinds, Unstopped
<1>1. TypeOK'
  OBVIOUS
<1>2. \A h \in Attempts : Attempting(h)' <=> Attempting(h)
  BY DEF Attempting
<1>3. FreshInv' /\ EarlyInv'
  BY DEF FreshInv, EarlyInv
<1>4. ShownInv' /\ HandedInv' /\ PolledInv' /\ PageInv' /\ UpdateAlone'
  BY <1>2 DEF ShownInv, HandedInv, PolledInv, PageInv, UpdateAlone, Attempts, None
<1>5. NoOrphan'
  BY DEF NoOrphan
<1>6. QED
  BY <1>1, <1>3, <1>4, <1>5

LEMMA SessionSteps ==
    ASSUME ConnectInv, NEW g \in Attempts,
           \/ SessionStep(g) \/ Verdict(g)
           \/ \E kind \in {"Lost", "Closed"} : SessionTerminates(g, kind)
    PROVE  ConnectInv'
<1> USE DEF elsewhere, uiVars
<1>1. TypeOK
  BY DEF ConnectInv
<1>2. \A kind \in Kinds : Emit(g, kind) => events' \in [Attempts -> Seq(Kinds)]
  BY <1>1 DEF TypeOK, Emit, Kinds
<1>3. ASSUME SessionOpens(g) \/ SessionCloses(g) \/ SessionEnds(g) \/ SessionRefused(g)
      PROVE  ConnectInv'
  <2>1. /\ phase[g] # "new" /\ (phase[g] \in Unstopped \/ phase[g] = "closing")
        /\ \E to \in Life!Phases \ {"new"} :
             /\ phase' = [phase EXCEPT ![g] = to]
             /\ to \in Unstopped => phase[g] \in Unstopped
    BY <1>3 DEF SessionOpens, SessionCloses, SessionEnds, SessionRefused, Life!Skip, Life!Open,
                Life!Close, Life!End, Life!Fail, Life!Move, Life!Phases, Unstopped
  <2>2. UNCHANGED <<done, raised, events, elsewhere>>
    BY <1>3 DEF SessionOpens, SessionCloses, SessionEnds, SessionRefused
  <2>3. /\ phase' \in [Attempts -> Life!Phases]
        /\ \A h \in Attempts : phase[h] = "new" => phase'[h] = "new"
        /\ \A h \in Attempts : phase'[h] \in Unstopped => phase[h] \in Unstopped
    BY <1>1, <2>1 DEF TypeOK
  <2>4. events' \in [Attempts -> Seq(Kinds)]
    BY <1>1, <2>2 DEF TypeOK, Kinds
  <2>5. QED
    BY <1>1, <2>2, <2>3, <2>4, SessionMoves DEF TypeOK
<1>4. CASE SessionOpened(g)
  <2>1. /\ phase' \in [Attempts -> Life!Phases]
        /\ \A h \in Attempts : phase[h] = "new" => phase'[h] = "new"
        /\ \A h \in Attempts : phase'[h] \in Unstopped => phase[h] \in Unstopped
    BY <1>1, <1>4 DEF TypeOK, SessionOpened, Life!Opened, Life!Move, Life!Phases, Unstopped
  <2>2. events' \in [Attempts -> Seq(Kinds)]
    BY <1>2, <1>4 DEF SessionOpened, Kinds
  <2>3. QED
    BY <1>1, <1>4, <2>1, <2>2, SessionMoves DEF TypeOK, SessionOpened
<1>5. CASE SessionFails(g)
  <2>1. /\ phase' \in [Attempts -> Life!Phases]
        /\ \A h \in Attempts : phase[h] = "new" => phase'[h] = "new"
        /\ \A h \in Attempts : phase'[h] \in Unstopped => phase[h] \in Unstopped
    BY <1>1, <1>5 DEF TypeOK, SessionFails, Life!Fail, Life!Move, Life!Phases, Unstopped
  <2>2. events' \in [Attempts -> Seq(Kinds)]
    BY <1>2, <1>5 DEF SessionFails, Kinds
  <2>3. done' \in [Attempts -> BOOLEAN] /\ \A h \in Attempts : done[h] => done'[h]
    BY <1>1, <1>5 DEF TypeOK, SessionFails
  <2>4. QED
    BY <1>1, <1>5, <2>1, <2>2, <2>3, SessionMoves DEF TypeOK, SessionFails
<1>6. ASSUME NEW kind \in {"Lost", "Closed"}, SessionTerminates(g, kind)
      PROVE  ConnectInv'
  <2>1. /\ phase' \in [Attempts -> Life!Phases]
        /\ \A h \in Attempts : phase[h] = "new" => phase'[h] = "new"
        /\ \A h \in Attempts : phase'[h] \in Unstopped => phase[h] \in Unstopped
    BY <1>1, <1>6 DEF TypeOK, SessionTerminates, Life!Close, Life!Move, Life!Phases, Unstopped
  <2>2. events' \in [Attempts -> Seq(Kinds)]
    BY <1>2, <1>6 DEF SessionTerminates, Kinds
  <2>3. /\ done' \in [Attempts -> BOOLEAN] /\ raised' \in [Attempts -> BOOLEAN]
        /\ \A h \in Attempts : done[h] => done'[h]
    BY <1>1, <1>6 DEF TypeOK, SessionTerminates
  <2>4. QED
    BY <1>1, <1>6, <2>1, <2>2, <2>3, SessionMoves DEF TypeOK, SessionTerminates
<1>7. QED
  BY <1>3, <1>4, <1>5, <1>6 DEF SessionStep, Verdict

-----------------------------------------------------------------------------
(* The window.                                                               *)

\* Only a frame that finds nothing active goes on as if nothing were.
LEMMA IdleMeansNone ==
    ASSUME ConnectInv, ~IsActive(progress)
    PROVE  \A g \in Attempts : ~Attempting(g)
BY DEF ConnectInv, ShownInv, IsActive

\* A frame that goes on without a change of what the threads share.
LEMMA WindowMoves ==
    ASSUME ConnectInv, UNCHANGED <<live, worker, sessionVars, updater>>,
           snapshot' = snapshot, reconnect' \in BOOLEAN,
           \/ UNCHANGED progress
           \/ \E flag \in BOOLEAN : progress' = [progress EXCEPT !.cancel = flag]
           \/ /\ \A g \in Attempts : ~Attempting(g)
              /\ \E step \in Steps : Show(step),
           \/ ui' \in {"poll", "look", "stop", "view"}
           \/ ui = "home" /\ ui' = "page"
    PROVE  ConnectInv'
<1> USE DEF ConnectInv, TypeOK, sessionVars
<1>1. TypeOK'
  <2>1. progress' \in [step: Steps, cancel: BOOLEAN, updating: BOOLEAN,
                       generation: 0..MaxConnects]
    BY DEF Show
  <2>2. QED
    BY <2>1
<1>2. \A h \in Attempts : Attempting(h)' <=> Attempting(h)
  BY DEF Attempting
<1>3. /\ progress'.generation = progress.generation /\ progress'.updating = progress.updating
      /\ (\E g \in Attempts : Attempting(g)) => progress'.step = progress.step
  BY DEF Show
<1>4. FreshInv' /\ EarlyInv'
  BY <1>3 DEF FreshInv, EarlyInv
<1>5. ShownInv' /\ HandedInv' /\ UpdateAlone'
  BY <1>2, <1>3 DEF ShownInv, HandedInv, UpdateAlone, Attempts, None
<1>6. PolledInv' /\ PageInv'
  BY <1>2 DEF PolledInv, PageInv
<1>7. NoOrphan'
  BY DEF NoOrphan
<1>8. QED
  BY <1>1, <1>4, <1>5, <1>6, <1>7

LEMMA PollSteps ==
    ASSUME ConnectInv, PollEvents \/ PollFinished
    PROVE  ConnectInv'
<1> USE DEF ConnectInv, TypeOK
<1>1. /\ live \in Attempts /\ live # None /\ live = progress.generation
      /\ \A g \in Attempts : ~Attempting(g)
  BY ConnectAssumption DEF PollEvents, PollFinished, PolledInv, HandedInv, ShownInv, Attempts,
                           None
<1>2. \A h \in Attempts : Attempting(h)' <=> Attempting(h)
  BY DEF Attempting, PollEvents, PollFinished
<1>3. /\ progress' \in [step: Steps, cancel: BOOLEAN, updating: BOOLEAN,
                        generation: 0..MaxConnects]
      /\ progress'.generation = progress.generation /\ progress'.updating = progress.updating
  <2>1. CASE PollEvents
    <3>1. events[live] # <<>> => events[live][Len(events[live])] \in Kinds
      BY <1>1 DEF Kinds
    <3>2. \A event \in Kinds : After(event) \in Steps
      BY DEF After, Steps, Quiet, Kinds
    <3>3. QED
      BY <2>1, <3>1, <3>2 DEF PollEvents, Show
  <2>2. CASE PollFinished
    BY <2>2, SMTT(40), ZenonT(60) DEF PollFinished, Show, Steps, Quiet
  <2>3. QED
    BY <2>1, <2>2
<1>4. TypeOK'
  <2>1. CASE PollEvents
    <3>1. events' \in [Attempts -> Seq(Kinds)]
      BY <1>1, <2>1 DEF PollEvents, Kinds
    <3>2. QED
      BY <1>3, <2>1, <3>1 DEF PollEvents, Kinds
  <2>2. CASE PollFinished
    <3>1. live' \in 0..MaxConnects /\ done' \in [Attempts -> BOOLEAN]
      BY <1>1, <2>2, ConnectAssumption DEF PollFinished, None
    <3>2. QED
      BY <1>3, <2>2, <3>1 DEF PollFinished
  <2>3. QED
    BY <2>1, <2>2
<1>5. FreshInv' /\ EarlyInv'
  BY <1>3 DEF FreshInv, EarlyInv, PollEvents, PollFinished
<1>6. ShownInv' /\ HandedInv' /\ PolledInv' /\ PageInv' /\ UpdateAlone'
  BY <1>1, <1>2, <1>3 DEF ShownInv, HandedInv, PolledInv, PageInv, UpdateAlone, PollEvents,
                          PollFinished, Finished, Attempts, None
<1>7. NoOrphan'
  BY <1>1 DEF NoOrphan, PollEvents, PollFinished, Finished
<1>8. QED
  BY <1>4, <1>5, <1>6, <1>7

\* Connect begins an attempt that nobody began before, and only when nothing
\* else is at work.
LEMMA ConnectBegins ==
    ASSUME ConnectInv, Connect, live = None,
           UNCHANGED <<live, sessionVars, snapshot, updater>>, reconnect' \in BOOLEAN
    PROVE  ConnectInv'
<1> DEFINE g == progress.generation + 1
<1> USE DEF Connect
<1>1. CASE IsActive(progress)
  BY <1>1, WindowMoves
<1>2. CASE ~IsActive(progress)
  <2> USE <1>2, IdleMeansNone DEF ConnectInv, TypeOK, Goto, sessionVars
  <2>1. /\ g \in Attempts
        /\ progress' = [step |-> "Launching", cancel |-> FALSE, updating |-> FALSE,
                        generation |-> g]
        /\ \E first \in {"wake", "port"} : worker' = [worker EXCEPT ![g] = first]
        /\ worker[g] = "none" /\ phase[g] = "new"
    BY DEF FreshInv
  <2>2. TypeOK'
    <3>1. progress' \in [step: Steps, cancel: BOOLEAN, updating: BOOLEAN,
                         generation: 0..MaxConnects]
      BY <2>1, ConnectAssumption DEF Steps, Attempts
    <3>2. worker' \in [Attempts -> WorkerSteps]
      BY <2>1 DEF WorkerSteps
    <3>3. QED
      BY <3>1, <3>2
  <2>3. \A h \in Attempts : Attempting(h)' => h = g
    BY <2>1 DEF Attempting
  <2>4. FreshInv' /\ EarlyInv'
    <3>1. \A h \in Attempts : h > progress'.generation => h # g /\ h > progress.generation
      BY <2>1, ConnectAssumption DEF Attempts
    <3>2. FreshInv'
      BY <2>1, <3>1 DEF FreshInv
    <3>3. EarlyInv'
      BY <2>1 DEF EarlyInv, Early
    <3>4. QED
      BY <3>2, <3>3
  <2>5. ShownInv' /\ HandedInv' /\ PolledInv' /\ PageInv' /\ UpdateAlone'
    BY <2>1, <2>3 DEF ShownInv, HandedInv, PolledInv, PageInv, UpdateAlone, Quiet
  <2>6. NoOrphan'
    BY <2>1 DEF NoOrphan
  <2>7. QED
    BY <2>2, <2>4, <2>5, <2>6
<1>3. QED
  BY <1>1, <1>2

LEMMA FrameSteps ==
    ASSUME ConnectInv, Frame
    PROVE  ConnectInv'
<1>1. TypeOK /\ progress.cancel \in BOOLEAN /\ reconnect \in BOOLEAN
  BY DEF ConnectInv, TypeOK
<1>2. Cancel => \E flag \in BOOLEAN : progress' = [progress EXCEPT !.cancel = flag]
  BY <1>1 DEF Cancel
<1>3. CASE PollEvents \/ PollFinished
  BY <1>3, PollSteps
<1>4. CASE PollNothing \/ ViewNothing \/ HomePage \/ PageNothing
  BY <1>1, <1>4, WindowMoves DEF PollNothing, ViewNothing, HomePage, PageNothing
<1>5. CASE ViewDisconnect \/ ViewRestart \/ PageCancel
  <2>1. Cancel /\ ui' = "stop" /\ reconnect' \in BOOLEAN
        /\ UNCHANGED <<live, worker, sessionVars, snapshot, updater>>
    BY <1>1, <1>5 DEF ViewDisconnect, ViewRestart, PageCancel, Cancel
  <2>2. QED
    BY <1>2, <2>1, WindowMoves
<1>6. CASE Look
  <2> USE <1>6 DEF Look, ConnectInv, TypeOK, sessionVars
  <2>1. TypeOK'
    <3>1. snapshot' \in [active: BOOLEAN, updating: BOOLEAN, step: Steps]
      BY DEF IsActive
    <3>2. QED
      BY <3>1
  <2>2. \A h \in Attempts : Attempting(h)' <=> Attempting(h)
    BY DEF Attempting
  <2>3. FreshInv' /\ EarlyInv' /\ NoOrphan'
    BY DEF FreshInv, EarlyInv, NoOrphan
  <2>4. ShownInv' /\ HandedInv' /\ PolledInv' /\ UpdateAlone'
    BY <2>2 DEF ShownInv, HandedInv, PolledInv, UpdateAlone, Attempts, None
  <2>5. PageInv'
    BY <2>2, IdleMeansNone DEF PageInv
  <2>6. QED
    BY <2>1, <2>3, <2>4, <2>5
<1>7. CASE Stop
  <2>1. done' \in [Attempts -> BOOLEAN] /\ \A g \in Attempts : done[g] => done'[g]
    BY <1>1, <1>7 DEF Stop, TypeOK
  <2>2. events \in [Attempts -> Seq(Kinds)]
    BY <1>1 DEF TypeOK, Kinds
  <2>3. QED
    BY <1>1, <1>7, <2>1, <2>2, SessionMoves DEF Stop, TypeOK
<1>8. CASE HomeReconnect \/ PageConnect
  <2>1. live = None
    BY <1>8 DEF HomeReconnect, PageConnect, ConnectInv, PageInv
  <2>2. QED
    BY <1>1, <1>8, <2>1, ConnectBegins DEF HomeReconnect, PageConnect
<1>9. CASE PageCard
  <2>1. \A g \in Attempts : ~Attempting(g)
    BY <1>9 DEF PageCard, ConnectInv, PageInv
  <2>2. Show("Idle") /\ "Idle" \in Steps /\ reconnect' \in BOOLEAN
    BY <1>1, <1>9 DEF PageCard, Steps, Quiet
  <2>3. QED
    BY <1>9, <2>1, <2>2, WindowMoves DEF PageCard
<1>10. QED
  BY <1>3, <1>4, <1>5, <1>6, <1>7, <1>8, <1>9 DEF Frame

-----------------------------------------------------------------------------
(* The updater.                                                              *)

LEMMA UpdaterSteps ==
    ASSUME ConnectInv, Install \/ InstallFails \/ Relaunch
    PROVE  ConnectInv'
<1>1. ASSUME Install \/ InstallFails PROVE ConnectInv'
  <2> USE <1>1 DEF Install, InstallFails, ConnectInv, TypeOK, sessionVars, uiVars
  <2>1. /\ progress' \in [step: Steps, cancel: BOOLEAN, updating: BOOLEAN,
                          generation: 0..MaxConnects]
        /\ progress'.generation = progress.generation /\ progress'.step = progress.step
        /\ UNCHANGED <<live, worker, sessionVars, uiVars>>
        /\ progress'.updating => live = None /\ ~IsActive(progress)
    OBVIOUS
  <2>2. TypeOK'
    BY <2>1
  <2>3. \A h \in Attempts : Attempting(h)' <=> Attempting(h)
    BY <2>1 DEF Attempting
  <2>4. FreshInv' /\ EarlyInv' /\ NoOrphan'
    BY <2>1 DEF FreshInv, EarlyInv, NoOrphan
  <2>5. ShownInv' /\ HandedInv' /\ PolledInv' /\ PageInv'
    BY <2>1, <2>3 DEF ShownInv, HandedInv, PolledInv, PageInv, Attempts, None
  <2>6. UpdateAlone'
    BY <2>1, <2>3, IdleMeansNone DEF UpdateAlone
  <2>7. QED
    BY <2>2, <2>4, <2>5, <2>6
<1>2. CASE Relaunch
  <2> USE <1>2, ConnectAssumption DEF Relaunch, NoProgress, NoSnapshot, None
  <2>1. TypeOK'
    <3>1. events' \in [Attempts -> Seq({"Connected", "Failed", "Lost", "Closed"})]
      OBVIOUS
    <3>2. progress' \in [step: Steps, cancel: BOOLEAN, updating: BOOLEAN,
                         generation: 0..MaxConnects]
      BY DEF Steps, Quiet
    <3>3. snapshot' \in [active: BOOLEAN, updating: BOOLEAN, step: Steps]
      BY DEF Steps, Quiet
    <3>4. QED
      BY <3>1, <3>2, <3>3 DEF TypeOK, WorkerSteps, Life!Phases
  <2>2. QED
    BY <2>1 DEF ConnectInv, FreshInv, EarlyInv, ShownInv, HandedInv, PolledInv, PageInv,
                UpdateAlone, NoOrphan, Attempting, Early
<1>3. QED
  BY <1>1, <1>2

-----------------------------------------------------------------------------
(* ConnectInv is inductive, and what follows.                                *)

LEMMA NextInv == ConnectInv /\ [Next]_vars => ConnectInv'
<1> SUFFICES ASSUME ConnectInv, [Next]_vars PROVE ConnectInv'
    OBVIOUS
<1>1. ASSUME NEW g \in Attempts, WorkerStep(g) PROVE ConnectInv'
  BY <1>1, EarlySteps, HandoverSteps DEF WorkerStep
<1>2. ASSUME NEW g \in Attempts,
             \/ SessionStep(g) \/ Verdict(g)
             \/ \E kind \in {"Lost", "Closed"} : SessionTerminates(g, kind)
      PROVE  ConnectInv'
  BY <1>2, SessionSteps
<1>3. CASE Frame
  BY <1>3, FrameSteps
<1>4. CASE Install \/ InstallFails \/ Relaunch
  BY <1>4, UpdaterSteps
<1>5. CASE UNCHANGED vars
  BY <1>5 DEF vars, ConnectInv, TypeOK, FreshInv, EarlyInv, ShownInv, HandedInv, PolledInv,
              PageInv, UpdateAlone, NoOrphan, Attempting
<1>6. QED
  BY <1>1, <1>2, <1>3, <1>4, <1>5 DEF Next

\* What the threads share is what ConnectInv says, at any moment.
THEOREM ConnectIsOrdered == Spec => []ConnectInv
BY InitInv, NextInv, PTL DEF Spec

\* Every variable of the connect worker, the window and the updater keeps the
\* kind of value its Rust type has (session.rs, app.rs, update.rs).
THEOREM ConnectTypes == Spec => []TypeOK
<1>1. ConnectInv => TypeOK
  BY DEF ConnectInv
<1>2. QED
  BY <1>1, ConnectIsOrdered, PTL

\* An update replaces the app only while nothing is connected or connecting,
\* and nothing connects while it does (update.rs:164-175, session.rs connect).
THEOREM UpdatesAlone == Spec => []UpdateAlone
<1>1. ConnectInv => UpdateAlone
  BY DEF ConnectInv
<1>2. QED
  BY <1>1, ConnectIsOrdered, PTL

\* However often the user cancels, dismisses, retries or restarts, at most one
\* worker wakes, pairs and launches (session.rs connect and run).
THEOREM OneAttemptAtATime == Spec => []OneAttempt
BY InvGives, ConnectIsOrdered, PTL

\* A worker never hands its session to a later attempt (session.rs:20-21).
THEOREM LiveIsItsAttempts == Spec => []LiveIsCurrent
BY InvGives, ConnectIsOrdered, PTL

\* A session nobody has stopped is always within somebody's reach: the
\* window's, or that of the worker which will hand it over or drop it.
THEOREM NobodyIsOrphaned == Spec => []NoOrphan
<1>1. ConnectInv => NoOrphan
  BY DEF ConnectInv
<1>2. QED
  BY <1>1, ConnectIsOrdered, PTL
-----------------------------------------------------------------------------
\* Instances count with a FiniteSets of their own.
LEMMA SameCounting ==
  \A S : /\ HandOver!Cardinality(S) = Cardinality(S) /\ Cache!Cardinality(S) = Cardinality(S)
         /\ Cache!IsFiniteSet(S) <=> IsFiniteSet(S)
BY DEF HandOver!Cardinality, Cache!Cardinality, Cache!IsFiniteSet, Cardinality, IsFiniteSet

-----------------------------------------------------------------------------
(* The window.                                                             *)

\* ClientApp's variables.
window == v1
said == v2
USE DEF window, said

Fields == {"step", "cancel", "gen", "live", "up", "stop", "events", "streamed", "streamFailed",
           "full", "endedSeen", "offer", "confirm", "last", "reconnect", "restart", "asked",
           "asking", "help", "busy", "display", "started", "running", "hdr", "pending",
           "full_slots", "notice"}

\* What holds of the window before and after every piece of a frame.
Counts(s) ==
  /\ s.gen \in 0..MaxStreams /\ s.started \in 0..MaxJobs
  /\ s.pending \in 0..s.started /\ s.notice \in 0..s.started
  /\ s.running \subseteq 1..s.started /\ s.full_slots \subseteq 1..s.started
  /\ s.asking \subseteq Window!Streams

Names(s) ==
  /\ s.step \in Window!Steps /\ s.help \in Window!Helps
  /\ s.live \in {"none", "starting", "up", "ending", "finished"}
  /\ s.display \in {"same", "changed", "seen", "kept"}
  /\ s.up = (s.live = "up")

\* What the stream has said and the window has not taken.
Untaken(s) ==
  /\ s.events \in Seq(Window!Kinds) /\ Len(s.events) <= 2
  /\ s.live \in {"none", "starting"} => Len(s.events) = 0
  /\ s.live = "up" => Len(s.events) <= 1

Right(s) ==
  /\ s.cancel => s.step # "failed"
  /\ s.busy => \E j \in s.hdr : j \in s.running
  /\ s.restart => s.reconnect
  /\ s.live = "none" => ~s.full
  /\ s.live # "none" \/ s.step = "working" => s.last /\ s.gen >= 1

Sound(s) == DOMAIN s = Fields /\ Counts(s) /\ Names(s) /\ Untaken(s) /\ Right(s)

AppInv == Sound(window) /\ said \in {"nothing", "connect", "again", "leave"}

LEMMA EmptyEvents == <<>> \in Seq(Window!Kinds) /\ Len(<<>>) = 0
OBVIOUS

LEMMA AppInit == Window!AppAssumption /\ Window!Init => AppInv
<1>1. SUFFICES ASSUME Window!AppAssumption, Window!Init PROVE AppInv
  OBVIOUS
<1>2. DOMAIN window = Fields
  BY <1>1 DEF Window!Init, Fields
<1>3. Counts(window)
  BY <1>1 DEF Window!Init, Window!AppAssumption, Counts
<1>4. Names(window)
  BY <1>1 DEF Window!Init, Names, Window!Steps, Window!Helps
<1>5. Untaken(window)
  BY <1>1, EmptyEvents DEF Window!Init, Untaken
<1>6. Right(window)
  BY <1>1 DEF Window!Init, Right
<1>7. QED
  BY <1>1, <1>2, <1>3, <1>4, <1>5, <1>6 DEF Window!Init, AppInv, Sound

-----------------------------------------------------------------------------
(* The pieces of a frame.                                                  *)

LEMMA DisconnectSound ==
  ASSUME NEW s, Sound(s)
  PROVE  /\ Sound(Window!Disconnect(s))
         /\ Window!Disconnect(s).live = s.live /\ Window!Disconnect(s).started = s.started
         /\ Window!Disconnect(s).gen = s.gen
<1> DEFINE d == Window!Disconnect(s)
<1>0. /\ DOMAIN s = Fields /\ Counts(s) /\ Names(s) /\ Untaken(s) /\ Right(s)
  BY DEF Sound
<1>1. /\ DOMAIN d = Fields /\ d.cancel = (s.cancel \/ Window!Active(s))
      /\ \A x \in Fields \ {"cancel", "stop"} : d[x] = s[x]
  BY <1>0 DEF Window!Disconnect, Fields
<1> HIDE DEF d
<1>2. /\ d.step = s.step /\ d.gen = s.gen /\ d.live = s.live /\ d.up = s.up /\ d.events = s.events
      /\ d.full = s.full /\ d.last = s.last /\ d.reconnect = s.reconnect /\ d.restart = s.restart
      /\ d.asking = s.asking /\ d.help = s.help /\ d.busy = s.busy /\ d.display = s.display
      /\ d.started = s.started /\ d.running = s.running /\ d.hdr = s.hdr /\ d.pending = s.pending
      /\ d.full_slots = s.full_slots /\ d.notice = s.notice
  BY <1>1 DEF Fields
<1>3. Counts(d)
  BY <1>0, <1>2 DEF Counts
<1>4. Names(d) /\ Untaken(d)
  BY <1>0, <1>2 DEF Names, Untaken
<1>5. Right(d)
  BY <1>0, <1>1, <1>2 DEF Right, Window!Active
<1>6. QED
  BY <1>1, <1>2, <1>3, <1>4, <1>5 DEF Sound, d
LEMMA NotifySound ==
  ASSUME Window!AppAssumption, NEW s, Sound(s), s.started < MaxJobs
  PROVE  /\ Sound(Window!NotifyLater(s)) /\ Window!NotifyLater(s).live = s.live
         /\ Window!NotifyLater(s).started = s.started + 1
         /\ s.started + 1 \in Window!NotifyLater(s).running
         /\ Window!NotifyLater(s).help = s.help /\ Window!NotifyLater(s).hdr = s.hdr
<1> DEFINE d == Window!NotifyLater(s)
<1>0. /\ DOMAIN s = Fields /\ Counts(s) /\ Names(s) /\ Untaken(s) /\ Right(s)
  BY DEF Sound
<1>1. /\ DOMAIN d = Fields /\ d.started = s.started + 1 /\ d.pending = s.started + 1
      /\ d.running = s.running \cup {s.started + 1}
      /\ \A x \in Fields \ {"started", "running", "pending"} : d[x] = s[x]
  BY <1>0 DEF Window!NotifyLater, Fields
<1> HIDE DEF d
<1>2. /\ d.step = s.step /\ d.gen = s.gen /\ d.live = s.live /\ d.up = s.up /\ d.events = s.events
      /\ d.full = s.full /\ d.last = s.last /\ d.reconnect = s.reconnect /\ d.restart = s.restart
      /\ d.asking = s.asking /\ d.help = s.help /\ d.busy = s.busy /\ d.display = s.display
      /\ d.hdr = s.hdr /\ d.full_slots = s.full_slots /\ d.notice = s.notice /\ d.cancel = s.cancel
  BY <1>1 DEF Fields
<1>3. /\ MaxJobs \in Nat /\ s.started \in 0..MaxJobs /\ s.running \subseteq 1..s.started
      /\ s.full_slots \subseteq 1..s.started /\ s.notice \in 0..s.started
  BY <1>0 DEF Window!AppAssumption, Counts
<1>4. /\ s.started + 1 \in 0..MaxJobs /\ 1..s.started \subseteq 1..(s.started + 1)
      /\ s.started + 1 \in 1..(s.started + 1) /\ 0..s.started \subseteq 0..(s.started + 1)
      /\ s.started + 1 \in 0..(s.started + 1)
  BY <1>3
<1>5. Counts(d)
  BY <1>0, <1>1, <1>2, <1>3, <1>4 DEF Counts
<1>6. Names(d) /\ Untaken(d)
  BY <1>0, <1>2 DEF Names, Untaken
<1>7. Right(d)
  BY <1>0, <1>1, <1>2 DEF Right
<1>8. QED
  BY <1>1, <1>2, <1>5, <1>6, <1>7 DEF Sound, d

LEMMA RestartSound ==
  ASSUME NEW s, Sound(s), s.live # "none"
  PROVE  Sound(Window!Restart(s)) /\ Window!Restart(s).live = s.live
<1> DEFINE d == [s EXCEPT !.restart = TRUE, !.reconnect = s.last]
<1>0. /\ DOMAIN s = Fields /\ Counts(s) /\ Names(s) /\ Untaken(s) /\ Right(s)
  BY DEF Sound
<1>1. /\ DOMAIN d = Fields /\ d.reconnect = s.last
      /\ \A x \in Fields \ {"restart", "reconnect"} : d[x] = s[x]
  BY <1>0 DEF Fields
<1>9. Window!Restart(s) = Window!Disconnect(d)
  BY DEF Window!Restart
<1> HIDE DEF d
<1>2. /\ d.step = s.step /\ d.gen = s.gen /\ d.live = s.live /\ d.up = s.up /\ d.events = s.events
      /\ d.full = s.full /\ d.last = s.last /\ d.running = s.running /\ d.started = s.started
      /\ d.asking = s.asking /\ d.help = s.help /\ d.busy = s.busy /\ d.display = s.display
      /\ d.hdr = s.hdr /\ d.full_slots = s.full_slots /\ d.notice = s.notice /\ d.cancel = s.cancel
      /\ d.pending = s.pending
  BY <1>1 DEF Fields
<1>3. Counts(d)
  BY <1>0, <1>2 DEF Counts
<1>4. Names(d) /\ Untaken(d)
  BY <1>0, <1>2 DEF Names, Untaken
<1>5. Right(d)
  BY <1>0, <1>1, <1>2 DEF Right
<1>6. Sound(d)
  BY <1>1, <1>3, <1>4, <1>5 DEF Sound
<1>7. QED
  BY <1>2, <1>6, <1>9, DisconnectSound

LEMMA TurnOffSound ==
  ASSUME Window!AppAssumption, NEW s, Sound(s), s.started < MaxJobs, s.live # "none"
  PROVE  Sound(Window!TurnOffHdr(s)) /\ Window!TurnOffHdr(s).live = s.live
<1>1. CASE s.busy
  BY <1>1 DEF Window!TurnOffHdr
<1>2. CASE ~s.busy
  <2> DEFINE n == Window!NotifyLater(s)
             d == [n EXCEPT !.busy = s.help # "none", !.hdr = @ \cup {s.started + 1}]
  <2>0. Sound(n) /\ n.live = s.live /\ n.started = s.started + 1 /\ s.started + 1 \in n.running
    BY NotifySound
  <2>1. /\ DOMAIN n = Fields /\ Counts(n) /\ Names(n) /\ Untaken(n) /\ Right(n)
    BY <2>0 DEF Sound
  <2>2. Window!TurnOffHdr(s) = Window!Restart(d)
    BY <1>2 DEF Window!TurnOffHdr
  <2> HIDE DEF n
  <2>3. /\ DOMAIN d = Fields /\ d.hdr = n.hdr \cup {s.started + 1}
        /\ \A x \in Fields \ {"busy", "hdr"} : d[x] = n[x]
    BY <2>1 DEF Fields
  <2> HIDE DEF d
  <2>4. /\ d.step = n.step /\ d.gen = n.gen /\ d.live = n.live /\ d.up = n.up /\ d.events = n.events
        /\ d.full = n.full /\ d.last = n.last /\ d.running = n.running /\ d.started = n.started
        /\ d.asking = n.asking /\ d.help = n.help /\ d.display = n.display
        /\ d.full_slots = n.full_slots /\ d.notice = n.notice /\ d.cancel = n.cancel
        /\ d.pending = n.pending /\ d.restart = n.restart /\ d.reconnect = n.reconnect
    BY <2>3 DEF Fields
  <2>5. Counts(d)
    BY <2>1, <2>4 DEF Counts
  <2>6. Names(d) /\ Untaken(d)
    BY <2>1, <2>4 DEF Names, Untaken
  <2>7. Right(d)
    BY <2>0, <2>1, <2>3, <2>4 DEF Right
  <2>8. Sound(d)
    BY <2>3, <2>5, <2>6, <2>7 DEF Sound
  <2>9. QED
    BY <2>0, <2>2, <2>4, <2>8, RestartSound
<1>3. QED
  BY <1>1, <1>2

\* A restart that waited is over with the attempt it begins.
LEMMA ConnectSound ==
  ASSUME Window!AppAssumption, NEW s, Sound(s), s.gen < MaxStreams,
         NEW q, q = s \/ q = [s EXCEPT !.reconnect = FALSE]
  PROVE  Sound(Window!Connect(q))
<1> DEFINE f == [q EXCEPT !.endedSeen = FALSE, !.offer = FALSE,
                          !.streamed = FALSE, !.streamFailed = FALSE,
                          !.confirm = FALSE, !.last = TRUE, !.asked = FALSE,
                          !.help = "none", !.busy = FALSE, !.display = "same",
                          !.restart = FALSE]
           d == [f EXCEPT !.step = "working", !.cancel = FALSE, !.gen = @ + 1]
<1>0. /\ DOMAIN s = Fields /\ Counts(s) /\ Names(s) /\ Untaken(s) /\ Right(s)
  BY DEF Sound
<1>q. DOMAIN q = Fields /\ \A x \in Fields \ {"reconnect"} : q[x] = s[x]
  BY <1>0 DEF Fields
<1>1. /\ DOMAIN f = Fields /\ f.last = TRUE /\ f.busy = FALSE /\ f.help = "none"
      /\ f.display = "same"
      /\ f.restart = FALSE
      /\ f.step = s.step /\ f.gen = s.gen /\ f.live = s.live /\ f.up = s.up /\ f.events = s.events
      /\ f.full = s.full /\ f.running = s.running /\ f.started = s.started
      /\ f.asking = s.asking /\ f.full_slots = s.full_slots /\ f.notice = s.notice
      /\ f.cancel = s.cancel /\ f.pending = s.pending
  BY <1>q DEF Fields
<1>2. Window!Connect(q) = f \/ Window!Connect(q) = d
  BY DEF Window!Connect
<1> HIDE DEF f
<1>3. Names(f) /\ Untaken(f)
  BY <1>0, <1>1 DEF Names, Untaken, Window!Helps
<1>4. Counts(f)
  BY <1>0, <1>1 DEF Counts
<1>5. Right(f)
  BY <1>0, <1>1 DEF Right
<1>6. Sound(f)
  BY <1>1, <1>3, <1>4, <1>5 DEF Sound
<1>7. /\ DOMAIN d = Fields /\ d.step = "working" /\ d.cancel = FALSE /\ d.gen = f.gen + 1
      /\ \A x \in Fields \ {"step", "cancel", "gen"} : d[x] = f[x]
  BY <1>1 DEF Fields
<1> HIDE DEF d
<1>8. /\ d.live = f.live /\ d.up = f.up /\ d.events = f.events /\ d.busy = f.busy
      /\ d.full = f.full /\ d.last = f.last /\ d.running = f.running /\ d.started = f.started
      /\ d.asking = f.asking /\ d.help = f.help /\ d.display = f.display
      /\ d.full_slots = f.full_slots /\ d.notice = f.notice
      /\ d.pending = f.pending /\ d.restart = f.restart
  BY <1>7 DEF Fields
<1>9. d.gen \in 0..MaxStreams /\ d.gen >= 1
  BY <1>0, <1>1, <1>7 DEF Window!AppAssumption, Counts
<1>10. Counts(d)
  BY <1>4, <1>8, <1>9 DEF Counts
<1>11. Names(d) /\ Untaken(d)
  BY <1>3, <1>7, <1>8 DEF Names, Untaken, Window!Steps
<1>12. Right(d)
  BY <1>1, <1>5, <1>7, <1>8, <1>9 DEF Right
<1>13. Sound(d)
  BY <1>7, <1>10, <1>11, <1>12 DEF Sound
<1>14. QED
  BY <1>2, <1>6, <1>13

LEMMA TakeSound ==
  ASSUME NEW s, Sound(s), s.live # "none", NEW ev \in Window!Kinds
  PROVE  /\ Sound(Window!TakeEvent(s, ev))
         /\ Window!TakeEvent(s, ev).live = s.live /\ Window!TakeEvent(s, ev).started = s.started
         /\ Window!TakeEvent(s, ev).gen = s.gen /\ Window!TakeEvent(s, ev).events = s.events
<1> DEFINE d == Window!TakeEvent(s, ev)
<1>0. /\ DOMAIN s = Fields /\ Counts(s) /\ Names(s) /\ Untaken(s) /\ Right(s)
  BY DEF Sound
<1>1. /\ DOMAIN d = Fields
      /\ \A x \in Fields \ {"step", "streamed", "streamFailed", "full"} : d[x] = s[x]
      /\ d.step \in {"streaming", "ended"} \/ (d.step = "failed" /\ ~s.cancel)
  <2>1. CASE ev = "Connected"
    BY <1>0, <2>1 DEF Window!TakeEvent, Fields
  <2>2. CASE ev = "Failed"
    BY <1>0, <2>2 DEF Window!TakeEvent, Fields
  <2>3. CASE ev = "Terminated"
    BY <1>0, <2>3 DEF Window!TakeEvent, Fields
  <2>4. CASE ev = "TerminatedError"
    BY <1>0, <2>4 DEF Window!TakeEvent, Fields
  <2>5. QED
    BY <2>1, <2>2, <2>3, <2>4 DEF Window!Kinds
<1> HIDE DEF d
<1>2. /\ d.gen = s.gen /\ d.live = s.live /\ d.up = s.up /\ d.events = s.events
      /\ d.last = s.last /\ d.reconnect = s.reconnect /\ d.restart = s.restart
      /\ d.asking = s.asking /\ d.help = s.help /\ d.busy = s.busy /\ d.display = s.display
      /\ d.started = s.started /\ d.running = s.running /\ d.hdr = s.hdr /\ d.pending = s.pending
      /\ d.full_slots = s.full_slots /\ d.notice = s.notice /\ d.cancel = s.cancel
  BY <1>1 DEF Fields
<1>3. Counts(d)
  BY <1>0, <1>2 DEF Counts
<1>4. Names(d) /\ Untaken(d)
  BY <1>0, <1>1, <1>2 DEF Names, Untaken, Window!Steps
<1>5. Right(d)
  BY <1>0, <1>1, <1>2 DEF Right
<1>6. QED
  BY <1>1, <1>2, <1>3, <1>4, <1>5 DEF Sound, d

\* The function TakeEvents defines takes the events one by one.
LEMMA TakesSound ==
  ASSUME NEW s, Sound(s), s.live # "none"
  PROVE  /\ Sound(Window!TakeEvents(s)) /\ Window!TakeEvents(s).events = <<>>
         /\ Window!TakeEvents(s).live = s.live /\ Window!TakeEvents(s).started = s.started
         /\ Window!TakeEvents(s).gen = s.gen
<1> DEFINE e == [s EXCEPT !.events = <<>>]
           n == Len(s.events)
           one == Window!TakeEvent(e, s.events[1])
           two == Window!TakeEvent(one, s.events[2])
           Takes(f) == f = [k \in 0..n |-> IF k = 0 THEN e
             ELSE Window!TakeEvent(f[k - 1], s.events[k])]
           g == [k \in 0..n |-> IF k = 0 THEN e ELSE IF k = 1 THEN one ELSE two]
<1>0. /\ DOMAIN s = Fields /\ Counts(s) /\ Names(s) /\ Untaken(s) /\ Right(s)
  BY DEF Sound
<1>1. /\ DOMAIN e = Fields /\ e.events = <<>> /\ \A x \in Fields \ {"events"} : e[x] = s[x]
  BY <1>0 DEF Fields
<1>2. s.events \in Seq(Window!Kinds) /\ n \in 0..2 /\ \A k \in 1..n : s.events[k] \in Window!Kinds
  <2>1. s.events \in Seq(Window!Kinds) /\ n <= 2
    BY <1>0 DEF Untaken
  <2>2. n \in Nat
    BY <2>1, LenProperties
  <2>3. \A k \in 1..n : s.events[k] \in Window!Kinds
    BY <2>1, ElementOfSeq
  <2> HIDE DEF n
  <2>4. n \in 0..2
    BY <2>1, <2>2
  <2>5. QED
    BY <2>1, <2>3, <2>4
<1> HIDE DEF e, n
<1>3. /\ e.step = s.step /\ e.gen = s.gen /\ e.live = s.live /\ e.up = s.up
      /\ e.full = s.full /\ e.last = s.last /\ e.reconnect = s.reconnect /\ e.restart = s.restart
      /\ e.asking = s.asking /\ e.help = s.help /\ e.busy = s.busy /\ e.display = s.display
      /\ e.started = s.started /\ e.running = s.running /\ e.hdr = s.hdr /\ e.pending = s.pending
      /\ e.full_slots = s.full_slots /\ e.notice = s.notice /\ e.cancel = s.cancel
  BY <1>1 DEF Fields
<1>4. Counts(e)
  BY <1>0, <1>3 DEF Counts
<1>5. Names(e)
  BY <1>0, <1>3 DEF Names
<1>6. Untaken(e)
  BY <1>1, EmptyEvents DEF Untaken
<1>7. Right(e)
  BY <1>0, <1>3 DEF Right
<1>8. Sound(e)
  BY <1>1, <1>4, <1>5, <1>6, <1>7 DEF Sound
<1>9. n >= 1 => Sound(one) /\ one.events = <<>> /\ one.live = s.live /\ one.started = s.started
      /\ one.gen = s.gen
  BY <1>1, <1>2, <1>3, <1>8, TakeSound
<1> HIDE DEF one
<1>10. n = 2 => Sound(two) /\ two.events = <<>> /\ two.live = s.live /\ two.started = s.started
       /\ two.gen = s.gen
  BY <1>2, <1>9, TakeSound
<1>11. Takes(g)
  <2>1. \A k \in 0..n : g[k] = IF k = 0 THEN e ELSE Window!TakeEvent(g[k - 1], s.events[k])
    <3>1. SUFFICES ASSUME NEW k \in 0..n
                   PROVE  g[k] = IF k = 0 THEN e ELSE Window!TakeEvent(g[k - 1], s.events[k])
      OBVIOUS
    <3>2. k \in {0, 1, 2}
      BY <1>2
    <3>3. CASE k = 0
      BY <3>3
    <3>4. CASE k = 1
      BY <1>2, <3>4 DEF one
    <3>5. CASE k = 2
      BY <1>2, <3>5
    <3>6. QED
      BY <3>2, <3>3, <3>4, <3>5
  <2>2. QED
    BY <2>1
<1> DEFINE t == CHOOSE f : Takes(f)
<1>12. Takes(t)
  BY <1>11
<1>13. Window!TakeEvents(s) = t[n]
  BY DEF Window!TakeEvents, e, n
<1> HIDE DEF t
<1>14. 0 \in 0..n => t[0] = e
  BY <1>12
<1>15. 1 \in 0..n => t[1] = one
  BY <1>2, <1>12, <1>14 DEF one
<1>16. 2 \in 0..n => t[2] = two
  BY <1>2, <1>12, <1>15
<1>17. CASE n = 0
  BY <1>1, <1>3, <1>8, <1>13, <1>14, <1>17
<1>18. CASE n = 1
  BY <1>9, <1>13, <1>15, <1>18
<1>19. CASE n = 2
  BY <1>10, <1>13, <1>16, <1>19
<1>20. QED
  BY <1>2, <1>17, <1>18, <1>19

LEMMA PollSound ==
  ASSUME NEW s, Sound(s)
  PROVE  /\ Sound(Window!PollLive(s)) /\ Window!PollLive(s).started = s.started
         /\ Window!PollLive(s).gen = s.gen
<1>1. CASE s.live = "none"
  BY <1>1 DEF Window!PollLive
<1>2. CASE s.live # "none"
  <2> DEFINE d == Window!TakeEvents(s)
             gone == [d EXCEPT !.step = IF Window!Over(d.step) THEN @ ELSE "ended",
                               !.live = "none", !.stop = FALSE, !.full = FALSE]
             told == [d EXCEPT !.stop = TRUE]
  <2>1. Sound(d) /\ d.live = s.live /\ d.started = s.started /\ d.gen = s.gen
    BY <1>2, TakesSound
  <2>0. /\ DOMAIN d = Fields /\ Counts(d) /\ Names(d) /\ Untaken(d) /\ Right(d)
    BY <2>1 DEF Sound
  <2>e. s.live = "finished" => Len(d.events) = 0 /\ d.up = FALSE
    <3>1. d.events = <<>>
      BY <1>2, TakesSound
    <3>2. QED
      BY <2>0, <2>1, <3>1, EmptyEvents DEF Names
  <2>2. IF s.live = "finished" THEN Window!PollLive(s) = gone ELSE Window!PollLive(s) \in {told, d}
    BY <1>2 DEF Window!PollLive
  <2> HIDE DEF d
  <2>3. /\ DOMAIN gone = Fields /\ gone.step \in {"ended", d.step} /\ gone.live = "none"
        /\ gone.full = FALSE
        /\ gone.step # "failed" \/ d.step = "failed"
        /\ gone.step # "working"
        /\ \A x \in Fields \ {"step", "live", "stop", "full"} : gone[x] = d[x]
    BY <2>0 DEF Fields, Window!Over
  <2>4. /\ DOMAIN told = Fields /\ \A x \in Fields \ {"stop"} : told[x] = d[x]
    BY <2>0 DEF Fields
  <2> HIDE DEF gone, told
  <2>5. CASE s.live = "finished"
    <3> DEFINE g == gone
    <3>1. /\ g.gen = d.gen /\ g.up = d.up /\ g.events = d.events
          /\ g.last = d.last /\ g.reconnect = d.reconnect /\ g.restart = d.restart
          /\ g.asking = d.asking /\ g.help = d.help /\ g.busy = d.busy /\ g.display = d.display
          /\ g.started = d.started /\ g.running = d.running /\ g.hdr = d.hdr
          /\ g.pending = d.pending
          /\ g.full_slots = d.full_slots /\ g.notice = d.notice /\ g.cancel = d.cancel
      BY <2>3 DEF Fields
    <3>2. Counts(g)
      BY <2>0, <3>1 DEF Counts
    <3>3. Names(g)
      BY <2>0, <2>3, <2>e, <2>5, <3>1 DEF Names, Window!Steps
    <3>4. Untaken(g)
      BY <2>0, <2>3, <2>e, <2>5, <3>1 DEF Untaken
    <3>5. Right(g)
      BY <2>0, <2>3, <3>1 DEF Right
    <3>6. QED
      BY <2>1, <2>3, <2>5, <2>2, <3>1, <3>2, <3>3, <3>4, <3>5 DEF Sound
  <2>6. CASE Window!PollLive(s) = told
    <3> DEFINE g == told
    <3>1. /\ g.step = d.step /\ g.live = d.live /\ g.full = d.full
          /\ g.gen = d.gen /\ g.up = d.up /\ g.events = d.events
          /\ g.last = d.last /\ g.reconnect = d.reconnect /\ g.restart = d.restart
          /\ g.asking = d.asking /\ g.help = d.help /\ g.busy = d.busy /\ g.display = d.display
          /\ g.started = d.started /\ g.running = d.running /\ g.hdr = d.hdr
          /\ g.pending = d.pending
          /\ g.full_slots = d.full_slots /\ g.notice = d.notice /\ g.cancel = d.cancel
      BY <2>4 DEF Fields
    <3>2. Counts(g)
      BY <2>0, <3>1 DEF Counts
    <3>3. Names(g) /\ Untaken(g)
      BY <2>0, <3>1 DEF Names, Untaken
    <3>5. Right(g)
      BY <2>0, <3>1 DEF Right
    <3>6. QED
      BY <2>1, <2>4, <2>6, <3>1, <3>2, <3>3, <3>5 DEF Sound
  <2>7. CASE Window!PollLive(s) = d
    BY <2>1, <2>7
  <2>8. QED
    BY <2>2, <2>5, <2>6, <2>7
<1>3. QED
  BY <1>1, <1>2

LEMMA NoticeSound ==
  ASSUME NEW s, Sound(s)
  PROVE  /\ Sound(Window!PollNotice(s)) /\ Window!PollNotice(s).started = s.started
         /\ Window!PollNotice(s).gen = s.gen
<1>1. CASE s.pending \notin s.full_slots
  BY <1>1 DEF Window!PollNotice
<1>2. CASE s.pending \in s.full_slots
  <2> DEFINE d == [s EXCEPT !.notice = s.pending, !.full_slots = @ \ {s.pending}, !.pending = 0]
  <2>0. /\ DOMAIN s = Fields /\ Counts(s) /\ Names(s) /\ Untaken(s) /\ Right(s)
    BY DEF Sound
  <2>1. /\ Window!PollNotice(s) = d /\ DOMAIN d = Fields
        /\ d.notice = s.pending /\ d.full_slots = s.full_slots \ {s.pending} /\ d.pending = 0
        /\ \A x \in Fields \ {"notice", "full_slots", "pending"} : d[x] = s[x]
    BY <1>2, <2>0 DEF Window!PollNotice, Fields
  <2> HIDE DEF d
  <2>2. /\ d.step = s.step /\ d.gen = s.gen /\ d.live = s.live /\ d.up = s.up /\ d.events = s.events
        /\ d.last = s.last /\ d.reconnect = s.reconnect /\ d.restart = s.restart /\ d.full = s.full
        /\ d.asking = s.asking /\ d.help = s.help /\ d.busy = s.busy /\ d.display = s.display
        /\ d.started = s.started /\ d.running = s.running /\ d.hdr = s.hdr /\ d.cancel = s.cancel
    BY <2>1 DEF Fields
  <2>3. Counts(d)
    BY <2>0, <2>1, <2>2 DEF Counts
  <2>4. Names(d) /\ Untaken(d)
    BY <2>0, <2>2 DEF Names, Untaken
  <2>5. Right(d)
    BY <2>0, <2>2 DEF Right
  <2>6. QED
    BY <2>1, <2>2, <2>3, <2>4, <2>5 DEF Sound
<1>3. QED
  BY <1>1, <1>2

LEMMA PolledSound ==
  ASSUME Sound(window)
  PROVE  Sound(Window!Polled) /\ Window!Polled.started = window.started
         /\ Window!Polled.gen = window.gen
BY PollSound, NoticeSound DEF Window!Polled

LEMMA AskSound ==
  ASSUME NEW s, Sound(s), NEW broken
  PROVE  /\ Sound(Window!AskWhyBlack(s, broken))
         /\ Window!AskWhyBlack(s, broken).started = s.started
         /\ Window!AskWhyBlack(s, broken).live = s.live
<1>1. CASE s.asked \/ ~broken \/ ~s.up
  BY <1>1 DEF Window!AskWhyBlack
<1>2. CASE ~(s.asked \/ ~broken \/ ~s.up)
  <2> DEFINE d == [s EXCEPT !.asked = TRUE, !.asking = @ \cup {s.gen}]
  <2>0. /\ DOMAIN s = Fields /\ Counts(s) /\ Names(s) /\ Untaken(s) /\ Right(s)
    BY DEF Sound
  <2>1. /\ Window!AskWhyBlack(s, broken) = d /\ DOMAIN d = Fields
        /\ d.asking = s.asking \cup {s.gen}
        /\ \A x \in Fields \ {"asked", "asking"} : d[x] = s[x]
    BY <1>2, <2>0 DEF Window!AskWhyBlack, Fields
  <2> HIDE DEF d
  <2>2. /\ d.step = s.step /\ d.gen = s.gen /\ d.live = s.live /\ d.up = s.up /\ d.events = s.events
        /\ d.last = s.last /\ d.reconnect = s.reconnect /\ d.restart = s.restart /\ d.full = s.full
        /\ d.help = s.help /\ d.busy = s.busy /\ d.display = s.display
        /\ d.started = s.started /\ d.running = s.running /\ d.hdr = s.hdr /\ d.cancel = s.cancel
        /\ d.pending = s.pending /\ d.full_slots = s.full_slots /\ d.notice = s.notice
    BY <2>1 DEF Fields
  <2>3. s.gen \in Window!Streams
    <3>1. s.live # "none"
      BY <1>2, <2>0 DEF Names
    <3>2. s.gen >= 1 /\ s.gen \in 0..MaxStreams
      BY <2>0, <3>1 DEF Right, Counts
    <3>3. QED
      BY <3>2 DEF Window!Streams
  <2>4. Counts(d)
    BY <2>0, <2>1, <2>2, <2>3 DEF Counts
  <2>5. Names(d) /\ Untaken(d)
    BY <2>0, <2>2 DEF Names, Untaken
  <2>6. Right(d)
    BY <2>0, <2>2 DEF Right
  <2>7. QED
    BY <2>1, <2>2, <2>4, <2>5, <2>6 DEF Sound
<1>3. QED
  BY <1>1, <1>2

LEMMA SeenSound ==
  ASSUME Sound(window), NEW broken
  PROVE  Sound(Window!Seen(broken)) /\ Window!Seen(broken).started = window.started
         /\ Window!Seen(broken).live = Window!Polled.live
BY PolledSound, AskSound DEF Window!Seen

\* A change of fields that nothing is kept about.
LEMMA PlainSound ==
  ASSUME NEW s, Sound(s), NEW d, DOMAIN d = Fields,
         d.display \in {"same", "changed", "seen", "kept"},
         \A x \in Fields \ {"endedSeen", "offer", "confirm", "display", "asked"} : d[x] = s[x]
  PROVE  Sound(d) /\ d.live = s.live /\ d.started = s.started /\ d.gen = s.gen
<1>0. /\ DOMAIN s = Fields /\ Counts(s) /\ Names(s) /\ Untaken(s) /\ Right(s)
  BY DEF Sound
<1>2. /\ d.step = s.step /\ d.gen = s.gen /\ d.live = s.live /\ d.up = s.up /\ d.events = s.events
      /\ d.last = s.last /\ d.reconnect = s.reconnect /\ d.restart = s.restart /\ d.full = s.full
      /\ d.help = s.help /\ d.busy = s.busy /\ d.asking = s.asking
      /\ d.started = s.started /\ d.running = s.running /\ d.hdr = s.hdr /\ d.cancel = s.cancel
      /\ d.pending = s.pending /\ d.full_slots = s.full_slots /\ d.notice = s.notice
  BY DEF Fields
<1>3. Counts(d)
  BY <1>0, <1>2 DEF Counts
<1>4. Names(d) /\ Untaken(d)
  BY <1>0, <1>2 DEF Names, Untaken
<1>5. Right(d)
  BY <1>0, <1>2 DEF Right
<1>6. QED
  BY <1>2, <1>3, <1>4, <1>5 DEF Sound

LEMMA DisplaySound ==
  ASSUME NEW s, Sound(s), s.live # "none"
  PROVE  Sound(Window!DisplayTended(s))
<1>0. DOMAIN s = Fields
  BY DEF Sound
<1>1. ASSUME NEW v \in {"changed", "seen"} PROVE Sound([s EXCEPT !.display = v])
  <2> DEFINE d == [s EXCEPT !.display = v]
  <2>1. DOMAIN d = Fields /\ d.display = v /\ \A x \in Fields \ {"display"} : d[x] = s[x]
    BY <1>0 DEF Fields
  <2> HIDE DEF d
  <2>2. Sound(d)
    BY <1>1, <2>1, PlainSound
  <2>3. QED
    BY <2>2 DEF d
<1>2. Window!DisplayTended(s) \in {s, [s EXCEPT !.display = "changed"],
      [s EXCEPT !.display = "seen"], Window!Restart(s)}
  BY DEF Window!DisplayTended
<1>3. QED
  BY <1>1, <1>2, RestartSound

\* What an idle frame shows.
LEMMA DrawnSound ==
  ASSUME Sound(window), NEW s \in Window!Drawn
  PROVE  Sound(s) /\ s.live = Window!Polled.live /\ s.started = window.started /\ s.gen = window.gen
<1>1. PICK prompt \in BOOLEAN : s = Window!Tended(Window!Polled, prompt)
  BY DEF Window!Drawn
<1>2. Sound(Window!Polled) /\ Window!Polled.started = window.started
      /\ Window!Polled.gen = window.gen /\ DOMAIN Window!Polled = Fields
  BY PolledSound DEF Sound
<1>3. CASE s = Window!Polled
  BY <1>2, <1>3
<1>4. CASE s # Window!Polled
  <2>1. s = [Window!Polled EXCEPT !.endedSeen = TRUE, !.offer = IF prompt THEN TRUE ELSE @]
    BY <1>1, <1>4 DEF Window!Tended
  <2>2. DOMAIN s = Fields /\ \A x \in Fields \ {"endedSeen", "offer"} : s[x] = Window!Polled[x]
    BY <1>2, <2>1 DEF Fields
  <2>3. s.display \in {"same", "changed", "seen", "kept"}
    BY <1>2, <2>2 DEF Sound, Names, Fields
  <2>4. QED
    BY <1>2, <2>2, <2>3, PlainSound
<1>5. QED
  BY <1>3, <1>4

\* A change of the step and of what the stream has to do with it.
LEMMA StepSound ==
  ASSUME NEW s, Sound(s), NEW d, DOMAIN d = Fields, d.step \in Window!Steps \ {"working"},
         s.cancel => d.step # "failed", s.reconnect => d.reconnect,
         \A x \in Fields \ {"step", "reconnect", "offer"} : d[x] = s[x]
  PROVE  Sound(d)
<1>0. /\ DOMAIN s = Fields /\ Counts(s) /\ Names(s) /\ Untaken(s) /\ Right(s)
  BY DEF Sound
<1>2. /\ d.gen = s.gen /\ d.live = s.live /\ d.up = s.up /\ d.events = s.events
      /\ d.last = s.last /\ d.restart = s.restart /\ d.full = s.full
      /\ d.help = s.help /\ d.busy = s.busy /\ d.asking = s.asking /\ d.display = s.display
      /\ d.started = s.started /\ d.running = s.running /\ d.hdr = s.hdr /\ d.cancel = s.cancel
      /\ d.pending = s.pending /\ d.full_slots = s.full_slots /\ d.notice = s.notice
  BY DEF Fields
<1>3. Counts(d)
  BY <1>0, <1>2 DEF Counts
<1>4. Names(d) /\ Untaken(d)
  BY <1>0, <1>2 DEF Names, Untaken
<1>5. Right(d)
  BY <1>0, <1>2 DEF Right
<1>6. QED
  BY <1>3, <1>4, <1>5 DEF Sound

LEMMA PowerSound ==
  ASSUME Window!AppAssumption, NEW s, Sound(s), s.started < MaxJobs
  PROVE  Sound(Window!Power(s)) /\ Window!Power(s).live = s.live
BY DisconnectSound, NotifySound DEF Window!Power

LEMMA FullSound ==
  ASSUME NEW s, Sound(s), s.live # "none"
  PROVE  Sound([s EXCEPT !.full = ~@]) /\ [s EXCEPT !.full = ~@].live = s.live
<1> DEFINE d == [s EXCEPT !.full = ~@]
<1>0. /\ DOMAIN s = Fields /\ Counts(s) /\ Names(s) /\ Untaken(s) /\ Right(s)
  BY DEF Sound
<1>1. DOMAIN d = Fields /\ \A x \in Fields \ {"full"} : d[x] = s[x]
  BY <1>0 DEF Fields
<1> HIDE DEF d
<1>2. /\ d.gen = s.gen /\ d.live = s.live /\ d.up = s.up /\ d.events = s.events /\ d.step = s.step
      /\ d.last = s.last /\ d.restart = s.restart /\ d.reconnect = s.reconnect
      /\ d.help = s.help /\ d.busy = s.busy /\ d.asking = s.asking /\ d.display = s.display
      /\ d.started = s.started /\ d.running = s.running /\ d.hdr = s.hdr /\ d.cancel = s.cancel
      /\ d.pending = s.pending /\ d.full_slots = s.full_slots /\ d.notice = s.notice
  BY <1>1 DEF Fields
<1>3. Counts(d)
  BY <1>0, <1>2 DEF Counts
<1>4. Names(d) /\ Untaken(d)
  BY <1>0, <1>2 DEF Names, Untaken
<1>5. Right(d)
  BY <1>0, <1>2 DEF Right
<1>6. QED
  BY <1>1, <1>2, <1>3, <1>4, <1>5 DEF Sound, d

\* What the stream's library says, in its order.
Step(from, to, up, n) ==
  \/ from = "starting" /\ to = "up" /\ up = TRUE /\ n = 1
  \/ from = "starting" /\ to = "finished" /\ up = FALSE /\ n <= 1
  \/ from = "up" /\ to \in {"ending", "finished"} /\ up = FALSE /\ n <= 1
  \/ from = "ending" /\ to = "finished" /\ up = FALSE /\ n = 0

LEMMA SaysSound ==
  ASSUME Sound(window)
  PROVE  \A from, to, up : \A evs \in Seq(Window!Kinds) :
           Window!SessionSays(from, to, up, evs) /\ Step(from, to, up, Len(evs)) => Sound(window')
<1>s. SUFFICES ASSUME NEW from, NEW to, NEW up, NEW evs \in Seq(Window!Kinds),
                      Window!SessionSays(from, to, up, evs), Step(from, to, up, Len(evs))
               PROVE  Sound(window')
  OBVIOUS
<1>0. /\ DOMAIN window = Fields /\ Counts(window) /\ Names(window) /\ Untaken(window)
      /\ Right(window)
  BY DEF Sound
<1> DEFINE d == [window EXCEPT !.live = to, !.up = up, !.events = @ \o evs]
<1>1. window.live = from /\ window' = d
  BY <1>s DEF Window!SessionSays
<1>2. /\ DOMAIN d = Fields /\ d.live = to /\ d.up = up /\ d.events = window.events \o evs
      /\ \A x \in Fields \ {"live", "up", "events"} : d[x] = window[x]
  BY <1>0 DEF Fields
<1> HIDE DEF d
<1>3. /\ d.gen = window.gen /\ d.step = window.step /\ d.full = window.full
      /\ d.last = window.last /\ d.restart = window.restart /\ d.reconnect = window.reconnect
      /\ d.help = window.help /\ d.busy = window.busy /\ d.asking = window.asking
      /\ d.display = window.display
      /\ d.started = window.started /\ d.running = window.running /\ d.hdr = window.hdr
      /\ d.cancel = window.cancel
      /\ d.pending = window.pending /\ d.full_slots = window.full_slots /\ d.notice = window.notice
  BY <1>2 DEF Fields
<1>4. Counts(d)
  BY <1>0, <1>3 DEF Counts
<1>5. Names(d)
  BY <1>0, <1>2, <1>3, <1>s DEF Names, Step
<1>6. /\ window.events \in Seq(Window!Kinds) /\ Len(window.events) \in Nat /\ Len(evs) \in Nat
      /\ d.events \in Seq(Window!Kinds) /\ Len(d.events) = Len(window.events) + Len(evs)
  <2>1. window.events \in Seq(Window!Kinds)
    BY <1>0 DEF Untaken
  <2>2. QED
    BY <1>2, <2>1, LenProperties, ConcatProperties
<1>7. /\ Len(window.events) <= 2 /\ (from = "starting" => Len(window.events) = 0)
      /\ (from = "up" => Len(window.events) <= 1)
  BY <1>0, <1>1 DEF Untaken
<1>8. Len(d.events) <= 2 /\ (to = "up" => Len(d.events) <= 1) /\ to \notin {"none", "starting"}
  <2>1. CASE from = "starting" /\ to = "up" /\ Len(evs) = 1
    BY <1>6, <1>7, <2>1
  <2>2. CASE from = "starting" /\ to = "finished" /\ Len(evs) <= 1
    BY <1>6, <1>7, <2>2
  <2>3. CASE from = "up" /\ to \in {"ending", "finished"} /\ Len(evs) <= 1
    BY <1>6, <1>7, <2>3
  <2>4. CASE from = "ending" /\ to = "finished" /\ Len(evs) = 0
    BY <1>6, <1>7, <2>4
  <2>5. QED
    BY <1>s, <2>1, <2>2, <2>3, <2>4 DEF Step
<1>9. Untaken(d)
  BY <1>2, <1>6, <1>8 DEF Untaken
<1>10. Right(d)
  BY <1>0, <1>1, <1>2, <1>3, <1>8, <1>s DEF Right, Step
<1>11. QED
  BY <1>1, <1>2, <1>4, <1>5, <1>9, <1>10 DEF Sound

LEMMA OneEvent == \A ev \in Window!Kinds : <<ev>> \in Seq(Window!Kinds) /\ Len(<<ev>>) = 1
OBVIOUS

LEMMA SessionSound ==
  ASSUME Sound(window), Window!Session
  PROVE  Sound(window')
<1>0. "Connected" \in Window!Kinds /\ "Failed" \in Window!Kinds /\ "Terminated" \in Window!Kinds
      /\ "TerminatedError" \in Window!Kinds
  BY DEF Window!Kinds
<1>1. CASE Window!SessionConnects
  <2>1. Window!SessionSays("starting", "up", TRUE, <<"Connected">>)
    BY <1>1 DEF Window!SessionConnects
  <2>2. <<"Connected">> \in Seq(Window!Kinds) /\ Step("starting", "up", TRUE, Len(<<"Connected">>))
    BY <1>0, OneEvent DEF Step
  <2>3. QED
    BY <2>1, <2>2, SaysSound
<1>2. CASE Window!SessionFails
  <2>1. Window!SessionSays("starting", "finished", FALSE, <<"Failed">>)
    BY <1>2 DEF Window!SessionFails
  <2>2. <<"Failed">> \in Seq(Window!Kinds) /\ Step("starting", "finished", FALSE, Len(<<"Failed">>))
    BY <1>0, OneEvent DEF Step
  <2>3. QED
    BY <2>1, <2>2, SaysSound
<1>3. CASE Window!SessionTerminates
  <2>1. PICK ev \in {"Terminated", "TerminatedError"} :
             Window!SessionSays("up", "ending", FALSE, <<ev>>)
    BY <1>3 DEF Window!SessionTerminates
  <2>2. <<ev>> \in Seq(Window!Kinds) /\ Step("up", "ending", FALSE, Len(<<ev>>))
    BY <1>0, OneEvent DEF Step
  <2>3. QED
    BY <2>1, <2>2, SaysSound
<1>4. CASE Window!SessionStops
  <2>0. /\ Step("starting", "finished", FALSE, Len(<<>>))
        /\ Step("up", "finished", FALSE, Len(<<>>))
        /\ Step("ending", "finished", FALSE, Len(<<>>)) /\ <<>> \in Seq(Window!Kinds)
    BY EmptyEvents DEF Step
  <2>1. CASE Window!SessionSays("starting", "finished", FALSE, <<>>)
    BY <2>0, <2>1, SaysSound
  <2>2. CASE Window!SessionSays("up", "finished", FALSE, <<>>)
    BY <2>0, <2>2, SaysSound
  <2>3. CASE Window!SessionSays("ending", "finished", FALSE, <<>>)
    BY <2>0, <2>3, SaysSound
  <2>4. QED
    BY <1>4, <2>1, <2>2, <2>3 DEF Window!SessionStops
<1>5. QED
  BY <1>1, <1>2, <1>3, <1>4 DEF Window!Session

LEMMA FrameSound ==
  ASSUME NEW s, Sound(s), Window!StreamFrame(s), s.live = Window!Polled.live
  PROVE  Sound(window')
BY DisplaySound DEF Window!StreamFrame

LEMMA AnswersSound ==
  ASSUME Sound(window), Window!PcAnswers
  PROVE  Sound(window')
<1>0. /\ DOMAIN window = Fields /\ Counts(window) /\ Names(window) /\ Untaken(window)
      /\ Right(window)
  BY DEF Sound
<1>1. PICK g \in window.asking, h \in Window!Helps :
         window' = [window EXCEPT !.asking = @ \ {g},
                        !.help = IF h = "none" THEN @ ELSE h,
                        !.busy = IF h = "none" THEN @ ELSE FALSE]
  BY DEF Window!PcAnswers
<1> DEFINE d == window'
<1>2. /\ DOMAIN d = Fields /\ d.asking = window.asking \ {g} /\ d.help \in {window.help, h}
      /\ d.busy \in {window.busy, FALSE}
      /\ \A x \in Fields \ {"asking", "help", "busy"} : d[x] = window[x]
  BY <1>0, <1>1 DEF Fields
<1> HIDE DEF d
<1>3. /\ d.gen = window.gen /\ d.step = window.step /\ d.full = window.full
      /\ d.live = window.live /\ d.up = window.up
      /\ d.last = window.last /\ d.restart = window.restart /\ d.reconnect = window.reconnect
      /\ d.display = window.display /\ d.events = window.events
      /\ d.started = window.started /\ d.running = window.running /\ d.hdr = window.hdr
      /\ d.cancel = window.cancel
      /\ d.pending = window.pending /\ d.full_slots = window.full_slots /\ d.notice = window.notice
  BY <1>2 DEF Fields
<1>4. Counts(d)
  BY <1>0, <1>2, <1>3 DEF Counts
<1>5. Names(d) /\ Untaken(d)
  BY <1>0, <1>2, <1>3 DEF Names, Untaken
<1>6. Right(d)
  BY <1>0, <1>2, <1>3 DEF Right
<1>7. QED
  BY <1>2, <1>4, <1>5, <1>6 DEF Sound, d

LEMMA JobSound ==
  ASSUME Sound(window), Window!JobEnds
  PROVE  Sound(window')
<1>0. /\ DOMAIN window = Fields /\ Counts(window) /\ Names(window) /\ Untaken(window)
      /\ Right(window)
  BY DEF Sound
<1>1. PICK j \in window.running, ok \in BOOLEAN :
         window' = [window EXCEPT !.running = @ \ {j}, !.full_slots = @ \cup {j},
                        !.busy = IF j \in window.hdr THEN FALSE ELSE @,
                        !.help = IF j \notin window.hdr \/ window.help = "none" THEN @
                                 ELSE IF ok THEN "other" ELSE "hdr"]
  BY DEF Window!JobEnds
<1> DEFINE d == window'
<1>2. /\ DOMAIN d = Fields /\ d.running = window.running \ {j}
      /\ d.full_slots = window.full_slots \cup {j}
      /\ d.busy = (IF j \in window.hdr THEN FALSE ELSE window.busy)
         /\ d.help \in {window.help, "other", "hdr"}
      /\ \A x \in Fields \ {"running", "full_slots", "busy", "help"} : d[x] = window[x]
  BY <1>0, <1>1 DEF Fields
<1> HIDE DEF d
<1>3. /\ d.gen = window.gen /\ d.step = window.step /\ d.full = window.full
      /\ d.live = window.live /\ d.up = window.up
      /\ d.last = window.last /\ d.restart = window.restart /\ d.reconnect = window.reconnect
      /\ d.display = window.display /\ d.events = window.events /\ d.asking = window.asking
      /\ d.started = window.started /\ d.hdr = window.hdr /\ d.cancel = window.cancel
      /\ d.pending = window.pending /\ d.notice = window.notice
  BY <1>2 DEF Fields
<1>4. Counts(d)
  BY <1>0, <1>2, <1>3 DEF Counts
<1>5. Names(d) /\ Untaken(d)
  BY <1>0, <1>2, <1>3 DEF Names, Untaken, Window!Helps
<1>6. Right(d)
  <2>1. d.busy => \E i \in d.hdr : i \in d.running
    <3>1. SUFFICES ASSUME d.busy PROVE \E i \in d.hdr : i \in d.running
      OBVIOUS
    <3>2. j \notin window.hdr /\ window.busy
      BY <1>2, <3>1
    <3>3. PICK i \in window.hdr : i \in window.running
      BY <1>0, <3>2 DEF Right
    <3>4. QED
      BY <1>2, <1>3, <3>2, <3>3
  <2>2. QED
    BY <1>0, <1>3, <2>1 DEF Right
<1>7. QED
  BY <1>2, <1>4, <1>5, <1>6 DEF Sound, d

LEMMA PublishSound ==
  ASSUME Sound(window), Window!WorkerPublishes
  PROVE  Sound(window')
<1>0. /\ DOMAIN window = Fields /\ Counts(window) /\ Names(window) /\ Untaken(window)
      /\ Right(window)
  BY DEF Sound
<1>1. window.step = "working" /\ window.live = "none"
      /\ window' = [window EXCEPT !.live = "starting"]
  BY DEF Window!WorkerPublishes
<1> DEFINE d == window'
<1>2. DOMAIN d = Fields /\ d.live = "starting" /\ \A x \in Fields \ {"live"} : d[x] = window[x]
  BY <1>0, <1>1 DEF Fields
<1> HIDE DEF d
<1>3. /\ d.gen = window.gen /\ d.step = window.step /\ d.full = window.full /\ d.up = window.up
      /\ d.last = window.last /\ d.restart = window.restart /\ d.reconnect = window.reconnect
      /\ d.help = window.help /\ d.busy = window.busy /\ d.asking = window.asking
      /\ d.display = window.display
      /\ d.started = window.started /\ d.running = window.running /\ d.hdr = window.hdr
      /\ d.cancel = window.cancel
      /\ d.pending = window.pending /\ d.full_slots = window.full_slots /\ d.notice = window.notice
      /\ d.events = window.events
  BY <1>2 DEF Fields
<1>4. Counts(d)
  BY <1>0, <1>3 DEF Counts
<1>5. Names(d) /\ Untaken(d)
  BY <1>0, <1>1, <1>2, <1>3 DEF Names, Untaken
<1>6. Right(d)
  BY <1>0, <1>1, <1>2, <1>3 DEF Right
<1>7. QED
  BY <1>2, <1>4, <1>5, <1>6 DEF Sound, d

LEMMA ClicksSound ==
  ASSUME Window!AppAssumption, Sound(window), Window!Clicks
  PROVE  Sound(window')
<1>0. /\ DOMAIN window = Fields /\ Names(window)
  BY DEF Sound
<1>1. Sound(Window!Seen(FALSE)) /\ Window!Seen(FALSE).started = window.started
      /\ Window!Seen(FALSE).live = Window!Polled.live
  BY SeenSound
<1>2. \A s \in Window!Drawn : Sound(s) /\ s.live = Window!Polled.live
      /\ s.started = window.started /\ s.gen = window.gen
  BY DrawnSound
<1>3. CASE Window!ClickDisconnect
  BY <1>1, <1>3, DisconnectSound, FrameSound DEF Window!ClickDisconnect
<1>4. CASE Window!ClickRestart
  <2>1. Window!Seen(FALSE).live # "none" /\ Window!StreamFrame(Window!Restart(Window!Seen(FALSE)))
    BY <1>1, <1>4 DEF Window!ClickRestart, Window!StreamFrame
  <2>2. QED
    BY <1>1, <2>1, RestartSound, FrameSound
<1>5. CASE Window!ClickPower
  BY <1>1, <1>5, PowerSound, FrameSound DEF Window!ClickPower
<1>6. CASE Window!ClickTurnOffHdr
  <2>1. Window!Seen(FALSE).live # "none"
        /\ Window!StreamFrame(Window!TurnOffHdr(Window!Seen(FALSE))) /\ window.started < MaxJobs
    BY <1>1, <1>6 DEF Window!ClickTurnOffHdr, Window!StreamFrame
  <2>2. QED
    BY <1>1, <2>1, TurnOffSound, FrameSound
<1>7. CASE Window!ClickFullscreen
  <2> DEFINE d == [Window!Seen(FALSE) EXCEPT !.full = ~@]
  <2>1. Window!Seen(FALSE).live # "none" /\ Window!StreamFrame(d)
    BY <1>1, <1>7 DEF Window!ClickFullscreen, Window!StreamFrame
  <2>2. Sound(d) /\ d.live = Window!Polled.live
    BY <1>1, <2>1, FullSound
  <2>3. QED
    BY <2>1, <2>2, FrameSound
<1>8. CASE Window!ClickConnect
  BY <1>2, <1>8, ConnectSound DEF Window!ClickConnect, Window!IdleFrame
<1>9. CASE Window!ClickCancel
  BY <1>2, <1>9, DisconnectSound DEF Window!ClickCancel, Window!IdleFrame
<1>10. CASE Window!ClickTryAgain
  <2>1. PICK s \in Window!Drawn : window' = [s EXCEPT !.reconnect = TRUE, !.step = "idle"]
    BY <1>10 DEF Window!ClickTryAgain, Window!IdleFrame
  <2>2. Sound(s) /\ DOMAIN s = Fields
    BY <1>2 DEF Sound
  <2>3. DOMAIN window' = Fields /\ window'.step = "idle" /\ window'.reconnect = TRUE
        /\ \A x \in Fields \ {"step", "reconnect"} : window'[x] = s[x]
    BY <2>1, <2>2 DEF Fields
  <2>4. QED
    BY <2>2, <2>3, StepSound DEF Window!Steps
<1>11. CASE Window!ClickDismiss
  <2>1. PICK s \in Window!Drawn : window' = [s EXCEPT !.offer = FALSE, !.step = "idle"]
    BY <1>11 DEF Window!ClickDismiss, Window!IdleFrame
  <2>2. Sound(s) /\ DOMAIN s = Fields
    BY <1>2 DEF Sound
  <2>3. DOMAIN window' = Fields /\ window'.step = "idle" /\ window'.reconnect = s.reconnect
        /\ \A x \in Fields \ {"step", "offer"} : window'[x] = s[x]
    BY <2>1, <2>2 DEF Fields
  <2>4. QED
    BY <2>2, <2>3, StepSound DEF Window!Steps
<1>12. CASE Window!ClickSleep
  <2>1. PICK s \in Window!Drawn :
             window' = [Window!Power(s) EXCEPT !.offer = FALSE, !.step = "idle"]
    BY <1>12 DEF Window!ClickSleep, Window!IdleFrame
  <2> DEFINE p == Window!Power(s)
  <2>2. Sound(p) /\ DOMAIN p = Fields
    BY <1>2, <1>12, PowerSound DEF Window!ClickSleep, Sound
  <2> HIDE DEF p
  <2>3. DOMAIN window' = Fields /\ window'.step = "idle" /\ window'.reconnect = p.reconnect
        /\ \A x \in Fields \ {"step", "offer"} : window'[x] = p[x]
    BY <2>1, <2>2 DEF Fields, p
  <2>4. QED
    BY <2>2, <2>3, StepSound DEF Window!Steps
<1>13. ASSUME NEW s, Sound(s), NEW v, window' = [s EXCEPT !.confirm = v] PROVE Sound(window')
  <2>1. DOMAIN s = Fields /\ s.display \in {"same", "changed", "seen", "kept"}
    BY <1>13 DEF Sound, Names
  <2>2. DOMAIN window' = Fields /\ \A x \in Fields \ {"confirm"} : window'[x] = s[x]
    BY <1>13, <2>1 DEF Fields
  <2>3. window'.display \in {"same", "changed", "seen", "kept"}
    BY <2>1, <2>2 DEF Fields
  <2>4. QED
    BY <1>13, <2>2, <2>3, PlainSound
<1>14. CASE Window!ClickAsk \/ Window!ClickRefuse
  <2>1. PICK s \in Window!Drawn : window' = [s EXCEPT !.confirm = TRUE]
             \/ window' = [s EXCEPT !.confirm = FALSE]
    BY <1>14 DEF Window!ClickAsk, Window!ClickRefuse, Window!IdleFrame
  <2>2. QED
    BY <1>2, <1>13, <2>1
<1>15. CASE Window!ClickConfirm
  <2>1. PICK s \in Window!Drawn : window' = [Window!Power(s) EXCEPT !.confirm = FALSE]
    BY <1>15 DEF Window!ClickConfirm, Window!IdleFrame
  <2>2. Sound(Window!Power(s))
    BY <1>2, <1>15, PowerSound DEF Window!ClickConfirm
  <2>3. QED
    BY <1>13, <2>1, <2>2
<1>16. CASE Window!ClickTestWake
  BY <1>2, <1>16, NotifySound DEF Window!ClickTestWake, Window!IdleFrame
<1>17. QED
  BY <1>3, <1>4, <1>5, <1>6, <1>7, <1>8, <1>9, <1>10, <1>11, <1>12, <1>14, <1>15, <1>16
     DEF Window!Clicks

LEMMA WindowSound ==
  ASSUME Window!AppAssumption, Sound(window), [Window!Next]_Window!vars
  PROVE  Sound(window')
<1>0. /\ DOMAIN window = Fields /\ Names(window)
  BY DEF Sound
<1>1. CASE Window!Watch
  <2>1. PICK broken \in BOOLEAN : Window!StreamFrame(Window!Seen(broken))
    BY <1>1 DEF Window!Watch
  <2>2. QED
    BY <2>1, SeenSound, FrameSound
<1>2. CASE Window!Idle
  BY <1>2, DrawnSound DEF Window!Idle, Window!IdleFrame
<1>3. CASE Window!Reconnect
  <2>1. Sound(Window!Polled) /\ Window!Polled.gen < MaxStreams
    BY <1>3, PolledSound DEF Window!Reconnect
  <2>2. window' = Window!Connect([Window!Polled EXCEPT !.reconnect = FALSE])
    BY <1>3 DEF Window!Reconnect
  <2>3. QED
    BY <2>1, <2>2, ConnectSound
<1>4. CASE Window!Clicks
  BY <1>4, ClicksSound
<1>5. CASE Window!WorkerFails
  <2>1. window' = [window EXCEPT !.step = IF window.cancel THEN "ended" ELSE "failed"]
    BY <1>5 DEF Window!WorkerFails
  <2>2. /\ DOMAIN window' = Fields /\ window'.step = (IF window.cancel THEN "ended" ELSE "failed")
        /\ window'.reconnect = window.reconnect
        /\ \A x \in Fields \ {"step"} : window'[x] = window[x]
    BY <1>0, <2>1 DEF Fields
  <2>3. QED
    BY <2>2, StepSound DEF Window!Steps
<1>6. CASE Window!WorkerPublishes
  BY <1>6, PublishSound
<1>7. CASE Window!Session
  BY <1>7, SessionSound
<1>8. CASE Window!PcAnswers
  BY <1>8, AnswersSound
<1>9. CASE Window!JobEnds
  BY <1>9, JobSound
<1>10. CASE Window!DisplayChanges
  <2>1. PICK v \in {"changed", "kept"} : window' = [window EXCEPT !.display = v]
    BY <1>10 DEF Window!DisplayChanges
  <2>2. DOMAIN window' = Fields /\ window'.display = v
        /\ \A x \in Fields \ {"display"} : window'[x] = window[x]
    BY <1>0, <2>1 DEF Fields
  <2>3. QED
    BY <2>2, PlainSound
<1>11. CASE UNCHANGED Window!vars
  BY <1>11 DEF Window!vars
<1>12. QED
  BY <1>1, <1>2, <1>3, <1>4, <1>5, <1>6, <1>7, <1>8, <1>9, <1>10, <1>11 DEF Window!Next

LEMMA AppNext ==
  ASSUME Window!AppAssumption, AppInv, [Window!Next]_Window!vars
  PROVE  AppInv'
<1>1. Sound(window)'
  BY WindowSound, SMTT(40), ZenonT(60) DEF AppInv
<1>2. said' \in {said, "connect", "again", "leave"}
  BY DEF Window!Next, Window!vars, Window!Watch, Window!Idle, Window!Reconnect, Window!Clicks,
         Window!ClickDisconnect, Window!ClickRestart, Window!ClickPower, Window!ClickTurnOffHdr,
         Window!ClickFullscreen, Window!ClickConnect, Window!ClickCancel, Window!ClickTryAgain,
         Window!ClickDismiss, Window!ClickSleep, Window!ClickAsk, Window!ClickConfirm,
         Window!ClickRefuse, Window!ClickTestWake, Window!WorkerFails, Window!WorkerPublishes,
         Window!Session, Window!SessionConnects, Window!SessionFails, Window!SessionTerminates,
         Window!SessionStops, Window!SessionSays, Window!PcAnswers, Window!JobEnds,
         Window!DisplayChanges
<1>3. QED
  BY <1>1, <1>2 DEF AppInv

LEMMA AppMeans ==
  AppInv => /\ Window!TypeOK /\ Window!AskedEndIsNoFailure /\ Window!BusyWhileFixing
            /\ Window!RestartIsMeant /\ Window!WindowedWhenIdle
<1>1. SUFFICES ASSUME AppInv
               PROVE  /\ Window!TypeOK /\ Window!AskedEndIsNoFailure /\ Window!BusyWhileFixing
                      /\ Window!RestartIsMeant /\ Window!WindowedWhenIdle
  OBVIOUS
<1>2. /\ Counts(window) /\ Names(window) /\ Untaken(window) /\ Right(window)
      /\ said \in {"nothing", "connect", "again", "leave"}
  BY <1>1 DEF AppInv, Sound
<1>3. Window!TypeOK
  <2>1. window.started <= MaxJobs
    BY <1>2 DEF Counts
  <2>2. QED
    BY <1>2, <2>1 DEF Counts, Names, Untaken, Window!TypeOK
<1>4. Window!BusyWhileFixing
  BY <1>2 DEF Right, Window!BusyWhileFixing
<1>5. QED
  BY <1>2, <1>3, <1>4
     DEF Right, Window!AskedEndIsNoFailure, Window!RestartIsMeant, Window!WindowedWhenIdle

\* The window shows no failure for an end that was asked for, shows a fix only
\* while a thread is at it, keeps a restart until it is made, and leaves full
\* screen with the stream, for any number of attempts and of jobs.
THEOREM WindowKeepsItsWord ==
  ASSUME Window!AppAssumption
  PROVE  Window!Spec => [](/\ Window!TypeOK /\ Window!AskedEndIsNoFailure /\ Window!BusyWhileFixing
                           /\ Window!RestartIsMeant /\ Window!WindowedWhenIdle)
<1>1. Window!Init => AppInv
  BY AppInit
<1>2. AppInv /\ [Window!Next]_Window!vars => AppInv'
  BY AppNext
<1>3. AppInv => /\ Window!TypeOK /\ Window!AskedEndIsNoFailure /\ Window!BusyWhileFixing
                /\ Window!RestartIsMeant /\ Window!WindowedWhenIdle
  BY AppMeans
<1>4. QED
  BY <1>1, <1>2, <1>3, PTL DEF Window!Spec

-----------------------------------------------------------------------------
(* The machines that are known.                                            *)

\* Discovery's variables.
world == v1
up == v2
seen == v3
saved == v4
scan == v5
cfg == v6
online == v7
todo == v8
found == v9
list == v10
repaint == v11
drawn == v12
last == v13
target == v14
engine == v15
changes == v16
connects == v17
USE DEF world, up, seen, saved, scan, cfg, online, todo, found, list, repaint, drawn, last,
    target, engine, changes, connects

Infos == [name : BOOLEAN, mac : BOOLEAN, cert : Nat]
TargetRecords == [to : Machines, cert : Nat] \cup {Discover!Nobody}

DiscoTypes ==
  /\ world \in [Machines -> {"off", "on", "host"}] /\ engine \in [Machines -> Nat \ {0}]
  /\ up \in BOOLEAN /\ seen \subseteq Machines
  /\ saved \in [Machines -> Infos] /\ cfg \in [Machines -> Infos]
  /\ found \in [Machines -> Discover!Listing] /\ list \in [Machines -> Discover!Listing]
  /\ drawn \in [Machines -> Discover!Listing]
  /\ scan \in {"load", "status", "probe", "learn", "publish"} /\ todo \subseteq Machines
  /\ target \in TargetRecords /\ last \in TargetRecords

\* A machine is named in the file before it is known how to wake it.
Named(file) == \A m \in Machines : file[m].mac => file[m].name

\* A listing that comes from the file says nothing of what the machine does.
Undisturbed(listing) == \A m \in Machines : listing[m].remembered
  => ~listing[m].host /\ ~listing[m].online

\* What the scan has listed so far has what its copy of the file has.
Carried ==
  scan \in {"probe", "learn", "publish"} =>
    \A m \in Machines : m \notin Relays /\ m \notin todo /\ cfg[m].mac
      => found[m].in /\ found[m].mac

DiscoInv ==
  /\ DiscoTypes /\ Named(saved) /\ Named(cfg) /\ Undisturbed(found) /\ Undisturbed(list)
  /\ (scan = "probe") = (todo # {}) /\ Carried

LEMMA DiscoInit == Discover!DiscoveryAssumption /\ Discover!Init => DiscoInv
<1> SUFFICES ASSUME Discover!DiscoveryAssumption, Discover!Init PROVE DiscoInv
  OBVIOUS
<1>1. Discover!Unlisted \in Discover!Listing /\ ~Discover!Unlisted.remembered
      /\ Discover!Nobody \in TargetRecords
  BY DEF Discover!Unlisted, Discover!Listing, TargetRecords
<1>2. /\ Discover!Unknown \in Infos /\ ~Discover!Unknown.mac
      /\ Discover!Met \in Infos /\ Discover!Met.name
  BY DEF Discover!Unknown, Discover!Met, Infos
<1>3. /\ saved \in [Machines -> Infos] /\ cfg = saved /\ Named(saved)
  BY <1>2 DEF Discover!Init, Named
<1>4. /\ found \in [Machines -> Discover!Listing] /\ list = found /\ drawn = found
      /\ Undisturbed(found)
  BY <1>1 DEF Discover!Init, Undisturbed
<1>5. /\ world \in [Machines -> {"off", "on", "host"}] /\ up \in BOOLEAN /\ seen = {}
      /\ engine \in [Machines -> Nat \ {0}]
      /\ scan = "load" /\ todo = {} /\ target = Discover!Nobody /\ last = Discover!Nobody
  BY DEF Discover!Init
<1>6. QED
  BY <1>1, <1>3, <1>4, <1>5 DEF DiscoInv, DiscoTypes, Named, Undisturbed, Carried

LEMMA Told ==
  /\ Discover!Unlisted \in Discover!Listing /\ ~Discover!Unlisted.remembered
  /\ \A m \in Machines : cfg \in [Machines -> Infos] =>
       /\ Discover!Remembered(m) \in Discover!Listing /\ ~Discover!Remembered(m).host
       /\ ~Discover!Remembered(m).online
       /\ cfg[m].name => Discover!Remembered(m).in /\ Discover!Remembered(m).mac = cfg[m].mac
BY DEF Discover!Unlisted, Discover!Remembered, Discover!Listing, Infos

LEMMA InfosGrow ==
  \A i \in Infos, b \in BOOLEAN : \A met :
    met = [i EXCEPT !.name = TRUE, !.mac = @ \/ b] =>
      met \in Infos /\ met.name /\ (i.mac => met.mac) /\ met.cert = i.cert
BY DEF Infos

LEMMA ScanNext ==
  ASSUME Discover!DiscoveryAssumption, DiscoInv, Discover!Scan
  PROVE  DiscoInv' /\ Discover!NeverForgets /\ Discover!StaysWakeable
<1> USE DEF DiscoInv
<1>1. CASE Discover!Load
  <2>1. scan = "load" /\ scan' = "status" /\ cfg' = saved
        /\ UNCHANGED <<Discover!worldVars, saved, online, todo, found, list, Discover!windowVars>>
    BY <1>1 DEF Discover!Load
  <2>2. QED
    BY <2>1
       DEF Discover!worldVars, Discover!windowVars, DiscoTypes, Named, Undisturbed, Carried,
           Discover!NeverForgets, Discover!StaysWakeable
<1>2. CASE Discover!Status
  <2>1. scan = "status" /\ todo = {}
        /\ UNCHANGED <<Discover!worldVars, saved, cfg, list, Discover!windowVars>>
    BY <1>2 DEF Discover!Status
  <2>2. CASE up
    BY <1>2, <2>1, <2>2
       DEF Discover!Status, Discover!worldVars, Discover!windowVars,
           Discover!DiscoveryAssumption, DiscoTypes, Named, Undisturbed, Carried,
           Discover!NeverForgets, Discover!StaysWakeable
  <2>3. CASE ~up
    <3>1. scan' = "learn" /\ found' = [m \in Machines |-> Discover!Remembered(m)]
          /\ UNCHANGED <<online, todo>>
      BY <1>2, <2>3 DEF Discover!Status
    <3>2. /\ found' \in [Machines -> Discover!Listing]
          /\ \A m \in Machines : /\ ~found'[m].host /\ ~found'[m].online
                                 /\ cfg[m].mac => found'[m].in /\ found'[m].mac
      BY <3>1, Told DEF DiscoTypes, Named
    <3>3. QED
      BY <2>1, <3>1, <3>2
         DEF Discover!worldVars, Discover!windowVars, DiscoTypes, Named, Undisturbed, Carried,
             Discover!NeverForgets, Discover!StaysWakeable
  <2>4. QED
    BY <2>2, <2>3
<1>3. CASE Discover!Probe
  <2>1. /\ scan = "probe" /\ todo # {}
        /\ UNCHANGED <<Discover!worldVars, saved, cfg, online, list, repaint, Discover!windowVars>>
    BY <1>3 DEF Discover!Probe
  <2>2. PICK m \in todo :
          LET answers == m \in online /\ world[m] = "host" IN
            /\ todo' = todo \ {m}
            /\ found' = [found EXCEPT ![m] =
                 IF m \in Relays /\ ~answers THEN Discover!Unlisted
                 ELSE [in |-> TRUE, online |-> m \in online, host |-> answers,
                       mac |-> cfg[m].mac, cert |-> cfg[m].cert, remembered |-> FALSE]]
            /\ scan' = IF todo = {m} THEN "learn" ELSE "probe"
    BY <1>3 DEF Discover!Probe, Discover!KnownOf
  <2>3. found'[m] \in Discover!Listing /\ ~found'[m].remembered
    BY <2>2, Told DEF DiscoTypes, Discover!Listing, Infos
  <2>4. m \notin Relays => found'[m].in /\ found'[m].mac = cfg[m].mac
    BY <2>2 DEF DiscoTypes
  <2>5. \A n \in Machines \ {m} : found'[n] = found[n]
    BY <2>2 DEF DiscoTypes
  <2>6. found' \in [Machines -> Discover!Listing]
    BY <2>2, <2>3 DEF DiscoTypes
  <2>7. QED
    BY <2>1, <2>2, <2>3, <2>4, <2>5, <2>6
       DEF Discover!worldVars, Discover!windowVars, DiscoTypes, Named, Undisturbed, Carried,
           Discover!NeverForgets, Discover!StaysWakeable
<1>4. CASE Discover!Learn
  <2>1. /\ scan = "learn" /\ scan' = "publish"
        /\ UNCHANGED <<Discover!worldVars, cfg, online, todo, found, list, repaint,
           Discover!windowVars>>
    BY <1>4 DEF Discover!Learn
  <2>2. CASE UNCHANGED saved
    BY <2>1, <2>2
       DEF Discover!worldVars, Discover!windowVars, DiscoTypes, Named, Undisturbed, Carried,
           Discover!NeverForgets, Discover!StaysWakeable
  <2>3. CASE saved' = [m \in Machines |->
                IF ~found[m].in \/ found[m].remembered THEN saved[m]
                ELSE [saved[m] EXCEPT !.name = TRUE, !.mac = @ \/ found[m].host]]
    <3>1. ASSUME NEW m \in Machines
          PROVE  /\ saved'[m] \in Infos /\ (saved'[m].mac => saved'[m].name)
                 /\ (saved[m].name => saved'[m].name) /\ (saved[m].mac => saved'[m].mac)
                 /\ saved'[m].cert = saved[m].cert
      <4>1. saved[m] \in Infos /\ found[m].host \in BOOLEAN
        BY DEF DiscoTypes, Discover!Listing
      <4>2. CASE ~found[m].in \/ found[m].remembered
        BY <2>3, <4>1, <4>2 DEF Named
      <4>3. CASE ~(~found[m].in \/ found[m].remembered)
        <5>1. saved'[m] = [saved[m] EXCEPT !.name = TRUE, !.mac = @ \/ found[m].host]
          BY <2>3, <4>3
        <5>2. /\ saved'[m] \in Infos /\ saved'[m].name /\ (saved[m].mac => saved'[m].mac)
              /\ saved'[m].cert = saved[m].cert
          BY <4>1, <5>1, InfosGrow, SMTT(30), ZenonT(60)
        <5>3. QED
          BY <5>2
      <4>4. QED
        BY <4>2, <4>3
    <3>2. saved' \in [Machines -> Infos] /\ Named(saved)'
      BY <2>3, <3>1 DEF Named
    <3>3. Discover!NeverForgets
      BY <3>1 DEF Discover!NeverForgets
    <3>4. QED
      BY <2>1, <3>2, <3>3
         DEF Discover!worldVars, Discover!windowVars, DiscoTypes, Named, Undisturbed, Carried,
             Discover!StaysWakeable
  <2>4. QED
    BY <1>4, <2>2, <2>3 DEF Discover!Learn
<1>5. CASE Discover!Publish
  <2>1. scan = "publish" /\ scan' = "load" /\ list' = found
        /\ UNCHANGED <<Discover!worldVars, saved, cfg, online, todo, found, Discover!windowVars>>
    BY <1>5 DEF Discover!Publish
  <2>2. QED
    BY <2>1
       DEF Discover!worldVars, Discover!windowVars, DiscoTypes, Named, Undisturbed, Carried,
           Discover!NeverForgets, Discover!StaysWakeable
<1>6. QED
  BY <1>1, <1>2, <1>3, <1>4, <1>5 DEF Discover!Scan

LEMMA DiscoNext ==
  ASSUME Discover!DiscoveryAssumption, DiscoInv, [Discover!Next]_Discover!vars
  PROVE  DiscoInv' /\ Discover!NeverForgets /\ Discover!StaysWakeable
<1> USE DEF DiscoInv
<1>1. CASE Discover!World
  <2>1. UNCHANGED <<seen, saved, Discover!scanVars, list, repaint, Discover!windowVars>>
    BY <1>1 DEF Discover!World
  <2>2. /\ world' \in [Machines -> {"off", "on", "host"}] /\ up' \in BOOLEAN
        /\ engine' \in [Machines -> Nat \ {0}]
    <3>1. CASE UNCHANGED engine
      BY <1>1, <3>1 DEF Discover!World, DiscoTypes
    <3>2. ASSUME NEW m \in Machines, engine' = [engine EXCEPT ![m] = @ + 1],
                 UNCHANGED <<world, up>>
          PROVE  engine' \in [Machines -> Nat \ {0}]
      <4>1. engine[m] \in Nat \ {0} /\ engine[m] + 1 \in Nat \ {0}
        BY <3>2 DEF DiscoTypes
      <4>2. QED
        BY <3>2, <4>1 DEF DiscoTypes
    <3>3. QED
      BY <1>1, <3>1, <3>2 DEF Discover!World, DiscoTypes
  <2>3. QED
    BY <2>1, <2>2
       DEF Discover!scanVars, Discover!windowVars, DiscoTypes, Named, Undisturbed, Carried,
           Discover!NeverForgets, Discover!StaysWakeable
<1>2. CASE Discover!TailscaleSees
  BY <1>2
     DEF Discover!TailscaleSees, Discover!scanVars, Discover!windowVars, DiscoTypes, Named,
         Undisturbed, Carried, Discover!NeverForgets, Discover!StaysWakeable
<1>3. CASE Discover!Scan
  BY <1>3, ScanNext
<1>4. CASE Discover!Draw
  BY <1>4
     DEF Discover!Draw, Discover!worldVars, Discover!scanVars, DiscoTypes, Named, Undisturbed,
         Carried, Discover!NeverForgets, Discover!StaysWakeable
<1>5. CASE Discover!Connect
  <2>1. target' \in TargetRecords /\ last' = target'
        /\ UNCHANGED <<Discover!worldVars, saved, Discover!scanVars, list, repaint, drawn>>
    BY <1>5 DEF Discover!Connect, DiscoTypes, TargetRecords, Discover!Listing
  <2>2. QED
    BY <2>1
       DEF Discover!worldVars, Discover!scanVars, DiscoTypes, Named, Undisturbed, Carried,
           Discover!NeverForgets, Discover!StaysWakeable
<1>6. CASE Discover!Attempt
  <2> DEFINE m == target.to
  <2>1. /\ target # Discover!Nobody
        /\ UNCHANGED <<Discover!worldVars, Discover!scanVars, list, repaint, drawn, last>>
    BY <1>6 DEF Discover!Attempt, Discover!Mismatch, Discover!Pair, Discover!Leave
  <2>2. /\ m \in Machines /\ target.cert \in Nat /\ target \in [to : Machines, cert : Nat]
        /\ saved[m] \in Infos /\ saved \in [Machines -> Infos] /\ engine[m] \in Nat
    BY <2>1 DEF DiscoTypes, TargetRecords, Discover!Nobody
  <2>3. target' \in TargetRecords
    BY <1>6, <2>2
       DEF Discover!Attempt, Discover!Mismatch, Discover!Pair, Discover!Leave, TargetRecords
  <2>4. CASE UNCHANGED saved
    BY <2>1, <2>3, <2>4
       DEF Discover!worldVars, Discover!scanVars, DiscoTypes, Named, Undisturbed, Carried,
           Discover!NeverForgets, Discover!StaysWakeable
  <2>5. ASSUME NEW c \in Nat, c = engine[m] \/ (c = 0 /\ target.cert \notin {0, engine[m]}),
               \/ saved' = [saved EXCEPT ![m].name = TRUE, ![m].cert = c]
               \/ saved' = [saved EXCEPT ![m].cert = c]
        PROVE  DiscoInv' /\ Discover!NeverForgets /\ Discover!StaysWakeable
    <3> HIDE DEF m
    <3>1. /\ saved' \in [Machines -> Infos] /\ (saved[m].name => saved'[m].name)
          /\ (saved'[m].mac => saved'[m].name)
          /\ saved'[m].mac = saved[m].mac /\ saved'[m].cert = c
          /\ \A n \in Machines \ {m} : saved'[n] = saved[n]
      <4>1. CASE saved' = [saved EXCEPT ![m].name = TRUE, ![m].cert = c]
        <5>1. saved' = [saved EXCEPT ![m] = [@ EXCEPT !.name = TRUE, !.cert = c]]
          BY <2>2, <4>1 DEF Infos
        <5>2. [saved[m] EXCEPT !.name = TRUE, !.cert = c] \in Infos
          BY <2>2 DEF Infos
        <5>3. QED
          BY <2>2, <5>1, <5>2 DEF Infos
      <4>2. CASE saved' = [saved EXCEPT ![m].cert = c]
        <5>1. saved[m].mac => saved[m].name
          BY <2>2 DEF Named
        <5>2. [saved[m] EXCEPT !.cert = c] \in Infos
          BY <2>2 DEF Infos
        <5>3. QED
          BY <2>2, <4>2, <5>1, <5>2 DEF Infos
      <4>3. QED
        BY <2>5, <4>1, <4>2
    <3>2. Named(saved)'
      BY <2>2, <3>1 DEF Named
    <3>3. Discover!NeverForgets
      BY <2>2, <2>5, <3>1 DEF Discover!NeverForgets, m
    <3>4. QED
      BY <2>1, <2>3, <3>1, <3>2, <3>3
         DEF Discover!worldVars, Discover!scanVars, DiscoTypes, Named, Undisturbed, Carried,
             Discover!StaysWakeable
  <2>6. CASE Discover!Mismatch
    BY <2>2, <2>4, <2>5, <2>6 DEF Discover!Mismatch
  <2>7. CASE Discover!Pair
    BY <2>2, <2>4, <2>5, <2>7 DEF Discover!Pair
  <2>8. CASE Discover!Leave
    BY <2>4, <2>8 DEF Discover!Leave
  <2>9. QED
    BY <1>6, <2>6, <2>7, <2>8 DEF Discover!Attempt
<1>7. CASE UNCHANGED Discover!vars
  BY <1>7
     DEF Discover!vars, DiscoTypes, Named, Undisturbed, Carried, Discover!NeverForgets,
         Discover!StaysWakeable
<1>8. QED
  BY <1>1, <1>2, <1>3, <1>4, <1>5, <1>6, <1>7 DEF Discover!Next

LEMMA DiscoMeans == DiscoInv => Discover!TypeOK
BY DEF DiscoInv, DiscoTypes, Undisturbed, Infos, Discover!TypeOK

\* What is saved of a machine stays saved, but a certificate that is not its
\* any more, and a machine that can be woken stays in the list with what
\* wakes it, for any number of machines, changes and connections.
THEOREM MachinesAreKept ==
  ASSUME Discover!DiscoveryAssumption
  PROVE  Discover!Spec
         => []Discover!TypeOK /\ [][Discover!NeverForgets /\ Discover!StaysWakeable]_Discover!vars
<1>1. Discover!Init => DiscoInv
  BY DiscoInit
<1>2. DiscoInv /\ [Discover!Next]_Discover!vars
      => DiscoInv' /\ Discover!NeverForgets /\ Discover!StaysWakeable
  BY DiscoNext
<1>3. QED
  BY <1>1, <1>2, DiscoMeans, PTL DEF Discover!Spec

-----------------------------------------------------------------------------
(* The handover to an old PC.                                              *)

\* Handover's variables.
streamed == v1
held == v2
threads == v3
script == v4
files == v5
service == v6
handoverFaults == v7
USE DEF streamed, held, threads, script, files, service, handoverFaults

Phases == {"Preparing", "Serving", "Fetched", "Failed", "Ended"}
ThreadSteps == {"fetch", "bind", "serve", "over"}
ThreadRecords == [target : PCs, at : ThreadSteps, stop : BOOLEAN, phase : Phases]
ScriptRecords ==
  [at : {"none", "script", "download", "hash", "quit", "aside", "in", "start"}, from : Nat]
DiskRecords ==
  [path : {"none", "old", "new"}, new : {"none", "part", "new"}, old : {"none", "old", "new"}]

HandoverTypes ==
  /\ streamed \in PCs \cup {"none"} /\ threads \in Seq(ThreadRecords) /\ held \in 0..Len(threads)
  /\ script \in [PCs -> ScriptRecords] /\ files \in [PCs -> DiskRecords]
  /\ service \in [PCs -> {"none", "old", "new"}]
  /\ \A p \in PCs : script[p].from <= Len(threads)

OneServes == \A i, j \in 1..Len(threads) : threads[i].at = "serve" /\ threads[j].at = "serve"
  => i = j

\* A PC without a file at the path has the old one aside, and a script that
\* has checked what it fetched finds it as it was.
DiskOf(d, step) ==
  /\ d.path = "none" => d.old # "none"
  /\ step \in {"quit", "aside", "in"} => d.new = "new"
  /\ step = "start" => d.path = "new" /\ d.new = "none"

Disks == \A p \in PCs : DiskOf(files[p], script[p].at)

Reached == \A p \in PCs : files[p].new # "none" => \E i \in 1..Len(threads) : threads[i].target = p

HandoverInv == HandoverTypes /\ OneServes /\ Disks /\ Reached

-----------------------------------------------------------------------------
LEMMA ThreadFields ==
  \A r \in ThreadRecords : r.target \in PCs /\ r.at \in ThreadSteps /\ r.stop \in BOOLEAN
    /\ r.phase \in Phases
BY DEF ThreadRecords

Stepped(r, a, ph) == [r EXCEPT !.at = a, !.phase = ph]

LEMMA ThreadChanged ==
  \A r \in ThreadRecords : \A a \in ThreadSteps : \A ph \in Phases :
    /\ Stepped(r, a, ph) \in ThreadRecords
    /\ Stepped(r, a, ph).target = r.target /\ Stepped(r, a, ph).at = a
BY DEF ThreadRecords, Stepped

LEMMA ThreadStopped ==
  \A r \in ThreadRecords :
    /\ [r EXCEPT !.stop = TRUE] \in ThreadRecords
    /\ [r EXCEPT !.stop = TRUE].target = r.target /\ [r EXCEPT !.stop = TRUE].at = r.at
BY DEF ThreadRecords

\* A step of one thread leaves the others, and whom they are for.
Moved(s, i, a, ph) == [s EXCEPT ![i].at = a, ![i].phase = ph]
OneStopped(s, i) == [s EXCEPT ![i].stop = TRUE]
HeldStopped(s, h) == [i \in DOMAIN s |-> IF i = h THEN [s[i] EXCEPT !.stop = TRUE] ELSE s[i]]

LEMMA MovedIsOwn ==
  \A s \in Seq(ThreadRecords) : \A i \in 1..Len(s) : \A a \in ThreadSteps : \A ph \in Phases :
    /\ Moved(s, i, a, ph) \in Seq(ThreadRecords) /\ Len(Moved(s, i, a, ph)) = Len(s)
    /\ \A j \in 1..Len(s) : /\ Moved(s, i, a, ph)[j].target = s[j].target
                            /\ Moved(s, i, a, ph)[j].at = IF j = i THEN a ELSE s[j].at
<1>0. SUFFICES ASSUME NEW s \in Seq(ThreadRecords), NEW i \in 1..Len(s), NEW a \in ThreadSteps,
                      NEW ph \in Phases
               PROVE  /\ Moved(s, i, a, ph) \in Seq(ThreadRecords)
                      /\ Len(Moved(s, i, a, ph)) = Len(s)
                      /\ \A j \in 1..Len(s) :
                           /\ Moved(s, i, a, ph)[j].target = s[j].target
                           /\ Moved(s, i, a, ph)[j].at = IF j = i THEN a ELSE s[j].at
  OBVIOUS
<1> DEFINE r == Stepped(s[i], a, ph)
<1>1. s \in [1..Len(s) -> ThreadRecords] /\ s[i] \in ThreadRecords
  BY LenProperties
<1>2. r \in ThreadRecords /\ r.target = s[i].target /\ r.at = a
  BY <1>1, ThreadChanged
<1>3. Moved(s, i, a, ph) = [s EXCEPT ![i] = r]
  BY <1>1 DEF Moved, Stepped
<1> HIDE DEF r
<1>4. /\ [s EXCEPT ![i] = r] \in Seq(ThreadRecords) /\ Len([s EXCEPT ![i] = r]) = Len(s)
      /\ \A j \in 1..Len(s) : [s EXCEPT ![i] = r][j] = IF j = i THEN r ELSE s[j]
  BY <1>2, ExceptSeq
<1>5. QED
  BY <1>2, <1>3, <1>4

LEMMA StoppedIsSame ==
  \A s \in Seq(ThreadRecords) : \A i \in 1..Len(s) :
    /\ OneStopped(s, i) \in Seq(ThreadRecords) /\ Len(OneStopped(s, i)) = Len(s)
    /\ \A j \in 1..Len(s) : /\ OneStopped(s, i)[j].target = s[j].target
                            /\ OneStopped(s, i)[j].at = s[j].at
<1>0. SUFFICES ASSUME NEW s \in Seq(ThreadRecords), NEW i \in 1..Len(s)
               PROVE  /\ OneStopped(s, i) \in Seq(ThreadRecords) /\ Len(OneStopped(s, i)) = Len(s)
                      /\ \A j \in 1..Len(s) : /\ OneStopped(s, i)[j].target = s[j].target
                                              /\ OneStopped(s, i)[j].at = s[j].at
  OBVIOUS
<1> DEFINE r == [s[i] EXCEPT !.stop = TRUE]
<1>1. s \in [1..Len(s) -> ThreadRecords] /\ s[i] \in ThreadRecords
  BY LenProperties
<1>2. r \in ThreadRecords /\ r.target = s[i].target /\ r.at = s[i].at
  BY <1>1, ThreadStopped
<1>3. OneStopped(s, i) = [s EXCEPT ![i] = r]
  BY <1>1 DEF OneStopped
<1> HIDE DEF r
<1>4. /\ [s EXCEPT ![i] = r] \in Seq(ThreadRecords) /\ Len([s EXCEPT ![i] = r]) = Len(s)
      /\ \A j \in 1..Len(s) : [s EXCEPT ![i] = r][j] = IF j = i THEN r ELSE s[j]
  BY <1>2, ExceptSeq
<1>5. QED
  BY <1>2, <1>3, <1>4

LEMMA HeldStops ==
  \A s \in Seq(ThreadRecords) : \A h :
    /\ HeldStopped(s, h) \in Seq(ThreadRecords) /\ Len(HeldStopped(s, h)) = Len(s)
    /\ \A j \in 1..Len(s) : /\ HeldStopped(s, h)[j].target = s[j].target
                            /\ HeldStopped(s, h)[j].at = s[j].at
<1>0. SUFFICES ASSUME NEW s \in Seq(ThreadRecords), NEW h
               PROVE  /\ HeldStopped(s, h) \in Seq(ThreadRecords)
                      /\ Len(HeldStopped(s, h)) = Len(s)
                      /\ \A j \in 1..Len(s) : /\ HeldStopped(s, h)[j].target = s[j].target
                                              /\ HeldStopped(s, h)[j].at = s[j].at
  OBVIOUS
<1> DEFINE q == HeldStopped(s, h)
<1>1. Len(s) \in Nat /\ s \in [1..Len(s) -> ThreadRecords] /\ DOMAIN s = 1..Len(s)
  BY LenProperties
<1>2. q = [i \in 1..Len(s) |-> IF i = h THEN [s[i] EXCEPT !.stop = TRUE] ELSE s[i]]
  BY <1>1 DEF HeldStopped
<1>3. \A i \in 1..Len(s) : /\ q[i] \in ThreadRecords
                           /\ q[i].target = s[i].target /\ q[i].at = s[i].at
  BY <1>1, <1>2, ThreadStopped
<1>4. q \in [1..Len(s) -> ThreadRecords]
  BY <1>2, <1>3
<1> HIDE DEF q
<1>5. q \in Seq(ThreadRecords) /\ Len(q) = Len(s)
  BY <1>1, <1>4
<1>6. QED
  BY <1>3, <1>5 DEF q

\* A script moves on, or is over.
LEMMA ScriptFields ==
  \A r \in ScriptRecords, a \in {"download", "hash", "quit", "aside", "in", "start"} :
    /\ [r EXCEPT !.at = a] \in ScriptRecords
    /\ [r EXCEPT !.at = a].at = a /\ [r EXCEPT !.at = a].from = r.from
BY DEF ScriptRecords

LEMMA ScriptGoes ==
  ASSUME script \in [PCs -> ScriptRecords], NEW p \in PCs, NEW n \in Nat,
         \A q \in PCs : script[q].from <= n,
         NEW a \in {"none", "download", "hash", "quit", "aside", "in", "start"}, HandOver!Goto(p, a)
  PROVE  /\ script' \in [PCs -> ScriptRecords] /\ script'[p].at = a
         /\ \A q \in PCs : q # p => script'[q] = script[q]
         /\ \A q \in PCs : script'[q].from <= n
<1>1. script[p] \in ScriptRecords
  OBVIOUS
<1>2. CASE a = "none"
  <2>1. HandOver!NoScript \in ScriptRecords /\ HandOver!NoScript.at = "none"
        /\ HandOver!NoScript.from = 0
    BY DEF HandOver!NoScript, ScriptRecords
  <2>2. script' = [script EXCEPT ![p] = HandOver!NoScript]
    BY <1>2 DEF HandOver!Goto
  <2>3. QED
    BY <1>2, <2>1, <2>2
<1>3. CASE a # "none"
  <2> DEFINE r == [script[p] EXCEPT !.at = a]
  <2>0. a \in {"download", "hash", "quit", "aside", "in", "start"}
    BY <1>3
  <2>1. r \in ScriptRecords /\ r.at = a /\ r.from = script[p].from
    BY <1>1, <2>0, ScriptFields
  <2>2. script' = [script EXCEPT ![p] = r]
    BY <1>3 DEF HandOver!Goto
  <2> HIDE DEF r
  <2>3. QED
    BY <2>1, <2>2
<1>4. QED
  BY <1>2, <1>3

LEMMA DiskFields ==
  \A d \in DiskRecords : /\ d.path \in {"none", "old", "new"} /\ d.new \in {"none", "part", "new"}
                         /\ d.old \in {"none", "old", "new"}
BY DEF DiskRecords

\* What the script fetches, throws away, moves aside, moves in.
HostFetched(d, v) == [d EXCEPT !.new = v]
NoOld(d) == [d EXCEPT !.old = "none"]
Parked(d) == [d EXCEPT !.old = d.path, !.path = "none"]
Placed(d) == [d EXCEPT !.path = d.new, !.new = "none"]

LEMMA DiskChanges ==
  \A d \in DiskRecords :
    /\ \A v \in {"none", "part", "new"} :
         /\ HostFetched(d, v) \in DiskRecords /\ HostFetched(d, v).new = v
         /\ HostFetched(d, v).path = d.path /\ HostFetched(d, v).old = d.old
    /\ NoOld(d) \in DiskRecords /\ NoOld(d).old = "none" /\ NoOld(d).new = d.new
    /\ NoOld(d).path = d.path
    /\ Parked(d) \in DiskRecords /\ Parked(d).old = d.path /\ Parked(d).path = "none"
    /\ Parked(d).new = d.new
    /\ d.new = "new" => /\ Placed(d) \in DiskRecords /\ Placed(d).path = "new"
                        /\ Placed(d).new = "none"
                        /\ Placed(d).old = d.old
<1>1. \A d \in DiskRecords, v \in {"none", "part", "new"} :
         /\ HostFetched(d, v) \in DiskRecords /\ HostFetched(d, v).new = v
         /\ HostFetched(d, v).path = d.path /\ HostFetched(d, v).old = d.old
  BY DEF DiskRecords, HostFetched
<1>2. \A d \in DiskRecords :
         NoOld(d) \in DiskRecords /\ NoOld(d).old = "none" /\ NoOld(d).new = d.new
           /\ NoOld(d).path = d.path
  BY DEF DiskRecords, NoOld
<1>3. \A d \in DiskRecords :
         Parked(d) \in DiskRecords /\ Parked(d).old = d.path /\ Parked(d).path = "none"
           /\ Parked(d).new = d.new
  BY DEF DiskRecords, Parked
<1>4. \A d \in DiskRecords :
         d.new = "new" => /\ Placed(d) \in DiskRecords /\ Placed(d).path = "new"
                          /\ Placed(d).new = "none"
                          /\ Placed(d).old = d.old
  BY DEF DiskRecords, Placed
<1>5. QED
  BY <1>1, <1>2, <1>3, <1>4

LEMMA HandoverInit == HandOver!HandoverAssumption /\ HandOver!Init => HandoverInv
<1>1. SUFFICES ASSUME HandOver!Init PROVE HandoverInv
  OBVIOUS
<1>2. threads = <<>> /\ threads \in Seq(ThreadRecords) /\ Len(threads) = 0
  BY <1>1 DEF HandOver!Init
<1>3. HandOver!NoScript \in ScriptRecords /\ HandOver!NoScript.at = "none"
      /\ HandOver!NoScript.from = 0
  BY DEF HandOver!NoScript, ScriptRecords
<1>4. [path |-> "old", new |-> "none", old |-> "none"] \in DiskRecords
  BY DEF DiskRecords
<1>5. HandoverTypes
  BY <1>1, <1>2, <1>3, <1>4 DEF HandOver!Init, HandoverTypes
<1>6. OneServes
  BY <1>2 DEF OneServes
<1>7. Disks /\ Reached
  BY <1>1, <1>3 DEF HandOver!Init, Disks, DiskOf, Reached
<1>8. QED
  BY <1>1, <1>5, <1>6, <1>7 DEF HandOver!Init, HandoverInv

LEMMA HandoverNext ==
  ASSUME HandOver!HandoverAssumption, HandoverInv, [HandOver!Next]_HandOver!vars
  PROVE  HandoverInv'
<1>i. HandoverTypes /\ OneServes /\ Disks /\ Reached
  BY DEF HandoverInv
<1>l. Len(threads) \in Nat /\ DOMAIN threads = 1..Len(threads) /\ held \in 0..Len(threads)
  BY <1>i, LenProperties DEF HandoverTypes
<1>z. ASSUME HandoverTypes', OneServes', Disks', Reached'
             PROVE HandoverInv'
  BY <1>z DEF HandoverInv
\* A step of one of the Mac's threads.
<1>m. ASSUME NEW i \in 1..Len(threads), NEW a \in ThreadSteps, NEW ph \in Phases,
             HandOver!Thread(i, a, ph)
      PROVE  /\ threads' \in Seq(ThreadRecords) /\ Len(threads') = Len(threads)
             /\ \A j \in 1..Len(threads) : /\ threads'[j].target = threads[j].target
                                           /\ threads'[j].at = IF j = i THEN a ELSE threads[j].at
  <2>1. threads' = Moved(threads, i, a, ph) /\ threads \in Seq(ThreadRecords)
    BY <1>i, <1>m DEF HandOver!Thread, Moved, HandoverTypes
  <2>2. QED
    BY <2>1, MovedIsOwn
\* The threads change, for the same PCs, and nothing on the PCs does.
<1>t. ASSUME threads' \in Seq(ThreadRecords), Len(threads') = Len(threads),
             \A j \in 1..Len(threads) : threads'[j].target = threads[j].target,
             OneServes', streamed' = streamed, held' \in 0..Len(threads),
               UNCHANGED <<files, service>>,
             script' \in [PCs -> ScriptRecords], \A p \in PCs : script'[p].from <= Len(threads),
             \A p \in PCs : script'[p].at = script[p].at \/ script'[p].at \in {"none", "script"}
      PROVE  HandoverInv'
  <2>1. HandoverTypes'
    BY <1>i, <1>t DEF HandoverTypes
  <2>2. Disks'
    BY <1>i, <1>t DEF Disks, DiskOf
  <2>3. Reached'
    BY <1>i, <1>t DEF Reached
  <2>4. QED
    BY <1>z, <1>t, <2>1, <2>2, <2>3
\* A PC's script takes a step, with the files it leaves.
<1>p. ASSUME NEW p \in PCs, NEW a \in {"none", "download", "hash", "quit", "aside", "in", "start"},
             HandOver!Goto(p, a), files' \in [PCs -> DiskRecords],
               service' \in [PCs -> {"none", "old", "new"}],
             \A q \in PCs : q # p => files'[q] = files[q], DiskOf(files'[p], a),
             threads' \in Seq(ThreadRecords), Len(threads') = Len(threads),
             \A j \in 1..Len(threads) : threads'[j].target = threads[j].target, OneServes',
             files'[p].new # "none"
               => files[p].new # "none" \/ \E i \in 1..Len(threads) : threads[i].target = p,
             UNCHANGED <<streamed, held>>
      PROVE  HandoverInv'
  <2>1. /\ script \in [PCs -> ScriptRecords] /\ \A q \in PCs : script[q].from <= Len(threads)
    BY <1>i DEF HandoverTypes
  <2>2. /\ script' \in [PCs -> ScriptRecords] /\ script'[p].at = a
        /\ \A q \in PCs : q # p => script'[q] = script[q]
        /\ \A q \in PCs : script'[q].from <= Len(threads)
    BY <1>l, <1>p, <2>1, ScriptGoes
  <2>3. HandoverTypes'
    BY <1>i, <1>p, <2>2 DEF HandoverTypes
  <2>4. Disks'
    BY <1>i, <1>p, <2>2 DEF Disks
  <2>5. Reached'
    BY <1>i, <1>p DEF Reached
  <2>6. QED
    BY <1>z, <1>p, <2>3, <2>4, <2>5
<1>o. UNCHANGED threads => OneServes'
  BY <1>i DEF OneServes
<1>y. threads \in Seq(ThreadRecords) /\ script \in [PCs -> ScriptRecords]
      /\ files \in [PCs -> DiskRecords] /\ service \in [PCs -> {"none", "old", "new"}]
      /\ \A p \in PCs : script[p].from <= Len(threads)
  BY <1>i DEF HandoverTypes
\* A script's step that leaves the Mac's threads alone.
<1>q. ASSUME NEW p \in PCs, NEW a \in {"none", "download", "hash", "quit", "aside", "in", "start"},
             HandOver!Goto(p, a), files' \in [PCs -> DiskRecords],
               service' \in [PCs -> {"none", "old", "new"}],
             \A q \in PCs : q # p => files'[q] = files[q], DiskOf(files'[p], a),
             files'[p].new # "none"
               => files[p].new # "none", UNCHANGED <<streamed, held, threads>>
      PROVE  HandoverInv'
  BY <1>o, <1>p, <1>q, <1>y
<1>1. CASE HandOver!Stream
  <2>1. streamed' \in PCs \cup {"none"}
        /\ UNCHANGED <<held, threads, script, files, service>>
    BY <1>1 DEF HandOver!Stream
  <2>2. HandoverTypes'
    BY <1>i, <2>1 DEF HandoverTypes
  <2>3. OneServes' /\ Disks' /\ Reached'
    BY <1>i, <2>1 DEF OneServes, Disks, Reached
  <2>4. QED
    BY <1>z, <2>2, <2>3
<1>2. CASE HandOver!StartHandover
  <2> DEFINE s == HeldStopped(threads, held)
             r == [target |-> streamed, at |-> "fetch", stop |-> FALSE, phase |-> "Preparing"]
  <2>1. /\ threads' = Append(s, r) /\ held' = Len(threads) + 1 /\ streamed # "none"
        /\ UNCHANGED <<streamed, script, files, service>>
    BY <1>2 DEF HandOver!StartHandover, HeldStopped
  <2>2. r \in ThreadRecords /\ r.at = "fetch"
    BY <1>i, <2>1 DEF HandoverTypes, ThreadRecords, ThreadSteps, Phases
  <2>3. /\ s \in Seq(ThreadRecords) /\ Len(s) = Len(threads)
        /\ \A j \in 1..Len(threads) : s[j].target = threads[j].target /\ s[j].at = threads[j].at
    BY <1>y, HeldStops
  <2> HIDE DEF s, r
  <2>4. /\ threads' \in Seq(ThreadRecords) /\ Len(threads') = Len(threads) + 1
        /\ \A j \in 1..Len(threads) : threads'[j] = s[j]
        /\ threads'[Len(threads) + 1] = r
    BY <2>1, <2>2, <2>3, AppendProperties
  <2>5. \A j \in 1..Len(threads) : threads'[j].target = threads[j].target
        /\ threads'[j].at = threads[j].at
    BY <2>3, <2>4
  <2>6. HandoverTypes'
    BY <1>i, <1>l, <2>1, <2>4 DEF HandoverTypes, ScriptRecords
  <2>7. OneServes'
    <3>1. SUFFICES ASSUME NEW i \in 1..(Len(threads) + 1), NEW j \in 1..(Len(threads) + 1),
                          threads'[i].at = "serve", threads'[j].at = "serve"
                   PROVE  i = j
      BY <2>4 DEF OneServes
    <3>2. i # Len(threads) + 1 /\ j # Len(threads) + 1
      BY <2>2, <2>4, <3>1
    <3>3. i \in 1..Len(threads) /\ j \in 1..Len(threads)
      BY <1>l, <3>2
    <3>4. QED
      BY <1>i, <2>5, <3>1, <3>3 DEF OneServes
  <2>8. Disks'
    BY <1>i, <2>1 DEF Disks
  <2>9. Reached'
    <3>1. 1..Len(threads) \subseteq 1..Len(threads')
      BY <1>l, <2>4
    <3>2. QED
      BY <1>i, <2>1, <2>5, <3>1, SMTT(40), ZenonT(60) DEF Reached
  <2>10. QED
    BY <1>z, <2>6, <2>7, <2>8, <2>9
<1>3. CASE HandOver!TendHandover
  <2>1. /\ held \in 1..Len(threads) /\ held' = 0 /\ UNCHANGED <<streamed, script, files, service>>
        /\ \/ threads' = OneStopped(threads, held)
           \/ UNCHANGED threads
    BY <1>l, <1>3 DEF HandOver!TendHandover, OneStopped
  <2>3. /\ threads' \in Seq(ThreadRecords) /\ Len(threads') = Len(threads)
        /\ \A j \in 1..Len(threads) : threads'[j].target = threads[j].target
           /\ threads'[j].at = threads[j].at
    BY <1>y, <2>1, StoppedIsSame
  <2>4. HandoverTypes'
    BY <1>i, <1>l, <2>1, <2>3 DEF HandoverTypes
  <2>5. OneServes' /\ Reached'
    BY <1>i, <2>1, <2>3 DEF OneServes, Reached
  <2>6. Disks'
    BY <1>i, <2>1 DEF Disks
  <2>7. QED
    BY <1>z, <2>4, <2>5, <2>6
<1>4. ASSUME NEW i \in DOMAIN threads, HandOver!Mac(i) PROVE HandoverInv'
  <2>0. i \in 1..Len(threads) /\ threads[i] \in ThreadRecords /\ threads[i].phase \in Phases
    BY <1>l, <1>y, ElementOfSeq, ThreadFields
  \* A thread's step to one that does not serve, or of the one that does.
  <2>s. ASSUME NEW a \in ThreadSteps, NEW ph \in Phases, HandOver!Thread(i, a, ph),
               a = "serve" => \A j \in 1..Len(threads) : threads[j].at = "serve" => j = i
        PROVE  OneServes'
    BY <1>i, <1>m, <2>0, <2>s DEF OneServes
  <2>n. ASSUME NEW a \in ThreadSteps, NEW ph \in Phases, HandOver!Thread(i, a, ph),
               a = "serve" => \A j \in 1..Len(threads) : threads[j].at = "serve" => j = i,
               UNCHANGED <<streamed, held, script, files, service>>
        PROVE  HandoverInv'
    BY <1>l, <1>m, <1>t, <1>y, <2>0, <2>n, <2>s
  <2>1. CASE HandOver!Fetch(i)
    <3>1. /\ \/ HandOver!Thread(i, "bind", "Preparing")
             \/ HandOver!Thread(i, "over", "Failed")
          /\ UNCHANGED <<streamed, held, script, files, service>>
      BY <2>1 DEF HandOver!Fetch
    <3>2. QED
      BY <2>n, <3>1 DEF ThreadSteps, Phases
  <2>2. CASE HandOver!Bind(i)
    <3>1. /\ \/ HandOver!Thread(i, "over", "Failed")
             \/ HandOver!Thread(i, "serve", "Preparing")
                /\ \A j \in 1..Len(threads) : threads[j].at # "serve"
          /\ UNCHANGED <<streamed, held, script, files, service>>
      BY <1>l, <2>2 DEF HandOver!Bind
    <3>2. QED
      BY <2>n, <3>1 DEF ThreadSteps, Phases
  <2>3. CASE HandOver!Type(i)
    <3> DEFINE p == threads[i].target
    <3>1. /\ threads[i].at = "serve" /\ HandOver!Thread(i, "serve", "Serving")
          /\ script' = IF streamed = p /\ script[p].at = "none"
                         THEN [script EXCEPT ![p] = [at |-> "script", from |-> i]] ELSE script
          /\ UNCHANGED <<streamed, held, files, service>>
      BY <2>3 DEF HandOver!Type
    <3>2. p \in PCs /\ "serve" \in ThreadSteps /\ "Serving" \in Phases
      BY <2>0, ThreadFields DEF ThreadSteps, Phases
    <3>3. OneServes'
      BY <1>i, <2>0, <2>s, <3>1, <3>2 DEF OneServes
    <3>4. [at |-> "script", from |-> i] \in ScriptRecords /\ i <= Len(threads)
      BY <1>l, <2>0 DEF ScriptRecords
    <3>5. /\ script' \in [PCs -> ScriptRecords] /\ \A q \in PCs : script'[q].from <= Len(threads)
          /\ \A q \in PCs : script'[q].at = script[q].at \/ script'[q].at = "script"
      BY <1>y, <3>1, <3>2, <3>4
    <3>6. /\ threads' \in Seq(ThreadRecords) /\ Len(threads') = Len(threads)
          /\ \A j \in 1..Len(threads) : threads'[j].target = threads[j].target
      BY <1>m, <2>0, <3>1, <3>2
    <3>7. QED
      BY <1>l, <1>t, <3>1, <3>3, <3>5, <3>6
  <2>4. CASE HandOver!Over(i)
    <3>1. /\ \/ HandOver!Thread(i, "over", "Fetched")
             \/ HandOver!Thread(i, "over", "Ended")
          /\ UNCHANGED <<streamed, held, script, files, service>>
      BY <2>4 DEF HandOver!Over
    <3>2. QED
      BY <2>n, <3>1 DEF ThreadSteps, Phases
  <2>5. QED
    BY <1>4, <2>1, <2>2, <2>3, <2>4 DEF HandOver!Mac
<1>5. ASSUME NEW p \in PCs, HandOver!PC(p) \/ HandOver!Restart(p) PROVE HandoverInv'
  <2>0. DiskOf(files[p], script[p].at) /\ files[p] \in DiskRecords
    BY <1>i, <1>y DEF Disks
  <2>1. CASE HandOver!GetScript(p)
    <3>1. /\ \/ HandOver!Goto(p, "download")
             \/ HandOver!Goto(p, "none")
          /\ UNCHANGED <<streamed, held, threads, files, service>>
      BY <2>1 DEF HandOver!GetScript
    <3>2. DiskOf(files[p], "download") /\ DiskOf(files[p], "none")
      BY <2>0 DEF DiskOf
    <3>3. QED
      BY <1>q, <1>y, <3>1, <3>2
  <2>2. CASE HandOver!Download(p)
    <3>1. CASE \E i \in DOMAIN threads :
                 /\ HandOver!Answers(i, p) /\ HandOver!Thread(i, "serve", "Fetched")
                 /\ \/ files' = [files EXCEPT ![p].new = "new"]
                    \/ files' = [files EXCEPT ![p].new = "part"]
                 /\ HandOver!Goto(p, "hash") /\ UNCHANGED <<streamed, held, service>>
      <4>1. PICK i \in DOMAIN threads :
                 /\ HandOver!Answers(i, p) /\ HandOver!Thread(i, "serve", "Fetched")
                 /\ \/ files' = [files EXCEPT ![p].new = "new"]
                    \/ files' = [files EXCEPT ![p].new = "part"]
                 /\ HandOver!Goto(p, "hash") /\ UNCHANGED <<streamed, held, service>>
        BY <3>1
      <4>2. i \in 1..Len(threads) /\ threads[i].at = "serve" /\ threads[i].target = p
        BY <1>l, <4>1 DEF HandOver!Answers
      <4>3. "serve" \in ThreadSteps /\ "Fetched" \in Phases
        BY DEF ThreadSteps, Phases
      <4>4. /\ threads' \in Seq(ThreadRecords) /\ Len(threads') = Len(threads)
            /\ \A j \in 1..Len(threads) : /\ threads'[j].target = threads[j].target
                                          /\ threads'[j].at = IF j = i THEN "serve"
                                             ELSE threads[j].at
        BY <1>m, <4>1, <4>2, <4>3
      <4>5. OneServes'
        BY <1>i, <4>2, <4>4 DEF OneServes
      <4>6. PICK v \in {"part", "new"} : files' = [files EXCEPT ![p] = HostFetched(files[p], v)]
        BY <4>1 DEF HostFetched
      <4> DEFINE e == HostFetched(files[p], v)
      <4>7. e \in DiskRecords /\ e.new = v /\ e.path = files[p].path /\ e.old = files[p].old
        BY <2>0, DiskChanges
      <4> HIDE DEF e
      <4>8. files' = [files EXCEPT ![p] = e]
        BY <4>6 DEF e
      <4>9. /\ files' \in [PCs -> DiskRecords] /\ files'[p] = e
            /\ \A q \in PCs : q # p => files'[q] = files[q]
        BY <1>y, <4>7, <4>8
      <4>10. DiskOf(files'[p], "hash")
        BY <2>0, <4>7, <4>9 DEF DiskOf
      <4>11. service' \in [PCs -> {"none", "old", "new"}]
        BY <1>y, <4>1
      <4>12. \E j \in 1..Len(threads) : threads[j].target = p
        BY <4>2
      <4>13. QED
        BY <1>p, <4>1, <4>4, <4>5, <4>9, <4>10, <4>11, <4>12
    <3>2. CASE HandOver!Goto(p, "none")
               /\ UNCHANGED <<streamed, held, threads, files, service>>
      <4>1. DiskOf(files[p], "none")
        BY <2>0 DEF DiskOf
      <4>2. QED
        BY <1>q, <1>y, <3>2, <4>1
    <3>3. QED
      BY <2>2, <3>1, <3>2 DEF HandOver!Download
  <2>3. CASE HandOver!Hash(p)
    <3>1. CASE files[p].new = "new" /\ HandOver!Goto(p, "quit")
               /\ UNCHANGED <<streamed, held, threads, files, service>>
      <4>1. DiskOf(files[p], "quit")
        BY <2>0, <3>1 DEF DiskOf
      <4>2. QED
        BY <1>q, <1>y, <3>1, <4>1
    <3>2. CASE HandOver!Goto(p, "none") /\ files' = [files EXCEPT ![p].new = "none"]
               /\ UNCHANGED <<streamed, held, threads, service>>
      <4> DEFINE e == HostFetched(files[p], "none")
      <4>1. e \in DiskRecords /\ e.new = "none" /\ e.path = files[p].path /\ e.old = files[p].old
        BY <2>0, DiskChanges
      <4>2. files' = [files EXCEPT ![p] = e]
        BY <1>y, <3>2 DEF HostFetched
      <4> HIDE DEF e
      <4>3. /\ files' \in [PCs -> DiskRecords] /\ files'[p] = e
            /\ \A q \in PCs : q # p => files'[q] = files[q]
        BY <1>y, <4>1, <4>2
      <4>4. DiskOf(files'[p], "none")
        BY <2>0, <4>1, <4>3 DEF DiskOf
      <4>5. QED
        BY <1>q, <1>y, <3>2, <4>1, <4>3, <4>4
    <3>3. QED
      BY <2>3, <3>1, <3>2 DEF HandOver!Hash
  <2>4. CASE HandOver!Quit(p)
    <3>1. /\ script[p].at = "quit" /\ service' = [service EXCEPT ![p] = "none"]
          /\ HandOver!Goto(p, "aside")
          /\ UNCHANGED <<streamed, held, threads, files>>
      BY <2>4 DEF HandOver!Quit
    <3>2. DiskOf(files[p], "aside") /\ service' \in [PCs -> {"none", "old", "new"}]
      BY <1>y, <2>0, <3>1 DEF DiskOf
    <3>3. QED
      BY <1>q, <1>y, <3>1, <3>2
  <2>5. CASE HandOver!Aside(p)
    <3>0. script[p].at = "aside" /\ UNCHANGED <<streamed, held, threads, service>>
      BY <2>5 DEF HandOver!Aside
    <3>1. CASE files' = files /\ HandOver!Goto(p, "none")
      <4>1. DiskOf(files[p], "none")
        BY <2>0 DEF DiskOf
      <4>2. QED
        BY <1>q, <1>y, <3>0, <3>1, <4>1
    <3>2. CASE files' = files /\ files[p].path = "none" /\ HandOver!Goto(p, "in")
      <4>1. DiskOf(files[p], "in")
        BY <2>0, <3>0 DEF DiskOf
      <4>2. QED
        BY <1>q, <1>y, <3>0, <3>2, <4>1
    <3>3. CASE files[p].path # "none"
               /\ files' = [files EXCEPT ![p].old = files[p].path, ![p].path = "none"]
               /\ HandOver!Goto(p, "in")
      <4> DEFINE e == Parked(files[p])
      <4>1. e \in DiskRecords /\ e.old = files[p].path /\ e.path = "none" /\ e.new = files[p].new
        BY <2>0, DiskChanges
      <4>2. files' = [files EXCEPT ![p] = e]
        BY <1>y, <3>3 DEF Parked
      <4> HIDE DEF e
      <4>3. /\ files' \in [PCs -> DiskRecords] /\ files'[p] = e
            /\ \A q \in PCs : q # p => files'[q] = files[q]
        BY <1>y, <4>1, <4>2
      <4>4. DiskOf(files'[p], "in")
        BY <2>0, <3>0, <3>3, <4>1, <4>3 DEF DiskOf
      <4>5. service' \in [PCs -> {"none", "old", "new"}]
        BY <1>y, <3>0
      <4>6. QED
        BY <1>q, <3>0, <3>3, <4>1, <4>3, <4>4, <4>5
    <3>4. QED
      BY <2>5, <3>1, <3>2, <3>3 DEF HandOver!Aside
  <2>6. CASE HandOver!MoveIn(p)
    <3>0. script[p].at = "in" /\ UNCHANGED <<streamed, held, threads, service>>
          /\ files[p].new = "new"
      BY <2>0, <2>6 DEF HandOver!MoveIn, DiskOf
    <3>5. service' \in [PCs -> {"none", "old", "new"}]
      BY <1>y, <3>0
    <3>1. CASE files' = [files EXCEPT ![p].path = files[p].new, ![p].new = "none"]
               /\ HandOver!Goto(p, "start")
      <4> DEFINE e == Placed(files[p])
      <4>1. e \in DiskRecords /\ e.path = "new" /\ e.new = "none" /\ e.old = files[p].old
        BY <2>0, <3>0, DiskChanges
      <4>2. files' = [files EXCEPT ![p] = e]
        BY <1>y, <3>1 DEF Placed
      <4> HIDE DEF e
      <4>3. /\ files' \in [PCs -> DiskRecords] /\ files'[p] = e
            /\ \A q \in PCs : q # p => files'[q] = files[q]
        BY <1>y, <4>1, <4>2
      <4>4. DiskOf(files'[p], "start")
        BY <4>1, <4>3 DEF DiskOf
      <4>5. QED
        BY <1>q, <3>0, <3>1, <3>5, <4>1, <4>3, <4>4
    <3>2. CASE HandOver!Goto(p, "none") /\ files' = [files EXCEPT ![p].new = "none"]
      <4> DEFINE e == HostFetched(files[p], "none")
      <4>1. e \in DiskRecords /\ e.new = "none" /\ e.path = files[p].path /\ e.old = files[p].old
        BY <2>0, DiskChanges
      <4>2. files' = [files EXCEPT ![p] = e]
        BY <1>y, <3>2 DEF HostFetched
      <4> HIDE DEF e
      <4>3. /\ files' \in [PCs -> DiskRecords] /\ files'[p] = e
            /\ \A q \in PCs : q # p => files'[q] = files[q]
        BY <1>y, <4>1, <4>2
      <4>4. DiskOf(files'[p], "none")
        BY <2>0, <4>1, <4>3 DEF DiskOf
      <4>5. QED
        BY <1>q, <3>0, <3>2, <3>5, <4>1, <4>3, <4>4
    <3>3. QED
      BY <2>6, <3>1, <3>2 DEF HandOver!MoveIn
  <2>7. CASE HandOver!Start(p)
    <3>0. /\ script[p].at = "start" /\ files' = [files EXCEPT ![p].old = "none"]
          /\ HandOver!Goto(p, "none")
          /\ service' = [service EXCEPT ![p] = files[p].path]
          /\ UNCHANGED <<streamed, held, threads>>
      BY <2>7 DEF HandOver!Start
    <3> DEFINE e == NoOld(files[p])
    <3>1. e \in DiskRecords /\ e.old = "none" /\ e.new = files[p].new /\ e.path = files[p].path
      BY <2>0, DiskChanges
    <3>2. files' = [files EXCEPT ![p] = e]
      BY <1>y, <3>0 DEF NoOld
    <3> HIDE DEF e
    <3>3. /\ files' \in [PCs -> DiskRecords] /\ files'[p] = e
          /\ \A q \in PCs : q # p => files'[q] = files[q]
      BY <1>y, <3>1, <3>2
    <3>4. DiskOf(files'[p], "none") /\ files[p].path = "new"
      BY <2>0, <3>0, <3>1, <3>3 DEF DiskOf
    <3>5. service' \in [PCs -> {"none", "old", "new"}]
      BY <1>y, <3>0, <3>4
    <3>6. QED
      BY <1>q, <3>0, <3>1, <3>3, <3>4, <3>5
  <2>8. CASE HandOver!Restart(p)
    <3>0. /\ HandOver!Goto(p, "none") /\ service' = [service EXCEPT ![p] = files[p].path]
          /\ UNCHANGED <<streamed, held, threads, files>>
      BY <2>8 DEF HandOver!Restart
    <3>1. files[p].path \in {"none", "old", "new"}
      BY <2>0, DiskFields
    <3>2. service' \in [PCs -> {"none", "old", "new"}]
      BY <1>y, <3>0, <3>1
    <3>3. DiskOf(files[p], "none")
      BY <2>0 DEF DiskOf
    <3>4. QED
      BY <1>q, <1>y, <3>0, <3>2, <3>3
  <2>9. QED
    BY <1>5, <2>1, <2>2, <2>3, <2>4, <2>5, <2>6, <2>7, <2>8 DEF HandOver!PC
<1>6. CASE UNCHANGED HandOver!vars
  <2>1. UNCHANGED <<streamed, held, threads, script, files, service>>
    BY <1>6 DEF HandOver!vars
  <2>2. HandoverTypes'
    BY <1>i, <2>1 DEF HandoverTypes
  <2>3. OneServes' /\ Disks' /\ Reached'
    BY <1>i, <2>1 DEF OneServes, Disks, Reached
  <2>4. QED
    BY <1>z, <2>2, <2>3
<1>7. QED
  BY <1>1, <1>2, <1>3, <1>4, <1>5, <1>6 DEF HandOver!Next

LEMMA HandoverMeans ==
  HandoverInv => HandOver!TypeOK /\ HandOver!WholeHostSomewhere /\ HandOver!OnlyItsPc
<1>1. SUFFICES ASSUME HandoverInv
               PROVE  HandOver!TypeOK /\ HandOver!WholeHostSomewhere /\ HandOver!OnlyItsPc
  OBVIOUS
<1>2. HandoverTypes /\ OneServes /\ Disks /\ Reached
  BY <1>1 DEF HandoverInv
<1>3. Len(threads) \in Nat /\ DOMAIN threads = 1..Len(threads)
  BY <1>2, LenProperties DEF HandoverTypes
<1>4. \A i \in DOMAIN threads : threads[i] \in ThreadRecords
  BY <1>2, <1>3, ElementOfSeq DEF HandoverTypes
<1>5. \A i \in DOMAIN threads :
        /\ threads[i].target \in PCs /\ threads[i].stop \in BOOLEAN
        /\ threads[i].at \in {"fetch", "bind", "serve", "over"}
        /\ threads[i].phase \in HandOver!Active \cup {"Failed", "Ended"}
  BY <1>4, ThreadFields DEF ThreadSteps, Phases, HandOver!Active
<1>6. HandOver!Cardinality({i \in DOMAIN threads : threads[i].at = "serve"}) <= 1
  <2> DEFINE S == {i \in DOMAIN threads : threads[i].at = "serve"}
  <2>1. CASE S = {}
    BY <2>1, FS_EmptySet, SameCounting
  <2>2. CASE S # {}
    <3>1. PICK i \in DOMAIN threads : i \in S
      BY <2>2
    <3>2. S = {i}
      BY <1>2, <1>3, <3>1 DEF OneServes
    <3>3. HandOver!Cardinality({i}) = 1
      BY FS_Singleton, SameCounting
    <3>4. QED
      BY <3>2, <3>3
  <2>3. QED
    BY <2>1, <2>2
<1>7. \A p \in PCs : script[p] \in ScriptRecords /\ files[p] \in DiskRecords
      /\ DiskOf(files[p], script[p].at)
  BY <1>2 DEF HandoverTypes, Disks
<1>8. HandOver!TypeOK
  BY <1>2, <1>3, <1>5, <1>6, <1>7 DEF HandoverTypes, ScriptRecords, HandOver!TypeOK
<1>9. HandOver!WholeHostSomewhere
  <2>1. SUFFICES ASSUME NEW p \in PCs
                        PROVE {files[p].path, files[p].old, files[p].new} \cap {"old", "new"} # {}
    BY DEF HandOver!WholeHostSomewhere
  <2>2. files[p].path \in {"old", "new"} \/ files[p].old \in {"old", "new"}
    BY <1>7, DiskFields DEF DiskOf
  <2>3. QED
    BY <2>2
<1>10. HandOver!OnlyItsPc
  BY <1>2, <1>3, <1>7 DEF HandOver!OnlyItsPc, Reached, DiskOf
<1>11. QED
  BY <1>8, <1>9, <1>10

\* A PC always has a whole host somewhere, and only the PC that was typed on
\* gets the executable, for any number of PCs, of installs and of failures.
THEOREM HandoverIsSafe ==
  ASSUME HandOver!HandoverAssumption
  PROVE  HandOver!Spec
         => [](HandOver!TypeOK /\ HandOver!WholeHostSomewhere /\ HandOver!OnlyItsPc)
<1>1. HandOver!Init => HandoverInv
  BY HandoverInit
<1>2. HandoverInv /\ [HandOver!Next]_HandOver!vars => HandoverInv'
  BY HandoverNext
<1>3. HandoverInv => HandOver!TypeOK /\ HandOver!WholeHostSomewhere /\ HandOver!OnlyItsPc
  BY HandoverMeans
<1>4. QED
  BY <1>1, <1>2, <1>3, PTL DEF HandOver!Spec

-----------------------------------------------------------------------------
(* The app's own updates.                                                  *)

\* SelfUpdate's variables.
latest == v1
top == v2
rel == v3
ready == v4
updaterAt == v5
cached == v6
unpacked == v7
bundle == v8
stage == v9
kept == v10
running == v11
busy == v12
updating == v13
updateFaults == v14
USE DEF latest, top, rel, ready, updaterAt, cached, unpacked, bundle, stage, kept, running,
    busy, updating, updateFaults

Installing == {"install", "park", "place", "placed", "failed", "relaunch"}
Preparing == {"fetch", "unpack", "verify"}
Stages == [made : BOOLEAN, staged : 0..Updater!Torn, parked : 0..Updater!Torn]

UpdateTypes ==
  /\ latest \in 0..MaxTag /\ top \in 0..MaxTag /\ rel \in 0..MaxTag /\ ready \in 0..MaxTag
  /\ running \in 0..MaxTag /\ bundle \in 0..Updater!Torn /\ cached \subseteq Updater!Tags
  /\ unpacked \in [Updater!Tags -> 0..Updater!Torn] /\ kept \subseteq 0..Updater!Torn
  /\ stage \in Stages
  /\ updaterAt \in {"tick", "gone"} \cup Preparing \cup Installing

\* Nothing is unpacked of a release that came after the one at hand.
Newest ==
  /\ latest = top /\ rel <= latest /\ ready <= rel
  /\ \A t \in Updater!Tags : unpacked[t] # Updater!NoApp => t <= latest /\ (rel # 0 => t <= rel)

\* What is ready is unpacked as it was verified, and nothing newer is there.
ReadyIsVerified ==
  ready # 0 => /\ unpacked[ready] \in {ready, Updater!NoApp}
               /\ \A t \in Updater!Tags : t > ready => unpacked[t] = Updater!NoApp

InStep ==
  /\ updaterAt \in Preparing => rel # 0 /\ ready = 0
  /\ updaterAt \in Installing \ {"relaunch"} => ready # 0
  /\ updating \in BOOLEAN /\ (updating <=> updaterAt \in Installing)

\* The app at its path is the one that runs, or the new one that was moved
\* there; the one moved aside is the one that runs.
InPlace ==
  /\ Updater!OnlyVerified /\ Updater!AppSurvives
  /\ updaterAt \notin {"placed", "relaunch"} /\ bundle # Updater!NoApp => bundle = running
  /\ updaterAt \in {"placed", "relaunch"} => bundle # Updater!NoApp
  /\ updaterAt \in {"park", "place"} => stage.staged \in Updater!Tags
  /\ updaterAt = "place" => stage.parked = running

UpdateInv == UpdateTypes /\ Newest /\ ReadyIsVerified /\ InStep /\ InPlace

LEMMA UpdateBounds ==
  Updater!SelfUpdateAssumption
    => MaxTag \in Nat /\ Updater!NoApp = MaxTag + 1 /\ Updater!Torn = MaxTag + 2
BY DEF Updater!SelfUpdateAssumption, Updater!NoApp, Updater!Torn

LEMMA StageFields ==
  /\ Updater!SelfUpdateAssumption => Updater!NoStage \in Stages
  /\ \A s \in Stages : s.staged \in 0..Updater!Torn /\ s.parked \in 0..Updater!Torn
  /\ \A s \in Stages, v \in 0..Updater!Torn :
       /\ [s EXCEPT !.parked = v] \in Stages /\ [s EXCEPT !.staged = v] \in Stages
       /\ [s EXCEPT !.parked = v].parked = v /\ [s EXCEPT !.parked = v].staged = s.staged
       /\ [s EXCEPT !.staged = v].staged = v /\ [s EXCEPT !.staged = v].parked = s.parked
  /\ \A v \in 0..Updater!Torn, w \in 0..Updater!Torn :
     [made |-> TRUE, staged |-> v, parked |-> w] \in Stages
<1>1. Updater!SelfUpdateAssumption => Updater!NoStage \in Stages
  BY UpdateBounds DEF Stages, Updater!NoStage
<1>2. \A s \in Stages : s.staged \in 0..Updater!Torn /\ s.parked \in 0..Updater!Torn
  BY DEF Stages
<1>3. \A s \in Stages, v \in 0..Updater!Torn :
       /\ [s EXCEPT !.parked = v] \in Stages /\ [s EXCEPT !.staged = v] \in Stages
       /\ [s EXCEPT !.parked = v].parked = v /\ [s EXCEPT !.parked = v].staged = s.staged
       /\ [s EXCEPT !.staged = v].staged = v /\ [s EXCEPT !.staged = v].parked = s.parked
  BY DEF Stages
<1>4. \A v \in 0..Updater!Torn, w \in 0..Updater!Torn :
      [made |-> TRUE, staged |-> v, parked |-> w] \in Stages
  BY DEF Stages
<1>5. QED
  BY <1>1, <1>2, <1>3, <1>4

LEMMA UpdateInit == Updater!SelfUpdateAssumption /\ Updater!Init => UpdateInv
<1>1. SUFFICES ASSUME Updater!SelfUpdateAssumption, Updater!Init PROVE UpdateInv
  OBVIOUS
<1>2. UpdateTypes
  BY <1>1, UpdateBounds, StageFields DEF Updater!Init, UpdateTypes, Updater!Tags
<1>3. Newest /\ ReadyIsVerified
  BY <1>1, UpdateBounds DEF Updater!Init, Newest, ReadyIsVerified, Updater!Tags
<1>4. InStep
  BY <1>1 DEF Updater!Init, InStep, Preparing, Installing
<1>5. InPlace
  BY <1>1, UpdateBounds DEF Updater!Init, InPlace, Updater!OnlyVerified, Updater!AppSurvives
<1>6. QED
  BY <1>2, <1>3, <1>4, <1>5 DEF UpdateInv

LEMMA UpdateNext ==
  ASSUME Updater!SelfUpdateAssumption, UpdateInv, [Updater!Next]_Updater!vars
  PROVE  UpdateInv'
<1>0. MaxTag \in Nat /\ Updater!NoApp = MaxTag + 1 /\ Updater!Torn = MaxTag + 2
      /\ Updater!Tags = 1..MaxTag
  BY UpdateBounds DEF Updater!Tags
<1>i. UpdateTypes /\ Newest /\ ReadyIsVerified /\ InStep /\ InPlace
  BY DEF UpdateInv
<1>s. stage.staged \in 0..Updater!Torn /\ stage.parked \in 0..Updater!Torn
  BY <1>i, StageFields DEF UpdateTypes
<1>z. ASSUME UpdateTypes', Newest', ReadyIsVerified', InStep', InPlace' PROVE UpdateInv'
  BY <1>z DEF UpdateInv
\* Giving up forgets the release.
<1>g. ASSUME Updater!GiveUp, UNCHANGED <<latest, top, bundle, running>>,
             cached' \subseteq Updater!Tags,
             unpacked' \in [Updater!Tags -> 0..Updater!Torn], kept' \subseteq 0..Updater!Torn,
               stage' \in Stages,
             \A t \in Updater!Tags : unpacked'[t] # Updater!NoApp => t <= latest,
             bundle # Updater!NoApp => bundle = running, Updater!AppSurvives'
      PROVE  UpdateInv'
  <2>1. rel' = 0 /\ ready' = 0 /\ updaterAt' = "tick" /\ updating' = FALSE
    BY <1>g DEF Updater!GiveUp
  <2>2. UpdateTypes'
    BY <1>0, <1>i, <1>g, <2>1 DEF UpdateTypes
  <2>3. Newest' /\ ReadyIsVerified'
    BY <1>0, <1>i, <1>g, <2>1 DEF UpdateTypes, Newest, ReadyIsVerified
  <2>4. InStep'
    BY <2>1 DEF InStep, Preparing, Installing
  <2>5. InPlace'
    BY <1>i, <1>g, <2>1 DEF InPlace, Updater!OnlyVerified
  <2>6. QED
    BY <1>z, <2>2, <2>3, <2>4, <2>5
<1>1. CASE Updater!World
  <2>1. /\ UNCHANGED <<rel, ready, updaterAt, Updater!fileVars, running, updating>>
        /\ \/ top < MaxTag /\ top' = top + 1 /\ latest' = top + 1
           \/ UNCHANGED <<latest, top>>
    BY <1>1 DEF Updater!World
  <2>2. latest' \in 0..MaxTag /\ latest' >= latest /\ top' = latest'
    BY <1>0, <1>i, <2>1 DEF UpdateTypes, Newest
  <2>3. UpdateTypes'
    BY <1>i, <2>1, <2>2 DEF UpdateTypes, Updater!fileVars
  <2>4. Newest'
    BY <1>0, <1>i, <2>1, <2>2 DEF UpdateTypes, Newest, Updater!fileVars
  <2>5. ReadyIsVerified' /\ InStep' /\ InPlace'
    BY <1>i, <2>1
       DEF ReadyIsVerified, InStep, InPlace, Updater!OnlyVerified, Updater!AppSurvives,
           Updater!fileVars
  <2>6. QED
    BY <1>z, <2>3, <2>4, <2>5
<1>2. CASE Updater!LookUp
  <2>1. /\ UNCHANGED <<latest, top, ready, updaterAt, Updater!fileVars, running, updating>>
        /\ updaterAt = "tick"
        /\ \/ latest # 0 /\ rel' = latest
           \/ UNCHANGED rel
    BY <1>2 DEF Updater!LookUp
  <2>2. UpdateTypes'
    BY <1>i, <2>1 DEF UpdateTypes, Updater!fileVars
  <2>3. Newest'
    BY <1>0, <1>i, <2>1 DEF UpdateTypes, Newest, Updater!fileVars
  <2>4. ReadyIsVerified' /\ InPlace'
    BY <1>i, <2>1
       DEF ReadyIsVerified, InPlace, Updater!OnlyVerified, Updater!AppSurvives, Updater!fileVars
  <2>5. InStep'
    BY <1>i, <2>1 DEF InStep, Preparing, Installing
  <2>6. QED
    BY <1>z, <2>2, <2>3, <2>4, <2>5
<1>3. CASE Updater!Tick
  <2>1. /\ UNCHANGED <<latest, top, rel, ready, Updater!fileVars, running>> /\ updaterAt = "tick"
        /\ rel # 0
        /\ \/ ready = 0 /\ updaterAt' = "fetch" /\ UNCHANGED updating
           \/ ready # 0 /\ updaterAt' = "install" /\ updating' = TRUE
    BY <1>3 DEF Updater!Tick
  <2>2. UpdateTypes'
    BY <1>i, <2>1 DEF UpdateTypes, Updater!fileVars, Preparing, Installing
  <2>3. Newest' /\ ReadyIsVerified'
    BY <1>i, <2>1 DEF Newest, ReadyIsVerified, Updater!fileVars
  <2>4. InStep'
    <3>1. CASE ready = 0 /\ updaterAt' = "fetch" /\ UNCHANGED updating
      BY <1>i, <2>1, <3>1 DEF InStep, Preparing, Installing
    <3>2. CASE ready # 0 /\ updaterAt' = "install" /\ updating' = TRUE
      BY <2>1, <3>2 DEF InStep, Preparing, Installing
    <3>3. QED
      BY <2>1, <3>1, <3>2
  <2>5. InPlace'
    BY <1>i, <2>1 DEF InPlace, Updater!OnlyVerified, Updater!AppSurvives, Updater!fileVars
  <2>6. QED
    BY <1>z, <2>2, <2>3, <2>4, <2>5
<1>4. CASE Updater!FetchAsset
  <2>1. /\ updaterAt = "fetch" /\ UNCHANGED <<latest, top, bundle, stage, kept, running>>
        /\ unpacked' = [t \in Updater!Tags |-> IF t \in Updater!Kept(rel) THEN unpacked[t]
           ELSE Updater!NoApp]
    BY <1>4 DEF Updater!FetchAsset
  <2>2. rel \in Updater!Tags /\ ready = 0
    BY <1>0, <1>i, <2>1 DEF UpdateTypes, InStep, Preparing
  <2>3. unpacked' \in [Updater!Tags -> 0..Updater!Torn]
        /\ \A t \in Updater!Tags : unpacked'[t] # Updater!NoApp => unpacked'[t] = unpacked[t]
    BY <1>0, <1>i, <2>1 DEF UpdateTypes
  <2>4. \A t \in Updater!Tags : unpacked'[t] # Updater!NoApp => t <= latest /\ t <= rel
    BY <1>0, <1>i, <2>2, <2>3 DEF Newest
  <2>5. CASE /\ cached' = (cached \cap Updater!Kept(rel)) \cup {rel}
             /\ updaterAt' = "unpack" /\ UNCHANGED <<rel, ready, updating>>
    <3>1. UpdateTypes'
      BY <1>i, <2>1, <2>2, <2>3, <2>5 DEF UpdateTypes, Preparing
    <3>2. Newest' /\ ReadyIsVerified'
      BY <1>i, <2>1, <2>2, <2>4, <2>5 DEF Newest, ReadyIsVerified
    <3>3. InStep'
      BY <1>i, <2>1, <2>2, <2>5 DEF InStep, Preparing, Installing
    <3>4. InPlace'
      BY <1>i, <2>1, <2>5 DEF InPlace, Updater!OnlyVerified, Updater!AppSurvives
    <3>5. QED
      BY <1>z, <3>1, <3>2, <3>3, <3>4
  <2>6. CASE cached' = cached \cap Updater!Kept(rel) /\ Updater!GiveUp
    <3>1. cached' \subseteq Updater!Tags /\ kept' \subseteq 0..Updater!Torn /\ stage' \in Stages
      BY <1>i, <2>1, <2>6 DEF UpdateTypes
    <3>2. Updater!AppSurvives' /\ (bundle # Updater!NoApp => bundle = running)
      BY <1>i, <2>1 DEF InPlace, Updater!AppSurvives
    <3>3. QED
      BY <1>g, <2>1, <2>3, <2>4, <2>6, <3>1, <3>2
  <2>7. QED
    BY <1>4, <2>5, <2>6 DEF Updater!FetchAsset
<1>5. CASE Updater!Unpack
  <2>1. /\ updaterAt = "unpack" /\ UNCHANGED <<latest, top, cached, bundle, stage, kept, running>>
        /\ \/ UNCHANGED unpacked
           \/ unpacked' = [unpacked EXCEPT ![rel] = rel]
           \/ unpacked' = [unpacked EXCEPT ![rel] = Updater!Torn]
        /\ \/ Updater!GiveUp
           \/ updaterAt' = "verify" /\ UNCHANGED <<rel, ready, updating>>
    BY <1>5 DEF Updater!Unpack
  <2>2. rel \in Updater!Tags /\ ready = 0
    BY <1>0, <1>i, <2>1 DEF UpdateTypes, InStep, Preparing
  <2>3. unpacked' \in [Updater!Tags -> 0..Updater!Torn]
        /\ \A t \in Updater!Tags : unpacked'[t] # unpacked[t] => t = rel
    BY <1>0, <1>i, <2>1, <2>2, SMTT(40), ZenonT(60) DEF UpdateTypes
  <2>4. \A t \in Updater!Tags : unpacked'[t] # Updater!NoApp => t <= latest /\ t <= rel
    BY <1>0, <1>i, <2>2, <2>3 DEF Newest, UpdateTypes
  <2>5. CASE updaterAt' = "verify" /\ UNCHANGED <<rel, ready, updating>>
    <3>1. UpdateTypes'
      BY <1>i, <2>1, <2>2, <2>3, <2>5 DEF UpdateTypes, Preparing
    <3>2. Newest' /\ ReadyIsVerified'
      BY <1>i, <2>1, <2>2, <2>4, <2>5 DEF Newest, ReadyIsVerified
    <3>3. InStep'
      BY <1>i, <2>1, <2>2, <2>5 DEF InStep, Preparing, Installing
    <3>4. InPlace'
      BY <1>i, <2>1, <2>5 DEF InPlace, Updater!OnlyVerified, Updater!AppSurvives
    <3>5. QED
      BY <1>z, <3>1, <3>2, <3>3, <3>4
  <2>6. CASE Updater!GiveUp
    <3>1. cached' \subseteq Updater!Tags /\ kept' \subseteq 0..Updater!Torn /\ stage' \in Stages
      BY <1>i, <2>1 DEF UpdateTypes
    <3>2. Updater!AppSurvives' /\ (bundle # Updater!NoApp => bundle = running)
      BY <1>i, <2>1 DEF InPlace, Updater!AppSurvives
    <3>3. QED
      BY <1>g, <2>1, <2>3, <2>4, <2>6, <3>1, <3>2
  <2>7. QED
    BY <2>1, <2>5, <2>6
<1>6. CASE Updater!Verify
  <2>1. updaterAt = "verify" /\ UNCHANGED <<latest, top, bundle, stage, kept, running>>
    BY <1>6 DEF Updater!Verify
  <2>2. rel \in Updater!Tags /\ ready = 0
    BY <1>0, <1>i, <2>1 DEF UpdateTypes, InStep, Preparing
  <2>3. CASE unpacked[rel] = rel
    <3>0. ready' = rel /\ updaterAt' = "tick" /\ UNCHANGED <<rel, updating, cached, unpacked>>
      BY <1>6, <2>3 DEF Updater!Verify
    <3>1. UpdateTypes'
      BY <1>i, <2>1, <3>0 DEF UpdateTypes
    <3>2. Newest'
      BY <1>0, <1>i, <2>1, <2>2, <3>0 DEF Newest
    <3>3. ReadyIsVerified'
      BY <1>0, <1>i, <2>2, <2>3, <3>0 DEF Newest, ReadyIsVerified
    <3>4. InStep'
      BY <1>i, <2>1, <2>2, <3>0 DEF InStep, Preparing, Installing
    <3>5. InPlace'
      BY <1>i, <2>1, <3>0 DEF InPlace, Updater!OnlyVerified, Updater!AppSurvives
    <3>6. QED
      BY <1>z, <3>1, <3>2, <3>3, <3>4, <3>5
  <2>4. CASE unpacked[rel] # rel
    <3>0. unpacked' = [unpacked EXCEPT ![rel] = Updater!NoApp] /\ cached' = cached \ {rel}
          /\ Updater!GiveUp
      BY <1>6, <2>4 DEF Updater!Verify
    <3>1. cached' \subseteq Updater!Tags /\ kept' \subseteq 0..Updater!Torn /\ stage' \in Stages
      BY <1>i, <2>1, <3>0 DEF UpdateTypes
    <3>2. unpacked' \in [Updater!Tags -> 0..Updater!Torn]
          /\ \A t \in Updater!Tags : unpacked'[t] # Updater!NoApp => t <= latest
      BY <1>0, <1>i, <2>2, <3>0 DEF UpdateTypes, Newest
    <3>3. Updater!AppSurvives' /\ (bundle # Updater!NoApp => bundle = running)
      BY <1>i, <2>1 DEF InPlace, Updater!AppSurvives
    <3>4. QED
      BY <1>g, <2>1, <3>0, <3>1, <3>2, <3>3
  <2>5. QED
    BY <2>3, <2>4
<1>7. CASE Updater!Stage
  <2>1. /\ updaterAt = "install" /\ kept' = kept \cup ({stage.parked} \ {Updater!NoApp})
        /\ UNCHANGED <<latest, top, cached, unpacked, bundle, running>>
    BY <1>7 DEF Updater!Stage
  <2>2. ready # 0 /\ rel \in Updater!Tags /\ ready \in Updater!Tags /\ ready <= rel
    BY <1>0, <1>i, <2>1 DEF UpdateTypes, InStep, Installing, Newest
  <2>3. unpacked[rel] # Updater!NoApp => unpacked[rel] = rel
    BY <1>0, <1>i, <2>2 DEF ReadyIsVerified, UpdateTypes
  <2>4. kept' \subseteq 0..Updater!Torn /\ Updater!NoStage \in Stages
    BY <1>i, <1>s, <2>1, StageFields DEF UpdateTypes
  <2>5. Updater!AppSurvives' /\ (bundle # Updater!NoApp => bundle = running)
    BY <1>0, <1>i, <2>1 DEF InPlace, Updater!AppSurvives, UpdateTypes
  <2>6. CASE stage' = Updater!NoStage /\ Updater!GiveUp
    <3>1. cached' \subseteq Updater!Tags /\ unpacked' \in [Updater!Tags -> 0..Updater!Torn]
          /\ \A t \in Updater!Tags : unpacked'[t] # Updater!NoApp => t <= latest
      BY <1>i, <2>1 DEF UpdateTypes, Newest
    <3>2. QED
      BY <1>g, <2>1, <2>4, <2>5, <2>6, <3>1
  <2>7. CASE /\ stage' = [made |-> TRUE, staged |-> unpacked[rel], parked |-> Updater!NoApp]
             /\ unpacked[rel] # Updater!NoApp /\ updaterAt' = "park"
             /\ UNCHANGED <<rel, ready, updating>>
    <3>0. unpacked[rel] = rel /\ rel \in 0..Updater!Torn /\ Updater!NoApp \in 0..Updater!Torn
      BY <1>0, <2>2, <2>3, <2>7
    <3>1. stage' \in Stages /\ stage'.staged = rel /\ stage'.parked = Updater!NoApp
      BY <2>7, <3>0, StageFields
    <3>2. UpdateTypes'
      BY <1>i, <2>1, <2>4, <2>7, <3>1 DEF UpdateTypes, Installing
    <3>3. Newest' /\ ReadyIsVerified'
      BY <1>i, <2>1, <2>7 DEF Newest, ReadyIsVerified
    <3>4. InStep'
      BY <1>i, <2>1, <2>7 DEF InStep, Preparing, Installing
    <3>5. InPlace'
      BY <1>i, <2>1, <2>2, <2>5, <2>7, <3>1 DEF InPlace, Updater!OnlyVerified
    <3>6. QED
      BY <1>z, <3>2, <3>3, <3>4, <3>5
  <2>8. QED
    BY <1>7, <2>6, <2>7 DEF Updater!Stage
<1>8. CASE Updater!Park
  <2>1. /\ updaterAt = "park"
        /\ UNCHANGED <<latest, top, rel, ready, updating, cached, unpacked, kept, running>>
        /\ \/ bundle # Updater!NoApp /\ updaterAt' = "place" /\ bundle' = Updater!NoApp
              /\ stage' = [stage EXCEPT !.parked = bundle]
           \/ updaterAt' = "failed" /\ UNCHANGED <<bundle, stage>>
    BY <1>8 DEF Updater!Park
  <2>2. Newest' /\ ReadyIsVerified'
    BY <1>i, <2>1 DEF Newest, ReadyIsVerified
  <2>3. InStep'
    BY <1>i, <2>1 DEF InStep, Preparing, Installing
  <2>4. CASE /\ bundle # Updater!NoApp /\ updaterAt' = "place" /\ bundle' = Updater!NoApp
             /\ stage' = [stage EXCEPT !.parked = bundle]
    <3>1. /\ stage' \in Stages /\ stage'.parked = bundle /\ stage'.staged = stage.staged
          /\ bundle = running
      BY <1>i, <2>1, <2>4, StageFields DEF UpdateTypes, InPlace
    <3>2. UpdateTypes'
      BY <1>0, <1>i, <2>1, <2>4, <3>1 DEF UpdateTypes, Installing
    <3>3. InPlace'
      BY <1>0, <1>i, <2>1, <2>4, <3>1 DEF InPlace, Updater!OnlyVerified, Updater!AppSurvives
    <3>4. QED
      BY <1>z, <2>2, <2>3, <3>2, <3>3
  <2>5. CASE updaterAt' = "failed" /\ UNCHANGED <<bundle, stage>>
    <3>1. UpdateTypes'
      BY <1>i, <2>1, <2>5 DEF UpdateTypes, Installing
    <3>2. InPlace'
      BY <1>i, <2>1, <2>5 DEF InPlace, Updater!OnlyVerified, Updater!AppSurvives
    <3>3. QED
      BY <1>z, <2>2, <2>3, <3>1, <3>2
  <2>6. QED
    BY <2>1, <2>4, <2>5
<1>9. CASE Updater!Place
  <2>1. /\ updaterAt = "place"
        /\ UNCHANGED <<latest, top, rel, ready, updating, cached, unpacked, kept, running>>
        /\ \/ bundle' = stage.staged /\ stage' = [stage EXCEPT !.staged = Updater!NoApp]
              /\ updaterAt' = "placed"
           \/ updaterAt' = "failed" /\ bundle' = stage.parked
              /\ stage' = [stage EXCEPT !.parked = Updater!NoApp]
           \/ updaterAt' = "failed" /\ UNCHANGED <<bundle, stage>>
    BY <1>9 DEF Updater!Place
  <2>2. Newest' /\ ReadyIsVerified'
    BY <1>i, <2>1 DEF Newest, ReadyIsVerified
  <2>3. InStep'
    BY <1>i, <2>1 DEF InStep, Preparing, Installing
  <2>4. stage' \in Stages /\ bundle' \in 0..Updater!Torn
    <3>1. Updater!NoApp \in 0..Updater!Torn
      BY <1>0
    <3>2. stage \in Stages /\ bundle \in 0..Updater!Torn
      BY <1>i DEF UpdateTypes
    <3>3. /\ [stage EXCEPT !.staged = Updater!NoApp] \in Stages
          /\ [stage EXCEPT !.parked = Updater!NoApp] \in Stages
      BY <3>1, <3>2, StageFields
    <3>4. QED
      BY <1>s, <2>1, <3>2, <3>3
  <2>5. UpdateTypes'
    BY <1>i, <2>1, <2>4 DEF UpdateTypes, Installing
  <2>6. stage.staged \in Updater!Tags /\ stage.parked = running /\ running \in 0..MaxTag
    BY <1>i, <2>1 DEF InPlace, UpdateTypes
  <2>7. CASE bundle' = stage.staged /\ updaterAt' = "placed"
    BY <1>0, <1>z, <2>2, <2>3, <2>5, <2>6, <2>7
       DEF InPlace, Updater!OnlyVerified, Updater!AppSurvives
  <2>8. CASE updaterAt' = "failed" /\ bundle' = stage.parked
    BY <1>0, <1>z, <2>1, <2>2, <2>3, <2>5, <2>6, <2>8
       DEF InPlace, Updater!OnlyVerified, Updater!AppSurvives
  <2>9. CASE updaterAt' = "failed" /\ UNCHANGED <<bundle, stage>>
    BY <1>i, <1>z, <2>1, <2>2, <2>3, <2>5, <2>9
       DEF InPlace, Updater!OnlyVerified, Updater!AppSurvives
  <2>10. QED
    BY <2>1, <2>7, <2>8, <2>9
<1>10. CASE Updater!Clear
  <2>1. /\ updaterAt \in {"placed", "failed"}
        /\ UNCHANGED <<latest, top, cached, bundle, kept, running>>
        /\ stage' = IF updaterAt = "placed"
           \/ stage.parked = Updater!NoApp THEN Updater!NoStage ELSE stage
    BY <1>10 DEF Updater!Clear
  <2>2. stage' \in Stages
    BY <1>i, <2>1, StageFields DEF UpdateTypes
  <2>3. CASE updaterAt = "placed"
    <3>0. updaterAt' = "relaunch" /\ unpacked' = [unpacked EXCEPT ![rel] = Updater!NoApp]
          /\ UNCHANGED <<rel, ready, updating>>
      BY <1>10, <2>3 DEF Updater!Clear
    <3>1. ready # 0 /\ rel \in Updater!Tags /\ ready \in Updater!Tags
      BY <1>0, <1>i, <2>3 DEF UpdateTypes, InStep, Installing, Newest
    <3>2. unpacked' \in [Updater!Tags -> 0..Updater!Torn]
          /\ \A t \in Updater!Tags : unpacked'[t] \in {unpacked[t], Updater!NoApp}
      BY <1>0, <1>i, <3>0, <3>1 DEF UpdateTypes
    <3>3. UpdateTypes'
      BY <1>i, <2>1, <2>2, <3>0, <3>2 DEF UpdateTypes, Installing
    <3>4. Newest' /\ ReadyIsVerified'
      BY <1>i, <2>1, <3>0, <3>1, <3>2 DEF Newest, ReadyIsVerified
    <3>5. InStep'
      BY <1>i, <2>3, <3>0 DEF InStep, Preparing, Installing
    <3>6. InPlace'
      BY <1>i, <2>1, <2>3, <3>0 DEF InPlace, Updater!OnlyVerified, Updater!AppSurvives
    <3>7. QED
      BY <1>z, <3>3, <3>4, <3>5, <3>6
  <2>4. CASE updaterAt = "failed"
    <3>0. Updater!GiveUp /\ UNCHANGED unpacked
      BY <1>10, <2>4 DEF Updater!Clear
    <3>1. /\ cached' \subseteq Updater!Tags /\ unpacked' \in [Updater!Tags -> 0..Updater!Torn]
          /\ kept' \subseteq 0..Updater!Torn
          /\ \A t \in Updater!Tags : unpacked'[t] # Updater!NoApp => t <= latest
      BY <1>i, <2>1, <3>0 DEF UpdateTypes, Newest
    <3>2. stage.parked = Updater!NoApp => running # stage.parked
      BY <1>0, <1>i DEF UpdateTypes
    <3>3. Updater!AppSurvives' /\ (bundle # Updater!NoApp => bundle = running)
      BY <1>i, <2>1, <2>4, <3>2 DEF InPlace, Updater!AppSurvives
    <3>4. QED
      BY <1>g, <2>1, <2>2, <3>0, <3>1, <3>3
  <2>5. QED
    BY <2>1, <2>3, <2>4
<1>11. ASSUME Updater!Start, UNCHANGED <<latest, top, Updater!fileVars>> PROVE UpdateInv'
  <2>1. /\ running' = IF bundle = Updater!NoApp THEN running ELSE bundle
        /\ updaterAt' = IF bundle = Updater!NoApp THEN "gone" ELSE "tick"
        /\ rel' = 0 /\ ready' = 0 /\ updating' = FALSE
        /\ UNCHANGED <<latest, top, cached, unpacked, bundle, stage, kept>>
    BY <1>11 DEF Updater!Start, Updater!fileVars
  <2>2. running' \in 0..MaxTag
    BY <1>0, <1>i, <2>1 DEF UpdateTypes, InPlace, Updater!OnlyVerified
  <2>3. UpdateTypes'
    BY <1>0, <1>i, <2>1, <2>2 DEF UpdateTypes
  <2>4. Newest' /\ ReadyIsVerified'
    BY <1>0, <1>i, <2>1 DEF UpdateTypes, Newest, ReadyIsVerified
  <2>5. InStep'
    BY <2>1 DEF InStep, Preparing, Installing
  <2>6. InPlace'
    BY <1>i, <2>1 DEF InPlace, Updater!OnlyVerified, Updater!AppSurvives
  <2>7. QED
    BY <1>z, <2>3, <2>4, <2>5, <2>6
<1>12. CASE UNCHANGED Updater!vars
  <2>1. UNCHANGED <<latest, top, rel, ready, updaterAt, cached, unpacked, bundle, stage, kept,
        running, updating>>
    BY <1>12 DEF Updater!vars
  <2>2. UpdateTypes'
    BY <1>i, <2>1 DEF UpdateTypes
  <2>3. Newest' /\ ReadyIsVerified' /\ InStep'
    BY <1>i, <2>1 DEF Newest, ReadyIsVerified, InStep
  <2>4. InPlace'
    BY <1>i, <2>1 DEF InPlace, Updater!OnlyVerified, Updater!AppSurvives
  <2>5. QED
    BY <1>z, <2>2, <2>3, <2>4
<1>13. CASE Updater!Relaunch
  BY <1>11, <1>13 DEF Updater!Relaunch
<1>14. CASE Updater!Kill
  BY <1>11, <1>14 DEF Updater!Kill
<1>15. QED
  BY <1>1, <1>2, <1>3, <1>4, <1>5, <1>6, <1>7, <1>8, <1>9, <1>10, <1>12, <1>13, <1>14
     DEF Updater!Next

LEMMA UpdateMeans ==
  Updater!SelfUpdateAssumption /\ UpdateInv
    => Updater!TypeOK /\ Updater!OnlyVerified /\ Updater!AppSurvives
<1>1. SUFFICES ASSUME Updater!SelfUpdateAssumption, UpdateInv
                      PROVE Updater!TypeOK /\ Updater!OnlyVerified /\ Updater!AppSurvives
  OBVIOUS
<1>2. UpdateTypes /\ Newest /\ ReadyIsVerified /\ InStep /\ InPlace
  BY <1>1 DEF UpdateInv
<1>3. Updater!TypeOK
  BY <1>1, <1>2, UpdateBounds DEF UpdateTypes, Newest, InStep, Updater!TypeOK, Stages, Installing
<1>4. QED
  BY <1>2, <1>3 DEF InPlace

\* No app that does not verify comes to the app's path, and there always is
\* one or the one that runs is kept, for any number of releases that are not
\* withdrawn and of failures.
THEOREM UpdatesArriveVerified ==
  ASSUME Updater!SelfUpdateAssumption
  PROVE  Updater!Spec => [](Updater!TypeOK /\ Updater!OnlyVerified /\ Updater!AppSurvives)
<1>1. Updater!Init => UpdateInv
  BY UpdateInit
<1>2. UpdateInv /\ [Updater!Next]_Updater!vars => UpdateInv'
  BY UpdateNext
<1>3. UpdateInv => Updater!TypeOK /\ Updater!OnlyVerified /\ Updater!AppSurvives
  BY UpdateMeans
<1>4. QED
  BY <1>1, <1>2, <1>3, PTL DEF Updater!Spec

-----------------------------------------------------------------------------
(* The download of a release.                                              *)

\* ReleaseCache's variables, and its one thread.
fetcherAt == v1
file == v2
off == v3
sum == v4
data == v5
partial == v6
dest == v7
cacheFaults == v8
Fetchers == {"updater"}
USE DEF fetcherAt, file, off, sum, data, partial, dest, cacheFaults, Fetchers

\* With one thread that fetches, the file it writes is the one under the
\* temporary name, apart from the one in place, and what it has written is
\* right as long as its digest is.
CacheTypes ==
  /\ fetcherAt \in [Fetchers -> {"idle", "create", "write", "rename", "use"}]
  /\ file \in [Fetchers -> Cache!Inodes \cup {Cache!None}]
  /\ off \in [Fetchers -> 0..Size] /\ sum \in [Fetchers -> BOOLEAN]
  /\ data \in [Cache!Inodes -> [1..Size -> {"good", "bad", "hole"}]]
  /\ partial \in Cache!Inodes \cup {Cache!None} /\ dest \in Cache!Inodes \cup {Cache!None}
     /\ (partial = dest => partial = Cache!None)

Written(t) == sum[t] => \A c \in 1..off[t] : data[file[t]][c] = "good"

RightSoFar(t) ==
  /\ fetcherAt[t] \in {"write", "rename"} => file[t] # Cache!None /\ file[t] = partial /\ Written(t)
  /\ fetcherAt[t] \notin {"write", "rename"} => file[t] = Cache!None
  /\ fetcherAt[t] = "rename" => sum[t] /\ off[t] = Size

CacheInv == CacheTypes /\ Cache!DestIsWhole /\ \A t \in Fetchers : RightSoFar(t)

LEMMA OneFetcher ==
  Cache!Inodes = 1..3 /\ Cache!None \notin Cache!Inodes
BY FS_Singleton, SameCounting DEF Cache!Inodes, Cache!None

LEMMA CacheInit == Cache!CacheAssumption /\ Cache!Init => CacheInv
BY DEF Cache!CacheAssumption, Cache!Init, CacheInv, CacheTypes, RightSoFar, Written,
       Cache!DestIsWhole, Cache!Empty

LEMMA CacheNext ==
  ASSUME Cache!CacheAssumption, CacheInv, [Cache!Next]_Cache!vars
  PROVE  CacheInv'
<1> DEFINE t == "updater"
<1>0. t \in Fetchers /\ Size \in Nat \ {0} /\ Cache!Inodes = 1..3 /\ Cache!None = 0
      /\ Cache!None \notin Cache!Inodes
  BY OneFetcher DEF Cache!CacheAssumption, Cache!None
<1>1. CacheTypes /\ Cache!DestIsWhole /\ RightSoFar(t)
  BY <1>0 DEF CacheInv
<1>2. ASSUME CacheTypes', Cache!DestIsWhole', RightSoFar(t)' PROVE CacheInv'
  BY <1>2 DEF CacheInv
<1>3. CASE Cache!Kill
  <2>1. /\ fetcherAt' = [f \in Fetchers |-> "idle"] /\ file' = [f \in Fetchers |-> Cache!None]
        /\ UNCHANGED <<off, sum, data, partial, dest>>
    BY <1>3 DEF Cache!Kill
  <2>2. QED
    BY <1>0, <1>1, <1>2, <2>1 DEF CacheTypes, Cache!DestIsWhole, RightSoFar
<1>4. CASE Cache!FetchAsset(t)
  <2>1. /\ fetcherAt[t] = "idle" /\ fetcherAt'[t] \in {"use", "create"}
        /\ fetcherAt' \in [Fetchers -> {"idle", "create", "write", "rename", "use"}]
        /\ UNCHANGED <<file, off, sum, data, partial, dest>>
    BY <1>0, <1>1, <1>4 DEF Cache!FetchAsset, Cache!Goto, CacheTypes
  <2>2. QED
    BY <1>0, <1>1, <1>2, <2>1 DEF CacheTypes, Cache!DestIsWhole, RightSoFar
<1>5. CASE Cache!Create(t)
  <2> DEFINE i == IF partial # Cache!None THEN partial ELSE CHOOSE f \in Cache!Free : TRUE
  <2>1. /\ fetcherAt[t] = "create" /\ partial' = i /\ data' = [data EXCEPT ![i] = Cache!Empty]
        /\ file' = [file EXCEPT ![t] = i] /\ off' = [off EXCEPT ![t] = 0]
        /\ sum' = [sum EXCEPT ![t] = TRUE] /\ fetcherAt' = [fetcherAt EXCEPT ![t] = "write"]
        /\ dest' = dest
    BY <1>5 DEF Cache!Create, Cache!Goto
  <2>2. i \in Cache!Inodes /\ i # dest
    <3>1. CASE partial # Cache!None
      BY <1>1, <3>1 DEF CacheTypes
    <3>2. CASE partial = Cache!None
      <4>1. file[t] = Cache!None
        BY <1>1, <2>1 DEF RightSoFar
      <4>2. Cache!Free = Cache!Inodes \ ({partial, dest} \cup {Cache!None})
        BY <4>1 DEF Cache!Free
      <4>3. \E f \in Cache!Free : TRUE
        <5>1. \E f \in 1..3 : f # dest
          BY 1 # dest \/ 2 # dest
        <5>2. QED
          BY <1>0, <3>2, <4>2, <5>1
      <4>4. (CHOOSE f \in Cache!Free : TRUE) \in Cache!Free
        BY <4>3
      <4>5. QED
        BY <3>2, <4>2, <4>4
    <3>3. QED
      BY <3>1, <3>2
  <2>3. Cache!Empty \in [1..Size -> {"good", "bad", "hole"}]
    BY DEF Cache!Empty
  <2> HIDE DEF i
  <2>4. CacheTypes'
    <3>1. data' \in [Cache!Inodes -> [1..Size -> {"good", "bad", "hole"}]]
      BY <1>1, <2>1, <2>2, <2>3 DEF CacheTypes
    <3>2. fetcherAt' \in [Fetchers -> {"idle", "create", "write", "rename", "use"}]
      BY <1>1, <2>1 DEF CacheTypes
    <3>3. file' \in [Fetchers -> Cache!Inodes \cup {Cache!None}] /\ sum' \in [Fetchers -> BOOLEAN]
      BY <1>1, <2>1, <2>2 DEF CacheTypes
    <3>4. off' \in [Fetchers -> 0..Size]
      BY <1>0, <1>1, <2>1 DEF CacheTypes
    <3>5. partial' \in Cache!Inodes \cup {Cache!None} /\ dest' \in Cache!Inodes \cup {Cache!None}
          /\ partial' # dest'
      BY <1>1, <2>1, <2>2 DEF CacheTypes
    <3>6. QED
      BY <3>1, <3>2, <3>3, <3>4, <3>5 DEF CacheTypes
  <2>5. Cache!DestIsWhole'
    BY <1>0, <1>1, <2>1, <2>2 DEF CacheTypes, Cache!DestIsWhole
  <2>6. /\ fetcherAt'[t] = "write" /\ file'[t] = i /\ partial' = i /\ off'[t] = 0
    BY <1>0, <1>1, <2>1 DEF CacheTypes
  <2>7. RightSoFar(t)'
    BY <1>0, <2>2, <2>6 DEF RightSoFar, Written
  <2>8. QED
    BY <1>2, <2>4, <2>5, <2>7
<1>6. ASSUME file[t] = partial
             \/ fetcherAt[t] \in {"write", "rename"}, Cache!GiveUp(t), UNCHANGED dest,
             sum' \in [Fetchers -> BOOLEAN], off' = off, data' = data
      PROVE  CacheInv'
  <2>1. partial' = Cache!None /\ file' = [file EXCEPT ![t] = Cache!None]
        /\ fetcherAt' = [fetcherAt EXCEPT ![t] = "idle"]
    BY <1>6 DEF Cache!GiveUp, Cache!Goto
  <2>2. CacheTypes' /\ Cache!DestIsWhole'
    BY <1>0, <1>1, <1>6, <2>1 DEF CacheTypes, Cache!DestIsWhole
  <2>3. fetcherAt'[t] = "idle" /\ file'[t] = Cache!None
    BY <1>0, <1>1, <2>1 DEF CacheTypes
  <2>4. QED
    BY <1>2, <2>2, <2>3 DEF RightSoFar
<1>7. CASE Cache!Write(t)
  <2> DEFINE c == off[t] + 1
             d(v) == [data EXCEPT ![file[t]][c] = v]
  <2>0. fetcherAt[t] = "write" /\ off[t] < Size /\ dest' = dest
    BY <1>7 DEF Cache!Write
  <2>1. /\ off[t] \in 0..Size /\ c \in 1..Size /\ c # 0 /\ 1..c = 1..off[t] \cup {c}
        /\ c \notin 1..off[t]
    BY <1>0, <1>1, <2>0 DEF CacheTypes
  <2>2. file[t] \in Cache!Inodes /\ file[t] # dest /\ file[t] = partial
        /\ data[file[t]] \in [1..Size -> {"good", "bad", "hole"}]
    BY <1>0, <1>1, <2>0 DEF CacheTypes, RightSoFar
  <2>3. ASSUME NEW v \in {"good", "bad"}, data' = d(v), off' = [off EXCEPT ![t] = c],
               sum' = IF v = "good" THEN sum ELSE [sum EXCEPT ![t] = FALSE],
               UNCHANGED <<fetcherAt, file, partial>>
        PROVE  CacheInv'
    <3>1. d(v) = [data EXCEPT ![file[t]] = [data[file[t]] EXCEPT ![c] = v]]
      OBVIOUS
    <3>2. [data[file[t]] EXCEPT ![c] = v] \in [1..Size -> {"good", "bad", "hole"}]
      BY <2>1, <2>2
    <3>3. data' \in [Cache!Inodes -> [1..Size -> {"good", "bad", "hole"}]]
      BY <1>1, <2>2, <2>3, <3>1, <3>2 DEF CacheTypes
    <3>4. CacheTypes'
      BY <1>0, <1>1, <2>0, <2>1, <2>3, <3>3 DEF CacheTypes
    <3>5. Cache!DestIsWhole'
      <4>1. dest # Cache!None => data'[dest] = data[dest]
        BY <1>1, <2>2, <2>3, <3>1 DEF CacheTypes
      <4>2. QED
        BY <1>1, <2>0, <4>1 DEF Cache!DestIsWhole
    <3>6. data'[file[t]] = [data[file[t]] EXCEPT ![c] = v]
      BY <1>1, <2>2, <2>3, <3>1 DEF CacheTypes
    <3>7. off'[t] = c /\ fetcherAt'[t] = "write" /\ file'[t] = file[t] /\ partial' = partial
      BY <1>0, <1>1, <2>0, <2>3 DEF CacheTypes
    <3>8. sum'[t] => v = "good" /\ sum[t]
      BY <1>0, <1>1, <2>3 DEF CacheTypes
    <3>9. Written(t)'
      <4>1. SUFFICES ASSUME sum'[t], NEW k \in 1..c PROVE data'[file[t]][k] = "good"
        BY <3>7 DEF Written
      <4>2. CASE k = c
        BY <2>1, <2>2, <3>6, <3>8, <4>1, <4>2
      <4>3. CASE k \in 1..off[t] /\ k # c
        <5>1. data[file[t]][k] = "good"
          BY <1>1, <2>0, <3>8, <4>1, <4>3 DEF RightSoFar, Written
        <5>2. k \in 1..Size
          BY <1>0, <2>1, <4>3
        <5>3. QED
          BY <2>2, <3>6, <4>3, <5>1, <5>2
      <4>4. QED
        BY <2>1, <4>2, <4>3
    <3>10. RightSoFar(t)'
      BY <1>0, <1>1, <2>0, <2>2, <3>7, <3>9 DEF RightSoFar
    <3>11. QED
      BY <1>2, <3>4, <3>5, <3>10
  <2>4. CASE Cache!Fault /\ Cache!GiveUp(t) /\ UNCHANGED <<off, sum, data>>
    BY <1>1, <1>6, <2>0, <2>4 DEF CacheTypes
  <2>5. CASE /\ data' = d("good") /\ off' = [off EXCEPT ![t] = c]
             /\ UNCHANGED <<fetcherAt, file, sum, partial, cacheFaults>>
    BY <2>3, <2>5
  <2>6. CASE /\ data' = d("bad") /\ off' = [off EXCEPT ![t] = c]
             /\ sum' = [sum EXCEPT ![t] = FALSE] /\ UNCHANGED <<fetcherAt, file, partial>>
    BY <2>3, <2>6
  <2>7. QED
    BY <1>7, <2>4, <2>5, <2>6 DEF Cache!Write
<1>8. CASE Cache!Check(t)
  <2>0. fetcherAt[t] = "write" /\ off[t] = Size /\ UNCHANGED <<off, sum, data, dest>>
    BY <1>8 DEF Cache!Check
  <2>1. CASE ~sum[t]
    BY <1>1, <1>6, <1>8, <2>0, <2>1 DEF Cache!Check, CacheTypes
  <2>2. CASE sum[t]
    <3>1. fetcherAt' = [fetcherAt EXCEPT ![t] = "rename"] /\ UNCHANGED <<file, partial>>
      BY <1>8, <2>2 DEF Cache!Check, Cache!Goto
    <3>2. CacheTypes' /\ Cache!DestIsWhole'
      BY <1>0, <1>1, <2>0, <3>1 DEF CacheTypes, Cache!DestIsWhole
    <3>3. fetcherAt'[t] = "rename"
      BY <1>0, <1>1, <3>1 DEF CacheTypes
    <3>4. RightSoFar(t)'
      BY <1>1, <2>0, <2>2, <3>1, <3>3 DEF RightSoFar, Written
    <3>5. QED
      BY <1>2, <3>2, <3>4
  <2>3. QED
    BY <2>1, <2>2
<1>9. CASE Cache!Rename(t)
  <2>0. /\ fetcherAt[t] = "rename" /\ file' = [file EXCEPT ![t] = Cache!None]
        /\ UNCHANGED <<off, sum, data>>
        /\ partial # Cache!None /\ file[t] = partial /\ Written(t) /\ sum[t] /\ off[t] = Size
    BY <1>1, <1>9 DEF Cache!Rename, RightSoFar
  <2>1. fetcherAt' = [fetcherAt EXCEPT ![t] = "use"] /\ dest' = partial /\ partial' = Cache!None
    BY <1>9, <2>0 DEF Cache!Rename, Cache!Goto
  <2>2. CacheTypes'
    BY <1>0, <1>1, <2>0, <2>1 DEF CacheTypes
  <2>3. data[partial] \in [1..Size -> {"good", "bad", "hole"}]
        /\ \A k \in 1..Size : data[partial][k] = "good"
    BY <1>1, <2>0 DEF CacheTypes, Written
  <2>4. data[partial] = Cache!Whole
    BY <2>3 DEF Cache!Whole
  <2>5. Cache!DestIsWhole'
    BY <2>0, <2>1, <2>4 DEF Cache!DestIsWhole
  <2>6. fetcherAt'[t] = "use" /\ file'[t] = Cache!None
    BY <1>0, <1>1, <2>0, <2>1 DEF CacheTypes
  <2>7. QED
    BY <1>2, <2>2, <2>5, <2>6 DEF RightSoFar
<1>10. CASE Cache!Use(t)
  <2>1. /\ fetcherAt[t] = "use" /\ fetcherAt' = [fetcherAt EXCEPT ![t] = "idle"]
        /\ UNCHANGED <<file, off, sum, data, partial, dest>>
    BY <1>10 DEF Cache!Use, Cache!Goto
  <2>2. CacheTypes' /\ Cache!DestIsWhole'
    BY <1>0, <1>1, <2>1 DEF CacheTypes, Cache!DestIsWhole
  <2>3. fetcherAt'[t] = "idle" /\ file'[t] = Cache!None
    BY <1>0, <1>1, <2>1 DEF CacheTypes, RightSoFar
  <2>4. QED
    BY <1>2, <2>2, <2>3 DEF RightSoFar
<1>11. CASE UNCHANGED Cache!vars
  BY <1>1, <1>2, <1>11 DEF Cache!vars, CacheTypes, Cache!DestIsWhole, RightSoFar, Written
<1>12. QED
  BY <1>3, <1>4, <1>5, <1>7, <1>8, <1>9, <1>10, <1>11 DEF Cache!Next

LEMMA CacheMeans == CacheInv => Cache!TypeOK /\ Cache!DestIsWhole
BY DEF CacheInv, CacheTypes, RightSoFar, Cache!TypeOK, Cache!None

\* With one thread that fetches, what is in place is whole and verified, after
\* any downloads that were cut short, broken or killed, for any archive.
THEOREM CacheIsWhole ==
  ASSUME Cache!CacheAssumption
  PROVE  Cache!Spec => [](Cache!TypeOK /\ Cache!DestIsWhole)
<1>1. Cache!Init => CacheInv
  BY CacheInit
<1>2. CacheInv /\ [Cache!Next]_Cache!vars => CacheInv'
  BY CacheNext
<1>3. CacheInv => Cache!TypeOK /\ Cache!DestIsWhole
  BY CacheMeans
<1>4. QED
  BY <1>1, <1>2, <1>3, PTL DEF Cache!Spec

-----------------------------------------------------------------------------
(* What comes over HTTP.                                                   *)

\* HttpExchange's variables.
call == v1
exchangeAt == v2
host == v3
hop == v4
told == v5
reply == v6
left == v7
total == v8
budget == v9
sink == v10
USE DEF call, exchangeAt, host, hop, told, reply, left, total, budget, sink

\* fetch asks another host only for a redirect, without the token; what has
\* been written is what the framing has been taken to say so far.
HttpTypes ==
  /\ call \in {"exchange_with", "fetch"}
  /\ exchangeAt \in {"send", "head", "length", "size", "chunk", "close", "ok", "error"}
  /\ host \in Http!Hosts /\ hop \in 1..MaxHops /\ told \subseteq {"first"} /\ reply \in Http!Replies
  /\ left \in 0..MaxBody /\ budget \in 0..MaxHeader /\ total \in Nat /\ sink \in Nat

Framed(a, written, rest, announced, framing, body) ==
  /\ a \in {"send", "head"} => written = 0
  /\ a = "length" => written + rest = body /\ framing = "length" /\ body <= Limit
  /\ a = "size" => written = announced /\ announced <= body /\ announced <= Limit
  /\ a = "chunk" => written + rest = announced /\ announced <= body /\ announced <= Limit
  /\ a \in {"size", "chunk"} => framing = "chunks"
  /\ a = "close" => framing = "close"

HttpInv ==
  /\ HttpTypes /\ sink <= Limit
  /\ Framed(exchangeAt, sink, left, total, reply.framing, reply.body)
  /\ Http!WholeOrRefused

LEMMA HttpInit == Http!HttpAssumption /\ Http!Init => HttpInv
BY DEF Http!HttpAssumption, Http!Init, HttpInv, HttpTypes, Framed, Http!WholeOrRefused,
       Http!Hosts, Http!Replies, Http!Framings

LEMMA HttpBounds ==
  Http!HttpAssumption => MaxBody \in Nat /\ Limit \in Nat /\ MaxHeader \in Nat
    /\ MaxHops \in Nat \ {0}
BY DEF Http!HttpAssumption

LEMMA ReplyParts ==
  \A r \in Http!Replies : /\ r.framing \in {"length", "chunks", "close", "both"}
                          /\ r.body \in 0..MaxBody
                           /\ r.location \in {"no", "path", "first", "storage", "not https"}
BY DEF Http!Replies, Http!Framings

LEMMA SumBounds == \A m, n, k \in Nat : m + n <= k => m <= k
OBVIOUS

LEMMA HttpNext ==
  ASSUME Http!HttpAssumption, HttpInv, [Http!Next]_Http!vars
  PROVE  HttpInv'
<1>0. MaxBody \in Nat /\ Limit \in Nat /\ MaxHeader \in Nat /\ MaxHops \in Nat \ {0}
  BY HttpBounds
<1>r. /\ reply.framing \in {"length", "chunks", "close", "both"} /\ reply.body \in 0..MaxBody
      /\ reply.location \in {"no", "path", "first", "storage", "not https"}
  BY ReplyParts DEF HttpInv, HttpTypes
<1>t. /\ call \in {"exchange_with", "fetch"} /\ host \in Http!Hosts /\ hop \in 1..MaxHops
      /\ told \subseteq {"first"} /\ reply \in Http!Replies /\ left \in 0..MaxBody
      /\ budget \in 0..MaxHeader /\ total \in Nat /\ sink \in Nat /\ sink <= Limit
      /\ exchangeAt \in {"send", "head", "length", "size", "chunk", "close", "ok", "error"}
  BY DEF HttpInv, HttpTypes
<1>n. /\ left \in 0..MaxBody /\ total \in Nat /\ sink \in Nat /\ sink <= Limit
      /\ hop \in 1..MaxHops
  BY <1>t
<1>b. reply.body \in 0..MaxBody
  BY <1>r
<1>f. Framed(exchangeAt, sink, left, total, reply.framing, reply.body)
  BY DEF HttpInv
<1>o. ASSUME NEW r \in {"ok", "error"}, Http!Over(r),
             r = "ok" /\ reply.framing \in {"length", "chunks"} =>
               sink = reply.body \/ (call = "exchange_with" /\ reply.empty)
      PROVE  HttpInv'
  <2>1. exchangeAt' = r /\ UNCHANGED <<call, host, hop, told, reply, left, total, budget, sink>>
    BY <1>o DEF Http!Over
  <2>2. HttpTypes' /\ (sink <= Limit)'
    BY <1>t, <2>1 DEF HttpTypes, Http!Hosts
  <2>3. Framed(exchangeAt, sink, left, total, reply.framing, reply.body)'
    BY <2>1 DEF Framed
  <2>4. Http!WholeOrRefused'
    BY <1>o, <2>1 DEF Http!WholeOrRefused
  <2>5. QED
    BY <2>2, <2>3, <2>4 DEF HttpInv
<1>e. ASSUME Http!Over("error") PROVE HttpInv'
  BY <1>e, <1>o
<1>w. ASSUME HttpTypes', (sink <= Limit)', exchangeAt' \notin {"ok"},
             Framed(exchangeAt, sink, left, total, reply.framing, reply.body)'
      PROVE  HttpInv'
  BY <1>w DEF HttpInv, Http!WholeOrRefused
<1>1. CASE Http!Send
  <2>1. ASSUME exchangeAt' = "head", budget' = MaxHeader, reply' \in Http!Replies,
               told' = IF Http!Auth THEN told \cup {host} ELSE told,
               UNCHANGED <<call, host, hop, left, total, sink>>
        PROVE  HttpInv'
    <3>0. exchangeAt = "send" /\ sink = 0
      BY <1>1, <1>f DEF Http!Send, Framed
    <3>1. told' \subseteq {"first"}
      BY <1>t, <2>1 DEF Http!Auth
    <3>2. HttpTypes' /\ (sink <= Limit)'
      BY <1>0, <1>t, <2>1, <3>1 DEF HttpTypes, Http!Hosts
    <3>3. Framed(exchangeAt, sink, left, total, reply.framing, reply.body)'
      BY <2>1, <3>0 DEF Framed
    <3>4. QED
      BY <1>w, <2>1, <3>2, <3>3
  <2>2. QED
    BY <1>1, <1>e, <2>1 DEF Http!Send
<1>2. CASE Http!Interim
  <2>1. ASSUME budget # 0, exchangeAt = "head", budget' = budget - 1,
               UNCHANGED <<call, exchangeAt, host, hop, told, reply, left, total, sink>>
        PROVE  HttpInv'
    <3>1. budget' \in 0..MaxHeader
      BY <1>0, <1>t, <2>1
    <3>2. HttpTypes' /\ (sink <= Limit)'
      BY <1>t, <2>1, <3>1 DEF HttpTypes, Http!Hosts
    <3>3. Framed(exchangeAt, sink, left, total, reply.framing, reply.body)'
      BY <1>f, <2>1 DEF Framed
    <3>4. QED
      BY <1>w, <2>1, <3>2, <3>3
  <2>2. QED
    BY <1>2, <1>e, <2>1 DEF Http!Interim
<1>3. CASE Http!Redirect
  <2>1. ASSUME reply.location # "not https", hop # MaxHops, exchangeAt = "head",
               exchangeAt' = "send",
               reply.location # "no", hop' = hop + 1,
               host' = IF reply.location = "path" THEN host ELSE reply.location,
               UNCHANGED <<call, told, reply, left, total, budget, sink>>
        PROVE  HttpInv'
    <3>1. host' \in Http!Hosts
      BY <1>r, <1>t, <2>1 DEF Http!Hosts
    <3>2. hop' \in 1..MaxHops
      <4>1. hop # MaxHops /\ hop' = hop + 1
        BY <2>1
      <4>2. QED
        BY <1>0, <1>n, <4>1
    <3>3. HttpTypes' /\ (sink <= Limit)'
      BY <1>t, <2>1, <3>1, <3>2 DEF HttpTypes
    <3>4. Framed(exchangeAt, sink, left, total, reply.framing, reply.body)'
      BY <1>f, <2>1 DEF Framed
    <3>5. QED
      BY <1>w, <2>1, <3>3, <3>4
  <2>2. QED
    BY <1>3, <1>e, <2>1 DEF Http!Redirect
<1>4. CASE Http!Body
  <2>0. exchangeAt = "head" /\ sink = 0
    BY <1>4, <1>f DEF Http!Body, Framed
  <2>1. CASE call = "exchange_with" /\ reply.empty
    BY <1>4, <1>o, <2>1 DEF Http!Body
  <2>2. ASSUME reply.framing # "both", ~(reply.framing = "length" /\ reply.body > Limit),
               exchangeAt' = CASE reply.framing = "length" -> "length"
                       [] reply.framing = "chunks" -> "size"
                       [] OTHER -> "close",
               left' = reply.body, total' = 0, budget' = MaxHeader,
               UNCHANGED <<call, host, hop, told, reply, sink>>
        PROVE  HttpInv'
    <3>0. reply.framing \in {"length", "chunks", "close"}
      BY <1>r, <2>2
    <3>5. reply.framing = "length" => reply.body <= Limit
      BY <1>0, <1>b, <2>2
    <3>1. \/ exchangeAt' = "length" /\ reply.framing = "length" /\ reply.body <= Limit
          \/ exchangeAt' = "size" /\ reply.framing = "chunks"
          \/ exchangeAt' = "close" /\ reply.framing = "close"
      <4>1. CASE reply.framing = "length"
        BY <2>2, <3>5, <4>1
      <4>2. CASE reply.framing = "chunks"
        BY <2>2, <4>2
      <4>3. CASE reply.framing = "close"
        BY <2>2, <4>3
      <4>4. QED
        BY <3>0, <4>1, <4>2, <4>3
    <3>2. exchangeAt' \in {"length", "size", "close"} /\ budget' \in 0..MaxHeader
      BY <1>0, <2>2, <3>1
    <3>3. HttpTypes' /\ (sink <= Limit)'
      BY <1>r, <1>t, <2>2, <3>2 DEF HttpTypes
    <3>4. Framed(exchangeAt, sink, left, total, reply.framing, reply.body)'
      <4>1. /\ sink' = 0 /\ left' = reply.body /\ total' = 0
            /\ reply'.framing = reply.framing /\ reply'.body = reply.body
        BY <2>0, <2>2
      <4>2. sink' + left' = reply.body /\ 0 <= Limit /\ 0 <= reply.body
        BY <1>0, <1>b, <4>1
      <4>3. QED
        BY <3>1, <4>1, <4>2 DEF Framed
    <3>6. QED
      BY <1>w, <3>2, <3>3, <3>4
  <2>3. QED
    BY <1>4, <1>e, <2>1, <2>2 DEF Http!Body
<1>5. CASE Http!Copy
  <2>1. PICK n \in 1..left : left' = left - n /\ sink' = sink + n
    BY <1>5 DEF Http!Copy
  <2>2. exchangeAt \in {"length", "chunk"}
        /\ UNCHANGED <<call, exchangeAt, host, hop, told, reply, total, budget>>
    BY <1>5 DEF Http!Copy
  <2>3. left' \in 0..MaxBody /\ sink' \in Nat /\ sink' + left' = sink + left
    BY <1>0, <1>t, <2>1
  <2>4. sink + left <= Limit
    <3>1. CASE exchangeAt = "length"
      BY <1>f, <3>1 DEF Framed
    <3>2. CASE exchangeAt = "chunk"
      BY <1>f, <3>2 DEF Framed
    <3>3. QED
      BY <2>2, <3>1, <3>2
  <2>5. sink' <= Limit
    <3>1. left' \in Nat /\ sink' \in Nat
      BY <1>0, <2>3
    <3>2. sink' + left' <= Limit
      BY <2>3, <2>4
    <3>3. QED
      BY <1>0, <3>1, <3>2, SumBounds
  <2>6. HttpTypes'
    BY <1>t, <2>2, <2>3 DEF HttpTypes
  <2>7. Framed(exchangeAt, sink, left, total, reply.framing, reply.body)'
    BY <1>f, <2>2, <2>3 DEF Framed
  <2>8. QED
    BY <1>w, <2>2, <2>5, <2>6, <2>7
<1>6. CASE Http!Copied
  <2>1. CASE exchangeAt = "length"
    <3>1. sink = reply.body
      BY <1>6, <1>t, <1>f, <2>1 DEF Http!Copied, Framed
    <3>2. QED
      BY <1>6, <1>o, <2>1, <3>1 DEF Http!Copied
  <2>2. CASE exchangeAt = "chunk"
    <3>1. exchangeAt' = "size" /\ budget' = MaxHeader /\ left = 0
          /\ UNCHANGED <<call, host, hop, told, reply, left, total, sink>>
      BY <1>6, <2>2 DEF Http!Copied
    <3>2. HttpTypes' /\ (sink <= Limit)'
      BY <1>0, <1>t, <3>1 DEF HttpTypes
    <3>3. Framed(exchangeAt, sink, left, total, reply.framing, reply.body)'
      BY <1>t, <1>f, <2>2, <3>1 DEF Framed
    <3>4. QED
      BY <1>w, <3>1, <3>2, <3>3
  <2>3. QED
    BY <1>6, <2>1, <2>2 DEF Http!Copied
<1>7. CASE Http!ChunkSize
  <2>1. CASE total = reply.body
    <3>1. sink = reply.body
      BY <1>7, <1>f, <2>1 DEF Http!ChunkSize, Framed
    <3>2. QED
      BY <1>7, <1>o, <2>1, <3>1 DEF Http!ChunkSize
  <2>2. ASSUME exchangeAt = "size", NEW n \in 1..(reply.body - total), Http!ChunkFits(n),
               exchangeAt' = "chunk",
               left' = n, total' = total + n,
               UNCHANGED <<call, host, hop, told, reply, budget, sink>>
        PROVE  HttpInv'
    <3>1. left' \in 0..MaxBody /\ total' \in Nat /\ total' <= reply.body /\ total' <= Limit
      <4>1. n \in 1..(reply.body - total) /\ total + n <= Limit /\ left' = n /\ total' = total + n
        BY <2>2 DEF Http!ChunkFits
      <4>2. QED
        BY <1>0, <1>b, <1>n, <4>1
    <3>2. HttpTypes' /\ (sink <= Limit)'
      BY <1>t, <2>2, <3>1 DEF HttpTypes
    <3>3. Framed(exchangeAt, sink, left, total, reply.framing, reply.body)'
      BY <1>t, <1>f, <2>2, <3>1 DEF Framed
    <3>4. QED
      BY <1>w, <2>2, <3>2, <3>3
  <2>3. QED
    BY <1>e, <1>7, <2>1, <2>2 DEF Http!ChunkSize
<1>8. CASE Http!CopyToClose
  <2>0. reply.framing = "close"
    BY <1>8, <1>f DEF Http!CopyToClose, Framed
  <2>1. CASE left = 0
    BY <1>8, <1>o, <2>0, <2>1 DEF Http!CopyToClose
  <2>2. ASSUME exchangeAt = "close", NEW n \in 1..left, ~(sink + n > Limit), left' = left - n,
               sink' = sink + n, UNCHANGED <<call, exchangeAt, host, hop, told, reply, total,
                 budget>>
        PROVE  HttpInv'
    <3>1. left' \in 0..MaxBody /\ sink' \in Nat /\ sink' <= Limit
      BY <1>0, <1>t, <2>2
    <3>2. HttpTypes'
      BY <1>t, <2>2, <3>1 DEF HttpTypes
    <3>3. Framed(exchangeAt, sink, left, total, reply.framing, reply.body)'
      BY <1>f, <2>2 DEF Framed
    <3>4. QED
      BY <1>w, <2>2, <3>1, <3>2, <3>3
  <2>3. QED
    BY <1>e, <1>8, <2>1, <2>2 DEF Http!CopyToClose
<1>9. CASE Http!Cut
  <2>1. PICK silent \in BOOLEAN : Http!Over(IF Http!CutEndsBody(silent) THEN "ok" ELSE "error")
    BY <1>9 DEF Http!Cut
  <2>2. CASE Http!CutEndsBody(silent)
    <3>1. reply.framing = "close"
      BY <1>f, <2>2 DEF Http!CutEndsBody, Framed
    <3>2. QED
      BY <1>o, <2>1, <2>2, <3>1
  <2>3. QED
    BY <1>e, <2>1, <2>2
<1>10. CASE UNCHANGED Http!vars
  BY <1>10 DEF Http!vars, HttpInv, HttpTypes, Framed, Http!WholeOrRefused
<1>11. QED
  BY <1>1, <1>2, <1>3, <1>4, <1>5, <1>6, <1>7, <1>8, <1>9, <1>10 DEF Http!Next

LEMMA HttpMeans == HttpInv
  => Http!TypeOK /\ Http!WholeOrRefused /\ Http!WithinLimit /\ Http!TokenStays
BY DEF HttpInv, HttpTypes, Http!TypeOK, Http!WithinLimit, Http!TokenStays, Http!Hosts

\* A reply that says its length is taken whole or not at all, within the
\* limit, and the token stays with the host it is for, for any reply, limits
\* and number of redirects.
THEOREM RepliesAreWhole ==
  ASSUME Http!HttpAssumption
  PROVE  Http!Spec => [](Http!TypeOK /\ Http!WholeOrRefused /\ Http!WithinLimit /\ Http!TokenStays)
<1>1. Http!Init => HttpInv
  BY HttpInit
<1>2. HttpInv /\ [Http!Next]_Http!vars => HttpInv'
  BY HttpNext
<1>3. HttpInv => Http!TypeOK /\ Http!WholeOrRefused /\ Http!WithinLimit /\ Http!TokenStays
  BY HttpMeans
<1>4. QED
  BY <1>1, <1>2, <1>3, PTL DEF Http!Spec

-----------------------------------------------------------------------------
(* The output of a command.                                                *)

\* CommandRun's variables.
toWrite == v1
output == v2
pipe == v3
bytes == v4
reader == v5
child == v6
says == v7
callerAt == v8
USE DEF toWrite, output, pipe, bytes, reader, child, says, callerAt

CommandTypes ==
  /\ Command!TypeOK /\ toWrite \in [Command!Pipes -> Nat] /\ output \in [Command!Pipes -> Nat]
  /\ pipe \in [Command!Pipes -> Nat] /\ bytes \in [Command!Pipes -> Nat] /\ says \in BOOLEAN

\* Nothing the child writes is lost: it is still to come, in the pipe or read.
Accounted == \A p \in Command!Pipes : bytes[p] + pipe[p] + toWrite[p] = output[p]

CommandInv ==
  /\ CommandTypes /\ Accounted
  /\ \A p \in Command!Pipes : /\ reader[p] = "done" => pipe[p] = 0 /\ child \notin {"off", "runs"}
                              /\ reader[p] = "off" => child = "off"
                              /\ child \in {"exited", "failed"} => toWrite[p] = 0
  /\ child = "off" => \A p \in Command!Pipes : reader[p] = "off"
  /\ callerAt \in {"joins", "ok"} => child \in {"exited", "failed"}
  /\ callerAt = "ok" => child = "exited" /\ ~says /\ \A p \in Command!Pipes : reader[p] = "done"

LEMMA CommandInit == Command!CommandAssumption /\ Command!Init => CommandInv
BY DEF Command!CommandAssumption, Command!Init, CommandInv, CommandTypes, Accounted,
       Command!TypeOK, Command!Pipes

LEMMA CommandNext ==
  ASSUME Command!CommandAssumption, CommandInv, [Command!Next]_Command!vars
  PROVE  CommandInv'
<1> USE DEF Command!CommandAssumption, CommandInv, CommandTypes, Command!TypeOK, Accounted
<1>1. ASSUME NEW p \in Command!Pipes, Command!Write(p) PROVE CommandInv'
  <2>1. /\ child = "runs" /\ toWrite[p] > 0 /\ pipe[p] < Capacity
        /\ toWrite' = [toWrite EXCEPT ![p] = @ - 1] /\ pipe' = [pipe EXCEPT ![p] = @ + 1]
        /\ UNCHANGED <<output, bytes, reader, child, says, callerAt>>
    BY <1>1 DEF Command!Write
  <2>2. /\ toWrite'[p] = toWrite[p] - 1 /\ pipe'[p] = pipe[p] + 1
        /\ \A q \in Command!Pipes \ {p} : toWrite'[q] = toWrite[q] /\ pipe'[q] = pipe[q]
    BY <2>1
  <2>3. toWrite' \in [Command!Pipes -> Nat] /\ pipe' \in [Command!Pipes -> 0..Capacity]
        /\ pipe' \in [Command!Pipes -> Nat]
    BY <2>1
  <2>4. Accounted'
    BY <2>1, <2>2
  <2>5. QED
    BY <2>1, <2>3, <2>4
<1>2. ASSUME NEW p \in Command!Pipes, Command!ReadPipe(p) PROVE CommandInv'
  <2>1. reader[p] = "reads" /\ UNCHANGED <<toWrite, output, child, says, callerAt>>
    BY <1>2 DEF Command!ReadPipe
  <2>2. CASE /\ pipe[p] > 0 /\ pipe' = [pipe EXCEPT ![p] = 0]
             /\ bytes' = [bytes EXCEPT ![p] = @ + pipe[p]] /\ UNCHANGED reader
    <3>1. /\ pipe'[p] = 0 /\ bytes'[p] = bytes[p] + pipe[p]
          /\ \A q \in Command!Pipes \ {p} : bytes'[q] = bytes[q] /\ pipe'[q] = pipe[q]
      BY <2>2
    <3>2. pipe' \in [Command!Pipes -> 0..Capacity] /\ pipe' \in [Command!Pipes -> Nat]
          /\ bytes' \in [Command!Pipes -> Nat]
      BY <2>2
    <3>3. QED
      BY <2>1, <2>2, <3>1, <3>2
  <2>3. CASE /\ pipe[p] = 0 /\ child # "runs" /\ reader' = [reader EXCEPT ![p] = "done"]
             /\ UNCHANGED <<pipe, bytes>>
    <3>1. child \notin {"off", "runs"}
      BY <2>1, <2>3
    <3>2. reader' \in [Command!Pipes -> {"off", "reads", "done"}]
      BY <2>3
    <3>3. QED
      BY <2>1, <2>3, <3>1, <3>2
  <2>4. QED
    BY <1>2, <2>2, <2>3 DEF Command!ReadPipe
<1>3. CASE Command!Exit
  BY <1>3 DEF Command!Exit
<1>4. CASE Command!Start
  BY <1>4 DEF Command!Start
<1>5. CASE Command!Wait
  BY <1>5 DEF Command!Wait
<1>6. CASE Command!Join
  BY <1>6 DEF Command!Join
<1>7. CASE UNCHANGED Command!vars
  BY <1>7 DEF Command!vars
<1>8. QED
  BY <1>1, <1>2, <1>3, <1>4, <1>5, <1>6, <1>7 DEF Command!Next

LEMMA CommandMeans == Command!CommandAssumption /\ CommandInv
  => Command!TypeOK /\ Command!NeverStuck /\ Command!AnswerIsWhole
<1> SUFFICES ASSUME Command!CommandAssumption, CommandInv
                    PROVE Command!NeverStuck /\ Command!AnswerIsWhole
  BY DEF CommandInv, CommandTypes
<1>1. Command!NeverStuck
  BY DEF Command!NeverStuck, CommandInv, CommandTypes, Command!TypeOK
<1>2. ASSUME callerAt = "ok" PROVE bytes = output
  BY <1>2 DEF CommandInv, CommandTypes, Accounted
<1>3. QED
  BY <1>1, <1>2 DEF Command!AnswerIsWhole, CommandInv

\* An answer is all the child wrote, and no child waits for a reader, for any
\* pipe and any output.
THEOREM AnswersAreWhole ==
  ASSUME Command!CommandAssumption
         PROVE Command!Spec => [](Command!TypeOK /\ Command!NeverStuck /\ Command!AnswerIsWhole)
<1>1. Command!Init => CommandInv
  BY CommandInit
<1>2. CommandInv /\ [Command!Next]_Command!vars => CommandInv'
  BY CommandNext
<1>3. CommandInv => Command!TypeOK /\ Command!NeverStuck /\ Command!AnswerIsWhole
  BY CommandMeans
<1>4. QED
  BY <1>1, <1>2, <1>3, PTL DEF Command!Spec

-----------------------------------------------------------------------------
(* The arithmetic.                                                         *)

\* Reckoning's variables.
work == v1
day == v2
date == v3
wanted == v4
request == v5
settled == v6
address == v7
packet == v8
heard == v9
USE DEF work, day, date, wanted, request, settled, address, packet, heard

\* The dates that there are, and the days before the March that starts year y.
Valid(y, m, d) == y \in Nat /\ m \in 1..12 /\ d \in 1..Sums!MonthLength(y, m)
Before(y) == 365 * y + y \div 4 - y \div 100 + y \div 400
March(y, m) == IF m <= 2 THEN y - 1 ELSE y
DayOf(m, d) == (153 * ((m + 9) % 12) + 2) \div 5 + d - 1

LEMMA Lengths ==
  \A y, m \in Nat :
    Sums!MonthLength(y, m) \in {28, 29, 30, 31}
      /\ (Sums!MonthLength(y, m) = 29 => m = 2 /\ Sums!Leap(y))
BY DEF Sums!MonthLength

\* The same as the code computes it, by eras of 400 years.
ByEra(y) ==
  LET era == y \div 400
      yoe == y - era * 400
  IN era * 146097 + yoe * 365 + yoe \div 4 - yoe \div 100

LEMMA YearSplit ==
  ASSUME NEW y \in Int
  PROVE  /\ y \div 400 \in Int
         /\ 0 <= y - (y \div 400) * 400 /\ y - (y \div 400) * 400 <= 399
         /\ ByEra(y) = Before(y)
BY DEF Before, ByEra

LEMMA DaysAre ==
  ASSUME NEW y \in Nat, NEW m \in Nat, NEW d \in Nat, 1 <= m, m <= 12
  PROVE  Sums!DaysFromCivil(y, m, d) = Before(March(y, m)) + DayOf(m, d) - 719468
<1>1. March(y, m) \in Int
  BY DEF March
<1>2. Sums!DaysFromCivil(y, m, d) = ByEra(March(y, m)) + DayOf(m, d) - 719468
  BY SMT DEF Sums!DaysFromCivil, DayOf, March, ByEra
<1>3. ByEra(March(y, m)) = Before(March(y, m))
  BY <1>1, YearSplit
<1>4. QED
  BY <1>2, <1>3, SMT

\* The month and the day in it of a day counted from March, as the code takes them apart.
MonthOf(doy, m, d) ==
  LET mp == (5 * doy + 2) \div 153 IN
  m = (IF mp < 10 THEN mp + 3 ELSE mp - 9) /\ d = doy - (153 * mp + 2) \div 5 + 1

LEMMA MonthDay ==
  ASSUME NEW m \in Nat, NEW d \in Nat, 1 <= m, m <= 12, 1 <= d, d <= 31,
         m \in {4, 6, 9, 11} => d <= 30, m = 2 => d <= 29
  PROVE  /\ DayOf(m, d) \in Int /\ 0 <= DayOf(m, d) /\ DayOf(m, d) <= 365
         /\ MonthOf(DayOf(m, d), m, d)
         /\ DayOf(m, d) = 365 => m = 2 /\ d = 29
<1>1. m = 1 \/ m = 2 \/ m = 3 \/ m = 4 \/ m = 5 \/ m = 6 \/ m = 7 \/ m = 8 \/ m = 9 \/ m = 10
      \/ m = 11 \/ m = 12
  OBVIOUS
<1>2. QED
  BY <1>1, SMT DEF DayOf, MonthOf

\* The quotient of a number is where its bounds are.
LEMMA By365 ==
  \A x, q \in Nat : q * 365 <= x /\ x < q * 365 + 365 => x \div 365 = q
OBVIOUS

LEMMA By1460 ==
  \A x, q \in Nat : q * 1460 <= x /\ x < q * 1460 + 1460 => x \div 1460 = q
OBVIOUS

LEMMA By36524 ==
  \A x, q \in Nat : q * 36524 <= x /\ x < q * 36524 + 36524 => x \div 36524 = q
OBVIOUS

LEMMA By146096 ==
  \A x, q \in Nat : q * 146096 <= x /\ x < q * 146096 + 146096 => x \div 146096 = q
OBVIOUS

LEMMA By146097 ==
  \A x, q \in Int : q * 146097 <= x /\ x < q * 146097 + 146097 => x \div 146097 = q
BY SMT

\* A day of the cycle by its centuries, cycles of four years, years and days.
DayParts(c, q, s, doy, doe) ==
  /\ 0 <= c /\ c <= 3 /\ 0 <= q /\ q <= 24 /\ 0 <= s /\ s <= 3 /\ 0 <= doy /\ doy <= 365
  /\ doe = 36524 * c + 1461 * q + 365 * s + doy

\* The year of the cycle that a day of it is in, as the code finds it.
YearIn(doe) == (doe - doe \div 1460 + doe \div 36524 - doe \div 146096) \div 365

LEMMA YearOfDay ==
  ASSUME NEW c \in Int, NEW q \in Int, NEW s \in Int, NEW doy \in Int, NEW doe \in Int,
         DayParts(c, q, s, doy, doe),
         doy = 365 => s = 3 /\ (q # 24 \/ c = 3)
  PROVE  /\ 0 <= doe /\ doe <= 146096
         /\ YearIn(doe) = 100 * c + 4 * q + s
<1> USE DEF DayParts
<1>1. PICK w \in Nat : w = 24 * c + q + 365 * s + doy
  <2>1. 24 * c + q + 365 * s + doy \in Nat
    OBVIOUS
  <2>2. QED
    BY <2>1
<1>2. doe = 1460 * (25 * c + q) + w /\ w <= 1556
  BY <1>1
<1>9. doe \in Nat /\ doe <= 146096
  <2>1. doe >= 0
    OBVIOUS
  <2>2. doe <= 146096
    OBVIOUS
  <2>3. QED
    BY <2>1, <2>2
<1>3. PICK k \in {0, 1} : k = 1 <=> w >= 1460
  <2>1. CASE w >= 1460
    BY <2>1
  <2>2. CASE ~(w >= 1460)
    BY <2>2
  <2>3. QED
    BY <2>1, <2>2
<1>4. doe \div 1460 = 25 * c + q + k
  <2>1. (25 * c + q + k) \in Nat
    BY <1>3
  <2>2. (25 * c + q + k) * 1460 <= doe
    BY <1>2, <1>3
  <2>3. doe < (25 * c + q + k) * 1460 + 1460
    BY <1>2, <1>3
  <2>4. QED
    BY <1>9, <2>1, <2>2, <2>3, By1460
<1>5. 0 <= doy - k /\ doy - k <= 364
  <2>1. CASE doy = 365
    <3>1. w >= 1460
      BY <1>1, <2>1
    <3>2. QED
      BY <2>1, <3>1, <1>3
  <2>2. CASE doy # 365 /\ k = 1
    <3>1. doy # 0
      BY <1>1, <1>3, <2>2
    <3>2. QED
      BY <2>2, <3>1
  <2>3. CASE doy # 365 /\ k = 0
    BY <2>3
  <2>4. QED
    BY <2>1, <2>2, <2>3, <1>3
<1>6. CASE doe # 146096
  <2>1. doe \div 36524 = c
    <3>1. c * 36524 <= doe
      OBVIOUS
    <3>2. doe < c * 36524 + 36524
      BY <1>6
    <3>3. QED
      BY <1>9, <3>1, <3>2, By36524
  <2>2. doe \div 146096 = 0
    <3>1. 0 * 146096 <= doe /\ doe < 0 * 146096 + 146096
      BY <1>6, <1>9
    <3>2. QED
      BY <1>9, <3>1, By146096
  <2>3. PICK n \in Int : n = doe - doe \div 1460 + doe \div 36524 - doe \div 146096
    <3>1. doe - (25 * c + q + k) + c - 0 \in Int
      BY <1>3
    <3>2. QED
      BY <1>4, <2>1, <2>2, <3>1
  <2>4. n = doe - (25 * c + q + k) + c - 0
    BY <1>4, <2>1, <2>2, <2>3
  <2>5. n = (100 * c + 4 * q + s) * 365 + (doy - k)
    BY <1>3, <2>4
  <2>6. 100 * c + 4 * q + s \in Nat
    OBVIOUS
  <2>7. n \in Nat /\ (100 * c + 4 * q + s) * 365 <= n /\ n < (100 * c + 4 * q + s) * 365 + 365
    BY <1>5, <2>5, <2>6
  <2>8. n \div 365 = 100 * c + 4 * q + s
    BY <2>6, <2>7, By365
  <2>9. QED
    BY <1>9, <2>3, <2>8, SMT DEF YearIn
<1>7. CASE doe = 146096
  <2>1. c = 3 /\ q = 24 /\ s = 3 /\ doy = 365
    BY <1>7
  <2>2. 146096 \div 1460 = 100 /\ 146096 \div 36524 = 4 /\ 146096 \div 146096 = 1
    OBVIOUS
  <2>3. (146096 - 100 + 4 - 1) \div 365 = 399
    OBVIOUS
  <2>4. QED
    BY <1>7, <1>9, <2>1, <2>2, <2>3 DEF YearIn
<1>8. QED
  BY <1>6, <1>7, <1>9

\* A year from one March to the next, in its cycle of 400 years.
Parted(era, e, c, q, s) ==
  /\ 0 <= c /\ c <= 3 /\ 0 <= q /\ q <= 24 /\ 0 <= s /\ s <= 3
  /\ e = 100 * c + 4 * q + s
  /\ e \div 4 = 25 * c + q /\ e \div 100 = c
  /\ Sums!Leap(e + era * 400 + 1) => s = 3 /\ (q # 24 \/ c = 3)
HasParts(era, e) == \E c, q, s \in Int : Parted(era, e, c, q, s)

LEMMA YearParts ==
  ASSUME NEW era \in Int, NEW e \in Int, 0 <= e, e <= 399
  PROVE  HasParts(era, e)
<1>1. /\ e \div 100 \in Int /\ (e % 100) \div 4 \in Int /\ e % 4 \in Int
      /\ 0 <= e \div 100 /\ e \div 100 <= 3 /\ 0 <= (e % 100) \div 4 /\ (e % 100) \div 4 <= 24
      /\ 0 <= e % 4 /\ e % 4 <= 3 /\ e = 100 * (e \div 100) + 4 * ((e % 100) \div 4) + (e % 4)
  BY SMT
<1>2. PICK c, q, s \in Int :
        /\ 0 <= c /\ c <= 3 /\ 0 <= q /\ q <= 24 /\ 0 <= s /\ s <= 3
        /\ e = 100 * c + 4 * q + s
  BY <1>1
<1>3. e \div 4 = 25 * c + q /\ e \div 100 = c
  BY <1>2, SMT
<1>4. PICK n \in Int : n = e + era * 400 + 1
  BY SMT
<1>5. n % 4 = 0 => s = 3
  BY <1>2, <1>4, SMT
<1>6. s = 3 /\ q = 24 /\ n % 400 = 0 => c = 3
  BY <1>2, <1>4, SMT
<1>7. s = 3 /\ q = 24 => n % 100 = 0
  BY <1>2, <1>4, SMT
<1>8. Sums!Leap(n) => s = 3 /\ (q # 24 \/ c = 3)
  BY <1>5, <1>6, <1>7, Zenon DEF Sums!Leap
<1>9. QED
  BY <1>2, <1>3, <1>4, <1>8, ZenonT(60) DEF HasParts, Parted

\* The cycle and the year in it, of the days before a year and those in it.
EraIs(y, doy, z) ==
  LET era == y \div 400
      yoe == y - era * 400
      doe == z - era * 146097
  IN /\ z \div 146097 = era
     /\ YearIn(doe) = yoe
     /\ doy = doe - (365 * yoe + yoe \div 4 - yoe \div 100)

DayIs(y, doy, z) == z = Before(y) + doy

LEMMA EraOfDay ==
  ASSUME NEW y \in Int, NEW doy \in Int, NEW z \in Int, 0 <= doy, doy <= 365,
         doy = 365 => Sums!Leap(y + 1), DayIs(y, doy, z)
  PROVE  EraIs(y, doy, z)
<1> DEFINE era == y \div 400
           yoe == y - era * 400
           doe == z - era * 146097
<1> HIDE DEF era, yoe, doe
<1>1. era \in Int
  BY SMT DEF era
<1>2. yoe \in Int /\ 0 <= yoe /\ yoe <= 399
  BY YearSplit, SMT DEF yoe, era
<1>3. Before(y) = era * 146097 + yoe * 365 + yoe \div 4 - yoe \div 100
  <2>1. ByEra(y) = era * 146097 + yoe * 365 + yoe \div 4 - yoe \div 100
    BY SMT DEF ByEra, era, yoe
  <2>2. QED
    BY <2>1, YearSplit, SMT
<1>4. y = yoe + era * 400
  BY <1>1, <1>2, SMT DEF yoe
<1>5. PICK c, q, s \in Int : Parted(era, yoe, c, q, s)
  <2>1. HasParts(era, yoe)
    BY <1>1, <1>2, YearParts, SMT
  <2>2. QED
    BY <2>1, SMT DEF HasParts
<1>12. doy = 365 => s = 3 /\ (q # 24 \/ c = 3)
  BY <1>4, <1>5, SMT DEF Parted
<1>6. doe = 365 * yoe + yoe \div 4 - yoe \div 100 + doy /\ doe \in Int
  BY <1>1, <1>2, <1>3, SMT DEF doe, DayIs
<1>7. DayParts(c, q, s, doy, doe)
  BY <1>2, <1>5, <1>6, SMT DEF DayParts, Parted
<1>15. doe \in Int
  BY <1>6
<1>8. /\ 0 <= doe /\ doe <= 146096
      /\ YearIn(doe) = 100 * c + 4 * q + s
  BY <1>5, <1>7, <1>12, <1>15, YearOfDay, SMT
<1>9. z \div 146097 = era
  <2>1. era * 146097 <= z /\ z < era * 146097 + 146097
    BY <1>1, <1>6, <1>8, SMT DEF doe
  <2>2. QED
    BY <1>1, <2>1, By146097, SMT
<1>10. doy = doe - (365 * yoe + yoe \div 4 - yoe \div 100)
  BY <1>2, <1>6, SMT
<1>11. yoe = 100 * c + 4 * q + s
  BY <1>5, SMT DEF Parted
<1>13. YearIn(doe) = yoe
  BY <1>8, <1>11, SMT
<1>14. QED
  BY <1>9, <1>10, <1>13, SMT DEF EraIs, era, yoe, doe

LEMMA ThereAndBack ==
  ASSUME NEW y \in Nat, NEW m \in Nat, NEW d \in Nat,
         1 <= m, m <= 12, 1 <= d, d <= Sums!MonthLength(y, m)
  PROVE  Sums!CivilFromDays(Sums!DaysFromCivil(y, m, d)) = <<y, m, d>>
<1> DEFINE w == March(y, m)
           doy == DayOf(m, d)
           z == Before(w) + doy
<1> HIDE DEF w, doy, z
<1>1. w \in Int
  BY DEF March, w
<1>2. /\ d <= 31 /\ (m \in {4, 6, 9, 11} => d <= 30) /\ (m = 2 => d <= 29)
      /\ m = 2 /\ d = 29 => Sums!Leap(y)
  BY Lengths DEF Sums!MonthLength
<1>3. doy \in Int /\ 0 <= doy /\ doy <= 365 /\ MonthOf(doy, m, d) /\ (doy = 365 => m = 2 /\ d = 29)
  BY <1>2, MonthDay, SMT DEF doy
<1>4. doy = 365 => Sums!Leap(w + 1)
  <2>1. m = 2 => w + 1 = y
    BY SMT DEF March, w
  <2>2. QED
    BY <1>2, <1>3, <2>1
<1>5. Before(w) \in Int
  BY <1>1, SMT DEF Before
<1>6. z \in Int /\ DayIs(w, doy, z)
  BY <1>3, <1>5, SMT DEF z, DayIs
<1>7. Sums!DaysFromCivil(y, m, d) + 719468 = z
  <2>1. Sums!DaysFromCivil(y, m, d) = Before(w) + doy - 719468
    BY <1>2, DaysAre, SMT DEF w, doy
  <2>2. QED
    BY <1>3, <1>5, <2>1, SMT DEF z
<1>8. EraIs(w, doy, z)
  BY <1>1, <1>3, <1>4, <1>6, EraOfDay, SMT
<1>9. w + (IF m <= 2 THEN 1 ELSE 0) = y
  BY SMT DEF w, March
<1> DEFINE era == w \div 400
           yoe == w - era * 400
           doe == z - era * 146097
           mp == (5 * doy + 2) \div 153
<1>10. yoe + era * 400 = w
  BY <1>1, SMT
<1> HIDE DEF era, yoe, doe, mp
<1>11. /\ z \div 146097 = era
       /\ YearIn(doe) = yoe
       /\ doy = doe - (365 * yoe + yoe \div 4 - yoe \div 100)
  BY <1>8, SMT DEF EraIs, era, yoe, doe
<1>12. m = (IF mp < 10 THEN mp + 3 ELSE mp - 9) /\ d = doy - (153 * mp + 2) \div 5 + 1
  BY <1>3, SMT DEF MonthOf, mp
<1>13. \A n : n + 719468 = z =>
         Sums!CivilFromDays(n) = <<yoe + era * 400 + (IF m <= 2 THEN 1 ELSE 0), m,
           doy - (153 * mp + 2) \div 5 + 1>>
  <2>1. SUFFICES ASSUME NEW n, n + 719468 = z
                 PROVE  Sums!CivilFromDays(n)
                   = <<yoe + era * 400 + (IF m <= 2 THEN 1 ELSE 0), m,
                     doy - (153 * mp + 2) \div 5 + 1>>
    OBVIOUS
  <2> DEFINE era1 == (n + 719468) \div 146097
             doe1 == (n + 719468) - era1 * 146097
             yoe1 == YearIn(doe1)
             doy1 == doe1 - (365 * yoe1 + yoe1 \div 4 - yoe1 \div 100)
             mp1 == (5 * doy1 + 2) \div 153
             m1 == IF mp1 < 10 THEN mp1 + 3 ELSE mp1 - 9
  <2>2. Sums!CivilFromDays(n)
          = <<yoe1 + era1 * 400 + (IF m1 <= 2 THEN 1 ELSE 0), m1,
            doy1 - (153 * mp1 + 2) \div 5 + 1>>
    BY SMT DEF Sums!CivilFromDays, YearIn
  <2> HIDE DEF era1, doe1, yoe1, doy1, mp1, m1
  <2>3. era1 = era
    BY <2>1, <1>11, SMT DEF era1
  <2>4. doe1 = doe
    BY <2>1, <2>3, SMT DEF doe1, doe
  <2>5. yoe1 = yoe
    BY <2>4, <1>11, SMT DEF yoe1
  <2>6. doy1 = doy
    BY <2>4, <2>5, <1>11, SMT DEF doy1
  <2>7. mp1 = mp
    BY <2>6, SMT DEF mp1, mp
  <2>8. m1 = m
    BY <2>7, <1>12, SMT DEF m1
  <2>9. QED
    BY <2>2, <2>3, <2>5, <2>6, <2>7, <2>8, SMT
<1>15. Sums!CivilFromDays(Sums!DaysFromCivil(y, m, d))
         = <<yoe + era * 400 + (IF m <= 2 THEN 1 ELSE 0), m, doy - (153 * mp + 2) \div 5 + 1>>
  BY <1>7, <1>13
<1>14. QED
  BY <1>9, <1>10, <1>12, <1>15, SMT

\* A year is as long as the February in it makes it.
LEMMA YearLength ==
  ASSUME NEW y \in Int
  PROVE  Before(y) = Before(y - 1) + (IF Sums!Leap(y) THEN 366 ELSE 365)
BY SMT DEF Before, Sums!Leap

\* The day after a day has the next number.
LEMMA Tomorrow ==
  ASSUME NEW y \in Nat, NEW m \in Nat, NEW d \in Nat,
         1 <= m, m <= 12, 1 <= d, d <= Sums!MonthLength(y, m)
  PROVE  LET today == Sums!DaysFromCivil(y, m, d) IN
         /\ today \in Int
         /\ d < Sums!MonthLength(y, m) => Sums!DaysFromCivil(y, m, d + 1) = today + 1
         /\ d = Sums!MonthLength(y, m) /\ m < 12 => Sums!DaysFromCivil(y, m + 1, 1) = today + 1
         /\ d = Sums!MonthLength(y, m) /\ m = 12 => Sums!DaysFromCivil(y + 1, 1, 1) = today + 1
<1>1. \A n \in Int : Before(n) \in Int
  BY SMT DEF Before
<1>2. March(y, m) \in Int /\ DayOf(m, d) \in Int
  BY SMT DEF March, DayOf
<1>3. Sums!DaysFromCivil(y, m, d) = Before(March(y, m)) + DayOf(m, d) - 719468
  BY DaysAre, SMT
<1>4. Sums!DaysFromCivil(y, m, d) \in Int
  BY <1>1, <1>2, <1>3, SMT
<1>5. ASSUME d < Sums!MonthLength(y, m)
      PROVE  Sums!DaysFromCivil(y, m, d + 1) = Sums!DaysFromCivil(y, m, d) + 1
  <2>1. Sums!DaysFromCivil(y, m, d + 1) = Before(March(y, m)) + DayOf(m, d + 1) - 719468
    BY DaysAre, SMT
  <2>2. DayOf(m, d + 1) = DayOf(m, d) + 1
    BY SMT DEF DayOf
  <2>3. QED
    BY <1>1, <1>2, <1>3, <2>1, <2>2, SMT
<1>6. ASSUME d = Sums!MonthLength(y, m), m < 12
      PROVE  Sums!DaysFromCivil(y, m + 1, 1) = Sums!DaysFromCivil(y, m, d) + 1
  <2>1. Sums!DaysFromCivil(y, m + 1, 1) = Before(March(y, m + 1)) + DayOf(m + 1, 1) - 719468
    BY <1>6, DaysAre, SMT
  <2>2. CASE m = 2
    <3>1. March(y, m) = y - 1 /\ March(y, m + 1) = y /\ DayOf(m + 1, 1) = 0
      BY <2>2, SMT DEF March, DayOf
    <3>2. DayOf(m, d) = (IF Sums!Leap(y) THEN 365 ELSE 364)
      BY <1>6, <2>2, SMT DEF DayOf, Sums!MonthLength
    <3>3. Before(y) = Before(y - 1) + (IF Sums!Leap(y) THEN 366 ELSE 365)
      BY YearLength, SMT
    <3>4. Before(y) = Before(y - 1) + DayOf(m, d) + 1
      BY <1>1, <3>2, <3>3, SMT
    <3>5. Before(y) \in Int /\ Before(y - 1) \in Int
      BY <1>1, SMT
    <3>6. QED
      BY <1>2, <1>3, <2>1, <3>1, <3>4, <3>5, SMT
  <2>3. CASE m # 2
    <3>1. March(y, m + 1) = March(y, m)
      BY <2>3, SMT DEF March
    <3>2. m = 1 \/ m = 3 \/ m = 4 \/ m = 5 \/ m = 6 \/ m = 7 \/ m = 8 \/ m = 9 \/ m = 10 \/ m = 11
      BY <1>6, <2>3, SMT
    <3>3. DayOf(m + 1, 1) = DayOf(m, d) + 1
      BY <1>6, <3>2, SMT DEF DayOf, Sums!MonthLength
    <3>4. QED
      BY <1>1, <1>2, <1>3, <2>1, <3>1, <3>3, SMT
  <2>4. QED
    BY <2>2, <2>3
<1>7. ASSUME d = Sums!MonthLength(y, m), m = 12
      PROVE  Sums!DaysFromCivil(y + 1, 1, 1) = Sums!DaysFromCivil(y, m, d) + 1
  <2>1. Sums!DaysFromCivil(y + 1, 1, 1) = Before(March(y + 1, 1)) + DayOf(1, 1) - 719468
    BY DaysAre, SMT
  <2>2. March(y + 1, 1) = March(y, m)
    BY <1>7, SMT DEF March
  <2>3. DayOf(1, 1) = DayOf(m, d) + 1
    BY <1>7, SMT DEF DayOf, Sums!MonthLength
  <2>4. QED
    BY <1>1, <1>2, <1>3, <2>1, <2>2, <2>3, SMT
<1>8. QED
  BY <1>4, <1>5, <1>6, <1>7

\* What the walk through the calendar keeps.
DateIs(t, n) ==
  \E y, m, d \in Nat :
    /\ 1 <= m /\ m <= 12 /\ 1 <= d /\ d <= Sums!MonthLength(y, m)
    /\ t = <<y, m, d>> /\ n = Sums!DaysFromCivil(y, m, d)

LEMMA DateGoesOn ==
  ASSUME Sums!NextDay, DateIs(date, day)
  PROVE  DateIs(date', day')
<1>1. PICK y, m, d \in Nat :
        /\ 1 <= m /\ m <= 12 /\ 1 <= d /\ d <= Sums!MonthLength(y, m)
        /\ date = <<y, m, d>> /\ day = Sums!DaysFromCivil(y, m, d)
  BY DEF DateIs
<1>2. /\ day' = day + 1
      /\ date' = IF d < Sums!MonthLength(y, m) THEN <<y, m, d + 1>>
                 ELSE IF m < 12 THEN <<y, m + 1, 1>> ELSE <<y + 1, 1, 1>>
  BY <1>1, SMT DEF Sums!NextDay
<1>3. \A n, k \in Nat : Sums!MonthLength(n, k) \in Nat /\ 1 <= Sums!MonthLength(n, k)
  BY Lengths, SMT
<1>8. Sums!MonthLength(y, m) \in Nat
  BY <1>3
<1>9. d <= Sums!MonthLength(y, m) /\ m <= 12
  BY <1>1
<1>4. CASE d < Sums!MonthLength(y, m)
  <2>1. date' = <<y, m, d + 1>> /\ day' = Sums!DaysFromCivil(y, m, d + 1)
    BY <1>1, <1>2, <1>4, Tomorrow, SMT
  <2>2. d + 1 \in Nat /\ 1 <= d + 1 /\ d + 1 <= Sums!MonthLength(y, m)
    BY <1>3, <1>4, SMT
  <2>3. QED
    BY <1>1, <2>1, <2>2, SMT DEF DateIs
<1>5. CASE ~(d < Sums!MonthLength(y, m)) /\ m < 12
  <2>0. d = Sums!MonthLength(y, m)
    BY <1>5, <1>8, <1>9, SMT
  <2>1. date' = <<y, m + 1, 1>> /\ day' = Sums!DaysFromCivil(y, m + 1, 1)
    BY <1>1, <1>2, <1>5, <2>0, Tomorrow, SMT
  <2>2. m + 1 \in Nat /\ 1 <= m + 1 /\ m + 1 <= 12 /\ 1 <= Sums!MonthLength(y, m + 1)
    BY <1>3, <1>5, SMT
  <2>3. QED
    BY <2>1, <2>2, SMT DEF DateIs
<1>6. CASE ~(d < Sums!MonthLength(y, m)) /\ ~(m < 12)
  <2>0. d = Sums!MonthLength(y, m) /\ m = 12
    BY <1>6, <1>8, <1>9, SMT
  <2>1. date' = <<y + 1, 1, 1>> /\ day' = Sums!DaysFromCivil(y + 1, 1, 1)
    BY <1>1, <1>2, <1>6, <2>0, Tomorrow, SMT
  <2>2. y + 1 \in Nat /\ 1 <= Sums!MonthLength(y + 1, 1)
    BY <1>3, SMT
  <2>3. QED
    BY <2>1, <2>2, SMT DEF DateIs
<1>7. QED
  BY <1>4, <1>5, <1>6

-----------------------------------------------------------------------------
\* A larger request leaves a larger bitrate: each deduction does so.
AfterFec(r) == (4 * r) \div 5
AfterAudio(r) == r - Sums!Least(512, r \div 5)
AfterControl(r) == r - Sums!Least(500, r \div 10)

LEMMA EncoderGrows ==
  ASSUME NEW a \in Nat, NEW b \in Nat, a <= b
  PROVE  Sums!Encoder(a) \in Int /\ Sums!Encoder(a) <= Sums!Encoder(b)
<1>1. \A r \in Nat : Sums!Encoder(r) = AfterControl(AfterAudio(AfterFec(r)))
  BY SMT DEF Sums!Encoder, AfterControl, AfterAudio, AfterFec
<1>2. \A r \in Nat : AfterFec(r) \in Nat /\ AfterAudio(r) \in Nat /\ AfterControl(r) \in Nat
  BY SMT DEF AfterFec, AfterAudio, AfterControl, Sums!Least
<1>3. \A r, t \in Nat : r <= t => AfterFec(r) <= AfterFec(t)
  BY SMT DEF AfterFec
<1>4. \A r, t \in Nat : r <= t => AfterAudio(r) <= AfterAudio(t)
  BY SMT DEF AfterAudio, Sums!Least
<1>5. \A r, t \in Nat : r <= t => AfterControl(r) <= AfterControl(t)
  BY SMT DEF AfterControl, Sums!Least
<1>6. QED
  BY <1>1, <1>2, <1>3, <1>4, <1>5, SMT

\* Until it is settled the request is one; then it is the smallest.
BitrateInv ==
  /\ wanted \in Nat /\ settled \in BOOLEAN
  /\ ~settled => request \in Nat /\ 1 <= request
  /\ settled =>
       /\ request = Sums!MaxRequest \/ Sums!Encoder(request) >= wanted
       /\ \A r \in 1..(request - 1) : Sums!Encoder(r) < wanted

LEMMA BitrateGoesOn ==
  ASSUME Sums!Settle, BitrateInv
  PROVE  BitrateInv'
<1>1. /\ wanted' = wanted /\ wanted \in Nat /\ ~settled /\ request \in Nat /\ 1 <= request
  BY Zenon DEF Sums!Settle, BitrateInv
<1>2. CASE request' = request + 1 /\ settled' = settled
  BY <1>1, <1>2, SMT DEF BitrateInv
<1>3. CASE request > 1 /\ request' = request - 1 /\ settled' = settled
  BY <1>1, <1>3, SMT DEF BitrateInv
<1>4. CASE /\ Sums!Encoder(request) >= wanted /\ (request = 1 \/ Sums!Encoder(request - 1) < wanted)
           /\ request' = Sums!Least(request, Sums!MaxRequest) /\ settled' = TRUE
  <2>1. request' = Sums!MaxRequest \/ Sums!Encoder(request') >= wanted
    BY <1>4, SMT DEF Sums!Least
  <2>2. request' \in Nat /\ request' <= request
    BY <1>1, <1>4, SMT DEF Sums!Least, Sums!MaxRequest
  <2>3. ASSUME NEW r \in Nat, r < request
        PROVE  request - 1 \in Nat
               => Sums!Encoder(r) <= Sums!Encoder(request - 1) /\ Sums!Encoder(r) \in Int
    <3>1. r <= request - 1
      BY <1>1, <2>3
    <3>2. QED
      BY <3>1, EncoderGrows
  <2>4. ASSUME NEW r \in Nat, 1 <= r, r < request
        PROVE  Sums!Encoder(r) < wanted
    <3>1. request - 1 \in Nat /\ request # 1
      BY <1>1, <2>4
    <3>2. Sums!Encoder(request - 1) < wanted
      BY <1>4, <3>1
    <3>3. Sums!Encoder(request - 1) \in Int
      BY <3>1, EncoderGrows
    <3>4. Sums!Encoder(r) <= Sums!Encoder(request - 1) /\ Sums!Encoder(r) \in Int
      BY <2>3, <2>4, <3>1
    <3>5. QED
      BY <1>1, <3>2, <3>3, <3>4
  <2>5. \A r \in 1..(request' - 1) : r \in Nat /\ 1 <= r /\ r < request
    <3>1. \A n, k \in Nat : n <= k => \A r \in 1..(n - 1) : r \in Nat /\ 1 <= r /\ r < k
      BY SMT
    <3>2. QED
      BY <1>1, <2>2, <3>1, Zenon
  <2>6. QED
    BY <1>1, <1>4, <2>1, <2>4, <2>5 DEF BitrateInv
<1>5. QED
  BY <1>2, <1>3, <1>4 DEF Sums!Settle

-----------------------------------------------------------------------------
\* Where the address is repeated, and which of its bytes is there.
PacketSize == 102
Ones == 255
PacketBytes == 1..PacketSize
AddressBytes == 1..6
RepeatedBytes == 7..102
AddressOf(p) == SubSeq(p, 7, 12)
ByteAt(i) == ((i - 1) % 6) + 1

LEMMA BytesAt ==
  /\ \A i \in RepeatedBytes : i \in PacketBytes /\ ~(i <= 6) /\ ByteAt(i) \in AddressBytes
  /\ \A i \in PacketBytes : i <= 6 \/ i \in RepeatedBytes
  /\ \A i \in AddressBytes : i + 6 \in RepeatedBytes /\ i + 12 \in RepeatedBytes
                     /\ ByteAt(i + 6) = i /\ ByteAt(i + 12) = i
  /\ \A i \in RepeatedBytes : i <= 12 => i - 6 \in AddressBytes /\ ByteAt(i) = i - 6
BY SMT DEF RepeatedBytes, ByteAt, AddressBytes, PacketBytes, PacketSize

\* What starts with a whole packet is heard.
LEMMA HeardWhole ==
  ASSUME NEW m \in Sums!Macs, NEW p, Len(p) \in Nat, PacketSize <= Len(p), AddressOf(p) = m,
         \A i \in AddressBytes : p[i] = Ones, \A i \in RepeatedBytes : p[i] = m[ByteAt(i)]
  PROVE  Sums!MagicTarget(p) = m
<1>1. m # Sums!Filled(6, 255)
  BY DEF Sums!Macs
<1>2. ~(Len(p) < PacketSize)
  BY SMT DEF PacketSize
<1>3. ~(\E i \in AddressBytes : p[i] # Ones)
  BY Zenon
<1>4. QED
  BY <1>1, <1>2, <1>3, Zenon
     DEF Sums!MagicTarget, RepeatedBytes, ByteAt, AddressOf, AddressBytes, PacketSize, Ones

\* What is short, begins otherwise or has a wrong byte is not.
LEMMA HeardNot ==
  ASSUME NEW p, \/ Len(p) < PacketSize
                \/ \E i \in AddressBytes : p[i] # Ones
                \/ \E i \in RepeatedBytes : p[i] # AddressOf(p)[ByteAt(i)]
  PROVE  Sums!MagicTarget(p) = <<>>
BY Zenon DEF Sums!MagicTarget, RepeatedBytes, ByteAt, AddressOf, AddressBytes, PacketSize, Ones

\* A function on 1..n is a sequence of that length.
LEMMA FunctionIsSeq ==
  ASSUME NEW S, NEW n \in Nat, NEW f \in [1..n -> S]
  PROVE  f \in Seq(S) /\ Len(f) = n
<1>1. f \in Seq(S)
  BY SeqDef
<1>2. Len(f) \in Nat /\ DOMAIN f = 1..Len(f)
  BY <1>1, LenProperties
<1>3. \A k, j \in Nat : 1..k = 1..j => k = j
  <2>1. SUFFICES ASSUME NEW k \in Nat, NEW j \in Nat, 1..k = 1..j, k < j
                 PROVE  FALSE
    BY SMT
  <2>2. j \in 1..j /\ ~(j \in 1..k)
    BY <2>1, SMT
  <2>3. QED
    BY <2>1, <2>2, Zenon
<1>4. QED
  BY <1>1, <1>2, <1>3, Zenon

LEMMA PartOfSeq ==
  ASSUME NEW S, NEW s \in Seq(S), NEW a \in Nat, NEW b \in Nat, 1 <= a, a <= b, b <= Len(s)
  PROVE  /\ SubSeq(s, a, b) \in Seq(S) /\ Len(SubSeq(s, a, b)) = b - a + 1
         /\ \A i \in 1..(b - a + 1) : SubSeq(s, a, b)[i] = s[a + i - 1]
<1>1. \A i \in a..b : s[i] \in S
  <2>1. SUFFICES ASSUME NEW i \in a..b PROVE s[i] \in S
    OBVIOUS
  <2>2. Len(s) \in Nat
    BY LenProperties
  <2>3. i \in 1..Len(s)
    BY <2>2, SMT
  <2>4. QED
    BY <2>3, ElementOfSeq
<1>2. QED
  BY <1>1, SubSeqProperties

\* A sequence has in it what its elements say.
LEMMA PartIs ==
  ASSUME NEW S, NEW p \in Seq(S), NEW n \in Nat, NEW k \in Nat, 1 <= n, k + n <= Len(p),
         NEW m \in [1..n -> S], \A i \in 1..n : p[i + k] = m[i]
  PROVE  SubSeq(p, k + 1, k + n) = m
<1>1. /\ SubSeq(p, k + 1, k + n) \in Seq(S)
      /\ Len(SubSeq(p, k + 1, k + n)) = (k + n) - (k + 1) + 1
      /\ \A i \in 1..((k + n) - (k + 1) + 1) : SubSeq(p, k + 1, k + n)[i] = p[(k + 1) + i - 1]
  <2>1. k + 1 \in Nat /\ k + n \in Nat /\ 1 <= k + 1 /\ k + 1 <= k + n
    BY SMT
  <2>2. QED
    BY <2>1, PartOfSeq
<1>2. (k + n) - (k + 1) + 1 = n /\ \A i \in 1..n : (k + 1) + i - 1 = i + k
  BY SMT
<1>3. \A i \in 1..n : SubSeq(p, k + 1, k + n)[i] = m[i]
  BY <1>1, <1>2
<1>4. m \in Seq(S) /\ Len(m) = n
  BY FunctionIsSeq
<1>5. Len(SubSeq(p, k + 1, k + n)) = n
  BY <1>1, <1>2
<1>6. QED
  BY <1>1, <1>3, <1>4, <1>5, SeqEqual

\* The address is the second six bytes.
LEMMA AddressIn ==
  ASSUME NEW p \in Seq(Bytes), PacketSize <= Len(p), NEW m \in [AddressBytes -> Bytes],
         \A i \in AddressBytes : p[i + 6] = m[i]
  PROVE  AddressOf(p) = m
<1>1. Len(p) \in Nat
  BY LenProperties
<1>2. SubSeq(p, 6 + 1, 6 + 6) = m
  <2>1. 6 + 6 <= Len(p) /\ 6 \in Nat /\ 1 <= 6
    BY <1>1, SMT DEF PacketSize
  <2>2. QED
    BY <2>1, PartIs DEF AddressBytes
<1>3. 6 + 1 = 7 /\ 6 + 6 = 12
  BY SMT
<1>4. QED
  BY <1>2, <1>3, Zenon DEF AddressOf

LEMMA PacketIs ==
  ASSUME Sums!ReckoningAssumption, NEW m \in Sums!Macs
  PROVE  /\ Sums!MagicPacket(m) \in Seq(Bytes) /\ Len(Sums!MagicPacket(m)) = PacketSize
         /\ Sums!MagicPacket(m) \in [PacketBytes -> Bytes] /\ m \in [AddressBytes -> Bytes]
         /\ \A i \in AddressBytes : Sums!MagicPacket(m)[i] = Ones
         /\ \A i \in RepeatedBytes : Sums!MagicPacket(m)[i] = m[ByteAt(i)]
<1>1. m \in [AddressBytes -> Bytes]
  BY DEF Sums!Macs, AddressBytes
<1>2. Sums!MagicPacket(m) = [i \in PacketBytes |-> IF i <= 6 THEN Ones ELSE m[ByteAt(i)]]
  BY Zenon DEF Sums!MagicPacket, ByteAt, PacketBytes, PacketSize, Ones
<1>3. Ones \in Bytes
  BY DEF Sums!ReckoningAssumption, Ones
<1>4. \A i \in PacketBytes : (IF i <= 6 THEN Ones ELSE m[ByteAt(i)]) \in Bytes
  <2>1. SUFFICES ASSUME NEW i \in PacketBytes, ~(i <= 6) PROVE m[ByteAt(i)] \in Bytes
    BY <1>3, Zenon
  <2>2. ByteAt(i) \in AddressBytes
    BY <2>1, BytesAt, Zenon
  <2>3. QED
    BY <1>1, <2>2, Zenon
<1>5. Sums!MagicPacket(m) \in [PacketBytes -> Bytes]
  BY <1>2, <1>4, Zenon
<1>6. Sums!MagicPacket(m) \in Seq(Bytes) /\ Len(Sums!MagicPacket(m)) = PacketSize
  <2>1. PacketSize \in Nat
    BY SMT DEF PacketSize
  <2>2. QED
    BY <1>5, <2>1, FunctionIsSeq, Zenon DEF PacketBytes
<1>7. \A i \in AddressBytes : Sums!MagicPacket(m)[i] = Ones
  <2>1. \A i \in AddressBytes : i \in PacketBytes /\ i <= 6
    BY SMT DEF AddressBytes, PacketBytes, PacketSize
  <2>2. QED
    BY <1>2, <2>1, Zenon
<1>8. \A i \in RepeatedBytes : Sums!MagicPacket(m)[i] = m[ByteAt(i)]
  BY <1>2, BytesAt, Zenon
<1>9. QED
  BY <1>1, <1>5, <1>6, <1>7, <1>8, Zenon

\* What arrives whole is heard, with a password behind it too.
LEMMA WholeIsHeard ==
  ASSUME Sums!ReckoningAssumption, NEW m \in Sums!Macs
  PROVE  Sums!MagicTarget(Sums!MagicPacket(m)) = m
         /\ Sums!MagicTarget(Sums!MagicPacket(m) \o Sums!Filled(6, 0)) = m
<1> DEFINE sent == Sums!MagicPacket(m)
           long == sent \o Sums!Filled(6, 0)
<1> HIDE DEF sent, long
<1>1. /\ sent \in Seq(Bytes) /\ Len(sent) = PacketSize /\ m \in [AddressBytes -> Bytes]
      /\ \A i \in AddressBytes : sent[i] = Ones
      /\ \A i \in RepeatedBytes : sent[i] = m[ByteAt(i)]
  BY PacketIs, Zenon DEF sent
<1>2. /\ long \in Seq(Bytes) /\ PacketSize <= Len(long) /\ Len(long) \in Nat
      /\ \A i \in PacketBytes : long[i] = sent[i]
  <2>1. Sums!Filled(6, 0) \in [1..6 -> Bytes]
    BY DEF Sums!Filled, Sums!ReckoningAssumption
  <2>2. Sums!Filled(6, 0) \in Seq(Bytes) /\ Len(Sums!Filled(6, 0)) = 6
    BY <2>1, FunctionIsSeq
  <2> DEFINE tail == Sums!Filled(6, 0)
  <2> HIDE DEF tail
  <2>3. tail \in Seq(Bytes) /\ Len(tail) = 6 /\ long = sent \o tail
    BY <2>2, Zenon DEF tail, long
  <2>4. /\ long \in Seq(Bytes) /\ Len(long) = PacketSize + 6
        /\ \A i \in 1..(PacketSize + 6) : long[i] = IF i <= PacketSize THEN sent[i]
           ELSE tail[i - PacketSize]
    <3>1. /\ sent \o tail \in Seq(Bytes) /\ Len(sent \o tail) = Len(sent) + Len(tail)
          /\ \A i \in 1..(Len(sent) + Len(tail)) :
               (sent \o tail)[i] = IF i <= Len(sent) THEN sent[i] ELSE tail[i - Len(sent)]
      BY <1>1, <2>3, ConcatProperties
    <3>2. Len(sent) + Len(tail) = PacketSize + 6
      BY <1>1, <2>3, Zenon
    <3>3. QED
      BY <1>1, <2>3, <3>1, <3>2, Zenon
  <2>5. \A i \in PacketBytes : i \in 1..(PacketSize + 6) /\ i <= PacketSize
    BY SMT DEF PacketBytes, PacketSize
  <2>6. \A i \in PacketBytes : long[i] = sent[i]
    BY <2>4, <2>5, Zenon
  <2>7. PacketSize + 6 \in Nat /\ PacketSize <= PacketSize + 6
    BY SMT DEF PacketSize
  <2>8. QED
    BY <2>4, <2>6, <2>7, Zenon
<1>3. \A i \in AddressBytes : i + 6 \in RepeatedBytes /\ ByteAt(i + 6) = i /\ i \in PacketBytes
      /\ i + 6 \in PacketBytes
  BY BytesAt, SMT DEF AddressBytes, PacketBytes, PacketSize
<1>4. AddressOf(sent) = m
  <2>1. \A i \in AddressBytes : sent[i + 6] = m[i]
    BY <1>1, <1>3, Zenon
  <2>2. PacketSize <= Len(sent)
    BY <1>1, SMT DEF PacketSize
  <2>3. QED
    BY <1>1, <2>1, <2>2, AddressIn, Zenon
<1>5. AddressOf(long) = m
  <2>1. \A i \in AddressBytes : long[i + 6] = m[i]
    BY <1>1, <1>2, <1>3, Zenon
  <2>2. QED
    BY <1>1, <1>2, <2>1, AddressIn, Zenon
<1>6. Sums!MagicTarget(sent) = m
  <2>1. Len(sent) \in Nat /\ PacketSize <= Len(sent)
    BY <1>1, SMT DEF PacketSize
  <2>2. QED
    BY <1>1, <1>4, <2>1, HeardWhole, Zenon
<1>7. Sums!MagicTarget(long) = m
  <2>1. (\A i \in AddressBytes : long[i] = Ones) /\ \A i \in RepeatedBytes : long[i] = m[ByteAt(i)]
    BY <1>1, <1>2, <1>3, BytesAt, Zenon
  <2>2. QED
    BY <1>2, <1>5, <2>1, HeardWhole, Zenon
<1>8. QED
  BY <1>6, <1>7, Zenon DEF sent, long

\* What is cut short is not.
LEMMA ShortIsNotHeard ==
  ASSUME Sums!ReckoningAssumption, NEW m \in Sums!Macs, NEW n \in {0, 6, 12, 101}
  PROVE  Sums!MagicTarget(SubSeq(Sums!MagicPacket(m), 1, n)) = <<>>
<1> DEFINE sent == Sums!MagicPacket(m)
<1> HIDE DEF sent
<1>1. sent \in Seq(Bytes) /\ Len(sent) = PacketSize
  BY PacketIs, Zenon DEF sent
<1>2. n \in Nat /\ n < PacketSize /\ (n = 0 \/ 1 <= n)
  BY SMT DEF PacketSize
<1>3. Len(SubSeq(sent, 1, n)) < PacketSize
  <2>1. CASE n = 0
    <3>1. SubSeq(sent, 1, n) = <<>>
      BY <2>1, SubSeqEmpty
    <3>2. QED
      BY <3>1, EmptySeq DEF PacketSize
  <2>2. CASE 1 <= n
    <3>1. 1 \in Nat /\ 1 <= 1 /\ n <= Len(sent)
      BY <1>1, <1>2, SMT DEF PacketSize
    <3>2. Len(SubSeq(sent, 1, n)) = n - 1 + 1
      BY <1>1, <1>2, <2>2, <3>1, PartOfSeq
    <3>3. QED
      BY <1>2, <3>2, SMT DEF PacketSize
  <2>3. QED
    BY <1>2, <2>1, <2>2
<1>4. QED
  BY <1>3, HeardNot, Zenon DEF sent

\* And what has one wrong byte is not, wherever it is.
LEMMA SpoiltIsNotHeard ==
  ASSUME Sums!ReckoningAssumption, NEW m \in Sums!Macs, NEW i \in PacketBytes, NEW b \in Bytes,
         b # Sums!MagicPacket(m)[i]
  PROVE  Sums!MagicTarget([Sums!MagicPacket(m) EXCEPT ![i] = b]) = <<>>
<1> DEFINE sent == Sums!MagicPacket(m)
           p == [sent EXCEPT ![i] = b]
<1> HIDE DEF sent, p
<1>1. /\ sent \in Seq(Bytes) /\ Len(sent) = PacketSize
      /\ m \in [AddressBytes -> Bytes]
      /\ \A j \in AddressBytes : sent[j] = Ones
      /\ \A j \in RepeatedBytes : sent[j] = m[ByteAt(j)]
  BY PacketIs, Zenon DEF sent
<1>2. p \in Seq(Bytes) /\ Len(p) = PacketSize /\ \A j \in PacketBytes : p[j] = IF j = i THEN b
      ELSE sent[j]
  <2>1. i \in 1..Len(sent) /\ 1..Len(sent) = PacketBytes
    BY <1>1, Zenon DEF PacketBytes
  <2>2. /\ [sent EXCEPT ![i] = b] \in Seq(Bytes) /\ Len([sent EXCEPT ![i] = b]) = Len(sent)
        /\ \A j \in 1..Len(sent) : [sent EXCEPT ![i] = b][j] = IF j = i THEN b ELSE sent[j]
    BY <1>1, <2>1, ExceptSeq
  <2>3. QED
    BY <1>1, <2>1, <2>2, Zenon DEF p
<1>3. p[i] = b /\ b # sent[i] /\ \A j \in PacketBytes : j # i => p[j] = sent[j]
  BY <1>2, Zenon DEF sent
<1>4. CASE i <= 6
  <2>1. i \in AddressBytes
    BY <1>4, SMT DEF AddressBytes, PacketBytes, PacketSize
  <2>2. p[i] # Ones
    BY <1>1, <1>3, <2>1, Zenon
  <2>3. QED
    BY <2>1, <2>2, HeardNot, Zenon DEF p, sent
<1>5. ASSUME i \in RepeatedBytes
      PROVE  \E j \in RepeatedBytes : p[j] # AddressOf(p)[ByteAt(j)]
  <2>1. \A j \in AddressBytes : /\ j + 6 \in RepeatedBytes /\ j + 12 \in RepeatedBytes
                                /\ j + 6 \in PacketBytes
                        /\ j + 12 \in PacketBytes /\ ByteAt(j + 6) = j /\ ByteAt(j + 12) = j
    BY BytesAt, Zenon
  <2>2. \A j \in AddressBytes : AddressOf(p)[j] = p[j + 6]
    <3>1. PICK f \in [AddressBytes -> Bytes] : \A j \in AddressBytes : f[j] = p[j + 6]
      <4>0. \A j \in PacketBytes : p[j] \in Bytes
        <5>1. \A j \in 1..Len(p) : p[j] \in Bytes
          BY <1>2, ElementOfSeq
        <5>2. QED
          BY <1>2, <5>1, Zenon DEF PacketBytes
      <4>1. \A j \in AddressBytes : p[j + 6] \in Bytes
        BY <4>0, <2>1, Zenon
      <4>2. [j \in AddressBytes |-> p[j + 6]] \in [AddressBytes -> Bytes]
        BY <4>1, Zenon
      <4>3. QED
        BY <4>2, Zenon
    <3>2. PacketSize <= Len(p)
      BY <1>2, SMT DEF PacketSize
    <3>3. AddressOf(p) = f
      BY <1>2, <3>1, <3>2, AddressIn, Zenon
    <3>4. QED
      BY <3>1, <3>3, Zenon
  <2>3. CASE i <= 12
    <3>1. PICK j \in AddressBytes : i = j + 6 /\ i # j + 12
      <4>1. i - 6 \in AddressBytes
        BY <1>5, <2>3, BytesAt, Zenon
      <4>2. i = (i - 6) + 6 /\ i # (i - 6) + 12
        BY SMT DEF PacketBytes, PacketSize
      <4>3. QED
        BY <4>1, <4>2, Zenon
    <3>2. p[j + 12] = m[j]
      BY <1>1, <1>3, <2>1, <3>1, ZenonT(60)
    <3>3. AddressOf(p)[j] = b /\ b # m[j]
      BY <1>1, <1>3, <2>1, <2>2, <3>1, Zenon
    <3>4. QED
      BY <2>1, <3>2, <3>3, Zenon
  <2>4. CASE ~(i <= 12)
    <3>1. \A j \in AddressBytes : j + 6 # i
      BY <2>4, SMT DEF AddressBytes, PacketBytes, PacketSize
    <3>2. ByteAt(i) \in AddressBytes
      BY <1>5, BytesAt, Zenon
    <3>3. AddressOf(p)[ByteAt(i)] = m[ByteAt(i)]
      BY <1>1, <1>3, <2>1, <2>2, <3>1, <3>2, Zenon
    <3>4. b # m[ByteAt(i)]
      BY <1>1, <1>3, <1>5, Zenon
    <3>5. QED
      BY <1>3, <1>5, <3>3, <3>4, Zenon
  <2>5. QED
    BY <2>3, <2>4
<1>6. CASE ~(i <= 6)
  <2>1. i \in RepeatedBytes
    BY <1>6, BytesAt, Zenon
  <2>2. QED
    BY <1>5, <2>1, HeardNot, Zenon DEF p, sent
<1>7. QED
  BY <1>4, <1>6

-----------------------------------------------------------------------------
WakeInv ==
  /\ packet \in {"none", "whole", "longer", "spoilt"}
  /\ packet # "none" => work = "wake"
  /\ work = "wake" => address \in Sums!Macs
  /\ Sums!WakeIsItsOwn

SumsInv ==
  /\ work \in {"date", "bitrate", "wake"}
  /\ work = "date" => DateIs(date, day)
  /\ work = "bitrate" => BitrateInv
  /\ WakeInv

LEMMA SumsStart ==
  ASSUME Sums!ReckoningAssumption, Sums!Init
  PROVE  SumsInv
<1>1. work \in {"date", "bitrate", "wake"} /\ packet = "none"
  BY DEF Sums!Init
<1>2. ASSUME work = "date"
      PROVE  DateIs(date, day)
  <2>1. PICK y \in Years : date = <<y, 1, 1>> /\ day = Sums!DaysFromCivil(y, 1, 1)
    BY <1>2 DEF Sums!Init
  <2>2. y \in Nat
    BY DEF Sums!ReckoningAssumption
  <2>3. 1 <= Sums!MonthLength(y, 1)
    BY SMT DEF Sums!MonthLength
  <2>4. QED
    BY <2>1, <2>2, <2>3, SMT DEF DateIs
<1>3. ASSUME work = "bitrate"
      PROVE  BitrateInv
  <2>1. wanted \in Nat /\ settled = FALSE /\ request = Sums!Guess(wanted)
    BY <1>3 DEF Sums!Init, Sums!ReckoningAssumption
  <2>2. \A t \in Nat : Sums!Guess(t) \in Nat /\ 1 <= Sums!Guess(t)
    BY SMT DEF Sums!Guess
  <2>3. request \in Nat /\ 1 <= request
    BY <2>1, <2>2, Zenon
  <2>4. QED
    BY <2>1, <2>3, Zenon DEF BitrateInv
<1>4. WakeInv
  <2>1. work = "wake" => address \in Sums!Macs
    BY DEF Sums!Init
  <2>2. QED
    BY <1>1, <2>1 DEF WakeInv, Sums!WakeIsItsOwn
<1>5. QED
  BY <1>1, <1>2, <1>3, <1>4 DEF SumsInv

LEMMA SumsGoOn ==
  ASSUME Sums!ReckoningAssumption, SumsInv, [Sums!Next]_Sums!vars
  PROVE  SumsInv'
<1>1. CASE Sums!NextDay
  <2>1. work' = work /\ work = "date" /\ UNCHANGED Sums!wakeVars
    BY <1>1 DEF Sums!NextDay
  <2>2. DateIs(date', day')
    BY <1>1, <2>1, DateGoesOn DEF SumsInv
  <2>3. WakeInv'
    BY <2>1 DEF SumsInv, WakeInv, Sums!WakeIsItsOwn, Sums!wakeVars
  <2>4. QED
    BY <2>1, <2>2, <2>3 DEF SumsInv
<1>2. CASE Sums!Settle
  <2>1. work' = work /\ work = "bitrate" /\ UNCHANGED Sums!wakeVars
    BY <1>2, Zenon DEF Sums!Settle
  <2>2. BitrateInv'
    BY <1>2, <2>1, BitrateGoesOn DEF SumsInv
  <2>3. WakeInv'
    BY <2>1 DEF SumsInv, WakeInv, Sums!WakeIsItsOwn, Sums!wakeVars
  <2>4. QED
    BY <2>1, <2>2, <2>3 DEF SumsInv
<1>3. CASE Sums!Arrive
  <2>1. work' = work /\ address' = address /\ work = "wake" /\ address \in Sums!Macs
    BY <1>3, Zenon DEF Sums!Arrive, SumsInv, WakeInv
  <2>2. \/ packet' = "whole" /\ heard' = address
        \/ packet' = "longer" /\ heard' = address
        \/ packet' = "spoilt" /\ heard' = <<>>
    <3>1. Sums!MagicTarget(Sums!MagicPacket(address)) = address
          /\ Sums!MagicTarget(Sums!MagicPacket(address) \o Sums!Filled(6, 0)) = address
      BY <2>1, WholeIsHeard
    <3>2. \A n \in {0, 6, 12, 101} :
          Sums!MagicTarget(SubSeq(Sums!MagicPacket(address), 1, n)) = <<>>
      BY <2>1, ShortIsNotHeard
    <3>3. \A i \in 1..102, b \in Bytes : b # Sums!MagicPacket(address)[i] =>
            Sums!MagicTarget([Sums!MagicPacket(address) EXCEPT ![i] = b]) = <<>>
      BY <2>1, SpoiltIsNotHeard, Zenon DEF PacketBytes, PacketSize
    <3>4. QED
      BY <1>3, <3>1, <3>2, <3>3, Zenon DEF Sums!Arrive
  <2>3. WakeInv'
    BY <2>1, <2>2 DEF WakeInv, Sums!WakeIsItsOwn
  <2>4. QED
    BY <2>1, <2>3 DEF SumsInv
<1>4. CASE UNCHANGED Sums!vars
  BY <1>4
     DEF Sums!vars, Sums!dateVars, Sums!bitrateVars, Sums!wakeVars, SumsInv, BitrateInv,
         WakeInv, Sums!WakeIsItsOwn
<1>5. QED
  BY <1>1, <1>2, <1>3, <1>4 DEF Sums!Next

LEMMA SumsShow ==
  ASSUME SumsInv
  PROVE  Sums!CalendarAgrees /\ Sums!SmallestThatSurvives /\ Sums!WakeIsItsOwn
<1>1. Sums!CalendarAgrees
  <2>1. SUFFICES ASSUME work = "date"
                 PROVE  Sums!DaysFromCivil(date[1], date[2], date[3]) = day
                        /\ Sums!CivilFromDays(day) = date
    BY DEF Sums!CalendarAgrees
  <2>2. PICK y, m, d \in Nat :
          /\ 1 <= m /\ m <= 12 /\ 1 <= d /\ d <= Sums!MonthLength(y, m)
          /\ date = <<y, m, d>> /\ day = Sums!DaysFromCivil(y, m, d)
    BY <2>1 DEF SumsInv, DateIs
  <2>3. Sums!CivilFromDays(Sums!DaysFromCivil(y, m, d)) = <<y, m, d>>
    BY <2>2, ThereAndBack
  <2>4. QED
    BY <2>2, <2>3
<1>2. Sums!SmallestThatSurvives
  BY DEF SumsInv, BitrateInv, Sums!SmallestThatSurvives
<1>3. QED
  BY <1>1, <1>2 DEF SumsInv, WakeInv

(* Whatever the years, targets and bytes: a date and the number of its day *)
(* turn into each other and tomorrow is one more, the encoder's bitrate    *)
(* grows with the wanted one and settles, and a wake packet is heard by    *)
(* the machine it names, and no longer once it is cut short or spoilt.     *)
THEOREM SumsAreTrue ==
  ASSUME Sums!ReckoningAssumption
  PROVE  Sums!Spec => [](Sums!CalendarAgrees /\ Sums!SmallestThatSurvives /\ Sums!WakeIsItsOwn)
<1>1. Sums!Init => SumsInv
  BY SumsStart
<1>2. SumsInv /\ [Sums!Next]_Sums!vars => SumsInv'
  BY SumsGoOn
<1>3. SumsInv => Sums!CalendarAgrees /\ Sums!SmallestThatSurvives /\ Sums!WakeIsItsOwn
  BY SumsShow
<1>4. QED
  BY <1>1, <1>2, <1>3, PTL DEF Sums!Spec

-----------------------------------------------------------------------------
(* The parts together, as MacSpec runs them.                               *)

\* A part's invariant says something only while that part is the one run.
MacInv ==
  /\ part = "window" => AppInv
  /\ part = "discovery" => DiscoInv
  /\ part = "handover" => HandoverInv
  /\ part = "update" => UpdateInv
  /\ part = "cache" => CacheInv
  /\ part = "sums" => SumsInv
  /\ part = "http" => HttpInv
  /\ part = "command" => CommandInv

LEMMA Bounds ==
  /\ Window!AppAssumption /\ Discover!DiscoveryAssumption /\ HandOver!HandoverAssumption
  /\ Updater!SelfUpdateAssumption /\ Cache!CacheAssumption /\ Sums!ReckoningAssumption
  /\ Http!HttpAssumption /\ Command!CommandAssumption
BY BoundsAssumption

\* A step of the Mac is a step of the part that is run, or nothing.
LEMMA PartMoves ==
  ASSUME [MacNext]_allVars
  PROVE  /\ part' = part
         /\ part = "window" => [Window!Next]_Window!vars
         /\ part = "discovery" => [Discover!Next]_Discover!vars
         /\ part = "handover" => [HandOver!Next]_HandOver!vars
         /\ part = "update" => [Updater!Next]_Updater!vars
         /\ part = "cache" => [Cache!Next]_Cache!vars
         /\ part = "sums" => [Sums!Next]_Sums!vars
         /\ part = "http" => [Http!Next]_Http!vars
         /\ part = "command" => [Command!Next]_Command!vars
         /\ [Next]_vars
<1>1. CASE MacNext
  <2>1. part' = part
    BY <1>1 DEF MacNext
  <2>2. part = "window" => [Window!Next]_Window!vars
    BY <1>1 DEF MacNext
  <2>3. part = "discovery" => [Discover!Next]_Discover!vars
    BY <1>1 DEF MacNext
  <2>4. part = "handover" => [HandOver!Next]_HandOver!vars
    BY <1>1 DEF MacNext
  <2>5. part = "update" => [Updater!Next]_Updater!vars
    BY <1>1 DEF MacNext
  <2>6. part = "cache" => [Cache!Next]_Cache!vars
    BY <1>1 DEF MacNext
  <2>11. part = "sums" => [Sums!Next]_Sums!vars
    BY <1>1 DEF MacNext
  <2>7. part = "http" => [Http!Next]_Http!vars
    BY <1>1 DEF MacNext
  <2>8. part = "command" => [Command!Next]_Command!vars
    BY <1>1 DEF MacNext
  <2>9. [Next]_vars
    BY <1>1 DEF MacNext
  <2>10. QED
    BY <2>1, <2>2, <2>3, <2>4, <2>5, <2>6, <2>7, <2>8, <2>9, <2>11
<1>2. CASE UNCHANGED allVars
  <2>1. UNCHANGED <<part, vars, v1, v2, v3, v4, v5, v6, v7, v8>>
    BY <1>2 DEF allVars
  <2>2. UNCHANGED <<v9, v10, v11, v12, v13, v14, v15, v16, v17>>
    BY <1>2 DEF allVars
  <2>3. UNCHANGED Window!vars
    BY <2>1 DEF Window!vars
  <2>4. UNCHANGED Discover!vars
    BY <2>1, <2>2 DEF Discover!vars, Discover!worldVars, Discover!windowVars
  <2>5. UNCHANGED HandOver!vars
    BY <2>1 DEF HandOver!vars
  <2>6. UNCHANGED Updater!vars
    BY <2>1, <2>2 DEF Updater!vars
  <2>7. UNCHANGED Cache!vars
    BY <2>1 DEF Cache!vars
  <2>11. UNCHANGED Sums!vars
    BY <2>1, <2>2 DEF Sums!vars, Sums!dateVars, Sums!bitrateVars, Sums!wakeVars
  <2>8. UNCHANGED Http!vars
    BY <2>1, <2>2 DEF Http!vars
  <2>9. UNCHANGED Command!vars
    BY <2>1 DEF Command!vars
  <2>10. QED
    BY <2>1, <2>3, <2>4, <2>5, <2>6, <2>7, <2>8, <2>9, <2>11
<1>3. QED
  BY <1>1, <1>2

LEMMA PartStarts ==
  ASSUME MacInit
  PROVE  /\ part = "window" => Window!Init
         /\ part = "discovery" => Discover!Init
         /\ part = "handover" => HandOver!Init
         /\ part = "update" => Updater!Init
         /\ part = "cache" => Cache!Init
         /\ part = "sums" => Sums!Init
         /\ part = "http" => Http!Init
         /\ part = "command" => Command!Init
         /\ Init
BY DEF MacInit

LEMMA MacInvInit == MacInit => MacInv
BY PartStarts, Bounds, AppInit, DiscoInit, HandoverInit, UpdateInit, CacheInit, SumsStart,
   HttpInit, CommandInit DEF MacInv

LEMMA MacInvNext == MacInv /\ [MacNext]_allVars => MacInv'
<1> SUFFICES ASSUME MacInv, [MacNext]_allVars PROVE MacInv'
  OBVIOUS
<1>1. part = "window" => AppInv'
  BY PartMoves, Bounds, AppNext DEF MacInv
<1>2. part = "discovery" => DiscoInv'
  BY PartMoves, Bounds, DiscoNext DEF MacInv
<1>3. part = "handover" => HandoverInv'
  BY PartMoves, Bounds, HandoverNext DEF MacInv
<1>4. part = "update" => UpdateInv'
  BY PartMoves, Bounds, UpdateNext DEF MacInv
<1>5. part = "cache" => CacheInv'
  BY PartMoves, Bounds, CacheNext DEF MacInv
<1>6. part = "http" => HttpInv'
  BY PartMoves, Bounds, HttpNext DEF MacInv
<1>7. part = "command" => CommandInv'
  BY PartMoves, Bounds, CommandNext DEF MacInv
<1>8. part = "sums" => SumsInv'
  BY PartMoves, Bounds, SumsGoOn DEF MacInv
<1>9. QED
  BY PartMoves, <1>1, <1>2, <1>3, <1>4, <1>5, <1>6, <1>7, <1>8 DEF MacInv

(* Whatever the number of attempts to connect and of jobs: the window      *)
(* never shows a failure for an end that was asked for, a fix no thread is *)
(* at, or full screen without a stream, and loses no restart.              *)
THEOREM WindowIsRightAlways == MacSpec => []WindowIsRight
<1>1. MacInv => WindowIsRight
  BY Bounds, AppMeans, DiscoMeans DEF MacInv, WindowIsRight
<1>2. QED
  BY MacInvInit, MacInvNext, <1>1, PTL DEF MacSpec

(* Whatever the sizes, limits, pipes, machines and releases, and however   *)
(* many steps fail or are cut off: what comes over the network, from a     *)
(* command or as an update is taken whole and verified or not at all.      *)
THEOREM ArrivesWholeAlways == MacSpec => []ArrivesWhole
<1>1. MacInv => ArrivesWhole
  BY Bounds, CacheMeans, UpdateMeans, HandoverMeans, HttpMeans, CommandMeans
     DEF MacInv, ArrivesWhole
<1>2. QED
  BY MacInvInit, MacInvNext, <1>1, PTL DEF MacSpec

(* Whatever the years, bitrates and bytes: dates, bitrates and wake        *)
(* packets come out as their definitions say.                              *)
THEOREM SumsAreRightAlways == MacSpec => []SumsAreRight
<1>1. MacInv => SumsAreRight
  BY SumsShow DEF MacInv, SumsAreRight
<1>2. QED
  BY MacInvInit, MacInvNext, <1>1, PTL DEF MacSpec

(* Whatever the machines, and however often they, Tailscale and the        *)
(* user's connections change: a machine's name and what wakes it stay      *)
(* saved, and its certificate changes only by a connection to it.          *)
THEOREM MachinesStayAlways == MacSpec => MachinesStay
<1>1. MacInv /\ [MacNext]_allVars =>
        [part = "discovery" => Discover!NeverForgets /\ Discover!StaysWakeable]_allVars
  BY PartMoves, Bounds, DiscoNext DEF MacInv
<1>2. QED
  BY MacInvInit, MacInvNext, <1>1, PTL DEF MacSpec, MachinesStay

(* Connecting keeps what ConnectFlow's own specification keeps.            *)
THEOREM ConnectingStaysOrdered == MacSpec => []ConnectInv
<1>1. MacInit => ConnectInv
  BY PartStarts, InitInv
<1>2. ConnectInv /\ [MacNext]_allVars => ConnectInv'
  BY PartMoves, NextInv
<1>3. QED
  BY <1>1, <1>2, PTL DEF MacSpec
=============================================================================
