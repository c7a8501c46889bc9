------------------------- MODULE StreamSessionProofs -------------------------
(***************************************************************************)
(* Proofs about StreamSession, for every set of sessions, stream threads   *)
(* and senders and for any number of connection stages.                    *)
(*                                                                         *)
(* The properties are not inductive: that input only reaches a connection  *)
(* that is up depends on who holds which lock, and that on where each      *)
(* worker is.  IInv ties locks, CURRENT, the stages and the termination    *)
(* threads to the worker steps; everything else follows from it.           *)
(***************************************************************************)
EXTENDS StreamSession, TLAPS

\* A worker holds CONNECTION from "locked" to "unlock".
LockInv ==
    \A s \in Sessions :
        connection = s <=> worker[s] \notin {"none", "lock", "gone"}

\* Callbacks find a session from just before bl_start to just after bl_stop.
CurrentInv ==
    \A s \in Sessions : current = s <=> InLibrary(s) \/ worker[s] = "clearing"

\* INPUT is held by the worker that stops the library or by one sender.
InputInv ==
    /\ \A s \in Sessions : input = s <=> worker[s] = "stopping"
    /\ \A x \in Senders : input = x <=> sending[x] # Nobody

\* A session takes input only while its worker waits, and a send that has
\* begun holds the teardown up.
SendInv ==
    /\ \A s \in Sessions : connected[s] => worker[s] \in {"notify", "waiting"}
    /\ \A x \in Senders : sending[x] # Nobody =>
            /\ stage = LastStage
            /\ worker[sending[x]] \in {"notify", "waiting", "grab"}

\* How many stages are up, by what the worker with the lock is doing.
StageInv ==
    /\ connection = Nobody => stage = 0
    /\ \A s \in Sessions :
        /\ worker[s] \in {"locked", "enter", "clearing", "finishing", "unlock"}
              => stage = 0
        /\ worker[s] \in {"notify", "waiting"} => stage = LastStage

\* A thread that is still deciding to raise a termination has not been
\* joined: its stage is up or coming up.
JoinInv ==
    \A s \in Sessions, r \in StreamThreads :
        term[s][r] = "passed" => Alive(s, r) /\ worker[s] # "enter"

FinishInv ==
    \A s \in Sessions : finished[s] => worker[s] \in {"unlock", "gone"}

\* A session without a worker has not been started.
HandleInv == \A s \in Sessions : handle[s] = "none" => worker[s] = "none"

IInv == /\ TypeOK
        /\ HandleInv
        /\ LockInv
        /\ CurrentInv
        /\ InputInv
        /\ SendInv
        /\ StageInv
        /\ JoinInv
        /\ FinishInv


-----------------------------------------------------------------------------
\* Emitting keeps the channels well-typed, also when nobody is listening.
LEMMA EmitType ==
    ASSUME events \in [Sessions -> Seq(EventKinds)],
           NEW kind \in EventKinds, NEW s, Emit(s, kind)
    PROVE  events' \in [Sessions -> Seq(EventKinds)]
<1>1. \A t \in Sessions : Append(events[t], kind) \in Seq(EventKinds)
    <2>1. \A e \in Seq(EventKinds) : Append(e, kind) \in Seq(EventKinds)
        OBVIOUS
    <2> QED BY <2>1
<1>2. events' = [t \in Sessions |-> IF t = s THEN Append(events[t], kind)
                                             ELSE events[t]]
    BY DEF Emit
<1> QED BY <1>1, <1>2

\* No step breaks a type.
THEOREM TypeStep == TypeOK /\ [Next]_vars => TypeOK'
<1> SUFFICES ASSUME TypeOK, [Next]_vars PROVE TypeOK'
    OBVIOUS
<1> USE StreamAssumption DEF TypeOK
<1>1. ASSUME NEW s \in Sessions, Start(s) PROVE TypeOK'
    BY <1>1 DEF Start, Goto, Emit, rustVars, cVars, WorkerSteps, EventKinds
<1>2. ASSUME NEW s \in Sessions, StopBegin(s) PROVE TypeOK'
    BY <1>2 DEF StopBegin, Goto, Emit, rustVars, cVars, WorkerSteps, EventKinds
<1>3. ASSUME NEW s \in Sessions, StopInterrupt(s) PROVE TypeOK'
    BY <1>3 DEF StopInterrupt, Goto, Emit, rustVars, cVars, WorkerSteps,
       EventKinds
<1>4. ASSUME NEW s \in Sessions, StopFinish(s) PROVE TypeOK'
    BY <1>4 DEF StopFinish, Goto, Emit, rustVars, cVars, WorkerSteps,
       EventKinds
<1>5. ASSUME NEW s \in Sessions, Release(s) PROVE TypeOK'
    BY <1>5 DEF Release, Goto, Emit, rustVars, cVars, WorkerSteps, EventKinds
<1>6. ASSUME NEW s \in Sessions, Acquire(s) PROVE TypeOK'
    BY <1>6 DEF Acquire, Goto, Emit, rustVars, cVars, WorkerSteps, EventKinds
<1>7. ASSUME NEW s \in Sessions, CheckDone(s) PROVE TypeOK'
    BY <1>7, ZenonT(60) DEF CheckDone, Goto, Emit, rustVars, cVars, WorkerSteps, EventKinds
<1>8. ASSUME NEW s \in Sessions, EnterInvalid(s) PROVE TypeOK'
    BY <1>8 DEF EnterInvalid, Goto, Emit, rustVars, cVars, WorkerSteps,
       EventKinds
<1>9. ASSUME NEW s \in Sessions, EnterReset(s) PROVE TypeOK'
    BY <1>9 DEF EnterReset, Goto, Emit, rustVars, cVars, WorkerSteps,
       EventKinds
<1>10. ASSUME NEW s \in Sessions, StageDone(s) PROVE TypeOK'
    BY <1>10 DEF StageDone, Goto, Emit, rustVars, cVars, WorkerSteps,
       EventKinds
<1>11. ASSUME NEW s \in Sessions, StageFail(s) PROVE TypeOK'
    <2>1. Emit(current, "Failed") BY <1>11 DEF StageFail
    <2>2. events' \in [Sessions -> Seq(EventKinds)]
        BY <2>1, EmitType DEF EventKinds
    <2>3. QED BY <1>11, <2>2 DEF StageFail, Goto, cVars, WorkerSteps, TermSteps
<1>12. ASSUME NEW s \in Sessions, StageFailFinish(s) PROVE TypeOK'
    BY <1>12 DEF StageFailFinish, Goto, Emit, rustVars, cVars,
       WorkerSteps, EventKinds
<1>13. ASSUME NEW s \in Sessions, NotifyStore(s) PROVE TypeOK'
    BY <1>13 DEF NotifyStore, Goto, Emit, rustVars, cVars, WorkerSteps,
       EventKinds
<1>14. ASSUME NEW s \in Sessions, NotifyEmit(s) PROVE TypeOK'
    <2>1. Emit(current, "Connected") BY <1>14 DEF NotifyEmit
    <2>2. events' \in [Sessions -> Seq(EventKinds)]
        BY <2>1, EmitType DEF EventKinds
    <2>3. QED BY <1>14, <2>2 DEF NotifyEmit, Goto, cVars, WorkerSteps, TermSteps
<1>15. ASSUME NEW s \in Sessions, StopStage(s) PROVE TypeOK'
    BY <1>15 DEF StopStage, Goto, Emit, rustVars, cVars, WorkerSteps,
       EventKinds
<1>16. ASSUME NEW s \in Sessions, Leave(s) PROVE TypeOK'
    BY <1>16 DEF Leave, Goto, Emit, rustVars, cVars, WorkerSteps, EventKinds
<1>17. ASSUME NEW s \in Sessions, StopLibrary(s) PROVE TypeOK'
    BY <1>17 DEF StopLibrary, Goto, Emit, rustVars, cVars, WorkerSteps,
       EventKinds
<1>18. ASSUME NEW s \in Sessions, LibraryStopped(s) PROVE TypeOK'
    BY <1>18 DEF LibraryStopped, Goto, Emit, rustVars, cVars, WorkerSteps,
       EventKinds
<1>19. ASSUME NEW s \in Sessions, ClearCurrent(s) PROVE TypeOK'
    BY <1>19 DEF ClearCurrent, Goto, Emit, rustVars, cVars, WorkerSteps,
       EventKinds
<1>20. ASSUME NEW s \in Sessions, SetFinished(s) PROVE TypeOK'
    BY <1>20 DEF SetFinished, Goto, Emit, rustVars, cVars, WorkerSteps,
       EventKinds
<1>21. ASSUME NEW s \in Sessions, Unlock(s) PROVE TypeOK'
    BY <1>21 DEF Unlock, Goto, Emit, rustVars, cVars, WorkerSteps, EventKinds
<1>22. ASSUME NEW s \in Sessions, NEW r \in StreamThreads, RaiseCheck(s, r)
       PROVE  TypeOK'
    BY <1>22 DEF RaiseCheck, Goto, Emit, rustVars, cVars, TermSteps, EventKinds
<1>23. ASSUME NEW s \in Sessions, NEW r \in StreamThreads, RaiseSpawn(s, r)
       PROVE  TypeOK'
    BY <1>23 DEF RaiseSpawn, Goto, Emit, rustVars, cVars, TermSteps, EventKinds
<1>24. ASSUME NEW s \in Sessions, NEW r \in StreamThreads, TermTake(s, r)
       PROVE  TypeOK'
    BY <1>24 DEF TermTake, Goto, Emit, rustVars, cVars, TermSteps, EventKinds
<1>25. ASSUME NEW s \in Sessions, NEW r \in StreamThreads, TermMark(s, r)
       PROVE  TypeOK'
    BY <1>25 DEF TermMark, Goto, Emit, rustVars, cVars, TermSteps, EventKinds
<1>26. ASSUME NEW s \in Sessions, NEW r \in StreamThreads, TermEmit(s, r)
       PROVE  TypeOK'
    <2>1. Emit(target[s][r], "Terminated") BY <1>26 DEF TermEmit
    <2>2. events' \in [Sessions -> Seq(EventKinds)]
        BY <2>1, EmitType DEF EventKinds
    <2>3. QED BY <1>26, <2>2 DEF TermEmit, Goto, cVars, WorkerSteps, TermSteps
<1>27. ASSUME NEW s \in Sessions, NEW r \in StreamThreads, TermFinish(s, r)
       PROVE  TypeOK'
    BY <1>27 DEF TermFinish, Goto, Emit, rustVars, cVars, TermSteps, EventKinds
<1>28. ASSUME NEW x \in Senders, NEW s \in Sessions, SendBegin(x, s)
       PROVE  TypeOK'
    BY <1>28 DEF SendBegin, cVars
<1>29. ASSUME NEW x \in Senders, SendEnd(x) PROVE TypeOK'
    BY <1>29 DEF SendEnd, cVars
<1>30. CASE UNCHANGED vars
    BY <1>30 DEF vars
<1> QED BY <1>1, <1>2, <1>3, <1>4, <1>5, <1>6, <1>7, <1>8, <1>9, <1>10, <1>11,
        <1>12, <1>13, <1>14, <1>15, <1>16, <1>17, <1>18, <1>19, <1>20, <1>21,
        <1>22, <1>23, <1>24, <1>25, <1>26, <1>27, <1>28, <1>29, <1>30 DEF
        Next, OwnerStep, WorkerStep, StartStep, Terminate
\* Only the session that has the lock is past it.
Alone(s) ==
    /\ connection = s
    /\ \A t \in Sessions : t # s => worker[t] \in {"none", "lock", "gone"}

\* The inductive step.  One session at most is past the lock (Alone,
\* where a step needs it), so what an action does to the stages, to CURRENT
\* and to the flags of the library concerns that session alone.
THEOREM InvStep == IInv /\ [Next]_vars => IInv'
<1> SUFFICES ASSUME IInv, [Next]_vars PROVE IInv'
    OBVIOUS
<1>0. TypeOK /\ TypeOK'
    BY TypeStep DEF IInv
<1> DEFINE Locks == HandleInv /\ LockInv /\ CurrentInv /\ InputInv
           Library == SendInv /\ StageInv /\ JoinInv /\ FinishInv
<1> USE StreamAssumption
    DEF TypeOK, WorkerSteps, TermSteps, IInv, HandleInv, LockInv, CurrentInv,
        InputInv, SendInv, StageInv, JoinInv, FinishInv, InLibrary, Alive,
        Joined, Alone, Goto, Emit, rustVars, cVars
<1>1. ASSUME NEW s \in Sessions, Start(s)
      PROVE  (Locks /\ Library)'
    <2>1. worker[s] = "none"
        BY <1>1 DEF Start
    <2> QED BY <1>0, <1>1, <2>1, SMTT(30), ZenonT(60) DEF Start
<1>2. ASSUME NEW s \in Sessions, StopBegin(s)
      PROVE  (Locks /\ Library)'
    BY <1>0, <1>2, SMTT(30), ZenonT(60) DEF StopBegin
<1>3. ASSUME NEW s \in Sessions, StopInterrupt(s)
      PROVE  (Locks /\ Library)'
    BY <1>0, <1>3, SMTT(30), ZenonT(60) DEF StopInterrupt
<1>4. ASSUME NEW s \in Sessions, StopFinish(s)
      PROVE  (Locks /\ Library)'
    BY <1>0, <1>4, SMTT(30), ZenonT(60) DEF StopFinish
<1>5. ASSUME NEW s \in Sessions, Release(s)
      PROVE  (Locks /\ Library)'
    BY <1>0, <1>5, SMTT(30), ZenonT(60) DEF Release
<1>6. ASSUME NEW s \in Sessions, Acquire(s)
      PROVE  (Locks /\ Library)'
    BY <1>0, <1>6, SMTT(30), ZenonT(60) DEF Acquire
<1>7. ASSUME NEW s \in Sessions, CheckDone(s)
      PROVE  (Locks /\ Library)'
    <2>0. worker[s] = "locked"
        BY <1>7, Zenon DEF CheckDone
    <2>1. Alone(s)
        <3>1. connection = s
            BY <2>0
        <3>2. ASSUME NEW t \in Sessions, t # s
              PROVE  worker[t] \in {"none", "lock", "gone"}
            BY <3>1, <3>2
        <3> QED BY <3>1, <3>2
    <2>2. CASE done[s]
        <3>1. /\ worker[s] = "locked"
              /\ worker' = [worker EXCEPT ![s] = "unlock"]
              /\ finished' = [finished EXCEPT ![s] = TRUE]
              /\ UNCHANGED <<handle, stopper, done, connected, events,
                    connection, input, sending, cVars, current>>
            BY <1>7, <2>2, Zenon DEF CheckDone
        <3> QED BY <1>0, <2>1, <3>1, SMTT(30), ZenonT(60)
    <2>3. CASE ~done[s]
        <3>1. /\ worker[s] = "locked"
              /\ worker' = [worker EXCEPT ![s] = "enter"]
              /\ current' = s
              /\ UNCHANGED <<handle, stopper, done, connected, events,
                    connection, input, sending, cVars, finished>>
            BY <1>7, <2>3, Zenon DEF CheckDone
        <3> QED BY <1>0, <2>1, <3>1, SMTT(30), ZenonT(60)
    <2> QED BY <2>2, <2>3
<1>8. ASSUME NEW s \in Sessions, EnterInvalid(s)
      PROVE  (Locks /\ Library)'
    BY <1>0, <1>8, SMTT(30), ZenonT(60) DEF EnterInvalid
<1>9. ASSUME NEW s \in Sessions, EnterReset(s)
      PROVE  (Locks /\ Library)'
    <2>1. Alone(s)
        <3>1. connection = s
            BY <1>9 DEF EnterReset
        <3> QED BY <1>0, <3>1
    <2>2. Locks'
        BY <1>0, <1>9, <2>1 DEF EnterReset
    <2>3. SendInv' /\ StageInv'
        BY <1>0, <1>9, <2>1 DEF EnterReset
    <2>4. JoinInv' /\ FinishInv'
        BY <1>0, <1>9, <2>1 DEF EnterReset
    <2> QED BY <2>2, <2>3, <2>4
<1>10. ASSUME NEW s \in Sessions, StageDone(s)
      PROVE  (Locks /\ Library)'
    <2>1. Alone(s)
        BY <1>0, <1>10 DEF StageDone
    <2>2. Locks'
        BY <1>0, <1>10, <2>1 DEF StageDone
    <2>3. SendInv' /\ StageInv'
        <3>1. stage' \in 0..LastStage /\ worker[s] = "starting" /\ UNCHANGED rustVars
            BY <1>0, <1>10 DEF StageDone
        <3>2. SendInv'
            <4>1. ASSUME NEW x \in Senders PROVE sending[x] = Nobody
                <5>1. sending[x] \in Sessions \cup {Nobody}
                    BY <1>0
                <5>2. ASSUME NEW t \in Sessions, sending[x] = t PROVE FALSE
                    <6>1. worker[t] \in {"notify", "waiting", "grab"}
                        BY <1>0, <5>2
                    <6> QED BY <2>1, <3>1, <6>1
                <5> QED BY <5>1, <5>2
            <4> QED BY <1>0, <3>1, <4>1
        <3>3. StageInv'
            <4>1. \A t \in Sessions : worker'[t] \in {"none", "lock", "gone", "starting"}
                BY <1>0, <2>1, <3>1
            <4> QED BY <1>0, <2>1, <3>1, <4>1
        <3> QED BY <3>2, <3>3
    <2>4. JoinInv' /\ FinishInv'
        BY <1>0, <1>10, <2>1 DEF StageDone
    <2> QED BY <2>2, <2>3, <2>4
<1>11. ASSUME NEW s \in Sessions, StageFail(s)
      PROVE  (Locks /\ Library)'
    <2>1. Alone(s)
        BY <1>0, <1>11 DEF StageFail
    <2>2. Locks'
        BY <1>0, <1>11, <2>1 DEF StageFail
    <2>3. SendInv' /\ StageInv'
        BY <1>0, <1>11, <2>1 DEF StageFail
    <2>4. JoinInv' /\ FinishInv'
        BY <1>0, <1>11, <2>1 DEF StageFail
    <2> QED BY <2>2, <2>3, <2>4
<1>12. ASSUME NEW s \in Sessions, StageFailFinish(s)
      PROVE  (Locks /\ Library)'
    BY <1>0, <1>12, SMTT(30), ZenonT(60) DEF StageFailFinish
<1>13. ASSUME NEW s \in Sessions, NotifyStore(s)
      PROVE  (Locks /\ Library)'
    BY <1>0, <1>13, SMTT(30), ZenonT(60) DEF NotifyStore
<1>14. ASSUME NEW s \in Sessions, NotifyEmit(s)
      PROVE  (Locks /\ Library)'
    BY <1>0, <1>14, SMTT(30), ZenonT(60) DEF NotifyEmit
<1>15. ASSUME NEW s \in Sessions, StopStage(s)
      PROVE  (Locks /\ Library)'
    BY <1>0, <1>15, SMTT(30), ZenonT(60) DEF StopStage
<1>16. ASSUME NEW s \in Sessions, Leave(s)
      PROVE  (Locks /\ Library)'
    BY <1>0, <1>16, SMTT(30), ZenonT(60) DEF Leave
<1>17. ASSUME NEW s \in Sessions, StopLibrary(s)
      PROVE  (Locks /\ Library)'
    BY <1>0, <1>17, SMTT(30), ZenonT(60) DEF StopLibrary
<1>18. ASSUME NEW s \in Sessions, LibraryStopped(s)
      PROVE  (Locks /\ Library)'
    BY <1>0, <1>18, SMTT(30), ZenonT(60) DEF LibraryStopped
<1>19. ASSUME NEW s \in Sessions, ClearCurrent(s)
      PROVE  (Locks /\ Library)'
    BY <1>0, <1>19, SMTT(30), ZenonT(60) DEF ClearCurrent
<1>20. ASSUME NEW s \in Sessions, SetFinished(s)
      PROVE  (Locks /\ Library)'
    BY <1>0, <1>20, SMTT(30), ZenonT(60) DEF SetFinished
<1>21. ASSUME NEW s \in Sessions, Unlock(s)
      PROVE  (Locks /\ Library)'
    <2>1. Alone(s)
        BY <1>0, <1>21, SMTT(40), ZenonT(60) DEF Unlock
    <2>2. Locks'
        BY <1>0, <1>21, <2>1 DEF Unlock
    <2>3. SendInv' /\ StageInv'
        BY <1>0, <1>21, <2>1 DEF Unlock
    <2>4. JoinInv' /\ FinishInv'
        BY <1>0, <1>21, <2>1 DEF Unlock
    <2> QED BY <2>2, <2>3, <2>4
<1>22. ASSUME NEW s \in Sessions, NEW r \in StreamThreads, RaiseCheck(s, r)
      PROVE  (Locks /\ Library)'
    BY <1>0, <1>22, SMTT(30), ZenonT(60) DEF RaiseCheck
<1>23. ASSUME NEW s \in Sessions, NEW r \in StreamThreads, RaiseSpawn(s, r)
      PROVE  (Locks /\ Library)'
    BY <1>0, <1>23, SMTT(30), ZenonT(60) DEF RaiseSpawn
<1>24. ASSUME NEW s \in Sessions, NEW r \in StreamThreads, TermTake(s, r)
      PROVE  (Locks /\ Library)'
    BY <1>0, <1>24, SMTT(30), ZenonT(60) DEF TermTake
<1>25. ASSUME NEW s \in Sessions, NEW r \in StreamThreads, TermMark(s, r)
      PROVE  (Locks /\ Library)'
    BY <1>0, <1>25, SMTT(30), ZenonT(60) DEF TermMark
<1>26. ASSUME NEW s \in Sessions, NEW r \in StreamThreads, TermEmit(s, r)
      PROVE  (Locks /\ Library)'
    BY <1>0, <1>26, SMTT(30), ZenonT(60) DEF TermEmit
<1>27. ASSUME NEW s \in Sessions, NEW r \in StreamThreads, TermFinish(s, r)
      PROVE  (Locks /\ Library)'
    BY <1>0, <1>27, SMTT(30), ZenonT(60) DEF TermFinish
<1>28. ASSUME NEW x \in Senders, NEW s \in Sessions, SendBegin(x, s)
      PROVE  (Locks /\ Library)'
    BY <1>0, <1>28, SMTT(30), ZenonT(60) DEF SendBegin
<1>29. ASSUME NEW x \in Senders, SendEnd(x)
      PROVE  (Locks /\ Library)'
    BY <1>0, <1>29, SMTT(30), ZenonT(60) DEF SendEnd
<1>30. ASSUME UNCHANGED vars
      PROVE  (Locks /\ Library)'
    BY <1>0, <1>30, SMTT(30), ZenonT(60) DEF vars
<1>31. (Locks /\ Library)'
    BY <1>1, <1>2, <1>3, <1>4, <1>5, <1>6, <1>7, <1>8, <1>9, <1>10, <1>11,
       <1>12, <1>13, <1>14, <1>15, <1>16, <1>17, <1>18, <1>19, <1>20,
       <1>21, <1>22, <1>23, <1>24, <1>25, <1>26, <1>27, <1>28, <1>29,
       <1>30, Zenon DEF Next, OwnerStep, WorkerStep,
       StartStep, Terminate
<1> QED BY <1>0, <1>31
-----------------------------------------------------------------------------
(* The theorems about Spec.                                                  *)

\* A process that has just started satisfies IInv.
LEMMA InvInit == Init => IInv
<1> SUFFICES ASSUME Init PROVE IInv
    OBVIOUS
<1>1. TypeOK
    <2>1. <<>> \in Seq(EventKinds)
        OBVIOUS
    <2>2. events \in [Sessions -> Seq(EventKinds)]
        BY <2>1 DEF Init
    <2>3. term \in [Sessions -> [StreamThreads -> TermSteps]]
        BY DEF Init, TermSteps
    <2>4. worker \in [Sessions -> WorkerSteps] /\ stage \in 0..LastStage
        BY StreamAssumption DEF Init, WorkerSteps
    <2> QED BY <2>2, <2>3, <2>4 DEF Init, TypeOK
<1>2. HandleInv /\ LockInv /\ CurrentInv /\ FinishInv
    BY StreamAssumption
       DEF Init, HandleInv, LockInv, CurrentInv, FinishInv, InLibrary
<1>3. InputInv /\ SendInv /\ StageInv
    BY StreamAssumption DEF Init, InputInv, SendInv, StageInv
<1>4. JoinInv
    BY DEF Init, JoinInv
<1> QED BY <1>1, <1>2, <1>3, <1>4 DEF IInv

\* IInv holds in every reachable state.
THEOREM Invariance == Spec => []IInv
<1>1. Init => IInv
    BY InvInit
<1>2. IInv /\ [Next]_vars => IInv'
    BY InvStep
<1> QED BY <1>1, <1>2, PTL DEF Spec

\* Every variable keeps its type, whatever the sessions and threads do.
THEOREM TypeCorrect == Spec => []TypeOK
<1>1. IInv => TypeOK
    BY DEF IInv
<1> QED BY <1>1, Invariance, PTL

\* Input never reaches a connection that is being built or torn down
\* (session.rs:18-20): a send in progress keeps bl_stop out, and none begins
\* once connected is cleared.
THEOREM InputSafe == Spec => []InputOnlyWhileUp
<1>1. IInv => InputOnlyWhileUp
    <2> SUFFICES ASSUME IInv, NEW x \in Senders, sending[x] # Nobody
                 PROVE  /\ stage = LastStage
                        /\ connection = sending[x]
                        /\ InLibrary(sending[x])
        BY DEF InputOnlyWhileUp
    <2>1. sending[x] \in Sessions
        BY DEF IInv, TypeOK
    <2>2. stage = LastStage /\ worker[sending[x]] \in {"notify", "waiting", "grab"}
        BY DEF IInv, SendInv
    <2>3. connection = sending[x]
        BY <2>1, <2>2 DEF IInv, LockInv
    <2> QED BY <2>2, <2>3 DEF InLibrary
<1> QED BY <1>1, Invariance, PTL

\* LiStartConnection finds nothing of the connection before it, not even a
\* thread that is about to raise a termination (session.rs:3-4).
THEOREM StartsClean == Spec => []CleanStart
<1>1. IInv => CleanStart
    <2> SUFFICES ASSUME IInv, NEW s \in Sessions, worker[s] = "enter"
                 PROVE  /\ stage = 0
                        /\ \A t \in Sessions, r \in StreamThreads : term[t][r] # "passed"
        BY DEF CleanStart
    <2>1. connection = s /\ stage = 0
        BY DEF IInv, LockInv, StageInv
    <2>2. ASSUME NEW t \in Sessions, NEW r \in StreamThreads, term[t][r] = "passed"
          PROVE  FALSE
        <3>1. InLibrary(t) /\ worker[t] # "enter"
            BY <2>2 DEF IInv, JoinInv, Alive
        <3>2. t = s
            BY <2>1, <3>1 DEF IInv, LockInv, InLibrary
        <3> QED BY <3>1, <3>2
    <2> QED BY <2>1, <2>2
<1> QED BY <1>1, Invariance, PTL

\* A finished session takes no input, is not what callbacks find and has left
\* the library (session.rs:326).
THEOREM QuietWhenFinished == Spec => []FinishedIsQuiet
<1>1. IInv => FinishedIsQuiet
    BY DEF IInv, FinishedIsQuiet, FinishInv, SendInv, CurrentInv, InLibrary
<1> QED BY <1>1, Invariance, PTL

-----------------------------------------------------------------------------
(* The owner: one session is held at a time and is stopped before it is let  *)
(* go of, so a stop interrupts no session that was not stopped.              *)

OwnerInv ==
    /\ \A s, t \in Sessions : handle[s] = "held" /\ handle[t] = "held" => s = t
    /\ \A s \in Sessions : stopper[s] # "no" => handle[s] = "held"
    /\ \A s \in Sessions : handle[s] = "dropped" => done[s]

\* No step breaks it: only the owner touches handle and stopper, and nothing
\* takes done back.
LEMMA OwnerStepInv == TypeOK /\ OwnerInv /\ [Next]_vars => OwnerInv'
<1> SUFFICES ASSUME TypeOK, OwnerInv, [Next]_vars PROVE OwnerInv'
    OBVIOUS
<1> USE DEF TypeOK, OwnerInv, rustVars, cVars, Emit, Goto
<1>1. ASSUME NEW s \in Sessions, Start(s) PROVE OwnerInv'
    BY <1>1 DEF Start
<1>2. ASSUME NEW s \in Sessions, StopBegin(s) PROVE OwnerInv'
    BY <1>2 DEF StopBegin
<1>3. ASSUME NEW s \in Sessions, StopInterrupt(s) PROVE OwnerInv'
    BY <1>3 DEF StopInterrupt
<1>4. ASSUME NEW s \in Sessions, StopFinish(s) PROVE OwnerInv'
    BY <1>4 DEF StopFinish
<1>5. ASSUME NEW s \in Sessions, Release(s) PROVE OwnerInv'
    BY <1>5 DEF Release
<1>6. ASSUME UNCHANGED <<handle, stopper>>,
             \A s \in Sessions : done[s] => done'[s]
      PROVE  OwnerInv'
    BY <1>6
<1>7. ASSUME NEW s \in Sessions, WorkerStep(s) PROVE OwnerInv'
    <2>1. UNCHANGED <<handle, stopper>> /\ \A t \in Sessions : done[t] => done'[t]
        BY <1>7 DEF WorkerStep, StartStep, Acquire, CheckDone,
           EnterInvalid, EnterReset, StageDone, StageFail,
           StageFailFinish, NotifyStore, NotifyEmit, StopStage, Leave,
           StopLibrary, LibraryStopped, ClearCurrent, SetFinished,
           Unlock
    <2> QED BY <2>1, <1>6
<1>8. ASSUME NEW s \in Sessions, NEW r \in StreamThreads,
             RaiseCheck(s, r) \/ Terminate(s, r)
      PROVE  OwnerInv'
    <2>1. UNCHANGED <<handle, stopper>> /\ \A t \in Sessions : done[t] => done'[t]
        BY <1>8 DEF Terminate, RaiseCheck, RaiseSpawn, TermTake,
           TermMark, TermEmit, TermFinish
    <2> QED BY <2>1, <1>6
<1>9. ASSUME NEW x \in Senders, SendEnd(x) \/ \E s \in Sessions : SendBegin(x, s)
      PROVE  OwnerInv'
    BY <1>9, <1>6 DEF SendBegin, SendEnd
<1>10. CASE UNCHANGED vars
    BY <1>10 DEF vars
<1> QED BY <1>1, <1>2, <1>3, <1>4, <1>5, <1>7, <1>8, <1>9, <1>10
        DEF Next, OwnerStep

\* A stop meant for one session never cuts off another that its owner has
\* not stopped (session.rs:332-338 with the single Live slot of the viewer).
THEOREM InterruptsOwn == Spec => []InterruptHitsOwn
<1>1. Init => OwnerInv
    BY DEF Init, OwnerInv
<1>2. IInv /\ OwnerInv /\ [Next]_vars => OwnerInv'
    BY OwnerStepInv DEF IInv
<1>3. IInv /\ OwnerInv => InterruptHitsOwn
    BY DEF IInv, OwnerInv, InterruptHitsOwn, HandleInv, TypeOK, InLibrary
<1> QED BY <1>1, <1>2, <1>3, Invariance, PTL DEF Spec

-----------------------------------------------------------------------------
(* Refinement: every step is a step of SessionLife or leaves it as it was.   *)

\* Before any start every session is new.
LEMMA PhaseInit == Init => Life!Init
BY DEF Init, Life!Init, Phase

\* A step of one session's worker moves that session's phase, if any.
LEMMA PhaseMove ==
    ASSUME NEW s \in Sessions, NEW from, NEW to,
           Phase(s) = from, Phase(s)' = to,
           \A t \in Sessions : t # s => Phase(t)' = Phase(t)
    PROVE  Life!Move(s, from, to)
BY DEF Life!Move

\* No phase and no sender moves: a stutter of SessionLife.
LEMMA PhaseStutter ==
    ASSUME \A t \in Sessions : Phase(t)' = Phase(t), sending' = sending
    PROVE  UNCHANGED Life!vars
BY DEF Life!vars

\* One step of StreamSession is at most one step of SessionLife.
LEMMA RefineStep == IInv /\ [Next]_vars => [Life!Next]_(Life!vars)
<1> SUFFICES ASSUME IInv, [Next]_vars PROVE [Life!Next]_(Life!vars)
    OBVIOUS
<1>0. TypeOK /\ TypeOK'
    BY TypeStep DEF IInv
<1> DEFINE Still == UNCHANGED Life!vars
<1> USE DEF TypeOK, WorkerSteps, Goto, Emit, rustVars, cVars
<1>1. ASSUME NEW s \in Sessions, StopBegin(s) PROVE Still
    BY <1>0, <1>1, PhaseStutter DEF Phase, StopBegin
<1>2. ASSUME NEW s \in Sessions, StopInterrupt(s) PROVE Still
    BY <1>0, <1>2, PhaseStutter DEF Phase, StopInterrupt
<1>3. ASSUME NEW s \in Sessions, StopFinish(s) PROVE Still
    BY <1>0, <1>3, PhaseStutter DEF Phase, StopFinish
<1>4. ASSUME NEW s \in Sessions, Release(s) PROVE Still
    BY <1>0, <1>4, PhaseStutter DEF Phase, Release
<1>5. ASSUME NEW s \in Sessions, Acquire(s) PROVE Still
    BY <1>0, <1>5, PhaseStutter DEF Phase, Acquire
<1>6. ASSUME NEW s \in Sessions, EnterInvalid(s) PROVE Still
    BY <1>0, <1>6, PhaseStutter DEF Phase, EnterInvalid
<1>7. ASSUME NEW s \in Sessions, EnterReset(s) PROVE Still
    BY <1>0, <1>7, PhaseStutter DEF Phase, EnterReset
<1>8. ASSUME NEW s \in Sessions, StageDone(s) PROVE Still
    BY <1>0, <1>8, PhaseStutter DEF Phase, StageDone
<1>9. ASSUME NEW s \in Sessions, StageFail(s) PROVE Still
    BY <1>0, <1>9, PhaseStutter DEF Phase, StageFail
<1>10. ASSUME NEW s \in Sessions, StageFailFinish(s) PROVE Still
    BY <1>0, <1>10, PhaseStutter DEF Phase, StageFailFinish
<1>11. ASSUME NEW s \in Sessions, NotifyEmit(s) PROVE Still
    BY <1>0, <1>11, PhaseStutter DEF Phase, NotifyEmit
<1>12. ASSUME NEW s \in Sessions, StopStage(s) PROVE Still
    BY <1>0, <1>12, PhaseStutter DEF Phase, StopStage
<1>13. ASSUME NEW s \in Sessions, StopLibrary(s) PROVE Still
    BY <1>0, <1>13, PhaseStutter DEF Phase, StopLibrary
<1>14. ASSUME NEW s \in Sessions, LibraryStopped(s) PROVE Still
    BY <1>0, <1>14, PhaseStutter DEF Phase, LibraryStopped
<1>15. ASSUME NEW s \in Sessions, ClearCurrent(s) PROVE Still
    BY <1>0, <1>15, PhaseStutter DEF Phase, ClearCurrent
<1>16. ASSUME NEW s \in Sessions, Unlock(s) PROVE Still
    BY <1>0, <1>16, PhaseStutter DEF Phase, Unlock
<1>17. ASSUME NEW s \in Sessions, NEW r \in StreamThreads, RaiseCheck(s, r)
       PROVE  Still
    BY <1>0, <1>17, PhaseStutter DEF Phase, RaiseCheck
<1>18. ASSUME NEW s \in Sessions, NEW r \in StreamThreads, RaiseSpawn(s, r)
       PROVE  Still
    BY <1>0, <1>18, PhaseStutter DEF Phase, RaiseSpawn
<1>19. ASSUME NEW s \in Sessions, NEW r \in StreamThreads, TermTake(s, r)
       PROVE  Still
    BY <1>0, <1>19, PhaseStutter DEF Phase, TermTake
<1>20. ASSUME NEW s \in Sessions, NEW r \in StreamThreads, TermEmit(s, r)
       PROVE  Still
    BY <1>0, <1>20, PhaseStutter DEF Phase, TermEmit
<1>21. ASSUME NEW s \in Sessions, NEW r \in StreamThreads, TermFinish(s, r)
       PROVE  Still
    BY <1>0, <1>21, PhaseStutter DEF Phase, TermFinish
<1>22. ASSUME NEW s \in Sessions, Start(s) PROVE Life!Start(s)
    <2>1. worker[s] = "none"
        BY <1>22 DEF Start, IInv, HandleInv
    <2>2. Phase(s) = "new" /\ Phase(s)' = "queued"
        BY <1>0, <1>22, <2>1 DEF Phase, Start
    <2>3. \A t \in Sessions : t # s => Phase(t)' = Phase(t)
        BY <1>0, <1>22 DEF Phase, Start
    <2> QED BY <1>22, <2>2, <2>3, PhaseMove DEF Life!Start, Start
<1>23. ASSUME NEW s \in Sessions, CheckDone(s)
       PROVE  Life!Skip(s) \/ Life!Open(s)
    <2>1. worker[s] = "locked" /\ sending' = sending /\ connected' = connected
        BY <1>23, Zenon DEF CheckDone
    <2>2. \/ worker' = [worker EXCEPT ![s] = "unlock"]
          \/ worker' = [worker EXCEPT ![s] = "enter"]
        BY <1>23, Zenon DEF CheckDone
    <2>3. Life!LibraryFree
        <3>1. connection = s
            BY <2>1 DEF IInv, LockInv
        <3>2. \A t \in Sessions : worker[t] \in {"none", "lock", "locked", "gone"}
            <4>1. ASSUME NEW t \in Sessions
                  PROVE  worker[t] \in {"none", "lock", "locked", "gone"}
                <5>1. CASE t = s BY <2>1, <5>1
                <5>2. CASE t # s BY <3>1, <5>2 DEF IInv, LockInv
                <5> QED BY <5>1, <5>2
            <4> QED BY <4>1
        <3>3. \A t \in Sessions : Phase(t) \in {"new", "queued", "over"}
            BY <3>2 DEF Phase
        <3> QED BY <3>3 DEF Life!LibraryFree, Life!Busy
    <2>4. \A t \in Sessions : t # s => Phase(t)' = Phase(t)
        BY <1>0, <2>1, <2>2, SMTT(40), ZenonT(60) DEF Phase
    <2>5. Phase(s) = "queued" /\ Phase(s)' \in {"over", "opening"}
        BY <1>0, <2>1, <2>2, SMTT(40), ZenonT(60) DEF Phase
    <2>6. Life!Move(s, "queued", "over") \/ Life!Move(s, "queued", "opening")
        BY <2>4, <2>5, PhaseMove
    <2> QED BY <2>1, <2>3, <2>6 DEF Life!Skip, Life!Open
<1>24. ASSUME NEW s \in Sessions, NotifyStore(s) PROVE Life!Opened(s)
    <2>1. current = s
        BY <1>24 DEF NotifyStore, IInv, CurrentInv, InLibrary
    <2>2. Phase(s) = "opening" /\ Phase(s)' = "up"
        BY <1>0, <1>24, <2>1 DEF Phase, NotifyStore
    <2>3. \A t \in Sessions : t # s => Phase(t)' = Phase(t)
        BY <1>0, <1>24, <2>1 DEF Phase, NotifyStore
    <2> QED BY <1>24, <2>2, <2>3, PhaseMove DEF Life!Opened, NotifyStore
<1>25. ASSUME NEW s \in Sessions, Leave(s)
       PROVE  Life!Fail(s) \/ Life!Close(s) \/ Still
    <2>1. Phase(s) \in {"opening", "up", "closing"} /\ Phase(s)' = "closing"
        BY <1>0, <1>25 DEF Phase, Leave
    <2>2. \A t \in Sessions : t # s => Phase(t)' = Phase(t)
        BY <1>0, <1>25 DEF Phase, Leave
    <2>3. sending' = sending
        BY <1>25 DEF Leave
    <2>4. CASE Phase(s) = "closing"
        BY <2>1, <2>2, <2>3, <2>4, PhaseStutter
    <2>5. CASE Phase(s) # "closing"
        BY <2>1, <2>2, <2>3, <2>5, PhaseMove DEF Life!Fail, Life!Close
    <2> QED BY <2>4, <2>5
<1>26. ASSUME NEW s \in Sessions, SetFinished(s) PROVE Life!End(s)
    <2>1. \A x \in Senders : sending[x] # s
        <3>1. worker[s] = "finishing"
            BY <1>26 DEF SetFinished
        <3>2. ASSUME NEW x \in Senders, sending[x] = s PROVE FALSE
            <4>1. s # Nobody
                BY StreamAssumption
            <4>2. worker[s] \in {"notify", "waiting", "grab"}
                BY <3>2, <4>1 DEF IInv, SendInv
            <4> QED BY <3>1, <4>2
        <3> QED BY <3>2
    <2>2. Phase(s) = "closing" /\ Phase(s)' = "over"
        BY <1>0, <1>26 DEF Phase, SetFinished
    <2>3. \A t \in Sessions : t # s => Phase(t)' = Phase(t)
        BY <1>0, <1>26 DEF Phase, SetFinished
    <2> QED BY <1>26, <2>1, <2>2, <2>3, PhaseMove DEF Life!End, SetFinished
<1>27. ASSUME NEW s \in Sessions, NEW r \in StreamThreads, TermMark(s, r)
       PROVE  Still \/ \E t \in Sessions : Life!Close(t)
    <2>0. PICK u : u = target[s][r]
        OBVIOUS
    <2>1. worker' = worker /\ sending' = sending
          /\ connected' = [connected EXCEPT ![u] = FALSE]
        BY <1>27, <2>0 DEF TermMark
    <2>2. \A t \in Sessions : t # u => Phase(t)' = Phase(t)
        BY <1>0, <2>1 DEF Phase
    <2>3. CASE u \in Sessions /\ connected[u]
        <3>1. worker[u] \in {"notify", "waiting"}
            BY <2>3 DEF IInv, SendInv
        <3>2. Phase(u) = "up" /\ Phase(u)' = "closing"
            <4>1. worker'[u] = worker[u] /\ ~connected'[u]
                BY <1>0, <2>1, <2>3
            <4>2. connected[u]
                BY <2>3
            <4> QED BY <3>1, <4>1, <4>2 DEF Phase
        <3> QED BY <2>1, <2>2, <2>3, <3>2, PhaseMove DEF Life!Close
    <2>4. CASE ~(u \in Sessions /\ connected[u])
        <3>1. \A t \in Sessions : connected'[t] = connected[t]
            <4>1. ASSUME NEW t \in Sessions, t = u
                  PROVE  connected[t] = FALSE /\ connected'[t] = FALSE
                BY <1>0, <2>1, <2>4, <4>1
            <4>2. ASSUME NEW t \in Sessions, t # u
                  PROVE  connected'[t] = connected[t]
                BY <1>0, <2>1, <4>2
            <4> QED BY <4>1, <4>2
        <3>2. \A t \in Sessions : Phase(t)' = Phase(t)
            BY <2>1, <3>1 DEF Phase
        <3> QED BY <2>1, <3>2, PhaseStutter
    <2> QED BY <2>3, <2>4
<1>28. ASSUME NEW x \in Senders, NEW s \in Sessions, SendBegin(x, s)
       PROVE  Life!Send(x, s)
    <2>1. worker[s] \in {"notify", "waiting"} /\ connected[s]
        BY <1>28 DEF SendBegin, IInv, SendInv
    <2>2. Phase(s) = "up"
        BY <2>1 DEF Phase
    <2>3. sending[x] = Nobody
        BY <1>28, StreamAssumption DEF SendBegin, IInv, InputInv
    <2>4. \A t \in Sessions : Phase(t)' = Phase(t)
        BY <1>28 DEF Phase, SendBegin
    <2> QED BY <1>28, <2>2, <2>3, <2>4 DEF Life!Send, SendBegin
<1>29. ASSUME NEW x \in Senders, SendEnd(x) PROVE Life!Sent(x)
    <2>1. \A t \in Sessions : Phase(t)' = Phase(t)
        BY <1>29 DEF Phase, SendEnd
    <2> QED BY <1>29, <2>1 DEF Life!Sent, SendEnd
<1>30. CASE UNCHANGED vars
    BY <1>30, PhaseStutter DEF vars, Phase
<1> QED
    BY <1>1, <1>2, <1>3, <1>4, <1>5, <1>6, <1>7, <1>8, <1>9, <1>10, <1>11,
       <1>12, <1>13, <1>14, <1>15, <1>16, <1>17, <1>18, <1>19, <1>20,
       <1>21, <1>22, <1>23, <1>24, <1>25, <1>26, <1>27, <1>28, <1>29,
       <1>30, Zenon
    DEF Next, OwnerStep, WorkerStep, StartStep, Terminate, Life!Next

\* Sessions as StreamSession runs them are sessions as the viewer may rely on
\* them: one at a time in the library, each phase in its order, input only
\* while up and none left on its way to a session that is over.
THEOREM Refinement == Spec => LifeSpec
<1>1. Init => Life!Init
    BY PhaseInit
<1>2. IInv /\ [Next]_vars => [Life!Next]_(Life!vars)
    BY RefineStep
<1> QED BY <1>1, <1>2, Invariance, PTL DEF Spec, LifeSpec, Life!Spec
=============================================================================
