---------------------------- MODULE HostSwapProofs ----------------------------
(***************************************************************************)
(* Proofs about HostSwap, for any releases, copies of the service,         *)
(* machines that upload and faults: whatever fails or is cut off, only one *)
(* update is at work on the files of a PC, and what it moves in is newer   *)
(* than what runs.                                                         *)
(*                                                                         *)
(* Each rests on the other actors: an update thread lives in the copy that *)
(* has the port, one copy has it, and the update_running flag of that copy *)
(* is set from the moment a request is let in to the end of the thread it  *)
(* started.  SwapInv puts that together.                                   *)
(***************************************************************************)
EXTENDS HostSwap, TLAPS

\* One copy of the service has the port.
PortInv == \A p, q \in Procs : Serving(p) /\ Serving(q) => p = q

\* What runs was started from a file.
RunsInv == \A p \in Procs : Alive(p) => proc[p].ver \in Versions

\* An update thread is one of a serving copy whose update_running is set.
ApplyInv == \A p \in Procs : apply[p].pc # "none" => Serving(p) /\ installing[p]

\* A request is answered by a serving copy.
RequestInv ==
    \A h \in Handlers : handler[h].pc # "idle" =>
        handler[h].by \in Procs /\ Serving(handler[h].by)

\* A request that was let in has update_running, and no thread has begun.
TurnInv ==
    /\ \A h \in Handlers : handler[h].pc = "checked" =>
            installing[handler[h].by] /\ apply[handler[h].by].pc = "none"
    /\ \A g, h \in Handlers :
            handler[g].pc = "checked" /\ handler[h].pc = "checked" => g = h

SwapInv == TypeOK /\ PortInv /\ RunsInv /\ ApplyInv /\ RequestInv /\ TurnInv
           /\ InstalledIsStaged

Rest == PortInv /\ RunsInv /\ ApplyInv /\ RequestInv /\ TurnInv /\ InstalledIsStaged

\* What TypeOK says of the processes and the requests they answer.
ProcessTypes ==
    /\ proc \in [Procs -> [st : {"none", "starting", "binding", "serving"},
                           ver : Files, replaces : BOOLEAN]]
    /\ installing \in [Procs -> BOOLEAN]
    /\ apply \in [Procs -> [pc : {"none", "delay", "movein", "putback",
                                  "spawn", "grace", "aside", "restore"},
                            child : Procs \cup {NoProc}]]
    /\ handler \in [Handlers -> [pc : {"idle", "arrived", "checked"},
                                 by : Procs \cup {NoProc}, ver : Files]]
    /\ reply \in [Handlers -> {"none", "ok", "refused", "dropped"}]

-----------------------------------------------------------------------------
(* The end of some processes disturbs nothing that the others rely on.       *)

LEMMA EndTypes ==
    ASSUME ProcessTypes, NEW ps \in SUBSET Procs, End(ps)
    PROVE  ProcessTypes'
<1> USE DEF ProcessTypes, End
<1>1. (proc \in [Procs -> [st : {"none", "starting", "binding", "serving"},
                          ver : Files, replaces : BOOLEAN]])'
    BY DEF NoCopy, Files, None
<1>2. (installing \in [Procs -> BOOLEAN])'
    OBVIOUS
<1>3. (apply \in [Procs -> [pc : {"none", "delay", "movein", "putback",
                                  "spawn", "grace", "aside", "restore"},
                            child : Procs \cup {NoProc}]])'
    BY DEF NoApply
<1>4. (handler \in [Handlers -> [pc : {"idle", "arrived", "checked"},
                                 by : Procs \cup {NoProc}, ver : Files]])'
    BY DEF NoRequest, Files, None
<1>5. (reply \in [Handlers -> {"none", "ok", "refused", "dropped"}])'
    OBVIOUS
<1> QED BY <1>1, <1>2, <1>3, <1>4, <1>5

LEMMA EndKeeps ==
    ASSUME ProcessTypes, Rest, NEW ps \in SUBSET Procs, End(ps), new' = new
    PROVE  Rest'
<1> USE DEF Rest, ProcessTypes, End
<1>1. \A p \in Procs : (Serving(p))' <=> p \notin ps /\ Serving(p)
    BY DEF Serving, NoCopy
<1>2. \A p \in Procs : p \notin ps => proc'[p] = proc[p] /\ installing'[p] = installing[p]
                                      /\ apply'[p] = apply[p]
    OBVIOUS
<1>3. \A p \in Procs : p \in ps => apply'[p].pc = "none" /\ proc'[p].st = "none"
    BY DEF NoApply, NoCopy
<1>4. \A h \in Handlers : handler'[h].pc # "idle" =>
            handler'[h] = handler[h] /\ handler[h].by \notin ps
    BY DEF NoRequest
<1>5. PortInv'
    BY <1>1 DEF PortInv
<1>6. RunsInv'
    BY <1>2, <1>3 DEF RunsInv, Alive
<1>7. ApplyInv'
    BY <1>1, <1>2, <1>3 DEF ApplyInv
<1>8. RequestInv'
    BY <1>1, <1>4 DEF RequestInv
<1>9. TurnInv'
    BY <1>2, <1>4 DEF TurnInv, RequestInv
<1>10. InstalledIsStaged'
    BY <1>2, <1>3 DEF InstalledIsStaged
<1> QED BY <1>5, <1>6, <1>7, <1>8, <1>9, <1>10

-----------------------------------------------------------------------------
(* Types.                                                                    *)

\* The rest of TypeOK.
OtherTypes ==
    /\ {exe, new, old} \subseteq Files
    /\ powered \in BOOLEAN
    /\ panel \in Files
    /\ restarted \in BOOLEAN
    /\ stopped \in BOOLEAN
    /\ lastServed \in Files
    /\ undone \subseteq Versions

LEMMA TypeParts == TypeOK <=> ProcessTypes /\ OtherTypes /\ RunsInv
BY DEF TypeOK, ProcessTypes, OtherTypes, RunsInv

\* A step that leaves the files and the window alone, or the processes.
LEMMA OtherSame ==
    ASSUME OtherTypes, UNCHANGED <<files, panelVars, history>>
    PROVE  OtherTypes'
BY DEF OtherTypes, files, panelVars, history

LEMMA ProcessSame ==
    ASSUME ProcessTypes, UNCHANGED <<proc, installing, apply, handler, reply>>
    PROVE  ProcessTypes'
BY DEF ProcessTypes

LEMMA StartTypes ==
    ASSUME ProcessTypes, OtherTypes, NEW p \in Procs, NEW r \in BOOLEAN, Start(p, r)
    PROVE  proc' \in [Procs -> [st : {"none", "starting", "binding", "serving"},
                                ver : Files, replaces : BOOLEAN]]
<1>1. [st |-> "starting", ver |-> exe, replaces |-> r]
        \in [st : {"none", "starting", "binding", "serving"}, ver : Files,
             replaces : BOOLEAN]
    BY DEF OtherTypes
<1> QED BY <1>1 DEF Start, ProcessTypes

LEMMA StartKeepsTypes ==
    ASSUME ProcessTypes, OtherTypes, NEW p \in Procs, NEW r \in BOOLEAN, Start(p, r),
           UNCHANGED <<installing, apply, handler, reply>>
    PROVE  ProcessTypes'
BY StartTypes DEF ProcessTypes

LEMMA GotoTypes ==
    ASSUME ProcessTypes, NEW p \in Procs, UNCHANGED <<proc, handler, reply>>,
           \/ GiveUp(p)
           \/ /\ \E pc \in {"none", "delay", "movein", "putback", "spawn", "grace",
                            "aside", "restore"} : Goto(p, pc)
              /\ installing' = installing
    PROVE  ProcessTypes'
<1>1. CASE GiveUp(p)
    <2>1. NoApply \in [pc : {"none", "delay", "movein", "putback", "spawn", "grace",
                            "aside", "restore"}, child : Procs \cup {NoProc}]
        BY DEF NoApply
    <2> QED BY <1>1, <2>1 DEF ProcessTypes, GiveUp
<1>2. CASE /\ \E pc \in {"none", "delay", "movein", "putback", "spawn", "grace",
                          "aside", "restore"} : Goto(p, pc)
           /\ installing' = installing
    BY <1>2, SMTT(40), ZenonT(60) DEF ProcessTypes, Goto
<1> QED BY <1>1, <1>2

\* The answer to a request that had been let in.
LEMMA AnswerTypes ==
    ASSUME ProcessTypes, NEW h \in Handlers, NEW what \in {"ok", "refused"},
           Answer(h, what)
    PROVE  /\ handler' \in [Handlers -> [pc : {"idle", "arrived", "checked"},
                                         by : Procs \cup {NoProc}, ver : Files]]
           /\ reply' \in [Handlers -> {"none", "ok", "refused", "dropped"}]
<1>1. NoRequest \in [pc : {"idle", "arrived", "checked"}, by : Procs \cup {NoProc},
                    ver : Files]
    BY DEF NoRequest, Files
<1> QED BY <1>1 DEF ProcessTypes, Answer

LEMMA RefuseTypes ==
    ASSUME ProcessTypes, NEW h \in Handlers, Refuse(h), UNCHANGED <<proc, apply>>
    PROVE  ProcessTypes'
<1>1. installing' \in [Procs -> BOOLEAN]
    BY DEF ProcessTypes, Refuse
<1>2. Answer(h, "refused")
    BY DEF Refuse
<1> QED BY <1>1, <1>2, AnswerTypes DEF ProcessTypes

\* Every variable keeps its type.  That what runs was started from a file is
\* of RestStep below.
LEMMA TypeStep ==
    ASSUME ProcessTypes, OtherTypes, RunsInv, [Next]_vars
    PROVE  ProcessTypes' /\ OtherTypes'
<1>1. ASSUME NEW h \in Handlers, NEW v \in Versions, Arrive(h, v)
      PROVE  ProcessTypes' /\ OtherTypes'
    <2>1. ProcessTypes'
        BY <1>1 DEF Arrive, ProcessTypes, Files
    <2> QED BY <1>1, <2>1, OtherSame DEF Arrive
<1>2. ASSUME NEW h \in Handlers, Upload(h) PROVE ProcessTypes' /\ OtherTypes'
    <2>1. CASE TakeTurn(h)
        <3>1. UNCHANGED <<files, proc, apply, panelVars, history>>
            BY <2>1 DEF TakeTurn
        <3>2. CASE Answer(h, "refused") /\ UNCHANGED installing
            BY <3>1, <3>2, AnswerTypes, OtherSame DEF ProcessTypes
        <3>3. CASE /\ installing' = [installing EXCEPT ![handler[h].by] = TRUE]
                   /\ handler' = [handler EXCEPT ![h].pc = "checked"]
                   /\ UNCHANGED reply
            <4>1. ProcessTypes'
                BY <3>1, <3>3, SMTT(40), ZenonT(60) DEF ProcessTypes
            <4> QED BY <3>1, <4>1, OtherSame
        <3> QED BY <2>1, <3>2, <3>3 DEF TakeTurn
    <2>2. CASE Defer(h) \/ NotNewer(h)
        BY <2>2, RefuseTypes, OtherSame DEF Defer, NotNewer
    <2>3. CASE Stage(h)
        <3>1. ProcessTypes'
            BY <2>3 DEF Stage, Answer, ProcessTypes, NoRequest, Files, None
        <3>2. new' \in Files /\ UNCHANGED <<exe, old, panelVars, history>>
            BY <2>3 DEF Stage, ProcessTypes
        <3> QED BY <3>1, <3>2 DEF OtherTypes, panelVars, history
    <2>4. CASE StageFails(h)
        <3>1. new' \in Files /\ UNCHANGED <<exe, old, panelVars, history>>
            BY <2>4 DEF StageFails, Files, None
        <3> QED BY <2>4, <3>1, RefuseTypes
                DEF StageFails, OtherTypes, panelVars, history
    <2> QED BY <1>2, <2>1, <2>2, <2>3, <2>4 DEF Upload
<1>3. ASSUME NEW p \in Procs, Update(p) PROVE ProcessTypes' /\ OtherTypes'
    <2>1. CASE Retire(p) \/ MoveIn(p) \/ PutBack(p) \/ Aside(p) \/ Restore(p)
        <3>1. Stays /\ ProcessTypes'
            <4>1. CASE Retire(p)
                BY <4>1, GotoTypes DEF Retire, Stays
            <4>2. CASE MoveIn(p)
                BY <4>2, GotoTypes DEF MoveIn, Stays
            <4>3. CASE PutBack(p)
                BY <4>3, GotoTypes DEF PutBack, Stays
            <4>4. CASE Aside(p)
                BY <4>4, GotoTypes DEF Aside, Stays
            <4>5. CASE Restore(p)
                BY <4>5, GotoTypes DEF Restore, Stays
            <4> QED BY <2>1, <4>1, <4>2, <4>3, <4>4, <4>5
        <3>2. {exe, new, old}' \subseteq Files /\ undone' \subseteq Versions
            BY <2>1 DEF OtherTypes, Retire, MoveIn, PutBack, Aside, Restore, Files, None
        <3> QED BY <3>1, <3>2 DEF Stays, OtherTypes, panelVars
    <2>2. CASE Spawn(p)
        <3>1. CASE \E q \in Procs :
                    /\ Start(q, TRUE)
                    /\ apply' = [apply EXCEPT ![p] = [pc |-> "grace", child |-> q]]
            <4>1. PICK q \in Procs :
                    /\ Start(q, TRUE)
                    /\ apply' = [apply EXCEPT ![p] = [pc |-> "grace", child |-> q]]
                BY <3>1
            <4>2. (apply \in [Procs -> [pc : {"none", "delay", "movein", "putback",
                                  "spawn", "grace", "aside", "restore"},
                            child : Procs \cup {NoProc}]])'
                BY <4>1 DEF ProcessTypes
            <4> QED BY <2>2, <4>1, <4>2, StartTypes, OtherSame DEF Spawn, ProcessTypes
        <3>2. CASE Goto(p, "aside") /\ UNCHANGED proc
            BY <2>2, <3>2, GotoTypes, OtherSame DEF Spawn
        <3> QED BY <2>2, <3>1, <3>2 DEF Spawn
    <2>3. CASE HandOver(p)
        BY <2>3, EndTypes, OtherSame DEF HandOver
    <2>4. CASE ChildGone(p)
        <3>1. ProcessTypes'
            BY <2>4 DEF ChildGone, Stays, ProcessTypes
        <3> QED BY <2>4, <3>1, OtherSame DEF ChildGone, Stays, history
    <2> QED BY <1>3, <2>1, <2>2, <2>3, <2>4 DEF Update
<1>4. ASSUME NEW p \in Procs, Live(p) PROVE ProcessTypes' /\ OtherTypes'
    <2>1. (proc \in [Procs -> [st : {"none", "starting", "binding", "serving"},
                               ver : Files, replaces : BOOLEAN]])'
        <3>1. NoCopy \in [st : {"none", "starting", "binding", "serving"},
                         ver : Files, replaces : BOOLEAN]
            BY DEF NoCopy, Files
        <3>2. CASE StartUp(p)
            BY <3>1, <3>2 DEF StartUp, ProcessTypes
        <3>3. CASE Bind(p)
            BY <3>3 DEF Bind, ProcessTypes
        <3>4. CASE LeavePort(p) \/ StopWaiting(p)
            BY <3>1, <3>4 DEF LeavePort, StopWaiting, ProcessTypes
        <3> QED BY <1>4, <3>2, <3>3, <3>4 DEF Live
    <2>2. UNCHANGED <<installing, apply, handler, reply>>
        BY <1>4 DEF Live, StartUp, Bind, LeavePort, StopWaiting
    <2>3. CASE Bind(p)
        <3>1. lastServed' \in Files /\ old' \in Files
            BY <2>3 DEF Bind, ServedNext, RunsInv, Alive, OtherTypes, Files, None
        <3> QED BY <2>1, <2>2, <2>3, <3>1
                DEF Bind, OtherTypes, ProcessTypes, panelVars
    <2>4. CASE ~Bind(p)
        <3>1. UNCHANGED <<files, panelVars, history>>
            BY <1>4, <2>4 DEF Live, StartUp, LeavePort, StopWaiting
        <3> QED BY <2>1, <2>2, <3>1, OtherSame DEF ProcessTypes
    <2> QED BY <2>3, <2>4
<1>5. ASSUME NEW p \in Procs, Window(p) \/ StopService(p)
      PROVE  ProcessTypes' /\ OtherTypes'
    <2>1. CASE RestartService(p) \/ StopService(p)
        <3>1. ProcessTypes'
            BY <2>1, EndTypes DEF RestartService, StopService
        <3> QED BY <2>1, <3>1
                DEF RestartService, StopService, OtherTypes, files, history
    <2>2. CASE RelaunchPanel(p)
        <3>1. UNCHANGED <<proc, installing, apply, handler, reply>>
            BY <2>2 DEF RelaunchPanel
        <3> QED BY <2>2, <3>1, ProcessSame
                DEF RelaunchPanel, OtherTypes, Files, None, files, history
    <2> QED BY <1>5, <2>1, <2>2 DEF Window
<1>6. CASE OpenPanel
    <2>1. UNCHANGED <<proc, installing, apply, handler, reply>>
        BY <1>6 DEF OpenPanel
    <2> QED BY <1>6, <2>1, ProcessSame DEF OpenPanel, OtherTypes, files, history
<1>7. CASE StartService
    <2>1. UNCHANGED <<proc, installing, apply, handler, reply>>
        BY <1>7 DEF StartService
    <2> QED BY <1>7, <2>1, ProcessSame DEF StartService, OtherTypes, files, history
<1>8. CASE EnsureService
    BY <1>8, StartKeepsTypes, OtherSame DEF EnsureService
<1>9. CASE PowerLoss
    <2>1. ProcessTypes'
        BY <1>9, EndTypes DEF PowerLoss
    <2> QED BY <1>9, <2>1 DEF PowerLoss, OtherTypes, Files, None, files, history
<1>10. CASE Boot
    <2>1. UNCHANGED <<installing, apply, handler, reply>>
        BY <1>10 DEF Boot
    <2>2. ProcessTypes'
        BY <1>10, <2>1, ProcessSame, StartKeepsTypes DEF Boot
    <2> QED BY <1>10, <2>2 DEF Boot, OtherTypes, files, history
<1>11. CASE UNCHANGED vars
    BY <1>11, ProcessSame, OtherSame DEF vars
<1> QED BY <1>1, <1>2, <1>3, <1>4, <1>5, <1>6, <1>7, <1>8, <1>9, <1>10, <1>11
        DEF Next, Pc

-----------------------------------------------------------------------------
(* What the actors rely on.                                                  *)

\* A step of which none of them is a part.
LEMMA RestSame ==
    ASSUME Rest, UNCHANGED <<proc, installing, apply, handler, new>>
    PROVE  Rest'
BY DEF Rest, PortInv, RunsInv, ApplyInv, RequestInv, TurnInv, InstalledIsStaged,
       Serving, Alive

\* A new copy is not on the port and runs what was on the disk.
LEMMA StartKeeps ==
    ASSUME ProcessTypes, OtherTypes, Rest, NEW p \in Procs, NEW r \in BOOLEAN,
           Start(p, r), UNCHANGED <<installing, apply, handler, new>>
    PROVE  Rest'
<1>1. ~Serving(p) /\ proc'[p].st = "starting" /\ proc'[p].ver \in Versions
    BY DEF Start, Spare, Alive, Serving, ProcessTypes, OtherTypes, Files
<1>2. \A q \in Procs : q # p => proc'[q] = proc[q]
    BY DEF Start, ProcessTypes
<1>3. \A q \in Procs : (Serving(q))' <=> Serving(q)
    BY <1>1, <1>2 DEF Serving
<1>4. PortInv' /\ RunsInv' /\ ApplyInv' /\ RequestInv' /\ TurnInv'
    BY <1>1, <1>2, <1>3
       DEF Rest, PortInv, RunsInv, Alive, ApplyInv, RequestInv, TurnInv
<1>5. InstalledIsStaged'
    BY <1>1, <1>2 DEF Rest, ApplyInv, InstalledIsStaged
<1> QED BY <1>4, <1>5 DEF Rest

\* The only update thread goes on, or ends and lets the next upload in.
LEMMA ApplyKeeps ==
    ASSUME ProcessTypes, Rest, NEW p \in Procs, apply[p].pc # "none",
           UNCHANGED <<proc, handler>>,
           \A q \in Procs \ {p} : apply'[q] = apply[q] /\ installing'[q] = installing[q],
           apply'[p].pc # "none" => installing'[p] = installing[p],
           apply'[p].pc \in {"delay", "movein"} => new' > proc[p].ver
    PROVE  Rest'
<1> USE DEF Rest
<1>1. Serving(p) /\ installing[p]
    BY DEF ApplyInv
<1>2. \A q \in Procs \ {p} : ~Serving(q) /\ apply[q].pc = "none"
    BY <1>1 DEF PortInv, ApplyInv
<1>3. \A h \in Handlers : handler[h].pc # "checked"
    BY <1>2 DEF TurnInv, RequestInv
<1>4. PortInv' /\ RunsInv' /\ RequestInv' /\ TurnInv'
    BY <1>3 DEF PortInv, RunsInv, RequestInv, TurnInv, Serving, Alive
<1>5. ApplyInv'
    BY <1>1, <1>2 DEF ApplyInv, Serving
<1>6. InstalledIsStaged'
    BY <1>2 DEF InstalledIsStaged
<1> QED BY <1>4, <1>5, <1>6

LEMMA GoOnKeeps ==
    ASSUME ProcessTypes, Rest, NEW p \in Procs, apply[p].pc # "none",
           UNCHANGED <<proc, handler>>,
           \/ GiveUp(p)
           \/ /\ \E pc \in {"putback", "spawn", "aside", "restore"} : Goto(p, pc)
              /\ UNCHANGED installing
    PROVE  Rest'
<1>1. \A q \in Procs \ {p} : apply'[q] = apply[q] /\ installing'[q] = installing[q]
    BY DEF GiveUp, Goto, ProcessTypes
<1>2. apply'[p].pc \notin {"delay", "movein"}
    BY DEF GiveUp, Goto, NoApply, ProcessTypes
<1>3. apply'[p].pc # "none" => installing'[p] = installing[p]
    BY DEF GiveUp, Goto, NoApply, ProcessTypes
<1> QED BY <1>1, <1>2, <1>3, ApplyKeeps

\* A request that was let in is refused.
LEMMA RefuseKeeps ==
    ASSUME ProcessTypes, Rest, NEW h \in Handlers, handler[h].pc = "checked",
           Refuse(h), UNCHANGED <<proc, apply>>
    PROVE  Rest'
<1> DEFINE p == handler[h].by
<1> USE DEF Rest
<1>1. p \in Procs /\ Serving(p) /\ apply[p].pc = "none"
    BY DEF RequestInv, TurnInv
<1>2. \A q \in Procs : apply[q].pc = "none"
    BY <1>1 DEF ApplyInv, PortInv
<1>3. \A g \in Handlers : handler'[g].pc # "idle" => handler'[g] = handler[g] /\ g # h
    BY DEF Refuse, Answer, NoRequest, ProcessTypes
<1>4. \A g \in Handlers : handler'[g].pc # "checked"
    BY <1>3 DEF TurnInv
<1>5. PortInv' /\ RunsInv' /\ ApplyInv' /\ InstalledIsStaged'
    BY <1>2 DEF PortInv, RunsInv, ApplyInv, InstalledIsStaged, Serving, Alive
<1>6. RequestInv' /\ TurnInv'
    BY <1>3, <1>4 DEF RequestInv, TurnInv, Serving
<1> QED BY <1>5, <1>6

\* A request is let in when no thread is at work in its copy, which is the
\* copy of every other request.
LEMMA TakeTurnKeeps ==
    ASSUME ProcessTypes, Rest, NEW h \in Handlers, TakeTurn(h)
    PROVE  Rest'
<1> DEFINE p == handler[h].by
<1> USE DEF Rest
<1>1. p \in Procs /\ Serving(p) /\ handler[h].pc = "arrived"
    BY DEF RequestInv, TakeTurn
<1>2. UNCHANGED <<proc, apply, new>>
    BY DEF TakeTurn, files
<1>3. CASE installing[p]
    <2>1. installing' = installing
        BY <1>3 DEF TakeTurn
    <2>2. \A g \in Handlers : handler'[g].pc # "idle" => handler'[g] = handler[g]
        BY <1>3 DEF TakeTurn, Answer, NoRequest, ProcessTypes
    <2> QED BY <1>2, <2>1, <2>2 DEF PortInv, RunsInv, ApplyInv, RequestInv, TurnInv,
                                    InstalledIsStaged, Serving, Alive
<1>4. CASE ~installing[p]
    <2>1. \A q \in Procs : apply[q].pc = "none"
        BY <1>1, <1>4 DEF ApplyInv, PortInv
    <2>2. \A g \in Handlers : handler[g].pc # "checked"
        BY <1>1, <1>4 DEF TurnInv, RequestInv, PortInv
    <2>3. \A g \in Handlers : /\ g # h => handler'[g] = handler[g]
                              /\ handler'[g].by = handler[g].by
        BY <1>4 DEF TakeTurn, ProcessTypes
    <2>4. installing'[p]
        BY <1>1, <1>4 DEF TakeTurn, ProcessTypes
    <2>5. PortInv' /\ RunsInv' /\ ApplyInv' /\ InstalledIsStaged'
        BY <1>2, <2>1 DEF PortInv, RunsInv, ApplyInv, InstalledIsStaged, Serving, Alive
    <2>6. RequestInv'
        BY <1>1, <1>2, <2>3 DEF RequestInv, Serving
    <2>7. TurnInv'
        BY <1>1, <1>2, <2>1, <2>2, <2>3, <2>4 DEF TurnInv
    <2> QED BY <2>5, <2>6, <2>7
<1> QED BY <1>3, <1>4

LEMMA StageKeeps ==
    ASSUME ProcessTypes, Rest, NEW h \in Handlers, Stage(h)
    PROVE  Rest'
<1> DEFINE p == handler[h].by
<1> USE DEF Rest
<1>1. p \in Procs /\ Serving(p) /\ installing[p]
    BY DEF Stage, RequestInv, TurnInv
<1>2. \A q \in Procs \ {p} : ~Serving(q) /\ apply[q].pc = "none"
    BY <1>1 DEF ApplyInv, PortInv
<1>3. \A q \in Procs \ {p} : apply'[q] = apply[q]
    BY DEF Stage, ProcessTypes
<1>4. \A g \in Handlers : handler'[g].pc # "idle" => handler'[g] = handler[g] /\ g # h
    BY DEF Stage, Answer, NoRequest, ProcessTypes
<1>5. \A g \in Handlers : handler'[g].pc # "checked"
    BY <1>4 DEF TurnInv, Stage
<1>6. UNCHANGED <<proc, installing>> /\ new' > proc[p].ver
    BY DEF Stage
<1>7. PortInv' /\ RunsInv' /\ RequestInv' /\ TurnInv'
    BY <1>4, <1>5, <1>6 DEF PortInv, RunsInv, RequestInv, TurnInv, Serving, Alive
<1>8. ApplyInv'
    BY <1>1, <1>2, <1>3, <1>6 DEF ApplyInv, Serving
<1>9. InstalledIsStaged'
    BY <1>2, <1>3, <1>6 DEF InstalledIsStaged
<1> QED BY <1>7, <1>8, <1>9

\* A copy comes nearer to the port, takes it when it is free, or leaves.
LEMMA LiveKeeps ==
    ASSUME ProcessTypes, Rest, NEW p \in Procs, Live(p)
    PROVE  Rest'
<1> USE DEF Rest
<1>1. UNCHANGED <<installing, apply, handler, new>>
    BY DEF Live, StartUp, Bind, LeavePort, StopWaiting, files
<1>2. ~Serving(p) /\ Alive(p)
    BY DEF Live, StartUp, Bind, LeavePort, StopWaiting, Serving, Alive
<1>3. \A q \in Procs \ {p} : proc'[q] = proc[q]
    BY DEF Live, StartUp, Bind, LeavePort, StopWaiting, ProcessTypes
<1>4. proc'[p].st = "serving" => PortFree
    <2>1. CASE StartUp(p)
        BY <2>1 DEF StartUp, NoCopy, ProcessTypes
    <2>2. CASE Bind(p)
        BY <2>2 DEF Bind
    <2>3. CASE LeavePort(p) \/ StopWaiting(p)
        BY <2>3 DEF LeavePort, StopWaiting, NoCopy, ProcessTypes
    <2> QED BY <2>1, <2>2, <2>3 DEF Live
<1>5. proc'[p].st # "none" => proc'[p].ver = proc[p].ver
    <2>1. CASE StartUp(p)
        BY <2>1 DEF StartUp, NoCopy, ProcessTypes
    <2>2. CASE Bind(p)
        BY <2>2 DEF Bind, ProcessTypes
    <2>3. CASE LeavePort(p) \/ StopWaiting(p)
        BY <2>3 DEF LeavePort, StopWaiting, NoCopy, ProcessTypes
    <2> QED BY <2>1, <2>2, <2>3 DEF Live
<1>6. PortInv'
    BY <1>3, <1>4 DEF PortInv, PortFree, Serving
<1>7. RunsInv'
    BY <1>2, <1>3, <1>5 DEF RunsInv, Alive
<1>8. ApplyInv' /\ InstalledIsStaged'
    BY <1>1, <1>2, <1>3 DEF ApplyInv, InstalledIsStaged, Serving
<1>9. RequestInv' /\ TurnInv'
    BY <1>1, <1>2, <1>3 DEF RequestInv, TurnInv, Serving
<1> QED BY <1>6, <1>7, <1>8, <1>9

LEMMA UpdateKeeps ==
    ASSUME ProcessTypes, OtherTypes, Rest, NEW p \in Procs, Update(p)
    PROVE  Rest'
<1>1. CASE Retire(p)
    <2>1. CASE GiveUp(p)
        <3>1. apply[p].pc # "none" /\ UNCHANGED <<proc, handler>>
            BY <1>1 DEF Retire, Stays
        <3> QED BY <2>1, <3>1, GoOnKeeps
    <2>2. CASE Goto(p, "movein") /\ UNCHANGED installing
        <3>1. apply[p].pc = "delay" /\ UNCHANGED <<proc, handler, new>>
            BY <1>1 DEF Retire, Stays
        <3>2. \A q \in Procs \ {p} : apply'[q] = apply[q]
            BY <2>2 DEF Goto, ProcessTypes
        <3>3. new' > proc[p].ver
            BY <3>1 DEF Rest, InstalledIsStaged
        <3> QED BY <2>2, <3>1, <3>2, <3>3, ApplyKeeps
    <2> QED BY <1>1, <2>1, <2>2 DEF Retire
<1>2. CASE MoveIn(p) \/ PutBack(p) \/ Aside(p) \/ Restore(p)
    <2>1. apply[p].pc # "none" /\ UNCHANGED <<proc, handler>>
        BY <1>2 DEF MoveIn, PutBack, Aside, Restore, Stays
    <2>2. \/ GiveUp(p)
          \/ /\ \E pc \in {"putback", "spawn", "aside", "restore"} : Goto(p, pc)
             /\ UNCHANGED installing
        BY <1>2 DEF MoveIn, PutBack, Aside, Restore
    <2> QED BY <2>1, <2>2, GoOnKeeps
<1>3. CASE Spawn(p)
    <2>1. CASE Goto(p, "aside") /\ UNCHANGED proc
        BY <1>3, <2>1, GoOnKeeps DEF Spawn
    <2>2. ASSUME NEW q \in Procs, Start(q, TRUE),
                 apply' = [apply EXCEPT ![p] = [pc |-> "grace", child |-> q]]
          PROVE  Rest'
        <3> USE DEF Rest
        <3>1. Serving(p) /\ installing[p] /\ ~Serving(q) /\ apply[q].pc = "none"
            BY <1>3, <2>2 DEF Spawn, Start, Spare, Alive, Serving, ApplyInv
        <3>2. UNCHANGED <<installing, handler, new>>
            BY <1>3 DEF Spawn, files
        <3>3. proc'[q].st = "starting" /\ proc'[q].ver \in Versions
            BY <2>2 DEF Start, ProcessTypes, OtherTypes, Files
        <3>4. \A o \in Procs \ {q} : proc'[o] = proc[o]
            BY <2>2 DEF Start, ProcessTypes
        <3>5. apply'[p].pc = "grace" /\ \A o \in Procs \ {p} : apply'[o] = apply[o]
            BY <2>2 DEF ProcessTypes
        <3>6. \A o \in Procs : (Serving(o))' <=> Serving(o)
            BY <3>1, <3>3, <3>4 DEF Serving
        <3>7. \A h \in Handlers : handler[h].pc # "checked"
            BY <1>3, <3>1 DEF Spawn, TurnInv, RequestInv, PortInv
        <3>8. PortInv' /\ RequestInv' /\ TurnInv'
            BY <3>2, <3>6, <3>7 DEF PortInv, RequestInv, TurnInv
        <3>9. RunsInv'
            BY <3>3, <3>4 DEF RunsInv, Alive
        <3>10. ApplyInv'
            BY <3>1, <3>2, <3>5, <3>6 DEF ApplyInv
        <3>11. InstalledIsStaged'
            BY <3>1, <3>2, <3>4, <3>5 DEF InstalledIsStaged
        <3> QED BY <3>8, <3>9, <3>10, <3>11
    <2> QED BY <1>3, <2>1, <2>2 DEF Spawn
<1>4. CASE HandOver(p)
    BY <1>4, EndKeeps DEF HandOver, files
<1>5. CASE ChildGone(p)
    <2>1. apply[p].pc = "grace" /\ UNCHANGED <<proc, handler, installing>>
        BY <1>5 DEF ChildGone, GraceOver, Stays
    <2>2. apply'[p].pc = "aside" /\ \A q \in Procs \ {p} : apply'[q] = apply[q]
        BY <1>5 DEF ChildGone, ProcessTypes
    <2> QED BY <2>1, <2>2, ApplyKeeps
<1> QED BY <1>1, <1>2, <1>3, <1>4, <1>5 DEF Update

LEMMA RestStep == SwapInv /\ [Next]_vars => Rest'
<1> SUFFICES ASSUME ProcessTypes, OtherTypes, Rest, [Next]_vars
             PROVE  Rest'
    BY TypeParts DEF SwapInv, Rest
<1>1. ASSUME NEW h \in Handlers, NEW v \in Versions, Arrive(h, v) PROVE Rest'
    <2>1. PICK p \in Procs :
            /\ Serving(p) /\ handler[h].pc = "idle"
            /\ handler' = [handler EXCEPT ![h] = [pc |-> "arrived", by |-> p, ver |-> v]]
        BY <1>1 DEF Arrive
    <2>2. UNCHANGED <<proc, installing, apply, new>>
        BY <1>1 DEF Arrive, files
    <2>3. /\ handler'[h].pc = "arrived" /\ handler'[h].by = p
          /\ \A g \in Handlers \ {h} : handler'[g] = handler[g]
        BY <2>1 DEF ProcessTypes
    <2>4. PortInv' /\ RunsInv' /\ ApplyInv' /\ InstalledIsStaged'
        BY <2>2 DEF Rest, PortInv, RunsInv, ApplyInv, InstalledIsStaged, Serving, Alive
    <2>5. RequestInv' /\ TurnInv'
        BY <2>1, <2>2, <2>3 DEF Rest, RequestInv, TurnInv, Serving
    <2> QED BY <2>4, <2>5 DEF Rest
<1>2. ASSUME NEW h \in Handlers, Upload(h) PROVE Rest'
    BY <1>2, TakeTurnKeeps, RefuseKeeps, StageKeeps
       DEF Upload, Defer, NotNewer, StageFails, files
<1>3. ASSUME NEW p \in Procs, Update(p) PROVE Rest'
    BY <1>3, UpdateKeeps
<1>4. ASSUME NEW p \in Procs, Live(p) PROVE Rest'
    BY <1>4, LiveKeeps
<1>5. ASSUME NEW p \in Procs, Window(p) \/ StopService(p) PROVE Rest'
    <2>1. CASE RestartService(p) \/ StopService(p)
        BY <2>1, EndKeeps DEF RestartService, StopService, files
    <2>2. CASE RelaunchPanel(p)
        BY <2>2, RestSame DEF RelaunchPanel, files
    <2> QED BY <1>5, <2>1, <2>2 DEF Window
<1>6. CASE OpenPanel \/ StartService \/ UNCHANGED vars
    BY <1>6, RestSame DEF OpenPanel, StartService, vars, files
<1>7. CASE EnsureService
    BY <1>7, StartKeeps DEF EnsureService, files
<1>8. CASE PowerLoss
    BY <1>8, EndKeeps DEF PowerLoss, files
<1>9. CASE Boot
    BY <1>9, StartKeeps, RestSame DEF Boot, files
<1> QED BY <1>1, <1>2, <1>3, <1>4, <1>5, <1>6, <1>7, <1>8, <1>9 DEF Next, Pc

LEMMA SwapInit == Init => SwapInv
<1> SUFFICES ASSUME Init PROVE SwapInv
    OBVIOUS
<1> USE SwapAssumption
<1>1. PICK p \in Procs :
        proc = [q \in Procs |-> IF q = p
                    THEN [st |-> "serving", ver |-> First, replaces |-> FALSE]
                    ELSE NoCopy]
    BY DEF Init
<1>2. ProcessTypes
    BY <1>1 DEF Init, ProcessTypes, NoCopy, NoApply, NoRequest, Files
<1>3. OtherTypes
    BY SMTT(40), ZenonT(60) DEF Init, OtherTypes, Files
<1>4. PortInv /\ RunsInv
    BY <1>1 DEF PortInv, RunsInv, Serving, Alive, NoCopy
<1>5. ApplyInv /\ RequestInv /\ TurnInv /\ InstalledIsStaged
    BY DEF Init, ApplyInv, RequestInv, TurnInv, InstalledIsStaged, NoApply, NoRequest
<1> QED BY <1>2, <1>3, <1>4, <1>5, TypeParts DEF SwapInv

LEMMA SwapNext ==
    ASSUME SwapInv, [Next]_vars
    PROVE  SwapInv'
<1>1. ProcessTypes /\ OtherTypes /\ RunsInv
    BY TypeParts DEF SwapInv
<1>2. ProcessTypes' /\ OtherTypes'
    BY <1>1, TypeStep
<1>3. Rest'
    BY RestStep DEF SwapInv
<1>4. TypeOK'
    BY <1>2, <1>3 DEF TypeOK, ProcessTypes, OtherTypes, Rest, RunsInv
<1> QED BY <1>3, <1>4 DEF SwapInv, Rest

\* The inductive invariant of the update of a PC.
THEOREM SwapInvariant == Spec => []SwapInv
<1>1. SwapInv /\ [Next]_vars => SwapInv'
    BY SwapNext
<1> QED BY SwapInit, <1>1, PTL DEF Spec

\* Every variable of HostSwap keeps its type, whatever fails.
THEOREM SwapTypeCorrect == Spec => []TypeOK
<1>1. SwapInv => TypeOK
    BY DEF SwapInv
<1> QED BY SwapInvariant, <1>1, PTL

\* Two uploads never move the files of a PC at once: update_running lets in
\* one per copy of the service, and only the copy with the port has any.
THEOREM OneUpdateAtATime == Spec => []OneUpdate
<1>1. SwapInv => OneUpdate
    BY DEF SwapInv, OneUpdate, ApplyInv, PortInv
<1> QED BY SwapInvariant, <1>1, PTL

\* What apply_within moves in is newer than the service that checked it: no
\* upload replaces the staged file between its check and the swap.
THEOREM StagedIsInstalled == Spec => []InstalledIsStaged
<1>1. SwapInv => InstalledIsStaged
    BY DEF SwapInv
<1> QED BY SwapInvariant, <1>1, PTL

-----------------------------------------------------------------------------
(* Why a PC does not go back to an older release (NeverOlder): whatever is   *)
(* put back, restored, stopped or cut off, what is on the disk is never      *)
(* older than what served last, and a copy on its way to the port runs what  *)
(* is on the disk.                                                           *)
(*                                                                           *)
(* This holds until a copy that an update started, and that waits up to a    *)
(* minute for the port, is overtaken by another: lastServed is None then.    *)

Moving == {"movein", "putback", "spawn", "grace", "aside", "restore"}

\* The copy with the port is the last one that took it.
ServedInv == \A p \in Procs : Serving(p) => proc[p].ver = lastServed

\* A copy that is to replace another, while there is one, is its child.
ChildInv ==
    \A p, q \in Procs :
        Serving(p) /\ OnItsWay(q) /\ proc[q].replaces =>
            apply[p].pc = "grace" /\ apply[p].child = q

\* A copy on its way to the port runs what is on the disk.
WayInv == \A q \in Procs : OnItsWay(q) => proc[q].ver = exe

\* What is on the disk is no older than what served last.
DiskInv == exe # None => exe >= lastServed

\* While an update moves the files, no copy but its own is on its way, and
\* what it may put back is no older than what served last.
MovingInv ==
    \A p \in Procs : apply[p].pc \in Moving =>
        /\ old # None => old >= lastServed
        /\ \A q \in Procs : OnItsWay(q) => apply[p].pc = "grace" /\ apply[p].child = q

Order == ServedInv /\ ChildInv /\ WayInv /\ DiskInv /\ MovingInv

\* Nothing runs on a PC without power.
DarkInv == ~powered => panel = None /\ \A p \in Procs : ~Alive(p)

OrderInv == DarkInv /\ (lastServed # None => Order)

LEMMA OrderInit == Init => OrderInv
<1> SUFFICES ASSUME Init PROVE OrderInv
    OBVIOUS
<1>1. PICK p \in Procs :
        proc = [q \in Procs |-> IF q = p
                    THEN [st |-> "serving", ver |-> First, replaces |-> FALSE]
                    ELSE NoCopy]
  BY DEF Init
<1>2. powered /\ exe = First /\ lastServed = First /\ \A q \in Procs : apply[q].pc = "none"
  BY DEF Init, NoApply
<1>3. First \in Nat
  BY SwapAssumption
<1>4. ServedInv /\ ChildInv /\ WayInv
  BY <1>1, <1>2 DEF ServedInv, ChildInv, WayInv, Serving, OnItsWay, NoCopy
<1>5. DiskInv /\ MovingInv
  BY <1>2, <1>3 DEF DiskInv, MovingInv, Moving
<1>6. QED
  BY <1>2, <1>4, <1>5 DEF OrderInv, Order, DarkInv

-----------------------------------------------------------------------------
(* What the steps of several actors have in common.                          *)

\* A step of which none of this is a part.
LEMMA OrderSame ==
    ASSUME OrderInv, UNCHANGED <<exe, old, proc, powered, lastServed>>,
           \A p \in Procs : apply'[p] = apply[p],
           ~powered => panel' = None
    PROVE  OrderInv'
BY DEF OrderInv, DarkInv, Order, ServedInv, ChildInv, WayInv, DiskInv, MovingInv, Serving,
       OnItsWay, Alive

\* The end of some processes.
LEMMA OrderEnd ==
    ASSUME OrderInv, ProcessTypes, NEW ps \in SUBSET Procs, End(ps),
           UNCHANGED <<exe, old, lastServed>>,
           \/ powered' = powered /\ panel' = panel
           \/ ps = Procs /\ panel' = None
    PROVE  OrderInv'
<1>1. \A p \in Procs : \/ proc'[p] = proc[p] /\ apply'[p] = apply[p]
                       \/ p \in ps /\ proc'[p].st = "none" /\ apply'[p].pc = "none"
  BY DEF End, NoCopy, NoApply
<1>2. \A p \in Procs : p \in ps => proc'[p].st = "none"
  BY DEF End, NoCopy
<1>3. DarkInv'
  BY <1>1, <1>2 DEF OrderInv, DarkInv, Alive
<1>4. lastServed # None => Order'
  BY <1>1 DEF OrderInv, Order, ServedInv, ChildInv, WayInv, DiskInv, MovingInv, Moving,
              Serving, OnItsWay
<1>5. QED
  BY <1>3, <1>4 DEF OrderInv

\* A copy started while the port is free, when no update can be at work.
LEMMA OrderStart ==
    ASSUME SwapInv, OrderInv, PortFree, NEW p \in Procs, Start(p, FALSE), powered',
           UNCHANGED <<exe, old, apply, lastServed>>
    PROVE  OrderInv'
<1>1. /\ ~Alive(p) /\ proc'[p].st = "starting" /\ proc'[p].ver = exe
      /\ \A q \in Procs \ {p} : proc'[q] = proc[q]
  BY DEF Start, Spare, SwapInv, TypeOK
<1>2. \A q \in Procs : ~Serving(q) /\ (~Serving(q))' /\ apply'[q].pc = "none"
  BY <1>1 DEF PortFree, Serving, SwapInv, ApplyInv
<1>3. lastServed # None => ServedInv' /\ ChildInv' /\ WayInv' /\ DiskInv' /\ MovingInv'
  BY <1>1, <1>2 DEF OrderInv, Order, ServedInv, ChildInv, WayInv, DiskInv, MovingInv, Moving,
                    OnItsWay
<1>4. QED
  BY <1>3 DEF OrderInv, Order, DarkInv

\* While a thread has its copy of the service, and none on its way, it moves
\* the files as it may: what is on the disk and what it may put back is no
\* older than what runs.
LEMMA OrderThread ==
    ASSUME SwapInv, OrderInv, NEW p \in Procs, apply[p].pc # "none",
           UNCHANGED <<proc, powered, panel, lastServed>>,
           \A q \in Procs \ {p} : apply'[q] = apply[q],
           lastServed # None =>
             /\ \A q \in Procs : ~OnItsWay(q)
             /\ exe' # None => exe' >= lastServed
             /\ apply'[p].pc \in Moving /\ old' # None => old' >= lastServed
    PROVE  OrderInv'
<1>1. \A q \in Procs \ {p} : apply'[q].pc = "none"
  BY DEF SwapInv, ApplyInv, PortInv
<1>2. DarkInv'
  BY DEF OrderInv, DarkInv, Alive
<1>3. lastServed # None => Order'
  BY <1>1 DEF OrderInv, Order, ServedInv, ChildInv, WayInv, DiskInv, MovingInv, Moving,
              Serving, OnItsWay
<1>4. QED
  BY <1>2, <1>3 DEF OrderInv

-----------------------------------------------------------------------------
(* The update thread.                                                        *)

LEMMA OrderUpdate ==
    ASSUME SwapInv, OrderInv, NEW p \in Procs, Update(p)
    PROVE  OrderInv'
<1> USE DEF SwapInv
<1>1. apply[p].pc # "none" /\ Serving(p) /\ proc[p].ver \in Nat /\ ProcessTypes
      /\ {exe, new, old, lastServed} \subseteq Nat
  <2>1. apply[p].pc # "none"
    BY DEF Update, Retire, MoveIn, PutBack, Spawn, HandOver, ChildGone, Aside, Restore, GraceOver
  <2>2. Files \subseteq Nat
    BY SwapAssumption DEF Files, None
  <2>3. QED
    BY <2>1, <2>2, TypeParts DEF ApplyInv, TypeOK
<1>2. lastServed # None => proc[p].ver = lastServed
  BY <1>1 DEF OrderInv, Order, ServedInv
<1>3. lastServed # None /\ apply[p].pc \in Moving \ {"grace"} =>
        \A q \in Procs : ~OnItsWay(q)
  BY DEF OrderInv, Order, MovingInv
<1>4. CASE Retire(p)
  <2>1. apply[p].pc = "delay" /\ UNCHANGED <<new, proc, powered, panel, lastServed>>
        /\ \A q \in Procs \ {p} : apply'[q] = apply[q]
    BY <1>4 DEF Retire, Stays, panelVars, Goto, GiveUp, TypeOK
  <2>2. lastServed # None => \A q \in Procs : ~OnItsWay(q)
    BY <1>1, <1>4, <2>1 DEF Retire, OrderInv, Order, ChildInv
  <2>3. \/ exe' = None /\ old' = exe
        \/ exe' = exe /\ apply'[p].pc \notin Moving
    BY <1>4 DEF Retire, GiveUp, NoApply, Moving, TypeOK
  <2>4. QED
    BY <1>1, <2>1, <2>2, <2>3, OrderThread DEF OrderInv, Order, DiskInv
<1>5. CASE MoveIn(p) \/ PutBack(p) \/ Aside(p) \/ Restore(p)
  <2>1. apply[p].pc \in Moving \ {"grace"} /\ UNCHANGED <<proc, powered, panel, lastServed>>
        /\ \A q \in Procs \ {p} : apply'[q] = apply[q]
    BY <1>5 DEF MoveIn, PutBack, Aside, Restore, Stays, panelVars, Goto, GiveUp, Moving, TypeOK
  <2>2. lastServed # None => (exe' # None => exe' >= lastServed)
    <3>1. CASE MoveIn(p)
      <4>1. exe' \in {exe, new} /\ new > proc[p].ver
        BY <3>1 DEF MoveIn, InstalledIsStaged
      <4>2. QED
        BY <1>1, <1>2, <4>1 DEF OrderInv, Order, DiskInv
    <3>2. CASE PutBack(p) \/ Restore(p) \/ Aside(p)
      <4>1. exe' \in {exe, old, None}
        BY <3>2 DEF PutBack, Restore, Aside
      <4>2. QED
        BY <1>1, <2>1, <4>1 DEF OrderInv, Order, DiskInv, MovingInv
    <3>3. QED
      BY <1>5, <3>1, <3>2
  <2>3. lastServed # None => (old' # None => old' >= lastServed)
    <3>1. old' \in {old, None}
      BY <1>5 DEF MoveIn, PutBack, Aside, Restore
    <3>2. QED
      BY <1>1, <2>1, <3>1 DEF OrderInv, Order, MovingInv
  <2>4. QED
    BY <1>1, <1>3, <2>1, <2>2, <2>3, OrderThread
<1>6. CASE Spawn(p)
  <2>1. apply[p].pc = "spawn" /\ UNCHANGED <<exe, old, powered, panel, lastServed>>
    BY <1>6 DEF Spawn, files, panelVars, history
  <2>2. CASE Goto(p, "aside") /\ UNCHANGED proc
    <3>1. \A q \in Procs \ {p} : apply'[q] = apply[q]
      BY <2>2 DEF Goto, TypeOK
    <3>2. QED
      BY <1>1, <1>3, <2>1, <2>2, <3>1, OrderThread
         DEF OrderInv, Order, DiskInv, MovingInv, Moving
  <2>3. ASSUME NEW c \in Procs, Start(c, TRUE),
               apply' = [apply EXCEPT ![p] = [pc |-> "grace", child |-> c]]
        PROVE  OrderInv'
    <3>1. /\ ~Alive(c) /\ proc'[c].st = "starting" /\ proc'[c].ver = exe
          /\ \A q \in Procs \ {c} : proc'[q] = proc[q]
      BY <2>3 DEF Start, Spare, TypeOK
    <3>2. apply'[p].pc = "grace" /\ apply'[p].child = c
          /\ \A q \in Procs \ {p} : apply'[q] = apply[q] /\ apply'[q].pc = "none"
      BY <1>1, <2>3 DEF TypeOK, ApplyInv, PortInv
    <3>3. \A q \in Procs : (Serving(q))' => q = p
      BY <1>1, <3>1 DEF Serving, PortInv
    <3>4. DarkInv'
      BY <1>1, <2>1 DEF OrderInv, DarkInv, Alive, Serving
    <3>5. lastServed # None => \A q \in Procs : (OnItsWay(q))' => q = c
      BY <1>3, <2>1, <3>1 DEF OnItsWay, Moving
    <3>6. c # p
      BY <1>1, <3>1 DEF Alive, Serving
    <3>7. lastServed # None => ServedInv' /\ ChildInv' /\ WayInv' /\ DiskInv' /\ MovingInv'
      BY <1>1, <2>1, <3>1, <3>2, <3>3, <3>5, <3>6
         DEF OrderInv, Order, ServedInv, ChildInv, WayInv, DiskInv, MovingInv, Moving, Serving
    <3>8. QED
      BY <2>1, <3>4, <3>7 DEF OrderInv, Order
  <2>4. QED
    BY <1>6, <2>2, <2>3 DEF Spawn
<1>7. CASE HandOver(p)
  BY <1>1, <1>7, OrderEnd DEF HandOver, files, panelVars, history
<1>8. CASE ChildGone(p)
  <2>1. /\ apply[p].pc = "grace" /\ ~Alive(apply[p].child)
        /\ \A q \in Procs \ {p} : apply'[q] = apply[q]
        /\ UNCHANGED <<exe, old, proc, powered, panel, lastServed>>
    BY <1>8 DEF ChildGone, GraceOver, Stays, files, panelVars, TypeOK
  <2>2. lastServed # None => \A q \in Procs : ~OnItsWay(q)
    BY <2>1 DEF OrderInv, Order, MovingInv, Moving, OnItsWay, Alive
  <2>3. QED
    BY <1>1, <2>1, <2>2, OrderThread DEF OrderInv, Order, DiskInv, MovingInv, Moving
<1>9. QED
  BY <1>4, <1>5, <1>6, <1>7, <1>8 DEF Update

-----------------------------------------------------------------------------
(* The copies of the service.                                                *)

\* What takes the port is what is on the disk.
LEMMA BindServes ==
    ASSUME SwapInv, OrderInv, NEW p \in Procs, Bind(p)
    PROVE  OrderInv' /\ (lastServed' # None => lastServed' >= lastServed)
<1> USE DEF SwapInv
<1>1. /\ proc[p].st = "binding" /\ proc' = [proc EXCEPT ![p].st = "serving"]
      /\ UNCHANGED <<exe, apply, powered, panel>>
      /\ lastServed' = ServedNext(p) /\ old' \in {old, None}
  BY DEF Bind, panelVars
<1>2. /\ (Serving(p))' /\ proc'[p].ver = proc[p].ver /\ ~(OnItsWay(p))'
      /\ \A q \in Procs \ {p} : proc'[q] = proc[q] /\ ~(Serving(q))'
  BY <1>1 DEF Bind, PortFree, Serving, OnItsWay, TypeOK
<1>3. \A q \in Procs : apply'[q].pc = "none"
  BY <1>1 DEF Bind, PortFree, ApplyInv
<1>4. DarkInv'
  BY <1>1 DEF OrderInv, DarkInv, Alive
<1>5. ASSUME lastServed' # None
      PROVE  Order' /\ lastServed' >= lastServed
  <2>1. lastServed # None /\ ~Overtakes(p) /\ lastServed' = proc[p].ver
    BY <1>1, <1>5 DEF ServedNext
  <2>2. lastServed' = exe /\ exe # None /\ exe >= lastServed /\ exe \in Nat
    <3>1. OnItsWay(p) /\ Alive(p)
      BY <1>1 DEF OnItsWay, Alive
    <3>2. proc[p].ver = exe /\ exe \in Versions
      BY <2>1, <3>1 DEF OrderInv, Order, WayInv, RunsInv
    <3>3. QED
      BY <2>1, <3>2, SwapAssumption DEF OrderInv, Order, DiskInv, None
  <2>3. ServedInv' /\ DiskInv' /\ MovingInv'
    BY <1>1, <1>2, <1>3, <2>1, <2>2 DEF ServedInv, DiskInv, MovingInv, Moving
  <2>4. ChildInv' /\ WayInv'
    BY <1>1, <1>2, <2>1 DEF OrderInv, Order, ChildInv, WayInv, Overtakes, OnItsWay
  <2>5. QED
    BY <2>2, <2>3, <2>4 DEF Order
<1>6. QED
  BY <1>4, <1>5 DEF OrderInv

\* A copy comes nearer to the port or leaves.
LEMMA OrderLive ==
    ASSUME SwapInv, OrderInv, NEW p \in Procs, StartUp(p) \/ LeavePort(p) \/ StopWaiting(p)
    PROVE  OrderInv'
<1>1. UNCHANGED <<exe, old, apply, powered, panel, lastServed>>
  BY DEF StartUp, LeavePort, StopWaiting, files, panelVars, history
<1>2. OnItsWay(p) /\ \A q \in Procs \ {p} : proc'[q] = proc[q]
  BY DEF StartUp, LeavePort, StopWaiting, OnItsWay, SwapInv, TypeOK
<1>3. \/ proc'[p].st = "none"
      \/ proc'[p].st = "binding" /\ proc'[p].ver = proc[p].ver
         /\ proc'[p].replaces = proc[p].replaces
  <2>1. CASE StartUp(p)
    BY <2>1, SMTT(40), ZenonT(60) DEF StartUp, NoCopy, SwapInv, TypeOK
  <2>2. CASE LeavePort(p) \/ StopWaiting(p)
    BY <2>2 DEF LeavePort, StopWaiting, NoCopy, SwapInv, TypeOK
  <2>3. QED
    BY <2>1, <2>2
<1>4. DarkInv'
  BY <1>1, <1>2 DEF OrderInv, DarkInv, Alive, OnItsWay
<1>5. lastServed # None => Order'
  BY <1>1, <1>2, <1>3 DEF OrderInv, Order, ServedInv, ChildInv, WayInv, DiskInv, MovingInv,
                          Serving, OnItsWay
<1>6. QED
  BY <1>1, <1>4, <1>5 DEF OrderInv

-----------------------------------------------------------------------------
(* Every step.                                                               *)

LEMMA OrderNext ==
    ASSUME SwapInv, OrderInv, [Next]_vars
    PROVE  OrderInv' /\ (lastServed' # None => lastServed' >= lastServed)
<1>1. lastServed \in Nat /\ ProcessTypes
  BY SwapAssumption, TypeParts DEF SwapInv, TypeOK, Files, None
<1>2. ASSUME NEW h \in Handlers,
             Upload(h) \/ \E v \in Versions : Arrive(h, v)
      PROVE  OrderInv' /\ lastServed' = lastServed
  <2>1. UNCHANGED <<exe, old, proc, powered, panel, lastServed>>
    BY <1>2 DEF Upload, TakeTurn, Defer, NotNewer, Stage, StageFails, Arrive, files, panelVars,
                history
  <2>2. CASE Stage(h)
    <3> DEFINE p == handler[h].by
    <3>1. p \in Procs /\ apply[p].pc = "none" /\ apply'[p].pc = "delay"
          /\ \A q \in Procs \ {p} : apply'[q] = apply[q]
      BY <2>2 DEF Stage, SwapInv, TypeOK, RequestInv, TurnInv
    <3>2. DarkInv' /\ (lastServed # None => Order')
      BY <2>1, <3>1 DEF OrderInv, DarkInv, Order, ServedInv, ChildInv, WayInv, DiskInv,
                        MovingInv, Moving, Serving, OnItsWay, Alive
    <3>3. QED
      BY <2>1, <3>2 DEF OrderInv
  <2>3. CASE ~Stage(h)
    <3>1. apply' = apply
      BY <1>2, <2>3 DEF Upload, TakeTurn, Defer, NotNewer, StageFails, Arrive
    <3>2. QED
      BY <2>1, <3>1, OrderSame DEF OrderInv, DarkInv
  <2>4. QED
    BY <2>1, <2>2, <2>3
<1>3. ASSUME NEW p \in Procs, Update(p) PROVE OrderInv' /\ lastServed' = lastServed
  <2>1. lastServed' = lastServed
    BY <1>3 DEF Update, Retire, MoveIn, PutBack, Spawn, HandOver, ChildGone, Aside, Restore,
                Stays, history
  <2>2. QED
    BY <1>3, <2>1, OrderUpdate
<1>4. ASSUME NEW p \in Procs, StartUp(p) \/ LeavePort(p) \/ StopWaiting(p)
      PROVE  OrderInv' /\ lastServed' = lastServed
  BY <1>4, OrderLive DEF StartUp, LeavePort, StopWaiting, history
<1>5. ASSUME NEW p \in Procs, RestartService(p) \/ StopService(p)
      PROVE  OrderInv' /\ lastServed' = lastServed
  BY <1>1, <1>5, OrderEnd DEF RestartService, StopService, files, history
<1>6. CASE PowerLoss
  <2>1. End(Procs) /\ Procs \in SUBSET Procs /\ panel' = None
        /\ UNCHANGED <<exe, old, lastServed>>
    BY <1>6 DEF PowerLoss, files, history
  <2>2. OrderInv'
    BY <1>1, <2>1, OrderEnd
  <2>3. QED
    BY <1>1, <2>1, <2>2
<1>7. CASE OpenPanel \/ StartService \/ UNCHANGED vars \/ \E p \in Procs : RelaunchPanel(p)
  <2>1. UNCHANGED <<exe, old, proc, powered, apply, lastServed>>
    BY <1>7 DEF OpenPanel, StartService, RelaunchPanel, vars, files, panelVars, history
  <2>2. ~powered => panel' = None
    BY <1>7 DEF OpenPanel, StartService, RelaunchPanel, vars, panelVars, OrderInv, DarkInv
  <2>3. QED
    BY <2>1, <2>2, <1>1, OrderSame
<1>8. CASE EnsureService
  <2>1. powered'
    BY <1>8 DEF EnsureService, panelVars, OrderInv, DarkInv, SwapInv, TypeOK
  <2>2. PICK p \in Procs : Start(p, FALSE)
    BY <1>8 DEF EnsureService
  <2>3. PortFree /\ UNCHANGED <<exe, old, apply, lastServed>>
    BY <1>8 DEF EnsureService, files, history
  <2>4. OrderInv'
    BY <2>1, <2>2, <2>3, OrderStart
  <2>5. QED
    BY <1>1, <2>3, <2>4
<1>9. CASE Boot
  <2>1. PortFree /\ powered' /\ \A p \in Procs : ~Alive(p)
    BY <1>9 DEF Boot, OrderInv, DarkInv, PortFree, Alive, Serving
  <2>2. UNCHANGED <<exe, old, apply, lastServed>>
    BY <1>9 DEF Boot, files, history
  <2>3. CASE exe = None
    <3>1. proc' = proc
      BY <1>9, <2>3 DEF Boot
    <3>2. DarkInv' /\ (lastServed # None => Order')
      BY <2>1, <2>2, <3>1 DEF OrderInv, DarkInv, Order, ServedInv, ChildInv, WayInv, DiskInv,
                              MovingInv, Serving, OnItsWay
    <3>3. QED
      BY <1>1, <2>2, <3>2 DEF OrderInv
  <2>4. CASE exe # None
    <3>1. PICK p \in Procs : Start(p, FALSE)
      BY <1>9, <2>4 DEF Boot
    <3>2. OrderInv'
      BY <2>1, <2>2, <3>1, OrderStart
    <3>3. QED
      BY <1>1, <2>2, <3>2
  <2>5. QED
    BY <2>3, <2>4
<1>10. QED
  BY <1>1, <1>2, <1>3, <1>4, <1>5, <1>6, <1>7, <1>8, <1>9, BindServes DEF Next, Pc, Live, Window

\* What is on the disk, and what is on its way to the port, is no older than
\* what served last.
THEOREM DiskIsNewest == Spec => []OrderInv
<1>1. SwapInv /\ OrderInv /\ [Next]_vars => OrderInv'
  BY OrderNext
<1>2. QED
  BY OrderInit, SwapInvariant, <1>1, PTL DEF Spec

\* A PC that served a release never serves an older one, whatever update is
\* undone, stopped or cut off, unless a copy that an update started has been
\* overtaken (host/src/update.rs, service.rs run).
THEOREM PcNeverGoesBack == Spec => NeverOlder
<1>1. SwapInv /\ OrderInv /\ [Next]_vars =>
        [lastServed' # None => lastServed' >= lastServed]_vars
  BY OrderNext
<1>2. QED
  BY DiskIsNewest, SwapInvariant, <1>1, PTL DEF Spec, NeverOlder

-----------------------------------------------------------------------------
(* While nothing cuts the service off (Faults = {}), an update leaves the PC *)
(* with a service, or one on its way, and with an executable that runs.      *)

\* Before the files move, the service is what is on the disk.
ExeInv ==
    \A p \in Procs : Serving(p) /\ apply[p].pc \in {"none", "delay"} => exe = proc[p].ver

\* While they move, its executable is the one to restore.
OldInv ==
    \A p \in Procs : apply[p].pc \in {"movein", "spawn", "grace", "aside", "restore"} =>
        old = proc[p].ver

\* Nothing has to be put back, and a place that was emptied is filled again.
PlaceInv ==
    \A p \in Procs :
        /\ apply[p].pc \in {"spawn", "grace", "aside"} => exe # None
        /\ apply[p].pc \in {"movein", "restore"} => exe = None
        /\ apply[p].pc # "putback"

\* A new copy waits for the port until its predecessor lets go of it, and is
\* gone only if its release is broken.
TrialInv ==
    \A p \in Procs :
        /\ apply[p].pc = "aside" => exe \in Broken
        /\ apply[p].pc = "grace" =>
            LET c == apply[p].child IN
            /\ c \in Procs
            /\ Alive(c) => OnItsWay(c) /\ proc[c].replaces
            /\ ~Alive(c) => exe \in Broken

\* A copy that got as far as the port runs.
WorksInv == \A p \in Procs : proc[p].st \in {"serving", "binding"} => proc[p].ver \notin Broken

\* A window newer than the service was started from what is on the disk.
PanelInv == panel \notin Broken /\ (panel # None /\ panel > lastServed => exe = panel)

\* A free port is about to be taken.
FreeInv ==
    PortFree => /\ exe \notin Broken \cup {None}
                /\ panel # None \/ \E p \in Procs : OnItsWay(p)

Serve == ExeInv /\ OldInv /\ PlaceInv /\ TrialInv /\ WorksInv /\ PanelInv /\ FreeInv

ServeInv == powered /\ ~stopped /\ (InOrder => Serve)

LEMMA ServeInit == Init => ServeInv
<1> SUFFICES ASSUME Init PROVE ServeInv
    OBVIOUS
<1>1. PICK p \in Procs :
        proc = [q \in Procs |-> IF q = p
                    THEN [st |-> "serving", ver |-> First, replaces |-> FALSE]
                    ELSE NoCopy]
  BY DEF Init
<1>2. /\ powered /\ ~stopped /\ exe = First /\ lastServed = First /\ panel = None
      /\ \A q \in Procs : apply[q].pc = "none"
  BY DEF Init, NoApply
<1>3. First \in Nat \ {0} /\ First \notin Broken /\ None \notin Broken
  BY SwapAssumption DEF None
<1>4. ExeInv /\ WorksInv /\ FreeInv
  BY <1>1, <1>2, <1>3 DEF ExeInv, WorksInv, FreeInv, PortFree, Serving, NoCopy
<1>5. OldInv /\ PlaceInv /\ TrialInv /\ PanelInv
  BY <1>2, <1>3 DEF OldInv, PlaceInv, TrialInv, PanelInv
<1>6. QED
  BY <1>2, <1>4, <1>5 DEF ServeInv, Serve

-----------------------------------------------------------------------------

\* What the steps below may assume.
Calm == Faults = {} /\ SwapInv /\ InOrder /\ Order /\ powered /\ ~stopped /\ Serve

LEMMA CalmFacts ==
    ASSUME Calm
    PROVE  /\ {exe, new, old, lastServed, panel} \subseteq Nat /\ None \notin Broken
           /\ \A p \in Procs : Alive(p) => proc[p].ver \in Nat \ {None}
           /\ \A p \in Procs : apply[p].pc # "none" => Serving(p)
           /\ \A p, q \in Procs : Serving(p) /\ Serving(q) => p = q
           /\ \A p \in Procs : Serving(p) => proc[p].ver = lastServed
           /\ \A p \in Procs : OnItsWay(p) => proc[p].ver = exe
<1>1. Files \subseteq Nat /\ None \notin Broken /\ Versions \subseteq Nat \ {None}
  BY SwapAssumption DEF Files, None
<1>2. {exe, new, old, lastServed, panel} \subseteq Nat
  BY <1>1 DEF Calm, SwapInv, TypeOK
<1>3. /\ \A p \in Procs : Alive(p) => proc[p].ver \in Nat \ {None}
      /\ \A p \in Procs : apply[p].pc # "none" => Serving(p)
  BY <1>1 DEF Calm, SwapInv, RunsInv, ApplyInv
<1>4. \A p, q \in Procs : Serving(p) /\ Serving(q) => p = q
  BY DEF Calm, SwapInv, PortInv
<1>5. /\ \A p \in Procs : Serving(p) => proc[p].ver = lastServed
      /\ \A p \in Procs : OnItsWay(p) => proc[p].ver = exe
  BY DEF Calm, Order, ServedInv, WayInv
<1>6. QED
  BY <1>1, <1>2, <1>3, <1>4, <1>5

\* The thread of the copy that has the port moves the files.
LEMMA ServeThread ==
    ASSUME Calm, NEW p \in Procs, apply[p].pc # "none",
           UNCHANGED <<proc, panel, lastServed>>,
           \A q \in Procs \ {p} : apply'[q] = apply[q],
           panel # None /\ panel > lastServed => exe' = exe,
           apply'[p].pc \in {"none", "delay"} => exe' = proc[p].ver,
           apply'[p].pc \in {"movein", "spawn", "aside", "restore"} => old' = proc[p].ver,
           apply'[p].pc \in {"spawn", "aside"} => exe' # None,
           apply'[p].pc \in {"movein", "restore"} => exe' = None,
           apply'[p].pc = "aside" => exe' \in Broken,
           apply'[p].pc \notin {"grace", "putback"}
    PROVE  Serve'
<1>1. Serving(p) /\ \A q \in Procs \ {p} : apply'[q].pc = "none" /\ ~Serving(q)
  BY CalmFacts
<1>2. ExeInv' /\ OldInv' /\ PlaceInv' /\ TrialInv'
  BY <1>1 DEF ExeInv, OldInv, PlaceInv, TrialInv, Serving
<1>3. WorksInv' /\ PanelInv'
  BY DEF Calm, Serve, WorksInv, PanelInv
<1>4. FreeInv'
  BY <1>1 DEF FreeInv, PortFree, Serving
<1>5. QED
  BY <1>2, <1>3, <1>4 DEF Serve

LEMMA ServeUpdate ==
    ASSUME Calm, NEW p \in Procs, Update(p)
    PROVE  Serve'
<1>1. apply[p].pc # "none" /\ Serving(p) /\ proc[p].ver = lastServed
      /\ proc[p].ver \in Nat \ {None} /\ proc[p].ver \notin Broken
  <2>1. apply[p].pc # "none"
    BY DEF Update, Retire, MoveIn, PutBack, Spawn, HandOver, ChildGone, Aside, Restore, GraceOver
  <2>2. Serving(p)
    BY <2>1, CalmFacts
  <2>3. proc[p].ver \notin Broken
    BY <2>2 DEF Calm, Serve, WorksInv, Serving
  <2>4. QED
    BY <2>1, <2>2, <2>3, CalmFacts DEF Alive, Serving
<1>2. apply[p].pc \in {"movein", "spawn", "grace", "aside", "restore"} => old = proc[p].ver
  BY DEF Calm, Serve, OldInv
<1>3. /\ apply[p].pc \in {"spawn", "grace", "aside"} => exe # None
      /\ apply[p].pc \in {"movein", "restore"} => exe = None
      /\ apply[p].pc = "aside" => exe \in Broken
  BY DEF Calm, Serve, PlaceInv, TrialInv
<1>4. panel \notin Broken /\ (panel # None /\ panel > lastServed => exe = panel)
  BY DEF Calm, Serve, PanelInv
<1>5. "sharing" \notin Faults /\ "stuck" \notin Faults
  BY DEF Calm
<1>6. CASE Retire(p)
  <2>1. /\ apply[p].pc = "delay" /\ UNCHANGED <<proc, panel, lastServed>>
        /\ \A q \in Procs \ {p} : apply'[q] = apply[q]
    BY <1>6 DEF Retire, Stays, panelVars, Goto, GiveUp, Calm, SwapInv, TypeOK
  <2>2. exe = proc[p].ver
    BY <1>1, <2>1 DEF Calm, Serve, ExeInv
  <2>3. \/ exe' = None /\ old' = exe /\ apply'[p].pc = "movein"
        \/ exe' = exe /\ apply'[p].pc = "none"
    BY <1>6 DEF Retire, GiveUp, NoApply, Goto, Calm, SwapInv, TypeOK
  <2>4. panel # None => ~(panel > lastServed)
    BY <1>1, <1>4, <2>2, CalmFacts
  <2>5. QED
    BY <1>1, <2>1, <2>2, <2>3, <2>4, ServeThread
<1>7. CASE MoveIn(p)
  <2>1. /\ apply[p].pc = "movein" /\ UNCHANGED <<proc, panel, lastServed, old>>
        /\ \A q \in Procs \ {p} : apply'[q] = apply[q]
        /\ exe' = new /\ apply'[p].pc = "spawn"
    BY <1>5, <1>7 DEF MoveIn, Stays, panelVars, Goto, Calm, SwapInv, TypeOK
  <2>2. new # None
    BY <1>1, <2>1, CalmFacts DEF Calm, SwapInv, InstalledIsStaged, None
  <2>3. panel # None => ~(panel > lastServed)
    BY <1>3, <1>4, <2>1
  <2>4. QED
    BY <1>1, <1>2, <2>1, <2>2, <2>3, ServeThread
<1>8. CASE PutBack(p)
  BY <1>8 DEF PutBack, Calm, Serve, PlaceInv
<1>9. CASE Spawn(p)
  <2>1. /\ apply[p].pc = "spawn" /\ UNCHANGED <<exe, old, panel, lastServed>>
    BY <1>9 DEF Spawn, files, panelVars, history
  <2>2. PICK c \in Procs :
          /\ Start(c, TRUE)
          /\ apply' = [apply EXCEPT ![p] = [pc |-> "grace", child |-> c]]
    BY <1>5, <1>9 DEF Spawn
  <2>3. /\ ~Alive(c) /\ proc'[c].st = "starting" /\ proc'[c].replaces
        /\ \A q \in Procs \ {c} : proc'[q] = proc[q]
    BY <2>2 DEF Start, Spare, Calm, SwapInv, TypeOK
  <2>4. apply'[p].pc = "grace" /\ apply'[p].child = c
        /\ \A q \in Procs \ {p} : apply'[q].pc = "none"
    BY <1>1, <2>2, CalmFacts DEF Calm, SwapInv, TypeOK
  <2>5. c # p /\ \A q \in Procs : (Serving(q))' => q = p
    BY <1>1, <2>3, CalmFacts DEF Serving, Alive
  <2>6. (Serving(p))' /\ proc'[p] = proc[p]
    BY <1>1, <2>3, <2>5 DEF Serving
  <2>7. ExeInv' /\ OldInv' /\ PlaceInv'
    BY <1>2, <1>3, <2>1, <2>4, <2>5, <2>6 DEF ExeInv, OldInv, PlaceInv
  <2>8. TrialInv'
    BY <2>3, <2>4 DEF TrialInv, OnItsWay, Alive
  <2>9. WorksInv'
    BY <2>3 DEF Calm, Serve, WorksInv
  <2>10. PanelInv' /\ FreeInv'
    BY <1>4, <2>1, <2>6 DEF PanelInv, FreeInv, PortFree
  <2>11. QED
    BY <2>7, <2>8, <2>9, <2>10 DEF Serve
<1>10. CASE HandOver(p)
  <2> DEFINE c == apply[p].child
  <2>1. /\ apply[p].pc = "grace" /\ proc[c].st # "starting" /\ Alive(c)
        /\ End({p}) /\ UNCHANGED <<exe, old, panel, lastServed>>
    BY <1>10 DEF HandOver, GraceOver, files, panelVars, history
  <2>2. c \in Procs /\ proc[c].st = "binding" /\ OnItsWay(c)
    BY <2>1 DEF Calm, Serve, TrialInv, OnItsWay, Alive
  <2>3. /\ proc'[p].st = "none" /\ \A q \in Procs \ {p} : proc'[q] = proc[q]
        /\ \A q \in Procs : apply'[q].pc = "none"
    BY <1>1, <2>1, CalmFacts DEF End, NoCopy, NoApply, Calm, SwapInv, TypeOK
  <2>4. c # p /\ \A q \in Procs : ~(Serving(q))'
    BY <1>1, <2>2, <2>3, CalmFacts DEF Serving
  <2>5. exe \notin Broken \cup {None}
    <3>1. proc[c].ver = exe /\ proc[c].ver \notin Broken
      BY <2>2, CalmFacts DEF Calm, Serve, WorksInv
    <3>2. QED
      BY <1>3, <2>1, <3>1
  <2>6. FreeInv'
    BY <2>1, <2>2, <2>3, <2>4, <2>5 DEF FreeInv, OnItsWay
  <2>7. ExeInv' /\ OldInv' /\ PlaceInv' /\ TrialInv'
    BY <2>3, <2>4 DEF ExeInv, OldInv, PlaceInv, TrialInv
  <2>8. WorksInv' /\ PanelInv'
    BY <1>4, <2>1, <2>3 DEF Calm, Serve, WorksInv, PanelInv
  <2>9. QED
    BY <2>6, <2>7, <2>8 DEF Serve
<1>11. CASE ChildGone(p)
  <2>1. /\ apply[p].pc = "grace" /\ ~Alive(apply[p].child)
        /\ apply'[p].pc = "aside" /\ \A q \in Procs \ {p} : apply'[q] = apply[q]
        /\ UNCHANGED <<exe, old, proc, panel, lastServed>>
    BY <1>11 DEF ChildGone, GraceOver, Stays, files, panelVars, Calm, SwapInv, TypeOK
  <2>2. exe \in Broken
    BY <2>1 DEF Calm, Serve, TrialInv
  <2>3. QED
    BY <1>1, <1>2, <1>3, <2>1, <2>2, ServeThread
<1>12. CASE Aside(p)
  <2>1. /\ apply[p].pc = "aside" /\ exe' = None /\ apply'[p].pc = "restore"
        /\ \A q \in Procs \ {p} : apply'[q] = apply[q]
        /\ UNCHANGED <<old, proc, panel, lastServed>>
    BY <1>5, <1>12 DEF Aside, Goto, Stays, panelVars, Calm, SwapInv, TypeOK
  <2>2. panel # None => ~(panel > lastServed)
    BY <1>3, <1>4, <2>1
  <2>3. QED
    BY <1>1, <1>2, <2>1, <2>2, ServeThread
<1>13. CASE Restore(p)
  <2>1. /\ apply[p].pc = "restore" /\ exe' = old /\ apply'[p].pc = "none"
        /\ \A q \in Procs \ {p} : apply'[q] = apply[q]
        /\ UNCHANGED <<proc, panel, lastServed>>
    BY <1>5, <1>13 DEF Restore, GiveUp, NoApply, Stays, panelVars, Calm, SwapInv, TypeOK
  <2>2. panel # None => ~(panel > lastServed)
    BY <1>3, <1>4, <2>1
  <2>3. QED
    BY <1>1, <1>2, <2>1, <2>2, ServeThread
<1>14. QED
  BY <1>6, <1>7, <1>8, <1>9, <1>10, <1>11, <1>12, <1>13 DEF Update

-----------------------------------------------------------------------------

\* A copy on its way comes nearer to the port or leaves.
LEMMA ServeLive ==
    ASSUME Calm, NEW p \in Procs, StartUp(p) \/ LeavePort(p) \/ StopWaiting(p)
    PROVE  Serve'
<1>1. UNCHANGED <<exe, old, apply, panel, lastServed>>
  BY DEF StartUp, LeavePort, StopWaiting, files, panelVars, history
<1>2. OnItsWay(p) /\ ~Serving(p) /\ proc[p].ver = exe
      /\ \A q \in Procs \ {p} : proc'[q] = proc[q]
  <2>1. OnItsWay(p) /\ ~Serving(p) /\ \A q \in Procs \ {p} : proc'[q] = proc[q]
    BY DEF StartUp, LeavePort, StopWaiting, OnItsWay, Serving, Calm, SwapInv, TypeOK
  <2>2. QED
    BY <2>1, CalmFacts
<1>3. \/ proc'[p].st = "none" /\ exe \in Broken
      \/ proc'[p].st = "binding" /\ proc'[p].replaces = proc[p].replaces
         /\ proc'[p].ver = exe /\ exe \notin Broken
      \/ proc'[p].st = "none" /\ ~PortFree /\ (LeavePort(p) \/ StopWaiting(p))
  <2>1. CASE StartUp(p)
    <3>1. proc'[p] = IF exe \in Broken THEN NoCopy ELSE [proc[p] EXCEPT !.st = "binding"]
      BY <1>2, <2>1 DEF StartUp, Calm, SwapInv, TypeOK
    <3>2. proc[p] \in [st : {"none", "starting", "binding", "serving"}, ver : Files,
                       replaces : BOOLEAN]
      BY DEF Calm, SwapInv, TypeOK
    <3>3. exe \notin Broken =>
            proc'[p].st = "binding" /\ proc'[p].ver = proc[p].ver
            /\ proc'[p].replaces = proc[p].replaces
      BY <3>1, <3>2
    <3>4. exe \in Broken => proc'[p].st = "none"
      BY <3>1 DEF NoCopy
    <3>5. QED
      BY <1>2, <3>3, <3>4
  <2>2. CASE LeavePort(p) \/ StopWaiting(p)
    BY <2>2 DEF LeavePort, StopWaiting, NoCopy, Calm, SwapInv, TypeOK
  <2>3. QED
    BY <2>1, <2>2
<1>4. LeavePort(p) \/ StopWaiting(p) => \A q \in Procs : apply[q].pc = "grace" => apply[q].child # p
  BY <1>2 DEF LeavePort, StopWaiting, Calm, Serve, TrialInv, OnItsWay, Alive
<1>5. \A q \in Procs : (Serving(q))' = Serving(q) /\ (Serving(q) => proc'[q] = proc[q])
  BY <1>2, <1>3 DEF Serving
<1>6. ExeInv' /\ OldInv' /\ PlaceInv'
  <2>1. \A q \in Procs : apply[q].pc # "none" => Serving(q)
    BY CalmFacts
  <2>2. QED
    BY <1>1, <1>5, <2>1 DEF Calm, Serve, ExeInv, OldInv, PlaceInv
<1>7. TrialInv'
  <2> SUFFICES ASSUME NEW q \in Procs, apply[q].pc = "grace"
               PROVE  /\ (Alive(apply[q].child))' =>
                           (OnItsWay(apply[q].child))' /\ proc'[apply[q].child].replaces
                      /\ ~(Alive(apply[q].child))' => exe \in Broken
    BY <1>1 DEF Calm, Serve, TrialInv, Alive, OnItsWay
  <2>1. /\ apply[q].child \in Procs
        /\ Alive(apply[q].child) => OnItsWay(apply[q].child) /\ proc[apply[q].child].replaces
        /\ ~Alive(apply[q].child) => exe \in Broken
    BY DEF Calm, Serve, TrialInv
  <2>2. QED
    BY <1>1, <1>2, <1>3, <1>4, <2>1 DEF Alive, OnItsWay
<1>8. WorksInv' /\ PanelInv'
  BY <1>1, <1>2, <1>3 DEF Calm, Serve, WorksInv, PanelInv
<1>9. FreeInv'
  <2>1. PortFree' = PortFree
    BY <1>5 DEF PortFree
  <2>2. PortFree => proc'[p].st = "binding"
    BY <1>3 DEF Calm, Serve, FreeInv
  <2>3. QED
    BY <1>1, <2>1, <2>2 DEF Calm, Serve, FreeInv, OnItsWay
<1>10. QED
  BY <1>6, <1>7, <1>8, <1>9 DEF Serve

LEMMA ServeBind ==
    ASSUME Calm, NEW p \in Procs, Bind(p), lastServed' # None, lastServed' >= lastServed
    PROVE  Serve'
<1>1. /\ proc[p].st = "binding" /\ proc' = [proc EXCEPT ![p].st = "serving"]
      /\ PortFree /\ UNCHANGED <<exe, apply, panel>> /\ lastServed' = proc[p].ver
  BY DEF Bind, panelVars, ServedNext
<1>2. /\ (Serving(p))' /\ proc'[p].ver = proc[p].ver
      /\ \A q \in Procs \ {p} : proc'[q] = proc[q] /\ ~(Serving(q))'
  BY <1>1 DEF PortFree, Serving, Calm, SwapInv, TypeOK
<1>3. \A q \in Procs : apply'[q].pc = "none"
  BY <1>1, CalmFacts DEF PortFree
<1>4. proc[p].ver = exe
  BY <1>1, CalmFacts DEF OnItsWay
<1>5. ExeInv' /\ OldInv' /\ PlaceInv' /\ TrialInv'
  BY <1>1, <1>2, <1>3, <1>4 DEF ExeInv, OldInv, PlaceInv, TrialInv
<1>6. WorksInv' /\ FreeInv'
  BY <1>1, <1>2 DEF Calm, Serve, WorksInv, FreeInv, PortFree
<1>7. PanelInv'
  <2>1. panel # None /\ panel > lastServed' => panel > lastServed
    <3>1. {panel, lastServed} \subseteq Nat /\ lastServed' \in Nat
      BY <1>1, CalmFacts DEF Alive
    <3>2. QED
      BY <3>1
  <2>2. QED
    BY <1>1, <2>1 DEF Calm, Serve, PanelInv
<1>8. QED
  BY <1>5, <1>6, <1>7 DEF Serve

\* The window ends a service only for what is on the disk.
LEMMA ServeRestart ==
    ASSUME Calm, NEW p \in Procs, RestartService(p)
    PROVE  Serve'
<1>1. /\ Serving(p) /\ panel > proc[p].ver /\ End({p})
      /\ UNCHANGED <<exe, old, panel, lastServed>>
  BY DEF RestartService, files, history
<1>2. panel # None /\ panel > lastServed
  <2>1. proc[p].ver = lastServed /\ {panel, lastServed} \subseteq Nat
    BY <1>1, CalmFacts
  <2>2. QED
    BY <1>1, <2>1 DEF None
<1>3. exe = panel /\ panel \notin Broken
  BY <1>2 DEF Calm, Serve, PanelInv
<1>4. /\ proc'[p].st = "none" /\ \A q \in Procs \ {p} : proc'[q] = proc[q]
      /\ \A q \in Procs : apply'[q].pc = "none" /\ ~(Serving(q))'
  <2>1. /\ proc'[p].st = "none" /\ \A q \in Procs \ {p} : proc'[q] = proc[q]
        /\ \A q \in Procs : apply'[q].pc = "none"
    BY <1>1, CalmFacts DEF End, NoCopy, NoApply, Calm, SwapInv, TypeOK
  <2>2. QED
    BY <1>1, <2>1, CalmFacts DEF Serving
<1>5. ExeInv' /\ OldInv' /\ PlaceInv' /\ TrialInv'
  BY <1>4 DEF ExeInv, OldInv, PlaceInv, TrialInv
<1>6. WorksInv' /\ PanelInv' /\ FreeInv'
  BY <1>1, <1>2, <1>3, <1>4 DEF Calm, Serve, WorksInv, PanelInv, FreeInv
<1>7. QED
  BY <1>5, <1>6 DEF Serve

LEMMA ServeEnsure ==
    ASSUME Calm, EnsureService
    PROVE  Serve'
<1>1. PICK p \in Procs : Start(p, FALSE)
  BY DEF EnsureService
<1>2. PortFree /\ UNCHANGED <<exe, apply, panel, lastServed>>
  BY DEF EnsureService, files, history, panelVars
<1>3. /\ proc'[p].st = "starting" /\ \A q \in Procs \ {p} : proc'[q] = proc[q]
      /\ \A q \in Procs : apply'[q].pc = "none" /\ ~(Serving(q))'
  BY <1>1, <1>2, CalmFacts DEF Start, PortFree, Serving, Calm, SwapInv, TypeOK
<1>4. ExeInv' /\ OldInv' /\ PlaceInv' /\ TrialInv'
  BY <1>3 DEF ExeInv, OldInv, PlaceInv, TrialInv
<1>5. WorksInv' /\ PanelInv'
  BY <1>2, <1>3 DEF Calm, Serve, WorksInv, PanelInv
<1>6. FreeInv'
  BY <1>2, <1>3 DEF Calm, Serve, FreeInv, OnItsWay
<1>7. QED
  BY <1>4, <1>5, <1>6 DEF Serve

-----------------------------------------------------------------------------

LEMMA ServeNext ==
    ASSUME Faults = {}, SwapInv, OrderInv, ServeInv, [Next]_vars
    PROVE  ServeInv'
<1>1. powered' /\ ~stopped'
  <2>1. \/ UNCHANGED <<powered, stopped>>
        \/ \E p \in Procs : RestartService(p) \/ RelaunchPanel(p) \/ StopService(p)
        \/ OpenPanel \/ StartService \/ PowerLoss \/ Boot
    BY SMTT(40), ZenonT(60)
       DEF Next, Pc, Upload, TakeTurn, Defer, NotNewer, Stage, StageFails, Arrive, Update,
           Retire, MoveIn, PutBack, Spawn, HandOver, ChildGone, Aside, Restore, Stays, Live,
           StartUp, Bind, LeavePort, StopWaiting, Window, EnsureService, vars, panelVars
  <2>2. ~PowerLoss /\ ~StartService /\ ~Boot /\ \A p \in Procs : ~StopService(p)
    BY DEF ServeInv, PowerLoss, StartService, Boot, StopService
  <2>3. QED
    <3>1. OpenPanel \/ (\E p \in Procs : RestartService(p) \/ RelaunchPanel(p)) =>
            powered' = powered /\ (stopped' = stopped \/ stopped' = FALSE)
      BY DEF RestartService, RelaunchPanel, OpenPanel
    <3>2. powered' = powered /\ (stopped' = stopped \/ stopped' = FALSE)
      BY <2>1, <2>2, <3>1
    <3>3. powered = TRUE /\ stopped = FALSE
      BY DEF ServeInv, SwapInv, TypeOK
    <3>4. powered' = TRUE /\ stopped' = FALSE
      BY <3>2, <3>3
    <3>5. QED
      BY <3>4
<1>2. SUFFICES ASSUME lastServed' # None
               PROVE  Serve'
  BY <1>1, <1>2 DEF ServeInv, InOrder
<1>3. lastServed # None /\ lastServed' >= lastServed
  <2>1. lastServed' \in {lastServed} \cup {ServedNext(p) : p \in Procs}
    BY DEF Next, Pc, Upload, TakeTurn, Defer, NotNewer, Stage, StageFails, Arrive, Update,
           Retire, MoveIn, PutBack, Spawn, HandOver, ChildGone, Aside, Restore, Stays, Live,
           StartUp, Bind, LeavePort, StopWaiting, Window, RestartService, RelaunchPanel,
           StopService, OpenPanel, EnsureService, StartService, PowerLoss, Boot, vars, history
  <2>2. QED
    BY <1>2, <2>1, OrderNext DEF ServedNext
<1>4. Calm
  BY <1>3 DEF Calm, ServeInv, OrderInv, InOrder
<1>5. ASSUME NEW h \in Handlers, Upload(h) \/ \E v \in Versions : Arrive(h, v)
      PROVE  Serve'
  <2>1. UNCHANGED <<exe, old, proc, panel, lastServed>>
    BY <1>5 DEF Upload, TakeTurn, Defer, NotNewer, Stage, StageFails, Arrive, files, panelVars,
                history
  <2>2. \A q \in Procs : \/ apply'[q] = apply[q]
                         \/ apply[q].pc = "none" /\ apply'[q].pc = "delay"
    <3>1. CASE Stage(h)
      BY <3>1 DEF Stage, SwapInv, TypeOK, RequestInv, TurnInv
    <3>2. CASE ~Stage(h)
      BY <1>5, <3>2 DEF Upload, TakeTurn, Defer, NotNewer, StageFails, Arrive
    <3>3. QED
      BY <3>1, <3>2
  <2>3. QED
    BY <1>4, <2>1, <2>2 DEF Calm, Serve, ExeInv, OldInv, PlaceInv, TrialInv, WorksInv, PanelInv,
                            FreeInv, PortFree, Serving, OnItsWay, Alive
<1>6. CASE OpenPanel \/ UNCHANGED vars \/ \E p \in Procs : RelaunchPanel(p)
  <2>1. UNCHANGED <<exe, old, proc, apply, lastServed>>
    BY <1>6 DEF OpenPanel, RelaunchPanel, vars, files, history
  <2>2. \/ panel' = panel
        \/ panel' = exe /\ exe \notin Broken \cup {None}
        \/ panel' = None /\ ~PortFree
    BY <1>6 DEF OpenPanel, RelaunchPanel, vars, panelVars, PortFree
  <2>3. PanelInv'
    BY <1>4, <2>1, <2>2, CalmFacts DEF Calm, Serve, PanelInv
  <2>4. QED
    BY <1>4, <2>1, <2>2, <2>3 DEF Calm, Serve, ExeInv, OldInv, PlaceInv, TrialInv, WorksInv,
                                  FreeInv, PortFree, Serving, OnItsWay, Alive
<1>7. ~PowerLoss /\ ~StartService /\ ~Boot /\ \A p \in Procs : ~StopService(p)
  BY <1>4 DEF Calm, PowerLoss, StartService, Boot, StopService
<1>8. ASSUME NEW p \in Procs, Update(p) \/ Live(p) \/ RestartService(p)
      PROVE  Serve'
  BY <1>2, <1>3, <1>4, <1>8, ServeUpdate, ServeLive, ServeBind, ServeRestart DEF Live
<1>9. QED
  BY <1>4, <1>5, <1>6, <1>7, <1>8, ServeEnsure DEF Next, Pc, Window

LEMMA ServeMeans ==
    ASSUME SwapInv, OrderInv, ServeInv
    PROVE  NeverUnserved /\ Startable /\ BrokenGoes
<1> SUFFICES ASSUME InOrder, Order, Serve PROVE NeverUnserved /\ Startable /\ BrokenGoes
  BY DEF ServeInv, OrderInv, InOrder, NeverUnserved, Startable, BrokenGoes
<1>1. CASE PortFree
  <2>1. exe \notin Broken \cup {None} /\ (panel # None \/ \E p \in Procs : OnItsWay(p))
    BY <1>1 DEF Serve, FreeInv
  <2>2. \A p \in Procs : OnItsWay(p) => Alive(p) /\ proc[p].ver \notin Broken
    BY <2>1 DEF Order, WayInv, Alive, OnItsWay
  <2>3. QED
    BY <2>1, <2>2 DEF NeverUnserved, Startable, BrokenGoes
<1>2. CASE ~PortFree
  <2>1. PICK p \in Procs : Serving(p)
    BY <1>2 DEF PortFree
  <2>2. proc[p].ver \in Versions \ Broken
    BY <2>1 DEF SwapInv, RunsInv, Alive, Serve, WorksInv, Serving
  <2>3. proc[p].ver # None
    BY <2>2, SwapAssumption DEF None
  <2>4. apply[p].pc \in {"none", "delay", "movein", "spawn", "grace", "aside", "restore"}
    BY DEF SwapInv, TypeOK, Serve, PlaceInv
  <2>5. /\ apply[p].pc \in {"none", "delay"} => exe = proc[p].ver
        /\ apply[p].pc \in {"spawn", "grace", "aside"} => exe # None
        /\ apply[p].pc \in {"movein", "restore"} => exe = None
    BY <2>1 DEF Serve, ExeInv, PlaceInv
  <2>6. /\ exe = None => apply[p].pc \in {"movein", "restore"}
        /\ exe \in Broken => apply[p].pc \in {"spawn", "grace", "aside"}
    <3>1. None \notin Broken
      BY SwapAssumption DEF None
    <3>2. QED
      BY <2>2, <2>3, <2>4, <2>5, <3>1
  <2>7. QED
    BY <1>2, <2>6 DEF NeverUnserved, Startable, BrokenGoes
<1>3. QED
  BY <1>1, <1>2

\* While no file is in use, nobody stops the service and the power stays on, an
\* update leaves the PC neither without a service or one on its way, nor
\* without an executable, nor with one that dies: whatever releases are
\* uploaded, when and by how many machines, and whatever the window does
\* (host/src/update.rs, service.rs run).
THEOREM PcStaysServed ==
  ASSUME Faults = {}
  PROVE  Spec => [](NeverUnserved /\ Startable /\ BrokenGoes)
<1>1. SwapInv /\ OrderInv /\ ServeInv /\ [Next]_vars => ServeInv'
  BY ServeNext
<1>2. SwapInv /\ OrderInv /\ ServeInv => NeverUnserved /\ Startable /\ BrokenGoes
  BY ServeMeans
<1>3. QED
  BY ServeInit, SwapInvariant, DiskIsNewest, <1>1, <1>2, PTL DEF Spec
=============================================================================
