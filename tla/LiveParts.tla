---------------------------- MODULE LiveParts ----------------------------
(***************************************************************************)
(* What must happen in the end, in the parts whose scheduling the code     *)
(* leaves to threads, timers and retries, checked in one run.  A behaviour *)
(* is that of one part, as in MacParts; so one fairness condition can      *)
(* stand for an action of each of several parts.                           *)
(***************************************************************************)
EXTENDS Naturals

VARIABLES part, v1, v2, v3, v4, v5, v6, v7, v8, v9, v10, v11, v12, v13, v14, v15, v16, v17,
          v18, v19, v20

(* Each part is the module it is an instance of, with bounds of its own. *)
Swap == INSTANCE HostSwap WITH Versions <- {1, 2, 3}, First <- 1, Broken <- {2},
    Procs <- {"p1", "p2", "p3"}, NoProc <- "none", Handlers <- {"h1", "h2"}, Faults <- {},
    exe <- v1, new <- v2, old <- v3, proc <- v4, installing <- v5, apply <- v6,
    handler <- v7, reply <- v8, powered <- v9, panel <- v10, restarted <- v11,
    stopped <- v12, lastServed <- v13, undone <- v14
Flow == INSTANCE ConnectFlow WITH MaxConnects <- 1, progress <- v1, live <- v2,
    worker <- v3, phase <- v4, done <- v5, raised <- v6, events <- v7, ui <- v8,
    snapshot <- v9, reconnect <- v10, updater <- v11
Window == INSTANCE ClientApp WITH MaxStreams <- 2, MaxJobs <- 0, w <- v1, said <- v2
Engine == INSTANCE EngineCare WITH Slow <- 1, Slower <- 1, NetTicks <- 2, MaxFaults <- 1,
    MaxApps <- 1, world <- v1, svc <- v2, turn <- v3, net <- v4
Pair == INSTANCE Pairing WITH Macs <- {"a", "b"}, MaxFaults <- 1, MaxTries <- 2, mac <- v1,
    engine <- v2, pins <- v3, past <- v4
Video == INSTANCE VideoPath WITH Sets <- 1, Spares <- 3, Late <- 1, MaxUnits <- 2,
    MaxFaults <- 1, dec <- v1, vt <- v2, slot <- v3, ui <- v4, health <- v5, net <- v6,
    wake <- v7, worker <- v8, made <- v9, news <- v10, dropped <- v11, faults <- v12
Audio == INSTANCE AudioPath WITH Channels <- 2, MaxQueued <- 6, Keep <- 4, Preroll <- 4,
    InRate <- 3, OutRate <- 2, OutFrames <- 2, MaxFrames <- 4, MaxLost <- 1, player <- v1,
    queue <- v2, mixer <- v3, output <- v4, thread <- v5, sent <- v6, packets <- v7,
    lost <- v8, undecodable <- v9, pulled <- v10, heard <- v11, warned <- v12,
    notices <- v13
Discover == INSTANCE Discovery WITH Machines <- {"a", "r"}, Relays <- {"r"},
    MaxChanges <- 2, MaxConnects <- 1, world <- v1, up <- v2, seen <- v3, disk <- v4,
    at <- v5, cfg <- v6, online <- v7, todo <- v8, found <- v9, list <- v10, repaint <- v11,
    drawn <- v12, last <- v13, target <- v14, engine <- v15, changes <- v16, connects <- v17
Page == INSTANCE HostWindow WITH MaxJobs <- 0, MaxClicks <- 2, MaxFaults <- 1, svc <- v1,
    shared <- v2, local <- v3, synced <- v4, repaint <- v5, drawn <- v6, poll <- v7,
    answer <- v8, changed <- v9, failures <- v10, restarted <- v11, setupOwes <- v12,
    wish <- v13, jobs <- v14, slots <- v15, pending <- v16, note <- v17, clicks <- v18,
    faults <- v19, gone <- v20

ASSUME BoundsAssumption ==
  /\ Window!AppAssumption
  /\ Engine!CareAssumption
  /\ Pair!PairingAssumption
  /\ Video!VideoAssumption
  /\ Audio!AudioAssumption
  /\ Discover!DiscoveryAssumption
  /\ Page!WindowAssumption

\* A part leaves the variables it has no use for at Blank.
Blank == 0
Blank18 == v18 = Blank /\ v19 = Blank /\ v20 = Blank
Blank15 == v15 = Blank /\ v16 = Blank /\ v17 = Blank /\ Blank18
Blank14 == v14 = Blank /\ Blank15
Blank13 == v13 = Blank /\ Blank14
Blank12 == v12 = Blank /\ Blank13
Blank5 == v5 = Blank /\ v6 = Blank /\ v7 = Blank /\ v8 = Blank /\ v9 = Blank /\
          v10 = Blank /\ v11 = Blank /\ Blank12
Blank3 == v3 = Blank /\ v4 = Blank /\ Blank5
From18 == <<v18, v19, v20>>
From15 == <<v15, v16, v17, From18>>
From14 == <<v14, From15>>
From13 == <<v13, From14>>
From12 == <<v12, From13>>
From5 == <<v5, v6, v7, v8, v9, v10, v11, From12>>
From3 == <<v3, v4, From5>>

allVars == <<part, v1, v2, v3, v4, v5, v6, v7, v8, v9, v10, v11, v12, v13, v14, v15, v16,
            v17, v18, v19, v20>>

LiveInit ==
  \/ part = "swap" /\ Swap!Init /\ Blank15
  \/ part = "connect" /\ Flow!Init /\ Blank12
  \/ part = "window" /\ Window!Init /\ Blank3
  \/ part = "engine" /\ Engine!Init /\ Blank5
  \/ part = "pairing" /\ Pair!Init /\ Blank5
  \/ part = "video" /\ Video!Init /\ Blank13
  \/ part = "audio" /\ Audio!Init /\ Blank14
  \/ part = "discovery" /\ Discover!Init /\ Blank18
  \/ part = "page" /\ Page!Init

LiveNext ==
  /\ UNCHANGED part
  /\ \/ part = "swap" /\ Swap!Next /\ UNCHANGED From15
     \/ part = "connect" /\ Flow!Next /\ UNCHANGED From12
     \/ part = "window" /\ Window!Next /\ UNCHANGED From3
     \/ part = "engine" /\ Engine!Next /\ UNCHANGED From5
     \/ part = "pairing" /\ Pair!Next /\ UNCHANGED From5
     \/ part = "video" /\ Video!Next /\ UNCHANGED From13
     \/ part = "audio" /\ Audio!Next /\ UNCHANGED From14
     \/ part = "discovery" /\ Discover!Next /\ UNCHANGED From18
     \/ part = "page" /\ Page!Next

LiveSpec == LiveInit /\ [][LiveNext]_allVars

-----------------------------------------------------------------------------
(* Fairness: threads run and loops turn (a Turn is not put off for good),  *)
(* and what is tried again and again works at last (a Chance).  Clicks,    *)
(* uploads, faults and other machines are under no obligation.             *)

Turn1 ==
  /\ UNCHANGED part
  /\ \/ part = "swap" /\ (\E h \in {"h1", "h2"} : Swap!Upload(h)) /\ UNCHANGED From15
     \/ part = "connect" /\ Flow!SessionStep(1) /\ UNCHANGED From12
     \/ part = "window" /\ (Window!Watch \/ Window!Idle \/ Window!Reconnect) /\ UNCHANGED From3
     \/ part = "engine" /\ Engine!Refresh /\ UNCHANGED From5
     \/ part = "pairing" /\ Pair!Attempt("a") /\ UNCHANGED From5
     \/ part = "video" /\ Video!Thread /\ UNCHANGED From13
     \/ part = "audio" /\ Audio!Open /\ UNCHANGED From14
     \/ part = "discovery" /\ Discover!Scan /\ UNCHANGED From18
     \/ part = "page" /\ Page!Poller

Turn2 ==
  /\ UNCHANGED part
  /\ \/ part = "swap" /\ (\E p \in {"p1", "p2", "p3"} : Swap!Update(p)) /\ UNCHANGED From15
     \/ part = "connect" /\ Flow!Verdict(1) /\ UNCHANGED From12
     \/ part = "window" /\ Window!SessionStops /\ UNCHANGED From3
     \/ part = "engine" /\ Engine!AppEnds /\ UNCHANGED From5
     \/ part = "pairing" /\ Pair!Attempt("b") /\ UNCHANGED From5
     \/ part = "video" /\ Video!Frame /\ UNCHANGED From13
     \/ part = "audio" /\ Audio!Close /\ UNCHANGED From14
     \/ part = "discovery" /\ Discover!TailscaleSees /\ UNCHANGED From18

Turn3 ==
  /\ UNCHANGED part
  /\ \/ part = "swap" /\ (\E p \in {"p1", "p2", "p3"} : Swap!Live(p)) /\ UNCHANGED From15
     \/ part = "connect" /\ Flow!Frame /\ UNCHANGED From12
     \/ part = "window" /\ (Window!WorkerFails \/ Window!WorkerPublishes) /\ UNCHANGED From3
     \/ part = "engine" /\ Engine!NetcheckEnds /\ UNCHANGED From5
     \/ part = "video" /\ Video!Asked /\ UNCHANGED From13
     \/ part = "discovery" /\ Discover!Draw /\ UNCHANGED From18

Turn4 ==
  /\ UNCHANGED part
  /\ \/ part = "swap" /\ (\E p \in {"p1", "p2", "p3"} : Swap!Window(p)) /\ UNCHANGED From15
     \/ part = "discovery" /\ Discover!Attempt /\ UNCHANGED From18

Turn5 ==
  /\ UNCHANGED part
  /\ part = "swap" /\ (Swap!EnsureService \/ Swap!Boot) /\ UNCHANGED From15

Chance1 ==
  /\ UNCHANGED part
  /\ \/ part = "connect" /\ Flow!WorkerStep(1) /\ UNCHANGED From12
     \/ part = "engine" /\ Engine!GoodStart /\ UNCHANGED From5
     \/ part = "pairing" /\ Pair!PinOver("a") /\ UNCHANGED From5

Chance2 ==
  /\ UNCHANGED part
  /\ \/ part = "engine" /\ Engine!GoodMark /\ UNCHANGED From5
     \/ part = "pairing" /\ Pair!PinOver("b") /\ UNCHANGED From5

Chance3 ==
  /\ UNCHANGED part
  /\ part = "engine" /\ Engine!GoodCheck /\ UNCHANGED From5

LiveFairSpec ==
  /\ LiveSpec
  /\ WF_allVars(Turn1) /\ WF_allVars(Turn2) /\ WF_allVars(Turn3) /\ WF_allVars(Turn4) /\ WF_allVars(Turn5)
  /\ SF_allVars(Chance1) /\ SF_allVars(Chance2) /\ SF_allVars(Chance3)

-----------------------------------------------------------------------------
\* A release in its file, and an attempt to connect.
Asked ==
  \/ part = "swap" /\ Swap!Staged(3)
  \/ part = "connect" /\ Flow!Cancelled(1)

Done ==
  /\ part = "swap" => Swap!Arrived(3)
  /\ part = "connect" => Flow!WorkerGone(1)

(* The newest release, once staged, becomes what the PC runs; and the      *)
(* worker of a cancelled attempt stops (host/src/update.rs,                *)
(* client/src/session.rs).                                                 *)
AskedIsDone == Asked ~> Done

Passing ==
  /\ part = "swap" => Swap!Served
  /\ part = "connect" => Flow!StoppedStreamGone
  /\ part = "window" => Window!RestartMade
  /\ part = "engine" => Engine!CaredFor
  /\ part = "pairing" => Pair!AttemptOver("a")
  /\ part = "video" => Video!NewestIsTaken
  /\ part = "page" => Page!ServiceIsBack

Lasting ==
  /\ part = "engine" => Engine!NatIsRight
  /\ part = "audio" => Audio!OutputOver
  /\ part = "discovery" => Discover!ShowsTheTruth

(* No trouble is for good: a service, an engine, its sound or a stopped    *)
(* stream's place comes back, a restart is made, an attempt ends, a        *)
(* picture is taken; and what is shown comes to be what is.                *)
TroublePasses ==
  /\ []<>Passing
  /\ []<>(part = "pairing" => Pair!AttemptOver("b"))
  /\ <>[]Lasting
=============================================================================
