---------------------------- MODULE MacParts ----------------------------
(***************************************************************************)
(* Connecting, as ConnectFlow has it, and the other parts of the Mac       *)
(* outside a stream, checked in one run.  The parts do not meet in one     *)
(* another's steps, so a behaviour is that of one part, which is chosen at *)
(* the start, and all but ConnectFlow use the same variables in turn.      *)
(***************************************************************************)
EXTENDS ConnectFlow

CONSTANTS
  MaxStreams, MaxJobs,                                    \* of ClientApp
  Machines, Relays, MaxChanges, DiscoverConnects,         \* of Discovery
  PCs, MaxStarts, HandoverFaults,                         \* of Handover
  MaxTag, UpdateFaults,                                   \* of SelfUpdate
  Size, CacheFaults,                                      \* of ReleaseCache
  Years, Targets, Bytes,                                  \* of Reckoning
  MaxBody, Limit, MaxHeader, MaxHops,                     \* of HttpExchange
  Capacity, MaxOutput                                     \* of CommandRun

VARIABLES part, v1, v2, v3, v4, v5, v6, v7, v8, v9, v10, v11, v12, v13, v14, v15, v16, v17

(* Each part is the module it is an instance of, with bounds of its own.   *)
(* The updater is the one thread that fetches, and no release that was     *)
(* published is withdrawn.                                                 *)
Window == INSTANCE ClientApp WITH w <- v1, said <- v2
Discover == INSTANCE Discovery WITH MaxConnects <- DiscoverConnects, world <- v1, up <- v2,
    seen <- v3, disk <- v4, at <- v5, cfg <- v6, online <- v7, todo <- v8, found <- v9,
    list <- v10, repaint <- v11, drawn <- v12, last <- v13, target <- v14, engine <- v15,
    changes <- v16, connects <- v17
HandOver == INSTANCE Handover WITH MaxFaults <- HandoverFaults, live <- v1, held <- v2,
    threads <- v3, script <- v4, disk <- v5, service <- v6, faults <- v7
Updater == INSTANCE SelfUpdate WITH Withdraws <- FALSE, MaxFaults <- UpdateFaults,
    latest <- v1, top <- v2, rel <- v3, ready <- v4, at <- v5, cached <- v6, unpacked <- v7,
    bundle <- v8, stage <- v9, kept <- v10, running <- v11, busy <- v12, updating <- v13,
    faults <- v14
Cache == INSTANCE ReleaseCache WITH Fetchers <- {"updater"}, MaxFaults <- CacheFaults,
    at <- v1, file <- v2, off <- v3, sum <- v4, data <- v5, part <- v6, dest <- v7,
    faults <- v8
Sums == INSTANCE Reckoning WITH work <- v1, day <- v2, date <- v3, target <- v4,
    request <- v5, settled <- v6, mac <- v7, packet <- v8, heard <- v9
Http == INSTANCE HttpExchange WITH call <- v1, at <- v2, host <- v3, hop <- v4, told <- v5,
    reply <- v6, left <- v7, total <- v8, budget <- v9, sink <- v10
Command == INSTANCE CommandRun WITH toWrite <- v1, output <- v2, pipe <- v3, bytes <- v4,
    reader <- v5, child <- v6, says <- v7, at <- v8

ASSUME BoundsAssumption ==
  /\ Window!AppAssumption
  /\ Discover!DiscoveryAssumption
  /\ HandOver!HandoverAssumption
  /\ Updater!SelfUpdateAssumption
  /\ Cache!CacheAssumption
  /\ Sums!ReckoningAssumption
  /\ Http!HttpAssumption
  /\ Command!CommandAssumption

\* A part leaves the variables it has no use for at Blank.
Blank == 0
Blank15 == v15 = Blank /\ v16 = Blank /\ v17 = Blank
Blank11 == v11 = Blank /\ v12 = Blank /\ v13 = Blank /\ v14 = Blank /\ Blank15
Blank10 == v10 = Blank /\ Blank11
Blank9 == v9 = Blank /\ Blank10
Blank8 == v8 = Blank /\ Blank9
Blank3 == v3 = Blank /\ v4 = Blank /\ v5 = Blank /\ v6 = Blank /\ v7 = Blank /\ Blank8
Blank1 == v1 = Blank /\ v2 = Blank /\ Blank3
From15 == <<v15, v16, v17>>
From11 == <<v11, v12, v13, v14, From15>>
From10 == <<v10, From11>>
From9 == <<v9, From10>>
From8 == <<v8, From9>>
From3 == <<v3, v4, v5, v6, v7, From8>>
From1 == <<v1, v2, From3>>

allVars == <<part, vars, v1, v2, v3, v4, v5, v6, v7, v8, v9, v10, v11, v12, v13, v14, v15,
            v16, v17>>

MacInit ==
  /\ Init
  /\ \/ part = "connect" /\ Blank1
     \/ part = "window" /\ Window!Init /\ Blank3
     \/ part = "discovery" /\ Discover!Init
     \/ part = "handover" /\ HandOver!Init /\ Blank8
     \/ part = "update" /\ Updater!Init /\ Blank15
     \/ part = "cache" /\ Cache!Init /\ Blank9
     \/ part = "sums" /\ Sums!Init /\ Blank10
     \/ part = "http" /\ Http!Init /\ Blank11
     \/ part = "command" /\ Command!Init /\ Blank9

MacNext ==
  /\ UNCHANGED part
  /\ \/ part = "connect" /\ Next /\ UNCHANGED From1
     \/ part = "window" /\ Window!Next /\ UNCHANGED <<vars, From3>>
     \/ part = "discovery" /\ Discover!Next /\ UNCHANGED vars
     \/ part = "handover" /\ HandOver!Next /\ UNCHANGED <<vars, From8>>
     \/ part = "update" /\ Updater!Next /\ UNCHANGED <<vars, From15>>
     \/ part = "cache" /\ Cache!Next /\ UNCHANGED <<vars, From9>>
     \/ part = "sums" /\ Sums!Next /\ UNCHANGED <<vars, From10>>
     \/ part = "http" /\ Http!Next /\ UNCHANGED <<vars, From11>>
     \/ part = "command" /\ Command!Next /\ UNCHANGED <<vars, From9>>

MacSpec == MacInit /\ [][MacNext]_allVars

-----------------------------------------------------------------------------
(* What the window shows and does by itself is what the user asked for and *)
(* what has happened (client/src/app.rs).                                  *)
WindowIsRight ==
  /\ part = "window" =>
       /\ Window!TypeOK /\ Window!AskedEndIsNoFailure /\ Window!BusyWhileFixing
       /\ Window!RestartIsMeant /\ Window!WindowedWhenIdle
  /\ part = "discovery" => Discover!TypeOK

(* What comes from the network is taken whole and verified or not at all,  *)
(* whatever is cut short, fails or is killed on the way (core/update.rs,   *)
(* http.rs, tailscale.rs, client/src/update.rs, handover.rs).              *)
ArrivesWhole ==
  /\ part = "cache" => Cache!TypeOK /\ Cache!DestIsWhole
  /\ part = "update" => Updater!TypeOK /\ Updater!OnlyVerified /\ Updater!AppSurvives
  /\ part = "handover" =>
       HandOver!TypeOK /\ HandOver!WholeHostSomewhere /\ HandOver!OnlyItsPc
  /\ part = "http" => Http!TypeOK /\ Http!WholeOrRefused /\ Http!WithinLimit /\ Http!TokenStays
  /\ part = "command" => Command!TypeOK /\ Command!NeverStuck /\ Command!AnswerIsWhole

(* Dates, bitrates and wake packets come out as their definitions say, on  *)
(* every bounded input (core/dates.rs, stream/src/session.rs, wake.rs).    *)
SumsAreRight ==
  part = "sums" => Sums!CalendarAgrees /\ Sums!SmallestThatSurvives /\ Sums!WakeIsItsOwn

(* A machine that was seen is never forgotten, nor the means to wake it,   *)
(* and only a connection to it changes its certificate                     *)
(* (client/src/session.rs, spawn_discovery and run).                       *)
MachinesStay ==
  [][part = "discovery" => Discover!NeverForgets /\ Discover!StaysWakeable]_allVars
=============================================================================
