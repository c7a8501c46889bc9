---------------------------- MODULE TrafficParts ----------------------------
(***************************************************************************)
(* What passes between the Mac and a PC, checked in one run: keys and      *)
(* buttons, pictures, sound, the requests to the control service, pairing, *)
(* and a new executable for the PC.  The parts do not meet in one          *)
(* another's steps, so a behaviour is that of one part, which is chosen at *)
(* the start, and they use the same variables in turn.                     *)
(***************************************************************************)
EXTENDS Naturals

CONSTANTS
  MaxPastes, FreeMouse, ModSets, Questions,                   \* of StreamScreen
  Sets, Spares, Late, MaxUnits, VideoFaults,                  \* of VideoPath
  Channels, MaxQueued, Keep, Preroll, InRate, OutRate,        \* of AudioPath
  OutFrames, MaxFrames, MaxLost,
  PathChanges,                                                \* of PathAdvice
  Displays, DisplayChanges, DisplayFaults,                    \* of BlackPicture
  ControlPeers, ControlWorkers, ControlConnections, ControlRemembers,   \* of PcService,
  CachePeers, CacheWorkers, CacheConnections, CacheRemembers,           \* twice
  Guests, CacheLimit, TTL, MaxPower, MaxMoves,
  Networks, Settle, Limit, FreshFor, MaxTests, WakeFaults,    \* of WakeTest
  Threads,                                                    \* of ServiceLocks
  Macs, PairFaults, MaxTries,                                 \* of Pairing
  Versions, First, Broken, Procs, NoProc, Handlers            \* of HostSwap

VARIABLES part, v1, v2, v3, v4, v5, v6, v7, v8, v9, v10, v11, v12, v13, v14

(* Each part is the module it is an instance of, with bounds of its own;   *)
(* the control service comes twice, with several threads and one machine   *)
(* that asks, and with several machines and one thread.                    *)
Screen == INSTANCE StreamScreen WITH screen <- v1, cfg <- v2, hand <- v3, stream <- v4,
    focused <- v5, popup <- v6, pastes <- v7, done <- v8
Video == INSTANCE VideoPath WITH MaxFaults <- VideoFaults, dec <- v1, vt <- v2, slot <- v3,
    ui <- v4, health <- v5, net <- v6, wake <- v7, worker <- v8, made <- v9, news <- v10,
    dropped <- v11, faults <- v12
Audio == INSTANCE AudioPath WITH player <- v1, queue <- v2, mixer <- v3, output <- v4,
    thread <- v5, sent <- v6, packets <- v7, lost <- v8, undecodable <- v9, pulled <- v10,
    heard <- v11, warned <- v12, notices <- v13
Path == INSTANCE PathAdvice WITH MaxChanges <- PathChanges, route <- v1, node <- v2,
    path <- v3, rtt <- v4, pcNat <- v5, macNat <- v6, changes <- v7
Display == INSTANCE BlackPicture WITH MaxChanges <- DisplayChanges,
    MaxFaults <- DisplayFaults, win11 <- v1, disp <- v2, desktop <- v3, at <- v4,
    help <- v5, want <- v6, cur <- v7, order <- v8, touched <- v9, refused <- v10,
    told <- v11, still <- v12, changes <- v13, faults <- v14
Control == INSTANCE PcService WITH Peers <- ControlPeers, Workers <- ControlWorkers,
    MaxConnections <- ControlConnections, RememberFor <- ControlRemembers, world <- v1,
    svc <- v2, work <- v3, acting <- v4
Cache == INSTANCE PcService WITH Peers <- CachePeers, Workers <- CacheWorkers,
    MaxConnections <- CacheConnections, RememberFor <- CacheRemembers, world <- v1,
    svc <- v2, work <- v3, acting <- v4
Waking == INSTANCE WakeTest WITH Fresh <- FreshFor, MaxFaults <- WakeFaults, mac <- v1,
    pc <- v2, air <- v3, test <- v4, faults <- v5
Mutexes == INSTANCE ServiceLocks WITH Runs <- [t \in Threads |-> t], holder <- v1, at <- v2
Pair == INSTANCE Pairing WITH MaxFaults <- PairFaults, mac <- v1, engine <- v2, pins <- v3,
    past <- v4
Swap == INSTANCE HostSwap WITH Faults <- {}, exe <- v1, new <- v2, old <- v3, proc <- v4,
    installing <- v5, apply <- v6, handler <- v7, reply <- v8, powered <- v9, panel <- v10,
    restarted <- v11, stopped <- v12, lastServed <- v13, undone <- v14

ASSUME BoundsAssumption ==
  /\ Screen!ScreenAssumption
  /\ Video!VideoAssumption
  /\ Audio!AudioAssumption
  /\ Path!AdviceAssumption
  /\ Display!PictureAssumption
  /\ Control!ServiceAssumption /\ Cache!ServiceAssumption
  /\ Waking!WakeAssumption
  /\ Mutexes!LocksAssumption
  /\ Pair!PairingAssumption
  /\ Swap!SwapAssumption /\ Swap!NoProcAssumption

\* A part leaves the variables it has no use for at Blank.
Blank == 0
Blank14 == v14 = Blank
Blank13 == v13 = Blank /\ Blank14
Blank9 == v9 = Blank /\ v10 = Blank /\ v11 = Blank /\ v12 = Blank /\ Blank13
Blank8 == v8 = Blank /\ Blank9
Blank6 == v6 = Blank /\ v7 = Blank /\ Blank8
Blank5 == v5 = Blank /\ Blank6
Blank3 == v3 = Blank /\ v4 = Blank /\ Blank5
From14 == <<v14>>
From13 == <<v13, From14>>
From9 == <<v9, v10, v11, v12, From13>>
From8 == <<v8, From9>>
From6 == <<v6, v7, From8>>
From5 == <<v5, From6>>
From3 == <<v3, v4, From5>>

allVars == <<part, v1, v2, v3, v4, v5, v6, v7, v8, v9, v10, v11, v12, v13, v14>>

TrafficInit ==
  \/ part = "screen" /\ Screen!Init /\ Blank9
  \/ part = "video" /\ Video!Init /\ Blank13
  \/ part = "audio" /\ Audio!Init /\ Blank14
  \/ part = "path" /\ Path!Init /\ Blank8
  \/ part = "display" /\ Display!Init
  \/ part = "service" /\ Control!Init /\ Blank5
  \/ part = "cache" /\ Cache!Init /\ Blank5
  \/ part = "wake" /\ Waking!Init /\ Blank6
  \/ part = "locks" /\ Mutexes!Init /\ Blank3
  \/ part = "pairing" /\ Pair!Init /\ Blank5
  \/ part = "swap" /\ Swap!Init

TrafficNext ==
  /\ UNCHANGED part
  /\ \/ part = "screen" /\ Screen!Next /\ UNCHANGED From9
     \/ part = "video" /\ Video!Next /\ UNCHANGED From13
     \/ part = "audio" /\ Audio!Next /\ UNCHANGED From14
     \/ part = "path" /\ Path!Next /\ UNCHANGED From8
     \/ part = "display" /\ Display!Next
     \/ part = "service" /\ Control!Next /\ UNCHANGED From5
     \/ part = "cache" /\ Cache!Next /\ UNCHANGED From5
     \/ part = "wake" /\ Waking!Next /\ UNCHANGED From6
     \/ part = "locks" /\ Mutexes!Next /\ UNCHANGED From3
     \/ part = "pairing" /\ Pair!Next /\ UNCHANGED From5
     \/ part = "swap" /\ Swap!Next

TrafficSpec == TrafficInit /\ [][TrafficNext]_allVars

-----------------------------------------------------------------------------
(* The keys, buttons and modifiers that the PC has down are those that are *)
(* held here or that a running paste will let go, whatever opens, closes   *)
(* or takes the focus meanwhile (client/src/stream.rs, Held).              *)
HandsLetGo ==
  part = "screen" =>
    /\ Screen!TypeOK /\ Screen!NothingForgotten /\ Screen!HoldSurvivesPaste
    /\ Screen!ChordOpensClean /\ Screen!UnfocusedLetsGo

(* The picture and the sound are of this stream, in order and whole, and   *)
(* what is said of them is so (stream/src/video.rs, videotoolbox.rs,       *)
(* audio.rs, client/src/video.rs, display.rs, host/src/display.rs,         *)
(* client/src/path.rs).                                                    *)
PictureIsRight ==
  /\ part = "video" =>
       Video!TypeOK /\ Video!NoOldPicture /\ Video!FewBuffers /\ Video!ProblemIsTrue
  /\ part = "audio" => Audio!TypeOK /\ Audio!ChannelsStay /\ Audio!PlaysMeansHeard
  /\ part = "display" => Display!TypeOK /\ Display!OfferedWorks
  /\ part = "path" => Path!AdviceIsTrue

(* Who may ask for what, and who waits for whom: a request is answered for *)
(* this account's machines, a power action done while they are allowed,    *)
(* no thread of the service waits in a circle, and a wake packet that came *)
(* is not denied (host/src/service.rs, client/src/session.rs).             *)
ServiceIsRight ==
  /\ part = "service" =>
       /\ Control!TypeOK /\ Control!AnswersItsOwn /\ Control!RefusesStrangers
       /\ Control!CacheBounded /\ Control!SlotsReturned /\ Control!PowerIsAllowed
  /\ part = "cache" =>
       /\ Cache!TypeOK /\ Cache!AnswersItsOwn /\ Cache!RefusesStrangers
       /\ Cache!CacheBounded /\ Cache!SlotsReturned /\ Cache!PowerIsAllowed
  /\ part = "wake" => Waking!TypeOK /\ Waking!CameIsTold /\ Waking!SameNetworkIsReached
  /\ part = "locks" => Mutexes!TypeOK /\ Mutexes!NoCircle /\ Mutexes!NoLockAcrossCalls

(* Pairing leaves both sides knowing each other or neither, and what was   *)
(* paired stays so (stream/src/pair.rs, identity.rs, client/src/session.rs).*)
PairingIsRight ==
  part = "pairing" =>
    /\ Pair!TypeOK /\ Pair!IdentityKept /\ Pair!SecretAfterProof
    /\ Pair!SavedMeansPaired /\ Pair!UndisturbedSucceeds

(* While nothing cuts the service off, an update never leaves a PC without *)
(* a service or one on its way, without an executable, or with one that    *)
(* dies, as long as no copy that an update started is overtaken on its way *)
(* to the port (host/src/update.rs).                                       *)
ServedThroughout ==
  part = "swap" => Swap!NeverUnserved /\ Swap!Startable /\ Swap!BrokenGoes

(* What no step may do here: leave a sound decoder without its picture,   *)
(* picture, switch a display nobody asked about, show a detour as a good   *)
(* path, report a pairing the engine does not have.                        *)
TrafficSteps ==
  [][/\ part = "video" => Video!KeyframeHeals
     /\ part = "display" => Display!LeavesOthersAlone
     /\ part = "path" => Path!DetoursAreShown
     /\ part = "pairing" => Pair!OkMeansPaired]_allVars
=============================================================================
