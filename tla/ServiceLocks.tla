---------------------------- MODULE ServiceLocks ----------------------------
(***************************************************************************)
(* The mutexes of a PC's control service (host/src/service.rs, brand.rs)   *)
(* and the order in which its threads take them.  A thread runs one of the *)
(* programs below over and over: the locks it takes and lets go of, in the *)
(* order of the source, the guards that live to the end of an expression   *)
(* included, and the calls that take long.  What the locks protect is in   *)
(* PcService and EngineCare.                                               *)
(***************************************************************************)
EXTENDS Naturals, Sequences

CONSTANTS
  Threads,   \* the threads that run at once
  Runs       \* the program that each of them runs

VARIABLES
  holder,   \* the thread that has a lock
  at        \* where a thread is in its program

vars == <<holder, at>>

Locks == {"cfg", "name", "tailscale", "wake", "wakeSeen", "display", "install",
          "streamer", "branded", "log", "auth", "whoisFailed", "nat"}
Free == "free"

LocksAssumption ==
  /\ Free \notin Threads
  /\ Runs \in [Threads -> {"refresh", "netcheck", "packet", "asks", "acts"}]

Take(l) == <<"take", l>>
Drop(l) == <<"drop", l>>
Calls(what) == <<"call", what>>
Brief(l) == <<Take(l), Drop(l)>>
Under(l, ops) == <<Take(l)>> \o ops \o <<Drop(l)>>

\* push_log.
Log == Brief("log")

\* The refresh loop's turn, with everything it may log.
Refresh ==
  Brief("cfg") \o Brief("cfg") \o <<Calls("tailscale status")>>
  \o Under("tailscale", Log) \o Brief("tailscale")
  \o Brief("cfg") \o Brief("streamer") \o <<Calls("engine")>> \o Log
  \o Brief("streamer") \o Under("streamer", Log) \o Brief("install")
  \o Brief("install") \o Brief("streamer") \o <<Calls("engine start")>> \o Log
  \o <<Calls("machine name")>> \o Brief("name")
  \o <<Calls("wake probe")>> \o Under("wake", Log)
  \o <<Calls("display probe")>> \o Under("display", Log)

\* Service::status: tailscale is kept to the end, and the guards inside the
\* reply's expression with it.  The look at the engine's name has a cache with
\* a mutex of its own, under which a file is read.
Status ==
  Brief("cfg") \o Under("tailscale",
    Brief("wake") \o Brief("streamer") \o Brief("branded") \o Brief("display")
    \o Under("name", Under("wakeSeen", Under("nat", Log))))

\* Service::authorized: the account is copied out before the whois.
Authorized ==
  Brief("auth") \o Brief("tailscale") \o <<Calls("whois")>> \o Log
  \o Under("whoisFailed", Log) \o Brief("auth")

Netcheck == <<Calls("netcheck")>> \o Under("nat", Log)

WakePacket == Brief("wake") \o Under("wakeSeen", Log)

\* A request that acts: the PIN, power, an update.
Acts == Brief("cfg") \o Brief("streamer") \o <<Calls("engine")>> \o Log

Program(t) ==
  CASE Runs[t] = "refresh" -> Refresh
    [] Runs[t] = "netcheck" -> Netcheck
    [] Runs[t] = "packet" -> WakePacket
    [] Runs[t] = "asks" -> Authorized \o Status
    [] Runs[t] = "acts" -> Authorized \o Acts

---------------------------------------------------------------------------

Op(t) == Program(t)[at[t]]

Init ==
  /\ holder = [l \in Locks |-> Free]
  /\ at = [t \in Threads |-> 1]

On(t) == at' = [at EXCEPT ![t] = IF @ = Len(Program(t)) THEN 1 ELSE @ + 1]

Lock(t) ==
  /\ Op(t)[1] = "take" /\ holder[Op(t)[2]] = Free
  /\ holder' = [holder EXCEPT ![Op(t)[2]] = t]
  /\ On(t)

Unlock(t) ==
  /\ Op(t)[1] = "drop"
  /\ holder' = [holder EXCEPT ![Op(t)[2]] = Free]
  /\ On(t)

Work(t) ==
  /\ Op(t)[1] = "call"
  /\ On(t)
  /\ UNCHANGED holder

Next == \E t \in Threads : Lock(t) \/ Unlock(t) \/ Work(t)

Spec == Init /\ [][Next]_vars

---------------------------------------------------------------------------
(* Properties. *)

TypeOK ==
  /\ holder \in [Locks -> Threads \cup {Free}]
  /\ \A t \in Threads : at[t] \in 1..Len(Program(t))

WaitsFor(t) == IF Op(t)[1] = "take" THEN holder[Op(t)[2]] ELSE Free

\* No circle of threads that wait for each other, nor one that waits for
\* itself (the mutexes are not reentrant): the service keeps answering.
NoCircle ==
  \A some \in (SUBSET Threads) \ {{}} : \E t \in some : WaitsFor(t) \notin some

\* Nobody is made to wait for another machine's, or the engine's, answer: no
\* lock is held across a call that takes long.
NoLockAcrossCalls ==
  \A t \in Threads : Op(t)[1] = "call" => \A l \in Locks : holder[l] # t
=============================================================================
