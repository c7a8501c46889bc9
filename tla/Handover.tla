------------------------------ MODULE Handover ------------------------------
(***************************************************************************)
(* Installing a new host through the stream (client/src/handover.rs): a    *)
(* thread on the Mac fetches the release, binds its port, types one line   *)
(* on the PC and serves the script and the executable to that PC alone;    *)
(* the script on the PC (its text is in handover.rs) fetches, checks,      *)
(* stops the old service and swaps the file.  The window (app.rs) keeps    *)
(* one Handover, starts one from the toolbar of a stream, and looks after  *)
(* it on every pass of a stream's screen.                                  *)
(***************************************************************************)
EXTENDS Naturals, Sequences, FiniteSets

CONSTANTS PCs,        \* the PCs of the tailnet
          MaxStarts,  \* bound: installs asked for
          MaxFaults   \* bound: failed or cut-off steps

HandoverAssumption == {MaxStarts, MaxFaults} \subseteq Nat

VARIABLES
  live,     \* the PC streamed to, or "none"
  held,     \* the window's Handover: the number of its thread, 0 none
  threads,  \* the threads started: target, step, stop flag, phase
  script,   \* per PC: the step its script is at, and the thread it came from
  disk,     \* per PC: what is at the path, at .new and at .old
  service,  \* per PC: the version its service runs
  faults

vars == <<live, held, threads, script, disk, service, faults>>

Active == {"Preparing", "Serving", "Fetched"}
NoScript == [at |-> "none", from |-> 0]

Init ==
  /\ live = "none" /\ held = 0 /\ threads = <<>>
  /\ script = [p \in PCs |-> NoScript]
  /\ disk = [p \in PCs |-> [path |-> "old", new |-> "none", old |-> "none"]]
  /\ service = [p \in PCs |-> "old"]
  /\ faults = 0

Fault == faults < MaxFaults /\ faults' = faults + 1

\* The user streams to one PC or another; ending a stream leaves the Handover.
Stream ==
  /\ \/ live = "none" /\ live' \in PCs
     \/ live # "none" /\ live' = "none"
  /\ UNCHANGED <<held, threads, script, disk, service, faults>>

\* start_handover: a new thread; one held before is dropped, which stops it.
StartHandover ==
  /\ live # "none" /\ service[live] = "old" /\ Len(threads) < MaxStarts
  /\ threads' = Append([i \in DOMAIN threads |->
                          IF i = held THEN [threads[i] EXCEPT !.stop = TRUE] ELSE threads[i]],
                       [target |-> live, at |-> "fetch", stop |-> FALSE, phase |-> "Preparing"])
  /\ held' = Len(threads) + 1
  /\ UNCHANGED <<live, script, disk, service, faults>>

-----------------------------------------------------------------------------
(* The thread on the Mac: run().                                           *)

Thread(i, at, phase) == threads' = [threads EXCEPT ![i].at = at, ![i].phase = phase]

\* The executable comes from GitHub or the cache, or it does not.
Fetch(i) ==
  /\ threads[i].at = "fetch"
  /\ \/ Thread(i, "bind", "Preparing") /\ UNCHANGED faults
     \/ Thread(i, "over", "Failed") /\ Fault
  /\ UNCHANGED <<live, held, script, disk, service>>

\* The port is one for all: a thread that still serves has it.  Then the
\* stream must be connected still, for the line to be typed on.
Bind(i) ==
  /\ threads[i].at = "bind"
  /\ IF (\E j \in DOMAIN threads : threads[j].at = "serve") \/ live # threads[i].target
       THEN Thread(i, "over", "Failed")
     ELSE Thread(i, "serve", "Preparing")
  /\ UNCHANGED <<live, held, script, disk, service, faults>>

\* Win+R, the line and Return reach an unlocked desktop, or nothing does.
Type(i) ==
  /\ threads[i].at = "serve" /\ threads[i].phase = "Preparing"
  /\ Thread(i, "serve", "Serving")
  /\ LET p == threads[i].target IN
       script' = IF live = p /\ script[p].at = "none"
                   THEN [script EXCEPT ![p] = [at |-> "script", from |-> i]] ELSE script
  /\ UNCHANGED <<live, held, disk, service, faults>>

\* The server answers the one PC it was started for.
Answers(i, p) ==
  threads[i].at = "serve" /\ threads[i].phase # "Preparing" /\ threads[i].target = p

\* A stop, SERVE_FOR, or AFTER_FETCH once it was fetched, ends the serving;
\* the thread then says Ended unless the PC has the file.
Over(i) ==
  /\ threads[i].at = "serve" /\ threads[i].phase # "Preparing"
  /\ Thread(i, "over", IF threads[i].phase = "Fetched" THEN "Fetched" ELSE "Ended")
  /\ UNCHANGED <<live, held, script, disk, service, faults>>

-----------------------------------------------------------------------------
(* The script on the PC.                                                   *)

Goto(p, at) ==
  script' = [script EXCEPT ![p] = IF at = "none" THEN NoScript ELSE [@ EXCEPT !.at = at]]

\* irm of the script: it runs if the Mac answers.
GetScript(p) ==
  /\ script[p].at = "script"
  /\ Goto(p, IF \E i \in DOMAIN threads : Answers(i, p) THEN "download" ELSE "none")
  /\ UNCHANGED <<live, held, threads, disk, service, faults>>

\* The executable comes, whole or cut off; the Mac's side says Fetched when
\* it has written all of it.  Another PC that asks is refused.
Download(p) ==
  /\ script[p].at = "download"
  /\ \/ \E i \in DOMAIN threads :
          /\ Answers(i, p)
          /\ Thread(i, "serve", "Fetched")
          /\ \/ disk' = [disk EXCEPT ![p].new = "new"] /\ UNCHANGED faults
             \/ disk' = [disk EXCEPT ![p].new = "part"] /\ Fault
          /\ Goto(p, "hash")
     \/ /\ \A i \in DOMAIN threads : ~Answers(i, p)
        /\ Goto(p, "none") /\ UNCHANGED <<threads, disk, faults>>
  /\ UNCHANGED <<live, held, service>>

\* Get-FileHash against the sum in the script.
Hash(p) ==
  /\ script[p].at = "hash"
  /\ IF disk[p].new = "new" THEN Goto(p, "quit") /\ UNCHANGED disk
     ELSE Goto(p, "none") /\ disk' = [disk EXCEPT ![p].new = "none"]
  /\ UNCHANGED <<live, held, threads, service, faults>>

\* /v1/quit, then Stop-Process for one that did not go.
Quit(p) ==
  /\ script[p].at = "quit"
  /\ service' = [service EXCEPT ![p] = "none"] /\ Goto(p, "aside")
  /\ UNCHANGED <<live, held, threads, disk, faults>>

\* Move-Item of the old file aside; a failure stops the script.
Aside(p) ==
  /\ script[p].at = "aside"
  /\ \/ /\ disk' = IF disk[p].path = "none" THEN disk
                   ELSE [disk EXCEPT ![p].old = disk[p].path, ![p].path = "none"]
        /\ Goto(p, "in") /\ UNCHANGED faults
     \/ Fault /\ Goto(p, "none") /\ UNCHANGED disk
  /\ UNCHANGED <<live, held, threads, service>>

\* Move-Item of the new one in.  It may be torn away while it is moved (a
\* virus scanner that takes it), and the script stops.
MoveIn(p) ==
  /\ script[p].at = "in"
  /\ \/ /\ disk' = [disk EXCEPT ![p].path = disk[p].new, ![p].new = "none"]
        /\ Goto(p, "start") /\ UNCHANGED faults
     \/ Fault /\ Goto(p, "none") /\ disk' = [disk EXCEPT ![p].new = "none"]
  /\ UNCHANGED <<live, held, threads, service>>

\* The old file goes, the Run value is written, the new service starts.
Start(p) ==
  /\ script[p].at = "start"
  /\ disk' = [disk EXCEPT ![p].old = "none"]
  /\ service' = [service EXCEPT ![p] = disk[p].path] /\ Goto(p, "none")
  /\ UNCHANGED <<live, held, threads, faults>>

\* The PC restarts: its script is gone and the Run value starts what is at the path.
Restart(p) ==
  /\ Fault /\ Goto(p, "none")
  /\ service' = [service EXCEPT ![p] = disk[p].path]
  /\ UNCHANGED <<live, held, threads, disk>>

-----------------------------------------------------------------------------
(* The window.                                                             *)

\* tend_handover: the PC of this stream reports the version, or the install
\* gave up twenty seconds ago; either way the Handover is let go, and stops.
TendHandover ==
  /\ live # "none" /\ held # 0
  /\ \/ /\ threads[held].at # "fetch" /\ service[live] = "new"
        /\ held' = 0 /\ threads' = [threads EXCEPT ![held].stop = TRUE]
     \/ /\ threads[held].phase \notin Active /\ service[live] # "new"
        /\ held' = 0 /\ UNCHANGED threads
  /\ UNCHANGED <<live, script, disk, service, faults>>

Mac(i) == Fetch(i) \/ Bind(i) \/ Type(i) \/ Over(i)
PC(p) == GetScript(p) \/ Download(p) \/ Hash(p) \/ Quit(p) \/ Aside(p) \/ MoveIn(p) \/ Start(p)

Next == \/ Stream \/ StartHandover \/ TendHandover
        \/ \E i \in DOMAIN threads : Mac(i)
        \/ \E p \in PCs : PC(p) \/ Restart(p)

Spec == Init /\ [][Next]_vars

-----------------------------------------------------------------------------
(* Every part holds values of its kind; one thread at a time has the port. *)
TypeOK ==
  /\ live \in PCs \cup {"none"} /\ held \in 0..Len(threads)
  /\ \A i \in DOMAIN threads :
       /\ threads[i].target \in PCs /\ threads[i].stop \in BOOLEAN
       /\ threads[i].at \in {"fetch", "bind", "serve", "over"}
       /\ threads[i].phase \in Active \cup {"Failed", "Ended"}
  /\ Cardinality({i \in DOMAIN threads : threads[i].at = "serve"}) <= 1
  /\ \A p \in PCs : /\ service[p] \in {"none", "old", "new"}
                    /\ script[p].from \in 0..Len(threads)

(* script(): a PC nobody can walk up to always has a whole host somewhere  *)
(* in its folder, wherever the script is cut short or one of its moves     *)
(* fails.                                                                  *)
WholeHostSomewhere ==
  \A p \in PCs : {disk[p].path, disk[p].old, disk[p].new} \cap {"old", "new"} # {}

(* run(): only the PC the line was typed on gets the executable, and what  *)
(* its service then runs is never a file that came half.                   *)
OnlyItsPc ==
  \A p \in PCs : /\ disk[p].new # "none" => \E i \in DOMAIN threads : threads[i].target = p
                 /\ script[p].at \in {"quit", "aside", "in", "start"} => disk[p].new # "part"

=============================================================================
