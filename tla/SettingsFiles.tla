---------------------------- MODULE SettingsFiles ----------------------------
(***************************************************************************)
(* One settings file (core/config.rs): viewer.toml, whose preferences are  *)
(* the window's and whose PCs are the pairing's and discovery's; or        *)
(* host.toml, whose login setup writes beside the window's preferences.    *)
(* Threads of one process share CONFIG_LOCK; processes share the file      *)
(* alone.  A file is read, edited, written under a name of its own and     *)
(* renamed into place, and the process may be killed at any step.          *)
(***************************************************************************)
EXTENDS Naturals, FiniteSets

CONSTANTS Threads,    \* those of "window", "worker" and "setup" that run
          Kinds,      \* "viewer", "host": which of the files it is
          MaxEdits,   \* bound: preferences and keys that are set
          MaxFaults   \* bound: kills and damages

SettingsAssumption ==
  /\ Threads \subseteq {"window", "worker", "setup"} /\ Kinds \subseteq {"viewer", "host"}
  /\ MaxEdits \in Nat /\ MaxFaults \in Nat

ProcIds == {1, 2}
ProcOf(t) == IF t = "setup" THEN 2 ELSE 1    \* `--setup` is a process of its own
Free == "free"
Defaults == [pref |-> 0, key |-> 0]          \* no PC is paired; there is no login
Values == [pref : 0..MaxEdits, key : 0..MaxEdits]
File(is, v) == [is |-> is, has |-> v]
Missing == File("missing", Defaults)
Damaged == File("damaged", Defaults)

VARIABLES
  kind,    \* the file this is
  file,    \* what is under its name
  bad,     \* what became of the last damaged one: it is under .bad-…, or it is not
  lock,    \* per process: the thread that has CONFIG_LOCK
  at,      \* per thread: its step
  mine,    \* per thread: its copy of the settings
  next,    \* per thread: what it is about to rename into place
  set,     \* history: what was last set, and saved
  edits, faults

vars == <<kind, file, bad, lock, at, mine, next, set, edits, faults>>

Init ==
  /\ kind \in Kinds
  /\ file = Missing /\ bad = "none"
  /\ lock = [p \in ProcIds |-> Free]
  /\ at = [t \in Threads |-> "off"]
  /\ mine = [t \in Threads |-> Defaults] /\ next = [t \in Threads |-> Defaults]
  /\ set = Defaults /\ edits = 0 /\ faults = 0

Goto(t, step) == at' = [at EXCEPT ![t] = step]
Locks(t) == lock[ProcOf(t)] = Free /\ lock' = [lock EXCEPT ![ProcOf(t)] = t]
Unlocks(t) == lock' = [lock EXCEPT ![ProcOf(t)] = Free]
Fault == faults < MaxFaults /\ faults' = faults + 1

\* load_unlocked: a missing or damaged file reads as the defaults, ...
Read == IF file \in {Missing, Damaged} THEN Defaults ELSE file.has

\* ... and a damaged one is set aside first, or cannot be and stays.
PreservesDamaged ==
  \/ file # Damaged /\ UNCHANGED <<file, bad, faults>>
  \/ file = Damaged /\ file' = Missing /\ bad' = "kept" /\ UNCHANGED faults
  \/ file = Damaged /\ Fault /\ bad' = "lost" /\ UNCHANGED file

\* load(): the thread starts with a copy of the file.
Load(t) ==
  /\ at[t] = "off" /\ lock[ProcOf(t)] = Free
  /\ mine' = [mine EXCEPT ![t] = Read] /\ PreservesDamaged
  /\ Goto(t, "ready")
  /\ UNCHANGED <<kind, lock, next, set, edits>>

\* The user changes a preference in the window; the pairing gets a
\* certificate; setup, or the window's setup, makes a login when it knows none.
Edit(t) ==
  /\ at[t] = "ready" /\ edits < MaxEdits
  /\ LET n == edits + 1 IN
       /\ edits' = n
       /\ \/ t = "window" /\ mine' = [mine EXCEPT ![t].pref = n]
          \/ t = "worker" /\ kind = "viewer" /\ mine' = [mine EXCEPT ![t].key = n]
          \/ t \in {"window", "setup"} /\ kind = "host" /\ mine[t].key = 0
             /\ mine' = [mine EXCEPT ![t].key = n]
  /\ Goto(t, "edited")
  /\ UNCHANGED <<kind, file, bad, lock, next, set, faults>>

\* MUTANT: a save takes all of the thread's copy.
SavedWhole(t, disk) == mine[t]

\* What a save makes of the file it reads: apply_preferences keeps the PCs,
\* the pairing's edit is of one PC, and HostConfig::save overlays a login it has.
Saved(t, disk) ==
  IF kind = "host" THEN [pref |-> mine[t].pref,
                         key |-> IF mine[t].key # 0 THEN mine[t].key ELSE disk.key]
  ELSE IF t = "window" THEN [disk EXCEPT !.pref = mine[t].pref]
  ELSE [disk EXCEPT !.key = mine[t].key]

\* MUTANT: the file is read before the lock is taken.
UpdateUnlocked(t) ==
  /\ at[t] = "edited"
  /\ next' = [next EXCEPT ![t] = Saved(t, Read)] /\ PreservesDamaged
  /\ Goto(t, "write")
  /\ UNCHANGED <<kind, lock, mine, set, edits>>

\* update: under the lock, the file is read and edited.
Update(t) ==
  /\ at[t] = "edited" /\ Locks(t)
  /\ next' = [next EXCEPT ![t] = Saved(t, Read)] /\ PreservesDamaged
  /\ Goto(t, "write")
  /\ UNCHANGED <<kind, mine, set, edits>>

\* save_unlocked: a file of this process's own is written and synced, ...
Save(t) ==
  /\ at[t] = "write" /\ Goto(t, "rename")
  /\ UNCHANGED <<kind, file, bad, lock, mine, next, set, edits, faults>>

\* ... and renamed.  The window takes what the file then holds.
Rename(t) ==
  /\ at[t] = "rename" /\ Unlocks(t)
  /\ file' = File("whole", next[t])
  /\ set' = [pref |-> IF t = "worker" THEN set.pref ELSE mine[t].pref,
             key |-> IF t = "window" /\ (kind = "viewer" \/ mine[t].key = 0)
                       THEN set.key ELSE mine[t].key]
  /\ mine' = IF kind = "viewer" /\ t = "window" THEN [mine EXCEPT ![t] = next[t]] ELSE mine
  /\ Goto(t, "ready")
  /\ UNCHANGED <<kind, bad, next, edits, faults>>

\* The write fails: the temporary file goes, the file stays.
Fails(t) ==
  /\ at[t] \in {"write", "rename"} /\ Fault /\ Unlocks(t) /\ Goto(t, "ready")
  /\ UNCHANGED <<kind, file, bad, mine, next, set, edits>>

\* A process ends, at any step, and starts again.
Kill(p) ==
  /\ Fault
  /\ at' = [t \in Threads |-> IF ProcOf(t) = p THEN "off" ELSE at[t]]
  /\ lock' = [lock EXCEPT ![p] = Free]
  /\ UNCHANGED <<kind, file, bad, mine, next, set, edits>>

\* The file is damaged from outside: by hand, or by a disk.  (A save that is
\* under way replaces it with what it read before.)
Damage ==
  /\ \A t \in Threads : at[t] \notin {"write", "rename"}
  /\ Fault /\ file \notin {Missing, Damaged} /\ file' = Damaged
  /\ bad' = "none" /\ set' = Defaults
  /\ UNCHANGED <<kind, lock, at, mine, next, edits>>

Step(t) == Load(t) \/ Edit(t) \/ Update(t) \/ Save(t) \/ Rename(t) \/ Fails(t)

Next == \/ Damage
        \/ \E p \in ProcIds : Kill(p)
        \/ \E t \in Threads : Step(t)

Spec == Init /\ [][Next]_vars

-----------------------------------------------------------------------------
(* Every part holds values of its kind, and a thread of a process has its  *)
(* lock exactly while it saves.                                            *)
TypeOK ==
  /\ kind \in Kinds /\ bad \in {"none", "kept", "lost"}
  /\ file \in {Missing, Damaged} \/ file \in [is : {"whole"}, has : Values]
  /\ mine \in [Threads -> Values] /\ next \in [Threads -> Values] /\ set \in Values
  /\ \A t \in Threads : (at[t] \in {"write", "rename"}) = (lock[ProcOf(t)] = t)

(* save_unlocked writes beside the file and renames: only what comes from  *)
(* outside damages it, never a kill in the middle of a save.               *)
Unharmed == file = Damaged => faults > 0 /\ set = Defaults

(* update and apply_preferences: what one thread saved, a pairing or a     *)
(* preference, another thread's save of an older copy of the settings      *)
(* leaves as it is ("never revive a revoked pin").                         *)
NothingUnset ==
  file' # file /\ file.is = "whole" /\ file'.is = "whole" => file'.has = set'

(* load_unlocked: a damaged file goes only to be kept beside the new one,  *)
(* by whichever thread or process reads it first, unless setting it aside  *)
(* has failed.                                                             *)
DamagedIsKept == file = Damaged /\ file' # Damaged => bad' = "kept" \/ bad = "lost"

=============================================================================
