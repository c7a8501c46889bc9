------------------------------ MODULE PcProofs ------------------------------
(***************************************************************************)
(* Proofs about the parts of a PC that PcParts puts into one run: its      *)
(* settings and logs, its window, the care and the setup of its engine,    *)
(* each for any bounds.  A part is an instance of its module in PcParts;   *)
(* what is proved of it first is about that instance alone, and the last   *)
(* section puts the parts together.                                        *)
(***************************************************************************)
EXTENDS PcParts, Integers, Sequences, FiniteSets, FiniteSetTheorems, TLAPS

-----------------------------------------------------------------------------
(* A settings file.                                                        *)

\* SettingsFiles' variables.
kind == v1
file == v2
bad == v3
lock == v4
at == v5
mine == v6
renaming == v7
lastSet == v8
edits == v9
faults == v10
USE DEF kind, file, bad, lock, at, mine, renaming, lastSet, edits, faults

SettingsSteps == {"off", "ready", "edited", "write", "rename"}
Saves(t) == at[t] \in {"write", "rename"}

Fates == {"none", "kept", "lost"}
SettingsTypes ==
  /\ kind \in Kinds /\ bad \in Fates /\ edits \in 0..MaxEdits /\ faults \in Nat
  /\ file \in {Settings!Missing, Settings!Damaged}
     \/ file \in [is : {"whole"}, has : Settings!Values]
  /\ lock \in [Settings!ProcIds -> Threads \cup {Settings!Free}]
  /\ at \in [Threads -> SettingsSteps]
  /\ mine \in [Threads -> Settings!Values] /\ renaming \in [Threads -> Settings!Values]
  /\ lastSet \in Settings!Values

\* Whoever saves has the lock of its process, and no damaged file before it,
\* unless that could not be set aside.
LocksHeld ==
  /\ \A t \in Threads : Saves(t) <=> lock[Settings!ProcOf(t)] = t
  /\ \A t \in Threads : Saves(t) => file # Settings!Damaged \/ bad = "lost"
  /\ file = Settings!Damaged => faults > 0 /\ lastSet = Settings!Defaults

SettingsInv == SettingsTypes /\ LocksHeld

\* What the file reads as is what was last set, and what a save is about to
\* put there is that with this thread's own change.
SetOnDisk ==
  /\ Settings!Read = lastSet
  /\ \A t \in Threads : Saves(t) => renaming[t] = Settings!Saved(t, lastSet)
  /\ \A t \in Threads : at[t] \in {"edited", "write", "rename"} =>
       t = "window" \/ kind = "viewer"

LEMMA SettingsValues ==
  ASSUME Settings!SettingsAssumption
  PROVE  /\ Settings!Free \notin Threads
         /\ \A t \in Threads : Settings!ProcOf(t) \in Settings!ProcIds
         /\ Settings!Defaults \in Settings!Values /\ Settings!Missing # Settings!Damaged
         /\ \A f \in [is : {"whole"}, has : Settings!Values] :
            f \notin {Settings!Missing, Settings!Damaged} /\ f.has \in Settings!Values
         /\ \A v \in Settings!Values :
            Settings!File("whole", v) \in [is : {"whole"}, has : Settings!Values]
              /\ Settings!File("whole", v).has = v
BY DEF Settings!SettingsAssumption, Settings!Free, Settings!ProcOf, Settings!ProcIds,
       Settings!Defaults, Settings!Values, Settings!Missing, Settings!Damaged, Settings!File

LEMMA SettingsInit == Settings!SettingsAssumption /\ Settings!Init => SettingsInv /\ SetOnDisk
<1> SUFFICES ASSUME Settings!SettingsAssumption, Settings!Init PROVE SettingsInv /\ SetOnDisk
  OBVIOUS
<1>1. SettingsTypes
  <2>1. lock \in [Settings!ProcIds -> Threads \cup {Settings!Free}]
        /\ at \in [Threads -> SettingsSteps]
    BY SettingsValues DEF Settings!Init, SettingsSteps
  <2>2. mine \in [Threads -> Settings!Values] /\ renaming \in [Threads -> Settings!Values]
        /\ lastSet \in Settings!Values
    BY SettingsValues DEF Settings!Init
  <2>3. kind \in Kinds /\ bad \in Fates /\ edits \in 0..MaxEdits /\ faults \in Nat
        /\ file = Settings!Missing
    <3>1. kind \in Kinds /\ file = Settings!Missing /\ bad = "none" /\ edits = 0 /\ faults = 0
      BY DEF Settings!Init
    <3>2. MaxEdits \in Nat
      BY DEF Settings!SettingsAssumption
    <3>3. bad \in Fates
      BY <3>1 DEF Fates
    <3>4. edits \in 0..MaxEdits /\ faults \in Nat
      BY <3>1, <3>2
    <3>5. QED
      BY <3>1, <3>3, <3>4
  <2>4. QED
    BY <2>1, <2>2, <2>3 DEF SettingsTypes
<1>2. QED
  BY <1>1, SettingsValues DEF Settings!Init, SettingsInv, LocksHeld, SetOnDisk, Saves, Settings!Read

LEMMA SettingsTyped ==
  ASSUME Settings!SettingsAssumption, SettingsInv, [Settings!Next]_Settings!vars
  PROVE  SettingsTypes'
<1> USE SettingsValues DEF SettingsInv
<1>0. Settings!Read \in Settings!Values /\ (Settings!PreservesDamaged =>
        /\ bad' \in Fates /\ faults' \in Nat
        /\ file' \in {Settings!Missing, Settings!Damaged}
           \/ file' \in [is : {"whole"}, has : Settings!Values])
  BY DEF Settings!Read, SettingsTypes, Settings!PreservesDamaged, Settings!Fault, Fates
<1>1. CASE UNCHANGED Settings!vars
  BY <1>1 DEF Settings!vars, SettingsTypes
<1>2. ASSUME NEW t \in Threads, Settings!Step(t) PROVE SettingsTypes'
  <2>1. CASE Settings!Load(t)
    BY <1>0, <2>1 DEF Settings!Load, Settings!Goto, SettingsTypes, SettingsSteps
  <2>2. CASE Settings!Edit(t)
    <3>1. edits + 1 \in 0..MaxEdits /\ mine[t] \in Settings!Values
      BY <2>2 DEF Settings!Edit, SettingsTypes, Settings!SettingsAssumption
    <3>2. \A n \in 0..MaxEdits :
            /\ [mine[t] EXCEPT !.pref = n] \in Settings!Values
            /\ [mine[t] EXCEPT !.key = n] \in Settings!Values
      BY <3>1 DEF Settings!Values
    <3>3. mine' \in [Threads -> Settings!Values]
      <4>1. \E v \in Settings!Values : mine' = [mine EXCEPT ![t] = v]
        <5>1. \/ mine' = [mine EXCEPT ![t] = [mine[t] EXCEPT !.pref = edits + 1]]
              \/ mine' = [mine EXCEPT ![t] = [mine[t] EXCEPT !.key = edits + 1]]
          BY <2>2 DEF Settings!Edit
        <5>2. QED
          BY <3>1, <3>2, <5>1
      <4>2. QED
        BY <4>1 DEF SettingsTypes
    <3>4. QED
      BY <2>2, <3>1, <3>3 DEF Settings!Edit, Settings!Goto, SettingsTypes, SettingsSteps
  <2>3. CASE Settings!Update(t)
    <3>1. \A d \in Settings!Values : Settings!Saved(t, d) \in Settings!Values
      <4> TAKE d \in Settings!Values
      <4>1. mine[t] \in Settings!Values
        BY DEF SettingsTypes
      <4>2. QED
        BY <4>1 DEF Settings!Saved, Settings!Values
    <3>2. renaming' \in [Threads -> Settings!Values]
      BY <1>0, <2>3, <3>1 DEF Settings!Update, SettingsTypes
    <3>3. lock' \in [Settings!ProcIds -> Threads \cup {Settings!Free}]
      BY <2>3 DEF Settings!Update, Settings!Locks, SettingsTypes
    <3>4. QED
      BY <1>0, <2>3, <3>2, <3>3 DEF Settings!Update, Settings!Goto, SettingsTypes, SettingsSteps
  <2>4. CASE Settings!Save(t)
    BY <2>4 DEF Settings!Save, Settings!Goto, SettingsTypes, SettingsSteps
  <2>5. CASE Settings!Rename(t)
    <3>1. mine[t] \in Settings!Values /\ renaming[t] \in Settings!Values
          /\ lastSet \in Settings!Values
      BY DEF SettingsTypes
    <3>2. lastSet' \in Settings!Values
      BY <2>5, <3>1 DEF Settings!Rename, Settings!Values
    <3>3. mine' \in [Threads -> Settings!Values]
      BY <2>5, <3>1 DEF Settings!Rename, SettingsTypes
    <3>4. file' \in [is : {"whole"}, has : Settings!Values]
      BY <2>5, <3>1 DEF Settings!Rename, Settings!File
    <3>5. lock' \in [Settings!ProcIds -> Threads \cup {Settings!Free}]
      BY <2>5 DEF Settings!Rename, Settings!Unlocks, SettingsTypes
    <3>6. QED
      BY <2>5, <3>2, <3>3, <3>4, <3>5
         DEF Settings!Rename, Settings!Goto, SettingsTypes, SettingsSteps
  <2>6. CASE Settings!Fails(t)
    BY <2>6
       DEF Settings!Fails, Settings!Fault, Settings!Unlocks, Settings!Goto, SettingsTypes,
           SettingsSteps
  <2>7. QED
    BY <1>2, <2>1, <2>2, <2>3, <2>4, <2>5, <2>6 DEF Settings!Step
<1>3. CASE Settings!Damage
  <2>1. file' = Settings!Damaged /\ bad' \in Fates /\ lastSet' \in Settings!Values
        /\ faults' \in Nat
    BY <1>3, SettingsValues DEF Settings!Damage, Settings!Fault, SettingsTypes, Fates
  <2>2. QED
    BY <1>3, <2>1 DEF Settings!Damage, SettingsTypes
<1>4. ASSUME NEW p \in Settings!ProcIds, Settings!Kill(p) PROVE SettingsTypes'
  BY <1>4 DEF Settings!Kill, Settings!Fault, SettingsTypes, SettingsSteps
<1>5. QED
  BY <1>1, <1>2, <1>3, <1>4 DEF Settings!Next

LEMMA SettingsNext ==
  ASSUME Settings!SettingsAssumption, SettingsInv, [Settings!Next]_Settings!vars
  PROVE  SettingsInv'
<1> USE SettingsValues DEF SettingsInv
<1>0. SettingsTypes'
  BY SettingsTyped
<1>1. CASE UNCHANGED Settings!vars
  BY <1>0, <1>1 DEF Settings!vars, LocksHeld, Saves
<1>2. ASSUME NEW t \in Threads, Settings!Step(t) PROVE LocksHeld'
  <2>0. Settings!PreservesDamaged
        => /\ file' # Settings!Damaged \/ bad' = "lost"
           /\ (file' = file \/ file = Settings!Damaged)
           /\ file # Settings!Damaged => file' # Settings!Damaged /\ bad' = bad
           /\ faults' \in Nat /\ faults' >= faults
    BY DEF Settings!PreservesDamaged, Settings!Fault, SettingsTypes
  <2>1. CASE Settings!Load(t)
    <3>1. at' = [at EXCEPT ![t] = "ready"] /\ lock' = lock /\ lastSet' = lastSet
          /\ ~Saves(t) /\ Settings!PreservesDamaged
      BY <2>1 DEF Settings!Load, Settings!Goto, Saves
    <3>2. \A u \in Threads : Saves(u)' <=> Saves(u)
      BY <3>1 DEF Saves, SettingsTypes
    <3>3. QED
      BY <2>0, <3>1, <3>2 DEF LocksHeld, SettingsTypes
  <2>2. CASE Settings!Edit(t)
    <3>1. at' = [at EXCEPT ![t] = "edited"] /\ UNCHANGED <<lock, file, bad, lastSet, faults>>
          /\ ~Saves(t)
      BY <2>2 DEF Settings!Edit, Settings!Goto, Saves
    <3>2. \A u \in Threads : Saves(u)' <=> Saves(u)
      BY <3>1 DEF Saves, SettingsTypes
    <3>3. QED
      BY <3>1, <3>2 DEF LocksHeld
  <2>3. CASE Settings!Update(t)
    <3>1. /\ at' = [at EXCEPT ![t] = "write"] /\ lock[Settings!ProcOf(t)] = Settings!Free
          /\ lock' = [lock EXCEPT ![Settings!ProcOf(t)] = t] /\ lastSet' = lastSet
          /\ file' # Settings!Damaged \/ bad' = "lost"
          /\ Settings!PreservesDamaged
      BY <2>3 DEF Settings!Update, Settings!Goto, Settings!Locks, Settings!PreservesDamaged
    <3>2. Saves(t)' /\ lock'[Settings!ProcOf(t)] = t
      BY <3>1 DEF Saves, SettingsTypes
    <3>3. \A u \in Threads \ {t} : Saves(u)' <=> Saves(u)
      BY <3>1 DEF Saves, SettingsTypes
    <3>4. \A u \in Threads \ {t} : lock'[Settings!ProcOf(u)] = u <=> lock[Settings!ProcOf(u)] = u
      BY <3>1 DEF SettingsTypes
    <3>5. QED
      BY <2>0, <3>1, <3>2, <3>3, <3>4 DEF LocksHeld, SettingsTypes
  <2>4. CASE Settings!Save(t)
    <3>1. /\ at' = [at EXCEPT ![t] = "rename"] /\ Saves(t)
          /\ UNCHANGED <<lock, file, bad, lastSet, faults>>
      BY <2>4 DEF Settings!Save, Settings!Goto, Saves
    <3>2. \A u \in Threads : Saves(u)' <=> Saves(u)
      BY <3>1 DEF Saves, SettingsTypes
    <3>3. QED
      BY <3>1, <3>2 DEF LocksHeld
  <2>5. CASE Settings!Rename(t) \/ Settings!Fails(t)
    <3>1. /\ at' = [at EXCEPT ![t] = "ready"] /\ Saves(t)
          /\ lock' = [lock EXCEPT ![Settings!ProcOf(t)] = Settings!Free] /\ bad' = bad
      BY <2>5 DEF Settings!Rename, Settings!Fails, Settings!Goto, Settings!Unlocks, Saves
    <3>2. /\ file' = Settings!Damaged => faults' > 0 /\ lastSet' = Settings!Defaults
          /\ file' # Settings!Damaged \/ bad' = "lost"
      <4>1. CASE Settings!Rename(t)
        BY <4>1 DEF Settings!Rename, Settings!File, Settings!Damaged
      <4>2. CASE Settings!Fails(t)
        BY <3>1, <4>2 DEF Settings!Fails, Settings!Fault, LocksHeld, SettingsTypes
      <4>3. QED
        BY <2>5, <4>1, <4>2
    <3>3. ~Saves(t)' /\ lock'[Settings!ProcOf(t)] # t
      BY <3>1 DEF Saves, SettingsTypes
    <3>4. \A u \in Threads \ {t} : Saves(u)' <=> Saves(u)
      BY <3>1 DEF Saves, SettingsTypes
    <3>5. lock[Settings!ProcOf(t)] = t
      BY <3>1 DEF LocksHeld
    <3>6. \A u \in Threads \ {t} : lock'[Settings!ProcOf(u)] = u <=> lock[Settings!ProcOf(u)] = u
      BY <3>1, <3>5 DEF SettingsTypes
    <3>7. QED
      BY <3>2, <3>3, <3>4, <3>6 DEF LocksHeld
  <2>6. QED
    BY <1>2, <2>1, <2>2, <2>3, <2>4, <2>5 DEF Settings!Step
<1>3. ASSUME Settings!Damage PROVE LocksHeld'
  <2>1. /\ \A u \in Threads : ~Saves(u) /\ ~Saves(u)'
        /\ faults' = faults + 1 /\ lastSet' = Settings!Defaults /\ lock' = lock
    BY <1>3 DEF Settings!Damage, Settings!Fault, Saves
  <2>2. faults' > 0
    BY <2>1 DEF SettingsTypes
  <2>3. QED
    BY <2>1, <2>2 DEF LocksHeld
<1>4. ASSUME NEW p \in Settings!ProcIds, Settings!Kill(p) PROVE LocksHeld'
  <2>1. /\ at' = [t \in Threads |-> IF Settings!ProcOf(t) = p THEN "off" ELSE at[t]]
        /\ lock' = [lock EXCEPT ![p] = Settings!Free] /\ faults' = faults + 1
        /\ UNCHANGED <<file, bad, lastSet>>
    BY <1>4 DEF Settings!Kill, Settings!Fault
  <2>2. \A u \in Threads : Settings!ProcOf(u) = p => ~Saves(u)' /\ lock'[Settings!ProcOf(u)] # u
    BY <2>1 DEF Saves, SettingsTypes
  <2>3. \A u \in Threads : Settings!ProcOf(u) # p
        => Saves(u)' <=> Saves(u) /\ lock'[Settings!ProcOf(u)] = lock[Settings!ProcOf(u)]
    BY <2>1 DEF Saves, SettingsTypes
  <2>4. file' = Settings!Damaged => faults' > 0 /\ lastSet' = Settings!Defaults
    BY <2>1 DEF LocksHeld, SettingsTypes
  <2>5. QED
    BY <2>1, <2>2, <2>3, <2>4 DEF LocksHeld
<1>5. QED
  BY <1>0, <1>1, <1>2, <1>3, <1>4 DEF Settings!Next

LEMMA SetOnDiskNext ==
  ASSUME Settings!SettingsAssumption, "setup" \notin Threads, SettingsInv, SetOnDisk,
         [Settings!Next]_Settings!vars
  PROVE  SetOnDisk'
<1> USE SettingsValues DEF SettingsInv
<1>0. \A t, u \in Threads : Settings!ProcOf(t) = Settings!ProcOf(u)
  BY DEF Settings!ProcOf
<1>1. CASE UNCHANGED Settings!vars
  BY <1>1 DEF Settings!vars, SetOnDisk, Saves, Settings!Saved, Settings!Read
<1>2. ASSUME NEW t \in Threads, Settings!Step(t) PROVE SetOnDisk'
  <2>0. Settings!PreservesDamaged => Settings!Read' = Settings!Read
    BY DEF Settings!PreservesDamaged, Settings!Read
  <2>1. CASE Settings!Load(t)
    <3>1. \A u \in Threads : ~Saves(u)
      BY <1>0, <2>1 DEF Settings!Load, LocksHeld
    <3>2. /\ Settings!Read' = lastSet /\ lastSet' = lastSet /\ kind' = kind
          /\ at' = [at EXCEPT ![t] = "ready"]
      BY <2>0, <2>1 DEF Settings!Load, Settings!Goto, SetOnDisk
    <3>3. \A u \in Threads : at'[u] \in {"edited", "write", "rename"} => at[u] = at'[u]
      BY <3>2 DEF SettingsTypes
    <3>4. QED
      BY <3>1, <3>2, <3>3 DEF SetOnDisk, Saves
  <2>2. CASE Settings!Edit(t)
    <3>1. /\ UNCHANGED <<kind, file, renaming, lastSet>> /\ at' = [at EXCEPT ![t] = "edited"]
          /\ \A u \in Threads \ {t} : mine'[u] = mine[u] /\ at'[u] = at[u]
          /\ at'[t] = "edited" /\ (t = "window" \/ kind = "viewer")
      BY <2>2 DEF Settings!Edit, Settings!Goto, SettingsTypes
    <3>2. Settings!Read' = Settings!Read
          /\ \A u \in Threads \ {t} : Settings!Saved(u, lastSet)' = Settings!Saved(u, lastSet)
      BY <3>1 DEF Settings!Read, Settings!Saved
    <3>3. \A u \in Threads : Saves(u)' => u # t /\ Saves(u)
      BY <3>1 DEF Saves
    <3>4. QED
      BY <3>1, <3>2, <3>3 DEF SetOnDisk
  <2>3. CASE Settings!Update(t)
    <3>1. \A u \in Threads : ~Saves(u)
      BY <1>0, <2>3 DEF Settings!Update, Settings!Locks, LocksHeld
    <3>2. /\ UNCHANGED <<kind, mine, lastSet>> /\ at' = [at EXCEPT ![t] = "write"]
          /\ Settings!Read' = Settings!Read
          /\ renaming' = [renaming EXCEPT ![t] = Settings!Saved(t, Settings!Read)]
          /\ at[t] = "edited"
      BY <2>0, <2>3 DEF Settings!Update, Settings!Goto
    <3>3. \A u \in Threads : Saves(u)' => u = t
      BY <3>1, <3>2 DEF Saves, SettingsTypes
    <3>4. renaming'[t] = Settings!Saved(t, lastSet)
          /\ \A u \in Threads : Settings!Saved(u, lastSet)' = Settings!Saved(u, lastSet)
      BY <3>2 DEF Settings!Saved, SetOnDisk, SettingsTypes
    <3>5. \A u \in Threads : at'[u] \in {"edited", "write", "rename"} =>
            at[u] \in {"edited", "write", "rename"}
      BY <3>2 DEF SettingsTypes
    <3>6. QED
      BY <3>2, <3>3, <3>4, <3>5 DEF SetOnDisk
  <2>4. CASE Settings!Save(t)
    <3>1. UNCHANGED <<kind, mine, lastSet, renaming, file>> /\ at' = [at EXCEPT ![t] = "rename"]
          /\ at[t] = "write"
      BY <2>4 DEF Settings!Save, Settings!Goto
    <3>2. Settings!Read' = Settings!Read
          /\ \A u \in Threads : Settings!Saved(u, lastSet)' = Settings!Saved(u, lastSet)
      BY <3>1 DEF Settings!Read, Settings!Saved
    <3>3. \A u \in Threads : /\ (Saves(u)' <=> Saves(u))
                             /\ at'[u] \in {"edited", "write", "rename"} =>
                                  at[u] \in {"edited", "write", "rename"}
      BY <3>1 DEF Saves, SettingsTypes
    <3>4. QED
      BY <3>1, <3>2, <3>3 DEF SetOnDisk
  <2>5. CASE Settings!Rename(t) \/ Settings!Fails(t)
    <3>1. at' = [at EXCEPT ![t] = "ready"] /\ Saves(t) /\ kind' = kind
      BY <2>5 DEF Settings!Rename, Settings!Fails, Settings!Goto, Saves
    <3>2. \A u \in Threads : ~Saves(u)'
      <4>1. lock[Settings!ProcOf(t)] = t
        BY <3>1 DEF LocksHeld
      <4>2. \A u \in Threads \ {t} : ~Saves(u)
        BY <1>0, <4>1 DEF LocksHeld
      <4>3. QED
        BY <3>1, <4>2 DEF Saves, SettingsTypes
    <3>3. \A u \in Threads : at'[u] \in {"edited", "write", "rename"} => at[u] = at'[u]
      BY <3>1 DEF SettingsTypes
    <3>4. Settings!Read' = lastSet'
      <4>1. CASE Settings!Fails(t)
        BY <4>1 DEF Settings!Fails, Settings!Read, SetOnDisk
      <4>2. CASE Settings!Rename(t)
        <5>1. /\ renaming[t] = Settings!Saved(t, lastSet) /\ (t = "window" \/ kind = "viewer")
              /\ Settings!Read' = renaming[t]
              /\ lastSet' = [pref |-> IF t = "worker" THEN lastSet.pref ELSE mine[t].pref,
                         key |-> IF t = "window" /\ (kind = "viewer" \/ mine[t].key = 0)
                                   THEN lastSet.key ELSE mine[t].key]
          <6>1. renaming[t] \in Settings!Values /\ file' = Settings!File("whole", renaming[t])
            BY <4>2 DEF Settings!Rename, SettingsTypes
          <6>2. Settings!Read' = renaming[t]
            BY <6>1 DEF Settings!Read
          <6>3. renaming[t] = Settings!Saved(t, lastSet) /\ (t = "window" \/ kind = "viewer")
            BY <3>1 DEF SetOnDisk, Saves
          <6>4. QED
            BY <4>2, <6>2, <6>3 DEF Settings!Rename
        <5>2. t \in {"window", "worker"} /\ kind \in {"viewer", "host"}
          BY DEF Settings!SettingsAssumption, SettingsTypes
        <5>3. \A v \in Settings!Values :
              /\ [v EXCEPT !.pref = mine[t].pref] = [pref |-> mine[t].pref, key |-> v.key]
              /\ [v EXCEPT !.key = mine[t].key] = [pref |-> v.pref, key |-> mine[t].key]
          BY DEF Settings!Values
        <5>4. lastSet \in Settings!Values
          BY DEF SettingsTypes
        <5>5. Settings!Saved(t, lastSet) = [pref |-> IF t = "worker" THEN lastSet.pref
              ELSE mine[t].pref,
                         key |-> IF t = "window" /\ (kind = "viewer" \/ mine[t].key = 0)
                                   THEN lastSet.key ELSE mine[t].key]
          BY <5>1, <5>2, <5>3, <5>4 DEF Settings!Saved
        <5>6. QED
          BY <5>1, <5>5
      <4>3. QED
        BY <2>5, <4>1, <4>2
    <3>5. QED
      BY <3>1, <3>2, <3>3, <3>4 DEF SetOnDisk
  <2>6. QED
    BY <1>2, <2>1, <2>2, <2>3, <2>4, <2>5 DEF Settings!Step
<1>3. ASSUME Settings!Damage PROVE SetOnDisk'
  <2>1. /\ \A u \in Threads : ~Saves(u) /\ ~Saves(u)' /\ at'[u] = at[u]
        /\ kind' = kind /\ lastSet' = Settings!Defaults /\ file' = Settings!Damaged
    BY <1>3 DEF Settings!Damage, Saves
  <2>2. QED
    BY <2>1 DEF SetOnDisk, Settings!Read
<1>4. ASSUME NEW p \in Settings!ProcIds, Settings!Kill(p) PROVE SetOnDisk'
  <2>1. /\ at' = [t \in Threads |-> IF Settings!ProcOf(t) = p THEN "off" ELSE at[t]]
        /\ UNCHANGED <<file, lastSet, kind, mine, renaming>>
    BY <1>4 DEF Settings!Kill
  <2>2. \A u \in Threads : at'[u] \in {"edited", "write", "rename"} => at'[u] = at[u]
    BY <2>1
  <2>3. \A u \in Threads : (Saves(u)' => Saves(u))
        /\ Settings!Saved(u, lastSet)' = Settings!Saved(u, lastSet)
    BY <2>1, <2>2 DEF Saves, Settings!Saved
  <2>4. QED
    BY <2>1, <2>2, <2>3 DEF SetOnDisk, Settings!Read
<1>5. QED
  BY <1>1, <1>2, <1>3, <1>4 DEF Settings!Next

LEMMA SettingsMeans == Settings!SettingsAssumption /\ SettingsInv
  => Settings!TypeOK /\ Settings!Unharmed
BY DEF SettingsInv, SettingsTypes, Fates, LocksHeld, Saves, Settings!TypeOK, Settings!Unharmed

LEMMA SettingsKept ==
  ASSUME Settings!SettingsAssumption, SettingsInv, [Settings!Next]_Settings!vars
  PROVE  Settings!DamagedIsKept
<1>1. SUFFICES ASSUME file = Settings!Damaged, file' # Settings!Damaged
      PROVE  bad' = "kept" \/ bad = "lost"
  BY DEF Settings!DamagedIsKept
<1>2. (\A t \in Threads : ~Saves(t)) \/ bad = "lost"
  BY <1>1 DEF SettingsInv, LocksHeld
<1>3. QED
  BY <1>1, <1>2
     DEF Settings!Next, Settings!vars, Settings!Step, Settings!Load, Settings!Edit,
         Settings!Update, Settings!Save, Settings!Rename, Settings!Fails, Settings!Damage,
         Settings!Kill, Settings!PreservesDamaged, Saves

LEMMA SettingsSet ==
  ASSUME Settings!SettingsAssumption, SettingsInv, SetOnDisk'
  PROVE  Settings!NothingUnset
BY SettingsValues
   DEF Settings!NothingUnset, SetOnDisk, Settings!Read, Settings!File, Settings!Missing,
       Settings!Damaged

\* For any threads, edits and faults: only what comes from outside damages the
\* settings file, never a save that is killed, and a damaged file is kept
\* beside the one that takes its place, unless it could not be set aside
\* (save_unlocked, load_unlocked).
THEOREM SettingsStayWhole ==
  ASSUME Settings!SettingsAssumption
  PROVE  Settings!Spec
         => [](Settings!TypeOK /\ Settings!Unharmed) /\ [][Settings!DamagedIsKept]_Settings!vars
<1>1. Settings!Init => SettingsInv
  BY SettingsInit
<1>2. SettingsInv /\ [Settings!Next]_Settings!vars => SettingsInv' /\ Settings!DamagedIsKept
  BY SettingsNext, SettingsKept
<1>3. SettingsInv => Settings!TypeOK /\ Settings!Unharmed
  BY SettingsMeans
<1>4. QED
  BY <1>1, <1>2, <1>3, PTL DEF Settings!Spec

\* What is saved has all that the threads of the process have set: no save of
\* an older copy takes any of it back (update, apply_preferences).
THEOREM SettingsAreSet ==
  ASSUME Settings!SettingsAssumption, "setup" \notin Threads
  PROVE  Settings!Spec => [][Settings!NothingUnset]_Settings!vars
<1>1. Settings!Init => SettingsInv /\ SetOnDisk
  BY SettingsInit
<1>2. SettingsInv /\ SetOnDisk /\ [Settings!Next]_Settings!vars
      => SettingsInv' /\ SetOnDisk' /\ Settings!NothingUnset
  BY SettingsNext, SetOnDiskNext, SettingsSet
<1>3. QED
  BY <1>1, <1>2, PTL DEF Settings!Spec

-----------------------------------------------------------------------------
(* A log that rolls over.                                                  *)

\* LogFile's variables.
data == v1
live == v2
prev == v3
logOf == v4
written == v5
lines == v6
logFaults == v7
USE DEF data, live, prev, logOf, written, lines, logFaults

\* The lines of a file are those written from one number on.
RunFrom(s, n) == \A k \in 1..Len(s) : s[k] = n + k

\* What the log holds is the end of what was written; when that is less than
\* a file's worth, what came before is in `.1`, which has as much.
LogTypes ==
  /\ lines \in 0..MaxLines /\ logFaults \in Nat
  /\ live \in Log!Inodes \cup {Log!None} /\ prev \in Log!Inodes \cup {Log!None}
  /\ data \in [Log!Inodes -> Seq(1..MaxLines)]
  /\ logOf \in [Writers -> Log!Inodes \cup {Log!None}] /\ written \in [Writers -> Nat]

LogInv ==
  /\ LogTypes
  /\ prev # Log!None => prev # live
  /\ live = Log!None => lines = 0 /\ prev = Log!None
  /\ \A w \in Writers : logOf[w] # Log!None => logOf[w] = live /\ written[w] = Len(data[live])
  /\ live # Log!None =>
       /\ Len(data[live]) <= lines
       /\ RunFrom(data[live], lines - Len(data[live]))
       /\ logFaults = 0 => Len(data[live]) <= MaxBytes
       /\ Len(data[live]) >= MaxBytes \/ prev # Log!None \/ Len(data[live]) = lines
  /\ prev # Log!None =>
       /\ Len(data[prev]) >= MaxBytes
       /\ Len(data[prev]) <= lines - Len(data[live])
       /\ RunFrom(data[prev], lines - Len(data[live]) - Len(data[prev]))
       /\ logFaults = 0 => Len(data[prev]) <= MaxBytes

OneWriter == \E me \in Writers : Writers = {me}

\* LogFile's instance counts with a FiniteSets of its own.
LEMMA SameCounting ==
  \A S : (Log!IsFiniteSet(S) <=> IsFiniteSet(S)) /\ Log!Cardinality(S) = Cardinality(S)
<1>1. \A S : Log!IsFiniteSet(S) <=> IsFiniteSet(S)
  BY DEF Log!IsFiniteSet, IsFiniteSet
<1>2. \A S : Log!Cardinality(S) = Cardinality(S)
  BY DEF Log!Cardinality, Cardinality
<1>3. QED
  BY <1>1, <1>2

LEMMA InodesThere ==
  ASSUME Log!LogAssumption
  PROVE  /\ Log!Inodes \subseteq Nat \ {Log!None} /\ MaxLines \in Nat /\ MaxBytes \in Nat \ {0}
         /\ LogFaults \in Nat /\ {1, 2, 3} \subseteq Log!Inodes
<1>1. Log!Cardinality(Writers) \in Nat
  BY FS_CardinalityType, SameCounting DEF Log!LogAssumption
<1>2. QED
  BY <1>1 DEF Log!LogAssumption, Log!Inodes, Log!None

LEMMA RunGrows ==
  ASSUME NEW N, NEW n \in Nat, n + 1 \in 1..N
  PROVE  \A s \in Seq(1..N) : RunFrom(s, n - Len(s)) =>
           \A t, m : t = Append(s, n + 1) /\ m = n + 1
                  => Len(t) = Len(s) + 1 /\ RunFrom(t, m - Len(t))
<1> SUFFICES ASSUME NEW s \in Seq(1..N), RunFrom(s, n - Len(s)),
                    NEW t, NEW m, t = Append(s, n + 1), m = n + 1
             PROVE  Len(t) = Len(s) + 1 /\ RunFrom(t, m - Len(t))
  OBVIOUS
<1>1. /\ t \in Seq(1..N) /\ Len(t) = Len(s) + 1 /\ Len(s) \in Nat /\ t[Len(s) + 1] = n + 1
      /\ \A k \in 1..Len(s) : t[k] = s[k]
  OBVIOUS
<1>2. \A k \in 1..Len(s) : s[k] = n - Len(s) + k
  BY DEF RunFrom
<1>3. \A k \in 1..Len(t) : t[k] = n + 1 - Len(t) + k
  <2> TAKE k \in 1..Len(t)
  <2>1. CASE k = Len(s) + 1
    BY <1>1, <2>1
  <2>2. CASE k # Len(s) + 1
    <3>1. k \in 1..Len(s)
      BY <1>1, <2>2
    <3>2. t[k] = n - Len(s) + k
      BY <1>1, <1>2, <3>1
    <3>3. QED
      BY <1>1, <3>1, <3>2
  <2>3. QED
    BY <2>1, <2>2
<1>4. QED
  BY <1>1, <1>3 DEF RunFrom

LEMMA LogInit == Log!LogAssumption /\ Log!Init => LogInv
BY InodesThere DEF Log!Init, LogInv, LogTypes, Log!None

LEMMA LogNext ==
  ASSUME Log!LogAssumption, OneWriter, LogInv, [Log!Next]_Log!vars
  PROVE  LogInv'
<1> USE InodesThere
<1>1. CASE UNCHANGED Log!vars
  BY <1>1 DEF Log!vars, LogInv, LogTypes, RunFrom
<1>2. CASE Log!Next
  <2> PICK w \in Writers : Log!Open(w) \/ Log!Close(w) \/ Log!Line(w) \/ Log!Rotate(w)
    BY <1>2 DEF Log!Next
  <2>0. Writers = {w} /\ \A v \in Writers : v = w
    BY DEF OneWriter
  <2>1. CASE Log!Open(w)
    <3> DEFINE i == Log!Opened(w, live)
    <3>1. logOf[w] = Log!None /\ i \in Log!Inodes /\ (live # Log!None => i = live)
          /\ (live = Log!None => i # prev)
      <4>1. logOf[w] = Log!None
        BY <2>1 DEF Log!Open
      <4>2. Log!Unused = Log!Inodes \ {live, prev, Log!None}
        BY <2>0, <4>1 DEF Log!Unused
      <4>3. live = Log!None => Log!Unused # {}
        BY <4>2 DEF LogInv, Log!None
      <4>4. QED
        BY <4>1, <4>2, <4>3 DEF Log!Opened, LogInv, LogTypes
    <3>2. /\ live' = i /\ logOf' = [logOf EXCEPT ![w] = i]
          /\ data' = [data EXCEPT ![i] = Log!Kept(i, live)]
          /\ written' = [written EXCEPT ![w] = Len(data'[i])]
          /\ prev' = prev /\ lines' = lines /\ logFaults' = logFaults
      BY <2>1 DEF Log!Open
    <3>3. CASE live # Log!None
      <4>1. data' = data /\ live' = live
        BY <3>1, <3>2, <3>3 DEF Log!Kept, LogInv, LogTypes
      <4>2. logOf'[w] = live /\ written'[w] = Len(data[live]) /\ LogTypes'
        BY <3>1, <3>2, <3>3, <4>1, SMTT(40), ZenonT(60) DEF LogInv, LogTypes
      <4>3. QED
        BY <2>0, <3>2, <3>3, <4>1, <4>2 DEF LogInv
    <3>4. CASE live = Log!None
      <4>1. lines = 0 /\ prev = Log!None /\ i # Log!None
        BY <3>1, <3>4 DEF LogInv, Log!None
      <4>2. data'[i] = <<>> /\ Len(data'[i]) = 0 /\ data' \in [Log!Inodes -> Seq(1..MaxLines)]
        BY <3>1, <3>2, <3>4 DEF Log!Kept, LogInv, LogTypes
      <4>3. written'[w] = 0 /\ written' \in [Writers -> Nat] /\ logOf'[w] = i
            /\ logOf' \in [Writers -> Log!Inodes \cup {Log!None}]
        BY <3>1, <3>2, <4>2 DEF LogInv, LogTypes
      <4>4. QED
        BY <2>0, <3>1, <3>2, <4>1, <4>2, <4>3, SMTT(40), ZenonT(60) DEF LogInv, LogTypes, RunFrom
    <3>5. QED
      BY <3>3, <3>4
  <2>2. CASE Log!Close(w)
    BY <2>0, <2>2 DEF Log!Close, LogInv, LogTypes, RunFrom
  <2>3. CASE Log!Line(w)
    <3>1. /\ logOf[w] = live /\ live \in Log!Inodes /\ written[w] = Len(data[live])
          /\ data[live] \in Seq(1..MaxLines) /\ lines < MaxLines
          /\ Len(data[live]) + 1 <= MaxBytes
      BY <2>3 DEF Log!Line, LogInv, LogTypes
    <3>2. data' = [data EXCEPT ![live] = Append(data[live], lines + 1)]
      BY <2>3, <3>1 DEF Log!Line
    <3>3. /\ data'[live] = Append(data[live], lines + 1)
          /\ \A j \in Log!Inodes \ {live} : data'[j] = data[j]
          /\ data' \in [Log!Inodes -> Seq(1..MaxLines)]
      BY <3>1, <3>2, SMTT(40), ZenonT(60) DEF LogInv, LogTypes
    <3>4. /\ written' = [written EXCEPT ![w] = Len(data[live]) + 1] /\ lines' = lines + 1
          /\ UNCHANGED <<live, prev, logOf, logFaults>>
      BY <2>3, <3>1 DEF Log!Line
    <3>5. RunFrom(data[live], lines - Len(data[live])) /\ lines \in Nat /\ lines + 1 \in 1..MaxLines
      BY <3>1, SMTT(40), ZenonT(60) DEF LogInv, LogTypes, Log!None
    <3>6. /\ RunFrom(data'[live], lines' - Len(data'[live]))
          /\ Len(data'[live]) = Len(data[live]) + 1
      <4> DEFINE s == data[live]
      <4>1. s \in Seq(1..MaxLines) /\ RunFrom(s, lines - Len(s))
        BY <3>1, <3>5
      <4> HIDE DEF s
      <4>2. lines \in Nat /\ lines + 1 \in 1..MaxLines
        BY <3>5
      <4>3. data'[live] = Append(s, lines + 1) /\ lines' = lines + 1
        BY <3>3, <3>4 DEF s
      <4>4. \A t, m : t = Append(s, lines + 1) /\ m = lines + 1
                             => Len(t) = Len(s) + 1 /\ RunFrom(t, m - Len(t))
        BY <4>1, <4>2, RunGrows, SMTT(40), ZenonT(60)
      <4>5. Len(data'[live]) = Len(s) + 1 /\ RunFrom(data'[live], lines' - Len(data'[live]))
        <5>1. lines' \in Nat
          BY <4>2, <4>3
        <5>2. QED
          BY <4>3, <4>4, <5>1
      <4>6. QED
        BY <4>5 DEF s
    <3>7. LogTypes'
      <4>1. written' \in [Writers -> Nat]
        BY <3>1, <3>4, SMTT(40), ZenonT(60) DEF LogInv, LogTypes
      <4>2. lines' \in 0..MaxLines
        BY <3>4, <3>5
      <4>3. QED
        BY <3>3, <3>4, <4>1, <4>2 DEF LogInv, LogTypes
    <3>8. prev # Log!None => prev # live /\ data'[prev] = data[prev]
      BY <3>3 DEF LogInv, LogTypes
    <3>9. /\ logOf'[w] = live /\ written'[w] = Len(data'[live]) /\ live # Log!None
          /\ Len(data[live]) \in Nat
      BY <3>1, <3>4, <3>6 DEF LogInv, LogTypes
    <3>10. prev # Log!None => Len(data[prev]) \in Nat
      BY <3>1 DEF LogInv, LogTypes
    <3>11. Len(data'[live]) <= lines' /\ (logFaults' = 0 => Len(data'[live]) <= MaxBytes)
      BY <3>1, <3>4, <3>5, <3>6, <3>9 DEF LogInv
    <3>12. Len(data'[live]) >= MaxBytes \/ prev # Log!None \/ Len(data'[live]) = lines'
      BY <3>1, <3>4, <3>5, <3>6, <3>9 DEF LogInv
    <3>13. prev # Log!None =>
             /\ lines' - Len(data'[live]) = lines - Len(data[live])
             /\ lines' - Len(data'[live]) - Len(data'[prev])
                  = lines - Len(data[live]) - Len(data[prev])
      <4>1. lines' - Len(data'[live]) = lines - Len(data[live])
        BY <3>4, <3>5, <3>6, <3>9, SMTT(40), ZenonT(60)
      <4>2. QED
        BY <3>8, <4>1
    <3>14. prev' # Log!None =>
       /\ Len(data'[prev]) >= MaxBytes
       /\ Len(data'[prev]) <= lines' - Len(data'[live])
       /\ RunFrom(data'[prev], lines' - Len(data'[live]) - Len(data'[prev]))
       /\ logFaults' = 0 => Len(data'[prev]) <= MaxBytes
      BY <3>4, <3>8, <3>13 DEF LogInv
    <3>15. live' = live /\ prev' = prev
      BY <3>4
    <3>16. QED
      BY <2>0, <3>6, <3>7, <3>8, <3>9, <3>11, <3>12, <3>14, <3>15 DEF LogInv
  <2>4. CASE Log!Rotate(w)
    <3>1. /\ logOf[w] = live /\ live \in Log!Inodes /\ live # Log!None
          /\ written[w] = Len(data[live])
          /\ data[live] \in Seq(1..MaxLines) /\ lines < MaxLines
          /\ Len(data[live]) + 1 > MaxBytes /\ Len(data[live]) \in Nat /\ lines \in Nat
          /\ lines' = lines + 1
      BY <2>4, SMTT(40), ZenonT(60) DEF Log!Rotate, LogInv, LogTypes
    <3>2. PICK moved \in {TRUE, FALSE} :
            /\ IF moved THEN logFaults' = logFaults ELSE logFaults' = logFaults + 1
            /\ prev' = IF moved THEN live ELSE Log!None
            /\ LET i == IF moved
               THEN CHOOSE j \in Log!Inodes \ ({live} \cup {logOf[v] : v \in Writers \ {w}}) : TRUE
                        ELSE live
                   kept == IF moved THEN <<>> ELSE data[live] IN
                 /\ live' = i /\ logOf' = [logOf EXCEPT ![w] = i]
                 /\ data' = [data EXCEPT ![i] = Append(kept, lines + 1)]
                 /\ written' = [written EXCEPT ![w] = Len(kept) + 1]
      BY <2>4, <3>1 DEF Log!Rotate, Log!After
    <3>3. CASE moved
      <4> DEFINE i == CHOOSE j \in Log!Inodes \ ({live} \cup {logOf[v] : v \in Writers \ {w}}) :
          TRUE
      <4>1. i \in Log!Inodes /\ i # live
        <5>1. Log!Inodes \ ({live} \cup {logOf[v] : v \in Writers \ {w}}) = Log!Inodes \ {live}
          BY <2>0
        <5>2. Log!Inodes \ {live} # {}
          BY DEF Log!None
        <5>3. QED
          BY <5>1, <5>2
      <4>2. /\ logFaults' = logFaults /\ prev' = live /\ live' = i
            /\ logOf' = [logOf EXCEPT ![w] = i]
            /\ data' = [data EXCEPT ![i] = Append(<<>>, lines + 1)]
            /\ written' = [written EXCEPT ![w] = Len(<<>>) + 1]
        BY <3>2, <3>3
      <4> HIDE DEF i
      <4>3. /\ data'[i] = <<lines + 1>> /\ Len(data'[i]) = 1 /\ data'[live] = data[live]
            /\ data'[i][1] = lines + 1
            /\ data' \in [Log!Inodes -> Seq(1..MaxLines)]
        BY <3>1, <4>1, <4>2, SMTT(40), ZenonT(60) DEF LogInv, LogTypes
      <4>4. LogTypes'
        <5>1. logOf' \in [Writers -> Log!Inodes \cup {Log!None}] /\ written' \in [Writers -> Nat]
          BY <4>1, <4>2 DEF LogInv, LogTypes
        <5>2. lines' \in 0..MaxLines /\ logFaults' \in Nat /\ live' \in Log!Inodes
              /\ prev' \in Log!Inodes
          BY <3>1, <4>1, <4>2 DEF LogInv, LogTypes
        <5>3. QED
          <6>1. data' \in [Log!Inodes -> Seq(1..MaxLines)]
            BY <4>3
          <6>2. QED
            BY <5>1, <5>2, <6>1 DEF LogTypes
      <4>5. RunFrom(data'[i], lines' - 1) /\ RunFrom(data'[live], lines' - 1 - Len(data'[live]))
        <5>1. RunFrom(data[live], lines - Len(data[live])) /\ lines' - 1 = lines
          BY <3>1 DEF LogInv
        <5>2. \A k \in 1..Len(data'[i]) : data'[i][k] = lines + k
          <6>1. \A k \in 1..Len(data'[i]) : k = 1
            BY <4>3
          <6>2. QED
            BY <3>1, <4>3, <6>1
        <5>3. QED
          BY <4>3, <5>1, <5>2 DEF RunFrom
      <4>6. Len(data'[live]) <= lines' - 1 /\ (logFaults = 0 => Len(data'[live]) <= MaxBytes)
        BY <3>1, <4>3 DEF LogInv
      <4>7. logOf'[w] = i /\ written'[w] = 1
        BY <4>2 DEF LogInv, LogTypes
      <4>8. QED
        BY <2>0, <3>1, <4>1, <4>2, <4>3, <4>4, <4>5, <4>6, <4>7, SMTT(40), ZenonT(60)
           DEF LogInv, Log!None
    <3>4. CASE ~moved
      <4>1. /\ logFaults' = logFaults + 1 /\ prev' = Log!None /\ live' = live
            /\ logOf' = [logOf EXCEPT ![w] = live]
            /\ data' = [data EXCEPT ![live] = Append(data[live], lines + 1)]
            /\ written' = [written EXCEPT ![w] = Len(data[live]) + 1]
        BY <3>2, <3>4
      <4>2. /\ data'[live] = Append(data[live], lines + 1)
            /\ data' \in [Log!Inodes -> Seq(1..MaxLines)]
        BY <3>1, <4>1, SMTT(40), ZenonT(60) DEF LogInv, LogTypes
      <4>3. RunFrom(data[live], lines - Len(data[live])) /\ lines + 1 \in 1..MaxLines
        BY <3>1, SMTT(40), ZenonT(60) DEF LogInv, LogTypes, Log!None
      <4>4. /\ RunFrom(data'[live], lines' - Len(data'[live]))
            /\ Len(data'[live]) = Len(data[live]) + 1
        <5> DEFINE s == data[live]
        <5>1. s \in Seq(1..MaxLines) /\ RunFrom(s, lines - Len(s))
          BY <3>1, <4>3
        <5> HIDE DEF s
        <5>2. lines \in Nat /\ lines + 1 \in 1..MaxLines
          BY <3>1, <4>3
        <5>3. data'[live] = Append(s, lines + 1) /\ lines' = lines + 1
          BY <3>1, <4>2 DEF s
        <5>4. \A t, m : t = Append(s, lines + 1) /\ m = lines + 1
                               => Len(t) = Len(s) + 1 /\ RunFrom(t, m - Len(t))
          BY <5>1, <5>2, RunGrows, SMTT(40), ZenonT(60)
        <5>5. lines' \in Nat
          BY <5>2, <5>3
        <5>6. Len(data'[live]) = Len(s) + 1 /\ RunFrom(data'[live], lines' - Len(data'[live]))
          BY <5>3, <5>4, <5>5
        <5>7. QED
          BY <5>6 DEF s
      <4>5. LogTypes' /\ logFaults' # 0
        BY <3>1, <4>1, <4>2, SMTT(40), ZenonT(60) DEF LogInv, LogTypes
      <4>6. logOf'[w] = live /\ written'[w] = Len(data[live]) + 1
        BY <4>1 DEF LogInv, LogTypes
      <4>7. Len(data'[live]) <= lines' /\ Len(data'[live]) >= MaxBytes
        BY <3>1, <4>4 DEF LogInv
      <4>8. QED
        BY <2>0, <3>1, <4>1, <4>4, <4>5, <4>6, <4>7 DEF LogInv
    <3>5. QED
      BY <3>2, <3>3, <3>4
  <2>5. QED
    BY <2>1, <2>2, <2>3, <2>4
<1>3. QED
  BY <1>1, <1>2

LEMMA LogMeans ==
  ASSUME Log!LogAssumption, LogInv PROVE Log!TypeOK /\ Log!RecentSurvive /\ Log!Bounded
<1> USE InodesThere
<1>1. \A i \in Log!Inodes : /\ Log!Held(i) = {data[i][k] : k \in 1..Len(data[i])}
                            /\ \A k \in 1..Len(data[i]) : data[i][k] \in 1..MaxLines
  <2> TAKE i \in Log!Inodes
  <2>1. data[i] \in Seq(1..MaxLines) /\ i # Log!None
    BY DEF LogInv, LogTypes
  <2>2. DOMAIN data[i] = 1..Len(data[i]) /\ \A k \in 1..Len(data[i]) : data[i][k] \in 1..MaxLines
    BY <2>1, SMTT(40), ZenonT(60)
  <2>3. QED
    BY <2>1, <2>2 DEF Log!Held
<1>2. Log!TypeOK
  <2>1. \A i \in Log!Inodes : Log!Held(i) \subseteq 1..MaxLines
    BY <1>1
  <2>2. QED
    BY <2>1, SMTT(40), ZenonT(60) DEF Log!TypeOK, LogInv, LogTypes, Log!None
<1>3. Log!Bounded
  BY DEF Log!Bounded, LogInv, LogTypes
<1>4. Log!RecentSurvive
  <2> SUFFICES ASSUME NEW n \in 1..lines, n + MaxBytes > lines
               PROVE  n \in Log!Held(live) \cup Log!Held(prev)
    BY DEF Log!RecentSurvive
  <2>1. live \in Log!Inodes /\ live # Log!None
    BY DEF LogInv, LogTypes
  <2> DEFINE a == Len(data[live])
  <2>2. a \in Nat /\ a <= lines /\ lines \in Nat
    BY <2>1 DEF LogInv, LogTypes
  <2>3. CASE n > lines - a
    <3>0. \A k \in 1..a : data[live][k] = lines - a + k
      BY <2>1 DEF LogInv, RunFrom
    <3> HIDE DEF a
    <3>1. n - (lines - a) \in 1..a /\ data[live][n - (lines - a)] = n
      BY <2>2, <2>3, <3>0
    <3>2. QED
      BY <1>1, <2>1, <3>1 DEF a
  <2>4. CASE n <= lines - a
    <3>1. prev \in Log!Inodes /\ prev # Log!None
      BY <2>1, <2>2, <2>4, SMTT(40), ZenonT(60) DEF LogInv, LogTypes
    <3> DEFINE b == Len(data[prev])
    <3>2. b \in Nat /\ b >= MaxBytes /\ b <= lines - a
      BY <3>1 DEF LogInv, LogTypes
    <3>3. \A k \in 1..b : data[prev][k] = lines - a - b + k
      BY <3>1 DEF LogInv, RunFrom
    <3> HIDE DEF a, b
    <3>4. n - (lines - a - b) \in 1..b /\ data[prev][n - (lines - a - b)] = n
      BY <2>2, <2>4, <3>2, <3>3
    <3>5. QED
      BY <1>1, <3>1, <3>4 DEF b
  <2>5. QED
    BY <2>2, <2>3, <2>4
<1>5. QED
  BY <1>2, <1>3, <1>4

\* With one writer, for any size of the log, any lines and any failures: a
\* file's worth of the lines written last is in the log and its `.1`, and
\* neither grows past the limit while files can be moved (logfile.rs).
THEOREM LogSurvives ==
  ASSUME Log!LogAssumption, OneWriter
         PROVE Log!Spec => [](Log!TypeOK /\ Log!RecentSurvive /\ Log!Bounded)
<1>1. LogInv /\ [Log!Next]_Log!vars => LogInv'
  BY LogNext
<1>2. LogInv => Log!TypeOK /\ Log!RecentSurvive /\ Log!Bounded
  BY LogMeans
<1>3. QED
  BY <1>1, <1>2, LogInit, PTL DEF Log!Spec

-----------------------------------------------------------------------------
(* The old folder's contents, taken over.                                  *)

\* FolderTakeover's variables.
windows == v1
oldDir == v2
newDir == v3
stage == v4
takers == v5
folderFaults == v6
USE DEF windows, oldDir, newDir, stage, takers, folderFaults

\* What is placed is whole; while nothing has failed and the old folder is
\* there, whoever is past the takeover has left a whole one.
FolderInv ==
  /\ Folder!TypeOK /\ folderFaults \in Nat /\ Folder!NeverHalf
  /\ \A p \in Processes : takers[p] = "place" => stage[p] = "whole"
  /\ folderFaults = 0 /\ oldDir = "whole" =>
       /\ newDir \in {"none", "whole"}
       /\ \A p \in Processes : takers[p] \in {"make", "runs"} => newDir = "whole"

LEMMA FolderInit == Folder!TakeoverAssumption /\ Folder!Init => FolderInv
BY DEF Folder!TakeoverAssumption, Folder!Init, FolderInv, Folder!TypeOK, Folder!NeverHalf

LEMMA FolderNext == Folder!TakeoverAssumption /\ FolderInv /\ [Folder!Next]_Folder!vars
  => FolderInv'
<1> SUFFICES ASSUME FolderFaults \in Nat, FolderInv, Folder!Next PROVE FolderInv'
  BY DEF Folder!TakeoverAssumption, FolderInv, Folder!TypeOK, Folder!NeverHalf, Folder!vars
<1> USE DEF FolderInv, Folder!TypeOK, Folder!NeverHalf, Folder!Fault, Folder!Goes, Folder!Stages
<1> PICK p \in Processes : \/ Folder!Look(p) \/ Folder!Move(p) \/ Folder!Copy(p)
                              \/ Folder!Place(p) \/ Folder!Make(p) \/ Folder!Save(p)
                           \/ Folder!Kill(p)
  BY DEF Folder!Next
<1>1. CASE Folder!Look(p)
  BY <1>1 DEF Folder!Look
<1>2. CASE Folder!Move(p)
  BY <1>2 DEF Folder!Move
<1>3. CASE Folder!Copy(p)
  BY <1>3 DEF Folder!Copy
<1>4. CASE Folder!Place(p)
  BY <1>4 DEF Folder!Place
<1>5. CASE Folder!Make(p)
  BY <1>5 DEF Folder!Make
<1>6. CASE Folder!Save(p)
  BY <1>6 DEF Folder!Save
<1>7. CASE Folder!Kill(p)
  BY <1>7 DEF Folder!Kill
<1>8. QED
  BY <1>1, <1>2, <1>3, <1>4, <1>5, <1>6, <1>7

\* For any number of processes and faults: the new folder is never half filled,
\* and while nothing fails no process runs on empty settings while the old
\* ones wait (adopt, data_dir).
THEOREM SettingsAreTakenOver ==
  ASSUME Folder!TakeoverAssumption
         PROVE Folder!Spec => [](Folder!TypeOK /\ Folder!NeverHalf /\ Folder!TakenOver)
<1>1. FolderInv => Folder!TypeOK /\ Folder!NeverHalf /\ Folder!TakenOver
  BY DEF FolderInv, Folder!TypeOK, Folder!TakenOver
<1>2. QED
  BY <1>1, FolderInit, FolderNext, PTL DEF Folder!Spec

-----------------------------------------------------------------------------
(* What the window shows.                                                  *)

\* HostWindow's variables.
served == v1
shared == v2
local == v3
synced == v4
repaint == v5
drawn == v6
poll == v7
answer == v8
changed == v9
failures == v10
renewed == v11
setupOwes == v12
wish == v13
jobs == v14
slots == v15
pending == v16
note == v17
clicks == v18
windowFaults == v19
gone == v20
USE DEF served, shared, local, synced, repaint, drawn, poll, answer, changed, failures, renewed,
    setupOwes, wish, jobs, slots, pending, note, clicks, windowFaults, gone

Pages == [status : Page!ServiceVersions \cup {"none"}, error : {"none", "failed", "stopped"},
          running : BOOLEAN, result : {"none", "ok", "failed"}]
PollSteps == {"idle", "answer", "sleep", "write", "ensure", "announce", "repaint"}

WindowTypes ==
  /\ served \in Page!ServiceVersions \cup {"down"} /\ answer \in Page!ServiceVersions \cup {"down"}
  /\ shared \in Pages /\ poll \in PollSteps
  /\ poll \in {"sleep", "write"} => answer # "down"
  /\ failures \in 0..3
  /\ synced \in BOOLEAN /\ repaint \in BOOLEAN /\ changed \in BOOLEAN /\ setupOwes \in BOOLEAN
  /\ gone \in BOOLEAN

\* A copy that is taken to be up to date and is not is one the poller is about
\* to call stale; one that is called stale has a frame asked for, or about to be.
SeenSoon ==
  /\ changed => poll \in {"ensure", "announce", "repaint"}
  /\ local # Page!Facts(shared) =>
       IF synced THEN changed /\ poll \in {"ensure", "announce"}
                 ELSE repaint \/ changed \/ setupOwes \/ gone

\* A result goes to the slot of its own action.
SlotsApart ==
  /\ jobs \in 0..MaxJobs /\ pending \in 0..jobs /\ note \in 0..jobs
  /\ slots \in [Page!Jobs -> Nat] /\ \A j \in Page!Jobs : slots[j] \in {0, j}

WindowInv == WindowTypes /\ SeenSoon /\ SlotsApart

LEMMA WindowInit == Page!WindowAssumption /\ Page!Init => WindowInv
<1> SUFFICES ASSUME Page!WindowAssumption, Page!Init PROVE WindowInv
  OBVIOUS
<1>1. shared \in Pages
  BY DEF Page!Init, Pages
<1>2. SlotsApart
  BY DEF Page!Init, SlotsApart, Page!Jobs, Page!WindowAssumption
<1>3. synced \in BOOLEAN /\ repaint \in BOOLEAN /\ changed \in BOOLEAN /\ setupOwes \in BOOLEAN
      /\ gone \in BOOLEAN
  BY Zenon DEF Page!Init
<1>4. served \in Page!ServiceVersions \cup {"down"} /\ answer = "down" /\ poll = "idle"
      /\ failures = 0
      /\ changed = FALSE /\ local = Page!Facts(shared)
  BY SMTT(40), ZenonT(60) DEF Page!Init
<1>5. QED
  BY <1>1, <1>2, <1>3, <1>4 DEF WindowInv, WindowTypes, SeenSoon, PollSteps

LEMMA PagesChange ==
  ASSUME NEW p \in Pages
  PROVE  /\ \A s \in Page!ServiceVersions \cup {"none"}, e \in {"none", "failed", "stopped"} :
              [p EXCEPT !.status = s, !.error = e] \in Pages
         /\ \A e \in {"none", "failed", "stopped"} : [p EXCEPT !.error = e] \in Pages
         /\ \A b \in BOOLEAN, r \in {"none", "ok", "failed"} :
              [p EXCEPT !.running = b, !.result = r] \in Pages
         /\ p.error \in {"none", "failed", "stopped"}
BY DEF Pages

LEMMA WindowTyped ==
  ASSUME Page!WindowAssumption, WindowInv, [Page!Next]_Page!vars
  PROVE  WindowTypes'
<1> USE DEF WindowInv, WindowTypes
<1>1. CASE UNCHANGED Page!vars
  BY <1>1 DEF Page!vars, Page!pollVars
<1>2. CASE Page!Crash
  BY <1>2 DEF Page!Crash, Page!pollVars
<1>3. CASE Page!AskStatus
  BY <1>3 DEF Page!AskStatus, Page!pollRest, PollSteps
<1>4. CASE Page!RestartService
  BY <1>4
     DEF Page!RestartService, Page!Quit, Page!Ensure, Page!pollRest, PollSteps,
         Page!ServiceVersions
<1>5. CASE Page!RelaunchPanel
  BY <1>5 DEF Page!RelaunchPanel, Page!Fault, Page!pollRest, PollSteps
<1>6. CASE Page!WriteStatus
  <2>1. answer \in Page!ServiceVersions
    BY <1>6 DEF Page!WriteStatus, Page!ServiceVersions
  <2>2. shared' \in Pages
    <3>1. shared' = [shared EXCEPT !.status = answer,
                       !.error = IF shared.error = "stopped" THEN shared.error ELSE "none"]
      BY <1>6 DEF Page!WriteStatus
    <3>2. (IF shared.error = "stopped" THEN shared.error
          ELSE "none") \in {"none", "failed", "stopped"}
      OBVIOUS
    <3>3. QED
      BY <2>1, <3>1, <3>2, PagesChange
  <2>3. changed' \in BOOLEAN
    BY <1>6, Zenon DEF Page!WriteStatus
  <2>4. QED
    BY <1>6, <2>2, <2>3 DEF Page!WriteStatus, Page!pollRest, PollSteps
<1>7. CASE Page!WriteFailure
  <2>1. shared' \in Pages
    <3>1. shared' = [shared EXCEPT !.status = "none",
                       !.error = IF shared.error = "stopped" THEN shared.error ELSE "failed"]
      BY <1>7 DEF Page!WriteFailure
    <3>2. (IF shared.error = "stopped" THEN shared.error
          ELSE "failed") \in {"none", "failed", "stopped"}
      OBVIOUS
    <3>3. QED
      BY <3>1, <3>2, PagesChange
  <2>2. changed' \in BOOLEAN
    BY <1>7, Zenon DEF Page!WriteFailure
  <2>3. failures' \in 0..3
    BY <1>7 DEF Page!WriteFailure
  <2>4. poll' \in {"ensure", "announce"}
    BY <1>7 DEF Page!WriteFailure
  <2>5. QED
    BY <1>7, <2>1, <2>2, <2>3, <2>4, SMTT(40), ZenonT(60)
       DEF Page!WriteFailure, Page!pollRest, PollSteps
<1>8. CASE Page!EnsureRunning
  BY <1>8 DEF Page!EnsureRunning, Page!Ensure, Page!pollRest, PollSteps, Page!ServiceVersions
<1>9. CASE Page!Announce
  <2>1. poll' \in {"idle", "repaint"} /\ synced' \in BOOLEAN
    BY <1>9 DEF Page!Announce
  <2>2. QED
    BY <1>9, <2>1 DEF Page!Announce, Page!pollRest, PollSteps
<1>10. CASE Page!Frame
  BY <1>10 DEF Page!Frame, Page!pollVars
<1>11. CASE Page!StopService
  <2>1. shared' \in Pages
    BY <1>11, PagesChange DEF Page!StopService
  <2>2. QED
    BY <1>11, <2>1 DEF Page!StopService, Page!Press, Page!Quit, Page!pressRest, Page!pollVars
<1>12. CASE Page!StartService
  <2>1. shared' \in Pages
    BY <1>12, PagesChange DEF Page!StartService
  <2>2. QED
    BY <1>12, <2>1
       DEF Page!StartService, Page!Press, Page!Ensure, Page!pressRest, Page!pollVars,
           Page!ServiceVersions
<1>13. CASE Page!StartSetup
  <2>1. shared' \in Pages
    BY <1>13, PagesChange DEF Page!StartSetup
  <2>2. QED
    BY <1>13, <2>1 DEF Page!StartSetup, Page!Press, Page!pressRest, Page!pollVars
<1>14. CASE Page!SetupEnds
  <2>1. shared' \in Pages
    BY <1>14, PagesChange DEF Page!SetupEnds
  <2>2. QED
    BY <1>14, <2>1 DEF Page!SetupEnds, Page!pollVars
<1>15. CASE Page!Later \/ Page!JobEnds \/ Page!NoteOver
  BY <1>15 DEF Page!Later, Page!JobEnds, Page!NoteOver, Page!pollVars
<1>16. QED
  BY <1>1, <1>2, <1>3, <1>4, <1>5, <1>6, <1>7, <1>8, <1>9, <1>10, <1>11, <1>12, <1>13,
     <1>14, <1>15 DEF Page!Next, Page!Poller

LEMMA SlotsNext ==
  ASSUME Page!WindowAssumption, WindowInv, [Page!Next]_Page!vars
  PROVE  SlotsApart' /\ Page!NoteIsItsOwn
<1> USE DEF WindowInv, SlotsApart, Page!NoteIsItsOwn
<1>0. MaxJobs \in Nat
  BY DEF Page!WindowAssumption
<1>1. CASE UNCHANGED Page!noteVars
  BY <1>0, <1>1 DEF Page!noteVars
<1>2. CASE Page!Frame
  <2>1. pending # 0 => pending \in Page!Jobs
    BY <1>0 DEF Page!Jobs
  <2>2. QED
    BY <1>0, <1>2, <2>1 DEF Page!Frame
<1>3. CASE Page!Later
  BY <1>0, <1>3 DEF Page!Later, Page!Jobs
<1>4. CASE Page!JobEnds
  <2> PICK j \in 1..jobs : slots[j] = 0 /\ slots' = [slots EXCEPT ![j] = j]
    BY <1>4 DEF Page!JobEnds
  <2>1. j \in Page!Jobs /\ j \in Nat
    BY <1>0 DEF Page!Jobs
  <2>2. UNCHANGED <<jobs, pending, note>>
    BY <1>4 DEF Page!JobEnds
  <2>3. slots' \in [Page!Jobs -> Nat] /\ \A i \in Page!Jobs : slots'[i] \in {0, i}
    BY <2>1
  <2>4. QED
    BY <1>0, <2>2, <2>3
<1>5. CASE Page!NoteOver
  BY <1>0, <1>5 DEF Page!NoteOver
<1>6. [Page!Next]_Page!vars
      => UNCHANGED Page!noteVars \/ Page!Frame \/ Page!Later \/ Page!JobEnds \/ Page!NoteOver
  BY DEF Page!Next, Page!vars, Page!Crash, Page!Poller, Page!AskStatus, Page!RestartService,
         Page!RelaunchPanel, Page!WriteStatus, Page!WriteFailure, Page!EnsureRunning,
         Page!Announce, Page!StopService, Page!StartService, Page!StartSetup, Page!SetupEnds,
         Page!pollRest, Page!pressRest, Page!noteVars
<1>7. QED
  BY <1>1, <1>2, <1>3, <1>4, <1>5, <1>6

LEMMA SeenNext ==
  ASSUME Page!WindowAssumption, WindowInv, [Page!Next]_Page!vars
  PROVE  SeenSoon'
<1> USE DEF WindowInv, WindowTypes, SeenSoon
<1>1. CASE UNCHANGED <<shared, local, synced, repaint, changed, setupOwes, poll, gone>>
  BY <1>1
<1>2. CASE Page!Crash
  BY <1>2, <1>1 DEF Page!Crash, Page!pollVars
<1>3. CASE Page!AskStatus
  BY <1>3 DEF Page!AskStatus, Page!pollRest
<1>4. CASE Page!RestartService
  BY <1>4 DEF Page!RestartService, Page!pollRest
<1>5. CASE Page!RelaunchPanel
  BY <1>5 DEF Page!RelaunchPanel, Page!pollRest
<1>6. CASE Page!WriteStatus \/ Page!WriteFailure
  <2>1. changed' = (shared' # shared)
    BY <1>6 DEF Page!WriteStatus, Page!WriteFailure
  <2>2. /\ poll \in {"write", "answer"} /\ poll' \in {"ensure", "announce"}
        /\ UNCHANGED <<synced, repaint, local, setupOwes, gone>>
    BY <1>6 DEF Page!WriteStatus, Page!WriteFailure, Page!pollRest
  <2>3. CASE shared' = shared
    BY <2>1, <2>2, <2>3
  <2>4. CASE shared' # shared
    BY <2>1, <2>2, <2>4
  <2>5. QED
    BY <2>3, <2>4
<1>7. CASE Page!EnsureRunning
  <2>1. poll = "ensure" /\ poll' = "announce"
        /\ UNCHANGED <<shared, synced, repaint, local, setupOwes, gone, changed>>
    BY <1>7 DEF Page!EnsureRunning, Page!pollRest
  <2>2. QED
    BY <2>1
<1>8. CASE Page!Announce
  <2>1. UNCHANGED <<shared, local, setupOwes, gone>>
    BY <1>8 DEF Page!Announce, Page!pollRest
  <2>2. CASE poll = "announce"
    <3>1. /\ synced' = (synced /\ ~changed) /\ UNCHANGED <<repaint, changed>>
          /\ poll' = IF changed THEN "repaint" ELSE "idle"
      BY <1>8, <2>2 DEF Page!Announce
    <3>2. CASE changed
      BY <2>1, <3>1, <3>2
    <3>3. CASE ~changed
      BY <2>1, <3>1, <3>3
    <3>4. QED
      BY <3>2, <3>3
  <2>3. CASE poll = "repaint"
    <3>1. repaint' = TRUE /\ changed' = FALSE /\ synced' = synced /\ poll' = "idle"
      BY <1>8, <2>3 DEF Page!Announce
    <3>2. QED
      BY <2>1, <2>3, <3>1
  <2>4. QED
    BY <1>8, <2>2, <2>3 DEF Page!Announce
<1>9. CASE Page!Frame
  BY <1>9 DEF Page!Frame, Page!pollVars
<1>10. CASE Page!StopService \/ Page!StartService \/ Page!StartSetup
  BY <1>10
     DEF Page!StopService, Page!StartService, Page!StartSetup, Page!Press, Page!pressRest,
         Page!pollVars
<1>11. CASE Page!SetupEnds
  BY <1>11 DEF Page!SetupEnds, Page!pollVars
<1>12. CASE Page!Later \/ Page!JobEnds \/ Page!NoteOver
  BY <1>12 DEF Page!Later, Page!JobEnds, Page!NoteOver, Page!pollVars
<1>13. CASE UNCHANGED Page!vars
  BY <1>1, <1>13 DEF Page!vars, Page!pollVars
<1>14. QED
  BY <1>2, <1>3, <1>4, <1>5, <1>6, <1>7, <1>8, <1>9, <1>10, <1>11, <1>12, <1>13
     DEF Page!Next, Page!Poller

LEMMA WindowMeans == WindowInv => Page!TypeOK /\ Page!NothingUnseen
BY DEF WindowInv, WindowTypes, SeenSoon, SlotsApart, Page!TypeOK, Page!NothingUnseen, Pages,
       PollSteps

LEMMA WindowNext == Page!WindowAssumption /\ WindowInv /\ [Page!Next]_Page!vars
  => WindowInv' /\ Page!NoteIsItsOwn
BY WindowTyped, SlotsNext, SeenNext DEF WindowInv

\* However the poller, the jobs and the frames interleave, a change of what
\* the window shows is followed by another frame of it, and the note of an
\* action is that action's.
THEOREM WindowIsCurrent ==
  ASSUME Page!WindowAssumption
  PROVE  Page!Spec => [](Page!TypeOK /\ Page!NothingUnseen) /\ [][Page!NoteIsItsOwn]_Page!vars
<1>1. Page!Init => WindowInv
  BY WindowInit
<1>2. WindowInv /\ [Page!Next]_Page!vars => WindowInv' /\ Page!NoteIsItsOwn
  BY WindowNext
<1>3. WindowInv => Page!TypeOK /\ Page!NothingUnseen
  BY WindowMeans
<1>4. QED
  BY <1>1, <1>2, <1>3, PTL DEF Page!Spec

-----------------------------------------------------------------------------
(* The care of the engine.                                                 *)

\* EngineCare's variables.
world == v1
svc == v2
turn == v3
net == v4
USE DEF world, svc, turn, net

Ticks == 0..(Slower * NetTicks - 1)
TurnSteps == {"look", "login", "profile", "config", "write", "restart", "wait", "mark",
              "log", "store", "care"}
Worlds == [installed : BOOLEAN, up : BOOLEAN, app : BOOLEAN, login : BOOLEAN, creds : BOOLEAN,
           ours : BOOLEAN, sound : BOOLEAN, network : Engine!Networks, tailscale : BOOLEAN,
           faults : 0..CareFaults, apps : 0..MaxApps]
Services == [tick : Ticks, tailscale : BOOLEAN, running : BOOLEAN, api : BOOLEAN,
             apiAge : 0..Slow, encoder : BOOLEAN, silent : BOOLEAN, marker : BOOLEAN]
Turns == [pc : TurnSteps, creds : BOOLEAN, install : BOOLEAN, running : BOOLEAN, api : BOOLEAN,
          encoder : BOOLEAN, silent : BOOLEAN]
Nets == [running : BOOLEAN, sees : Engine!Networks \cup {Engine!Unknown}, nat :
  Engine!Networks \cup {Engine!Unknown}]

CareTypes == world \in Worlds /\ svc \in Services /\ turn \in Turns /\ net \in Nets

\* The profile is written before the marker is, and nothing takes it away.
WrittenFirst == svc.marker \/ turn.pc \in {"restart", "wait", "mark"} => world.ours

\* How long ago the login was tried, or there was none to try, against the
\* refreshes since the last that tries it in any case.
Phase == svc.tick % Slow
TriedSince ==
  CASE turn.pc \in {"look", "login"} -> svc.api => svc.apiAge < (IF Phase = 0 THEN Slow ELSE Phase)
    [] turn.pc = "care"              -> svc.api => svc.apiAge <= Phase
    [] OTHER                         -> turn.api => svc.apiAge <= Phase

CareInv == CareTypes /\ (world.app => world.up) /\ WrittenFirst /\ TriedSince

LEMMA ModBounds == \A t \in Nat, n \in Nat \ {0} : t % n \in 0..(n - 1) /\ (t < n => t % n = t)
OBVIOUS

LEMMA ModNext ==
  ASSUME NEW t \in Nat, NEW n \in Nat \ {0}
  PROVE  (t + 1) % n \in {0, (t % n) + 1}
<1> DEFINE q == t \div n
           r == t % n
           p == (t + 1) \div n
           s == (t + 1) % n
<1>1. t = n * q + r /\ r \in 0..(n - 1) /\ q \in Int
  OBVIOUS
<1>2. t + 1 = n * p + s /\ s \in 0..(n - 1) /\ p \in Int
  OBVIOUS
<1> HIDE DEF q, r, p, s
<1>3. n * (p - q) = r + 1 - s
  BY <1>1, <1>2
<1>4. CASE p = q
  BY <1>1, <1>2, <1>3, <1>4 DEF r, s
<1>5. CASE p >= q + 1
  <2>1. n * (p - q) >= n
    BY <1>1, <1>2, <1>5
  <2>2. s = 0
    BY <1>1, <1>2, <1>3, <2>1
  <2>3. QED
    BY <2>2 DEF s
<1>6. CASE p <= q - 1
  <2>1. n * (p - q) <= 0 - n
    BY <1>1, <1>2, <1>6
  <2>2. QED
    BY <1>1, <1>2, <1>3, <2>1
<1>7. QED
  BY <1>1, <1>2, <1>4, <1>5, <1>6

LEMMA CareBounds ==
  ASSUME Engine!CareAssumption
  PROVE  /\ Slow \in Nat \ {0} /\ Slower * NetTicks \in Nat \ {0} /\ 0 \in Ticks
         /\ CareFaults \in Nat /\ MaxApps \in Nat
         /\ \A t \in Ticks : /\ t \in Nat /\ t % Slow \in 0..(Slow - 1)
                             /\ (t + 1) % (Slower * NetTicks) \in Ticks
                             /\ ((t + 1) % (Slower * NetTicks)) % Slow \in {0, (t % Slow) + 1}
<1> DEFINE n == Slower * NetTicks
<1>1. Slow \in Nat \ {0} /\ n \in Nat \ {0}
  BY DEF Engine!CareAssumption
<1> HIDE DEF n
<1>2. ASSUME NEW t \in 0..(n - 1)
      PROVE  /\ t \in Nat /\ t % Slow \in 0..(Slow - 1) /\ (t + 1) % n \in 0..(n - 1)
             /\ ((t + 1) % n) % Slow \in {0, (t % Slow) + 1}
  <2>1. t \in Nat /\ t % Slow \in 0..(Slow - 1) /\ (t + 1) % n \in 0..(n - 1)
    BY <1>1, ModBounds
  <2>2. CASE t + 1 < n
    <3>1. (t + 1) % n = t + 1
      BY <1>1, <2>1, <2>2
    <3>2. QED
      BY <1>1, <2>1, <3>1, ModNext
  <2>3. CASE t + 1 = n
    <3>1. (t + 1) % n = 0
      BY <1>1, <2>3
    <3>2. 0 % Slow = 0
      BY <1>1, ModBounds
    <3>3. QED
      BY <2>1, <3>1, <3>2
  <2>4. QED
    BY <1>1, <2>1, <2>2, <2>3
<1>3. 0 \in 0..(n - 1)
  BY <1>1
<1>4. QED
  BY <1>1, <1>2, <1>3 DEF n, Engine!CareAssumption, Ticks

LEMMA CareInit == Engine!CareAssumption /\ Engine!Init => CareInv
<1> SUFFICES ASSUME Engine!CareAssumption, Engine!Init PROVE CareInv
  OBVIOUS
<1>1. /\ Slow \in Nat \ {0} /\ 0 \in Ticks /\ 0 \in 0..CareFaults /\ 0 \in 0..MaxApps
      /\ 0 \in 0..Slow
  BY CareBounds
<1>2. world \in Worlds /\ ~world.app
  BY <1>1 DEF Engine!Init, Worlds, Engine!Networks
<1>3. svc \in Services /\ svc.api = FALSE /\ svc.marker = FALSE
  BY <1>1 DEF Engine!Init, Services
<1>4. turn \in Turns /\ turn.pc = "look"
  BY DEF Engine!Init, Turns, TurnSteps
<1>5. net \in Nets
  BY DEF Engine!Init, Nets
<1>6. QED
  BY <1>2, <1>3, <1>4, <1>5 DEF CareInv, CareTypes, WrittenFirst, TriedSince

\* What goes on outside: the service's own variables stay, and its profile.
LEMMA OutsideNext ==
  ASSUME Engine!CareAssumption, CareInv, Engine!Breakdowns \/ Engine!Setup \/ Engine!SignsIn
         \/ Engine!AppStarts \/ Engine!AppEnds
  PROVE  CareInv'
<1> USE DEF CareInv, CareTypes
<1>1. svc' = svc /\ turn' = turn /\ net' = net
  BY DEF Engine!Breakdowns, Engine!Setup, Engine!SignsIn, Engine!AppStarts, Engine!AppEnds
<1>2. world' \in Worlds /\ world'.ours = world.ours /\ (world'.app => world'.up)
  <2>0. CareFaults \in Nat /\ MaxApps \in Nat
    BY CareBounds
  <2>1. CASE Engine!Breakdowns
    <3>1. world.faults + 1 \in 0..CareFaults
      <4>1. world.faults < CareFaults /\ world.faults \in 0..CareFaults
        BY <2>1 DEF Engine!Breakdowns, Worlds
      <4>2. QED
        BY <2>0, <4>1
    <3>2. QED
      BY <2>1, <3>1, SMTT(40), ZenonT(60) DEF Engine!Breakdowns, Worlds
  <2>2. CASE Engine!Setup \/ Engine!SignsIn \/ Engine!AppEnds
    BY <2>2, SMTT(40), ZenonT(60) DEF Engine!Setup, Engine!SignsIn, Engine!AppEnds, Worlds
  <2>3. CASE Engine!AppStarts
    <3>1. world.apps + 1 \in 0..MaxApps
      BY <2>0, <2>3 DEF Engine!AppStarts, Worlds
    <3>2. QED
      BY <2>3, <3>1 DEF Engine!AppStarts, Worlds
  <2>4. QED
    BY <2>1, <2>2, <2>3
<1>3. QED
  BY <1>1, <1>2 DEF WrittenFirst, TriedSince, Phase

\* A refresh but for the step that tries the login and the one that sleeps.
LEMMA QuietNext ==
  ASSUME Engine!CareAssumption, CareInv,
         \/ Engine!NetcheckEnds \/ Engine!Look \/ Engine!ProfileAsks \/ Engine!ProfileReads
            \/ Engine!ProfileWrites
         \/ Engine!ProfileRestarts \/ Engine!ProfileWaits \/ Engine!ProfileMarks
            \/ Engine!ReadLog \/ Engine!Store
  PROVE  CareInv'
<1> USE DEF CareInv, CareTypes
<1>1. CASE Engine!NetcheckEnds
  <2>1. net' \in Nets /\ UNCHANGED <<world, svc, turn>>
    BY <1>1 DEF Engine!NetcheckEnds, Nets
  <2>2. QED
    BY <2>1 DEF WrittenFirst, TriedSince, Phase
<1>2. CASE Engine!Look
  <2>1. net' \in Nets
    BY <1>2 DEF Engine!Look, Engine!SpawnNetcheck, Nets, Worlds
  <2>2. svc' \in Services /\ svc'.tick = svc.tick /\ svc'.apiAge = svc.apiAge /\ svc'.api = svc.api
        /\ svc'.marker = svc.marker
    BY <1>2 DEF Engine!Look, Services, Worlds
  <2>3. turn' \in Turns /\ turn.pc = "look" /\ turn'.pc = "login" /\ world' = world
    BY <1>2 DEF Engine!Look, Engine!At, Turns, TurnSteps, Worlds
  <2>4. QED
    BY <2>1, <2>2, <2>3 DEF WrittenFirst, TriedSince, Phase
<1>3. ASSUME Engine!ProfileAsks \/ Engine!ProfileReads \/ Engine!ProfileWrites
             \/ Engine!ProfileRestarts \/ Engine!ProfileWaits
             \/ Engine!ProfileMarks \/ Engine!ReadLog
      PROVE  CareInv'
  <2>1. net' = net
    BY <1>3, SMTT(40), ZenonT(60)
       DEF Engine!ProfileAsks, Engine!ProfileReads, Engine!ProfileWrites,
           Engine!ProfileRestarts, Engine!ProfileWaits, Engine!ProfileMarks, Engine!ReadLog
  <2>2. \E to \in {"config", "write", "restart", "wait", "mark", "log", "store"},
            encoder \in BOOLEAN, silent \in BOOLEAN :
          turn' = [turn EXCEPT !.pc = to, !.encoder = encoder, !.silent = silent]
    <3>1. CASE Engine!ReadLog
      <4>1. PICK encoder \in BOOLEAN, silent \in BOOLEAN :
              turn' = [turn EXCEPT !.pc = "store", !.encoder = encoder, !.silent = silent]
        BY <3>1 DEF Engine!ReadLog, Services, Turns, Worlds
      <4>2. QED
        BY <4>1
    <3>2. CASE ~Engine!ReadLog
      <4>1. PICK to \in {"config", "write", "restart", "wait", "mark", "log"} :
                 turn' = [turn EXCEPT !.pc = to]
        BY <1>3, <3>2
           DEF Engine!ProfileAsks, Engine!ProfileReads, Engine!ProfileWrites,
               Engine!ProfileRestarts, Engine!ProfileWaits, Engine!ProfileMarks,
               Engine!ProfileOver
      <4>2. [turn EXCEPT !.pc = to] = [turn EXCEPT !.pc = to, !.encoder = turn.encoder,
            !.silent = turn.silent]
        BY DEF Turns
      <4>3. turn.encoder \in BOOLEAN /\ turn.silent \in BOOLEAN
        BY DEF Turns
      <4>4. QED
        BY <4>1, <4>2, <4>3
    <3>3. QED
      BY <3>1, <3>2
  <2>3. /\ turn' \in Turns /\ turn'.api = turn.api
        /\ turn'.pc \in {"config", "write", "restart", "wait", "mark", "log", "store"}
    BY <2>2 DEF Turns, TurnSteps
  <2>7. turn.pc \in {"profile", "config", "write", "restart", "wait", "mark", "log"}
    BY <1>3
       DEF Engine!ProfileAsks, Engine!ProfileReads, Engine!ProfileWrites,
           Engine!ProfileRestarts, Engine!ProfileWaits, Engine!ProfileMarks, Engine!ReadLog,
           Engine!At
  <2>8. world' \in Worlds /\ (world'.app => world'.up) /\ (world.ours => world'.ours)
    BY <1>3
       DEF Engine!ProfileAsks, Engine!ProfileReads, Engine!ProfileWrites,
           Engine!ProfileRestarts, Engine!ProfileWaits, Engine!ProfileMarks, Engine!ReadLog,
           Worlds
  <2>9. turn'.pc \in {"restart", "wait", "mark"} => world'.ours
    <3>1. CASE Engine!ProfileAsks \/ Engine!ProfileReads
      BY <3>1 DEF Engine!ProfileAsks, Engine!ProfileReads, Engine!ProfileOver, Turns
    <3>2. CASE Engine!ProfileWrites
      BY <3>2 DEF Engine!ProfileWrites, Engine!ProfileOver, Turns, Worlds
    <3>3. CASE Engine!ProfileRestarts \/ Engine!ProfileWaits
      <4>1. world.ours
        BY <3>3 DEF Engine!ProfileRestarts, Engine!ProfileWaits, Engine!At, WrittenFirst
      <4>2. QED
        BY <2>8, <4>1
    <3>4. CASE Engine!ProfileMarks \/ Engine!ReadLog
      BY <3>4 DEF Engine!ProfileMarks, Engine!ReadLog, Engine!ProfileOver, Turns
    <3>5. QED
      BY <1>3, <3>1, <3>2, <3>3, <3>4
  <2>10. svc' \in Services /\ svc'.tick = svc.tick /\ svc'.apiAge = svc.apiAge
        /\ (svc'.marker => world.ours)
    BY <1>3
       DEF Engine!ProfileAsks, Engine!ProfileReads, Engine!ProfileWrites,
           Engine!ProfileRestarts, Engine!ProfileWaits, Engine!ProfileMarks, Engine!ReadLog,
           Engine!At, Services, WrittenFirst
  <2>11. QED
    BY <2>1, <2>3, <2>7, <2>8, <2>9, <2>10 DEF WrittenFirst, TriedSince, Phase
<1>4. CASE Engine!Store
  <2>1. svc' \in Services /\ svc'.tick = svc.tick /\ svc'.apiAge = svc.apiAge /\ svc'.api = turn.api
        /\ svc'.marker = svc.marker
    BY <1>4 DEF Engine!Store, Services, Turns
  <2>2. turn' \in Turns /\ turn.pc = "store" /\ turn'.pc = "care" /\ UNCHANGED <<world, net>>
    BY <1>4 DEF Engine!Store, Engine!At, Turns, TurnSteps
  <2>3. QED
    BY <2>1, <2>2 DEF WrittenFirst, TriedSince, Phase
<1>5. QED
  BY <1>1, <1>2, <1>3, <1>4

LEMMA LoginTried == ASSUME Engine!CareAssumption, CareInv, Engine!Login PROVE CareInv'
<1> USE DEF CareInv, CareTypes
<1>0. Slow \in Nat \ {0} /\ Phase \in 0..(Slow - 1) /\ svc.tick \in Ticks
  BY CareBounds DEF Services, Phase
<1>1. turn' \in Turns /\ turn.pc = "login" /\ turn'.pc = "profile" /\ UNCHANGED <<world, net>>
  BY ZenonT(60) DEF Engine!Login, Engine!At, Turns, TurnSteps, Worlds, Services
<1>2. svc.apiAge \in 0..Slow
  BY DEF Services
<1>3. \A age \in 0..Slow : [svc EXCEPT !.apiAge = age] \in Services
  BY DEF Services
<1>4. \/ svc' = [svc EXCEPT !.apiAge = 0]
      \/ svc' = [svc EXCEPT !.apiAge = IF svc.apiAge < Slow THEN svc.apiAge + 1 ELSE svc.apiAge]
  BY DEF Engine!Login
<1>5. svc' \in Services
  BY <1>0, <1>2, <1>3, <1>4
<1>6. svc'.tick = svc.tick /\ svc'.marker = svc.marker
  BY <1>4 DEF Services
<1>7. turn'.api => svc'.apiAge <= Phase
  <2>1. CASE turn.running /\ turn.creds /\ (Engine!Every(Slow) \/ ~svc.api)
    <3>1. svc'.apiAge = 0
      BY <2>1 DEF Engine!Login, Services
    <3>2. QED
      BY <1>0, <3>1
  <2>2. CASE ~(turn.running /\ turn.creds /\ (Engine!Every(Slow) \/ ~svc.api))
    <3>1. /\ turn'.api = (turn.running /\ svc.api)
          /\ svc'.apiAge = IF ~turn.creds THEN 0
                           ELSE IF svc.apiAge < Slow THEN svc.apiAge + 1 ELSE svc.apiAge
      BY <2>2 DEF Engine!Login, Services, Turns
    <3>2. CASE turn.running /\ turn.creds /\ svc.api
      <4>1. Phase # 0
        BY <2>2, <3>2 DEF Engine!Every, Phase
      <4>2. svc.apiAge < Phase
        BY <1>1, <3>2, <4>1 DEF TriedSince
      <4>3. QED
        BY <1>0, <1>2, <3>1, <3>2, <4>2
    <3>3. CASE ~(turn.running /\ svc.api)
      BY <3>1, <3>3
    <3>4. CASE ~turn.creds
      BY <1>0, <3>1, <3>4
    <3>5. QED
      BY <3>2, <3>3, <3>4
  <2>3. QED
    BY <2>1, <2>2
<1>8. QED
  BY <1>1, <1>5, <1>6, <1>7 DEF WrittenFirst, TriedSince, Phase

LEMMA CareTurns == ASSUME Engine!CareAssumption, CareInv, Engine!Care PROVE CareInv'
<1> USE DEF CareInv, CareTypes
<1>0. /\ Slow \in Nat \ {0} /\ svc.tick \in Ticks
      /\ svc.tick \in Nat /\ Phase \in 0..(Slow - 1)
      /\ (svc.tick + 1) % (Slower * NetTicks) \in Ticks
      /\ ((svc.tick + 1) % (Slower * NetTicks)) % Slow \in {0, Phase + 1}
  <2>1. svc.tick \in Ticks
    BY DEF Services
  <2>2. QED
    BY <2>1, CareBounds DEF Phase
<1>1. turn' \in Turns /\ turn.pc = "care" /\ turn'.pc = "look" /\ net' = net
  BY DEF Engine!Care, Engine!Sleep, Engine!At, Turns, TurnSteps
<1>2. world' \in Worlds /\ world'.ours = world.ours /\ (world'.app => world'.up)
  BY DEF Engine!Care, Engine!TakeOver, Worlds
<1>3. svc' = [svc EXCEPT !.tick = (svc.tick + 1) % (Slower * NetTicks)]
  BY DEF Engine!Care, Engine!Sleep
<1>4. svc' \in Services /\ svc'.tick = (svc.tick + 1) % (Slower * NetTicks)
      /\ svc'.api = svc.api /\ svc'.apiAge = svc.apiAge /\ svc'.marker = svc.marker
  BY <1>0, <1>3 DEF Services
<1>5. Phase' \in {0, Phase + 1}
  BY <1>0, <1>4 DEF Phase
<1>6. svc.api => svc.apiAge <= Phase /\ svc.apiAge \in Nat
  BY <1>0, <1>1 DEF TriedSince, Services
<1>7. svc'.api => svc'.apiAge < (IF Phase' = 0 THEN Slow ELSE Phase')
  BY <1>0, <1>4, <1>5, <1>6
<1>8. QED
  BY <1>1, <1>2, <1>4, <1>7 DEF WrittenFirst, TriedSince

LEMMA CareNext == ASSUME Engine!CareAssumption, CareInv, [Engine!Next]_Engine!vars PROVE CareInv'
<1>1. CASE UNCHANGED Engine!vars
  BY <1>1 DEF Engine!vars, CareInv, CareTypes, WrittenFirst, TriedSince, Phase
<1>2. QED
  BY <1>1, OutsideNext, QuietNext, LoginTried, CareTurns DEF Engine!Next, Engine!Refresh

LEMMA CareMeans == Engine!CareAssumption /\ CareInv
  => Engine!TypeOK /\ Engine!MarkedMeansOurs /\ Engine!LoginIsRecent
<1> SUFFICES ASSUME Engine!CareAssumption, CareInv
                    PROVE Engine!TypeOK /\ Engine!MarkedMeansOurs /\ Engine!LoginIsRecent
  OBVIOUS
<1>1. Engine!TypeOK
  BY DEF Engine!TypeOK, CareInv, CareTypes, Worlds, Services, Turns, Nets, Ticks, TurnSteps
<1>2. Engine!MarkedMeansOurs
  BY DEF Engine!MarkedMeansOurs, CareInv, WrittenFirst
<1>3. Engine!LoginIsRecent
  <2>1. svc.tick \in Ticks /\ svc.apiAge \in 0..Slow
    BY DEF CareInv, CareTypes, Services
  <2>2. Slow \in Nat \ {0} /\ Phase \in 0..(Slow - 1)
    BY <2>1, CareBounds DEF Phase
  <2>3. QED
    BY <2>1, <2>2 DEF Engine!LoginIsRecent, CareInv, TriedSince, Engine!At
<1>4. QED
  BY <1>1, <1>2, <1>3

\* For any periods, apps and faults: the marker is there only when the engine
\* has Latch's profile, and a login that is shown as working worked within the
\* last Slow refreshes, or host.toml loaded without one within them
\* (upgrade_stream_profile, refresh).
THEOREM EngineIsCaredFor ==
  ASSUME Engine!CareAssumption
  PROVE  Engine!Spec => [](Engine!TypeOK /\ Engine!MarkedMeansOurs /\ Engine!LoginIsRecent)
<1>1. Engine!Init => CareInv
  BY CareInit
<1>2. CareInv /\ [Engine!Next]_Engine!vars => CareInv'
  BY CareNext
<1>3. CareInv => Engine!TypeOK /\ Engine!MarkedMeansOurs /\ Engine!LoginIsRecent
  BY CareMeans
<1>4. QED
  BY <1>1, <1>2, <1>3, PTL DEF Engine!Spec

-----------------------------------------------------------------------------
(* The setup of a Windows PC.                                              *)

\* EngineSetup's variables.
pc == v1
script == v2
past == v3
USE DEF pc, script, past

Pairs == {Install!None, "part", "paired", "fresh"}
EngineRecords == [files : {Install!None, "exe", "whole"}, pair : Pairs, login : BOOLEAN, ours :
  BOOLEAN,
            branded : BOOLEAN]
PCs == [dirs : [Install!Dirs -> EngineRecords], bak : BOOLEAN,
        svc : [Install!Dirs -> {Install!None, "auto", "manual", "disabled"}], runs :
          Install!Dirs \cup {Install!None},
        wrapped : BOOLEAN, rules : Install!Dirs \cup {Install!None}, tail : BOOLEAN, modes :
          BOOLEAN]
Before == {"retire", "pick", "unpack", "copy"}
Moving == {"state", "state copied"}
Moved == {"backup", "conf", "brand", "brand ends", "stop old", "register", "prove", "uninstall"}
After == {"clean", "brand existing", "existing ends", "conf again", "creds"}
Own == {"take over", "rules", "modes", "tail", "end"}
ScriptSteps == {"idle", "copied"} \cup Before \cup Moving \cup Moved \cup After \cup Own
Scripts == [at : ScriptSteps, migrate : BOOLEAN, install : BOOLEAN, dir :
  Install!Dirs \cup {Install!None}, error : BOOLEAN]
SetupPasts == [faults : 0..SetupFaults, runs : 0..SetupRuns, result :
  {Install!None, "ok", "failed"}, paired : BOOLEAN]
SetupTypes == pc \in PCs /\ script \in Scripts /\ past \in SetupPasts
RunsOk(p) == /\ p.runs # Install!None => p.dirs[p.runs].files # Install!None
             /\ p.wrapped => p.runs # Install!None /\ p.svc[p.runs] # Install!None
OthersKept ==
  /\ \A d \in {"old", "msi"} :
       Install!Has(d) => pc.dirs[d].files = "whole" /\ pc.dirs[d].pair = "paired"
         /\ pc.dirs[d].login
  /\ \A d \in {"old", "msi"} : pc.svc[d] # Install!None => Install!Has(d)
Migrates ==
  /\ script.migrate => script.install
  /\ script.at \in Moving \cup {"backup", "prove", "uninstall", "clean"} => script.migrate
  /\ script.migrate /\ script.at \in Before \cup {"copied"} \cup Moving \cup Moved
     => Install!Has("msi")
  /\ script.migrate /\ script.at \in Before => ~Install!Has("latch") /\ ~Install!Has("old")
  /\ script.migrate /\ script.at \in Moving \cup Moved => pc.dirs["latch"].files = "whole"
  /\ script.migrate /\ script.at \in Moved \cup After
     => pc.dirs["latch"].pair = "paired" /\ pc.dirs["latch"].login
  /\ script.migrate /\ script.at \in (Moved \cup After) \ {"backup"} => pc.bak
  /\ script.at = "uninstall" => pc.runs # Install!None
DirKnown ==
  /\ script.at \in Moving \cup Moved \cup {"clean"} => script.dir = "latch"
  /\ script.at \in After => script.dir \in {"latch", "msi"}
TailFirst == (script.at = "end" \/ past.result # Install!None => pc.tail)
  /\ (script.at # "idle" => past.result = Install!None)
Done == past.result = "ok"
Smooth ==
  /\ ~script.error /\ past.result # "failed"
  /\ Install!Has("latch") /\ ~Install!At("copied") => pc.dirs["latch"].files = "whole"
  /\ past.paired /\ ~Install!Has("old") /\ ~Install!Has("msi")
     => Install!Has("latch") /\ pc.dirs["latch"].pair = "paired"
  /\ Install!Has("old")
     => /\ script.at \in {"idle", "retire"} /\ ~Done /\ ~Install!Has("latch") /\ ~Install!Has("msi")
        /\ Install!At("retire") => script.install
  /\ Install!Has("msi")
     => \/ script.migrate /\ script.at \in Before \cup {"copied"} \cup Moving \cup Moved
        \/ Install!At("idle") /\ ~Done /\ ~Install!Has("latch")
  /\ script.at \in {"copied"} \cup Moving \cup Moved \cup After \cup Own \/ Done
     => Install!Has("latch")
  /\ script.at \in After => script.dir = "latch"
  /\ script.at \in {"retire", "pick"} /\ ~script.install => Install!Has("latch")
  /\ script.at \in {"prove", "uninstall"} \cup After \cup Own \/ Done
     => pc.svc["latch"] # Install!None
  /\ Install!Has("latch")
     /\ (script.at \in {"idle", "retire"} \/ (Install!At("pick") /\ ~script.install))
        => pc.svc["latch"] # Install!None
  /\ script.at \in {"creds"} \cup Own \/ Done => pc.dirs["latch"].ours
  /\ script.at \in Own \/ Done
     => pc.dirs["latch"].login /\ pc.dirs["latch"].pair \notin {Install!None, "part"}
  /\ Install!At("prove") => pc.runs # Install!None

SetupInv ==
  /\ SetupTypes /\ RunsOk(pc) /\ OthersKept /\ Install!PairingSurvives
  /\ Migrates /\ DirKnown /\ TailFirst
  /\ past.faults = 0 => Smooth

\* What starting and stopping engines, and adding to what is there, comes to.
Alike(p, q) ==
  /\ q \in PCs /\ (p.bak => q.bak) /\ (p.tail => q.tail)
  /\ \A x \in Install!Dirs :
       /\ q.dirs[x].files = p.dirs[x].files /\ (p.dirs[x].ours => q.dirs[x].ours)
       /\ q.svc[x] = Install!None <=> p.svc[x] = Install!None
       /\ \/ q.dirs[x].pair = p.dirs[x].pair /\ (p.dirs[x].login => q.dirs[x].login)
          \/ p.dirs[x].pair \in {Install!None, "part"} /\ q.dirs[x].pair = "fresh"

LEMMA AlikeSelf == \A p \in PCs : Alike(p, p)
BY DEF Alike

LEMMA AlikeTwice ==
  ASSUME NEW p \in PCs, NEW q \in PCs, NEW r \in PCs, Alike(p, q), Alike(q, r)
  PROVE  Alike(p, r)
<1> SUFFICES ASSUME NEW x \in Install!Dirs
             PROVE  \/ r.dirs[x].pair = p.dirs[x].pair /\ (p.dirs[x].login => r.dirs[x].login)
                    \/ p.dirs[x].pair \in {Install!None, "part"} /\ r.dirs[x].pair = "fresh"
  BY DEF Alike
<1>1. \/ q.dirs[x].pair = p.dirs[x].pair /\ (p.dirs[x].login => q.dirs[x].login)
      \/ p.dirs[x].pair \in {Install!None, "part"} /\ q.dirs[x].pair = "fresh"
  BY DEF Alike
<1>2. \/ r.dirs[x].pair = q.dirs[x].pair /\ (q.dirs[x].login => r.dirs[x].login)
      \/ q.dirs[x].pair \in {Install!None, "part"} /\ r.dirs[x].pair = "fresh"
  BY DEF Alike
<1>3. QED
  BY <1>1, <1>2 DEF Install!None

LEMMA StoppedAlike ==
  ASSUME NEW p \in PCs
  PROVE  /\ Alike(p, Install!Stopped(p)) /\ RunsOk(Install!Stopped(p)) /\ Install!Stopped(p) \in PCs
         /\ Install!Stopped(p).runs = Install!None /\ Install!Stopped(p).svc = p.svc
         /\ Install!Stopped(p).dirs = p.dirs
         /\ Install!Stopped(p).bak = p.bak /\ Install!Stopped(p).tail = p.tail
<1> DEFINE q == Install!Stopped(p)
<1>1. /\ q \in PCs /\ q.dirs = p.dirs /\ q.svc = p.svc /\ q.bak = p.bak /\ q.tail = p.tail
      /\ q.runs = Install!None /\ q.wrapped = FALSE
  BY DEF Install!Stopped, PCs
<1> HIDE DEF q
<1>2. Alike(p, q) /\ RunsOk(q)
  BY <1>1 DEF Alike, RunsOk
<1>3. QED
  BY <1>1, <1>2 DEF q

LEMMA StartedAlike ==
  ASSUME NEW p \in PCs, NEW d \in Install!Dirs, NEW w \in BOOLEAN, p.dirs[d].files # Install!None,
         w => p.svc[d] # Install!None
  PROVE  /\ Alike(p, Install!Started(p, d, w)) /\ RunsOk(Install!Started(p, d, w))
         /\ Install!Started(p, d, w) \in PCs
         /\ Install!Started(p, d, w).runs = d
<1> DEFINE q == Install!Started(p, d, w)
<1>1. p.dirs[d] \in EngineRecords /\ p.dirs \in [Install!Dirs -> EngineRecords]
  BY DEF PCs
<1>2. q.dirs \in [Install!Dirs -> EngineRecords]
  BY <1>1, SMTT(40), ZenonT(60) DEF Install!Started, PCs, EngineRecords, Pairs
<1>3. q \in PCs
  BY <1>1, <1>2 DEF Install!Started, PCs
<1>4. q.runs = d /\ q.wrapped = w /\ q.svc = p.svc /\ q.bak = p.bak /\ q.tail = p.tail
  BY <1>1 DEF Install!Started, PCs
<1>5. \A x \in Install!Dirs \ {d} : q.dirs[x] = p.dirs[x]
  BY <1>1 DEF Install!Started, PCs, EngineRecords
<1>6. q.dirs[d].files = p.dirs[d].files /\ q.dirs[d].ours = p.dirs[d].ours
  BY <1>1 DEF Install!Started, PCs, EngineRecords
<1>7. q.dirs[d].pair = IF p.dirs[d].pair \in {Install!None, "part"} THEN "fresh" ELSE p.dirs[d].pair
  BY <1>1 DEF Install!Started, PCs, EngineRecords
<1>8. q.dirs[d].login = (p.dirs[d].login /\ p.dirs[d].pair \notin {Install!None, "part"})
  BY <1>1 DEF Install!Started, PCs, EngineRecords
<1> HIDE DEF q
<1>9. d # Install!None
  BY DEF Install!Dirs, Install!None
<1>10. Alike(p, q)
  <2>1. \A x \in Install!Dirs \ {d} : /\ q.dirs[x].files = p.dirs[x].files
                                         /\ (p.dirs[x].ours => q.dirs[x].ours)
                                      /\ q.dirs[x].pair = p.dirs[x].pair
                                         /\ (p.dirs[x].login => q.dirs[x].login)
    BY <1>5
  <2>2. \/ q.dirs[d].pair = p.dirs[d].pair /\ (p.dirs[d].login => q.dirs[d].login)
        \/ p.dirs[d].pair \in {Install!None, "part"} /\ q.dirs[d].pair = "fresh"
    BY <1>7, <1>8
  <2>3. QED
    BY <1>3, <1>4, <1>6, <2>1, <2>2 DEF Alike
<1>11. RunsOk(q)
  BY <1>4, <1>6, <1>9 DEF RunsOk
<1>12. QED
  BY <1>3, <1>4, <1>10, <1>11 DEF q

LEMMA ServiceAlike ==
  ASSUME NEW p \in PCs, NEW d \in Install!Dirs, RunsOk(p), p.svc[d] # Install!None
  PROVE  /\ Alike(p, Install!ServiceStarts(p, d)) /\ RunsOk(Install!ServiceStarts(p, d))
         /\ Install!ServiceStarts(p, d) \in PCs
         /\ p.dirs[d].files = "whole" => Install!ServiceStarts(p, d).runs # Install!None
<1>1. CASE p.runs = Install!None /\ p.dirs[d].files = "whole"
  <2>1. Install!ServiceStarts(p, d) = Install!Started(p, d, TRUE) /\ p.dirs[d].files # Install!None
    BY <1>1 DEF Install!ServiceStarts, Install!None
  <2>2. d # Install!None
    BY DEF Install!Dirs, Install!None
  <2>3. QED
    BY <2>1, <2>2, StartedAlike, SMTT(40), ZenonT(60)
<1>2. CASE ~(p.runs = Install!None /\ p.dirs[d].files = "whole")
  BY <1>2, AlikeSelf DEF Install!ServiceStarts
<1>3. QED
  BY <1>1, <1>2

LEMMA TakeOverAlike ==
  ASSUME NEW p \in PCs, RunsOk(p), NEW q \in Install!TakeOver(p)
  PROVE  Alike(p, q) /\ RunsOk(q) /\ q \in PCs
<1> DEFINE d == IF p.dirs["latch"].files # Install!None THEN "latch" ELSE "old"
           quiet == [p EXCEPT !.svc = [x \in Install!Dirs |-> IF x # "msi" /\ @[x] # Install!None
             THEN "manual" ELSE @[x]]]
<1>1. d \in Install!Dirs
  BY DEF Install!Dirs
<1>2. /\ quiet \in PCs /\ quiet.dirs = p.dirs /\ quiet.bak = p.bak /\ quiet.tail = p.tail
      /\ quiet.runs = p.runs /\ quiet.wrapped = p.wrapped
      /\ \A x \in Install!Dirs : quiet.svc[x] = Install!None <=> p.svc[x] = Install!None
  BY DEF PCs, Install!None
<1>3. Alike(p, quiet) /\ RunsOk(quiet)
  BY <1>2 DEF Alike, RunsOk, PCs
<1>4. \/ q = p
      \/ p.dirs[d].files # Install!None /\ q = Install!Started(quiet, d, FALSE)
      \/ q = quiet
  BY DEF Install!TakeOver
<1> HIDE DEF d, quiet
<1>5. CASE p.dirs[d].files # Install!None /\ q = Install!Started(quiet, d, FALSE)
  BY <1>1, <1>2, <1>3, <1>5, StartedAlike, AlikeTwice
<1>6. QED
  BY <1>2, <1>3, <1>4, <1>5, AlikeSelf

\* What a step that adds to the engines leaves true of them.
Latch == pc.dirs["latch"]
LatchKept ==
  /\ Install!Has("latch")' <=> Install!Has("latch")
  /\ Install!Has("old")' <=> Install!Has("old")
  /\ Install!Has("msi")' <=> Install!Has("msi")
  /\ Latch'.files = Latch.files /\ (Latch.ours => Latch'.ours)
  /\ Latch.pair = "paired" => Latch'.pair = "paired" /\ (Latch.login => Latch'.login)
  /\ Latch.pair \notin {Install!None, "part"} =>
       Latch'.pair \notin {Install!None, "part"} /\ (Latch.login => Latch'.login)
  /\ pc'.svc["latch"] # Install!None <=> pc.svc["latch"] # Install!None
  /\ (pc.bak => pc'.bak) /\ (pc.tail => pc'.tail)

LEMMA AlikeKeeps ==
  ASSUME SetupInv, Alike(pc, pc'), past'.paired = past.paired
  PROVE  pc' \in PCs /\ LatchKept /\ OthersKept' /\ Install!PairingSurvives'
<1>1. \A x \in Install!Dirs :
        /\ pc'.dirs[x].files = pc.dirs[x].files /\ (pc.dirs[x].ours => pc'.dirs[x].ours)
        /\ pc'.svc[x] = Install!None <=> pc.svc[x] = Install!None
        /\ pc.dirs[x].pair = "paired"
           => pc'.dirs[x].pair = "paired" /\ (pc.dirs[x].login => pc'.dirs[x].login)
        /\ pc.dirs[x].pair \notin {Install!None, "part"} =>
             pc'.dirs[x].pair \notin {Install!None, "part"}
               /\ (pc.dirs[x].login => pc'.dirs[x].login)
  BY DEF Alike, Install!None
<1>2. "latch" \in Install!Dirs /\ "old" \in Install!Dirs /\ "msi" \in Install!Dirs
  BY DEF Install!Dirs
<1>3. LatchKept
  BY <1>1, <1>2 DEF LatchKept, Latch, Install!Has, Alike
<1>4. OthersKept'
  BY <1>1, <1>2 DEF SetupInv, OthersKept, Install!Has
<1>5. Install!PairingSurvives'
  BY <1>1 DEF SetupInv, Install!PairingSurvives, Alike
<1>6. QED
  BY <1>3, <1>4, <1>5 DEF Alike

MsiStays == Install!Has("msi") => Install!Has("msi")'

PastSame ==
  /\ past' \in SetupPasts /\ past'.paired = past.paired /\ past'.result = past.result
  /\ past'.faults = 0 => past.faults = 0

LEMMA SetupPastStays ==
  Install!SetupAssumption /\ SetupInv =>
    /\ Install!NoFault => PastSame
    /\ Install!Fault => PastSame /\ past'.faults # 0
<1> SUFFICES ASSUME Install!SetupAssumption, SetupInv
                    PROVE (Install!NoFault => PastSame)
                          /\ (Install!Fault => PastSame /\ past'.faults # 0)
  OBVIOUS
<1>1. past \in SetupPasts
  BY DEF SetupInv, SetupTypes
<1>2. ASSUME Install!Fault PROVE PastSame /\ past'.faults # 0
  <2>1. past.faults \in 0..SetupFaults /\ past.faults < SetupFaults
    BY <1>1, <1>2 DEF Install!Fault, SetupPasts
  <2>3. past' = [past EXCEPT !.faults = past.faults + 1]
    BY <1>2 DEF Install!Fault
  <2>2. past.faults + 1 \in 0..SetupFaults /\ past.faults + 1 # 0
    BY <2>1 DEF Install!SetupAssumption
  <2>4. QED
    BY <1>1, <2>2, <2>3 DEF PastSame, SetupPasts
<1>3. QED
  BY <1>1, <1>2 DEF Install!NoFault, PastSame

LEMMA GotoMeans ==
  ASSUME SetupInv, NEW to \in ScriptSteps, Install!Goto(to)
  PROVE  /\ script' \in Scripts /\ script'.at = to /\ script'.migrate = script.migrate
         /\ script'.install = script.install /\ script'.dir = script.dir
         /\ script'.error = script.error
BY DEF SetupInv, SetupTypes, Scripts, Install!Goto

\* The steps that only start and stop engines, or add to what is there.
Follows(from, to) ==
  \/ from = "unpack" /\ to = "copy"
  \/ from = "backup" /\ to = "conf"
  \/ from = "conf" /\ to = "brand"
  \/ from = "conf again" /\ to = "creds"
  \/ from = "brand" /\ to = "brand ends"
  \/ from = "brand existing" /\ to = "existing ends"
  \/ from = "brand ends" /\ to = "stop old"
  \/ from = "existing ends" /\ to = "conf again"
  \/ from = "stop old" /\ to = "register"
  \/ from = "creds" /\ to = "take over"
  \/ from = "take over" /\ to = "rules"
  \/ from = "rules" /\ to = "modes"
  \/ from = "modes" /\ to = "tail"
  \/ from = "tail" /\ to = "end"

LEMMA AlikeMoves ==
  ASSUME SetupInv, Alike(pc, pc'), RunsOk(pc'), PastSame,
         NEW from \in ScriptSteps, NEW to \in ScriptSteps, script.at = from, Install!Goto(to),
         Follows(from, to),
         to = "conf" => pc'.bak,
         to = "creds" => pc'.dirs[script.dir].ours,
         to = "end" => pc'.tail,
         to = "take over" /\ past'.faults = 0
           => Latch'.login /\ Latch'.pair \notin {Install!None, "part"}
  PROVE  SetupInv' /\ MsiStays
<1>1. /\ script' \in Scripts /\ script'.at = to /\ script'.migrate = script.migrate
      /\ script'.install = script.install /\ script'.dir = script.dir
      /\ script'.error = script.error
  BY GotoMeans
<1>2. pc' \in PCs /\ LatchKept /\ OthersKept' /\ Install!PairingSurvives'
  BY AlikeKeeps DEF PastSame
<1>3. past'.result = past.result /\ past'.paired = past.paired /\ past' \in SetupPasts
      /\ (past'.faults = 0 => past.faults = 0)
  BY DEF PastSame
<1>4. Follows(from, to)
  OBVIOUS
<1>5. Migrates'
  BY <1>1, <1>2, <1>4
     DEF SetupInv, Migrates, Follows, LatchKept, Latch, Before, Moving, Moved, After
<1>6. DirKnown'
  BY <1>1, <1>4 DEF SetupInv, DirKnown, Follows, Moving, Moved, After
<1>7. TailFirst'
  BY <1>1, <1>2, <1>3, <1>4 DEF SetupInv, TailFirst, LatchKept, Follows
<1>8. past'.faults = 0 => Smooth'
  <2> SUFFICES ASSUME past'.faults = 0 PROVE Smooth'
    OBVIOUS
  <2>1. Smooth
    BY <1>3 DEF SetupInv
  <2>2. to = "creds" => Latch'.ours
    BY <1>4, <2>1 DEF Smooth, Follows, After, Latch
  <2>3. QED
    BY <1>1, <1>2, <1>3, <1>4, <2>1, <2>2, SMTT(40), ZenonT(60)
       DEF Smooth, Follows, LatchKept, Latch, Before, Moving, Moved, After, Own, Install!At, Done
<1>9. QED
  BY <1>1, <1>2, <1>3, <1>5, <1>6, <1>7, <1>8 DEF SetupInv, SetupTypes, LatchKept, MsiStays

LEMMA OursAlike ==
  ASSUME NEW p \in PCs, RunsOk(p), NEW d \in Install!Dirs
  PROVE  LET q == [p EXCEPT !.dirs[d].ours = TRUE] IN
         Alike(p, q) /\ RunsOk(q) /\ q.dirs[d].ours
<1> DEFINE q == [p EXCEPT !.dirs[d].ours = TRUE]
<1>1. p.dirs \in [Install!Dirs -> EngineRecords]
  BY DEF PCs
<1>8. q.dirs \in [Install!Dirs -> EngineRecords]
  <2>1. [p.dirs[d] EXCEPT !.ours = TRUE] \in EngineRecords
    BY <1>1 DEF EngineRecords
  <2>2. q.dirs = [p.dirs EXCEPT ![d] = [p.dirs[d] EXCEPT !.ours = TRUE]]
    BY <1>1 DEF PCs
  <2>3. QED
    BY <1>1, <2>1, <2>2
<1>2. q \in PCs /\ q.svc = p.svc /\ q.runs = p.runs /\ q.wrapped = p.wrapped /\ q.bak = p.bak
      /\ q.tail = p.tail
  BY <1>1, <1>8 DEF PCs
<1>3. \A x \in Install!Dirs : /\ q.dirs[x].files = p.dirs[x].files
                              /\ q.dirs[x].pair = p.dirs[x].pair
                              /\ q.dirs[x].login = p.dirs[x].login
                                 /\ (p.dirs[x].ours => q.dirs[x].ours)
  BY <1>1 DEF PCs, EngineRecords
<1>4. q.dirs[d].ours
  BY <1>1 DEF PCs, EngineRecords
<1> HIDE DEF q
<1>5. Alike(p, q)
  BY <1>2, <1>3 DEF Alike
<1>6. RunsOk(q)
  BY <1>2, <1>3 DEF RunsOk, PCs
<1>7. QED
  BY <1>4, <1>5, <1>6 DEF q

LEMMA BrandedAlike ==
  ASSUME NEW p \in PCs, RunsOk(p), NEW b \in BOOLEAN
  PROVE  LET q == [p EXCEPT !.dirs["latch"].branded = b] IN Alike(p, q) /\ RunsOk(q) /\ q \in PCs
<1> DEFINE q == [p EXCEPT !.dirs["latch"].branded = b]
<1>1. p.dirs \in [Install!Dirs -> EngineRecords] /\ "latch" \in Install!Dirs
  BY DEF PCs, Install!Dirs
<1>8. q.dirs \in [Install!Dirs -> EngineRecords]
  BY <1>1 DEF PCs, EngineRecords
<1>2. q \in PCs /\ q.svc = p.svc /\ q.runs = p.runs /\ q.wrapped = p.wrapped /\ q.bak = p.bak
      /\ q.tail = p.tail
  BY <1>1, <1>8 DEF PCs
<1>3. \A x \in Install!Dirs : /\ q.dirs[x].files = p.dirs[x].files
                              /\ q.dirs[x].pair = p.dirs[x].pair
                              /\ q.dirs[x].login = p.dirs[x].login
                              /\ q.dirs[x].ours = p.dirs[x].ours
  BY <1>1 DEF PCs, EngineRecords
<1> HIDE DEF q
<1>4. Alike(p, q)
  BY <1>2, <1>3 DEF Alike
<1>5. RunsOk(q)
  BY <1>2, <1>3 DEF RunsOk, PCs
<1>6. QED
  BY <1>2, <1>4, <1>5 DEF q

LEMMA LoginAlike ==
  ASSUME NEW p \in PCs, RunsOk(p), NEW d \in Install!Dirs
  PROVE  LET q == [p EXCEPT !.dirs[d].login = TRUE,
                            !.dirs[d].pair = IF @ \in {Install!None, "part"} THEN "fresh" ELSE @]
         IN  Alike(p, q) /\ RunsOk(q) /\ q \in PCs /\ q.svc = p.svc
             /\ q.dirs[d].login /\ q.dirs[d].pair \notin {Install!None, "part"}
<1> DEFINE q == [p EXCEPT !.dirs[d].login = TRUE,
                          !.dirs[d].pair = IF @ \in {Install!None, "part"} THEN "fresh" ELSE @]
<1>1. p.dirs \in [Install!Dirs -> EngineRecords] /\ p.dirs[d] \in EngineRecords
  BY DEF PCs
<1>2. q.dirs \in [Install!Dirs -> EngineRecords]
  BY <1>1 DEF PCs, EngineRecords, Pairs
<1>3. q \in PCs
  BY <1>1, <1>2 DEF PCs
<1>4. q.svc = p.svc /\ q.runs = p.runs /\ q.wrapped = p.wrapped /\ q.bak = p.bak /\ q.tail = p.tail
  BY <1>1 DEF PCs
<1>5. \A x \in Install!Dirs \ {d} : q.dirs[x] = p.dirs[x]
  BY <1>1 DEF PCs, EngineRecords
<1>6. q.dirs[d].files = p.dirs[d].files /\ q.dirs[d].ours = p.dirs[d].ours /\ q.dirs[d].login = TRUE
  BY <1>1 DEF PCs, EngineRecords
<1>7. q.dirs[d].pair = IF p.dirs[d].pair \in {Install!None, "part"} THEN "fresh" ELSE p.dirs[d].pair
  BY <1>1 DEF PCs, EngineRecords
<1> HIDE DEF q
<1>8. Alike(p, q)
  <2>1. \A x \in Install!Dirs \ {d} : /\ q.dirs[x].files = p.dirs[x].files
                                         /\ (p.dirs[x].ours => q.dirs[x].ours)
                                      /\ q.dirs[x].pair = p.dirs[x].pair
                                         /\ (p.dirs[x].login => q.dirs[x].login)
    BY <1>5
  <2>2. \/ q.dirs[d].pair = p.dirs[d].pair /\ (p.dirs[d].login => q.dirs[d].login)
        \/ p.dirs[d].pair \in {Install!None, "part"} /\ q.dirs[d].pair = "fresh"
    BY <1>6, <1>7
  <2>3. QED
    BY <1>3, <1>4, <1>6, <2>1, <2>2 DEF Alike
<1>9. RunsOk(q)
  <2>1. \A x \in Install!Dirs : q.dirs[x].files = p.dirs[x].files
    BY <1>5, <1>6
  <2>2. QED
    BY <1>4, <2>1 DEF RunsOk, PCs
<1>10. q.dirs[d].login /\ q.dirs[d].pair \notin {Install!None, "part"}
  BY <1>6, <1>7 DEF Install!None
<1>11. QED
  BY <1>3, <1>4, <1>8, <1>9, <1>10 DEF q

LEMMA AlikeNext ==
  ASSUME Install!SetupAssumption, SetupInv,
         \/ Install!Unpack \/ Install!Backup \/ Install!Conf \/ Install!Brand
            \/ Install!BrandEnds \/ Install!StopOld \/ Install!Creds \/ Install!TakesOver
         \/ Install!Rules \/ Install!Modes \/ Install!Tail
  PROVE  SetupInv' /\ MsiStays
<1>0. pc \in PCs /\ RunsOk(pc) /\ Alike(pc, pc) /\ script \in Scripts
  BY AlikeSelf DEF SetupInv, SetupTypes
<1>p. Install!NoFault \/ Install!Fault => PastSame
  BY SetupPastStays
<1>s. {"backup", "brand ends", "brand existing", "brand", "conf again", "conf", "copy", "creds",
      "end", "existing ends", "modes", "register", "rules", "stop old", "tail", "take over",
        "unpack"} \subseteq ScriptSteps
  BY DEF ScriptSteps, Before, Moving, Moved, After, Own
<1>f. /\ Follows("unpack", "copy")
      /\ Follows("backup", "conf")
      /\ Follows("conf", "brand")
      /\ Follows("conf again", "creds")
      /\ Follows("brand", "brand ends")
      /\ Follows("brand existing", "existing ends")
      /\ Follows("brand ends", "stop old")
      /\ Follows("existing ends", "conf again")
      /\ Follows("stop old", "register")
      /\ Follows("creds", "take over")
      /\ Follows("take over", "rules")
      /\ Follows("rules", "modes")
      /\ Follows("modes", "tail")
      /\ Follows("tail", "end")
  BY DEF Follows
<1>m. ASSUME NEW from \in ScriptSteps, NEW to \in ScriptSteps, Install!At(from)
             /\ Install!Goto(to), Follows(from, to),
             Alike(pc, pc'), RunsOk(pc'), Install!NoFault \/ Install!Fault,
             to = "conf" => pc'.bak,
             to = "creds" => pc'.dirs[script.dir].ours,
             to = "end" => pc'.tail,
             to = "take over" /\ past'.faults = 0
               => Latch'.login /\ Latch'.pair \notin {Install!None, "part"}
      PROVE  SetupInv' /\ MsiStays
  BY <1>p, <1>m, AlikeMoves DEF Install!At
<1>1. CASE Install!Unpack
  <2>1. Install!At("unpack") /\ Install!Goto("copy") /\ Install!NoFault /\ pc' = pc
    BY <1>1 DEF Install!Unpack, Install!Move, Install!NoFault
  <2>2. QED
    BY <1>0, <2>1, <1>s, <1>f, <1>m
<1>2. CASE Install!Backup
  <2>1. Install!At("backup") /\ Install!Goto("conf") /\ Install!NoFault
        /\ pc' = [pc EXCEPT !.bak = TRUE]
    BY <1>2 DEF Install!Backup, Install!Move
  <2>2. Alike(pc, pc') /\ RunsOk(pc') /\ pc'.bak
    BY <1>0, <2>1 DEF Alike, RunsOk, PCs
  <2>3. QED
    BY <2>1, <2>2, <1>s, <1>f, <1>m
<1>3. CASE Install!Conf
  <2>1. script.dir \in Install!Dirs
    BY <1>3
       DEF Install!Conf, Install!Move, Install!At, SetupInv, DirKnown, Install!Dirs, After,
           Moved
  <2>2. Alike(pc, pc') /\ RunsOk(pc') /\ pc'.dirs[script.dir].ours /\ Install!NoFault
    BY <1>0, <1>3, <2>1, OursAlike DEF Install!Conf
  <2>3. CASE Install!Move("conf", "brand")
    BY <2>2, <2>3, <1>s, <1>f, <1>m DEF Install!Move
  <2>4. CASE Install!Move("conf again", "creds")
    BY <2>2, <2>4, <1>s, <1>f, <1>m DEF Install!Move
  <2>5. QED
    BY <1>3, <2>3, <2>4 DEF Install!Conf
<1>4. CASE Install!Brand
  <2>1. Alike(pc, pc') /\ RunsOk(pc') /\ Install!NoFault
    BY <1>0, <1>4, StoppedAlike DEF Install!Brand
  <2>2. CASE Install!Move("brand", "brand ends")
    BY <2>1, <2>2, <1>s, <1>f, <1>m DEF Install!Move
  <2>3. CASE Install!Move("brand existing", "existing ends")
    BY <2>1, <2>3, <1>s, <1>f, <1>m DEF Install!Move
  <2>4. QED
    BY <1>4, <2>2, <2>3 DEF Install!Brand
<1>5. CASE Install!BrandEnds
  <2> DEFINE back == IF pc.svc["latch"] \in {"auto", "manual"} /\ pc.runs = Install!None
                       THEN Install!ServiceStarts(pc, "latch") ELSE pc
  <2>1. back \in PCs /\ Alike(pc, back) /\ RunsOk(back)
    <3>1. "latch" \in Install!Dirs /\ "auto" # Install!None /\ "manual" # Install!None
      BY SMTT(40), ZenonT(60) DEF Install!Dirs, Install!None
    <3>2. QED
      BY <1>0, <3>1, ServiceAlike
  <2>2. \/ pc' = back
        \/ pc' = [back EXCEPT !.dirs["latch"].branded = back.dirs["latch"].branded
           \/ script.dir = "latch"]
    BY <1>5 DEF Install!BrandEnds
  <2> HIDE DEF back
  <2>3. Alike(pc, pc') /\ RunsOk(pc')
    <3>1. (back.dirs["latch"].branded \/ script.dir = "latch") \in BOOLEAN
      OBVIOUS
    <3>2. CASE pc' = back
      BY <2>1, <3>2
    <3>3. CASE pc' = [back EXCEPT !.dirs["latch"].branded = back.dirs["latch"].branded
               \/ script.dir = "latch"]
      BY <1>0, <2>1, <3>1, <3>3, BrandedAlike, AlikeTwice
    <3>4. QED
      BY <2>2, <3>2, <3>3
  <2>4. Install!NoFault
    BY <1>5 DEF Install!BrandEnds
  <2>5. CASE Install!Move("brand ends", "stop old")
    BY <2>3, <2>4, <2>5, <1>s, <1>f, <1>m DEF Install!Move
  <2>6. CASE Install!Move("existing ends", "conf again")
    BY <2>3, <2>4, <2>6, <1>s, <1>f, <1>m DEF Install!Move
  <2>7. QED
    BY <1>5, <2>5, <2>6 DEF Install!BrandEnds
<1>6. CASE Install!StopOld
  <2>1. \E p \in PCs : /\ Alike(pc, p) /\ RunsOk(p)
                       /\ \/ pc' = p
                          \/ pc' = [p EXCEPT !.svc["msi"] =
                               IF p.svc["msi"] = Install!None THEN p.svc["msi"] ELSE "disabled"]
    <3>1. \/ pc' = pc
          \/ pc' = [Install!Stopped(pc) EXCEPT !.svc["msi"] =
                IF Install!Stopped(pc).svc["msi"] = Install!None
                THEN Install!Stopped(pc).svc["msi"] ELSE "disabled"]
          \/ pc' = [pc EXCEPT !.svc["msi"] = IF pc.svc["msi"] = Install!None THEN pc.svc["msi"]
             ELSE "disabled"]
      BY <1>6 DEF Install!StopOld
    <3>2. QED
      BY <1>0, <3>1, StoppedAlike
  <2> PICK p \in PCs : /\ Alike(pc, p) /\ RunsOk(p)
                       /\ \/ pc' = p
                          \/ pc' = [p EXCEPT !.svc["msi"] =
                               IF p.svc["msi"] = Install!None THEN p.svc["msi"] ELSE "disabled"]
    BY <2>1
  <2>2. Alike(p, pc') /\ RunsOk(pc') /\ pc' \in PCs
    <3>1. CASE pc' = p
      BY <3>1, AlikeSelf
    <3>2. CASE pc' = [p EXCEPT !.svc["msi"] = IF p.svc["msi"] = Install!None THEN p.svc["msi"]
               ELSE "disabled"]
      <4>1. /\ pc' \in PCs /\ pc'.dirs = p.dirs /\ pc'.runs = p.runs /\ pc'.wrapped = p.wrapped
            /\ pc'.bak = p.bak /\ pc'.tail = p.tail
        BY <3>2 DEF PCs
      <4>2. \A x \in Install!Dirs : pc'.svc[x] = Install!None <=> p.svc[x] = Install!None
        BY <3>2 DEF PCs, Install!None
      <4>3. QED
        BY <4>1, <4>2 DEF Alike, RunsOk, PCs
    <3>3. QED
      BY <3>1, <3>2
  <2>3. Alike(pc, pc') /\ RunsOk(pc')
    BY <1>0, <2>2, AlikeTwice
  <2>4. Install!At("stop old") /\ Install!Goto("register") /\ (Install!NoFault \/ Install!Fault)
    BY <1>6 DEF Install!StopOld, Install!Move
  <2>5. QED
    BY <2>3, <2>4, <1>s, <1>f, <1>m
<1>7. CASE Install!TakesOver
  <2>1. Install!At("take over") /\ Install!Goto("rules") /\ (Install!NoFault \/ Install!Fault)
    BY <1>7 DEF Install!TakesOver, Install!Move
  <2>2. pc' = pc \/ pc' = Install!Stopped(pc) \/ pc' \in Install!TakeOver(pc)
    BY <1>7 DEF Install!TakesOver
  <2>3. Alike(pc, pc') /\ RunsOk(pc')
    BY <1>0, <2>2, StoppedAlike, TakeOverAlike
  <2>4. QED
    BY <2>1, <2>3, <1>s, <1>f, <1>m
<1>8. CASE Install!Rules
  <2>1. Install!At("rules") /\ Install!Goto("modes") /\ Install!NoFault
        /\ pc' = [pc EXCEPT !.rules = IF script.dir = Install!None THEN pc.rules ELSE script.dir]
    BY <1>8 DEF Install!Rules, Install!Move
  <2>2. script.dir \in Install!Dirs \cup {Install!None}
    BY <1>0 DEF Scripts
  <2>3. Alike(pc, pc') /\ RunsOk(pc')
    BY <1>0, <2>1, <2>2 DEF Alike, RunsOk, PCs
  <2>4. QED
    BY <2>1, <2>3, <1>s, <1>f, <1>m
<1>9. CASE Install!Modes
  <2>1. Install!At("modes") /\ Install!Goto("tail") /\ Install!NoFault
        /\ \E b \in BOOLEAN : pc' = [pc EXCEPT !.modes = b]
    BY <1>0, <1>9 DEF Install!Modes, Install!Move, PCs
  <2>2. Alike(pc, pc') /\ RunsOk(pc')
    BY <1>0, <2>1 DEF Alike, RunsOk, PCs
  <2>3. QED
    BY <2>1, <2>2, <1>s, <1>f, <1>m
<1>10. CASE Install!Tail
  <2>1. Install!At("tail") /\ Install!Goto("end") /\ Install!NoFault
        /\ pc' = [pc EXCEPT !.tail = TRUE]
    BY <1>10 DEF Install!Tail, Install!Move
  <2>2. Alike(pc, pc') /\ RunsOk(pc') /\ pc'.tail
    BY <1>0, <2>1 DEF Alike, RunsOk, PCs
  <2>3. QED
    BY <2>1, <2>2, <1>s, <1>f, <1>m
<1>11. CASE Install!Creds
  <2>1. Install!At("creds") /\ Install!Goto("take over") /\ Install!NoFault
        /\ script.dir \in Install!Dirs
    BY <1>11
       DEF Install!Creds, Install!Move, Install!At, SetupInv, DirKnown, Install!Dirs, After,
           Moved
  <2> DEFINE set == [pc EXCEPT !.dirs[script.dir].login = TRUE,
                               !.dirs[script.dir].pair = IF @ \in {Install!None, "part"}
                                 THEN "fresh" ELSE @]
  <2>2. /\ Alike(pc, set) /\ RunsOk(set) /\ set \in PCs /\ set.svc = pc.svc
        /\ set.dirs[script.dir].login /\ set.dirs[script.dir].pair \notin {Install!None, "part"}
    BY <1>0, <2>1, LoginAlike
  <2>3. \/ script.migrate /\ pc' = pc
        \/ pc' = set
        \/ \E d \in {"latch", "msi"} : set.svc[d] \in {"auto", "manual"}
           /\ pc' = Install!ServiceStarts(set, d)
    BY <1>11 DEF Install!Creds
  <2> HIDE DEF set
  <2>4. CASE script.migrate /\ pc' = pc
    <3>1. Latch'.login /\ Latch'.pair \notin {Install!None, "part"}
      BY <2>1, <2>4 DEF SetupInv, Migrates, Latch, Install!At, Install!None, After
    <3>2. QED
      BY <1>0, <2>1, <2>4, <3>1, <1>s, <1>f, <1>m
  <2>5. CASE ~(script.migrate /\ pc' = pc)
    <3>1. Alike(set, pc') /\ RunsOk(pc') /\ pc' \in PCs
      <4>1. \A d \in {"latch", "msi"} : d \in Install!Dirs
        BY DEF Install!Dirs
      <4>2. "auto" # Install!None /\ "manual" # Install!None
        BY DEF Install!None
      <4>3. QED
        BY <2>2, <2>3, <2>5, <4>1, <4>2, ServiceAlike, AlikeSelf
    <3>2. Alike(pc, pc')
      BY <1>0, <2>2, <3>1, AlikeTwice
    <3>3. pc'.dirs[script.dir].login /\ pc'.dirs[script.dir].pair \notin {Install!None, "part"}
      BY <2>1, <2>2, <3>1 DEF Alike
    <3>4. PastSame
      BY <2>1, <1>p
    <3>5. past'.faults = 0 => Latch'.login /\ Latch'.pair \notin {Install!None, "part"}
      <4>1. past'.faults = 0 => script.dir = "latch"
        BY <2>1, <3>4 DEF PastSame, SetupInv, Smooth, Install!At, After
      <4>2. QED
        BY <3>3, <4>1 DEF Latch
    <3>6. QED
      BY <2>1, <3>1, <3>2, <3>5, <1>s, <1>f, <1>m
  <2>6. QED
    BY <2>4, <2>5
<1>12. QED
  BY <1>1, <1>2, <1>3, <1>4, <1>5, <1>6, <1>7, <1>8, <1>9, <1>10, <1>11

\* Past the engine's part, nothing is asked of where the script is.
LEMMA RulesApart ==
  ASSUME script \in Scripts, Migrates, script' = Install!Failed
  PROVE  Migrates' /\ DirKnown'
<1>1. script'.at = "rules" /\ script'.migrate = script.migrate /\ script'.install = script.install
  BY DEF Install!Failed, Scripts
<1>2. script'.at \notin Before \cup {"copied"} \cup Moving \cup Moved \cup After
  BY <1>1 DEF Before, Moving, Moved, After
<1>3. script'.at \notin {"backup", "prove", "uninstall", "clean"}
  BY <1>1
<1>4. QED
  BY <1>1, <1>2, <1>3 DEF Migrates, DirKnown

\* The steps that leave the engines as they are, or end the script.
LEMMA ScriptNext ==
  ASSUME Install!SetupAssumption, SetupInv, Install!Run \/ Install!Pick \/ Install!Prove
         \/ Install!End \/ Install!Throws \/ Install!PowerCut \/ Install!HostStarts
  PROVE  SetupInv' /\ MsiStays
<1>0. /\ pc \in PCs /\ RunsOk(pc) /\ Alike(pc, pc) /\ script \in Scripts /\ past \in SetupPasts
      /\ OthersKept /\ Install!PairingSurvives /\ Migrates /\ DirKnown /\ TailFirst
  BY AlikeSelf DEF SetupInv, SetupTypes
<1>1. CASE Install!Run
  <2>1. /\ pc' = pc /\ past.runs + 1 \in 0..SetupRuns /\ Install!At("idle")
        /\ script' = [at |-> "retire", migrate |-> Install!Kind = "msi",
                      install |-> Install!Kind \in {Install!None, "msi", "old"}
                        \/ pc.runs = Install!None, dir |-> Install!None, error |-> FALSE]
        /\ past' = [past EXCEPT !.runs = past.runs + 1, !.result = Install!None]
    <3>1. past.runs < SetupRuns /\ past.runs \in 0..SetupRuns /\ SetupRuns \in Nat
      BY <1>0, <1>1 DEF Install!Run, SetupPasts, Install!SetupAssumption
    <3>2. past.runs + 1 \in 0..SetupRuns
      BY <3>1
    <3>3. script' = [Install!Idle EXCEPT !.at = "retire", !.migrate = Install!Kind = "msi",
                       !.install = Install!Kind \in {Install!None, "msi", "old"}
                         \/ pc.runs = Install!None]
      BY <1>1 DEF Install!Run
    <3>4. script' = [at |-> "retire", migrate |-> Install!Kind = "msi",
                      install |-> Install!Kind \in {Install!None, "msi", "old"}
                        \/ pc.runs = Install!None, dir |-> Install!None, error |-> FALSE]
      BY <3>3 DEF Install!Idle
    <3>5. QED
      BY <1>1, <3>2, <3>4 DEF Install!Run
  <2>2. /\ past' \in SetupPasts /\ past'.faults = past.faults /\ past'.paired = past.paired
        /\ past'.result = Install!None
    BY <1>0, <2>1 DEF SetupPasts
  <2>3. script' \in Scripts
    BY <2>1 DEF Scripts, ScriptSteps, Before
  <2>4. /\ Install!Has("latch") => Install!Kind = "latch"
        /\ Install!Kind = "msi"
           => Install!Has("msi") /\ ~Install!Has("latch") /\ ~Install!Has("old")
        /\ Install!Kind = "old" <=> Install!Has("old") /\ ~Install!Has("latch")
        /\ Install!Kind = "latch" => Install!Has("latch")
        /\ Install!Has("msi") /\ ~Install!Has("latch") /\ ~Install!Has("old")
           => Install!Kind = "msi"
        /\ Install!Kind \in {"latch", "old", "msi", Install!None}
    BY DEF Install!Kind, Install!None
  <2>5. pc' \in PCs /\ LatchKept /\ OthersKept' /\ Install!PairingSurvives' /\ RunsOk(pc')
    BY <1>0, <2>1, <2>2, AlikeKeeps
  <2>6. Migrates' /\ DirKnown' /\ TailFirst'
    BY <1>0, <2>1, <2>2, <2>4, <2>5
       DEF Migrates, DirKnown, TailFirst, Before, Moving, Moved, After, LatchKept
  <2>7. past'.faults = 0 => Smooth'
    BY <1>0, <2>1, <2>2, <2>4, <2>5
       DEF SetupInv, Smooth, Before, Moving, Moved, After, Own, LatchKept, Latch, Install!At,
           Done, Install!None
  <2>8. QED
    BY <2>2, <2>3, <2>5, <2>6, <2>7 DEF SetupInv, SetupTypes, LatchKept, MsiStays
<1>2. CASE Install!Pick
  <2> DEFINE dir == IF Install!Has("latch") THEN "latch" ELSE IF Install!Has("msi") THEN "msi"
      ELSE Install!None
             next == IF ~script.install THEN IF dir = Install!None THEN "rules"
               ELSE "brand existing"
                     ELSE IF dir # "latch" THEN "unpack"
                     ELSE IF pc.wrapped THEN "brand existing"
                     ELSE IF script.migrate THEN "state" ELSE "conf"
  <2>1. Install!At("pick") /\ pc' = pc /\ past' = past
        /\ script' = [script EXCEPT !.at = next, !.dir = dir]
    BY <1>2 DEF Install!Pick
  <2>2. dir \in {"latch", "msi", Install!None}
        /\ next \in {"rules", "brand existing", "unpack", "state", "conf"}
    OBVIOUS
  <2>3. /\ dir = "latch" <=> Install!Has("latch")
        /\ dir = "msi" => Install!Has("msi")
    BY DEF Install!None
  <2>4. /\ next = "rules" => ~script.install /\ ~Install!Has("latch")
        /\ next = "brand existing" => dir \in {"latch", "msi"}
        /\ next = "brand existing" /\ script.install => pc.wrapped /\ dir = "latch"
        /\ next \in {"state", "conf"} => dir = "latch"
        /\ next = "state" => script.migrate
        /\ next = "conf" => ~script.migrate
        /\ next = "unpack" => script.install
    BY <2>2, <2>3 DEF Install!None
  <2> HIDE DEF dir, next
  <2>5. /\ script' \in Scripts /\ script'.at = next /\ script'.dir = dir
        /\ script'.migrate = script.migrate
        /\ script'.install = script.install /\ script'.error = script.error
    BY <1>0, <2>1, <2>2 DEF Scripts, ScriptSteps, Before, Moving, Moved, After, Own, Install!Dirs
  <2>6. pc' \in PCs /\ LatchKept /\ OthersKept' /\ Install!PairingSurvives' /\ RunsOk(pc')
    BY <1>0, <2>1, AlikeKeeps
  <2>7. script.migrate => ~Install!Has("latch") /\ script.install
    BY <1>0, <2>1 DEF Migrates, Before, Install!At
  <2>8. Migrates'
    BY <1>0, <2>1, <2>2, <2>3, <2>4, <2>5, <2>6, <2>7
       DEF Migrates, Before, Moving, Moved, After, LatchKept, Install!At
  <2>9. DirKnown' /\ TailFirst'
    BY <1>0, <2>1, <2>2, <2>4, <2>5 DEF DirKnown, TailFirst, Moving, Moved, After, Install!At
  <2>10. past'.faults = 0 => Smooth'
    <3> SUFFICES ASSUME past.faults = 0 PROVE Smooth'
      BY <2>1
    <3>1. Smooth
      BY DEF SetupInv
    <3>2. next # "rules"
      BY <2>1, <2>4, <3>1 DEF Smooth, Install!At
    <3>3. next = "brand existing" => Install!Has("latch") /\ dir = "latch"
      BY <2>1, <2>3, <2>4, <3>1 DEF Smooth, Install!At
    <3>4. next = "brand existing" => pc.svc["latch"] # Install!None
      <4>1. CASE ~script.install
        BY <2>1, <2>3, <2>4, <3>1, <4>1 DEF Smooth, Install!At
      <4>2. CASE script.install /\ next = "brand existing"
        <5>1. pc.wrapped /\ pc.runs \in Install!Dirs /\ Install!Has(pc.runs)
              /\ pc.svc[pc.runs] # Install!None
          BY <1>0, <2>4, <4>2 DEF RunsOk, PCs, Install!Has
        <5>2. ~Install!Has("old") /\ ~Install!Has("msi")
          BY <2>1, <2>7, <3>1, <3>3, <4>2 DEF Smooth, Install!At
        <5>3. QED
          BY <5>1, <5>2 DEF Install!Dirs
      <4>3. QED
        BY <4>1, <4>2
    <3>5. past'.result = past.result /\ past'.paired = past.paired /\ ~Done /\ Install!At("pick")
      BY <1>0, <2>1 DEF TailFirst, Done, Install!At, Install!None
    <3>6. next # "unpack" => Install!Has("latch")
      BY <2>2, <2>3, <2>4, <3>2, <3>3
    <3>7. script.migrate => next = "unpack"
      BY <2>2, <2>7, <3>2, <3>6
    <3>8. Latch'.pair = Latch.pair /\ Latch'.files = Latch.files /\ pc' = pc
      BY <2>1 DEF Latch
    <3>9. Install!Has("old")' => FALSE
      BY <2>6, <3>1, <3>5 DEF Smooth, Install!At, LatchKept
    <3>10. Install!Has("msi")' => script'.migrate /\ script'.at = "unpack"
      BY <2>5, <2>6, <3>1, <3>5, <3>7 DEF Smooth, Install!At, LatchKept
    <3>11. next \in {"unpack", "state", "conf", "brand existing"}
      BY <2>2, <3>2
    <3>12. QED
      BY <2>5, <2>6, <3>1, <3>3, <3>4, <3>5, <3>6, <3>8, <3>9, <3>10, <3>11
         DEF Smooth, Before, Moving, Moved, After, Own, LatchKept, Latch, Install!At, Done
  <2>11. QED
    BY <1>0, <2>1, <2>5, <2>6, <2>8, <2>9, <2>10 DEF SetupInv, SetupTypes, LatchKept, MsiStays
<1>3. CASE Install!Prove
  <2>1. Install!At("prove") /\ pc' = pc /\ past' = past
        /\ script' = IF pc.runs # Install!None THEN [script EXCEPT !.at = "uninstall"]
           ELSE Install!Failed
    BY <1>3 DEF Install!Prove
  <2>2. pc' \in PCs /\ LatchKept /\ OthersKept' /\ Install!PairingSurvives' /\ RunsOk(pc')
    BY <1>0, <2>1, AlikeKeeps
  <2>3. CASE pc.runs # Install!None
    <3>1. /\ script' \in Scripts /\ script'.at = "uninstall" /\ script'.dir = script.dir
          /\ script'.migrate = script.migrate /\ script'.install = script.install
          /\ script'.error = script.error
      BY <1>0, <2>1, <2>3 DEF Scripts, ScriptSteps, Moved
    <3>2. Migrates' /\ DirKnown' /\ TailFirst'
      BY <1>0, <2>1, <2>2, <2>3, <3>1
         DEF Migrates, DirKnown, TailFirst, Before, Moving, Moved, After, LatchKept, Latch,
             Install!At
    <3>3. past'.faults = 0 => Smooth'
      BY <1>0, <2>1, <2>2, <3>1
         DEF SetupInv, Smooth, Before, Moving, Moved, After, Own, LatchKept, Latch, Install!At,
             Done
    <3>4. QED
      BY <1>0, <2>1, <2>2, <3>1, <3>2, <3>3 DEF SetupInv, SetupTypes, LatchKept, MsiStays
  <2>4. CASE pc.runs = Install!None
    <3>1. script' \in Scripts /\ script'.at = "rules"
      BY <1>0, <2>1, <2>4 DEF Install!Failed, Scripts, ScriptSteps, Own
    <3>2. Migrates' /\ DirKnown' /\ TailFirst'
      <4>1. past'.result = Install!None
        BY <1>0, <2>1 DEF TailFirst, Install!At
      <4>2. Migrates' /\ DirKnown'
        BY <1>0, <2>1, <3>1, RulesApart
      <4>3. QED
        BY <3>1, <4>1, <4>2 DEF TailFirst
    <3>3. past.faults # 0
      BY <2>1, <2>4 DEF SetupInv, Smooth
    <3>4. QED
      BY <1>0, <2>1, <2>2, <3>1, <3>2, <3>3 DEF SetupInv, SetupTypes, LatchKept, MsiStays
  <2>5. QED
    BY <2>3, <2>4
<1>4. CASE Install!End
  <2>1. /\ Install!At("end") /\ pc' = pc /\ script' = Install!Idle
        /\ past' = [past EXCEPT !.result = IF script.error THEN "failed" ELSE "ok"]
    BY <1>4 DEF Install!End
  <2>2. /\ past' \in SetupPasts /\ past'.faults = past.faults /\ past'.paired = past.paired
        /\ past'.result = IF script.error THEN "failed" ELSE "ok"
    BY <1>0, <2>1 DEF SetupPasts
  <2>3. script' \in Scripts /\ script'.at = "idle" /\ script'.migrate = FALSE
        /\ script'.error = FALSE
    BY <2>1 DEF Install!Idle, Scripts, ScriptSteps
  <2>4. pc' \in PCs /\ LatchKept /\ OthersKept' /\ Install!PairingSurvives' /\ RunsOk(pc')
    BY <1>0, <2>1, <2>2, AlikeKeeps
  <2>5. Migrates' /\ DirKnown' /\ TailFirst'
    BY <1>0, <2>1, <2>2, <2>3, <2>4
       DEF Migrates, DirKnown, TailFirst, Before, Moving, Moved, After, LatchKept, Install!At
  <2>6. past'.faults = 0 => Smooth'
    BY <2>1, <2>2, <2>3, <2>4
       DEF SetupInv, Smooth, Before, Moving, Moved, After, Own, LatchKept, Latch, Install!At,
           Done
  <2>7. QED
    BY <2>2, <2>3, <2>4, <2>5, <2>6 DEF SetupInv, SetupTypes, LatchKept, MsiStays
<1>5. CASE Install!Throws
  <2>1. /\ script.at \in Install!Critical /\ pc' = pc /\ PastSame /\ past'.faults # 0
        /\ script' = Install!Failed
    BY <1>5, SetupPastStays DEF Install!Throws
  <2>2. script' \in Scripts /\ script'.at = "rules"
    BY <1>0, <2>1 DEF Install!Failed, Scripts, ScriptSteps, Own
  <2>3. pc' \in PCs /\ LatchKept /\ OthersKept' /\ Install!PairingSurvives' /\ RunsOk(pc')
    BY <1>0, <2>1, AlikeKeeps DEF PastSame
  <2>4. Migrates' /\ DirKnown' /\ TailFirst'
    <3>1. past'.result = Install!None
      BY <1>0, <2>1 DEF TailFirst, Install!Critical, PastSame
    <3>2. Migrates' /\ DirKnown'
      BY <1>0, <2>1, <2>2, RulesApart
    <3>3. QED
      BY <2>2, <3>1, <3>2 DEF TailFirst
  <2>5. QED
    BY <2>1, <2>2, <2>3, <2>4 DEF SetupInv, SetupTypes, PastSame, LatchKept, MsiStays
<1>6. CASE Install!PowerCut
  <2>1. PastSame /\ past'.faults # 0 /\ script' = Install!Idle
    BY <1>6, SetupPastStays DEF Install!PowerCut
  <2> DEFINE off == Install!Stopped(pc)
  <2>2. off \in PCs /\ Alike(pc, off) /\ RunsOk(off)
    BY <1>0, StoppedAlike
  <2>3. \/ pc' = off
        \/ \E d \in Install!Dirs : off.svc[d] = "auto" /\ pc' = Install!ServiceStarts(off, d)
    BY <1>6 DEF Install!PowerCut
  <2> HIDE DEF off
  <2>4. Alike(pc, pc') /\ RunsOk(pc')
    <3>1. "auto" # Install!None
      BY DEF Install!None
    <3>2. QED
      BY <1>0, <2>2, <2>3, <3>1, ServiceAlike, AlikeTwice
  <2>5. script' \in Scripts /\ script'.at = "idle" /\ script'.migrate = FALSE
    BY <2>1 DEF Install!Idle, Scripts, ScriptSteps
  <2>6. pc' \in PCs /\ LatchKept /\ OthersKept' /\ Install!PairingSurvives'
    BY <2>1, <2>4, AlikeKeeps DEF PastSame
  <2>7. Migrates' /\ DirKnown' /\ TailFirst'
    BY <1>0, <2>1, <2>5, <2>6
       DEF Migrates, DirKnown, TailFirst, Before, Moving, Moved, After, LatchKept, PastSame
  <2>8. QED
    BY <2>1, <2>4, <2>5, <2>6, <2>7 DEF SetupInv, SetupTypes, PastSame, LatchKept, MsiStays
<1>7. CASE Install!HostStarts
  <2>1. pc' \in Install!TakeOver(pc) /\ pc'.runs # Install!None /\ script' = script /\ past' = past
    BY <1>7 DEF Install!HostStarts
  <2>2. Alike(pc, pc') /\ RunsOk(pc')
    BY <1>0, <2>1, TakeOverAlike
  <2>3. pc' \in PCs /\ LatchKept /\ OthersKept' /\ Install!PairingSurvives'
    BY <2>1, <2>2, AlikeKeeps
  <2>4. Migrates' /\ DirKnown' /\ TailFirst'
    BY <1>0, <2>1, <2>3 DEF Migrates, DirKnown, TailFirst, LatchKept, Latch, Moved, After
  <2>5. past'.faults = 0 => Smooth'
    BY <2>1, <2>3 DEF SetupInv, Smooth, LatchKept, Latch, Install!At, Done
  <2>6. QED
    BY <1>0, <2>1, <2>2, <2>3, <2>4, <2>5 DEF SetupInv, SetupTypes, LatchKept, MsiStays
<1>8. QED
  BY <1>1, <1>2, <1>3, <1>4, <1>5, <1>6, <1>7

LEMMA StateFits ==
  ASSUME NEW p \in PCs, NEW pair \in Pairs, NEW login \in BOOLEAN
  PROVE  LET q == [p EXCEPT !.dirs["latch"].pair = pair, !.dirs["latch"].login = login]
         IN  q \in PCs /\ q.dirs \in [Install!Dirs -> EngineRecords]
<1> DEFINE q == [p EXCEPT !.dirs["latch"].pair = pair, !.dirs["latch"].login = login]
<1>1. p.dirs \in [Install!Dirs -> EngineRecords] /\ p.dirs["latch"] \in EngineRecords
      /\ "latch" \in Install!Dirs
  BY DEF PCs, Install!Dirs
<1>2. q.dirs \in [Install!Dirs -> EngineRecords]
  BY <1>1 DEF PCs, EngineRecords
<1>3. QED
  BY <1>1, <1>2 DEF PCs

\* The steps that put an engine in Latch's folder, and state into it.
LEMMA CopyNext ==
  ASSUME Install!SetupAssumption, SetupInv, Install!CopyBegins \/ Install!CopyEnds
         \/ Install!StateBegins \/ Install!StateEnds
  PROVE  SetupInv' /\ MsiStays
<1>0. /\ pc \in PCs /\ RunsOk(pc) /\ script \in Scripts /\ past \in SetupPasts
      /\ OthersKept /\ Install!PairingSurvives /\ Migrates /\ DirKnown /\ TailFirst
      /\ past.faults = 0 => Smooth
  BY DEF SetupInv, SetupTypes
<1>1. /\ pc.dirs \in [Install!Dirs -> EngineRecords] /\ Latch \in EngineRecords
      /\ "latch" \in Install!Dirs /\ "msi" \in Install!Dirs /\ "old" \in Install!Dirs
  BY <1>0 DEF PCs, Install!Dirs, Latch
<1>2. past' = past
  BY DEF Install!CopyBegins, Install!CopyEnds, Install!StateBegins, Install!StateEnds,
         Install!NoFault
<1> DEFINE Kept == /\ pc' \in PCs /\ pc'.dirs["old"] = pc.dirs["old"]
                   /\ pc'.dirs["msi"] = pc.dirs["msi"]
                   /\ pc'.svc = pc.svc /\ pc'.bak = pc.bak /\ pc'.tail = pc.tail
                   /\ pc'.runs = pc.runs /\ pc'.wrapped = pc.wrapped /\ Latch' \in EngineRecords
                   /\ Install!Has("latch") => Install!Has("latch")'
<1>3. ASSUME Kept PROVE RunsOk(pc') /\ OthersKept'
             /\ (Install!Has("old")' <=> Install!Has("old"))
                /\ (Install!Has("msi")' <=> Install!Has("msi"))
  <2>1. RunsOk(pc')
    BY <1>0, <1>3 DEF RunsOk, Install!Has, PCs, Install!Dirs
  <2>2. QED
    BY <1>0, <1>3, <2>1 DEF OthersKept, Install!Has
<1>4. CASE Install!CopyBegins
  <2>1. Install!At("copy") /\ Install!Goto("copied")
        /\ pc' = [pc EXCEPT !.dirs["latch"].files = IF Latch.files = Install!None THEN "exe"
           ELSE Latch.files]
    BY <1>4 DEF Install!CopyBegins, Install!Move, Latch
  <2>2. /\ script' \in Scripts /\ script'.at = "copied" /\ script'.migrate = script.migrate
        /\ script'.install = script.install /\ script'.dir = script.dir
        /\ script'.error = script.error
    BY <2>1, GotoMeans DEF ScriptSteps
  <2>3. Latch' = [Latch EXCEPT !.files = IF Latch.files = Install!None THEN "exe" ELSE Latch.files]
    BY <1>0, <1>1, <2>1 DEF Latch, PCs
  <2>4. Latch' \in EngineRecords /\ Latch'.pair = Latch.pair /\ Latch'.files # Install!None
    BY <1>1, <2>3 DEF EngineRecords, Install!None
  <2>5. Kept
    BY <1>0, <1>1, <2>1, <2>3, <2>4 DEF PCs, Install!Has, Latch
  <2>6. Install!PairingSurvives' /\ Install!Has("latch")'
    BY <1>0, <1>2, <2>4, <2>5 DEF Install!PairingSurvives, Latch, Install!Has, Install!Dirs
  <2>7. Migrates' /\ DirKnown' /\ TailFirst'
    BY <1>0, <1>2, <1>3, <2>1, <2>2, <2>5
       DEF Migrates, DirKnown, TailFirst, Before, Moving, Moved, After, Install!At
  <2>8. past'.faults = 0 => Smooth'
    BY <1>0, <1>2, <1>3, <2>1, <2>2, <2>4, <2>5, <2>6
       DEF Smooth, TailFirst, Before, Moving, Moved, After, Own, Latch, Install!At, Done,
           Install!None
  <2>9. QED
    BY <1>0, <1>2, <1>3, <2>2, <2>5, <2>6, <2>7, <2>8
       DEF SetupInv, SetupTypes, MsiStays, Install!Has
<1>5. CASE Install!CopyEnds
  <2>1. /\ Install!At("copied") /\ pc' = [pc EXCEPT !.dirs["latch"].files = "whole"]
        /\ script' = [script EXCEPT !.at = IF script.migrate THEN "state"
           ELSE "conf", !.dir = "latch"]
    BY <1>5 DEF Install!CopyEnds
  <2>2. /\ script' \in Scripts /\ script'.at = (IF script.migrate THEN "state" ELSE "conf")
        /\ script'.migrate = script.migrate
        /\ script'.install = script.install /\ script'.dir = "latch" /\ script'.error = script.error
    BY <1>0, <1>1, <2>1 DEF Scripts, ScriptSteps, Moving, Moved
  <2>3. Latch' = [Latch EXCEPT !.files = "whole"]
    BY <1>0, <1>1, <2>1 DEF Latch, PCs
  <2>4. Latch' \in EngineRecords /\ Latch'.pair = Latch.pair /\ Latch'.files = "whole"
    BY <1>1, <2>3 DEF EngineRecords
  <2>5. Kept
    BY <1>0, <1>1, <2>1, <2>3, <2>4 DEF PCs, Install!Has, Latch, Install!None
  <2>6. Install!PairingSurvives' /\ Install!Has("latch")'
    BY <1>0, <1>2, <2>4, <2>5
       DEF Install!PairingSurvives, Latch, Install!Has, Install!Dirs, Install!None
  <2>7. Migrates' /\ DirKnown' /\ TailFirst'
    BY <1>0, <1>2, <1>3, <2>1, <2>2, <2>4, <2>5
       DEF Migrates, DirKnown, TailFirst, Before, Moving, Moved, After, Install!At, Latch
  <2>8. past'.faults = 0 => Smooth'
    BY <1>0, <1>2, <1>3, <2>1, <2>2, <2>4, <2>5, <2>6
       DEF Smooth, TailFirst, Before, Moving, Moved, After, Own, Latch, Install!At, Done,
           Install!None
  <2>9. QED
    BY <1>0, <1>2, <1>3, <2>2, <2>5, <2>6, <2>7, <2>8
       DEF SetupInv, SetupTypes, MsiStays, Install!Has
<1>6. CASE Install!StateBegins
  <2>1. Install!At("state") /\ Install!Goto("state copied")
        /\ pc' = [pc EXCEPT !.dirs["latch"].pair = "part"]
    BY <1>6 DEF Install!StateBegins, Install!Move
  <2>2. /\ script' \in Scripts /\ script'.at = "state copied" /\ script'.migrate = script.migrate
        /\ script'.install = script.install /\ script'.dir = script.dir
        /\ script'.error = script.error
    BY <2>1, GotoMeans DEF ScriptSteps, Moving
  <2>3. Latch' = [Latch EXCEPT !.pair = "part"]
    BY <1>0, <1>1, <2>1 DEF Latch, PCs
  <2>4. Latch' \in EngineRecords /\ Latch'.files = Latch.files
    BY <1>1, <2>3 DEF EngineRecords, Pairs
  <2>5. Kept
    BY <1>0, <1>1, <2>1, <2>3, <2>4 DEF PCs, Install!Has, Latch
  <2>6. Install!Has("msi") /\ pc.dirs["msi"].pair = "paired"
    BY <1>0, <2>1 DEF Migrates, Moving, OthersKept, Install!At
  <2>7. Install!PairingSurvives'
    BY <2>5, <2>6 DEF Install!PairingSurvives, Install!Dirs
  <2>8. Migrates' /\ DirKnown' /\ TailFirst'
    BY <1>0, <1>2, <1>3, <2>1, <2>2, <2>4, <2>5, <2>6
       DEF Migrates, DirKnown, TailFirst, Before, Moving, Moved, After, Install!At, Latch
  <2>9. past'.faults = 0 => Smooth'
    BY <1>0, <1>2, <1>3, <2>1, <2>2, <2>4, <2>5, <2>6
       DEF Smooth, TailFirst, Before, Moving, Moved, After, Own, Latch, Install!At, Done,
           Install!None
  <2>10. QED
    BY <1>0, <1>2, <1>3, <2>2, <2>5, <2>7, <2>8, <2>9
       DEF SetupInv, SetupTypes, MsiStays, Install!Has
<1>7. CASE Install!StateEnds
  <2>1. /\ Install!At("state copied") /\ Install!Goto("backup")
        /\ pc' = [pc EXCEPT !.dirs["latch"].pair = pc.dirs["msi"].pair,
                            !.dirs["latch"].login = pc.dirs["msi"].login]
    BY <1>7 DEF Install!StateEnds, Install!Move
  <2>2. /\ script' \in Scripts /\ script'.at = "backup" /\ script'.migrate = script.migrate
        /\ script'.install = script.install /\ script'.dir = script.dir
        /\ script'.error = script.error
    BY <2>1, GotoMeans DEF ScriptSteps, Moved
  <2>3. Install!Has("msi") /\ pc.dirs["msi"].pair = "paired" /\ pc.dirs["msi"].login
        /\ pc.dirs["msi"] \in EngineRecords
    BY <1>0, <1>1, <2>1, SMTT(40), ZenonT(60) DEF Migrates, Moving, OthersKept, Install!At
  <2>4. pc' \in PCs /\ pc'.dirs \in [Install!Dirs -> EngineRecords]
    <3>1. pc.dirs["msi"].pair \in Pairs /\ pc.dirs["msi"].login \in BOOLEAN
      BY <2>3, Zenon DEF EngineRecords
    <3>2. QED
      BY <1>0, <2>1, <3>1, StateFits
  <2>5. /\ Latch' \in EngineRecords /\ Latch'.files = Latch.files /\ Latch'.pair = "paired"
        /\ Latch'.login
        /\ Latch'.ours = Latch.ours
    <3>1. Latch'.files = Latch.files /\ Latch'.ours = Latch.ours
      BY <1>0, <1>1, <2>1 DEF EngineRecords, Latch, PCs
    <3>2. Latch'.pair = pc.dirs["msi"].pair
      BY <1>0, <1>1, <2>1 DEF EngineRecords, Latch, PCs
    <3>3. Latch'.login = pc.dirs["msi"].login
      BY <1>0, <1>1, <2>1 DEF EngineRecords, Latch, PCs
    <3>4. QED
      BY <1>1, <2>3, <2>4, <3>1, <3>2, <3>3 DEF Latch
  <2>6. pc'.dirs["old"] = pc.dirs["old"] /\ pc'.dirs["msi"] = pc.dirs["msi"]
    BY <1>0, <1>1, <2>1, SMTT(40), ZenonT(60) DEF PCs, EngineRecords
  <2>7. Kept
    BY <1>0, <1>1, <2>1, <2>4, <2>5, <2>6 DEF PCs, Install!Has, Latch
  <2>8. Install!PairingSurvives'
    BY <2>5 DEF Install!PairingSurvives, Latch, Install!Dirs
  <2>9. Migrates' /\ DirKnown' /\ TailFirst'
    BY <1>0, <1>2, <1>3, <2>1, <2>2, <2>3, <2>5, <2>7
       DEF Migrates, DirKnown, TailFirst, Before, Moving, Moved, After, Install!At, Latch
  <2>10. past'.faults = 0 => Smooth'
    BY <1>0, <1>2, <1>3, <2>1, <2>2, <2>3, <2>5, <2>7
       DEF Smooth, TailFirst, Before, Moving, Moved, After, Own, Latch, Install!At, Done,
           Install!None
  <2>11. QED
    BY <1>0, <1>2, <1>3, <2>2, <2>7, <2>8, <2>9, <2>10
       DEF SetupInv, SetupTypes, MsiStays, Install!Has
<1>8. QED
  BY <1>4, <1>5, <1>6, <1>7

\* What an earlier version left: its engine moves into Latch's folder.
LEMMA RetireNext ==
  ASSUME Install!SetupAssumption, SetupInv, Install!Retire
  PROVE  SetupInv' /\ MsiStays
<1>0. /\ pc \in PCs /\ RunsOk(pc) /\ script \in Scripts /\ past \in SetupPasts
      /\ OthersKept /\ Install!PairingSurvives /\ Migrates /\ DirKnown /\ TailFirst
      /\ past.faults = 0 => Smooth
  BY DEF SetupInv, SetupTypes
<1>1. /\ pc.dirs \in [Install!Dirs -> EngineRecords] /\ Install!NoEngine \in EngineRecords
      /\ "latch" \in Install!Dirs /\ "msi" \in Install!Dirs /\ "old" \in Install!Dirs
  BY <1>0 DEF PCs, Install!Dirs, Install!NoEngine, EngineRecords, Pairs
<1>2. Install!At("retire") /\ Install!Goto("pick")
  BY DEF Install!Retire, Install!Move
<1>3. /\ script' \in Scripts /\ script'.at = "pick" /\ script'.migrate = script.migrate
      /\ script'.install = script.install /\ script'.dir = script.dir
      /\ script'.error = script.error
  BY <1>2, GotoMeans DEF ScriptSteps, Before
<1>4. PastSame
  BY SetupPastStays DEF Install!Retire
<1>5. DirKnown' /\ TailFirst' <=> (past'.result # Install!None => pc'.tail)
      /\ past'.result = Install!None
  BY <1>3 DEF DirKnown, TailFirst, Moving, Moved, After
<1>6. past.result = Install!None
  BY <1>0, <1>2 DEF TailFirst, Install!At
<1>7. CASE ~Install!Has("old") /\ pc' = pc /\ Install!NoFault
  <2>1. pc' \in PCs /\ LatchKept /\ OthersKept' /\ Install!PairingSurvives' /\ RunsOk(pc')
    BY <1>0, <1>4, <1>7, AlikeKeeps, AlikeSelf DEF PastSame
  <2>2. Migrates'
    BY <1>0, <1>2, <1>3, <1>7 DEF Migrates, Before, Moving, Moved, After, Install!Has, Install!At
  <2>3. past'.faults = 0 => Smooth'
    BY <1>0, <1>2, <1>3, <1>4, <1>7
       DEF PastSame, Smooth, Before, Moving, Moved, After, Own, Install!Has, Install!At, Done
  <2>4. QED
    BY <1>3, <1>4, <1>5, <1>6, <2>1, <2>2, <2>3
       DEF PastSame, SetupInv, SetupTypes, LatchKept, MsiStays
<1> DEFINE q == IF pc.runs = "old" THEN Install!Stopped(pc) ELSE pc
           p == [q EXCEPT !.svc["old"] = Install!None]
<1>8. ASSUME Install!Has("old")
      PROVE  /\ p \in PCs /\ RunsOk(p) /\ p.dirs = pc.dirs /\ p.bak = pc.bak /\ p.tail = pc.tail
             /\ p.svc["old"] = Install!None /\ p.svc["latch"] = pc.svc["latch"]
             /\ p.svc["msi"] = pc.svc["msi"]
             /\ p.runs # "old"
  <2>1. /\ q \in PCs /\ RunsOk(q) /\ q.dirs = pc.dirs /\ q.bak = pc.bak /\ q.tail = pc.tail
        /\ q.svc = pc.svc /\ q.runs # "old"
    BY <1>0, StoppedAlike DEF Install!None
  <2> HIDE DEF q
  <2>2. /\ p \in PCs /\ p.dirs = pc.dirs /\ p.bak = pc.bak /\ p.tail = pc.tail /\ p.runs = q.runs
        /\ p.wrapped = q.wrapped /\ p.svc = [pc.svc EXCEPT !["old"] = Install!None]
    BY <2>1 DEF PCs
  <2>3. pc.svc \in [Install!Dirs -> {Install!None, "auto", "manual", "disabled"}]
    BY <1>0 DEF PCs
  <2>4. p.svc["old"] = Install!None /\ \A x \in Install!Dirs \ {"old"} : p.svc[x] = pc.svc[x]
    BY <1>1, <2>2, <2>3
  <2> HIDE DEF p
  <2>5. p.runs # Install!None => p.runs \in Install!Dirs \ {"old"}
    BY <2>1, <2>2 DEF PCs
  <2>6. RunsOk(p)
    BY <2>1, <2>2, <2>4, <2>5 DEF RunsOk
  <2>7. QED
    BY <1>1, <2>1, <2>2, <2>4, <2>6
<1>9. CASE Install!Has("old") /\ pc' = p
  <2> HIDE DEF q, p
  <2>1. /\ pc' \in PCs /\ RunsOk(pc') /\ pc'.dirs = pc.dirs /\ pc'.bak = pc.bak
        /\ pc'.tail = pc.tail
        /\ pc'.svc["old"] = Install!None /\ pc'.svc["latch"] = pc.svc["latch"]
        /\ pc'.svc["msi"] = pc.svc["msi"]
    BY <1>8, <1>9
  <2>2. OthersKept' /\ Install!PairingSurvives' /\ MsiStays
    BY <1>0, <1>4, <2>1 DEF OthersKept, Install!PairingSurvives, MsiStays, Install!Has, PastSame
  <2>3. Migrates'
    BY <1>0, <1>2, <1>3, <1>9 DEF Migrates, Before, Moving, Moved, After, Install!Has, Install!At
  <2>4. past'.faults # 0
    <3>1. CASE Install!Has("latch")
      BY <1>0, <1>4, <1>9, <3>1 DEF PastSame, Smooth
    <3>2. CASE ~Install!Has("latch")
      <4>1. \/ Install!Fault
            \/ pc' = [p EXCEPT !.dirs["latch"] = p.dirs["old"], !.dirs["old"] = Install!NoEngine]
        BY <1>9, <3>2 DEF Install!Retire, p, q
      <4>2. CASE pc' = [p EXCEPT !.dirs["latch"] = p.dirs["old"], !.dirs["old"] = Install!NoEngine]
        <5>1. p.dirs = pc.dirs /\ p \in PCs
          BY <1>8, <1>9
        <5>2. pc'.dirs["old"] = Install!NoEngine
          BY <1>1, <4>2, <5>1 DEF PCs
        <5>3. QED
          BY <1>9, <2>1, <5>2 DEF Install!Has, Install!NoEngine
      <4>3. QED
        BY <4>1, <4>2, SetupPastStays
    <3>3. QED
      BY <3>1, <3>2
  <2>5. QED
    BY <1>3, <1>4, <1>5, <1>6, <2>1, <2>2, <2>3, <2>4 DEF PastSame, SetupInv, SetupTypes
<1>10. CASE /\ Install!Has("old") /\ ~Install!Has("latch") /\ Install!NoFault
            /\ pc' = [p EXCEPT !.dirs["latch"] = p.dirs["old"], !.dirs["old"] = Install!NoEngine]
  <2> HIDE DEF q, p
  <2>1. /\ p \in PCs /\ RunsOk(p) /\ p.dirs = pc.dirs /\ p.bak = pc.bak /\ p.tail = pc.tail
        /\ p.svc["old"] = Install!None /\ p.svc["latch"] = pc.svc["latch"]
        /\ p.svc["msi"] = pc.svc["msi"]
        /\ p.runs # "old"
    BY <1>8, <1>10
  <2>2. /\ pc'.dirs = [pc.dirs EXCEPT !["latch"] = pc.dirs["old"], !["old"] = Install!NoEngine]
        /\ pc'.svc = p.svc /\ pc'.runs = p.runs /\ pc'.wrapped = p.wrapped
        /\ pc'.bak = pc.bak /\ pc'.tail = pc.tail
    BY <1>10, <2>1 DEF PCs
  <2>3. pc' \in PCs
    <3>1. pc'.dirs \in [Install!Dirs -> EngineRecords]
      BY <1>1, <2>2
    <3>2. QED
      BY <1>10, <2>1, <3>1 DEF PCs
  <2>4. /\ pc'.dirs["old"] = Install!NoEngine /\ pc'.dirs["msi"] = pc.dirs["msi"]
        /\ pc'.dirs["latch"] = pc.dirs["old"]
    BY <1>1, <2>2
  <2>5. p.runs # Install!None => p.runs = "msi"
    BY <1>10, <2>1 DEF RunsOk, PCs, Install!Dirs, Install!Has
  <2>6. RunsOk(pc')
    BY <2>1, <2>2, <2>4, <2>5 DEF RunsOk
  <2>7. pc.dirs["old"].files = "whole" /\ pc.dirs["old"].pair = "paired"
    BY <1>0, <1>10 DEF OthersKept
  <2>8. ~Install!Has("old")' /\ Install!Has("latch")'
        /\ (Install!Has("msi")' <=> Install!Has("msi"))
    BY <2>4, <2>7 DEF Install!Has, Install!NoEngine, Install!None
  <2>9. OthersKept' /\ Install!PairingSurvives' /\ MsiStays
    <3>1. OthersKept'
      BY <1>0, <2>1, <2>2, <2>4, <2>8 DEF OthersKept, Install!Has
    <3>2. Install!PairingSurvives'
      BY <1>1, <2>4, <2>7 DEF Install!PairingSurvives
    <3>3. QED
      BY <2>8, <3>1, <3>2 DEF MsiStays
  <2>10. Migrates'
    BY <1>0, <1>2, <1>3, <1>10 DEF Migrates, Before, Moving, Moved, After, Install!At
  <2>11. past'.faults = 0 => Smooth'
    <3> SUFFICES ASSUME past'.faults = 0 PROVE Smooth'
      OBVIOUS
    <3>1. Smooth /\ past'.result = Install!None /\ ~Done'
      BY <1>0, <1>4, <1>6 DEF PastSame, Done, Install!None
    <3>2. script.install /\ ~Install!Has("msi") /\ ~script.error
      BY <1>2, <1>10, <3>1 DEF Smooth, Install!At
    <3>3. QED
      BY <1>2, <1>3, <2>4, <2>7, <2>8, <3>1, <3>2
         DEF Smooth, Before, Moving, Moved, After, Own, Install!At, Install!None
  <2>12. QED
    BY <1>3, <1>4, <1>5, <1>6, <2>2, <2>3, <2>6, <2>9, <2>10, <2>11
       DEF PastSame, SetupInv, SetupTypes
<1>11. QED
  BY <1>7, <1>9, <1>10 DEF Install!Retire

\* The service is registered anew, and its engine started.
LEMMA RegisterNext ==
  ASSUME Install!SetupAssumption, SetupInv, Install!Register
  PROVE  SetupInv' /\ MsiStays
<1>0. /\ pc \in PCs /\ RunsOk(pc) /\ script \in Scripts /\ past \in SetupPasts
      /\ OthersKept /\ Install!PairingSurvives /\ Migrates /\ DirKnown /\ TailFirst
      /\ past.faults = 0 => Smooth
  BY DEF SetupInv, SetupTypes
<1>1. /\ pc.dirs \in [Install!Dirs -> EngineRecords] /\ "latch" \in Install!Dirs
      /\ "msi" \in Install!Dirs /\ "old" \in Install!Dirs
      /\ pc.svc \in [Install!Dirs -> {Install!None, "auto", "manual", "disabled"}]
  BY <1>0 DEF PCs, Install!Dirs
<1>2. Install!At("register") /\ script.dir = "latch" /\ past.result = Install!None
  BY <1>0 DEF Install!Register, Install!At, DirKnown, Moved, TailFirst
<1> DEFINE quiet == IF pc.runs = "latch" /\ pc.wrapped THEN Install!Stopped(pc) ELSE pc
           there == quiet.dirs[script.dir].files = "whole"
           start == IF there \/ pc.svc["msi"] = Install!None THEN "auto" ELSE Install!None
           registered == [quiet EXCEPT !.svc["latch"] = start]
<1>3. /\ quiet \in PCs /\ RunsOk(quiet) /\ quiet.dirs = pc.dirs /\ quiet.bak = pc.bak
      /\ quiet.tail = pc.tail /\ quiet.svc = pc.svc /\ ~(quiet.runs = "latch" /\ quiet.wrapped)
  BY <1>0, StoppedAlike DEF Install!None
<1>4. /\ \/ pc' = (IF there THEN Install!ServiceStarts(registered, "latch") ELSE registered)
            /\ Install!NoFault
         \/ there /\ pc' = registered /\ Install!Fault
      /\ script' = [script EXCEPT
             !.at = IF ~there THEN "rules" ELSE IF script.migrate THEN "prove"
               ELSE "brand existing",
             !.error = ~there, !.dir = IF there THEN script.dir ELSE Install!None]
  BY <1>2 DEF Install!Register
<1>5. there <=> Latch.files = "whole"
  BY <1>2, <1>3 DEF Latch
<1>6. start \in {"auto", Install!None} /\ (there => start = "auto")
  OBVIOUS
<1>7. there \in BOOLEAN
  OBVIOUS
<1> HIDE DEF quiet, there, start
<1>8. /\ registered \in PCs /\ registered.dirs = pc.dirs /\ registered.bak = pc.bak
      /\ registered.tail = pc.tail
      /\ registered.runs = quiet.runs /\ registered.wrapped = quiet.wrapped
      /\ registered.svc = [pc.svc EXCEPT !["latch"] = start]
  BY <1>3, <1>6 DEF PCs
<1>9. /\ registered.svc["latch"] = start /\ registered.svc["old"] = pc.svc["old"]
      /\ registered.svc["msi"] = pc.svc["msi"]
  BY <1>1, <1>8
<1> HIDE DEF registered
<1>10. RunsOk(registered)
  <2>1. quiet.wrapped => quiet.runs \in Install!Dirs \ {"latch"}
        /\ pc.svc[quiet.runs] # Install!None
    BY <1>3 DEF RunsOk, PCs
  <2>2. \A x \in Install!Dirs \ {"latch"} : registered.svc[x] = pc.svc[x]
    BY <1>1, <1>8
  <2>3. QED
    BY <1>3, <1>8, <2>1, <2>2 DEF RunsOk
<1>11. /\ Alike(registered, pc') /\ RunsOk(pc') /\ pc' \in PCs
       /\ there /\ Install!NoFault => pc'.runs # Install!None
  <2>1. "auto" # Install!None
    BY DEF Install!None
  <2>2. /\ Alike(registered, registered)
        /\ there => /\ Alike(registered, Install!ServiceStarts(registered, "latch"))
                    /\ RunsOk(Install!ServiceStarts(registered, "latch"))
                    /\ Install!ServiceStarts(registered, "latch").runs # Install!None
    BY <1>1, <1>5, <1>6, <1>8, <1>9, <1>10, <2>1, ServiceAlike, AlikeSelf DEF Latch
  <2>3. CASE pc' = registered /\ ~there
    BY <1>8, <1>10, <2>2, <2>3
  <2>4. CASE pc' = registered /\ there /\ Install!Fault
    <3>1. ~Install!NoFault
      <4>1. past'.faults # 0 /\ past' = [past EXCEPT !.faults = past.faults + 1]
            /\ past.faults \in 0..SetupFaults
        BY <1>0, <2>4, SetupPastStays DEF Install!Fault, SetupPasts
      <4>2. past'.faults = past.faults + 1 /\ past.faults + 1 # past.faults
        BY <1>0, <4>1 DEF SetupPasts, Install!SetupAssumption
      <4>3. QED
        BY <4>2 DEF Install!NoFault
    <3>2. QED
      BY <1>8, <1>10, <2>2, <2>4, <3>1
  <2>5. CASE pc' = Install!ServiceStarts(registered, "latch") /\ there
    BY <2>2, <2>5 DEF Alike
  <2>6. QED
    BY <1>4, <2>3, <2>4, <2>5
<1>12. PastSame /\ (past'.faults = 0 => Install!NoFault)
  BY <1>4, SetupPastStays
<1>13. \A x \in Install!Dirs :
         /\ pc'.dirs[x].files = pc.dirs[x].files /\ (pc.dirs[x].ours => pc'.dirs[x].ours)
         /\ pc.dirs[x].pair = "paired"
            => pc'.dirs[x].pair = "paired" /\ (pc.dirs[x].login => pc'.dirs[x].login)
         /\ pc.dirs[x].pair \notin {Install!None, "part"} =>
              pc'.dirs[x].pair \notin {Install!None, "part"}
                /\ (pc.dirs[x].login => pc'.dirs[x].login)
  BY <1>8, <1>11 DEF Alike, Install!None
<1>14. /\ (pc.bak => pc'.bak) /\ (pc.tail => pc'.tail)
       /\ pc'.svc["latch"] = Install!None <=> start = Install!None
       /\ pc'.svc["old"] = Install!None <=> pc.svc["old"] = Install!None
       /\ pc'.svc["msi"] = Install!None <=> pc.svc["msi"] = Install!None
  BY <1>1, <1>8, <1>9, <1>11 DEF Alike
<1>15. (Install!Has("latch")' <=> Install!Has("latch"))
       /\ (Install!Has("old")' <=> Install!Has("old"))
          /\ (Install!Has("msi")' <=> Install!Has("msi"))
  BY <1>1, <1>13 DEF Install!Has
<1>16. /\ script' \in Scripts
       /\ script'.at = (IF ~there THEN "rules" ELSE IF script.migrate THEN "prove"
          ELSE "brand existing")
       /\ script'.migrate = script.migrate /\ script'.install = script.install
       /\ script'.error = ~there /\ (there => script'.dir = "latch")
  <2>1. {"rules", "prove", "brand existing"} \subseteq ScriptSteps
    BY DEF ScriptSteps, Moved, After, Own
  <2>2. script.dir \in Install!Dirs \cup {Install!None}
    BY <1>1, <1>2
  <2>3. QED
    BY <1>0, <1>2, <1>4, <1>7, <2>1, <2>2 DEF Scripts
<1>17. OthersKept' /\ Install!PairingSurvives' /\ MsiStays
  <2>1. OthersKept'
    BY <1>0, <1>1, <1>13, <1>14, <1>15 DEF OthersKept, Install!Has
  <2>2. Install!PairingSurvives'
    BY <1>0, <1>12, <1>13, <1>14 DEF Install!PairingSurvives, PastSame
  <2>3. QED
    BY <1>15, <2>1, <2>2 DEF MsiStays
<1>18. Migrates'
  BY <1>0, <1>1, <1>2, <1>5, <1>13, <1>14, <1>15, <1>16
     DEF Migrates, Before, Moving, Moved, After, Install!At, Latch
<1>19. DirKnown' /\ TailFirst'
  BY <1>2, <1>12, <1>16 DEF DirKnown, TailFirst, PastSame, Moving, Moved, After
<1>20. past'.faults = 0 => Smooth'
  <2> SUFFICES ASSUME past'.faults = 0 PROVE Smooth'
    OBVIOUS
  <2>1. Smooth /\ Install!NoFault /\ past'.paired = past.paired /\ ~Done'
        /\ past'.result = Install!None
    BY <1>0, <1>2, <1>12 DEF PastSame, Done, Install!None
  <2>2. Install!Has("latch") /\ there
    BY <1>2, <1>5, <2>1 DEF Smooth, Moved, Install!At, Latch
  <2>3. ~Install!Has("old") /\ (Install!Has("msi") => script.migrate)
    BY <1>2, <2>1 DEF Smooth, Install!At
  <2>4. pc'.svc["latch"] # Install!None /\ pc'.runs # Install!None
    BY <1>6, <1>11, <1>14, <2>1, <2>2 DEF Install!None
  <2>5. pc'.dirs["latch"].files = "whole"
    BY <1>1, <1>5, <1>13, <2>2 DEF Latch
  <2>6. past.paired /\ ~Install!Has("msi") => pc'.dirs["latch"].pair = "paired"
    BY <1>1, <1>13, <2>1, <2>3 DEF Smooth
  <2>7. (script.migrate => script'.at = "prove")
        /\ (~script.migrate => script'.at = "brand existing")
    BY <1>16, <2>2
  <2>8. QED
    BY <1>15, <1>16, <2>1, <2>2, <2>3, <2>4, <2>5, <2>6, <2>7
       DEF Smooth, Before, Moving, Moved, After, Own, Install!At, Install!None
<1>21. QED
  BY <1>11, <1>12, <1>16, <1>17, <1>18, <1>19, <1>20 DEF PastSame, SetupInv, SetupTypes

\* The MSI goes, and then what it left.
LEMMA MsiNext ==
  ASSUME Install!SetupAssumption, SetupInv, Install!Uninstall \/ Install!Clean
  PROVE  /\ SetupInv' /\ (Install!Clean => MsiStays)
         /\ Install!Uninstall
            => /\ pc.dirs["latch"].files = "whole" /\ pc.runs # Install!None /\ pc.bak
               /\ Install!Has("msi") => pc.dirs["latch"].pair = pc.dirs["msi"].pair
<1>0. /\ pc \in PCs /\ RunsOk(pc) /\ script \in Scripts /\ past \in SetupPasts
      /\ OthersKept /\ Install!PairingSurvives /\ Migrates /\ DirKnown /\ TailFirst
      /\ past.faults = 0 => Smooth
  BY DEF SetupInv, SetupTypes
<1>1. /\ pc.dirs \in [Install!Dirs -> EngineRecords] /\ Install!NoEngine \in EngineRecords
      /\ pc.dirs["msi"] \in EngineRecords
      /\ "latch" \in Install!Dirs /\ "msi" \in Install!Dirs /\ "old" \in Install!Dirs
      /\ pc.svc \in [Install!Dirs -> {Install!None, "auto", "manual", "disabled"}]
  BY <1>0 DEF PCs, Install!Dirs, Install!NoEngine, EngineRecords, Pairs
<1>2. past' = past
  BY DEF Install!Uninstall, Install!Clean, Install!NoFault
<1>3. script.at \in {"uninstall", "clean"} /\ script.migrate /\ script.dir = "latch"
      /\ past.result = Install!None
      /\ pc.dirs["latch"].pair = "paired" /\ pc.dirs["latch"].login /\ pc.bak
  BY <1>0
     DEF Install!Uninstall, Install!Clean, Install!Move, Install!At, Migrates, DirKnown,
         TailFirst, Moved, After
<1>4. Install!PairingSurvives' <=> (past.paired
      => pc'.bak \/ \E d \in Install!Dirs : pc'.dirs[d].pair = "paired")
  BY <1>2 DEF Install!PairingSurvives
<1>5. CASE Install!Uninstall
  <2>1. /\ Install!At("uninstall") /\ Install!Goto("clean")
        /\ pc' = [IF pc.runs = "msi" THEN Install!Stopped(pc) ELSE pc
                   EXCEPT !.dirs["msi"].files = Install!None, !.svc["msi"] = Install!None]
    BY <1>5 DEF Install!Uninstall, Install!Move
  <2>2. /\ script' \in Scripts /\ script'.at = "clean" /\ script'.migrate = script.migrate
        /\ script'.install = script.install /\ script'.dir = script.dir
        /\ script'.error = script.error
    BY <2>1, GotoMeans DEF ScriptSteps, After
  <2> DEFINE q == IF pc.runs = "msi" THEN Install!Stopped(pc) ELSE pc
  <2>3. /\ q \in PCs /\ RunsOk(q) /\ q.dirs = pc.dirs /\ q.svc = pc.svc /\ q.bak = pc.bak
        /\ q.tail = pc.tail /\ q.runs # "msi"
    BY <1>0, StoppedAlike DEF Install!None
  <2>4. pc' = [q EXCEPT !.dirs["msi"].files = Install!None, !.svc["msi"] = Install!None]
    BY <2>1
  <2> HIDE DEF q
  <2>5. /\ pc'.dirs = [pc.dirs EXCEPT !["msi"] = [pc.dirs["msi"] EXCEPT !.files = Install!None]]
        /\ pc'.svc = [pc.svc EXCEPT !["msi"] = Install!None] /\ pc'.runs = q.runs
        /\ pc'.wrapped = q.wrapped
        /\ pc'.bak = pc.bak /\ pc'.tail = pc.tail
    BY <2>3, <2>4 DEF PCs
  <2>6. pc' \in PCs
    <3>1. [pc.dirs["msi"] EXCEPT !.files = Install!None] \in EngineRecords
      BY <1>1 DEF EngineRecords
    <3>2. pc'.dirs \in [Install!Dirs -> EngineRecords]
          /\ pc'.svc \in [Install!Dirs -> {Install!None, "auto", "manual", "disabled"}]
      BY <1>1, <2>5, <3>1
    <3>3. QED
      BY <2>3, <2>4, <3>2 DEF PCs
  <2>7. /\ pc'.dirs["latch"] = pc.dirs["latch"] /\ pc'.dirs["old"] = pc.dirs["old"]
        /\ pc'.dirs["msi"].files = Install!None /\ pc'.svc["msi"] = Install!None
        /\ \A x \in Install!Dirs \ {"msi"} : pc'.dirs[x] = pc.dirs[x] /\ pc'.svc[x] = pc.svc[x]
    BY <1>1, <2>5 DEF EngineRecords
  <2>8. RunsOk(pc')
    <3>1. q.runs # Install!None => q.runs \in Install!Dirs \ {"msi"}
      BY <2>3 DEF PCs
    <3>2. QED
      BY <2>3, <2>5, <2>7, <3>1 DEF RunsOk
  <2>9. OthersKept' /\ Install!PairingSurvives'
    BY <1>0, <1>1, <1>3, <1>4, <2>7 DEF OthersKept, Install!Has
  <2>10. Migrates' /\ DirKnown' /\ TailFirst'
    BY <1>0, <1>2, <1>3, <2>2, <2>5, <2>7
       DEF Migrates, DirKnown, TailFirst, Before, Moving, Moved, After
  <2>11. past'.faults = 0 => Smooth'
    <3> SUFFICES ASSUME past.faults = 0 PROVE Smooth'
      BY <1>2
    <3>1. Smooth /\ ~Done' /\ past'.result = Install!None /\ Install!At("uninstall")
      BY <1>0, <1>2, <1>3, <2>1 DEF Done, Install!None
    <3>2. Install!Has("latch")' /\ ~Install!Has("msi")' /\ ~Install!Has("old")'
      BY <2>7, <3>1 DEF Smooth, Install!Has, Moved, Install!At
    <3>3. pc.svc["latch"] # Install!None /\ pc.dirs["latch"].files = "whole"
      BY <3>1 DEF Smooth, Install!At, Moved
    <3>4. QED
      BY <1>1, <1>2, <1>3, <2>2, <2>7, <3>1, <3>2, <3>3
         DEF Smooth, Before, Moving, Moved, After, Own, Install!At
  <2>12. Install!Uninstall
         => /\ pc.dirs["latch"].files = "whole" /\ pc.runs # Install!None /\ pc.bak
            /\ Install!Has("msi") => pc.dirs["latch"].pair = pc.dirs["msi"].pair
    BY <1>0, <1>3, <2>1 DEF Migrates, Moved, Install!At, OthersKept
  <2>13. ~Install!Clean
    BY <2>1 DEF Install!Clean, Install!Move, Install!At
  <2>14. QED
    BY <1>0, <1>2, <2>2, <2>6, <2>8, <2>9, <2>10, <2>11, <2>12, <2>13 DEF SetupInv, SetupTypes
<1>6. CASE Install!Clean
  <2>1. /\ Install!At("clean") /\ Install!Goto("brand existing")
        /\ pc' = [pc EXCEPT !.dirs["msi"] = IF Install!Has("msi") THEN pc.dirs["msi"]
           ELSE Install!NoEngine]
    BY <1>6 DEF Install!Clean, Install!Move
  <2>2. /\ script' \in Scripts /\ script'.at = "brand existing" /\ script'.migrate = script.migrate
        /\ script'.install = script.install /\ script'.dir = script.dir
        /\ script'.error = script.error
    BY <2>1, GotoMeans DEF ScriptSteps, After
  <2> DEFINE left == IF Install!Has("msi") THEN pc.dirs["msi"] ELSE Install!NoEngine
  <2>3. left \in EngineRecords /\ (Install!Has("msi") => left = pc.dirs["msi"])
        /\ (~Install!Has("msi") => left.files = Install!None)
    BY <1>1 DEF Install!NoEngine
  <2>4. pc' = [pc EXCEPT !.dirs["msi"] = left]
    BY <2>1
  <2> HIDE DEF left
  <2>5. /\ pc' \in PCs /\ pc'.dirs = [pc.dirs EXCEPT !["msi"] = left]
        /\ pc'.svc = pc.svc /\ pc'.runs = pc.runs /\ pc'.wrapped = pc.wrapped
        /\ pc'.bak = pc.bak /\ pc'.tail = pc.tail
    BY <1>0, <2>3, <2>4 DEF PCs
  <2>6. /\ pc'.dirs["latch"] = pc.dirs["latch"] /\ pc'.dirs["old"] = pc.dirs["old"]
        /\ pc'.dirs["msi"] = left /\ \A x \in Install!Dirs \ {"msi"} : pc'.dirs[x] = pc.dirs[x]
    BY <1>1, <2>5
  <2>7. Install!Has("msi")' <=> Install!Has("msi")
    BY <2>3, <2>6 DEF Install!Has
  <2>8. RunsOk(pc')
    <3>1. pc.runs # Install!None => pc'.dirs[pc.runs].files # Install!None
      BY <1>0, <2>3, <2>6 DEF RunsOk, PCs, Install!Has
    <3>2. QED
      BY <1>0, <2>5, <3>1 DEF RunsOk
  <2>9. OthersKept' /\ Install!PairingSurvives' /\ MsiStays
    <3>1. OthersKept'
      BY <1>0, <2>3, <2>5, <2>6, <2>7 DEF OthersKept, Install!Has
    <3>2. Install!PairingSurvives'
      BY <1>1, <1>3, <1>4, <2>6
    <3>3. QED
      BY <2>7, <3>1, <3>2 DEF MsiStays
  <2>10. Migrates' /\ DirKnown' /\ TailFirst'
    BY <1>2, <1>3, <2>2, <2>5, <2>6, <1>0
       DEF Migrates, DirKnown, TailFirst, Before, Moving, Moved, After
  <2>11. past'.faults = 0 => Smooth'
    <3> SUFFICES ASSUME past.faults = 0 PROVE Smooth'
      BY <1>2
    <3>1. Smooth /\ ~Done' /\ past'.result = Install!None /\ Install!At("clean")
      BY <1>0, <1>2, <1>3, <2>1 DEF Done, Install!None
    <3>2. Install!Has("latch")' /\ ~Install!Has("msi")' /\ ~Install!Has("old")'
      BY <2>6, <2>7, <3>1 DEF Smooth, Install!Has, Before, Moving, Moved, After, Install!At
    <3>3. pc.svc["latch"] # Install!None /\ pc.dirs["latch"].files = "whole"
      BY <3>1 DEF Smooth, Install!At, After
    <3>4. QED
      BY <1>1, <1>2, <1>3, <2>2, <2>5, <2>6, <3>1, <3>2, <3>3, SMTT(40), ZenonT(60)
         DEF Smooth, Before, Moving, Moved, After, Own, Install!At
  <2>12. ~Install!Uninstall
    BY <2>1 DEF Install!Uninstall, Install!Move, Install!At
  <2>13. QED
    BY <1>0, <1>2, <2>2, <2>5, <2>8, <2>9, <2>10, <2>11, <2>12 DEF SetupInv, SetupTypes
<1>7. QED
  BY <1>5, <1>6

LEMMA SetupInit == Install!SetupAssumption /\ Install!Init => SetupInv
<1> SUFFICES ASSUME Install!SetupAssumption, Install!Init PROVE SetupInv
  OBVIOUS
<1>1. PICK d \in Install!Dirs \cup {Install!None}, up \in BOOLEAN :
        pc = [dirs |-> [x \in Install!Dirs |-> IF x = d THEN Install!Installed
          ELSE Install!NoEngine],
              bak |-> FALSE,
              svc |-> [x \in Install!Dirs |-> IF x = d THEN "auto" ELSE Install!None],
              runs |-> IF up THEN d ELSE Install!None, wrapped |-> up /\ d # Install!None,
              rules |-> Install!None, tail |-> FALSE, modes |-> FALSE]
  BY DEF Install!Init
<1>2. script = Install!Idle
      /\ past = [faults |-> 0, runs |-> 0, result |-> Install!None,
         paired |-> pc.dirs # [x \in Install!Dirs |-> Install!NoEngine]]
  BY DEF Install!Init
<1>3. /\ Install!Installed \in EngineRecords /\ Install!NoEngine \in EngineRecords
      /\ Install!Installed.files = "whole" /\ Install!Installed.pair = "paired"
      /\ Install!Installed.login
      /\ Install!NoEngine.files = Install!None /\ Install!NoEngine.pair = Install!None
  BY DEF Install!Installed, Install!NoEngine, EngineRecords, Pairs, Install!None
<1>4. /\ pc.dirs = [x \in Install!Dirs |-> IF x = d THEN Install!Installed ELSE Install!NoEngine]
      /\ pc.svc = [x \in Install!Dirs |-> IF x = d THEN "auto" ELSE Install!None]
      /\ pc.runs = (IF up THEN d ELSE Install!None) /\ pc.wrapped = (up /\ d # Install!None)
  BY <1>1
<1>5. pc \in PCs
  <2>1. pc.dirs \in [Install!Dirs -> EngineRecords]
        /\ pc.svc \in [Install!Dirs -> {Install!None, "auto", "manual", "disabled"}]
    BY <1>3, <1>4
  <2>2. pc.runs \in Install!Dirs \cup {Install!None}
    BY <1>4
  <2>3. QED
    BY <1>1, <2>1, <2>2 DEF PCs
<1>6. /\ script \in Scripts /\ script.at = "idle" /\ ~script.migrate /\ ~script.error
  BY <1>2 DEF Install!Idle, Scripts, ScriptSteps
<1>7. past \in SetupPasts /\ past.result = Install!None /\ past.faults = 0
  BY <1>2 DEF Install!SetupAssumption, SetupPasts
<1>8. \A x \in Install!Dirs : /\ x = d => pc.dirs[x] = Install!Installed /\ pc.svc[x] = "auto"
                              /\ x # d => pc.dirs[x] = Install!NoEngine /\ pc.svc[x] = Install!None
  BY <1>4
<1>9. RunsOk(pc)
  BY <1>3, <1>4, <1>8 DEF RunsOk, Install!None
<1>10. {"latch", "old", "msi"} \subseteq Install!Dirs
  BY DEF Install!Dirs
<1>11. OthersKept
  BY <1>3, <1>8, <1>10 DEF OthersKept, Install!Has, Install!None
<1>12. past.paired => d \in Install!Dirs
  <2>1. d \notin Install!Dirs => pc.dirs = [x \in Install!Dirs |-> Install!NoEngine]
    BY <1>4
  <2>2. QED
    BY <1>2, <2>1
<1>13. Install!PairingSurvives
  BY <1>3, <1>8, <1>12 DEF Install!PairingSurvives
<1>14. Migrates /\ DirKnown /\ TailFirst
  BY <1>6, <1>7 DEF Migrates, DirKnown, TailFirst, Before, Moving, Moved, After
<1>15. Smooth
  <2>1. Install!Has("latch") <=> d = "latch"
    BY <1>3, <1>8, <1>10 DEF Install!Has, Install!None
  <2>2. (Install!Has("old") <=> d = "old") /\ (Install!Has("msi") <=> d = "msi")
    BY <1>3, <1>8, <1>10 DEF Install!Has, Install!None
  <2>3. d = "latch" => /\ pc.svc["latch"] # Install!None /\ pc.dirs["latch"].files = "whole"
                       /\ pc.dirs["latch"].pair = "paired"
    BY <1>3, <1>8, <1>10 DEF Install!None
  <2>4. past.paired => d \in {"latch", "old", "msi"}
    BY <1>12 DEF Install!Dirs
  <2>5. ~Done /\ past.result # "failed"
    BY <1>7 DEF Done, Install!None
  <2>6. QED
    BY <1>6, <2>1, <2>2, <2>3, <2>4, <2>5 DEF Smooth, Before, Moving, Moved, After, Own, Install!At
<1>16. QED
  BY <1>5, <1>6, <1>7, <1>9, <1>11, <1>13, <1>14, <1>15 DEF SetupInv, SetupTypes

LEMMA SetupNext == Install!SetupAssumption /\ SetupInv /\ [Install!Next]_Install!vars => SetupInv'
<1> SUFFICES ASSUME Install!SetupAssumption, SetupInv, [Install!Next]_Install!vars PROVE SetupInv'
  OBVIOUS
<1>1. CASE UNCHANGED Install!vars
  BY <1>1
     DEF Install!vars, SetupInv, SetupTypes, RunsOk, OthersKept, Install!PairingSurvives,
         Migrates, DirKnown, TailFirst, Smooth, Install!Has, Install!At, Done
<1>2. CASE Install!Next
  BY <1>2, AlikeNext, ScriptNext, CopyNext, RetireNext, RegisterNext, MsiNext
     DEF Install!Next, Install!Step
<1>3. QED
  BY <1>1, <1>2

LEMMA SetupMeans == Install!SetupAssumption /\ SetupInv
  => Install!TypeOK /\ Install!PairingSurvives /\ Install!ReachableAnyway /\ Install!SmoothSetup
<1> SUFFICES ASSUME Install!SetupAssumption, SetupInv
                    PROVE Install!TypeOK /\ Install!ReachableAnyway /\ Install!SmoothSetup
  BY DEF SetupInv
<1>0. /\ pc \in PCs /\ RunsOk(pc) /\ script \in Scripts /\ past \in SetupPasts
      /\ OthersKept /\ TailFirst
      /\ past.faults = 0 => Smooth
  BY DEF SetupInv, SetupTypes
<1>1. Install!TypeOK
  <2>1. \A d \in Install!Dirs : /\ pc.dirs[d].files \in {Install!None, "exe", "whole"}
                                /\ pc.dirs[d].pair \in {Install!None, "part", "paired", "fresh"}
                                /\ pc.svc[d] \in {Install!None, "auto", "manual", "disabled"}
    BY <1>0 DEF PCs, EngineRecords, Pairs
  <2>2. script.dir \in Install!Dirs \cup {Install!None} /\ past.faults \in 0..SetupFaults
        /\ past.runs \in 0..SetupRuns
    BY <1>0 DEF Scripts, SetupPasts
  <2>3. (pc.runs # Install!None => Install!Has(pc.runs)) /\ (pc.wrapped => pc.runs # Install!None)
    BY <1>0 DEF RunsOk, Install!Has
  <2>4. QED
    BY <2>1, <2>2, <2>3 DEF Install!TypeOK
<1>2. Install!ReachableAnyway
  BY <1>0 DEF TailFirst, Install!ReachableAnyway
<1>3. Install!SmoothSetup
  <2> SUFFICES ASSUME Done, past.faults = 0
               PROVE  /\ pc.dirs["latch"].ours /\ pc.dirs["latch"].login
                      /\ pc.svc["latch"] # Install!None
                      /\ past.paired => Install!Kind = "latch" /\ pc.dirs["latch"].pair = "paired"
                      /\ \A d \in Install!Dirs \ {"latch"} : pc.svc[d] # "auto"
    BY DEF Install!SmoothSetup, Done
  <2>1. Smooth /\ Install!At("idle")
    BY <1>0 DEF TailFirst, Done, Install!None, Install!At
  <2>2. ~Install!Has("old") /\ ~Install!Has("msi") /\ Install!Has("latch")
    BY <2>1 DEF Smooth, Install!At, Before, Moving, Moved
  <2>3. pc.svc["old"] = Install!None /\ pc.svc["msi"] = Install!None /\ "auto" # Install!None
    BY <1>0, <2>2 DEF OthersKept, Install!None
  <2>4. QED
    BY <2>1, <2>2, <2>3 DEF Smooth, Install!Kind, Install!Dirs
<1>4. QED
  BY <1>1, <1>2, <1>3

LEMMA UninstallNext ==
  ASSUME Install!SetupAssumption, SetupInv, [Install!Next]_Install!vars
  PROVE  Install!UninstallLast
<1>1. CASE UNCHANGED Install!vars
  BY <1>1 DEF Install!vars, Install!UninstallLast, Install!Has
<1>2. CASE Install!Next
  <2> SUFFICES ASSUME Install!Has("msi"), pc'.dirs["msi"].files = Install!None
               PROVE  /\ pc.dirs["latch"].files = "whole" /\ pc.runs # Install!None
                      /\ pc.bak /\ pc.dirs["latch"].pair = pc.dirs["msi"].pair
    BY DEF Install!UninstallLast
  <2>1. ~MsiStays
    BY DEF MsiStays, Install!Has
  <2>2. Install!Uninstall
    BY <1>2, <2>1, AlikeNext, ScriptNext, CopyNext, RetireNext, RegisterNext, MsiNext
    DEF Install!Next, Install!Step
  <2>3. QED
    BY <2>2, MsiNext
<1>3. QED
  BY <1>1, <1>2

\* Whatever throws and whenever the power goes, for any number of faults and
\* runs: the pairing the Macs know is whole somewhere, what was installed
\* goes last of all, and the steps that keep the PC reachable are taken; and
\* a setup without a failure leaves one engine, paired.
THEOREM SetupKeepsThePc ==
  ASSUME Install!SetupAssumption
  PROVE  Install!Spec => /\ [](Install!TypeOK /\ Install!PairingSurvives
                            /\ Install!ReachableAnyway /\ Install!SmoothSetup)
                         /\ [][Install!UninstallLast]_Install!vars
<1>1. Install!Init => SetupInv
  BY SetupInit
<1>2. SetupInv /\ [Install!Next]_Install!vars => SetupInv'
  BY SetupNext
<1>3. SetupInv => Install!TypeOK /\ Install!PairingSurvives /\ Install!ReachableAnyway
      /\ Install!SmoothSetup
  BY SetupMeans
<1>4. SetupInv /\ [Install!Next]_Install!vars => Install!UninstallLast
  BY UninstallNext
<1>5. QED
  BY <1>1, <1>2, <1>3, <1>4, PTL DEF Install!Spec

-----------------------------------------------------------------------------
(* The setup of a Mac.                                                     *)

\* UnixSetup's variables.
engine == v1
setup == v2
item == v3
processes == v4
move == v5
unixPast == v6
USE DEF engine, setup, item, processes, move, unixPast

Confs == {"old", "torn", "ours"}
Logins == {"old", "ours"}
Tmps == {Unix!None, "part", "ours"}
EngineProcesses == [conf : Confs, login : Logins, dying : BOOLEAN]
UnixEngines == [files : {Unix!None, "part", "whole"}, conf : Confs, login : Logins, tmp : Tmps,
            process : EngineProcesses \cup {Unix!NoProcess}]
Early == {"download", "copy", "copied", "stop", "conf", "confWritten"}
Late == {"start", "agent"}
Middle == {"login", "loginWritten", "loginRename", "stopAgain"}
SetupRecords == [at : {"idle"} \cup Early \cup Middle \cup Late,
           result : {Unix!None, "ok", "failed"}]
ItemRecords == [folder : {"BroLink", "Latch"}, old : BOOLEAN, new :
  {Unix!None, "BroLink", "Latch"}, wish : BOOLEAN]
JobRecords == [old : BOOLEAN, new : BOOLEAN, own : BOOLEAN]
MoveRecords == [at : {"idle", "agent", "bootout", "quit", "bootstrap", "exec"}, window :
  BOOLEAN, agent : BOOLEAN]
UnixPasts == [faults : 0..UnixFaults, runs : 0..UnixRuns, killed : BOOLEAN]
UnixTypes == /\ engine \in UnixEngines /\ setup \in SetupRecords /\ item \in ItemRecords
             /\ processes \in JobRecords
             /\ move \in MoveRecords /\ unixPast \in UnixPasts

\* What a setup has written by now, and what an engine that stays has read.
TakesInv ==
  /\ setup.at # "idle" => setup.result = Unix!None
  /\ setup.at \in Middle \cup Late \/ setup.result = "ok"
     => engine.conf = "ours"
  /\ setup.at = "loginRename" => engine.tmp = "ours"
  /\ setup.at \in {"stopAgain"} \cup Late \/ setup.result = "ok" => engine.login = "ours"
  /\ setup.at \in Late \/ setup.result = "ok" =>
       (engine.process # Unix!NoProcess /\ ~engine.process.dying =>
          engine.process.conf = "ours" /\ engine.process.login = "ours")

\* Where a move has taken the login item.
ItemInv ==
  /\ move.at # "idle" => item.folder = "Latch"
  /\ item.wish /\ ~unixPast.killed =>
       /\ move.at = "idle" => item.new = item.folder \/ (item.old /\ item.folder = "BroLink")
       /\ move.at = "agent" => move.agent
       /\ move.at \notin {"idle", "agent"} => item.new = "Latch"

UnixInv == UnixTypes /\ TakesInv /\ ItemInv

LEMMA UnixInit == Unix!UnixAssumption /\ Unix!Init => UnixInv
<1> SUFFICES ASSUME Unix!UnixAssumption, Unix!Init PROVE UnixInv
  OBVIOUS
<1>1. engine \in UnixEngines /\ setup \in SetupRecords /\ setup.at = "idle"
      /\ setup.result = Unix!None
  BY DEF Unix!Init, UnixEngines, SetupRecords, Middle, Confs, Logins, Tmps
<1>2. PICK agent \in BOOLEAN, legacy \in BOOLEAN :
       /\ item = [folder |-> IF legacy THEN "BroLink" ELSE "Latch",
                  old |-> agent /\ legacy, new |-> IF agent /\ ~legacy THEN "Latch" ELSE Unix!None,
                  wish |-> agent]
       /\ processes = [old |-> agent /\ legacy, new |-> agent /\ ~legacy, own |-> ~agent]
  BY DEF Unix!Init
<1>3. item \in ItemRecords /\ processes \in JobRecords
  BY <1>2 DEF ItemRecords, JobRecords
<1>4. move \in MoveRecords /\ move.at = "idle" /\ unixPast \in UnixPasts
  BY DEF Unix!Init, MoveRecords, UnixPasts, Unix!UnixAssumption
<1>5. item.wish => item.new = item.folder \/ (item.old /\ item.folder = "BroLink")
  BY <1>2
<1>6. TakesInv
  BY <1>1 DEF TakesInv, Middle, Unix!None, Late
<1>7. QED
  BY <1>1, <1>3, <1>4, <1>5, <1>6 DEF UnixInv, UnixTypes, ItemInv

\* The counters of what went wrong and of what was done again.
LEMMA UnixPastStays ==
  ASSUME Unix!UnixAssumption, UnixInv
  PROVE  /\ Unix!Fault \/ Unix!Again \/ Unix!NoFault
            => unixPast' \in UnixPasts /\ unixPast'.killed = unixPast.killed
         /\ Unix!Fault => unixPast'.faults # unixPast.faults
         /\ Unix!Again => unixPast'.runs # unixPast.runs
<1>1. unixPast \in UnixPasts /\ unixPast.faults \in 0..UnixFaults /\ unixPast.runs \in 0..UnixRuns
  BY DEF UnixInv, UnixTypes, UnixPasts
<1>2. ASSUME Unix!Fault
             PROVE unixPast' \in UnixPasts /\ unixPast'.killed = unixPast.killed
                   /\ unixPast'.faults # unixPast.faults
  <2>1. unixPast' = [unixPast EXCEPT !.faults = unixPast.faults + 1] /\ unixPast.faults < UnixFaults
    BY <1>2 DEF Unix!Fault
  <2>2. unixPast.faults + 1 \in 0..UnixFaults /\ unixPast.faults + 1 # unixPast.faults
    BY <1>1, <2>1 DEF Unix!UnixAssumption
  <2>3. QED
    BY <1>1, <2>1, <2>2 DEF UnixPasts
<1>3. ASSUME Unix!Again
             PROVE unixPast' \in UnixPasts /\ unixPast'.killed = unixPast.killed
                   /\ unixPast'.runs # unixPast.runs
  <2>1. unixPast' = [unixPast EXCEPT !.runs = unixPast.runs + 1] /\ unixPast.runs < UnixRuns
    BY <1>3 DEF Unix!Again
  <2>2. unixPast.runs + 1 \in 0..UnixRuns /\ unixPast.runs + 1 # unixPast.runs
    BY <1>1, <2>1 DEF Unix!UnixAssumption
  <2>3. QED
    BY <1>1, <2>1, <2>2 DEF UnixPasts
<1>4. QED
  BY <1>1, <1>2, <1>3 DEF Unix!NoFault

LEMMA ItemStays ==
  ASSUME UnixInv, UNCHANGED <<item, processes, move>>, unixPast'.killed = unixPast.killed
  PROVE  item' \in ItemRecords /\ processes' \in JobRecords /\ move' \in MoveRecords /\ ItemInv'
BY DEF UnixInv, UnixTypes, ItemInv

EngineSteps ==
  \/ Unix!Run \/ Unix!Download \/ Unix!CopyBegins \/ Unix!CopyEnds \/ Unix!StopEngine
     \/ Unix!Dies \/ Unix!ConfBegins \/ Unix!ConfEnds
  \/ Unix!LoginBegins \/ Unix!LoginWritten \/ Unix!LoginEnds \/ Unix!StartEngine
     \/ Unix!CareStarts \/ Unix!SetupFails \/ Unix!SetupCut

LEMMA EngineNext ==
  ASSUME Unix!UnixAssumption, UnixInv, EngineSteps
  PROVE  UnixInv' /\ UNCHANGED <<item, processes, move>>
<1>0. /\ engine \in UnixEngines /\ setup \in SetupRecords /\ TakesInv
      /\ engine.process \in EngineProcesses \cup {Unix!NoProcess}
  BY DEF UnixInv, UnixTypes, UnixEngines
<1>1. UNCHANGED <<item, processes, move>> /\ (Unix!Fault \/ Unix!Again \/ Unix!NoFault)
  BY DEF EngineSteps, Unix!Run, Unix!Download, Unix!CopyBegins, Unix!CopyEnds, Unix!StopEngine,
         Unix!Dies, Unix!ConfBegins, Unix!ConfEnds, Unix!LoginBegins, Unix!LoginWritten,
         Unix!LoginEnds,
         Unix!StartEngine, Unix!CareStarts, Unix!SetupFails, Unix!SetupCut, Unix!Step,
         Unix!SetupOnly, Unix!NoFault
<1>2. unixPast' \in UnixPasts /\ unixPast'.killed = unixPast.killed
  BY <1>1, UnixPastStays
<1>3. item' \in ItemRecords /\ processes' \in JobRecords /\ move' \in MoveRecords /\ ItemInv'
  BY <1>1, <1>2, ItemStays
<1> SUFFICES engine' \in UnixEngines /\ setup' \in SetupRecords /\ TakesInv'
  BY <1>1, <1>2, <1>3 DEF UnixInv, UnixTypes
<1>d. ASSUME NEW from,
             NEW to \in {"idle"} \cup Early \cup Middle \cup Late,
               Unix!Step(from, to)
      PROVE  setup.at = from /\ setup' \in SetupRecords /\ setup'.at = to
             /\ setup'.result = setup.result
  BY <1>0, <1>d DEF Unix!Step, SetupRecords, Middle
<1>t. {"copy", "copied", "stop", "conf", "confWritten"} \subseteq Early
      /\ {"start", "agent"} \subseteq Late
  BY DEF Early, Late
<1>e. /\ \A e \in UnixEngines : Unix!Starts(e) \in UnixEngines /\ Unix!Starts(e).conf = e.conf
         /\ Unix!Starts(e).login = e.login /\ Unix!Starts(e).tmp = e.tmp
      /\ \A e \in UnixEngines : Unix!Starts(e).process.conf = e.conf
         /\ Unix!Starts(e).process.login = e.login
  <2> SUFFICES ASSUME NEW e \in UnixEngines
               PROVE  /\ Unix!Starts(e) \in UnixEngines /\ Unix!Starts(e).conf = e.conf
                      /\ Unix!Starts(e).login = e.login /\ Unix!Starts(e).tmp = e.tmp
                      /\ Unix!Starts(e).process.conf = e.conf
                      /\ Unix!Starts(e).process.login = e.login
    OBVIOUS
  <2>1. [conf |-> e.conf, login |-> e.login, dying |-> FALSE] \in EngineProcesses
    BY DEF UnixEngines, EngineProcesses
  <2>2. QED
    BY <2>1 DEF UnixEngines, Unix!Starts
<1>4. CASE Unix!Run
  <2>1. setup'.at \in {"download", "stop"} /\ setup'.result = Unix!None
        /\ setup' \in SetupRecords /\ engine' = engine
    BY <1>4 DEF Unix!Run, SetupRecords, Middle, Early
  <2>2. QED
    BY <1>0, <2>1 DEF TakesInv, Middle, Late, Unix!None
<1>5. CASE Unix!Download \/ Unix!CopyBegins \/ Unix!CopyEnds \/ Unix!ConfBegins \/ Unix!ConfEnds
  <2>1. /\ setup.at \in Early \ {"stop"} /\ setup' \in SetupRecords /\ setup'.result = setup.result
        /\ setup'.at \in Early \cup {"login"} /\ (setup'.at = "login" => Unix!ConfEnds)
    BY <1>0, <1>5
       DEF Unix!Download, Unix!CopyBegins, Unix!CopyEnds, Unix!ConfBegins, Unix!ConfEnds,
           Unix!Step, SetupRecords, Middle, Early
  <2>2. /\ engine' \in UnixEngines /\ engine'.process = engine.process
        /\ Unix!ConfEnds => engine'.conf = "ours"
    BY <1>0, <1>5
       DEF Unix!Download, Unix!CopyBegins, Unix!CopyEnds, Unix!ConfBegins, Unix!ConfEnds,
           UnixEngines, Confs
  <2>3. QED
    BY <1>0, <2>1, <2>2 DEF TakesInv, Middle, Early, Late, Unix!None
<1>6. CASE Unix!StopEngine
  <2>1. engine' = [engine EXCEPT !.process = Unix!Stop(engine.process)]
    BY <1>6 DEF Unix!StopEngine
  <2>2. /\ Unix!Stop(engine.process) \in EngineProcesses \cup {Unix!NoProcess}
        /\ Unix!Stop(engine.process) # Unix!NoProcess => Unix!Stop(engine.process).dying
    <3>1. CASE engine.process = Unix!NoProcess
      <4>1. Unix!Stop(Unix!NoProcess) = [Unix!NoProcess EXCEPT !.dying = FALSE]
        BY DEF Unix!Stop
      <4>2. [Unix!NoProcess EXCEPT !.dying = FALSE] = Unix!NoProcess
        <5>1. \A p \in [conf : {Unix!None}, login : {Unix!None}, dying : BOOLEAN] :
                ~p.dying => [p EXCEPT !.dying = FALSE] = p
          OBVIOUS
        <5>2. Unix!NoProcess \in [conf : {Unix!None}, login : {Unix!None}, dying : BOOLEAN]
              /\ ~Unix!NoProcess.dying
          BY DEF Unix!NoProcess
        <5>3. QED
          BY <5>1, <5>2
      <4>3. QED
        BY <3>1, <4>1, <4>2
    <3>2. CASE engine.process # Unix!NoProcess
      BY <1>0, <3>2 DEF Unix!Stop, EngineProcesses
    <3>3. QED
      BY <3>1, <3>2
  <2> HIDE DEF Unix!Stop
  <2>3. /\ engine' \in UnixEngines /\ engine'.conf = engine.conf /\ engine'.login = engine.login
        /\ engine'.process # Unix!NoProcess => engine'.process.dying
    BY <1>0, <2>1, <2>2 DEF UnixEngines
  <2>4. /\ setup' \in SetupRecords /\ setup'.result = setup.result
        /\ \/ setup.at = "stop" /\ setup'.at = "conf"
           \/ setup.at = "stopAgain" /\ setup'.at = "start"
    BY <1>0, <1>6 DEF Unix!StopEngine, Unix!Step, SetupRecords, Middle, Early, Late
  <2>5. QED
    BY <1>0, <2>3, <2>4 DEF TakesInv, Middle, Late, Unix!None
<1>7. CASE Unix!Dies
  <2>1. engine' = [engine EXCEPT !.process = Unix!NoProcess] /\ setup' = setup
    BY <1>7 DEF Unix!Dies
  <2>2. /\ engine' \in UnixEngines /\ engine'.conf = engine.conf /\ engine'.login = engine.login
        /\ engine'.process = Unix!NoProcess
    BY <1>0, <2>1 DEF UnixEngines
  <2>3. QED
    BY <1>0, <2>1, <2>2 DEF TakesInv, Middle, Late
<1>8. CASE Unix!LoginBegins \/ Unix!LoginWritten \/ Unix!LoginEnds
  <2>1. /\ setup' \in SetupRecords /\ setup'.result = setup.result
        /\ \/ Unix!LoginBegins /\ setup.at = "login" /\ setup'.at = "loginWritten"
           \/ Unix!LoginWritten /\ setup.at = "loginWritten" /\ setup'.at = "loginRename"
           \/ Unix!LoginEnds /\ setup.at = "loginRename" /\ setup'.at = "stopAgain"
    <3>1. Middle \subseteq {"idle"} \cup Early \cup Middle \cup Late
      OBVIOUS
    <3>2. {"loginWritten", "loginRename", "stopAgain"} \subseteq Middle
      BY DEF Middle
    <3>3. CASE Unix!LoginBegins
      <4>1. Unix!Step("login", "loginWritten")
        BY <3>3 DEF Unix!LoginBegins
      <4>2. QED
        BY <1>d, <3>1, <3>2, <3>3, <4>1
    <3>4. CASE Unix!LoginWritten
      <4>1. Unix!Step("loginWritten", "loginRename")
        BY <3>4 DEF Unix!LoginWritten
      <4>2. QED
        BY <1>d, <3>1, <3>2, <3>4, <4>1
    <3>5. CASE Unix!LoginEnds
      <4>1. Unix!Step("loginRename", "stopAgain")
        BY <3>5 DEF Unix!LoginEnds
      <4>2. QED
        BY <1>d, <3>1, <3>2, <3>5, <4>1
    <3>6. QED
      BY <1>8, <3>3, <3>4, <3>5
  <2>2. Unix!LoginEnds => engine.tmp = "ours"
    BY <1>0 DEF Unix!LoginEnds, Unix!Step, TakesInv, Middle
  <2>3. /\ engine' \in UnixEngines /\ engine'.conf = engine.conf /\ engine'.process = engine.process
        /\ Unix!LoginEnds => engine'.login = "ours"
        /\ Unix!LoginWritten => engine'.tmp = "ours"
    BY <1>0, <1>8, <2>2
       DEF Unix!LoginBegins, Unix!LoginWritten, Unix!LoginEnds, UnixEngines, Logins, Tmps
  <2>4. QED
    BY <1>0, <2>1, <2>3 DEF TakesInv, Middle, Late, Unix!None
<1>9. CASE Unix!StartEngine
  <2>1. setup.at = "start" /\ setup' \in SetupRecords /\ setup'.at = "agent"
        /\ setup'.result = setup.result
    BY <1>9, <1>d, <1>t DEF Unix!StartEngine
  <2>2. engine' = engine \/ engine' = Unix!Starts(engine)
    BY <1>9 DEF Unix!StartEngine
  <2>3. QED
    BY <1>0, <1>e, <2>1, <2>2 DEF TakesInv, Middle, Late, Unix!None
<1>10. CASE Unix!CareStarts
  <2>1. engine' = Unix!Starts(engine) /\ setup' = setup
    BY <1>10 DEF Unix!CareStarts
  <2>2. QED
    <3>1. engine' \in UnixEngines /\ engine'.conf = engine.conf /\ engine'.login = engine.login
          /\ engine'.tmp = engine.tmp /\ engine'.process.conf = engine.conf
          /\ engine'.process.login = engine.login
      BY <1>0, <1>e, <2>1
    <3>2. QED
      BY <1>0, <2>1, <3>1 DEF TakesInv, Middle, Late
<1>11. CASE Unix!SetupFails
  <2>1. setup' \in SetupRecords /\ setup'.at = "idle" /\ setup'.result = "failed"
    BY <1>11 DEF Unix!SetupFails, SetupRecords, Middle
  <2>2. engine' \in UnixEngines
    <3>1. engine' = [engine EXCEPT !.tmp = Unix!None] /\ Unix!None \in Tmps
      BY <1>11 DEF Unix!SetupFails, Tmps
    <3>2. QED
      BY <1>0, <3>1 DEF UnixEngines
  <2>3. QED
    BY <2>1, <2>2 DEF TakesInv, Middle, Late
<1>12. CASE Unix!SetupCut
  <2>1. setup' \in SetupRecords /\ setup'.at = "idle" /\ setup'.result = Unix!None
        /\ engine' = engine
    BY <1>12 DEF Unix!SetupCut, SetupRecords, Middle
  <2>2. QED
    BY <1>0, <2>1 DEF TakesInv, Middle, Late, Unix!None
<1>13. QED
  BY <1>4, <1>5, <1>6, <1>7, <1>8, <1>9, <1>10, <1>11, <1>12 DEF EngineSteps

MoveSteps ==
  \/ Unix!AgentOn \/ Unix!Switch \/ Unix!ServiceKeeps \/ Unix!Login
  \/ Unix!Rename \/ Unix!WriteAndRetire \/ Unix!Bootout \/ Unix!Quit \/ Unix!Bootstrap
     \/ Unix!Exec \/ Unix!MoveCut

LEMMA MoveNext ==
  ASSUME Unix!UnixAssumption, UnixInv, MoveSteps
  PROVE  UnixInv'
<1>0. /\ engine \in UnixEngines /\ setup \in SetupRecords /\ TakesInv /\ ItemInv
      /\ item \in ItemRecords /\ processes \in JobRecords /\ move \in MoveRecords
      /\ unixPast \in UnixPasts
  BY DEF UnixInv, UnixTypes
<1>b. /\ processes.old \in BOOLEAN /\ processes.new \in BOOLEAN /\ processes.own \in BOOLEAN
      /\ move.window \in BOOLEAN /\ move.agent \in BOOLEAN /\ item.old \in BOOLEAN
  BY <1>0, Zenon DEF JobRecords, MoveRecords, ItemRecords
<1>w. /\ \A i \in ItemRecords, f \in {"BroLink", "Latch"} :
           /\ Unix!WriteAgent(i, f) \in ItemRecords /\ Unix!WriteAgent(i, f).new = f
           /\ Unix!WriteAgent(i, f).folder = i.folder /\ Unix!WriteAgent(i, f).wish = i.wish
      /\ item.folder \in {"BroLink", "Latch"}
  BY <1>0 DEF ItemRecords, Unix!WriteAgent
<1>l. Unix!Load => processes' \in JobRecords
  BY <1>0, <1>b DEF Unix!Load, JobRecords
<1>1. ASSUME UNCHANGED <<engine, setup>>
             PROVE engine' \in UnixEngines /\ setup' \in SetupRecords /\ TakesInv'
  BY <1>0, <1>1 DEF TakesInv, Middle
<1>2. CASE Unix!AgentOn
  <2>1. /\ item' = Unix!WriteAgent(item, item.folder) /\ processes' \in JobRecords
        /\ engine' = engine /\ move' = move
        /\ unixPast' = unixPast /\ setup.at = "agent" /\ setup' = [at |-> "idle", result |-> "ok"]
    BY <1>2, <1>l DEF Unix!AgentOn, Unix!NoFault
  <2>2. setup' \in SetupRecords /\ TakesInv'
    BY <1>0, <2>1 DEF TakesInv, SetupRecords, Middle, Late
  <2>3. item' \in ItemRecords /\ ItemInv'
    BY <1>0, <1>w, <2>1 DEF ItemInv
  <2>4. QED
    BY <1>0, <2>1, <2>2, <2>3 DEF UnixInv, UnixTypes
<1>3. CASE Unix!Switch
  <2>1. engine' = engine /\ setup' = setup /\ move' = move /\ move.at = "idle" /\ Unix!Again
    BY <1>3 DEF Unix!Switch
  <2>2. unixPast' \in UnixPasts /\ unixPast'.killed = unixPast.killed
    BY <2>1, UnixPastStays
  <2>3. CASE item' = [Unix!WriteAgent(item, item.folder) EXCEPT !.wish = TRUE] /\ Unix!Load
    <3>1. item' \in ItemRecords /\ item'.folder = item.folder /\ item'.new = item.folder
      <4> DEFINE i == Unix!WriteAgent(item, item.folder)
      <4>1. i \in ItemRecords /\ i.folder = item.folder /\ i.new = item.folder
            /\ item' = [i EXCEPT !.wish = TRUE]
        BY <1>0, <1>w, <2>3
      <4> HIDE DEF i
      <4>2. QED
        BY <4>1 DEF ItemRecords
    <3>2. ItemInv'
      BY <2>1, <3>1 DEF ItemInv
    <3>3. QED
      BY <1>0, <1>1, <1>l, <2>1, <2>2, <2>3, <3>1, <3>2 DEF UnixInv, UnixTypes
  <2>4. CASE item' = [item EXCEPT !.new = Unix!None, !.old = FALSE, !.wish = FALSE]
             /\ processes' = processes
    <3>1. item' \in ItemRecords /\ ~item'.wish
      BY <1>0, <2>4 DEF ItemRecords
    <3>2. ItemInv'
      BY <2>1, <3>1 DEF ItemInv
    <3>3. QED
      BY <1>0, <1>1, <2>1, <2>2, <2>4, <3>1, <3>2 DEF UnixInv, UnixTypes
  <2>5. QED
    BY <1>3, <2>3, <2>4 DEF Unix!Switch
<1>4. CASE Unix!ServiceKeeps
  <2>1. /\ item' = Unix!WriteAgent(item, "Latch") /\ item.folder = "Latch" /\ engine' = engine
        /\ setup' = setup
        /\ processes' = processes /\ move' = move /\ unixPast' = unixPast
    BY <1>4 DEF Unix!ServiceKeeps
  <2>2. item' \in ItemRecords /\ ItemInv'
    BY <1>0, <1>w, <2>1 DEF ItemInv
  <2>3. QED
    BY <1>0, <1>1, <2>1, <2>2 DEF UnixInv, UnixTypes
<1>5. CASE Unix!Login
  <2>1. /\ move' = [at |-> "idle", window |-> FALSE, agent |-> FALSE]
        /\ setup' = [at |-> "idle", result |-> Unix!None] /\ item' = item
        /\ unixPast' = [unixPast EXCEPT !.runs = unixPast.runs + 1, !.killed = unixPast.killed
           \/ move.at # "idle"]
        /\ engine' = [engine EXCEPT !.process = Unix!NoProcess] /\ unixPast.runs < UnixRuns
    BY <1>5 DEF Unix!Login
  <2>2. unixPast.runs + 1 \in 0..UnixRuns /\ unixPast.runs + 1 # unixPast.runs
        /\ unixPast.killed \in BOOLEAN
    <3>1. unixPast.runs \in 0..UnixRuns
      BY <1>0 DEF UnixPasts
    <3>2. unixPast.killed \in BOOLEAN
      BY <1>0, Zenon DEF UnixPasts
    <3>3. QED
      BY <2>1, <3>1, <3>2 DEF Unix!UnixAssumption
  <2>3. unixPast' \in UnixPasts /\ unixPast'.runs # unixPast.runs
        /\ unixPast'.killed = (unixPast.killed \/ move.at # "idle")
    BY <1>0, <2>1, <2>2 DEF UnixPasts
  <2>4. processes' \in JobRecords
    <3>1. (item.old /\ item.folder = "BroLink") \in BOOLEAN /\ (item.new = item.folder) \in BOOLEAN
      OBVIOUS
    <3>2. processes' = [old |-> item.old
          /\ item.folder = "BroLink", new |-> item.new = item.folder, own |-> FALSE]
      BY <1>5 DEF Unix!Login
    <3>3. QED
      BY <3>1, <3>2 DEF JobRecords
  <2>5. engine' \in UnixEngines /\ setup' \in SetupRecords /\ TakesInv'
    <3>1. engine' \in UnixEngines
      BY <1>0, <2>1 DEF UnixEngines
    <3>2. QED
      BY <2>1, <3>1 DEF SetupRecords, TakesInv, Middle, Late, Unix!None
  <2>6. move' \in MoveRecords /\ move'.at = "idle"
    BY <2>1 DEF MoveRecords
  <2>7. ItemInv'
    BY <1>0, <2>1, <2>3, <2>6 DEF ItemInv
  <2>8. QED
    BY <1>0, <2>1, <2>3, <2>4, <2>5, <2>6, <2>7 DEF UnixInv, UnixTypes
<1>6. CASE Unix!Rename
  <2>1. /\ move.at = "idle" /\ item.folder = "BroLink" /\ item' = [item EXCEPT !.folder = "Latch"]
        /\ engine' = engine /\ setup' = setup /\ processes' = processes /\ unixPast' = unixPast
    BY <1>6 DEF Unix!Rename, Unix!NoFault
  <2>2. PICK window \in {TRUE, ~(processes.old \/ processes.own)} :
          move' = [at |-> "agent", window |-> window, agent |-> item.old \/ item.new # Unix!None]
    BY <1>6 DEF Unix!Rename
  <2>3. window \in BOOLEAN /\ (item.old \/ item.new # Unix!None) \in BOOLEAN
    BY <1>b
  <2>4. move' \in MoveRecords /\ move'.at = "agent"
        /\ move'.agent = (item.old \/ item.new # Unix!None)
    BY <2>2, <2>3 DEF MoveRecords
  <2>5. /\ item' \in ItemRecords /\ item'.folder = "Latch" /\ item'.wish = item.wish
    BY <1>0, <2>1 DEF ItemRecords
  <2>6. ItemInv'
    BY <1>0, <2>1, <2>4, <2>5 DEF ItemInv, Unix!None
  <2>7. QED
    BY <1>0, <1>1, <2>1, <2>4, <2>5, <2>6 DEF UnixInv, UnixTypes
<1>7. ASSUME NEW to \in {"bootout", "quit", "bootstrap", "exec"}, move' = [move EXCEPT !.at = to]
      PROVE  move' \in MoveRecords /\ move'.at = to /\ move'.agent = move.agent
  BY <1>0, <1>7 DEF MoveRecords
<1>8. CASE Unix!WriteAndRetire
  <2>1. /\ move.at = "agent" /\ engine' = engine /\ setup' = setup /\ unixPast' = unixPast
        /\ processes' = processes
        /\ item' = IF move.agent THEN Unix!WriteAgent(item, "Latch")
           ELSE [item EXCEPT !.old = FALSE]
        /\ \E to \in {"bootout", "exec"} : move' = [move EXCEPT !.at = to]
    BY <1>8 DEF Unix!WriteAndRetire, Unix!MoveStep, Unix!NoFault
  <2>2. move' \in MoveRecords /\ move'.at \in {"bootout", "exec"}
    BY <1>7, <2>1
  <2>3. /\ item' \in ItemRecords /\ item'.folder = item.folder /\ item'.wish = item.wish
        /\ move.agent => item'.new = "Latch"
    BY <1>0, <1>b, <1>w, <2>1 DEF ItemRecords
  <2>4. ItemInv'
    BY <1>0, <2>1, <2>2, <2>3 DEF ItemInv
  <2>5. QED
    BY <1>0, <1>1, <2>1, <2>2, <2>3, <2>4 DEF UnixInv, UnixTypes
<1>9. CASE Unix!Bootout \/ Unix!Quit \/ Unix!Bootstrap
  <2>1. /\ move.at \notin {"idle", "agent", "exec"} /\ engine' = engine /\ setup' = setup
        /\ unixPast' = unixPast
        /\ item' = item /\ \E to \in {"quit", "bootstrap", "exec"} : move' = [move EXCEPT !.at = to]
    BY <1>9 DEF Unix!Bootout, Unix!Quit, Unix!Bootstrap, Unix!MoveStep, Unix!NoFault
  <2>2. move' \in MoveRecords /\ move'.at \in {"quit", "bootstrap", "exec"}
    BY <1>7, <2>1
  <2>3. processes' \in JobRecords
    BY <1>0, <1>9, <1>b DEF Unix!Bootout, Unix!Quit, Unix!Bootstrap, JobRecords
  <2>4. ItemInv'
    BY <1>0, <2>1, <2>2 DEF ItemInv
  <2>5. QED
    BY <1>0, <1>1, <2>1, <2>2, <2>3, <2>4 DEF UnixInv, UnixTypes
<1>10. CASE Unix!Exec
  <2>1. /\ move.at = "exec" /\ engine' = engine /\ setup' = setup /\ unixPast' = unixPast
        /\ item' = item
        /\ move' = [at |-> "idle", window |-> FALSE, agent |-> FALSE]
        /\ processes' = [processes EXCEPT !.own = processes.own
           \/ ~(processes.old \/ processes.new)]
    BY <1>10 DEF Unix!Exec, Unix!NoFault
  <2>2. move' \in MoveRecords /\ move'.at = "idle"
    BY <2>1 DEF MoveRecords
  <2>3. processes' \in JobRecords
    BY <1>0, <1>b, <2>1 DEF JobRecords
  <2>4. ItemInv'
    BY <1>0, <2>1, <2>2 DEF ItemInv
  <2>5. QED
    BY <1>0, <1>1, <2>1, <2>2, <2>3, <2>4 DEF UnixInv, UnixTypes
<1>11. CASE Unix!MoveCut
  <2>1. /\ engine' = engine /\ setup' = setup /\ item' = item /\ processes' = processes
        /\ unixPast' = [unixPast EXCEPT !.faults = unixPast.faults + 1, !.killed = TRUE]
        /\ unixPast.faults < UnixFaults
        /\ move' = [at |-> "idle", window |-> FALSE, agent |-> FALSE]
    BY <1>11 DEF Unix!MoveCut
  <2>2. unixPast.faults + 1 \in 0..UnixFaults /\ unixPast.faults + 1 # unixPast.faults
    <3>1. unixPast.faults \in 0..UnixFaults
      BY <1>0 DEF UnixPasts
    <3>2. QED
      BY <2>1, <3>1 DEF Unix!UnixAssumption
  <2>3. unixPast' \in UnixPasts /\ unixPast'.killed /\ unixPast'.faults # unixPast.faults
    BY <1>0, <2>1, <2>2 DEF UnixPasts
  <2>4. move' \in MoveRecords /\ move'.at = "idle"
    BY <2>1 DEF MoveRecords
  <2>5. ItemInv'
    BY <2>3, <2>4 DEF ItemInv
  <2>6. QED
    BY <1>0, <1>1, <2>1, <2>3, <2>4, <2>5 DEF UnixInv, UnixTypes
<1>12. QED
  BY <1>2, <1>3, <1>4, <1>5, <1>6, <1>8, <1>9, <1>10, <1>11 DEF MoveSteps

LEMMA UnixNext == Unix!UnixAssumption /\ UnixInv /\ [Unix!Next]_Unix!vars => UnixInv'
<1> SUFFICES ASSUME Unix!UnixAssumption, UnixInv, [Unix!Next]_Unix!vars PROVE UnixInv'
  OBVIOUS
<1>1. CASE UNCHANGED Unix!vars
  BY <1>1 DEF Unix!vars, UnixInv, UnixTypes, TakesInv, Middle, ItemInv
<1>2. CASE EngineSteps
  BY <1>2, EngineNext
<1>3. CASE MoveSteps
  BY <1>3, MoveNext
<1>4. QED
  BY <1>1, <1>2, <1>3 DEF Unix!Next, EngineSteps, MoveSteps

LEMMA UnixMeans == UnixInv
  => Unix!TypeOK /\ Unix!SetupTakes /\ Unix!LoginIsWhole /\ Unix!StartsAtLogin
<1> SUFFICES ASSUME UnixInv
                    PROVE Unix!TypeOK /\ Unix!SetupTakes /\ Unix!LoginIsWhole /\ Unix!StartsAtLogin
  OBVIOUS
<1>1. /\ engine \in UnixEngines /\ setup \in SetupRecords /\ item \in ItemRecords
      /\ move \in MoveRecords /\ unixPast \in UnixPasts
      /\ TakesInv /\ ItemInv
  BY DEF UnixInv, UnixTypes
<1>2. /\ engine.files \in {Unix!None, "part", "whole"} /\ engine.conf \in Confs
      /\ engine.login \in Logins
      /\ engine.process \in EngineProcesses \cup {Unix!NoProcess}
  BY <1>1 DEF UnixEngines
<1>3. /\ item.folder \in {"BroLink", "Latch"} /\ item.new \in {Unix!None, "BroLink", "Latch"}
      /\ unixPast.faults \in 0..UnixFaults /\ unixPast.runs \in 0..UnixRuns
  BY <1>1 DEF ItemRecords, UnixPasts
<1>4. /\ engine.login # "part" /\ engine.process.login # "part"
      /\ engine.process.dying => engine.process.conf # Unix!None
  BY <1>2 DEF EngineProcesses, Unix!NoProcess, Logins, Confs, Unix!None
<1>5. QED
  BY <1>1, <1>2, <1>3, <1>4
     DEF Unix!TypeOK, Unix!SetupTakes, Unix!LoginIsWhole, Unix!StartsAtLogin, TakesInv, ItemInv,
         Confs

\* For any number of failures, cuts, setups and logins: an engine that stays
\* after a setup that ended well has read what that setup wrote, whoever
\* started it; there never is half a login, nor does an engine read one; and
\* what the owner wants to start at login does.
THEOREM UnixSetupHolds ==
  ASSUME Unix!UnixAssumption
  PROVE  Unix!Spec => [](/\ Unix!TypeOK /\ Unix!SetupTakes /\ Unix!LoginIsWhole
                         /\ Unix!StartsAtLogin)
<1>1. Unix!Init => UnixInv
  BY UnixInit
<1>2. UnixInv /\ [Unix!Next]_Unix!vars => UnixInv'
  BY UnixNext
<1>3. UnixInv => Unix!TypeOK /\ Unix!SetupTakes /\ Unix!LoginIsWhole /\ Unix!StartsAtLogin
  BY UnixMeans
<1>4. QED
  BY <1>1, <1>2, <1>3, PTL DEF Unix!Spec

-----------------------------------------------------------------------------
(* The parts together, as PcSpec runs them.                                *)

\* A part's invariant says something only while that part is the one run.
FilesInv ==
  /\ part = "settings" => SettingsInv /\ SetOnDisk
  /\ part = "log" => LogInv
  /\ part = "folder" => FolderInv
  /\ part = "window" => WindowInv

EngineInv ==
  /\ part = "engine" => CareInv
  /\ part = "setup" => SetupInv
  /\ part = "unix" => UnixInv

LEMMA Bounds ==
  /\ Engine!CareAssumption /\ Install!SetupAssumption /\ Unix!UnixAssumption
  /\ Settings!SettingsAssumption /\ Log!LogAssumption /\ Page!WindowAssumption
  /\ Folder!TakeoverAssumption /\ "setup" \notin Threads /\ OneWriter
BY BoundsAssumption, OwnersAssumption DEF OneWriter

\* A step of the PC is a step of the part that is run, or nothing.
LEMMA PartMoves ==
  ASSUME [PcNext]_allVars
  PROVE  /\ part' = part
         /\ part = "engine" => [Engine!Next]_Engine!vars
         /\ part = "setup" => [Install!Next]_Install!vars
         /\ part = "unix" => [Unix!Next]_Unix!vars
         /\ part = "settings" => [Settings!Next]_Settings!vars
         /\ part = "log" => [Log!Next]_Log!vars
         /\ part = "window" => [Page!Next]_Page!vars
         /\ part = "folder" => [Folder!Next]_Folder!vars
<1>1. CASE PcNext
  <2>1. part' = part
    BY <1>1 DEF PcNext
  <2>2. part = "engine" => [Engine!Next]_Engine!vars
    BY <1>1 DEF PcNext
  <2>3. part = "setup" => [Install!Next]_Install!vars
    BY <1>1 DEF PcNext
  <2>4. part = "unix" => [Unix!Next]_Unix!vars
    BY <1>1 DEF PcNext
  <2>5. part = "settings" => [Settings!Next]_Settings!vars
    BY <1>1 DEF PcNext
  <2>6. part = "log" => [Log!Next]_Log!vars
    BY <1>1 DEF PcNext
  <2>7. part = "window" => [Page!Next]_Page!vars
    BY <1>1 DEF PcNext
  <2>8. part = "folder" => [Folder!Next]_Folder!vars
    BY <1>1 DEF PcNext
  <2>9. QED
    BY <2>1, <2>2, <2>3, <2>4, <2>5, <2>6, <2>7, <2>8
<1>2. CASE UNCHANGED allVars
  <2>1. UNCHANGED <<part, v1, v2, v3, v4, v5, v6, v7, v8, v9, v10>>
    BY <1>2 DEF allVars
  <2>2. UNCHANGED <<v11, v12, v13, v14, v15, v16, v17, v18, v19, v20>>
    BY <1>2 DEF allVars
  <2>3. UNCHANGED Engine!vars
    BY <2>1, <2>2 DEF Engine!vars
  <2>4. UNCHANGED Install!vars
    BY <2>1, <2>2 DEF Install!vars
  <2>5. UNCHANGED Unix!vars
    BY <2>1, <2>2 DEF Unix!vars
  <2>6. UNCHANGED Settings!vars
    BY <2>1, <2>2 DEF Settings!vars
  <2>7. UNCHANGED Log!vars
    BY <2>1, <2>2 DEF Log!vars
  <2>8. UNCHANGED Page!vars
    BY <2>1, <2>2 DEF Page!vars, Page!pollVars, Page!noteVars
  <2>9. UNCHANGED Folder!vars
    BY <2>1, <2>2 DEF Folder!vars
  <2>10. QED
    BY <2>1, <2>3, <2>4, <2>5, <2>6, <2>7, <2>8, <2>9
<1>3. QED
  BY <1>1, <1>2

LEMMA PartStarts ==
  ASSUME PcInit
  PROVE  /\ part = "engine" => Engine!Init
         /\ part = "setup" => Install!Init
         /\ part = "unix" => Unix!Init
         /\ part = "settings" => Settings!Init
         /\ part = "log" => Log!Init
         /\ part = "window" => Page!Init
         /\ part = "folder" => Folder!Init
BY DEF PcInit

LEMMA FilesInit == PcInit => FilesInv
BY PartStarts, Bounds, SettingsInit, LogInit, FolderInit, WindowInit DEF FilesInv

LEMMA FilesNext == FilesInv /\ [PcNext]_allVars => FilesInv'
<1> SUFFICES ASSUME FilesInv, [PcNext]_allVars PROVE FilesInv'
  OBVIOUS
<1>1. part = "settings" => (SettingsInv /\ SetOnDisk)'
  BY PartMoves, Bounds, SettingsNext, SetOnDiskNext DEF FilesInv
<1>2. part = "log" => LogInv'
  BY PartMoves, Bounds, LogNext DEF FilesInv
<1>3. part = "folder" => FolderInv'
  BY PartMoves, Bounds, FolderNext DEF FilesInv
<1>4. part = "window" => WindowInv'
  BY PartMoves, Bounds, WindowNext DEF FilesInv
<1>5. QED
  BY PartMoves, <1>1, <1>2, <1>3, <1>4 DEF FilesInv

LEMMA EngineInit == PcInit => EngineInv
BY PartStarts, Bounds, CareInit, SetupInit, UnixInit DEF EngineInv

LEMMA EngineInvNext == EngineInv /\ [PcNext]_allVars => EngineInv'
<1> SUFFICES ASSUME EngineInv, [PcNext]_allVars PROVE EngineInv'
  OBVIOUS
<1>1. part = "engine" => CareInv'
  BY PartMoves, Bounds, CareNext DEF EngineInv
<1>2. part = "setup" => SetupInv'
  BY PartMoves, Bounds, SetupNext DEF EngineInv
<1>3. part = "unix" => UnixInv'
  BY PartMoves, Bounds, UnixNext DEF EngineInv
<1>4. QED
  BY PartMoves, <1>1, <1>2, <1>3 DEF EngineInv

LEMMA FolderMeans == FolderInv => Folder!TypeOK /\ Folder!NeverHalf /\ Folder!TakenOver
BY DEF FolderInv, Folder!TypeOK, Folder!TakenOver

(* Whatever the number of threads, edits, lines, clicks and faults: the    *)
(* settings file and the log keep what was written to them, the settings   *)
(* of an earlier version are taken over whole or not at all, and the       *)
(* window draws again after every change of what it shows.                 *)
THEOREM FilesStayAlways == PcSpec => []FilesStay
<1>1. FilesInv => FilesStay
  BY Bounds, SettingsMeans, LogMeans, FolderMeans, WindowMeans DEF FilesInv, FilesStay
<1>2. QED
  BY FilesInit, FilesNext, <1>1, PTL DEF PcSpec

(* Whatever the number of runs, apps and faults: neither the care of the   *)
(* engine nor a setup of it on Windows or on a Mac loses a pairing, leaves *)
(* half a configuration or says that an engine works that does not.        *)
THEOREM EngineIsRightAlways == PcSpec => []EngineIsRight
<1>1. EngineInv => EngineIsRight
  BY Bounds, CareMeans, SetupMeans, UnixMeans DEF EngineInv, EngineIsRight
<1>2. QED
  BY EngineInit, EngineInvNext, <1>1, PTL DEF PcSpec

(* No step undoes another thread's setting or overwrites damaged settings, *)
(* uninstalls the old engine before the new one is whole, or shows one     *)
(* action's result as another's.                                           *)
THEOREM PcStepsAlways == PcSpec => PcSteps
<1> DEFINE Kept == /\ part = "settings" => Settings!NothingUnset /\ Settings!DamagedIsKept
                   /\ part = "setup" => Install!UninstallLast
                   /\ part = "window" => Page!NoteIsItsOwn
<1>1. FilesInv /\ EngineInv /\ [PcNext]_allVars => [Kept]_allVars
  <2> SUFFICES ASSUME FilesInv, EngineInv, PcNext, allVars' # allVars PROVE Kept
    OBVIOUS
  <2>1. part = "settings" => Settings!NothingUnset /\ Settings!DamagedIsKept
    BY PartMoves, Bounds, SetOnDiskNext, SettingsSet, SettingsKept DEF FilesInv
  <2>2. part = "setup" => Install!UninstallLast
    BY PartMoves, Bounds, UninstallNext DEF EngineInv
  <2>3. part = "window" => Page!NoteIsItsOwn
    BY PartMoves, Bounds, SlotsNext DEF FilesInv
  <2>4. QED
    BY <2>1, <2>2, <2>3
<1>2. QED
  BY FilesInit, FilesNext, EngineInit, EngineInvNext, <1>1, PTL DEF PcSpec, PcSteps
=============================================================================
