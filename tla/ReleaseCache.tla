----------------------------- MODULE ReleaseCache -----------------------------
(***************************************************************************)
(* The Mac's copy of a release's Windows archive (core/update.rs, and      *)
(* fetch_asset and host_exe of client/update.rs).  The updater's thread    *)
(* and the thread of an install through the stream both call host_exe: it  *)
(* checks the cached file, downloads it again under a temporary name when  *)
(* it does not check out, renames it into place, and unzips it.            *)
(*                                                                         *)
(* A file is an inode with chunks: creating a file that is there truncates *)
(* the same inode, whoever else writes it.                                 *)
(***************************************************************************)
EXTENDS Naturals, FiniteSets

CONSTANTS Fetchers,   \* the threads that call host_exe
          Size,       \* chunks of the archive
          MaxFaults   \* bound: failed downloads and kills

CacheAssumption == Size \in Nat \ {0} /\ MaxFaults \in Nat /\ IsFiniteSet(Fetchers)

None == 0
Inodes == 1..(Cardinality(Fetchers) + 2)
Whole == [c \in 1..Size |-> "good"]
Empty == [c \in 1..Size |-> "hole"]

VARIABLES
  at,       \* per thread: its step
  file,     \* per thread: the inode it has open
  off,      \* per thread: the chunks it has written
  sum,      \* per thread: its digest is of the right bytes so far
  data,     \* per inode: its chunks
  part,     \* the inode at latch-windows-x64.part, or None
  dest,     \* the inode at latch-windows-x64.zip, or None
  faults

vars == <<at, file, off, sum, data, part, dest, faults>>

Init ==
  /\ at = [t \in Fetchers |-> "idle"]
  /\ file = [t \in Fetchers |-> None] /\ off = [t \in Fetchers |-> 0]
  /\ sum = [t \in Fetchers |-> TRUE]
  /\ data = [i \in Inodes |-> Empty]
  /\ part = None /\ dest = None /\ faults = 0

Fault == faults < MaxFaults /\ faults' = faults + 1
Goto(t, step) == at' = [at EXCEPT ![t] = step]

\* An inode nothing holds; a new file gets one.
Free == Inodes \ ({part, dest} \cup {file[t] : t \in Fetchers})

\* fetch_asset: verify_asset reads the cached file.
FetchAsset(t) ==
  /\ at[t] = "idle"
  /\ Goto(t, IF dest # None /\ data[dest] = Whole THEN "use" ELSE "create")
  /\ UNCHANGED <<file, off, sum, data, part, dest, faults>>

\* download: File::create makes the temporary file, or truncates it.
Create(t) ==
  /\ at[t] = "create"
  /\ LET i == IF part # None THEN part ELSE CHOOSE f \in Free : TRUE IN
       /\ part' = i
       /\ data' = [data EXCEPT ![i] = Empty]
       /\ file' = [file EXCEPT ![t] = i]
  /\ off' = [off EXCEPT ![t] = 0] /\ sum' = [sum EXCEPT ![t] = TRUE]
  /\ Goto(t, "write") /\ UNCHANGED <<dest, faults>>

\* download gives up: it removes what is under the temporary name.
GiveUp(t) ==
  /\ part' = None
  /\ file' = [file EXCEPT ![t] = None] /\ Goto(t, "idle")

\* fetch: a chunk of the body, or a wrong one, goes to the file and the
\* digest; or the connection breaks.
Write(t) ==
  /\ at[t] = "write" /\ off[t] < Size
  /\ LET c == off[t] + 1
         Put(v) == /\ data' = [data EXCEPT ![file[t]][c] = v]
                   /\ off' = [off EXCEPT ![t] = c] IN
       \/ Put("good") /\ UNCHANGED <<at, file, sum, part, faults>>
       \/ Put("bad") /\ sum' = [sum EXCEPT ![t] = FALSE] /\ Fault
          /\ UNCHANGED <<at, file, part>>
       \/ Fault /\ GiveUp(t) /\ UNCHANGED <<off, sum, data>>
  /\ UNCHANGED dest

\* The digest and the length are right, or the file goes.
Check(t) ==
  /\ at[t] = "write" /\ off[t] = Size
  /\ IF sum[t] THEN Goto(t, "rename") /\ UNCHANGED <<file, part>> ELSE GiveUp(t)
  /\ UNCHANGED <<off, sum, data, dest, faults>>

\* The rename moves what is under the temporary name; nothing may be there.
Rename(t) ==
  /\ at[t] = "rename"
  /\ file' = [file EXCEPT ![t] = None]
  /\ IF part = None THEN Goto(t, "idle") /\ UNCHANGED <<part, dest>>
     ELSE Goto(t, "use") /\ dest' = part /\ part' = None
  /\ UNCHANGED <<off, sum, data, faults>>

\* host_exe unzips what is there and hands its bytes on; a broken archive is an error.
Use(t) ==
  /\ at[t] = "use" /\ Goto(t, "idle")
  /\ UNCHANGED <<file, off, sum, data, part, dest, faults>>

\* The app is quit or killed, and starts again.
Kill ==
  /\ Fault
  /\ at' = [t \in Fetchers |-> "idle"] /\ file' = [t \in Fetchers |-> None]
  /\ UNCHANGED <<off, sum, data, part, dest>>

Next == \/ Kill
        \/ \E t \in Fetchers :
             FetchAsset(t) \/ Create(t) \/ Write(t) \/ Check(t) \/ Rename(t) \/ Use(t)

Spec == Init /\ [][Next]_vars

-----------------------------------------------------------------------------
(* Every part holds values of its kind, and a thread has a file open       *)
(* exactly while it downloads.                                             *)
TypeOK ==
  /\ \A t \in Fetchers :
       /\ at[t] \in {"idle", "create", "write", "rename", "use"}
       /\ off[t] \in 0..Size /\ sum[t] \in BOOLEAN
       /\ file[t] \in Inodes \cup {None}
       /\ (file[t] # None) = (at[t] \in {"write", "rename"})
  /\ \A i \in Inodes : data[i] \in [1..Size -> {"good", "bad", "hole"}]
  /\ {part, dest} \subseteq Inodes \cup {None}

(* download(), in its comment: "an existing `dest` is always a complete,   *)
(* verified copy", whatever download was cut short, broken or killed.      *)
DestIsWhole == dest # None => data[dest] = Whole
=============================================================================
