------------------------------- MODULE LogFile -------------------------------
(***************************************************************************)
(* A log that rolls over (host/src/logfile.rs).  A writer appends to the   *)
(* file it has open; when that would pass the limit, it closes the file,   *)
(* clears `.1`, moves the file there and opens a new one.  A file is an    *)
(* inode that a writer may have open under whatever name it has by then.   *)
(***************************************************************************)
EXTENDS Naturals, Sequences, FiniteSets

CONSTANTS Writers,    \* the processes that log to this file
          MaxBytes,   \* MAX_BYTES, in lines
          MaxLines,   \* bound: lines that are written
          MaxFaults   \* bound: moves that fail

LogAssumption ==
  MaxBytes \in Nat \ {0} /\ MaxLines \in Nat /\ MaxFaults \in Nat /\ IsFiniteSet(Writers)

None == 0
Inodes == 1..(Cardinality(Writers) + 3)

VARIABLES
  data,      \* per inode: the lines in it, by number
  live,      \* the inode at panel.log
  prev,      \* the inode at panel.log.1
  file,      \* per writer: the inode it has open
  written,   \* per writer: RotatingLog::written
  lines,     \* the lines written so far
  faults

vars == <<data, live, prev, file, written, lines, faults>>

Init ==
  /\ data = [i \in Inodes |-> <<>>] /\ live = None /\ prev = None
  /\ file = [w \in Writers |-> None] /\ written = [w \in Writers |-> 0]
  /\ lines = 0 /\ faults = 0

\* append_to: the file under the name, or a new one in an inode nobody has.
Unused == Inodes \ ({live, prev} \cup {file[w] : w \in Writers})
Opened(w, at) == IF at # None THEN at ELSE CHOOSE i \in Unused : TRUE
Kept(i, at) == IF at # None THEN data[i] ELSE <<>>

\* with_max: what is there counts.
Open(w) ==
  /\ file[w] = None
  /\ LET i == Opened(w, live) IN
       /\ live' = i /\ file' = [file EXCEPT ![w] = i]
       /\ data' = [data EXCEPT ![i] = Kept(i, live)]
       /\ written' = [written EXCEPT ![w] = Len(data'[i])]
  /\ UNCHANGED <<prev, lines, faults>>

\* The process ends.
Close(w) ==
  /\ file[w] # None /\ file' = [file EXCEPT ![w] = None]
  /\ UNCHANGED <<data, live, prev, written, lines, faults>>

\* What the live file holds after a rollover: a file that cannot be moved stays.
After(moved, i) == IF moved THEN <<>> ELSE data[i]

\* write, within the limit.
Line(w) ==
  /\ file[w] # None /\ lines < MaxLines
  /\ written[w] + 1 <= MaxBytes
  /\ data' = [data EXCEPT ![file[w]] = Append(@, lines + 1)]
  /\ written' = [written EXCEPT ![w] = @ + 1] /\ lines' = lines + 1
  /\ UNCHANGED <<live, prev, file, faults>>

\* write, past it: rotate, and the line goes to whatever file is there then.
Rotate(w) ==
  /\ file[w] # None /\ lines < MaxLines
  /\ written[w] + 1 > MaxBytes
  /\ \E moved \in {live # None, FALSE} :
       /\ IF moved = (live # None) THEN UNCHANGED faults
          ELSE faults < MaxFaults /\ faults' = faults + 1
       /\ prev' = IF moved THEN live ELSE None
       /\ LET i == IF moved \/ live = None
                     THEN CHOOSE j \in Inodes \ ({live} \cup {file[v] : v \in Writers \ {w}}) : TRUE
                   ELSE live
              kept == IF live = None THEN <<>> ELSE After(moved, live) IN
            /\ live' = i /\ file' = [file EXCEPT ![w] = i]
            /\ data' = [data EXCEPT ![i] = Append(kept, lines + 1)]
            /\ written' = [written EXCEPT ![w] = Len(kept) + 1]
  /\ lines' = lines + 1

Next == \E w \in Writers : Open(w) \/ Close(w) \/ Line(w) \/ Rotate(w)

Spec == Init /\ [][Next]_vars

-----------------------------------------------------------------------------
Held(i) == IF i = None THEN {} ELSE {data[i][k] : k \in DOMAIN data[i]}

(* Every part holds values of its kind.                                    *)
TypeOK ==
  /\ {live, prev} \cup {file[w] : w \in Writers} \subseteq Inodes \cup {None}
  /\ \A i \in Inodes : Held(i) \subseteq 1..MaxLines
  /\ lines \in 0..MaxLines /\ (live = None => lines = 0)
  /\ prev = live => live = None

(* logfile.rs, at its top: "the most recent lines always survive".  A      *)
(* file's worth of the lines written last is in the log and its `.1`,      *)
(* through every rollover that fails and every restart.                    *)
RecentSurvive ==
  {n \in 1..lines : n + MaxBytes > lines} \subseteq Held(live) \cup Held(prev)

(* rotate, and its comment: while files can be moved, neither of the two   *)
(* grows past the limit, however often the process restarts.               *)
Bounded ==
  faults = 0 => \A i \in {live, prev} \ {None} : Len(data[i]) <= MaxBytes
=============================================================================
