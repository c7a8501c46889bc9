----------------------------- MODULE CommandRun -----------------------------
(***************************************************************************)
(* A call of the tailscale program (core/tailscale.rs run_limited): a      *)
(* child process with two pipes, a thread that reads each, and a deadline. *)
(* A pipe holds so much and then its writer waits.                         *)
(***************************************************************************)
EXTENDS Naturals

CONSTANTS Capacity,   \* what a pipe holds
          MaxOutput   \* bound: what the child writes to a pipe

CommandAssumption == Capacity \in Nat \ {0} /\ MaxOutput \in Nat

Pipes == {"stdout", "stderr"}

VARIABLES
  toWrite,   \* what the child has still to write to each pipe
  output,    \* what it writes in all
  pipe,      \* what is in each pipe
  bytes,     \* what each reader thread has
  reader,    \* each reader: "off", "reads", "done"
  child,     \* "off", "runs", "exited", "failed", "killed"
  says,      \* the child is the wrapper that reports a failure with exit code 0
  at         \* of the caller: "start", "waits", "joins", "ok" or "error"

vars == <<toWrite, output, pipe, bytes, reader, child, says, at>>

Init ==
  /\ output \in [Pipes -> 0..MaxOutput] /\ toWrite = output
  /\ pipe = [p \in Pipes |-> 0] /\ bytes = [p \in Pipes |-> 0]
  /\ reader = [p \in Pipes |-> "off"] /\ child = "off" /\ at = "start"
  /\ says \in BOOLEAN

-----------------------------------------------------------------------------
(* The child.                                                              *)

Write(p) ==
  /\ child = "runs" /\ toWrite[p] > 0 /\ pipe[p] < Capacity
  /\ toWrite' = [toWrite EXCEPT ![p] = @ - 1] /\ pipe' = [pipe EXCEPT ![p] = @ + 1]
  /\ UNCHANGED <<output, bytes, reader, child, says, at>>

Exit ==
  /\ child = "runs" /\ \A p \in Pipes : toWrite[p] = 0
  /\ child' \in {"exited", "failed"}
  /\ UNCHANGED <<toWrite, output, pipe, bytes, reader, says, at>>

-----------------------------------------------------------------------------
(* run_limited, and its reader threads.                                    *)

\* spawn, which can fail; both readers run before the caller waits.
Start ==
  /\ at = "start"
  /\ \/ at' = "error" /\ UNCHANGED <<child, reader>>
     \/ at' = "waits" /\ child' = "runs" /\ reader' = [p \in Pipes |-> "reads"]
  /\ UNCHANGED <<toWrite, output, pipe, bytes, says>>

\* read_to_end: until every writer has closed the pipe.
ReadPipe(p) ==
  /\ reader[p] = "reads"
  /\ \/ /\ pipe[p] > 0 /\ pipe' = [pipe EXCEPT ![p] = 0]
        /\ bytes' = [bytes EXCEPT ![p] = @ + pipe[p]] /\ UNCHANGED reader
     \/ /\ pipe[p] = 0 /\ child # "runs" /\ reader' = [reader EXCEPT ![p] = "done"]
        /\ UNCHANGED <<pipe, bytes>>
  /\ UNCHANGED <<toWrite, output, child, says, at>>

\* try_wait every 20 ms; past the limit the child is killed and nothing joined.
Wait ==
  /\ at = "waits"
  /\ \/ child \in {"exited", "failed"} /\ at' = "joins" /\ UNCHANGED child
     \/ child = "runs" /\ child' = "killed" /\ at' = "error"
  /\ UNCHANGED <<toWrite, output, pipe, bytes, reader, says>>

\* Both joins, then finish: the exit code, and what the wrapper prints.
Join ==
  /\ at = "joins" /\ \A p \in Pipes : reader[p] = "done"
  /\ at' = IF child = "failed" \/ says THEN "error" ELSE "ok"
  /\ UNCHANGED <<toWrite, output, pipe, bytes, reader, child, says>>

Next == Exit \/ Start \/ Wait \/ Join \/ \E p \in Pipes : Write(p) \/ ReadPipe(p)

Spec == Init /\ [][Next]_vars

-----------------------------------------------------------------------------
(* Every part holds values of its kind.                                    *)
TypeOK ==
  /\ pipe \in [Pipes -> 0..Capacity] /\ reader \in [Pipes -> {"off", "reads", "done"}]
  /\ child \in {"off", "runs", "exited", "failed", "killed"}
  /\ at \in {"start", "waits", "joins", "ok", "error"}

(* run_limited: a child that writes more than a pipe holds, to either one, *)
(* is never left waiting for a reader, and so not killed for its own       *)
(* output.                                                                 *)
NeverStuck ==
  child = "runs" => \A p \in Pipes : pipe[p] = Capacity => reader[p] = "reads"

(* run_limited and finish: an answer is the whole of what the child wrote, *)
(* of a child that ended by itself and well.                               *)
AnswerIsWhole == at = "ok" => child = "exited" /\ bytes = output /\ ~says
=============================================================================
