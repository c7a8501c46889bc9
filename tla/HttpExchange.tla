---------------------------- MODULE HttpExchange ----------------------------
(***************************************************************************)
(* One question and its reply over HTTP/1.1 (core/http.rs): to a PC's      *)
(* control service or engine, or to GitHub with redirects and a token      *)
(* (core/update.rs).  The reply's body is framed by a length, by chunks or *)
(* by the end of the connection, and the connection can end anywhere.      *)
(* Bodies are counted in units; what the peer announces it would send.     *)
(***************************************************************************)
EXTENDS Naturals

CONSTANTS MaxBody,  \* bound: units of a body
          Limit,    \* MAX_BODY, MAX_DOWNLOAD, in units
          MaxHeader,\* MAX_HEADER: interim replies, or lines of chunk data, that fit
          MaxHops   \* MAX_HOPS

HttpAssumption == {MaxBody, Limit, MaxHeader, MaxHops} \subseteq Nat /\ MaxHops > 0

Hosts == {"first", "storage"}
Framings == {"length", "chunks", "close", "both"}
Replies ==
  [framing : Framings, body : 0..MaxBody, empty : BOOLEAN,   \* empty: 204 or 304
   location : {"no", "path", "first", "storage", "not https"}]

VARIABLES
  call,     \* "exchange_with", or "fetch" with its token and its redirects
  at,       \* "send", "head", "length", "size", "chunk", "close"; "ok" or "error"
  host, hop,
  told,     \* the hosts that were sent the token
  reply,    \* what the peer answers
  left,     \* units of the body, or of this chunk, that are still to come
  total,    \* units announced by chunks
  budget,   \* remaining: what metadata may still take
  sink      \* units written to the caller's buffer or file

vars == <<call, at, host, hop, told, reply, left, total, budget, sink>>

Init ==
  /\ call \in {"exchange_with", "fetch"}
  /\ at = "send" /\ host = "first" /\ hop = 1 /\ told = {}
  /\ reply = [framing |-> "length", body |-> 0, empty |-> FALSE, location |-> "no"]
  /\ left = 0 /\ total = 0 /\ budget = 0 /\ sink = 0

Over(result) ==
  at' = result /\ UNCHANGED <<call, host, hop, told, reply, left, total, budget, sink>>

-----------------------------------------------------------------------------
(* The question.                                                           *)

\* auth: the token is for the host that was asked first.
Auth == call = "fetch" /\ host = "first"

\* connect, and the request's head; or no address accepts a connection.
Send ==
  /\ at = "send"
  /\ \/ Over("error")
     \/ /\ at' = "head" /\ budget' = MaxHeader
        /\ told' = IF Auth THEN told \cup {host} ELSE told
        /\ reply' \in Replies
        /\ UNCHANGED <<call, host, hop, left, total, sink>>

\* An interim reply takes from the same budget as the one that counts.
Interim ==
  /\ at = "head"
  /\ IF budget = 0 THEN Over("error")
     ELSE /\ budget' = budget - 1
          /\ UNCHANGED <<call, at, host, hop, told, reply, left, total, sink>>

\* fetch's loop: MAX_HOPS questions, and only to https.
Redirect ==
  /\ at = "head" /\ call = "fetch" /\ reply.location # "no"
  /\ IF reply.location = "not https" \/ hop = MaxHops THEN Over("error")
     ELSE /\ at' = "send" /\ hop' = hop + 1
          /\ host' = IF reply.location = "path" THEN host ELSE reply.location
          /\ UNCHANGED <<call, told, reply, left, total, budget, sink>>

-----------------------------------------------------------------------------
(* read_response_body.                                                     *)

Body ==
  /\ at = "head" /\ (call = "exchange_with" \/ reply.location = "no")
  /\ IF call = "exchange_with" /\ reply.empty THEN Over("ok")
     ELSE IF reply.framing = "both" \/ (reply.framing = "length" /\ reply.body > Limit)
       THEN Over("error")
     ELSE /\ at' = CASE reply.framing = "length" -> "length"
                     [] reply.framing = "chunks" -> "size"
                     [] OTHER -> "close"
          /\ left' = reply.body /\ total' = 0 /\ budget' = MaxHeader
          /\ UNCHANGED <<call, host, hop, told, reply, sink>>

\* copy_exact, of a length or of a chunk: some units come.
Copy ==
  /\ at \in {"length", "chunk"} /\ left > 0
  /\ \E n \in 1..left : left' = left - n /\ sink' = sink + n
  /\ UNCHANGED <<call, at, host, hop, told, reply, total, budget>>

Copied ==
  /\ at \in {"length", "chunk"} /\ left = 0
  /\ IF at = "length" THEN Over("ok")
     ELSE /\ at' = "size" /\ budget' = MaxHeader
          /\ UNCHANGED <<call, host, hop, told, reply, left, total, sink>>

ChunkFits(n) == total + n <= Limit

\* A chunk's size; the last is 0, and is followed by the trailers.
ChunkSize ==
  /\ at = "size"
  /\ IF total = reply.body THEN Over("ok")
     ELSE \E n \in 1..(reply.body - total) :
       IF ~ChunkFits(n) THEN Over("error")
       ELSE /\ at' = "chunk" /\ left' = n /\ total' = total + n
            /\ UNCHANGED <<call, host, hop, told, reply, budget, sink>>

\* Up to the end of the connection, one unit beyond the limit at most.
CopyToClose ==
  /\ at = "close"
  /\ IF left = 0 THEN Over("ok")
     ELSE \E n \in 1..left :
       IF sink + n > Limit THEN Over("error")
       ELSE /\ left' = left - n /\ sink' = sink + n
            /\ UNCHANGED <<call, at, host, hop, told, reply, total, budget>>

-----------------------------------------------------------------------------
(* The connection ends early, or the peer is silent for the timeout.       *)

\* Only a body that the end of the connection frames can end with it.
CutEndsBody(silent) == at = "close" /\ ~silent

Cut ==
  /\ at \in {"head", "size", "chunk", "close"} \/ (at = "length" /\ left > 0)
  /\ \E silent \in BOOLEAN : Over(IF CutEndsBody(silent) THEN "ok" ELSE "error")

Next == Send \/ Interim \/ Redirect \/ Body \/ Copy \/ Copied \/ ChunkSize \/ CopyToClose \/ Cut

Spec == Init /\ [][Next]_vars

-----------------------------------------------------------------------------
(* Every part holds values of its kind.                                    *)
TypeOK ==
  /\ at \in {"send", "head", "length", "size", "chunk", "close", "ok", "error"}
  /\ host \in Hosts /\ hop \in 1..MaxHops /\ told \subseteq Hosts /\ reply \in Replies
  /\ left \in 0..MaxBody /\ budget \in 0..MaxHeader

(* read_response_body: a reply that says how long it is, by a length or by *)
(* chunks, is taken only whole, wherever the connection ends.              *)
WholeOrRefused ==
  at = "ok" /\ reply.framing \in {"length", "chunks"} =>
    sink = reply.body \/ (call = "exchange_with" /\ reply.empty)

(* The caller's file or buffer never holds more than the limit, whatever   *)
(* the framing announces and however the pieces come.                      *)
WithinLimit == sink <= Limit

(* fetch (core/update.rs:318): no host but the first is sent the token,    *)
(* through any sequence of redirects.                                      *)
TokenStays == told \subseteq {"first"}
=============================================================================
