------------------------------ MODULE AudioPath ------------------------------
(***************************************************************************)
(* The stream's sound (stream/src/audio.rs): the protocol's audio thread   *)
(* decodes each packet and pushes its samples into a queue, the device's   *)
(* thread pulls them through a Mixer at its own rate, and the output       *)
(* thread opens the device and keeps it for as long as the Player lives.   *)
(* The stats of the session (session.rs) describe it and give one notice   *)
(* when this machine cannot play.  A sample is [n |-> its frame,           *)
(* c |-> its channel]; n = 0 is silence.                                   *)
(***************************************************************************)
EXTENDS Naturals, Sequences

CONSTANTS Channels,    \* of the stream
          MaxQueued,   \* max_queued, in samples
          Keep,        \* keep, in samples
          Preroll,     \* samples wanted before the first sound
          InRate, OutRate,  \* of the stream and of the device
          OutFrames,   \* frames the device asks for at a time
          MaxFrames,   \* bound: frames the PC sends
          MaxLost      \* bound: packets lost or refused

AudioAssumption ==
  /\ {Channels, Preroll, InRate, OutRate, OutFrames} \subseteq Nat \ {0}
  /\ {MaxQueued, Keep, MaxFrames, MaxLost} \subseteq Nat
  /\ Keep % Channels = 0 /\ Keep <= MaxQueued /\ Preroll <= MaxQueued

VARIABLES
  player,   \* "none" yet, "lives", "refused" (Player::new failed), "gone"
  queue,    \* samples waiting, shared by the two threads
  mixer,    \* started, pos (in 1/OutRate), prev and next
  output,   \* Output: "none", "Opening", "Playing", "Failed"
  thread,   \* the output thread: "none", "opening", "holds", "ended"
  sent,     \* frames the PC has sent
  packets, lost, undecodable, pulled,
  heard,    \* history: the newest frame the device was given, and whether all were right
  warned,   \* audio_warned
  notices   \* NoAudio events sent

vars == <<player, queue, mixer, output, thread, sent, packets, lost, undecodable, pulled,
          heard, warned, notices>>

Silence == [c \in 1..Channels |-> [n |-> 0, c |-> c]]
Fresh == [started |-> FALSE, pos |-> OutRate, prev |-> Silence, next |-> Silence]

Init ==
  /\ player = "none" /\ queue = <<>> /\ mixer = Fresh
  /\ output = "none" /\ thread = "none"
  /\ sent = 0 /\ packets = 0 /\ lost = 0 /\ undecodable = 0 /\ pulled = 0
  /\ heard = [n |-> 0, right |-> TRUE] /\ warned = FALSE /\ notices = 0

\* audio_setup: the player, and with it the output thread; a configuration it
\* refuses leaves the stream without sound and with the reason.
Setup ==
  /\ player = "none"
  /\ \/ player' = "lives" /\ output' = "Opening" /\ thread' = "opening"
     \/ player' = "refused" /\ UNCHANGED <<output, thread>>
  /\ UNCHANGED <<queue, mixer, sent, packets, lost, undecodable, pulled, heard, warned, notices>>

-----------------------------------------------------------------------------
(* Player::push, on the stream's audio thread.                             *)

\* n frames of the stream, from frame number `from` on.
Frames(from, n) == [i \in 1..(n * Channels) |->
                      [n |-> from + ((i - 1) \div Channels), c |-> ((i - 1) % Channels) + 1]]

\* The oldest sound goes when too much has queued up.
Trim(q) == IF Len(q) > MaxQueued THEN SubSeq(q, Len(q) - Keep + 1, Len(q)) ELSE q

\* Opus refuses the packet, or gives n frames of sound for it.
Push(bad, n) ==
  /\ undecodable' = undecodable + (IF bad THEN 1 ELSE 0)
  /\ queue' = IF bad THEN queue ELSE Trim(queue \o Frames(sent + 1, n))

\* A packet of n frames, decoded, lost (Opus makes the sound up) or refused.
Packet ==
  /\ player = "lives"
  /\ \E n \in 1..2, gone, bad \in BOOLEAN :
       /\ sent + n <= MaxFrames
       /\ gone \/ bad => lost + undecodable < MaxLost
       /\ Push(bad, n)
       /\ sent' = sent + n
       /\ lost' = lost + (IF gone THEN 1 ELSE 0)
       /\ packets' = packets + (IF gone THEN 0 ELSE 1)
  /\ UNCHANGED <<player, mixer, output, thread, pulled, heard, warned, notices>>

-----------------------------------------------------------------------------
(* Mixer::fill, on the device's thread.                                    *)

\* The frame at the head of the queue, or silence when there is not a whole one.
AtHead(q) == IF Len(q) >= Channels THEN [c \in 1..Channels |-> q[c]] ELSE Silence
Rest(q) == IF Len(q) >= Channels THEN SubSeq(q, Channels + 1, Len(q)) ELSE q

\* One pull of the `while pos >= 1.0` loop.
Pull(s) == [s EXCEPT !.q = Rest(@), !.m.pos = @ - OutRate,
                     !.m.prev = s.m.next, !.m.next = AtHead(s.q)]

\* The loop: as many pulls as the position asks for, at most PerFrame of them.
PerFrame == (InRate + OutRate - 1) \div OutRate + 1
Pulled(s) ==
  LET t[k \in 0..PerFrame] == IF k = 0 THEN s
                              ELSE IF t[k - 1].m.pos >= OutRate THEN Pull(t[k - 1])
                              ELSE t[k - 1]
  IN  t[PerFrame]

\* One frame for the device: the pulls, then a step.
Given(s) ==
  [s EXCEPT !.m.pos = @ + InRate,
            !.heard = [n |-> IF s.m.next[1].n # 0 THEN s.m.next[1].n ELSE @.n,
                       right |-> /\ @.right
                                 /\ \A c \in 1..Channels : s.m.next[c].c = c
                                 /\ \A c, d \in 1..Channels : s.m.next[c].n = s.m.next[d].n
                                 /\ s.m.next[1].n # 0 => s.m.next[1].n >= @.n]]
OutFrame(s) == Given(Pulled(s))

\* All the frames the device asks for.
Filled(s) ==
  LET t[k \in 0..OutFrames] == IF k = 0 THEN s ELSE OutFrame(t[k - 1])
  IN  t[OutFrames]

\* The device asks for sound.  Until the preroll is there it gets silence,
\* which is not counted; afterwards every frame counts, silence included.
Fill ==
  /\ thread = "holds" /\ output = "Playing"
  /\ IF ~mixer.started /\ Len(queue) < Preroll
       THEN UNCHANGED <<queue, mixer, heard, pulled>>
     ELSE LET s == Filled([q |-> queue, m |-> [mixer EXCEPT !.started = TRUE],
                           heard |-> heard])
          IN  /\ queue' = s.q /\ mixer' = s.m /\ heard' = s.heard /\ pulled' = 1
  /\ UNCHANGED <<player, output, thread, sent, packets, lost, undecodable, warned, notices>>

-----------------------------------------------------------------------------
(* The output thread.                                                      *)

\* No device, no configuration, a refused stream or one that does not start:
\* the reason is kept and the thread is over; otherwise the device plays.
Open ==
  /\ thread = "opening"
  /\ \/ output' = "Failed" /\ thread' = "ended"
     \/ output' = "Playing" /\ thread' = "holds"
  /\ UNCHANGED <<player, queue, mixer, sent, packets, lost, undecodable, pulled, heard, warned, notices>>

\* stop.recv() returns once the player, and with it the sender, is dropped.
Close ==
  /\ thread = "holds" /\ player = "gone"
  /\ thread' = "ended"
  /\ UNCHANGED <<player, queue, mixer, output, sent, packets, lost, undecodable, pulled, heard, warned, notices>>

\* audio_cleanup, or the end of run(): the player goes, whatever its thread is at.
Cleanup ==
  /\ player \in {"lives", "refused"}
  /\ player' = "gone"
  /\ UNCHANGED <<queue, mixer, output, thread, sent, packets, lost, undecodable, pulled, heard, warned, notices>>

-----------------------------------------------------------------------------
(* What the user is told.                                                  *)

\* phrase, and audio_state before it.
Describe ==
  IF player = "refused" THEN "no sound"
  ELSE IF player # "lives" THEN ""
  ELSE IF output = "Failed" THEN "no sound"
  ELSE IF output = "Opening" THEN "opening"
  ELSE IF packets = 0 THEN "nothing yet"
  ELSE IF pulled = 0 THEN "not taking"
  ELSE IF lost > 0 THEN "plays, some lost" ELSE "plays"

\* account(), once a second while pictures come: a failure is told once.
Second ==
  /\ Describe = "no sound" /\ ~warned
  /\ warned' = TRUE /\ notices' = notices + 1
  /\ UNCHANGED <<player, queue, mixer, output, thread, sent, packets, lost, undecodable, pulled, heard>>

Next == Setup \/ Packet \/ Fill \/ Open \/ Close \/ Cleanup \/ Second

Spec == Init /\ [][Next]_vars

-----------------------------------------------------------------------------
(* Every part holds values of its kind: never more than max_queued waits,  *)
(* only what the PC sent, and one notice is the most the user gets.        *)
TypeOK ==
  /\ player \in {"none", "lives", "refused", "gone"}
  /\ Len(queue) <= MaxQueued
  /\ \A i \in 1..Len(queue) : queue[i] \in [n : 1..sent, c : 1..Channels]
  /\ mixer.started \in BOOLEAN /\ mixer.pos \in 0..(InRate + OutRate)
  /\ output \in {"none", "Opening", "Playing", "Failed"}
  /\ thread \in {"none", "opening", "holds", "ended"}
  /\ sent \in 0..MaxFrames /\ {packets, lost, undecodable, pulled} \subseteq Nat
  /\ notices = IF warned THEN 1 ELSE 0

(* push and fill: "dropping half a frame would swap the channels".  Each   *)
(* channel of the device gets its own channel of one frame, in the order   *)
(* sent, however the two threads and the cuts interleave.                  *)
ChannelsStay == heard.right /\ Len(queue) % Channels = 0

(* phrase: "proof that sound is leaving".  The user is told that sound     *)
(* plays only when the device has been given some of the PC's.             *)
PlaysMeansHeard == Describe \in {"plays", "plays, some lost"} => heard.n # 0

(* output_thread, in the end: once the player is gone the device's stream  *)
(* is closed, also when the player went while it was being opened.         *)
OutputOver == player = "gone" => thread \in {"none", "ended"}
=============================================================================
