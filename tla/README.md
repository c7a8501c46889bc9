# Latch in TLA+

Latch (until 4.1.0: BroLink) shows a PC's desktop on a Mac over Tailscale. One
window finds the machines of the tailnet, wakes a PC, pairs with its streaming
engine (Sunshine), and plays the stream through moonlight-common-c. A small
control service on the PC answers questions, takes the clipboard, and takes new
versions of itself from any Mac of the account, with nobody at the PC.

This directory models the parts of Latch in which several actors meet, in which
something can be cut short, or in which a test reaches only one of many orders:
the life of a stream, the attempt to connect, the update of a PC and of the app,
the clipboard, held keys, pictures and sound, pairing, the control service, the
care of the engine, setup, settings, discovery. TLC checks each model on small
instances; TLAPS proves their safety properties for instances of any size: every
invariant and every action property that a run checks is a theorem, and so is it
that the streaming session implements, step by step, an abstract specification of
what a session promises. What must happen in the end, and the fairness it needs,
is checked by TLC alone.

    tlc -workers 2 -config SessionSafety.cfg MCStreamSession.tla
    tlapm StreamSessionProofs.tla
    tlapm PartsProofs.tla

`PROJECT.json` lists every run with its configuration, the lines of the source
each definition stands for, and a faulty variant for every property.

## 1. Inventory

### The parts, their state, and how they interact

| part | state | operations | talks to |
|---|---|---|---|
| streaming session (`crates/stream/src/session.rs`, `csrc/shim.c`) | `Inner` per session (`done`, `finished`, `connected`, the event channel), the locks `CONNECTION`, `INPUT`, `CURRENT` | start, stop, drop, the worker's `run`, callbacks, sends | moonlight by calls and callbacks, the window by events |
| moonlight connection (`third_party/.../Connection.c`) | `stage`, `alreadyTerminated`, `ConnectionInterrupted`, one connection per process | start, stop, interrupt, termination from a stream thread | the session, by callbacks on threads of its own |
| connect flow (`crates/client/src/session.rs`) | `Progress` with its generation, `Live` | `connect`, the worker's wake, wait, pair, launch, start | sessions, the window through two locks |
| window (`crates/client/src/app.rs`) | a snapshot of the progress, `reconnect` | one frame after the other: drain events, draw, buttons | connect flow, updater, clipboard |
| self-updater (`crates/client/src/update.rs`) | `State`, `Progress::updating` | install when nothing is going on | connect flow |
| updater of the PCs (the same file) | `pushed`, `delivered`, `rolled_back`, a snapshot of the discovery | rounds, `push_host` with retries | the PC's control service over HTTP |
| update on the PC (`crates/host/src/update.rs`, `service.rs`) | `latch-host.exe`, `.new`, `.old`, `update_running` | stage, swap, hand over, undo | copies of itself, over the control port |
| supervision (`crates/host/src/app.rs`) | the window's version, `restarted_service`, `stopped` | start, stop, restart the service, restart itself | the service, over HTTP |
| clipboard (`crates/client/src/clipboard.rs`, `crates/host/src/clipboard.rs`) | `Shared`: `last`, `last_seq`, `incoming`, `unsupported` | poll, take over, push before a paste | the PC over HTTP, Windows' clipboard |
| discovery, path (`client/src/session.rs`, `path.rs`, `core/src/tailscale.rs`) | the last scan, what was learned about each PC | scan, probe, learn, advise | Tailscale's CLI, the PCs, the settings file |
| pairing (`stream/src/nvhttp.rs`, `identity.rs`, `host/src/streamer.rs`) | key and certificate, the pinned certificate, the PIN under way | the steps of pairing, submit the PIN | Sunshine, the control service |
| control service (`host/src/service.rs`, `core/src/http.rs`) | the sign-in cache, the engine's state, connection slots, thirteen mutexes | one request per connection, a refresh every five seconds | everything else |
| engine and display (`host/src/streamer.rs`, `display.rs`, `audio.rs`) | the engine's process, login and profile; the displays' colour modes | questions, restarts, switches | Sunshine, Windows |
| setup (`host/src/setup.rs`, `migrate.rs`, `unix_setup.rs`) | the engine's folders and their state, login items | one script or thread, step by step | the engine, the system |
| settings (`core/src/config.rs`) | one TOML file per app, the folder it is in | load, update under a lock, save through a temporary file, take over the old folder | several threads and processes |
| handover (`client/src/handover.rs`) | the server's life | serve the executable, type the script into the PC | an old PC, through the stream |
| release download (`core/src/update.rs`, `http.rs`) | `.part` files | look up, download, verify | GitHub |
| video, audio (`stream/src/video.rs`, `audio.rs`) | the frame slot, the sound queue | decode, draw, play | moonlight's threads, the window, the sound device |
| stream screen (`client/src/stream.rs`, `input.rs`) | what is held, captured, open | forward, release, chords, questions | the session's input handle, pastes |
| PC's page (`host/src/app.rs`, `product.rs`) | what the service last said, the jobs under way | poll, start, stop, setup | the service, the machine list |
| logs, wake, dates | `panel.log`, packets, the calendar | rotate, send and listen, reckon | files, the network |

`PROJECT.json` has the same list, with the files and the status of every part,
and the list of hazards: each place where an order, a crash, a lost answer or a
stale value could go wrong, with the properties that cover it or the reason why
none does.

### What is hard about it

* moonlight keeps its connection in globals. Everything that starts, stops,
  interrupts or sends must be kept off the other sessions' connection, and the
  callbacks arrive on threads that may outlive the connection.
* A connect worker runs for minutes and is cancelled by a flag. Window and
  worker share two locks, and each decides on what it read before.
* A PC has to replace its own executable with nobody there, survive a release
  that does not start, and be served throughout, while the window on that PC
  starts whatever seems to be missing.
* The Mac sees that PC through discoveries that are minutes old and answers
  that get lost, and has to tell "not yet" from "rolled back".
* A picture crosses three threads and two caches, sound crosses two clocks, and
  both outlive a reconnect in part.
* A key goes down on one machine and has to come up on the other, whatever
  takes the focus, opens, pastes or ends in between.
* Who may ask a PC is remembered for a while and re-checked after a body that
  may take long; a refresh loop and thirteen mutexes work beside it.
* Setup, pairing, settings and updates write several files; a kill can come
  between any two of them, and another process may read or write the same.
* Two clipboards, one poll per second, pastes on threads of their own, and one
  field `last` that stands for what both sides have.

### What makes each part correct

* Session: one connection at a time; input only while it is up; nothing left
  of a session that says it is finished; a stop always finishes.
* Connecting: one attempt at a time; a session nobody can stop does not exist;
  cancel ends the attempt; no install during an attempt.
* PC's update: one update at a time, of the file that was checked, never
  backwards; always a service, always an executable; a broken one goes.
* Pushing: every release that runs arrives; one that was undone is not sent
  again; what is said about a PC without cause is corrected.
* Clipboard: only what was copied during the stream crosses, it does cross, and
  a paste pastes the text it was made for, or at least is pressed.

* Keys, pictures, sound: what is down on the PC is held here or being let go;
  what is shown and heard is of this stream, newest first and whole; what is
  said of it is so.
* Control service: an answer only for this account's machines; slots come back;
  nobody waits in a circle; a power action only while they are allowed.
* Pairing, engine, setup: no side believes in a pairing the other has not; a
  pairing survives setup and migration; the old engine goes last; the engine
  and its sound come back.
* Files: never half, never silently overwritten when damaged, never undone by a
  save of an older copy; an app that starts is always there.

## 2. Modules

| module | models | composed with |
|---|---|---|
| `SessionLife` | what a session promises: new, queued, opening, up, closing, over | |
| `StreamSession` | the session, its worker, the library's start, stop, interrupt and termination paths, the senders | implements `SessionLife` |
| `MCStreamSession` | the constants of the runs that a cfg cannot write | |
| `StreamSessionProofs` | the theorems about `StreamSession` | |
| `ConnectFlow` | connect worker, window, self-updater | its sessions move as `SessionLife` says |
| `MacProofs` | the theorems about `ConnectFlow` and the other parts of `MacParts` | |
| `HostSwap` | the PC: uploads, swap, copies of the service, window, power | |
| `HostSwapProofs` | the theorems about `HostSwap` | `PartsProofs` |
| `HostPush` | the Mac's updater of the PCs | extends `HostSwap` |
| `HostPushProofs` | the theorems about `HostPush` | |
| `ClipboardSync` | both clipboards during a stream | |
| `ClipboardProofs` | the theorems about `ClipboardSync` | |
| `StreamScreen` | held keys, buttons and modifiers of the stream's screen | `TrafficParts` |
| `VideoPath` | access units, decoder session, frame slot, textures, picture health | `TrafficParts`, `LiveParts` |
| `AudioPath` | packets, queue, mixer, output thread, what is said of the sound | `TrafficParts`, `LiveParts` |
| `PathAdvice` | what is believed and said of the path to a PC | `TrafficParts` |
| `BlackPicture` | a black picture: the question, the offer, the switching of the displays | `TrafficParts` |
| `PcService` | connections, sign-in cache, request bodies, power actions | `TrafficParts` |
| `ServiceLocks` | the mutexes of the service and the order its threads take them in | `TrafficParts` |
| `WakeTest` | the test of Wake-on-LAN between Mac, network and PC | `TrafficParts` |
| `ServiceProofs` | the theorems about `PcService`, `ServiceLocks` and `WakeTest` | `PartsProofs` |
| `ClientApp` | the window's own decisions: ends, restarts, reconnecting, jobs | `MacParts`, `LiveParts` |
| `Discovery` | scan, learning, list, drawing, connecting to a listed machine | `MacParts`, `LiveParts` |
| `SelfUpdate` | lookup, fetch, unpack, verify and replacement of the app | `MacParts` |
| `ReleaseCache` | the cached archive, its `.part` file and the unpacked executable | `MacParts` |
| `Handover` | the install through the stream: thread, script, window | `MacParts` |
| `HttpExchange` | one reply: framing, limits, interim replies, redirects, token | `MacParts` |
| `CommandRun` | a child process with two pipes, two readers and a deadline | `MacParts` |
| `Reckoning` | calendar, bitrate and wake packet against plain definitions | `MacParts` |
| `EngineCare` | the refresh loop's care of engine, profile, sound and network view | `PcParts`, `LiveParts` |
| `EngineSetup` | the elevated script of a Windows PC, with the migration | `PcParts` |
| `UnixSetup` | setup, login item and folder move of a Mac that is shared | `PcParts` |
| `Pairing` | identity, handshake, PIN, certificates, on two Macs and an engine | `TrafficParts`, `LiveParts` |
| `SettingsFiles` | one settings file, its lock, its saving, its damage | `PcParts` |
| `FolderTakeover` | an older version's folder, taken over by several processes | `PcParts` |
| `LogFile` | log rotation | `PcParts` |
| `HostWindow` | the PC's page: poller, setup thread, jobs, frames | `PcParts`, `LiveParts` |
| `TrafficParts`, `MacParts`, `PcParts`, `LiveParts` | the instances that are checked together | |
| `PartsProofs` | the theorems about `StreamScreen`, `VideoPath`, `AudioPath`, `PathAdvice`, `BlackPicture` and `Pairing`, and about `TrafficParts` as a whole | |
| `PcProofs` | the theorems about the parts of `PcParts` beside `HostSwap`, and about `PcParts` as a whole | |

The four `...Parts` modules are what TLC runs. The modules they instantiate do
not meet in one another's steps: what one of them needs of another is already in
it, in the form of what it can observe (`ClientApp` has the reports of a worker,
`ConnectFlow` the worker itself; `Discovery` has pairing as one step, `Pairing`
its handshake). So a behaviour of a `...Parts` module is a behaviour of one part,
chosen at the start in `part`, and the parts use the same variables in turn
(`v1`, `v2`, ...); a part leaves those it has no use for at `Blank`. A property
of such a module is the conjunction of its parts' properties, which are defined
and explained in the parts' own modules. The bounds of
the parts are constants of these modules too, with values in the cfg files, and
`BoundsAssumption` states what the parts assume of them.

Each module starts with the state, named as in the source where TLA+ allows it,
then has one action per operation or per step of a handler that other threads
can interleave with, then the specification and the properties. A step ends
where the code lets others in: where a lock is released, a request leaves, a
thread is started, a file is renamed. Definitions whose names end in a word for
a bug (`StopLibraryUnlocked`, `HandOverBlind`) are faulty variants of another
definition. No specification uses them; with one put in the place
of the original, TLC finds the property violated that is to notice such a bug.

### StreamSession

`worker[s]` is the place in `run()`: `lock` waits for `CONNECTION`, `locked`
looks at `done`, `enter` is inside `bl_start` before the flags are reset,
`starting` brings up stage after stage, `failed` and `unwind` go back,
`notify` and `waiting` are after a start that succeeded, `grab` to `stopping`
is `bl_stop` under `INPUT`, then `CURRENT`, decoder and `finished`. `stage`,
`alreadyTerminated` and `interrupted` are `Connection.c`'s globals; they belong
to nobody, as there. `term[s][r]` follows a stream thread `r` of `s` that
notices an error: past the check, its callback thread started, and that
thread's steps in `terminated()`, which acts on `target`, the session it found
in `CURRENT`. `handle` and `stopper` are the owner: `Session::stop` reads
`done`, interrupts, and finishes in three steps; dropping the value stops too.
A sender holds `INPUT` from its look at `connected` to the end of `LiSend*`.

`connected` is one flag that is set by the `Connected` callback and cleared by
`terminated()` and by the worker, so a send can begin only before either.

Abstracted: what a stage does (it succeeds or fails, within its own time or by
the interrupt), the data callbacks, the statistics. The decoder and the audio
that `run()` lets go of between `CURRENT` and `finished` are not in this module;
`FinishedIsQuiet` is about `CURRENT` and the stream threads, and `VideoPath` and
`AudioPath` are about what a picture or a sound may outlive.

### ConnectFlow

`worker[g]` is the place in `run()` of attempt `g`, with the look at the
cancel and the step after it kept apart. `progress` and `live` are the two
mutexes' contents; while the window drains events it holds both
(`LocksFree`). `ui` is the place in one frame: the poll of the live stream, the
clone of the progress the rest of the frame draws from, the page with its
buttons, a stop under way. The session of an attempt moves by `SessionLife`'s
actions, strengthened by `done` and `raised` where the promise alone would
allow more than the code does; the channel is a sequence of four kinds of
events. The updater waits for a gap, installs, fails or relaunches the app.

### HostSwap and HostPush

A version stands for a file with that version in it; `exe`, `new` and `old` are
the three names. `proc[p]` is a copy of the service: starting, going for the
port, serving. `apply[p]` is its update thread in `apply_within`, one step per
rename. With `"sharing"` among `Faults` a file can be in use for longer than
`rename_retry` tries, at the staging, at either rename of the swap and at the
start of the new copy; with `"stuck"` at the renames that undo a swap as well,
after which the executable may be missing. `panel`, `restarted` and `stopped`
are the window on the PC. A release in `Broken` dies when it is started, which
is what the two seconds of `STARTUP_GRACE` are for.

Time is abstracted in six places, each by a guard the code's delays justify:

* `Retire` waits until no copy that would leave a taken port is on its way to
  it: the half second before the swap is longer than such a copy's one try.
* `GraceOver` waits until the child has started or died: the grace outlasts a
  death at the start.
* `EnsureService` waits while a replacing copy is about to bind: the poller
  looks once a second, that copy twice.
* `StopWaiting` needs the copy's parent to be gone or done with it: a minute is
  longer than the parent takes.
* `GraceEnds` needs the PC to be quiet and seen: `PUSH_GRACE` is three minutes,
  a swap and a scan take seconds.
* `Released` needs the PC to be quiet: releases are days apart.

`HostPush` adds the Mac: `Look` copies the discovery, one of `Pass`,
`UpToDate`, `Conclude` and `Push` is the decision, `Send`, `Hear`, `AskRuns` and
`AskOlder` are `push_host`. The PCs that come earlier in the same round are
only the time between `Look` and the decision, in which anything may happen on
this PC. Each Mac has one upload handler on the PC. `release` is never reset:
a failed look at GitHub ends the round and leaves the next one the same. A Mac
that is opened again starts with an empty `State`, which is why a broken
release is sent once more then; that is not modelled. What the Mac concludes of
a PC that took a file and still runs the old version, it concludes of every
cause: the release died there, or its swap failed on a file in use, or the scan
is old. `failed`, a history variable, has the versions whose swap ended without
a hand-over. `Mistaken` is a mark that none of this earned, or that what the PC
runs by now belies, and `MistakeClears` says that such a mark goes; one that a
failed swap has earned stays until the PC runs as new a release, and `CatchesUp` leaves
that release out for the same reason.

### ClipboardSync

`pc` is the PC's clipboard and the number Windows gives every change of it;
`mac` the Mac's. `poll` is the poller with its answer on the way: number and
text are read in two steps. `paste[p]` is one ⌘V: decided on `last` in the
window, sent by a thread of its own, pressed when the answer is in. `Fit` is
what the limit of 32 KB and the change of line ends leave of a text. The
history variables say what may rightly cross: `crossed` is all text of this
stream, `fresh` the newest copy the Mac has yet to get, `paste[p].quiet` that
nobody wrote another text to the PC during the paste.

### StreamScreen, ClientApp and HostWindow

These are windows: one step is one frame, or what one handler does in it, and
between two frames anything may have happened. In `StreamScreen`, `hand` is what
is physically down, `screen` what the window believes to be down and what it
holds on the PC, `screen.pc` what the PC takes to be down. A paste's thread
presses its chord key by key between frames. `ClientApp` is one record, `w`,
that a frame rewrites from top to bottom (`Watch` while a stream is on, `Idle`
otherwise), with the clicks as actions; `said` is the user's last word.
`HostWindow` follows the poller's steps, the lock it writes the shared state
under and the frame it asks for afterwards, each on its own: a frame drawn in
between shows what was there.

### VideoPath, AudioPath, PathAdvice, BlackPicture

A picture is its number, a parameter set too; a sample is its frame and channel.
The decoder thread of `VideoPath` is in `vt`, the window in `ui`, and the
`FrameSlot` between them has three fields that are read and written one at a
time, in the code's order. `VideoToolbox` may refuse a format, lose its session
or lose a frame. `AudioPath` has two threads of different rates and the frames
the queue drops when it is full. In `PathAdvice` Tailscale moves from relay to
direct path and back while its report lags; in `BlackPicture` the displays
change while the Mac's question and order are under way.

### PcService, ServiceLocks, WakeTest, EngineCare

`PcService` has connection threads that ask the cache, run `whois`, note the
answer, read a body and look again. Ages are counted in ticks only as far as
somebody compares them: for each machine and account, how long ago it last
belonged together, and did not. A refresh and a whois end within a tick, but
one after the other, so the account a verdict rests on can be two ticks old.
`ServiceLocks` writes each thread of the service as a
program of takes, drops and long calls, read off the source; the guards that
live to the end of an expression are in it. `WakeTest` counts half seconds.
`EngineCare` is one refresh after another, one step per question or command,
while the engine, its apps and the network change. The settings are read anew
in each refresh, and may come without the engine's login (`world.creds`): then
the login is not tried, and what was found last stands while the engine runs.

### Pairing, EngineSetup, UnixSetup

`Pairing` has two Macs and one engine. The cryptography is ideal: a step
succeeds when the sides hold the same PIN and the right key. Answers get lost,
the engine is reinstalled or forgets a Mac, a Mac's process is killed between
its key file and its certificate file. `EngineSetup` steps through the elevated
script; a step may throw, fail silently or be cut by a power loss, the service
may start the engine in between, and the owner may run it again. `UnixSetup`
has the same for a Mac, with launchd's jobs; its login file is written under a
temporary name in steps of its own, and a cut can come between any two.

### SettingsFiles, FolderTakeover, LogFile, ReleaseCache, SelfUpdate, Handover

In these a file is an inode with contents, or the state of a path: absent,
part, whole, of which version. Every call into the file system is a step, a
kill can come between any two, and the next start finds what is left. A settings
file that is damaged is renamed out of the way, and that may fail (`bad`): what
is saved next then replaces it. History variables remember what was last saved
(`set`) and which copies of the app are kept (`kept`).

### Discovery, HttpExchange, CommandRun, Reckoning

`Discovery` separates the scan's copy of the settings, the file, the shared
list, the frame that was drawn and the machine that was clicked. A certificate is
the number of the engine's installation that made it. A connection brings the
certificate its machine was listed with; when the engine has been installed again
it forgets that one (`Mismatch`, in the file too, if the save succeeds) and pairs
(`Pair`), or ends in between (`Leave`). `NeverForgets` says by whom a saved
certificate may be changed, and to what: never by a scan. `HttpExchange`
counts bodies in units and lets a connection end anywhere. `CommandRun` has a
pipe that is full while nobody reads. `Reckoning` computes as the code does and
compares with what is meant: days with the calendar's rules, the bitrate with
the smallest one that survives Sunshine's deductions, a wake packet with sixteen
repetitions of the address.

## 3. Runs

All of them explore their instance completely; the longest takes less than three
minutes on two cores. A `pass` run shows what holds. A `violation` run shows one
statement of the documentation or of a comment that the code does not keep; each
is a finding in `PROJECT.json`, with the line quoted.

| run | shows |
|---|---|
| `SessionSafety` | two sessions, two stream threads, a sender: input, start, stop and interrupt never meet at a wrong moment |
| `SessionLive` | a stopped or terminated session finishes, a queue of stopped sessions drains, and `StreamSession` implements `SessionLife`, fairness included |
| `TrafficParts` | `HandsLetGo`: nothing stays pressed on the PC, no hold is lost to a paste. `PictureIsRight`: no old picture, few buffers, channels in place, no detour shown as a good path, an offer that works. `ServiceIsRight`: answers only to whom they are due, slots and cache bounded, no circle of locks, a wake packet that came is told of. `PairingIsRight`: an identity stays, no side believes in a pairing the other has not, what nothing disturbs succeeds. `ServedThroughout`: while nothing is cut off, always a service, always an executable, under the condition of `NeverOlder`. `TrafficSteps`: a keyframe heals the decoder, other displays are left alone |
| `MacParts` | two attempts: one worker at a time, every session has somebody to stop it, no install meanwhile. `WindowIsRight`: no failure shown for an end that was asked for, no restart or full screen nobody meant. `ArrivesWhole`: downloads, replies, outputs, app and handed-over executable are whole or refused. `SumsAreRight`: the arithmetic. `MachinesStay`: no machine, and no means to wake it, is forgotten, and no scan undoes what a connection has saved or forgotten of a certificate |
| `PcParts` | uploads from two machines with a broken release, failing renames (in the undoing too), stops and power losses: one update at a time, of what was checked, never backwards (`NeverOlder`: while no copy that an update started is overtaken). `EngineIsRight`: setup and care lose no pairing, mark nothing that is not so, and call a login working only on a recent try, if there was one to try. `FilesStay`, `PcSteps`: files stay whole, a frame is never owed for good, no step undoes another's |
| `LiveParts` | `AskedIsDone`: a release that runs arrives, a cancelled worker stops. `TroublePasses`: service, engine, sound, restart, pairing attempt, picture, stopped stream and list come right |
| `HostPushLive` | downloads and connections fail, before or after the PC acted, and files on the PC are in use: a release that runs and of which no swap fails reaches the PC all the same, what the PC undid is not sent again once it has answered, a "rolled back" that no failed swap has earned is taken back |
| `ClipboardLive` | two pastes, copies on both sides, a text over the limit, lost requests, hosts with and without a clipboard: only text of this stream crosses, new text does cross, a paste whose `last` is right pastes its text, every paste is pressed |

`TypeOK` of every part is among the invariants of the run that has it.

| run | statement | what happens |
|---|---|---|
| `SessionStrayTermination` | the late termination thread finds the session it is for (`session.rs:21-22`) | it takes what `CURRENT` holds by then, which can be the next session, and ends it |
| `ConnectCancelLost` | Cancel ends the attempt (`docs/MACOS.md:97-99`) | the worker's last report overwrites the end of a session that failed at once; the attempt shows as connecting for good |
| `HostSwapPower` | a PC comes back by itself (`service.rs:167-168`) | a power loss in the swap leaves no executable, or a broken one |
| `ClipboardStalePaste` | the PC pastes what was copied on the Mac (`stream.rs:1161-1162`) | the send is skipped because `last` is the text, but the PC has copied something else since |

What the models contain beyond this because the code does, and no property is
about, is in section 5.

### Bounds, and why they are enough

* Sessions: two, of any number the proofs cover. Every interaction is between
  a session and the one before or after it. Three of moonlight's eleven stages
  are kept: one that cannot fail, and two that start a thread that can raise a
  termination, so that one can be up while the other is starting.
* Attempts: two, since what a worker can harm is the attempt after its own; one
  for liveness and for the lost cancel, which need no second.
* PC: three releases with the middle one broken, so that a good update follows
  a broken one; three copies of the service, because one that leaves, one that
  replaces it and one the window started are the most that meet (two in
  `HostPushLive`, where the third only leaves again); two uploads at once.
  `Procs` is the only bound that disables something, a start. The copies are
  alike, and `PcParts` uses that as a symmetry; `LiveParts` does not.
  `HostPushLive` has files in use but no failing undoing: with it the three
  properties hold too, in 430 800 states and several times the time.
* Clipboard: two pastes, because the second is what can go wrong; two texts,
  one of them the shortened form of the other; one copy on either side, besides
  what the PC holds when the stream begins and what crosses. The Mac's
  clipboard is empty at first: what it held counts as its one copy. Copies are
  counted because every one takes a new number.

* Screen: one paste, three sets of modifiers (none, ⌘, two others), so that a
  modifier is held during a paste and another is not.
* Video: four access units with two parameter sets, so that a change of format
  meets a frame under way; three spare buffers, as in the code. One fault.
* Audio: seven frames of two channels through a queue of six samples, so that
  the queue overflows and runs dry; rates three to two, so that the mixer
  interpolates across packets.
* Service: two instances, with two changes of accounts or settings each. One has
  two connection threads for as many slots and one machine, so that threads meet
  in the cache; the other a cache of one entry for two machines, so that it
  overflows, and entries that are kept beyond their use.
* Wake: two networks, two interfaces, and the code's 1.5, 3 and 6 seconds in
  half seconds (an age of up to 5 whole seconds is less than 6). One test.
* Window: two streams and one job. Page: two clicks, one fault, two jobs.
* Discovery: two machines, one of them a relay, each new or met before; three
  changes of what Tailscale, the machines and their engines do, two for liveness.
* App: three releases, three faults: one to leave files behind, one to leave
  others of the next release, one while they are met.
* Handover: two PCs, two starts, two faults, so that a second install meets the
  remains of the first. Archive: three chunks, three faults.
* HTTP: bodies of up to four units against a limit of three, three hops.
  Commands: outputs of up to four against a pipe of two.
* Arithmetic: all days of twelve years around the rules' exceptions, bitrates
  around every branch of the formula, bytes 0, 170 and 255.
* Engine: one fault, one app; the periods of the refresh are shortened in
  proportion. Setup: three runs and three faults, on a Mac two and one.
* Pairing: two Macs, two faults and three tries (one fault and two tries for
  liveness). Settings: two threads, three edits, two faults. Log: files of two
  lines, seven lines. Folder: three processes, two faults.

Deadlock is checked in `HostPushLive`. The other models may stop for good: all
sessions are over, the user does not connect again, the service was stopped,
the stream has ended, a bound is used up.

### Fairness, and why the code justifies it

A thread that can run does run (weak fairness of each worker, update thread,
poller, frame and stream thread that has begun to raise a termination). Strong
fairness is assumed where something is tried again and again:

* the steps of a connect worker need locks the window takes on every frame;
  parking_lot's mutexes hand themselves over to a waiter, so the worker gets
  its turn;
* in `HostPush` a PC is not being streamed to, or its updates refused, for
  ever, an upload gets through now and then, and a discovery is not always
  wrong when it is looked at;
* in `ClipboardSync` some poll is answered;
* in `EngineCare` some start of the engine, some marking of its profile and
  some network check works, of those the loop makes for ever;
* in `Pairing` the exchange of the PIN ends.

`LiveParts` has one fairness condition for an action of each of several parts:
`Turn1` to `Turn5` are weak, `Chance1` to `Chance3` strong. A behaviour is of
one part, so each condition is that part's condition; where a slot is the
disjunction of several handlers' or copies' steps it assumes less than fairness
of each. Nothing is assumed about the user, about a release coming out, about a
connection staying up, about a PC waking, about faults or about power.
`SessionLive` in particular does not assume that a session ever connects.

## 4. Proofs

`StreamSessionProofs` proves, from `StreamAssumption` alone (at least one
stage, threads start in stages that exist, the names are distinct), for any
sets of sessions, stream threads and senders:

* `TypeCorrect`, `InputSafe`, `StartsClean`, `QuietWhenFinished` and
  `InterruptsOwn`: the five invariants of `SessionSafety`;
* `Refinement`: `Spec` implements `SessionLife`'s `Spec`.

None of the five is inductive. That no input call is under way while the
library is torn down, for example, holds because the worker takes `INPUT`
before `bl_stop`, because a sender found `connected` set after it had `INPUT`,
and because `connected` is set only between a successful start and the tear
down: three facts about three threads. The inductive invariant is a
conjunction of named parts, each about one thing:

* `HandleInv`: a session nobody has started has no worker;
* `LockInv`: who holds `CONNECTION`, and that a worker in the library does;
* `CurrentInv`: whose `Inner` `CURRENT` keeps at each step of that worker;
* `InputInv`, `SendInv`: who holds `INPUT`, and what it found;
* `StageInv`: which stages are up at each step of the worker;
* `JoinInv`: a thread still raising a termination has its stage up, or not yet
  joined;
* `FinishInv`: where the worker of a finished session can be.

`TypeStep` and `InvStep` show that every step keeps it, action by action;
`Invariance` is the temporal conclusion; the five results are read off it.
`OwnerInv`, for the interrupt, is a second invariant beside it: there is one
owner, which holds one session at a time, and a session it dropped is done. The refinement goes by the
action too: each step moves one session's phase as `SessionLife` allows, or
none, and `Phase` needs `LockInv` to know that the library is free.

`HostSwapProofs` proves, from `SwapAssumption` (releases are positive numbers,
the first one runs, the faults are those named) and `NoProcAssumption`, for any
sets of releases, copies of the service and request handlers, and with every
fault allowed:

* `SwapTypeCorrect`, `OneUpdateAtATime` and `StagedIsInstalled`: `TypeOK`,
  `OneUpdate` and `InstalledIsStaged` of `HostSwap`, which `PcParts` checks.

An upload is kept away from the swap of another by two things that sit in
different places: `update_running`, which belongs to one copy of the service,
and the port, which one copy has. `SwapInv` joins them: `PortInv` (one copy
serves), `ApplyInv` (an update thread lives in a serving copy whose
`update_running` is set), `RequestInv` (a request is answered by a serving
copy) and `TurnInv` (of the requests one at most has been let in, and then no
thread is at work); `RunsInv` is for the types, `exe` being what a copy is
started from. `TypeStep` and `RestStep` show that every step keeps it.

It goes on from there to the order of the releases and to who serves:

* `DiskIsNewest` and `PcNeverGoesBack`: `NeverOlder`, with every fault allowed.
  What is put back after a failure is an older file, so the order has to be kept
  by who may put it back when. `OrderInv` says that what is on the disk, or may
  be put back there, is no older than what served last (`DiskInv`, `MovingInv`),
  that a copy on its way to the port runs what is on the disk (`WayInv`), that
  while the files move none but the update's own copy is on its way, and that a
  copy that replaces another is that one's child (`ChildInv`).
* `PcStaysServed`: the three parts of `ServedThroughout`, under its own
  condition that nothing is cut off (`Faults = {}`), for any releases, any of
  them broken but the first. `ServeInv` says for each step of an update what is
  in the three files (`ExeInv`, `OldInv`, `PlaceInv`), that a new copy waits for
  its predecessor to let go and is gone only if it is broken (`TrialInv`), that
  a window newer than the service was started from what is on the disk, which
  is why it may end the service (`PanelInv`), and who takes a free port
  (`FreeInv`).

Both are stated as long as no copy that an update started has been overtaken
(`lastServed # None`; section 5). The attempt to prove them without that
condition failed, and TLC confirmed why.

`MacProofs` begins with `ConnectFlow` and proves, from `ConnectAssumption`, for any number of
attempts: `ConnectTypes` (`TypeOK`), `UpdatesAlone`, `OneAttemptAtATime`,
`LiveIsItsAttempts` and `NobodyIsOrphaned`, the invariants of `MacParts` about
the connect flow. No variable says that a worker is at work; the code looks at
the step that is shown. `ConnectInv` says why it may: a worker at work is the
current one and is shown at work (`ShownInv`), an attempt not begun has neither
worker nor session (`FreshInv`), a worker that may start a session has not
(`EarlyInv`), a session in the window is of the current attempt, whose worker is
done (`HandedInv`), and what a frame decides on from its copy of the progress is
still so when it acts (`PolledInv`, `PageInv`).

`ClipboardProofs` proves, from `ClipboardAssumption`, for any texts, copies and
pastes and whether the network fails or not: `OnlyNewsCrosses` and
`PastesAreRight`. The poller reads a number and then a text, which need not
belong together; `NewsInv` says what the pair still proves: numbers only grow,
and a text that comes with a number above the first crossed during this stream.
`PasteInv` carries what a paste found true from its request to its chord.

`HostPushProofs` proves, from `SwapAssumption`, for any Macs and releases, with every
fault and with or without a network that fails: `UndoneStaysAway` (`NotResent`),
the cases in which a swap fails and the PC says nothing of it included. The Mac
keeps the last version delivered and nothing of what the PC told it before;
`PushInv` says why that is enough: what the PC has told it is no newer than the
release it knows of, that release is remembered if it is among them, and one that
is under way is not.

`PartsProofs` proves of `StreamScreen`, from `ScreenAssumption`, for any number of pastes,
any modifiers and questions: `NothingStaysDown` and `HoldsComeBack`, and in
`ScreenIsSound` the invariant behind them. A frame is a function of a `View`;
`Good` is what each of its helpers keeps of one: what is down is held or a
paste's (`Accounted`), what is held is down unless a paste has lifted it
(`HeldDown`), a stream begins with nothing down (`FreshStart`). The count of
pastes that are over is a cardinality, which is why the library's theorems on
finite sets are used.

It proves of `Pairing`, from `PairingAssumption`, for any Macs, tries and
faults: `IdentityStays`, `SecretComesLast`, `SavedIsPaired` and
`CleanAttemptsSucceed`, and in `PairingIsSound` the invariant behind them. Each
of the three parties can lose its part at any time, so `MacInv` says of each
step of an attempt what the others have done by then: the certificate follows
the key (`IdInv`); what a Mac takes for the engine's certificate has met it
(`KnownInv`); past the challenge the engine has this Mac's PIN or none
(`SecretInv`); and, for an attempt nothing has disturbed, no other attempt
crosses it and every answer is the engine's of now (`CleanInv`). `MetInv` and
`PairedInv` tie what the engine has stored to what the Macs still have.

`ServiceProofs` is about three models.

* `PcService`, from `ServiceAssumption`, for any machines, threads, limits,
  lifetimes and changes of accounts: `VerdictsAreFresh` (`AnswersItsOwn`,
  `RefusesStrangers`), `PowerWasAllowed` and `NothingLeaks` (`SlotsReturned`,
  `CacheBounded`). The code compares a peer with an account it has read, caches
  the verdict, and uses it later, so the invariant is about ages: what the
  refresh read is a tick old at most (`AccountInv`), what a whois goes on with
  two (`WhoIsInv`), a verdict that is being noted is true of the present
  (`StoreInv`), and a remembered one was when it was noted (`CacheInv`).
  `CountInv` ties the counter of slots to the threads that have one.
* `ServiceLocks`, from `LocksAssumption`, for any number of threads of each
  kind: `NobodyWaitsInACircle` (`NoCircle`, `NoLockAcrossCalls`). Nothing in the
  code states an order of the thirteen mutexes; `Rank` is one that all of the
  programs keep to. `Ordered` says so of a program and holds of its pieces
  (`Joined`, `Wrapped`), so each program is taken apart as it is written. Of
  threads that wait in a circle, the one whose mutex ranks highest cannot wait.
* `WakeTest`, from `WakeAssumption`: `WakeTestTellsTheTruth` (`CameIsTold`,
  `SameNetworkIsReached`). A packet that came is no older than the test's own
  clock says (`CameInv`), which with `Settle + Limit < Fresh` is why its age is
  accepted; one that nothing has happened to is under way or has come
  (`CleanInv`).

Of the other parts between Mac and PC it proves, for any bounds:

* `VideoPath`, from `VideoAssumption` (three spare buffers, as in the code, or more):
  no picture of an earlier stream, few buffers, the health that tells a picture that
  is missing from one that is black, and that a keyframe heals the decoder.
  `VideoInv` counts a picture when it is made and follows it to the slot, the
  window and the textures (`PlaceInv`, `NewInv`), and has every buffer in one place
  (`BufferInv`); three of them are what `FewBuffers` needs: one with the decoder, one
  in the slot and one in the window.
* `AudioPath`, from `AudioAssumption`: whole frames, channels in place, in order, of
  what was sent, whatever the rates, the number of channels, the queue and the
  device's buffer. `AudioInv` says of queue, mixer and what was heard that they are
  in order in this sequence. The mixer's loops are recursive functions; what they
  keep is proved by induction over the finite number of turns (`Least`, `Along`),
  since the library's induction takes an operator. Where a sample is in a frame is a
  quotient and a remainder, hence the lemmas about these. That what is played has
  been heard needs a preroll of at least one frame.
* `BlackPicture`, from `PictureAssumption`: an offer made on a report that still
  holds works, and displays that nobody asked about are left alone (`SwitchInv`,
  `OfferInv`).
* `PathAdvice`: a detour is shown as one (`RouteInv`).

From these and from the invariants of held keys and pairing follow, for every
behaviour of `TrafficSpec`, `TrafficLetsGo`, `TrafficPairsRight`,
`TrafficPicturesRight` and `TrafficStepsRight`: `HandsLetGo`, `PairingIsRight`,
`PictureIsRight` and `TrafficSteps`. The service and `HostSwap` without faults are
proved in modules of their own, which are instances here: `TrafficServesRight` and
`TrafficStaysServed` carry `ServiceIsRight` and `ServedThroughout` over. Two instances
of a module with the same substitution are different operators to the prover; the
lemmas `Same...` say that they are equal.

`PcProofs` proves of the parts on a PC, for any bounds, `FilesStayAlways`,
`EngineIsRightAlways` and `PcStepsAlways` (`FilesStay`, `EngineIsRight`, `PcSteps`):

* settings: who saves has the lock of its process, and what a save is about to put
  in place is what was set last with the saver's own change (`SettingsInv`,
  `SetOnDisk`);
* log: the two files hold one unbroken end of what was written, and an older one
  that was rolled away was full (`LogInv`);
* the takeover of a folder: what is placed is whole, and a process past its
  takeover has left a whole one, unless something failed (`FolderInv`);
* the page: what it shows is what is so, or the poller is about to say otherwise,
  or a frame is asked for (`SeenSoon`); a result goes to its own action (`SlotsApart`);
* the engine's care: the profile is written before it is marked as written, and an
  answer of the engine's interface is as young as the refresh promises as long as
  host.toml has a login to try (`TriedSince`, over the counter's remainder);
* setup on Windows: at each step of the script where the migration is (`Migrates`,
  `DirKnown`), what it leaves alone (`OthersKept`), and, as long as nothing has gone
  wrong, what it has achieved by then (`Smooth`);
* setup of a Mac: what is written by each step and what an engine that stays has
  read of it (`TakesInv`), that a login is renamed into its place only when it is
  whole, where a move has taken the login item (`ItemInv`).

`MacProofs` proves of the parts on a Mac, for any bounds, `WindowIsRightAlways`,
`ArrivesWholeAlways`, `SumsAreRightAlways` and `MachinesStayAlways`:

* the window: what every piece of a frame keeps of the record it rewrites
  (`AppInv`), so that a frame is a chain of lemmas, one per piece;
* discovery: a machine is named before it is known how to wake it, and a scan
  carries on what its copy of the file has (`DiscoInv`); a scan writes into the
  file as it is by then, so certificates are changed by connections alone;
* handover: one thread serves, and a PC without a file at the path has the old one
  aside (`HandoverInv`);
* the app's update: what is ready is what was verified, and the app at its path is
  the one that runs or the one that was moved there (`UpdateInv`);
* the archive: what one fetcher has written is right as long as its digest is
  (`CacheInv`);
* a reply: what has been written is what the framing has announced so far
  (`HttpInv`); a command: what its child wrote is to come, in the pipe or read
  (`CommandInv`);
* arithmetic (`SumsInv`): a date and the number of its day turn into each other,
  because the 400 years of an era split into centuries, cycles of four years and
  years, each of which the code's divisions find again (`YearParts`,
  `ThereAndBack`), and the next day is one more; the encoder's bitrate grows with
  the request (`EncoderGrows`), so a search that stops stops at the smallest; a wake
  packet is compared byte by byte with what is heard of it (`WholeIsHeard`,
  `ShortIsNotHeard`, `SpoiltIsNotHeard`).

In `PcParts` and `MacParts` an invariant of a part says something only while that
part is the one chosen, and a step is a step of that part (`PartMoves`). An instance
counts with a `FiniteSets` of its own; `SameCounting` says that the count is the one
the library's theorems are about.

Only model-checked: all liveness and the fair refinement (`LifeFairSpec`), which are
beyond the prover, that is the properties of `SessionLive` and `LiveParts`,
`MistakeClears` and `CatchesUp` of `HostPushLive`, and `CopyArrives` and
`PastePressed` of `ClipboardLive`. The violations are counterexamples, which need no
proof.

## 5. Known limits

What the code does and no property forbids; the models have it unless it says
otherwise:

* A termination can be reported before Connected, or twice for one connection;
  an end can lose its reason when it comes after the window's last look at the
  channel; a cancel between a worker's last look and its handing over of the
  session has to be repeated.
* A PC can be marked as rolled back on the word of an old discovery
  (`MistakeClears` says that the mark goes). It is marked as well when it answered
  an upload with ok and the swap then failed on a file in use
  (`host/src/service.rs:662-665`, `client/src/update.rs:242-255`), and that mark
  stays until the PC runs that release or a newer one, although the comment at
  `client/src/update.rs:57-59` has it mean that the executable died on its start:
  the models have both causes, and no run is about the wording. The Mac's own text can come back as
  news while a paste is under way, and two quick pastes can both paste the
  second text.
* A release that dies later than two seconds after its start is not modelled;
  nothing in the code undoes it. With a rename that fails for good in the swap
  and again in its undoing there is no executable, and a stop from the window
  during a swap has the same effect: `ServedThroughout` is checked without both,
  in `TrafficParts`, whose PC has no faults; nor does the PC of `LiveParts`, whose
  `AskedIsDone` and `TroublePasses` say what becomes of an update that nothing on
  the PC cuts off.
* When a second, newer upload comes while the replaced copy of the first still
  waits for the port (`service.rs:111-122`, up to a minute), the older of the two
  may get it; the newer file is then the one that is started next. `AskedIsDone`
  promises what is on the disk. An overtaken copy may even take the port after a
  newer one has been there; the window of the newer release then ends it, and
  if that falls into the next update's swap there is no executable. It takes
  several releases within about a minute (TLC finds it with five, and one
  machine that uploads). `NeverOlder` and `ServedThroughout` promise what they do until
  a copy is overtaken, which `lastServed = None` records.
* `ReleaseCache` with two fetchers at once breaks `DestIsWhole`: both write the
  same `.part` file, and the one that is finished can rename what the other has
  just truncated. `MacParts` has one fetcher; whoever meets the torn file
  downloads it again, since the digest is checked at every use.
* `SelfUpdate` with `Withdraws` set breaks `OnlyVerified`: when the latest
  release is withdrawn between verification and install and comes back, what
  is installed is looked up by its tag again and may have been unpacked anew in
  the meantime, and torn. `MacParts` leaves withdrawals out.
* A request can be judged by an account the PC no longer has: `AnswersItsOwn` and
  `RefusesStrangers` allow one that it had two ticks before the verdict. An
  earlier form of them, which looked at the present account and the one before
  it, holds with one change of accounts and not with two in a row.
* The packet of a test that is to be heard while the Mac sleeps needs a sleep:
  `WakeAssumption` has `Settle # 0`, and the code sleeps 1.5 seconds.
* While host.toml is loaded without the engine's login and the engine runs, the
  service goes on showing the login as working that it last tried
  (`host/src/service.rs:226-237`); `LoginIsRecent` counts from the last refresh
  that had none to try.
* A damaged settings file that cannot be renamed is replaced by the next save
  (`core/src/config.rs:138-139`); `DamagedIsKept` leaves that case out.
* Two processes that edit one settings file can lose one another's edit: the
  lock is one process's. `NothingUnset` is checked for the threads of one.
* A wake packet of an earlier test, or of another Mac's, can stand for one that
  was lost.
* The clipboard of a Mac or Linux host has a hash in the place of Windows'
  number and is not modelled.

## 6. Not modelled

* moonlight's protocol (control stream, RTSP, RTP queues, depacketiser), enet
  and forward error correction: third-party code used as it is.
* Drawing, layout, themes, icons, texts, the ordering of the machine list: no
  state that outlives a frame. This is most of `ui/src/widgets.rs` and a large
  share of `client/src/app.rs`, `stream.rs` and `host/src/app.rs`.
* The software decoder, the colour arithmetic and the key table: functions of
  their input.
* The version resource and icon that setup writes into the engine's executable
  (`verinfo.rs`): a binary format; that it may fail is in `EngineSetup`.
* Parsing of Tailscale's status, of the engine's pages and log, of TOML: the
  models take the facts that come out.
* Deployment scripts of the relay and the container.

## 7. Plan

Of what is left, in this order:

1. Proofs for `ReleaseCache` with two fetchers and for `SelfUpdate` with releases
   that are withdrawn, each with the weaker property that is true of them (section
   5): nothing is used whose digest was not checked at that use.
2. The software decoder beside VideoToolbox in `VideoPath`; `text_chunks`.
3. moonlight's queues between the network and the decoder.
