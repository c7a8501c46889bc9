------------------------------ MODULE SelfUpdate ------------------------------
(***************************************************************************)
(* The Mac's updater and its own app (client/src/update.rs): spawn's loop  *)
(* asks for the latest release, prepare_self fetches, unpacks and verifies *)
(* the new app, and install_self moves it over the running bundle once no  *)
(* stream is up.  The app may be quit or killed at any step, and the files *)
(* it left are what the next start finds.  How the archive itself is       *)
(* fetched is ReleaseCache's.                                              *)
(***************************************************************************)
EXTENDS Naturals, FiniteSets

CONSTANTS MaxTag,     \* bound: the last release published; 0 is the first app
          Withdraws,  \* the latest release may be withdrawn
          MaxFaults   \* bound: failed steps and kills

SelfUpdateAssumption ==
  MaxTag \in Nat /\ Withdraws \in BOOLEAN /\ MaxFaults \in Nat

Tags == 1..MaxTag
NoApp == MaxTag + 1       \* nothing is there
Torn == MaxTag + 2        \* an app whose signature or version does not verify
NoStage == [made |-> FALSE, staged |-> NoApp, parked |-> NoApp]

VARIABLES
  latest,     \* what GitHub calls the latest release, 0 for none
  top,        \* the last one published
  rel,        \* the updater's release, 0 None
  ready,      \* State::ready, 0 None
  at,         \* the updater's step
  cached,     \* the releases whose archive is in updates/<tag>
  unpacked,   \* per release: what is at updates/<tag>/unpacked/Latch.app
  bundle,     \* what is at the app's own path
  stage,      \* the .latch-update-<random> of this install, beside it
  kept,       \* the apps left in earlier ones
  running,    \* the version of the app that runs
  busy,       \* a stream or an attempt to connect is up
  updating,   \* Progress::updating
  faults

vars == <<latest, top, rel, ready, at, cached, unpacked, bundle, stage, kept,
          running, busy, updating, faults>>
fileVars == <<cached, unpacked, bundle, stage, kept>>

Init ==
  /\ latest = 0 /\ top = 0 /\ rel = 0 /\ ready = 0 /\ at = "tick"
  /\ cached = {} /\ unpacked = [t \in Tags |-> NoApp]
  /\ bundle = 0 /\ stage = NoStage /\ kept = {} /\ running = 0
  /\ busy = FALSE /\ updating = FALSE /\ faults = 0

Fault == faults < MaxFaults /\ faults' = faults + 1
IsNewerThan(r, v) == r > v

\* A release is published, or the latest is withdrawn for good; the user
\* starts a stream or ends one.
World ==
  /\ \/ top < MaxTag /\ top' = top + 1 /\ latest' = top + 1 /\ UNCHANGED busy
     \/ Withdraws /\ latest # 0 /\ latest' \in 0..(latest - 1) /\ UNCHANGED <<top, busy>>
     \/ ~updating /\ busy' = ~busy /\ UNCHANGED <<latest, top, top>>
  /\ UNCHANGED <<rel, ready, at, fileVars, running, updating, faults>>

-----------------------------------------------------------------------------
(* The loop of spawn().                                                    *)

\* A check that is due; what it hears is the release from then on, and a
\* failure leaves the one known.
LookUp ==
  /\ at = "tick"
  /\ \/ latest # 0 /\ rel' = latest /\ UNCHANGED faults
     \/ UNCHANGED rel /\ Fault
  /\ UNCHANGED <<latest, top, ready, at, fileVars, running, busy, updating>>

\* This app first: prepare it, or install it when nothing is up.
Tick ==
  /\ at = "tick" /\ rel # 0
  /\ \/ IsNewerThan(rel, running) /\ ready = 0 /\ at' = "fetch" /\ UNCHANGED updating
     \/ ready # 0 /\ ~busy /\ at' = "install" /\ updating' = TRUE
  /\ UNCHANGED <<latest, top, rel, ready, fileVars, running, busy, faults>>

\* An error: the release is forgotten until the next check.
GiveUp == rel' = 0 /\ ready' = 0 /\ at' = "tick" /\ updating' = FALSE

-----------------------------------------------------------------------------
(* prepare_self.                                                           *)

\* updates_dir keeps this release's directory and the newest other one.
Kept(t) ==
  LET others == {u \in Tags \ {t} : u \in cached \/ unpacked[u] # NoApp} IN
    {t} \cup {u \in others : \A w \in others : w <= u}

FetchAsset ==
  /\ at = "fetch"
  /\ unpacked' = [t \in Tags |-> IF t \in Kept(rel) THEN unpacked[t] ELSE NoApp]
  /\ \/ /\ cached' = (cached \cap Kept(rel)) \cup {rel}
        /\ at' = "unpack" /\ UNCHANGED <<rel, ready, updating, faults>>
     \/ cached' = cached \cap Kept(rel) /\ GiveUp /\ Fault
  /\ UNCHANGED <<latest, top, bundle, stage, kept, running, busy>>

\* tar, unless an app is unpacked already.  A tar that fails leaves what it
\* wrote; the archive may hold an app that is not what the release says.
Unpack ==
  /\ at = "unpack"
  /\ IF unpacked[rel] # NoApp
       THEN at' = "verify" /\ UNCHANGED <<unpacked, rel, ready, updating, faults>>
     ELSE \/ unpacked' = [unpacked EXCEPT ![rel] = rel] /\ at' = "verify"
             /\ UNCHANGED <<rel, ready, updating, faults>>
          \/ unpacked' = [unpacked EXCEPT ![rel] = Torn] /\ Fault
             /\ \/ GiveUp
                \/ at' = "verify" /\ UNCHANGED <<rel, ready, updating>>
  /\ UNCHANGED <<latest, top, cached, bundle, stage, kept, running, busy>>

\* MUTANT: an app that is unpacked already was verified then.
VerifyFresh ==
  /\ at = "verify" /\ ready' = rel /\ at' = "tick"
  /\ UNCHANGED <<latest, top, rel, fileVars, running, busy, updating, faults>>

\* codesign and plutil; a failed check deletes the app and the archive.
Verify ==
  /\ at = "verify"
  /\ IF unpacked[rel] = rel
       THEN ready' = rel /\ at' = "tick" /\ UNCHANGED <<rel, updating, cached, unpacked>>
     ELSE /\ unpacked' = [unpacked EXCEPT ![rel] = NoApp] /\ cached' = cached \ {rel}
          /\ GiveUp
  /\ UNCHANGED <<latest, top, bundle, stage, kept, running, busy, faults>>

-----------------------------------------------------------------------------
(* install_self and replace_bundle.                                        *)

\* What is unpacked for the release is copied to a new stage beside the app.
Stage ==
  /\ at = "install"
  /\ kept' = kept \cup ({stage.parked} \ {NoApp})
  /\ IF unpacked[rel] = NoApp THEN stage' = NoStage /\ GiveUp /\ UNCHANGED faults
     ELSE \/ stage' = [made |-> TRUE, staged |-> unpacked[rel], parked |-> NoApp]
             /\ at' = "park" /\ UNCHANGED <<rel, ready, updating, faults>>
          \/ stage' = NoStage /\ GiveUp /\ Fault
  /\ UNCHANGED <<latest, top, cached, unpacked, bundle, running, busy>>

\* The app is moved aside, into the stage, if it is there and can be.
Park ==
  /\ at = "park"
  /\ \/ bundle # NoApp /\ at' = "place" /\ UNCHANGED faults
        /\ bundle' = NoApp /\ stage' = [stage EXCEPT !.parked = bundle]
     \/ at' = "failed" /\ UNCHANGED <<bundle, stage>>
        /\ IF bundle = NoApp THEN UNCHANGED faults ELSE Fault
  /\ UNCHANGED <<latest, top, rel, ready, updating, cached, unpacked, kept, running, busy>>

\* The new one is moved in; when that fails the old one is moved back,
\* which may fail too.
Place ==
  /\ at = "place"
  /\ \/ bundle' = stage.staged /\ stage' = [stage EXCEPT !.staged = NoApp]
        /\ at' = "placed" /\ UNCHANGED faults
     \/ Fault /\ at' = "failed"
        /\ \/ bundle' = stage.parked /\ stage' = [stage EXCEPT !.parked = NoApp]
           \/ UNCHANGED <<bundle, stage>>
  /\ UNCHANGED <<latest, top, rel, ready, updating, cached, unpacked, kept, running, busy>>

\* The stage goes, unless the app is in there and nowhere else.
Clear ==
  /\ at \in {"placed", "failed"}
  /\ stage' = IF at = "placed" \/ stage.parked = NoApp THEN NoStage ELSE stage
  /\ IF at = "placed"
       THEN /\ at' = "relaunch" /\ unpacked' = [unpacked EXCEPT ![rel] = NoApp]
            /\ UNCHANGED <<rel, ready, updating>>
     ELSE GiveUp /\ UNCHANGED unpacked
  /\ UNCHANGED <<latest, top, cached, bundle, kept, running, busy, faults>>

\* The app starts, if it is where it is looked for.
Start ==
  /\ running' = IF bundle = NoApp THEN running ELSE bundle
  /\ at' = IF bundle = NoApp THEN "gone" ELSE "tick"
  /\ rel' = 0 /\ ready' = 0 /\ updating' = FALSE /\ busy' = FALSE

\* relaunch: open starts the new copy, and this one exits.
Relaunch ==
  /\ at = "relaunch" /\ Start
  /\ UNCHANGED <<latest, top, fileVars, faults>>

\* The user quits the app or the Mac goes down, and it is started again.  A
\* stage that is left is never looked at again.
Kill ==
  /\ at # "gone" /\ Fault /\ Start
  /\ UNCHANGED <<latest, top, fileVars>>

Next == \/ World \/ LookUp \/ Tick \/ FetchAsset \/ Unpack \/ Verify
        \/ Stage \/ Park \/ Place \/ Clear \/ Relaunch \/ Kill

Spec == Init /\ [][Next]_vars

-----------------------------------------------------------------------------
(* Every part holds values of its kind; the app that is ready was asked    *)
(* for, and progress says "updating" exactly while it is installed.        *)
TypeOK ==
  /\ {latest, top, rel, ready, running} \subseteq 0..MaxTag
  /\ cached \subseteq Tags /\ bundle \in 0..Torn
  /\ unpacked \in [Tags -> 0..Torn] /\ kept \subseteq 0..Torn
  /\ stage \in [made : BOOLEAN, staged : 0..Torn, parked : 0..Torn]
  /\ latest <= top /\ (ready # 0 => rel # 0)
  /\ updating = (at \in {"install", "park", "place", "placed", "failed", "relaunch"})

(* update.rs, at its top: an app is "downloaded, verified … and swapped    *)
(* into place".  No app that was torn while it was unpacked, or is not     *)
(* what its release says, ever comes to the path of the app, whatever      *)
(* failed or was killed before and whatever release came in between.       *)
OnlyVerified == bundle # Torn

(* replace_bundle: an app is at its path, or the one that runs is kept in  *)
(* a stage, at every point a kill or a failed rename can leave it.         *)
AppSurvives == bundle # NoApp \/ running \in kept \cup {stage.parked}
=============================================================================
