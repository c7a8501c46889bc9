----------------------------- MODULE PcService -----------------------------
(***************************************************************************)
(* The control service of a PC as the other machines meet it               *)
(* (host/src/service.rs, core/src/http.rs): connections and their slots,   *)
(* who may ask, the remembered answers of `tailscale whois`, and the power *)
(* actions.  Times are ages in ticks, kept only as far as somebody looks    *)
(* at them; a refresh, and a whois, end within a tick.  The engine and the *)
(* updates have modules of their own.                                      *)
(***************************************************************************)
EXTENDS Naturals, FiniteSets

CONSTANTS
  Peers,        \* addresses of other tailnet machines
  Guests,       \* those that are another person's at first
  Workers,      \* connection threads that can exist at once
  MaxConnections,
  CacheLimit,   \* AUTH_CACHE_LIMIT
  TTL,          \* AUTH_TTL, in ticks
  RememberFor,  \* AUTH_REMEMBER, in ticks
  MaxPower,     \* power threads at once: a bound of the model
  MaxMoves      \* changes of accounts in a behaviour

ServiceAssumption ==
  /\ Guests \subseteq Peers
  /\ MaxConnections \in Nat \ {0} /\ CacheLimit \in Nat \ {0}
  /\ TTL \in Nat \ {0} /\ RememberFor \in Nat /\ TTL <= RememberFor
  /\ MaxPower \in Nat /\ MaxMoves \in Nat

VARIABLES
  world,    \* who is signed in where, since when, and the owner's settings file
  svc,      \* the service's memory
  work,     \* the connection threads
  acting    \* power threads that have answered and not acted yet

vars == <<world, svc, work, acting>>

---------------------------------------------------------------------------
(* Who belongs to whom.  A machine carries a user, a login and, if it is   *)
(* tagged, the user of all tagged devices, which proves nothing.           *)

TaggedUser == 9
Person(u, l) == [user |-> u, login |-> l, tagged |-> FALSE, tailnet |-> l]
Tagged(t) == [user |-> TaggedUser, login |-> "tagged-devices", tagged |-> TRUE, tailnet |-> t]
\* Tailscale down, or a whois that fails.
NotThere == [user |-> 0, login |-> "", tagged |-> FALSE, tailnet |-> ""]

Homes == {Person(1, "me"), Tagged("me"), NotThere}
Machines == {Person(1, "me"), Person(2, "other"), Tagged("me"), Tagged("other")}

\* Owner::of, and Owner::admits.
OwnerOf(m) == [user |-> m.user, tagged |-> m.tagged, tailnet |-> m.tailnet]

Admits(owner, peer) ==
  /\ peer.user # 0
  /\ IF owner.tagged THEN owner.tailnet # "" /\ peer.login = owner.tailnet
                     ELSE peer.user = owner.user

\* The promise: a machine of the same account or, for a tagged PC, of a
\* person on its tailnet; no other tailnet's machine, tagged or not.
Belongs(pc, m) ==
  /\ pc # NotThere /\ m # NotThere
  /\ IF pc.tagged THEN ~m.tagged /\ m.tailnet = pc.tailnet ELSE m.user = pc.user

---------------------------------------------------------------------------

\* How old the account that a verdict rests on can be: the refresh read it a
\* tick ago, and the whois took one.
Stale == 2

AtMost(n, bound) == IF n > bound THEN bound ELSE n

Thread(pc, p) ==
  [pc |-> pc, peer |-> p, read |-> FALSE, old |-> FALSE,
   owner |-> OwnerOf(NotThere), allowed |-> FALSE]

Idle == Thread("idle", "nobody")

\* The ages of the last moments at which this PC had an account, at which a
\* peer did and did not belong to one it had had just before, and at which
\* the owner allowed power actions, brought up to the present.
Noted(w) ==
  LET home == [w.home EXCEPT ![w.pc] = 0]
      recent == {m \in Homes : home[m] <= Stale}
      friends == {p \in Peers : \E m \in recent : Belongs(m, w.peer[p])}
      strangers == {p \in Peers : \E m \in recent : ~Belongs(m, w.peer[p])}
  IN [w EXCEPT !.home = home,
               !.friend = [p \in Peers |-> IF p \in friends THEN 0 ELSE @[p]],
               !.stranger = [p \in Peers |-> IF p \in strangers THEN 0 ELSE @[p]],
               !.allowed = IF w.file THEN 0 ELSE @]

Aged(w) ==
  [w EXCEPT !.home = [m \in Homes |-> AtMost(@[m] + 1, Stale + 1)],
            !.friend = [p \in Peers |-> AtMost(@[p] + 1, TTL)],
            !.stranger = [p \in Peers |-> AtMost(@[p] + 1, TTL)],
            !.allowed = AtMost(@ + 1, 2)]

\* Before the service starts nobody is answered, as when Tailscale is down.
Init ==
  /\ \E m \in Homes \ {NotThere} :
     world = Noted([moves |-> 0, pc |-> m, file |-> TRUE,
                    peer |-> [p \in Peers |-> IF p \in Guests THEN Person(2, "other")
                                                    ELSE Person(1, "me")],
                    refreshed |-> FALSE, allowed |-> 0,
                    home |-> [h \in Homes |-> IF h = NotThere THEN 0 ELSE Stale + 1],
                    friend |-> [p \in Peers |-> TTL], stranger |-> [p \in Peers |-> TTL]])
  /\ svc = [ts |-> OwnerOf(NotThere), power |-> TRUE, auth |-> [p \in {} |-> 0], active |-> 0]
  /\ work = [w \in Workers |-> Idle]
  /\ acting = 0

\* What goes on outside the service.
Moves ==
  /\ world.moves < MaxMoves
  /\ \/ \E m \in Homes :
          world' = Noted([world EXCEPT !.pc = m, !.moves = @ + 1])
     \/ \E p \in Peers, m \in Machines \cup {NotThere} :
          world' = Noted([world EXCEPT !.peer[p] = m, !.moves = @ + 1])
     \/ world' = Noted([world EXCEPT !.file = ~@, !.moves = @ + 1])
  /\ UNCHANGED <<svc, work, acting>>

\* A tick ends when what has to end within one has.
Tick ==
  /\ world.refreshed
  /\ \A w \in Workers : work[w].pc \notin {"store", "handle", "refused"} /\ ~work[w].old
  /\ acting = 0
  /\ world' = Noted(Aged([world EXCEPT !.refreshed = FALSE]))
  /\ svc' = [svc EXCEPT !.auth = [p \in DOMAIN svc.auth |->
                 [svc.auth[p] EXCEPT !.age = AtMost(@ + 1, RememberFor)]]]
  /\ work' = [w \in Workers |-> [work[w] EXCEPT !.old = work[w].pc = "whois"]]
  /\ UNCHANGED acting

\* The refresh loop reads the settings file and asks Tailscale.
Refresh ==
  /\ svc' = [svc EXCEPT !.power = world.file,
                        !.ts = OwnerOf(world.pc)]
  /\ world' = [world EXCEPT !.refreshed = TRUE]
  /\ UNCHANGED <<work, acting>>

---------------------------------------------------------------------------
(* A connection. *)

At(w, pc) == work[w].pc = pc

\* A slot is taken by the accepting thread, or the connection is dropped.
Accept(w) ==
  /\ At(w, "idle") /\ svc.active < MaxConnections
  /\ svc' = [svc EXCEPT !.active = @ + 1]
  /\ \E p \in Peers : work' = [work EXCEPT ![w] = Thread("ask", p)]
  /\ UNCHANGED <<world, acting>>

\* The peer is checked before its request is read, and again with it.
Verdict(w, ok) ==
  LET t == work[w]
      next == IF ~ok THEN "refused" ELSE IF t.read THEN "handle" ELSE "reading"
  IN work' = [work EXCEPT ![w] = [Thread(next, t.peer) EXCEPT !.read = t.read]]

Known(p) == p \in DOMAIN svc.auth /\ svc.auth[p].age < TTL

AskCache(w) ==
  LET p == work[w].peer IN
  /\ At(w, "ask")
  /\ IF Known(p) THEN Verdict(w, svc.auth[p].allowed)
     ELSE IF svc.ts = OwnerOf(NotThere) THEN Verdict(w, FALSE)
     ELSE work' = [work EXCEPT ![w].pc = "whois", ![w].owner = svc.ts]
  /\ UNCHANGED <<world, svc, acting>>

\* A whois that fails is a refusal that is not remembered.
WhoIs(w) ==
  LET m == world.peer[work[w].peer] IN
  /\ At(w, "whois")
  /\ IF m = NotThere THEN Verdict(w, FALSE)
     ELSE work' = [work EXCEPT ![w] = [Thread("store", @.peer) EXCEPT
                     !.read = work[w].read, !.allowed = Admits(work[w].owner, m)]]
  /\ UNCHANGED <<world, svc, acting>>

\* Old answers go, and the oldest one when there is no room.
MakeRoom(auth) ==
  LET kept == {p \in DOMAIN auth : auth[p].age < RememberFor}
      oldest == CHOOSE p \in kept : \A q \in kept : auth[p].age >= auth[q].age
      left == IF Cardinality(kept) >= CacheLimit THEN kept \ {oldest} ELSE kept
  IN [p \in left |-> auth[p]]

Remember(w) ==
  LET p == work[w].peer
      room == MakeRoom(svc.auth)
  IN /\ At(w, "store")
     /\ svc' = [svc EXCEPT !.auth =
          [q \in DOMAIN room \cup {p} |->
             IF q = p THEN [age |-> 0, allowed |-> work[w].allowed] ELSE room[q]]]
     /\ Verdict(w, work[w].allowed)
     /\ UNCHANGED <<world, acting>>

\* The slot is given back however the thread ends.
Leave(w) ==
  /\ work' = [work EXCEPT ![w] = Idle]
  /\ svc' = [svc EXCEPT !.active = @ - 1]

ReadRequest(w, then) ==
  /\ work' = [work EXCEPT ![w] = [Thread(then, @.peer) EXCEPT !.read = TRUE]]
  /\ UNCHANGED svc

ReadAndHandle(w) ==
  /\ At(w, "reading")
  /\ ReadRequest(w, "handle") \/ Leave(w)
  /\ UNCHANGED <<world, acting>>

\* A request arrives, or nothing, or something that is no request; the body
\* of an upload may take minutes.
Read(w) ==
  /\ At(w, "reading")
  /\ ReadRequest(w, "ask") \/ Leave(w)
  /\ UNCHANGED <<world, acting>>

Refuse(w) == At(w, "refused") /\ Leave(w) /\ UNCHANGED <<world, acting>>

\* /v1/power: refused if the settings forbid it; otherwise the reply is sent
\* first and a thread acts a moment later.
Power == svc.power /\ acting < MaxPower /\ acting' = acting + 1

\* Any request, refused or not, changes nothing else that is modelled here.
Handle(w) ==
  /\ At(w, "handle")
  /\ Leave(w)
  /\ Power \/ UNCHANGED acting
  /\ UNCHANGED world

PowerActs ==
  /\ acting > 0
  /\ acting' = acting - 1
  /\ UNCHANGED <<world, svc, work>>

Connection(w) ==
  Accept(w) \/ AskCache(w) \/ WhoIs(w) \/ Remember(w) \/ Read(w) \/ Refuse(w) \/ Handle(w)

Next == Moves \/ Tick \/ Refresh \/ PowerActs \/ \E w \in Workers : Connection(w)

Spec == Init /\ [][Next]_vars

---------------------------------------------------------------------------
(* Properties. *)

TypeOK ==
  /\ world.moves \in 0..MaxMoves /\ world.file \in BOOLEAN /\ svc.power \in BOOLEAN
  /\ world.friend \in [Peers -> 0..TTL] /\ world.stranger \in [Peers -> 0..TTL]
  /\ DOMAIN svc.auth \subseteq Peers
  /\ \A p \in DOMAIN svc.auth : svc.auth[p] \in [age : 0..RememberFor, allowed : BOOLEAN]
  /\ \A w \in Workers : work[w].pc \in {"idle", "ask", "whois", "store", "reading",
                                         "handle", "refused"}
  /\ acting \in 0..MaxPower

\* A request is handled only for a machine that belonged, a moment ago, to an
\* account this PC had then or had had just before, however long its request
\* took to arrive, whatever was remembered and whoever signed in elsewhere
\* meanwhile; machines of other tailnets and tagged machines never count.
AnswersItsOwn ==
  \A w \in Workers : At(w, "handle") => world.friend[work[w].peer] < TTL

\* A machine that belongs here, and did before, is not kept out by an old
\* refusal.
RefusesStrangers ==
  \A w \in Workers : At(w, "refused") => world.stranger[work[w].peer] < TTL

\* The remembered answers stay within their bound.
CacheBounded == Cardinality(DOMAIN svc.auth) <= CacheLimit

\* Every slot taken belongs to a thread that will give it back.
SlotsReturned ==
  /\ svc.active = Cardinality({w \in Workers : ~At(w, "idle")})
  /\ svc.active <= MaxConnections

\* A power action is done only if the owner allowed such actions a moment
\* ago: turning them off takes effect without a restart of the service.
PowerIsAllowed == acting > 0 => world.allowed <= 1
=============================================================================
