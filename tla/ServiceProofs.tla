---------------------------- MODULE ServiceProofs ----------------------------
(***************************************************************************)
(* What is proved of the control service (PcService), for any machines,    *)
(* threads, limits and lifetimes: whom it answers, whom it turns away, that *)
(* power actions are allowed when they are done, and that neither slots nor *)
(* remembered answers leak; of the mutexes its threads take (ServiceLocks); *)
(* and of the test of Wake-on-LAN that it answers (WakeTest).              *)
(*                                                                         *)
(* The first part's invariant says how old what a verdict rests on can be: the account  *)
(* the refresh read is a tick old at most (AccountInv), that of a whois    *)
(* under way two (WhoIsInv), a verdict that is being noted is true of the  *)
(* present (StoreInv), and a remembered one was so when it was noted       *)
(* (CacheInv).                                                             *)
(***************************************************************************)
EXTENDS PcService, Sequences, SequenceTheorems, FiniteSetTheorems, WellFoundedInduction, TLAPS

CONSTANTS Threads, Runs, Networks, Settle, Limit, Fresh, MaxTests, MaxFaults
VARIABLES holder, at, sender, sleeper, air, test, faults

Mutexes == INSTANCE ServiceLocks
Waking == INSTANCE WakeTest WITH mac <- sender, pc <- sleeper

Accounts == Machines \cup {NotThere}
Owners == {OwnerOf(m) : m \in Homes}

World == [moves : Nat, pc : Homes, file : BOOLEAN, peer : [Peers -> Accounts],
          refreshed : BOOLEAN, allowed : 0..2, home : [Homes -> 0..Stale + 1],
          friend : [Peers -> 0..TTL], stranger : [Peers -> 0..TTL]]

Answers == [age : 0..RememberFor, allowed : BOOLEAN]
Caches == UNION {[S -> Answers] : S \in SUBSET Peers}

Points == {"idle", "ask", "whois", "store", "reading", "handle", "refused"}
Memory == [ts : Owners, power : BOOLEAN, auth : Caches, active : Nat]
Connections == [pc : Points, peer : Peers \cup {"nobody"}, read : BOOLEAN, old : BOOLEAN,
                owner : Owners, allowed : BOOLEAN]

ServiceTypes ==
  /\ world \in World /\ world.moves <= MaxMoves
  /\ svc \in Memory
  /\ work \in [Workers -> Connections]
  /\ \A w \in Workers : ~At(w, "idle") => work[w].peer \in Peers
  /\ acting \in 0..MaxPower

\* What is noted of the world is up to date.
UpToDate(w) ==
  /\ w.home[w.pc] = 0
  /\ w.file => w.allowed = 0
  /\ \A m \in Homes, p \in Peers : w.home[m] <= Stale =>
       IF Belongs(m, w.peer[p]) THEN w.friend[p] = 0 ELSE w.stranger[p] = 0

\* The account the service knows of is one it read since the last tick, or in
\* the tick before.
AccountInv ==
  \E m \in Homes : /\ OwnerOf(m) = svc.ts
                   /\ world.home[m] <= IF world.refreshed THEN 0 ELSE 1

\* A whois goes on with an account that was this PC's two ticks ago at most.
WhoIsInv ==
  \A w \in Workers :
    /\ work[w].old => At(w, "whois")
    /\ At(w, "whois") =>
         \E m \in Homes \ {NotThere} :
            /\ OwnerOf(m) = work[w].owner
            /\ world.home[m] <= IF work[w].old THEN 2 ELSE 1

\* A verdict that is being noted is true, a remembered one was when it was
\* noted, and one that is acted on was a moment ago.
StoreInv ==
  \A w \in Workers : At(w, "store") =>
    IF work[w].allowed THEN world.friend[work[w].peer] = 0
                       ELSE world.stranger[work[w].peer] = 0
CacheInv ==
  \A p \in DOMAIN svc.auth :
    IF svc.auth[p].allowed THEN world.friend[p] <= svc.auth[p].age
                           ELSE world.stranger[p] <= svc.auth[p].age
VerdictInv == AnswersItsOwn /\ RefusesStrangers

\* The owner's last word on power actions is a tick old at most.
PowerInv ==
  /\ svc.power => world.allowed <= IF world.refreshed THEN 0 ELSE 1
  /\ PowerIsAllowed

\* The threads at work are counted, and the answers remembered few.
Busy == {w \in Workers : ~At(w, "idle")}
CountInv ==
  /\ IsFiniteSet(Busy) /\ SlotsReturned
  /\ IsFiniteSet(DOMAIN svc.auth) /\ CacheBounded

AgeInv == UpToDate(world) /\ AccountInv /\ WhoIsInv /\ StoreInv /\ CacheInv /\ VerdictInv
          /\ PowerInv
ServiceInv == ServiceTypes /\ AgeInv /\ CountInv

-----------------------------------------------------------------------------

LEMMA Admission ==
  /\ \A m \in Homes \ {NotThere}, n \in Machines : Admits(OwnerOf(m), n) <=> Belongs(m, n)
  /\ \A n \in Accounts : ~Belongs(NotThere, n)
  /\ \A m \in Homes : ~Belongs(m, NotThere)
  /\ NotThere \in Homes
<1> USE DEF Person, Tagged, TaggedUser, Belongs
<1>1. ASSUME NEW m \in {Person(1, "me"), Tagged("me")}, NEW n \in Machines
      PROVE  m # NotThere /\ n # NotThere /\ (Admits(OwnerOf(m), n) <=> Belongs(m, n))
  <2>0. m.user # 0 /\ n.user # 0 /\ NotThere.user = 0
    BY DEF Machines, NotThere
  <2>1. m # NotThere /\ n # NotThere
    BY <2>0
  <2>2. CASE m = Person(1, "me")
    BY <2>1, <2>2 DEF Machines, Admits, OwnerOf
  <2>3. CASE m = Tagged("me")
    BY <2>1, <2>3 DEF Machines, Admits, OwnerOf
  <2>4. QED
    BY <2>1, <2>2, <2>3
<1>2. QED
  BY <1>1 DEF Homes

\* What bringing the notes up to date does.
LEMMA NotedKeeps ==
  ASSUME TTL \in Nat, NEW w \in World
  PROVE  /\ Noted(w) \in World /\ UpToDate(Noted(w))
         /\ Noted(w).moves = w.moves /\ Noted(w).refreshed = w.refreshed
         /\ \A m \in Homes : Noted(w).home[m] <= w.home[m]
         /\ \A p \in Peers : /\ Noted(w).friend[p] <= w.friend[p]
                             /\ Noted(w).stranger[p] <= w.stranger[p]
         /\ Noted(w).allowed <= w.allowed
<1> DEFINE home == [w.home EXCEPT ![w.pc] = 0]
           recent == {m \in Homes : home[m] <= Stale}
           friends == {p \in Peers : \E m \in recent : Belongs(m, w.peer[p])}
           strangers == {p \in Peers : \E m \in recent : ~Belongs(m, w.peer[p])}
           friend == [p \in Peers |-> IF p \in friends THEN 0 ELSE w.friend[p]]
           stranger == [p \in Peers |-> IF p \in strangers THEN 0 ELSE w.stranger[p]]
           n == Noted(w)
<1>1. /\ home \in [Homes -> 0..Stale + 1] /\ home[w.pc] = 0
      /\ \A m \in Homes : home[m] <= w.home[m]
  BY DEF World, Stale
<1>2. /\ friend \in [Peers -> 0..TTL] /\ stranger \in [Peers -> 0..TTL]
      /\ \A p \in Peers : friend[p] <= w.friend[p] /\ stranger[p] <= w.stranger[p]
  BY DEF World
<1>0. n = [w EXCEPT !.home = home, !.friend = friend, !.stranger = stranger,
                    !.allowed = IF w.file THEN 0 ELSE w.allowed]
  BY DEF Noted
<1> HIDE DEF n, home, friend, stranger
<1>3. n = [moves |-> w.moves, pc |-> w.pc, file |-> w.file, peer |-> w.peer,
           refreshed |-> w.refreshed, allowed |-> IF w.file THEN 0 ELSE w.allowed,
           home |-> home, friend |-> friend, stranger |-> stranger]
  BY <1>0 DEF World
<1>4. n \in World /\ n.allowed <= w.allowed
  BY <1>1, <1>2, <1>3 DEF World
<1>5. ASSUME NEW m \in Homes, NEW p \in Peers, home[m] <= Stale
      PROVE  IF Belongs(m, w.peer[p]) THEN friend[p] = 0 ELSE stranger[p] = 0
  <2>1. m \in recent
    BY <1>5
  <2>2. CASE Belongs(m, w.peer[p])
    BY <2>1, <2>2 DEF friend
  <2>3. CASE ~Belongs(m, w.peer[p])
    BY <2>1, <2>3 DEF stranger
  <2>4. QED
    BY <2>2, <2>3
<1>6. UpToDate(n)
  <2>1. n.home = home /\ n.pc = w.pc /\ n.peer = w.peer /\ n.friend = friend
        /\ n.stranger = stranger /\ n.file = w.file
        /\ n.allowed = IF w.file THEN 0 ELSE w.allowed
    BY <1>3
  <2>2. QED
    BY <2>1, <1>1, <1>5 DEF UpToDate
<1>7. n.moves = w.moves /\ n.refreshed = w.refreshed /\ n.home = home /\ n.friend = friend
      /\ n.stranger = stranger
  BY <1>3
<1>8. /\ \A m \in Homes : n.home[m] <= w.home[m]
      /\ \A p \in Peers : n.friend[p] <= w.friend[p] /\ n.stranger[p] <= w.stranger[p]
  BY <1>1, <1>2, <1>7
<1>9. QED
  BY <1>4, <1>6, <1>7, <1>8 DEF n

LEMMA AgedKeeps ==
  ASSUME TTL \in Nat, NEW w \in World
  PROVE  /\ Aged(w) \in World
         /\ Aged(w).moves = w.moves /\ Aged(w).refreshed = w.refreshed
         /\ \A m \in Homes : Aged(w).home[m] <= w.home[m] + 1
         /\ \A p \in Peers : /\ Aged(w).friend[p] <= AtMost(w.friend[p] + 1, TTL)
                             /\ Aged(w).stranger[p] <= AtMost(w.stranger[p] + 1, TTL)
         /\ Aged(w).allowed <= w.allowed + 1
<1> DEFINE home == [m \in Homes |-> AtMost(w.home[m] + 1, Stale + 1)]
           friend == [p \in Peers |-> AtMost(w.friend[p] + 1, TTL)]
           stranger == [p \in Peers |-> AtMost(w.stranger[p] + 1, TTL)]
           allowed == AtMost(w.allowed + 1, 2)
           n == Aged(w)
<1>1. home \in [Homes -> 0..Stale + 1] /\ \A m \in Homes : home[m] <= w.home[m] + 1
  BY DEF World, Stale, AtMost
<1>2. /\ friend \in [Peers -> 0..TTL] /\ stranger \in [Peers -> 0..TTL]
      /\ \A p \in Peers : /\ friend[p] <= AtMost(w.friend[p] + 1, TTL)
                          /\ stranger[p] <= AtMost(w.stranger[p] + 1, TTL)
  BY DEF World, AtMost
<1>3. allowed \in 0..2 /\ allowed <= w.allowed + 1
  BY DEF World, AtMost
<1>0. n = [w EXCEPT !.home = home, !.friend = friend, !.stranger = stranger,
                    !.allowed = allowed]
  BY DEF Aged
<1> HIDE DEF home, friend, stranger, allowed, n
<1>4. n = [moves |-> w.moves, pc |-> w.pc, file |-> w.file, peer |-> w.peer,
           refreshed |-> w.refreshed, allowed |-> allowed,
           home |-> home, friend |-> friend, stranger |-> stranger]
  BY <1>0 DEF World
<1>5. n \in World
  BY <1>1, <1>2, <1>3, <1>4 DEF World
<1>6. QED
  BY <1>1, <1>2, <1>3, <1>4, <1>5 DEF n

-----------------------------------------------------------------------------
(* The remembered answers.                                                   *)

\* Of some numbers below a bound, there is a largest.
LEMMA Largest ==
  ASSUME NEW N \in Nat, NEW S, S # {}, NEW f \in [S -> 0..N]
  PROVE  \E x \in S : \A y \in S : f[x] >= f[y]
<1> DEFINE below(x) == 0..(N - f[x])
           T == {below(x) : x \in S}
           R == StrictSubsetOrdering(0..N)
<1>1. T \subseteq FiniteSubsetsOf(0..N) /\ T # {}
  <2>1. SUBSET (0..N) = FiniteSubsetsOf(0..N)
    <3>1. IsFiniteSet(0..N)
      <4>1. 0 \in Int /\ N \in Int
        OBVIOUS
      <4>2. QED
        BY <4>1, FS_Interval
    <3>2. QED
      BY <3>1, FS_FiniteSubsetsOfFinite
  <2>2. \A x \in S : below(x) \in SUBSET (0..N)
    OBVIOUS
  <2>3. QED
    BY <2>1, <2>2
<1>2. PICK t \in T : \A u \in T : ~(<<u, t>> \in R)
  <2> HIDE DEF T, R
  <2>1. IsWellFoundedOn(R, FiniteSubsetsOf(0..N))
    BY FS_StrictSubsetOrderingWellFounded DEF R
  <2>2. QED
    BY <1>1, <2>1, WFMin
<1>3. PICK x \in S : t = below(x)
  OBVIOUS
<1>4. ASSUME NEW y \in S, f[y] > f[x] PROVE FALSE
  <2>1. below(y) \subseteq below(x) /\ N - f[x] \in below(x) /\ N - f[x] \notin below(y)
    BY <1>4
  <2>2. below(y) \in SUBSET (0..N) /\ below(x) \in SUBSET (0..N) /\ below(x) # below(y)
    BY <2>1
  <2>3. <<below(y), below(x)>> \in R
    BY <2>1, <2>2 DEF StrictSubsetOrdering
  <2>4. QED
    BY <1>2, <1>3, <2>3
<1>5. QED
  BY <1>4

\* An answer that is added finds room.
LEMMA RoomIsMade ==
  ASSUME RememberFor \in Nat, CacheLimit \in Nat \ {0}, NEW auth \in Caches,
         IsFiniteSet(DOMAIN auth), Cardinality(DOMAIN auth) <= CacheLimit
  PROVE  LET room == MakeRoom(auth) IN
         /\ DOMAIN room \subseteq DOMAIN auth /\ \A p \in DOMAIN room : room[p] = auth[p]
         /\ IsFiniteSet(DOMAIN room) /\ Cardinality(DOMAIN room) < CacheLimit
<1> DEFINE kept == {p \in DOMAIN auth : auth[p].age < RememberFor}
           oldest == CHOOSE p \in kept : \A q \in kept : auth[p].age >= auth[q].age
           left == IF Cardinality(kept) >= CacheLimit THEN kept \ {oldest} ELSE kept
<1>1. IsFiniteSet(kept) /\ Cardinality(kept) <= CacheLimit /\ Cardinality(kept) \in Nat
  <2>1. kept \subseteq DOMAIN auth
    OBVIOUS
  <2>2. IsFiniteSet(kept) /\ Cardinality(kept) <= Cardinality(DOMAIN auth)
    BY <2>1, FS_Subset
  <2>3. Cardinality(kept) \in Nat /\ Cardinality(DOMAIN auth) \in Nat
    BY <2>2, FS_CardinalityType
  <2>4. QED
    BY <2>2, <2>3
<1>2. IsFiniteSet(left) /\ Cardinality(left) < CacheLimit /\ left \subseteq DOMAIN auth
  <2>1. CASE Cardinality(kept) >= CacheLimit
    <3>1. kept # {}
      <4> HIDE DEF kept
      <4>1. kept = {} => Cardinality(kept) = 0
        BY FS_EmptySet
      <4>2. QED
        BY <2>1, <4>1
    <3>2. [p \in kept |-> auth[p].age] \in [kept -> 0..RememberFor]
      BY DEF Caches, Answers
    <3>3. \E p \in kept : \A q \in kept : auth[p].age >= auth[q].age
      <4> DEFINE f == [p \in kept |-> auth[p].age]
      <4>1. \E p \in kept : \A q \in kept : f[p] >= f[q]
        <5> HIDE DEF f, kept
        <5>1. f \in [kept -> 0..RememberFor]
          BY <3>2 DEF f
        <5>2. QED
          BY <3>1, <5>1, Largest
      <4>2. QED
        BY <4>1
    <3>4. oldest \in kept
      BY <3>3
    <3> HIDE DEF oldest, kept
    <3>5. IsFiniteSet(kept \ {oldest}) /\ Cardinality(kept \ {oldest}) = Cardinality(kept) - 1
      BY <1>1, <3>4, FS_RemoveElement
    <3>6. QED
      BY <1>1, <2>1, <3>5 DEF kept
  <2>2. CASE ~(Cardinality(kept) >= CacheLimit)
    BY <1>1, <2>2
  <2>3. QED
    BY <2>1, <2>2
<1>3. MakeRoom(auth) = [p \in left |-> auth[p]]
  BY DEF MakeRoom
<1> HIDE DEF left
<1>4. QED
  BY <1>2, <1>3

-----------------------------------------------------------------------------
(* Time, and the world around the service.                                   *)

\* The world goes on without the service.
LEMMA MovesKeeps ==
  ASSUME ServiceAssumption, ServiceInv, Moves
  PROVE  ServiceInv'
<1>1. PICK went \in World : /\ world' = Noted(went) /\ went.moves = world.moves + 1
                            /\ went.moves <= MaxMoves
                            /\ went.refreshed = world.refreshed /\ went.home = world.home
                            /\ went.friend = world.friend /\ went.stranger = world.stranger
                            /\ went.allowed = world.allowed
  <2>0. world \in World /\ MaxMoves \in Nat /\ world.moves + 1 <= MaxMoves
        /\ world.moves + 1 \in Nat
    <3>1. world \in World
      BY DEF ServiceInv, ServiceTypes
    <3>2. MaxMoves \in Nat /\ world.moves < MaxMoves
      BY DEF ServiceAssumption, Moves
    <3>3. world.moves \in Nat
      BY <3>1 DEF World
    <3>4. QED
      BY <3>1, <3>2, <3>3
  <2>1. ASSUME NEW m \in Homes, world' = Noted([world EXCEPT !.pc = m, !.moves = @ + 1])
        PROVE  [world EXCEPT !.pc = m, !.moves = @ + 1] \in World
    BY <2>0 DEF World
  <2>2. ASSUME NEW p \in Peers, NEW m \in Accounts
        PROVE  [world EXCEPT !.peer[p] = m, !.moves = @ + 1] \in World
    BY <2>0 DEF World
  <2>3. [world EXCEPT !.file = ~@, !.moves = @ + 1] \in World
    BY <2>0 DEF World
  <2>4. CASE \E m \in Homes : world' = Noted([world EXCEPT !.pc = m, !.moves = @ + 1])
    BY <2>0, <2>1, <2>4 DEF World
  <2>5. CASE \E p \in Peers, m \in Accounts :
               world' = Noted([world EXCEPT !.peer[p] = m, !.moves = @ + 1])
    <3>1. PICK p \in Peers, m \in Accounts :
            world' = Noted([world EXCEPT !.peer[p] = m, !.moves = @ + 1])
      BY <2>5
    <3> DEFINE went == [world EXCEPT !.peer[p] = m, !.moves = @ + 1]
    <3>2. went \in World
      BY <2>2
    <3>3. /\ went.moves = world.moves + 1 /\ went.refreshed = world.refreshed
          /\ went.home = world.home /\ went.friend = world.friend /\ went.stranger = world.stranger
          /\ went.allowed = world.allowed
      BY <2>0 DEF World
    <3>4. world' = Noted(went)
      BY <3>1
    <3> HIDE DEF went
    <3>5. QED
      BY <2>0, <3>2, <3>3, <3>4
  <2>6. CASE world' = Noted([world EXCEPT !.file = ~@, !.moves = @ + 1])
    BY <2>0, <2>3, <2>6 DEF World
  <2>7. QED
    BY <2>4, <2>5, <2>6 DEF Moves, Accounts
<1>2. /\ world' \in World /\ world'.moves <= MaxMoves /\ UpToDate(world')
      /\ world'.refreshed = world.refreshed
      /\ \A m \in Homes : world'.home[m] <= world.home[m]
      /\ \A p \in Peers : /\ world'.friend[p] <= world.friend[p]
                          /\ world'.stranger[p] <= world.stranger[p]
      /\ world'.allowed <= world.allowed
  BY <1>1, NotedKeeps DEF ServiceAssumption
<1>3. UNCHANGED <<svc, work, acting>>
  BY DEF Moves
<1>4. ServiceTypes'
  BY <1>2, <1>3 DEF ServiceInv, ServiceTypes, At
<1>5. CountInv'
  BY <1>3 DEF ServiceInv, CountInv, Busy, At, SlotsReturned, CacheBounded
<1>6. world \in World /\ world' \in World
  BY <1>2 DEF ServiceInv, ServiceTypes
<1>7. AccountInv'
  BY <1>2, <1>3, <1>6 DEF ServiceInv, AgeInv, AccountInv, World, Stale
<1>8. WhoIsInv'
  BY <1>2, <1>3, <1>6 DEF ServiceInv, AgeInv, WhoIsInv, World, Stale, At
<1>9. StoreInv' /\ CacheInv' /\ VerdictInv'
  <2>1. DOMAIN svc.auth \subseteq Peers /\ \A p \in DOMAIN svc.auth : svc.auth[p].age \in Nat
    BY DEF ServiceAssumption, ServiceInv, ServiceTypes, Memory, Caches, Answers
  <2>2. \A w \in Workers : ~At(w, "idle") => work[w].peer \in Peers
    BY DEF ServiceInv, ServiceTypes
  <2>3. /\ \A p \in Peers : /\ world.friend[p] \in Nat /\ world'.friend[p] \in Nat
                            /\ world.stranger[p] \in Nat /\ world'.stranger[p] \in Nat
        /\ TTL \in Nat
    BY <1>6 DEF World, ServiceAssumption
  <2>4. StoreInv'
    BY <1>2, <1>3, <2>2, <2>3 DEF ServiceInv, AgeInv, StoreInv, At
  <2>5. CacheInv'
    BY <1>2, <1>3, <2>1, <2>3 DEF ServiceInv, AgeInv, CacheInv
  <2>6. VerdictInv'
    BY <1>2, <1>3, <2>2, <2>3
       DEF ServiceInv, AgeInv, VerdictInv, AnswersItsOwn, RefusesStrangers, At
  <2>7. QED
    BY <2>4, <2>5, <2>6
<1>10. PowerInv'
  BY <1>2, <1>3, <1>6 DEF ServiceInv, AgeInv, PowerInv, PowerIsAllowed, World
<1>11. QED
  BY <1>2, <1>4, <1>5, <1>7, <1>8, <1>9, <1>10, SMTT(40), ZenonT(60) DEF ServiceInv, AgeInv

\* A tick: everything is a tick older, and nothing is at work that rests on it.
LEMMA TickKeeps ==
  ASSUME ServiceAssumption, ServiceInv, Tick
  PROVE  ServiceInv'
<1> DEFINE w0 == [world EXCEPT !.refreshed = FALSE]
<1>1. /\ world \in World /\ w0 \in World /\ w0.moves = world.moves /\ w0.refreshed = FALSE
      /\ w0.home = world.home /\ w0.friend = world.friend /\ w0.stranger = world.stranger
      /\ w0.allowed = world.allowed
  BY DEF ServiceInv, ServiceTypes, World
<1>2. world' = Noted(Aged(w0))
  BY DEF Tick
<1>3. TTL \in Nat /\ RememberFor \in Nat /\ TTL <= RememberFor
  BY DEF ServiceAssumption
<1> HIDE DEF w0
<1>4. /\ Aged(w0) \in World
      /\ Aged(w0).moves = world.moves /\ Aged(w0).refreshed = FALSE
      /\ \A m \in Homes : Aged(w0).home[m] <= world.home[m] + 1
      /\ \A p \in Peers : /\ Aged(w0).friend[p] <= AtMost(world.friend[p] + 1, TTL)
                          /\ Aged(w0).stranger[p] <= AtMost(world.stranger[p] + 1, TTL)
      /\ Aged(w0).allowed <= world.allowed + 1
  BY <1>1, <1>3, AgedKeeps
<1>5. /\ world' \in World /\ UpToDate(world')
      /\ world'.moves = world.moves /\ world'.refreshed = FALSE
      /\ \A m \in Homes : world'.home[m] <= Aged(w0).home[m]
      /\ \A p \in Peers : /\ world'.friend[p] <= Aged(w0).friend[p]
                          /\ world'.stranger[p] <= Aged(w0).stranger[p]
      /\ world'.allowed <= Aged(w0).allowed
  BY <1>2, <1>3, <1>4, NotedKeeps
<1>6. /\ \A m \in Homes : world'.home[m] <= world.home[m] + 1
      /\ \A p \in Peers : /\ world'.friend[p] <= AtMost(world.friend[p] + 1, TTL)
                          /\ world'.stranger[p] <= AtMost(world.stranger[p] + 1, TTL)
      /\ world'.allowed <= world.allowed + 1
  <2>1. \A v \in World :
          /\ \A m \in Homes : v.home[m] \in Int
          /\ \A p \in Peers : v.friend[p] \in Int /\ v.stranger[p] \in Int
          /\ v.allowed \in Int
    BY DEF World
  <2>2. \A p \in Peers : /\ AtMost(world.friend[p] + 1, TTL) \in Int
                         /\ AtMost(world.stranger[p] + 1, TTL) \in Int
    BY <1>1, <1>3, <2>1 DEF AtMost
  <2>3. QED
    BY <1>1, <1>4, <1>5, <2>1, <2>2
<1>7. /\ svc'.ts = svc.ts /\ svc'.power = svc.power /\ svc'.active = svc.active
      /\ svc'.auth \in Caches /\ DOMAIN svc'.auth = DOMAIN svc.auth
      /\ svc' \in Memory
      /\ \A p \in DOMAIN svc.auth :
           /\ svc'.auth[p].allowed = svc.auth[p].allowed
           /\ svc'.auth[p].age = AtMost(svc.auth[p].age + 1, RememberFor)
  <2> DEFINE auth == [p \in DOMAIN svc.auth |->
                        [svc.auth[p] EXCEPT !.age = AtMost(@ + 1, RememberFor)]]
  <2>1. svc' = [svc EXCEPT !.auth = auth]
    BY DEF Tick
  <2>2. svc \in [ts : Owners, power : BOOLEAN, auth : Caches, active : Nat]
    BY DEF ServiceInv, ServiceTypes, Memory
  <2>3. PICK S \in SUBSET Peers : svc.auth \in [S -> Answers]
    BY <2>2 DEF Caches
  <2>4. auth \in [S -> Answers]
    BY <1>3, <2>3 DEF Answers, AtMost
  <2>5. \A p \in DOMAIN svc.auth :
           /\ auth[p].allowed = svc.auth[p].allowed
           /\ auth[p].age = AtMost(svc.auth[p].age + 1, RememberFor)
    BY <2>3 DEF Answers
  <2> HIDE DEF auth
  <2>6. svc' = [ts |-> svc.ts, power |-> svc.power, auth |-> auth, active |-> svc.active]
    BY <2>1, <2>2
  <2>7. auth \in Caches /\ DOMAIN auth = DOMAIN svc.auth
    BY <2>3, <2>4 DEF Caches
  <2>8. QED
    BY <2>2, <2>5, <2>6, <2>7 DEF Memory
<1>8. /\ work' \in [Workers -> Connections]
      /\ \A w \in Workers : /\ work'[w].pc = work[w].pc /\ work'[w].peer = work[w].peer
                            /\ work'[w].owner = work[w].owner
                            /\ work'[w].old <=> At(w, "whois")
  <2>1. work \in [Workers -> Connections]
    BY DEF ServiceInv, ServiceTypes
  <2>2. work' = [w \in Workers |-> [work[w] EXCEPT !.old = work[w].pc = "whois"]]
    BY DEF Tick
  <2>3. QED
    BY <2>1, <2>2 DEF Connections, At
<1>9. acting' = acting /\ acting = 0 /\ world.refreshed
      /\ \A w \in Workers : work[w].pc \notin {"store", "handle", "refused"} /\ ~work[w].old
  BY DEF Tick
<1>10. ServiceTypes'
  <2>1. \A w \in Workers : (~At(w, "idle"))' => work'[w].peer \in Peers
    BY <1>8 DEF ServiceInv, ServiceTypes, At
  <2>2. QED
    BY <1>5, <1>7, <1>8, <1>9, <2>1 DEF ServiceInv, ServiceTypes
<1>11. CountInv'
  <2>1. Busy' = Busy
    BY <1>8 DEF Busy, At
  <2>2. QED
    BY <1>7, <2>1 DEF ServiceInv, CountInv, SlotsReturned, CacheBounded, Busy
<1>12. AccountInv'
  BY <1>1, <1>5, <1>6, <1>7, <1>9 DEF ServiceInv, AgeInv, AccountInv, World, Stale
<1>13. WhoIsInv'
  BY <1>1, <1>5, <1>6, <1>8, <1>9 DEF ServiceInv, AgeInv, WhoIsInv, World, Stale, At
<1>14. StoreInv' /\ VerdictInv'
  BY <1>8, <1>9 DEF StoreInv, VerdictInv, AnswersItsOwn, RefusesStrangers, At
<1>15. CacheInv'
  <2>1. DOMAIN svc.auth \subseteq Peers /\ \A p \in DOMAIN svc.auth : svc.auth[p].age \in Nat
    BY <1>3 DEF ServiceInv, ServiceTypes, Memory, Caches, Answers
  <2>2. \A p \in Peers : /\ world.friend[p] \in Nat /\ world'.friend[p] \in Nat
                         /\ world.stranger[p] \in Nat /\ world'.stranger[p] \in Nat
    BY <1>1, <1>3, <1>5 DEF World
  <2>3. QED
    BY <1>3, <1>6, <1>7, <2>1, <2>2 DEF ServiceInv, AgeInv, CacheInv, AtMost
<1>16. PowerInv'
  BY <1>1, <1>5, <1>6, <1>7, <1>9 DEF ServiceInv, AgeInv, PowerInv, PowerIsAllowed, World
<1>17. QED
  BY <1>5, <1>10, <1>11, <1>12, <1>13, <1>14, <1>15, <1>16 DEF ServiceInv, AgeInv

\* The refresh learns the account this PC has now, and what the owner allows.
LEMMA RefreshKeeps ==
  ASSUME ServiceAssumption, ServiceInv, Refresh
  PROVE  ServiceInv'
<1>1. /\ world \in World /\ world' \in World /\ UpToDate(world) /\ UpToDate(world')
      /\ world'.refreshed = TRUE /\ world'.moves = world.moves
      /\ world'.home = world.home /\ world'.friend = world.friend
      /\ world'.stranger = world.stranger /\ world'.allowed = world.allowed
      /\ world'.pc = world.pc /\ world'.file = world.file
  <2>1. world \in World /\ UpToDate(world)
    BY DEF ServiceInv, AgeInv, ServiceTypes
  <2>2. world' = [world EXCEPT !.refreshed = TRUE]
    BY DEF Refresh
  <2>3. world' \in World /\ world'.peer = world.peer
    BY <2>1, <2>2 DEF World
  <2>4. QED
    BY <2>1, <2>2, <2>3 DEF UpToDate, World
<1>2. /\ svc' \in Memory /\ svc'.ts = OwnerOf(world.pc) /\ svc'.power = world.file
      /\ svc'.auth = svc.auth /\ svc'.active = svc.active
  <2>1. svc' = [svc EXCEPT !.power = world.file, !.ts = OwnerOf(world.pc)]
    BY DEF Refresh
  <2>2. OwnerOf(world.pc) \in Owners /\ world.file \in BOOLEAN
    BY <1>1 DEF Owners, World
  <2>3. QED
    BY <2>1, <2>2 DEF ServiceInv, ServiceTypes, Memory
<1>3. UNCHANGED <<work, acting>>
  BY DEF Refresh
<1>4. ServiceTypes'
  BY <1>1, <1>2, <1>3 DEF ServiceInv, ServiceTypes, At
<1>5. CountInv'
  BY <1>2, <1>3 DEF ServiceInv, CountInv, Busy, At, SlotsReturned, CacheBounded
<1>6. AccountInv'
  BY <1>1, <1>2 DEF AccountInv, UpToDate, World
<1>7. WhoIsInv' /\ StoreInv' /\ CacheInv' /\ VerdictInv'
  BY <1>1, <1>2, <1>3
     DEF ServiceInv, AgeInv, WhoIsInv, StoreInv, CacheInv, VerdictInv, AnswersItsOwn,
         RefusesStrangers, At
<1>8. PowerInv'
  BY <1>1, <1>2, <1>3
     DEF ServiceInv, AgeInv, PowerInv, PowerIsAllowed, UpToDate, World
<1>9. QED
  BY <1>1, <1>4, <1>5, <1>6, <1>7, <1>8 DEF ServiceInv, AgeInv

LEMMA PowerActsKeeps ==
  ASSUME ServiceAssumption, ServiceInv, PowerActs
  PROVE  ServiceInv'
<1>1. UNCHANGED <<world, svc, work>> /\ acting > 0 /\ acting' = acting - 1
  BY DEF PowerActs
<1>2. acting' \in 0..MaxPower
  BY <1>1 DEF ServiceAssumption, ServiceInv, ServiceTypes
<1>3. ServiceTypes'
  BY <1>1, <1>2 DEF ServiceInv, ServiceTypes, At
<1>4. AgeInv'
  BY <1>1 DEF ServiceInv, AgeInv, UpToDate, AccountInv, WhoIsInv, StoreInv, CacheInv, VerdictInv,
              AnswersItsOwn, RefusesStrangers, PowerInv, PowerIsAllowed, At
<1>5. CountInv'
  BY <1>1 DEF ServiceInv, CountInv, Busy, At, SlotsReturned, CacheBounded
<1>6. QED
  BY <1>3, <1>4, <1>5 DEF ServiceInv

-----------------------------------------------------------------------------
(* The connections.                                                          *)

\* What the invariant says of one thread.
Sound(t) ==
  /\ t \in Connections /\ (t.pc # "idle" => t.peer \in Peers)
  /\ t.old => t.pc = "whois"
  /\ t.pc = "whois" =>
       \E m \in Homes \ {NotThere} :
          OwnerOf(m) = t.owner /\ world.home[m] <= IF t.old THEN 2 ELSE 1
  /\ t.pc = "store" =>
       IF t.allowed THEN world.friend[t.peer] = 0 ELSE world.stranger[t.peer] = 0
  /\ t.pc = "handle" => world.friend[t.peer] < TTL
  /\ t.pc = "refused" => world.stranger[t.peer] < TTL

\* A thread goes on, to where it may be.
LEMMA ThreadStep ==
  ASSUME ServiceAssumption, ServiceInv, NEW w \in Workers, NEW t, Sound(t),
         work' = [work EXCEPT ![w] = t], UNCHANGED world,
         svc' \in Memory, svc'.ts = svc.ts, svc'.power = svc.power, CacheInv',
         acting' \in 0..MaxPower, acting' = acting \/ svc.power
  PROVE  ServiceTypes' /\ AgeInv'
<1>1. /\ work \in [Workers -> Connections] /\ work'[w] = t
      /\ \A v \in Workers : work'[v] = IF v = w THEN t ELSE work[v]
  BY DEF ServiceInv, ServiceTypes
<1>2. work' \in [Workers -> Connections]
  BY <1>1 DEF Sound
<1>3. ServiceTypes'
  BY <1>1, <1>2 DEF ServiceInv, ServiceTypes, Sound, At
<1>4. WhoIsInv'
  BY <1>1 DEF ServiceInv, AgeInv, WhoIsInv, Sound, At
<1>5. StoreInv' /\ VerdictInv'
  BY <1>1 DEF ServiceInv, AgeInv, StoreInv, VerdictInv, AnswersItsOwn, RefusesStrangers, Sound, At
<1>6. UpToDate(world') /\ AccountInv'
  BY DEF ServiceInv, AgeInv, AccountInv
<1>7. PowerInv'
  BY DEF ServiceInv, AgeInv, PowerInv, PowerIsAllowed, ServiceTypes, World
<1>8. QED
  BY <1>3, <1>4, <1>5, <1>6, <1>7 DEF AgeInv

\* It keeps its slot, takes one, or gives it back.
LEMMA SlotStep ==
  ASSUME ServiceAssumption, ServiceInv, NEW w \in Workers, NEW t,
         work' = [work EXCEPT ![w] = t],
         \/ ~At(w, "idle") /\ t.pc # "idle" /\ svc'.active = svc.active
         \/ At(w, "idle") /\ t.pc # "idle" /\ svc.active < MaxConnections
            /\ svc'.active = svc.active + 1
         \/ ~At(w, "idle") /\ t.pc = "idle" /\ svc'.active = svc.active - 1
  PROVE  IsFiniteSet(Busy)' /\ SlotsReturned'
<1>1. /\ IsFiniteSet(Busy) /\ svc.active = Cardinality(Busy) /\ svc.active <= MaxConnections
      /\ MaxConnections \in Nat
  BY DEF ServiceAssumption, ServiceInv, CountInv, SlotsReturned, Busy
<1>2. Cardinality(Busy) \in Nat
  BY <1>1, FS_CardinalityType
<1>3. \A v \in Workers : work'[v] = IF v = w THEN t ELSE work[v]
  BY DEF ServiceInv, ServiceTypes
<1>4. CASE ~At(w, "idle") /\ t.pc # "idle" /\ svc'.active = svc.active
  <2>1. Busy' = Busy
    BY <1>3, <1>4 DEF Busy, At
  <2>2. QED
    BY <1>1, <1>4, <2>1 DEF SlotsReturned, Busy
<1>5. CASE At(w, "idle") /\ t.pc # "idle" /\ svc.active < MaxConnections
           /\ svc'.active = svc.active + 1
  <2>1. Busy' = Busy \cup {w} /\ w \notin Busy
    BY <1>3, <1>5 DEF Busy, At
  <2>2. IsFiniteSet(Busy \cup {w}) /\ Cardinality(Busy \cup {w}) = Cardinality(Busy) + 1
    BY <1>1, <2>1, FS_AddElement
  <2>3. IsFiniteSet(Busy') /\ svc'.active = Cardinality(Busy') /\ svc'.active <= MaxConnections
    BY <1>1, <1>2, <1>5, <2>1, <2>2
  <2>4. QED
    BY <2>3 DEF SlotsReturned, Busy
<1>6. CASE ~At(w, "idle") /\ t.pc = "idle" /\ svc'.active = svc.active - 1
  <2>1. Busy' = Busy \ {w} /\ w \in Busy
    BY <1>3, <1>6 DEF Busy, At
  <2>2. IsFiniteSet(Busy \ {w}) /\ Cardinality(Busy \ {w}) = Cardinality(Busy) - 1
    BY <1>1, <2>1, FS_RemoveElement
  <2>3. IsFiniteSet(Busy') /\ svc'.active = Cardinality(Busy') /\ svc'.active <= MaxConnections
    BY <1>1, <1>2, <1>6, <2>1, <2>2
  <2>4. QED
    BY <2>3 DEF SlotsReturned, Busy
<1>7. QED
  BY <1>4, <1>5, <1>6

\* A thread as Thread makes it, and what is then set of it.
LEMMA ThreadMade ==
  ASSUME NEW pc \in Points, NEW p \in Peers
  PROVE  /\ Thread(pc, p) \in Connections
         /\ Thread(pc, p).pc = pc /\ Thread(pc, p).peer = p /\ Thread(pc, p).old = FALSE
<1>1. OwnerOf(NotThere) \in Owners
  BY Admission DEF Owners
<1>2. QED
  BY <1>1 DEF Thread, Connections

LEMMA ReadSet ==
  ASSUME NEW t \in Connections, NEW r \in BOOLEAN
  PROVE  LET u == [t EXCEPT !.read = r] IN
         u \in Connections /\ u.pc = t.pc /\ u.peer = t.peer /\ u.old = t.old
BY DEF Connections

LEMMA AskSet ==
  ASSUME NEW t \in Connections, NEW o \in Owners
  PROVE  LET u == [t EXCEPT !.pc = "whois", !.owner = o] IN
         /\ u \in Connections /\ u.pc = "whois" /\ u.peer = t.peer /\ u.old = t.old
         /\ u.owner = o
BY DEF Connections, Points

\* A verdict that is true.
LEMMA VerdictSound ==
  ASSUME ServiceAssumption, ServiceInv, NEW w \in Workers, NEW ok \in BOOLEAN,
         ~At(w, "idle"), Verdict(w, ok),
         IF ok THEN world.friend[work[w].peer] < TTL ELSE world.stranger[work[w].peer] < TTL
  PROVE  \E t : Sound(t) /\ t.pc # "idle" /\ work' = [work EXCEPT ![w] = t]
<1> DEFINE next == IF ~ok THEN "refused" ELSE IF work[w].read THEN "handle" ELSE "reading"
           t == [Thread(next, work[w].peer) EXCEPT !.read = work[w].read]
<1>1. work[w] \in Connections /\ work[w].peer \in Peers
  BY DEF ServiceInv, ServiceTypes
<1>2. next \in Points /\ next \notin {"idle", "whois", "store"}
      /\ (next = "handle" => ok) /\ (next = "refused" => ~ok)
  BY DEF Points
<1>3. work[w].read \in BOOLEAN
  BY <1>1 DEF Connections
<1>4. t \in Connections /\ t.pc = next /\ t.peer = work[w].peer /\ t.old = FALSE
  <2> DEFINE made == Thread(next, work[w].peer)
  <2> HIDE DEF next
  <2>1. made \in Connections /\ made.pc = next /\ made.peer = work[w].peer /\ made.old = FALSE
    BY <1>1, <1>2, ThreadMade, ZenonT(60)
  <2> HIDE DEF made
  <2>2. LET u == [made EXCEPT !.read = work[w].read] IN
        u \in Connections /\ u.pc = made.pc /\ u.peer = made.peer /\ u.old = made.old
    BY <1>3, <2>1, ReadSet
  <2>3. QED
    BY <2>1, <2>2 DEF made
<1>5. work' = [work EXCEPT ![w] = t]
  BY DEF Verdict
<1> HIDE DEF t, next
<1>7. Sound(t)
  BY <1>1, <1>2, <1>4 DEF Sound
<1>8. QED
  BY <1>2, <1>4, <1>5, <1>7

\* A thread whose step leaves the memory alone.
LEMMA QuietStep ==
  ASSUME ServiceAssumption, ServiceInv, NEW w \in Workers, NEW t, Sound(t),
         ~At(w, "idle"), t.pc # "idle",
         work' = [work EXCEPT ![w] = t], UNCHANGED <<world, svc, acting>>
  PROVE  ServiceInv'
<1>1. svc' \in Memory /\ acting' \in 0..MaxPower
  BY DEF ServiceInv, ServiceTypes
<1>2. CacheInv'
  BY DEF ServiceInv, AgeInv, CacheInv
<1>3. ServiceTypes' /\ AgeInv'
  BY <1>1, <1>2, ThreadStep
<1>4. IsFiniteSet(Busy)' /\ SlotsReturned'
  BY SlotStep
<1>5. QED
  BY <1>3, <1>4 DEF ServiceInv, CountInv, CacheBounded

\* A thread that ends.
LEMMA LeaveKeeps ==
  ASSUME ServiceAssumption, ServiceInv, NEW w \in Workers, ~At(w, "idle"), Leave(w),
         UNCHANGED world, acting' \in 0..MaxPower, acting' = acting \/ svc.power
  PROVE  ServiceInv'
<1>1. Sound(Idle) /\ Idle.pc = "idle"
  <2>1. OwnerOf(NotThere) \in Owners
    BY Admission DEF Owners
  <2>2. Idle.pc = "idle" /\ Idle.old = FALSE
    BY DEF Idle, Thread
  <2>3. Idle \in Connections
    BY <2>1 DEF Idle, Thread, Connections, Points
  <2>4. QED
    BY <2>2, <2>3 DEF Sound
<1>2. /\ IsFiniteSet(Busy) /\ Cardinality(Busy) \in Nat /\ svc.active = Cardinality(Busy)
      /\ Cardinality(Busy) # 0
  <2>1. IsFiniteSet(Busy) /\ svc.active = Cardinality(Busy)
    BY DEF ServiceInv, CountInv, SlotsReturned, Busy
  <2>2. w \in Busy
    BY DEF Busy
  <2>3. QED
    BY <2>1, <2>2, FS_CardinalityType, FS_EmptySet
<1>3. /\ svc' \in Memory /\ svc'.ts = svc.ts /\ svc'.power = svc.power /\ svc'.auth = svc.auth
      /\ svc'.active = svc.active - 1
  BY <1>2 DEF Leave, ServiceInv, ServiceTypes, Memory
<1>4. work' = [work EXCEPT ![w] = Idle]
  BY DEF Leave
<1>5. CacheInv'
  BY <1>3 DEF ServiceInv, AgeInv, CacheInv
<1>6. ServiceTypes' /\ AgeInv'
  BY <1>1, <1>3, <1>4, <1>5, ThreadStep
<1>7. IsFiniteSet(Busy)' /\ SlotsReturned'
  BY <1>1, <1>3, <1>4, SlotStep
<1>8. QED
  BY <1>3, <1>6, <1>7 DEF ServiceInv, CountInv, CacheBounded

LEMMA AcceptKeeps ==
  ASSUME ServiceAssumption, ServiceInv, NEW w \in Workers, Accept(w)
  PROVE  ServiceInv'
<1>1. PICK p \in Peers : work' = [work EXCEPT ![w] = Thread("ask", p)]
  BY DEF Accept
<1>2. At(w, "idle") /\ svc.active < MaxConnections /\ UNCHANGED <<world, acting>>
  BY DEF Accept
<1>3. Sound(Thread("ask", p)) /\ Thread("ask", p).pc # "idle"
  <2>1. "ask" \in Points
    BY DEF Points
  <2>2. QED
    BY <2>1, ThreadMade DEF Sound
<1>4. /\ svc' \in Memory /\ svc'.ts = svc.ts /\ svc'.power = svc.power /\ svc'.auth = svc.auth
      /\ svc'.active = svc.active + 1
  BY DEF Accept, ServiceInv, ServiceTypes, Memory
<1>5. CacheInv'
  BY <1>2, <1>4 DEF ServiceInv, AgeInv, CacheInv
<1>6. acting' \in 0..MaxPower
  BY <1>2 DEF ServiceInv, ServiceTypes
<1>7. ServiceTypes' /\ AgeInv'
  BY <1>1, <1>2, <1>3, <1>4, <1>5, <1>6, ThreadStep
<1>8. IsFiniteSet(Busy)' /\ SlotsReturned'
  BY <1>1, <1>2, <1>3, <1>4, SlotStep
<1>9. QED
  BY <1>4, <1>7, <1>8 DEF ServiceInv, CountInv, CacheBounded

\* A verdict from the memory, or a whois with the account as it is known.
LEMMA AskCacheKeeps ==
  ASSUME ServiceAssumption, ServiceInv, NEW w \in Workers, AskCache(w)
  PROVE  ServiceInv'
<1> DEFINE p == work[w].peer
<1>1. ~At(w, "idle") /\ UNCHANGED <<world, svc, acting>> /\ At(w, "ask")
  BY DEF AskCache, At
<1>2. p \in Peers /\ work[w] \in Connections
  BY <1>1 DEF ServiceInv, ServiceTypes
<1>3. world \in World /\ TTL \in Nat \ {0}
  BY DEF ServiceAssumption, ServiceInv, ServiceTypes
<1>4. PICK m \in Homes : /\ OwnerOf(m) = svc.ts
                         /\ world.home[m] <= IF world.refreshed THEN 0 ELSE 1
  BY DEF ServiceInv, AgeInv, AccountInv
<1>5. CASE Known(p)
  <2>1. Verdict(w, svc.auth[p].allowed)
    BY <1>5 DEF AskCache
  <2>2. p \in DOMAIN svc.auth /\ svc.auth[p].age < TTL
    BY <1>5 DEF Known
  <2>3. svc.auth[p].allowed \in BOOLEAN /\ svc.auth[p].age \in Nat
    BY <2>2 DEF ServiceAssumption, ServiceInv, ServiceTypes, Memory, Caches, Answers
  <2>4. IF svc.auth[p].allowed THEN world.friend[p] <= svc.auth[p].age
                               ELSE world.stranger[p] <= svc.auth[p].age
    BY <2>2 DEF ServiceInv, AgeInv, CacheInv
  <2>5. world.friend[p] \in Nat /\ world.stranger[p] \in Nat
    BY <1>2, <1>3 DEF World
  <2>6. IF svc.auth[p].allowed THEN world.friend[p] < TTL ELSE world.stranger[p] < TTL
    BY <1>3, <2>2, <2>3, <2>4, <2>5
  <2>7. QED
    BY <1>1, <2>1, <2>3, <2>6, VerdictSound, QuietStep
<1>6. CASE ~Known(p) /\ svc.ts = OwnerOf(NotThere)
  <2>1. Verdict(w, FALSE)
    BY <1>6 DEF AskCache
  <2>2. m = NotThere
    <3>1. m.user = 0
      <4>1. \A h : OwnerOf(h).user = h.user
        BY DEF OwnerOf
      <4>2. QED
        BY <1>4, <1>6, <4>1 DEF NotThere
    <3>2. Person(1, "me").user = 1 /\ Tagged("me").user = 9
      BY DEF Person, Tagged, TaggedUser
    <3>3. QED
      BY <3>1, <3>2 DEF Homes
  <2>3. world.home[NotThere] <= Stale /\ ~Belongs(NotThere, world.peer[p])
    BY <1>2, <1>3, <1>4, <2>2, Admission DEF World, Stale
  <2>4. world.stranger[p] = 0
    BY <1>2, <2>3, Admission DEF ServiceInv, AgeInv, UpToDate
  <2>5. world.stranger[p] < TTL
    BY <1>3, <2>4
  <2>6. QED
    BY <1>1, <2>1, <2>5, VerdictSound, QuietStep
<1>7. CASE ~Known(p) /\ svc.ts # OwnerOf(NotThere)
  <2> DEFINE t == [work[w] EXCEPT !.pc = "whois", !.owner = svc.ts]
  <2>1. work' = [work EXCEPT ![w] = t]
    BY <1>7 DEF AskCache, ServiceInv, ServiceTypes
  <2>2. svc.ts \in Owners
    BY DEF ServiceInv, ServiceTypes, Memory
  <2>3. /\ t \in Connections /\ t.pc = "whois" /\ t.peer = p /\ t.old = work[w].old
        /\ t.owner = svc.ts
    BY <1>2, <2>2, AskSet
  <2>4. work[w].old = FALSE
    BY <1>1, <1>2 DEF ServiceInv, AgeInv, WhoIsInv, At, Connections
  <2>6. m \in Homes \ {NotThere} /\ world.home[m] <= 1
    BY <1>3, <1>4, <1>7 DEF World
  <2> HIDE DEF t
  <2>7. Sound(t)
    BY <1>2, <1>4, <2>3, <2>4, <2>6 DEF Sound
  <2>8. QED
    BY <1>1, <2>1, <2>3, <2>7, QuietStep
<1>8. QED
  BY <1>5, <1>6, <1>7

\* The answer is about the account the whois began with, which is not old.
LEMMA WhoIsKeeps ==
  ASSUME ServiceAssumption, ServiceInv, NEW w \in Workers, WhoIs(w)
  PROVE  ServiceInv'
<1> DEFINE p == work[w].peer
           n == world.peer[p]
<1>1. ~At(w, "idle") /\ UNCHANGED <<world, svc, acting>> /\ At(w, "whois")
  BY DEF WhoIs, At
<1>2. p \in Peers /\ work[w] \in Connections
  BY <1>1 DEF ServiceInv, ServiceTypes
<1>3. world \in World /\ TTL \in Nat \ {0} /\ n \in Accounts
  BY <1>2 DEF ServiceAssumption, ServiceInv, ServiceTypes, World
<1>4. PICK m \in Homes \ {NotThere} : OwnerOf(m) = work[w].owner /\ world.home[m] <= Stale
  BY <1>1, <1>2, <1>3 DEF ServiceInv, AgeInv, WhoIsInv, World, Connections, Stale
<1>5. IF Belongs(m, n) THEN world.friend[p] = 0 ELSE world.stranger[p] = 0
  BY <1>2, <1>4 DEF ServiceInv, AgeInv, UpToDate
<1>6. CASE n = NotThere
  <2>1. Verdict(w, FALSE)
    BY <1>6 DEF WhoIs
  <2>3. ~Belongs(m, n)
    BY <1>4, <1>6, Admission
  <2>4. world.stranger[p] < TTL
    BY <1>3, <1>5, <2>3
  <2>2. QED
    BY <1>1, <2>1, <2>4, VerdictSound, QuietStep
<1>7. CASE n # NotThere
  <2>1. PICK ok \in BOOLEAN : ok = Admits(work[w].owner, n)
    BY DEF Admits
  <2> DEFINE made == Thread("store", p)
             t == [made EXCEPT !.read = work[w].read, !.allowed = ok]
  <2>2. work' = [work EXCEPT ![w] = t]
    BY <1>7, <2>1 DEF WhoIs
  <2>3. ok <=> Belongs(m, n)
    BY <1>3, <1>4, <1>7, <2>1, Admission DEF Accounts
  <2>4. work[w].read \in BOOLEAN /\ "store" \in Points
    BY <1>2 DEF Connections, Points
  <2>5. made \in Connections /\ made.pc = "store" /\ made.peer = p /\ made.old = FALSE
    BY <1>2, <2>4, ThreadMade, ZenonT(60)
  <2> HIDE DEF made
  <2>6. /\ t \in Connections /\ t.pc = made.pc /\ t.peer = made.peer /\ t.old = made.old
        /\ t.allowed = ok
    <3>1. PICK r \in BOOLEAN : r = work[w].read
      BY <2>4
    <3>2. t = [made EXCEPT !.read = r, !.allowed = ok]
      BY <3>1
    <3> HIDE DEF t
    <3>3. \A u : u = [made EXCEPT !.read = r, !.allowed = ok] =>
            /\ u \in Connections /\ u.pc = made.pc /\ u.peer = made.peer /\ u.old = made.old
            /\ u.allowed = ok
      BY <2>5 DEF Connections
    <3>4. QED
      BY <3>2, <3>3
  <2> HIDE DEF t
  <2>7. Sound(t)
    BY <1>2, <1>5, <2>3, <2>5, <2>6 DEF Sound
  <2>8. QED
    BY <1>1, <2>2, <2>5, <2>6, <2>7, QuietStep
<1>8. QED
  BY <1>6, <1>7

\* An answer is remembered, for as long as it is true, and acted upon.
LEMMA RememberKeeps ==
  ASSUME ServiceAssumption, ServiceInv, NEW w \in Workers, Remember(w)
  PROVE  ServiceInv'
<1> DEFINE p == work[w].peer
           ok == work[w].allowed
           room == MakeRoom(svc.auth)
           fresh == [age |-> 0, allowed |-> ok]
           auth == [q \in DOMAIN room \cup {p} |-> IF q = p THEN fresh ELSE room[q]]
<1>1. /\ ~At(w, "idle") /\ At(w, "store") /\ UNCHANGED <<world, acting>>
      /\ Verdict(w, ok) /\ svc' = [svc EXCEPT !.auth = auth]
  BY DEF Remember, At
<1>2. p \in Peers /\ work[w] \in Connections /\ ok \in BOOLEAN
  BY <1>1 DEF ServiceInv, ServiceTypes, Connections
<1>3. /\ world \in World /\ TTL \in Nat \ {0} /\ RememberFor \in Nat /\ CacheLimit \in Nat \ {0}
      /\ svc \in Memory /\ svc.auth \in Caches
  BY DEF ServiceAssumption, ServiceInv, ServiceTypes, Memory
<1>4. IF ok THEN world.friend[p] = 0 ELSE world.stranger[p] = 0
  BY <1>1 DEF ServiceInv, AgeInv, StoreInv
<1>5. /\ DOMAIN room \subseteq DOMAIN svc.auth /\ \A q \in DOMAIN room : room[q] = svc.auth[q]
      /\ IsFiniteSet(DOMAIN room) /\ Cardinality(DOMAIN room) < CacheLimit
  BY <1>3, RoomIsMade DEF ServiceInv, CountInv, CacheBounded
<1>6. DOMAIN svc.auth \subseteq Peers /\ \A q \in DOMAIN svc.auth : svc.auth[q] \in Answers
  BY <1>3 DEF Caches
<1> HIDE DEF room
<1>7. auth \in Caches
  <2>1. DOMAIN room \cup {p} \in SUBSET Peers
    BY <1>2, <1>5, <1>6
  <2>2. fresh \in Answers
    BY <1>2, <1>3 DEF Answers
  <2>3. auth \in [DOMAIN room \cup {p} -> Answers]
    <3> HIDE DEF fresh
    <3>1. QED
      BY <1>5, <1>6, <2>2
  <2>4. QED
    BY <2>1, <2>3 DEF Caches
<1>8. \A q \in DOMAIN auth : IF auth[q].allowed THEN world.friend[q] <= auth[q].age
                                                ELSE world.stranger[q] <= auth[q].age
  BY <1>2, <1>3, <1>4, <1>5 DEF ServiceInv, AgeInv, CacheInv
<1>9. IsFiniteSet(DOMAIN auth) /\ Cardinality(DOMAIN auth) <= CacheLimit
  <2>1. Cardinality(DOMAIN room) \in Nat
    BY <1>5, FS_CardinalityType
  <2>2. /\ IsFiniteSet(DOMAIN room \cup {p})
        /\ \/ Cardinality(DOMAIN room \cup {p}) = Cardinality(DOMAIN room)
           \/ Cardinality(DOMAIN room \cup {p}) = Cardinality(DOMAIN room) + 1
    BY <1>5, FS_AddElement
  <2>3. QED
    BY <1>3, <1>5, <2>1, <2>2
<1> HIDE DEF auth
<1>10. /\ svc' \in Memory /\ svc'.ts = svc.ts /\ svc'.power = svc.power
       /\ svc'.auth = auth /\ svc'.active = svc.active
  BY <1>1, <1>3, <1>7 DEF Memory
<1>11. CacheInv'
  BY <1>1, <1>8, <1>10 DEF CacheInv
<1>12. IF ok THEN world.friend[p] < TTL ELSE world.stranger[p] < TTL
  BY <1>3, <1>4
<1>13. PICK t : Sound(t) /\ t.pc # "idle" /\ work' = [work EXCEPT ![w] = t]
  BY <1>1, <1>2, <1>12, VerdictSound
<1>14. acting' \in 0..MaxPower
  BY <1>1 DEF ServiceInv, ServiceTypes
<1>15. ServiceTypes' /\ AgeInv'
  BY <1>1, <1>10, <1>11, <1>13, <1>14, ThreadStep
<1>16. IsFiniteSet(Busy)' /\ SlotsReturned'
  BY <1>1, <1>10, <1>13, SlotStep
<1>17. QED
  BY <1>9, <1>10, <1>15, <1>16 DEF ServiceInv, CountInv, CacheBounded

\* A request that has arrived is asked about again.
LEMMA ReadKeeps ==
  ASSUME ServiceAssumption, ServiceInv, NEW w \in Workers, Read(w)
  PROVE  ServiceInv'
<1>1. ~At(w, "idle") /\ UNCHANGED <<world, acting>>
  BY DEF Read, At
<1>2. CASE ReadRequest(w, "ask")
  <2> DEFINE p == work[w].peer
             made == Thread("ask", p)
             t == [made EXCEPT !.read = TRUE]
  <2>1. p \in Peers /\ "ask" \in Points
    BY <1>1 DEF ServiceInv, ServiceTypes, Points
  <2>2. work' = [work EXCEPT ![w] = t] /\ UNCHANGED svc
    BY <1>2 DEF ReadRequest, ServiceInv, ServiceTypes
  <2>3. made \in Connections /\ made.pc = "ask" /\ made.peer = p /\ made.old = FALSE
    BY <2>1, ThreadMade, SMTT(40), ZenonT(60)
  <2> HIDE DEF made
  <2>4. t \in Connections /\ t.pc = "ask" /\ t.peer = p /\ t.old = FALSE
    BY <2>3 DEF Connections
  <2> HIDE DEF t
  <2>5. Sound(t)
    BY <2>1, <2>4 DEF Sound
  <2>6. QED
    BY <1>1, <2>2, <2>4, <2>5, QuietStep
<1>3. CASE Leave(w)
  <2>1. acting' \in 0..MaxPower /\ acting' = acting
    BY <1>1 DEF ServiceInv, ServiceTypes
  <2>2. QED
    BY <1>1, <1>3, <2>1, LeaveKeeps
<1>4. QED
  BY <1>2, <1>3 DEF Read

LEMMA RefuseKeeps ==
  ASSUME ServiceAssumption, ServiceInv, NEW w \in Workers, Refuse(w)
  PROVE  ServiceInv'
<1>1. ~At(w, "idle") /\ Leave(w) /\ UNCHANGED <<world, acting>>
  BY DEF Refuse, At
<1>2. acting' \in 0..MaxPower /\ acting' = acting
  BY <1>1 DEF ServiceInv, ServiceTypes
<1>3. QED
  BY <1>1, <1>2, LeaveKeeps

\* A power action begins only where the settings allow it.
LEMMA HandleKeeps ==
  ASSUME ServiceAssumption, ServiceInv, NEW w \in Workers, Handle(w)
  PROVE  ServiceInv'
<1>1. ~At(w, "idle") /\ Leave(w) /\ UNCHANGED world
  BY DEF Handle, At
<1>2. acting' \in 0..MaxPower /\ (acting' = acting \/ svc.power)
  <2>1. acting \in 0..MaxPower /\ MaxPower \in Nat
    BY DEF ServiceAssumption, ServiceInv, ServiceTypes
  <2>2. QED
    BY <2>1 DEF Handle, Power
<1>3. QED
  BY <1>1, <1>2, LeaveKeeps

-----------------------------------------------------------------------------

LEMMA ServiceInit ==
  ASSUME ServiceAssumption, Init
  PROVE  ServiceInv
<1>1. PICK m \in Homes \ {NotThere} :
        world = Noted([moves |-> 0, pc |-> m, file |-> TRUE,
                       peer |-> [p \in Peers |-> IF p \in Guests THEN Person(2, "other")
                                                       ELSE Person(1, "me")],
                       refreshed |-> FALSE, allowed |-> 0,
                       home |-> [h \in Homes |-> IF h = NotThere THEN 0 ELSE Stale + 1],
                       friend |-> [p \in Peers |-> TTL], stranger |-> [p \in Peers |-> TTL]])
  BY DEF Init
<1> DEFINE peer == [p \in Peers |-> IF p \in Guests THEN Person(2, "other") ELSE Person(1, "me")]
           home == [h \in Homes |-> IF h = NotThere THEN 0 ELSE Stale + 1]
           never == [p \in Peers |-> TTL]
           w0 == [moves |-> 0, pc |-> m, file |-> TRUE, peer |-> peer, refreshed |-> FALSE,
                  allowed |-> 0, home |-> home, friend |-> never, stranger |-> never]
<1>2. TTL \in Nat \ {0} /\ MaxMoves \in Nat /\ MaxPower \in Nat /\ CacheLimit \in Nat
      /\ MaxConnections \in Nat /\ RememberFor \in Nat
  BY DEF ServiceAssumption
<1>3. w0 \in World
  <2>1. peer \in [Peers -> Accounts]
    BY DEF Accounts, Machines
  <2>2. home \in [Homes -> 0..Stale + 1]
    BY DEF Stale
  <2>3. never \in [Peers -> 0..TTL]
    BY <1>2
  <2> HIDE DEF peer, home, never
  <2>4. QED
    BY <2>1, <2>2, <2>3 DEF World
<1>4. w0.home[NotThere] = 0 /\ w0.moves = 0 /\ w0.refreshed = FALSE /\ w0.allowed = 0
  BY Admission
<1>5. world = Noted(w0)
  BY <1>1
<1> HIDE DEF w0
<1>6. /\ world \in World /\ UpToDate(world) /\ world.moves = 0 /\ world.refreshed = FALSE
      /\ world.home[NotThere] <= 0 /\ world.allowed <= 0
  BY <1>2, <1>3, <1>4, <1>5, NotedKeeps, Admission
<1>7. /\ svc = [ts |-> OwnerOf(NotThere), power |-> TRUE, auth |-> [p \in {} |-> 0], active |-> 0]
      /\ work = [w \in Workers |-> Idle] /\ acting = 0
  BY DEF Init
<1>8. OwnerOf(NotThere) \in Owners
  BY Admission DEF Owners
<1>9. svc \in Memory /\ DOMAIN svc.auth = {}
  <2>1. [p \in {} |-> 0] \in Caches /\ DOMAIN [p \in {} |-> 0] = {}
    <3>1. [p \in {} |-> 0] \in [{} -> Answers] /\ {} \in SUBSET Peers
      OBVIOUS
    <3>2. QED
      BY <3>1 DEF Caches
  <2> DEFINE none == [p \in {} |-> 0]
  <2> HIDE DEF none
  <2>2. none \in Caches /\ DOMAIN none = {} /\ svc.auth = none
        /\ svc = [ts |-> OwnerOf(NotThere), power |-> TRUE, auth |-> none, active |-> 0]
    BY <1>7, <2>1 DEF none
  <2>3. QED
    BY <1>8, <2>2 DEF Memory
<1>10. work \in [Workers -> Connections] /\ \A w \in Workers : At(w, "idle") /\ ~work[w].old
  <2>1. Idle \in Connections /\ Idle.pc = "idle" /\ Idle.old = FALSE
    BY <1>8 DEF Idle, Thread, Connections, Points
  <2>2. QED
    BY <1>7, <2>1 DEF At
<1>11. ServiceTypes
  BY <1>2, <1>6, <1>7, <1>9, <1>10 DEF ServiceTypes
<1>12. AccountInv
  BY <1>6, <1>7, Admission DEF AccountInv, World
<1>13. WhoIsInv /\ StoreInv /\ VerdictInv
  BY <1>10 DEF WhoIsInv, StoreInv, VerdictInv, AnswersItsOwn, RefusesStrangers, At
<1>14. CacheInv
  BY <1>9 DEF CacheInv
<1>15. PowerInv
  BY <1>6, <1>7 DEF PowerInv, PowerIsAllowed, World
<1>16. CountInv
  <2>1. Busy = {}
    BY <1>10 DEF Busy
  <2>2. svc.active = 0
    BY <1>7
  <2>3. QED
    BY <1>2, <1>9, <2>1, <2>2, FS_EmptySet DEF CountInv, SlotsReturned, CacheBounded, Busy
<1>17. QED
  BY <1>6, <1>11, <1>12, <1>13, <1>14, <1>15, <1>16 DEF ServiceInv, AgeInv

LEMMA ServiceNext ==
  ASSUME ServiceAssumption, ServiceInv, [Next]_vars
  PROVE  ServiceInv'
<1>1. CASE Moves
  BY <1>1, MovesKeeps
<1>2. CASE Tick
  BY <1>2, TickKeeps
<1>3. CASE Refresh
  BY <1>3, RefreshKeeps
<1>4. CASE PowerActs
  BY <1>4, PowerActsKeeps
<1>5. ASSUME NEW w \in Workers, Connection(w)
      PROVE  ServiceInv'
  BY <1>5, AcceptKeeps, AskCacheKeeps, WhoIsKeeps, RememberKeeps, ReadKeeps, RefuseKeeps,
     HandleKeeps DEF Connection
<1>6. CASE UNCHANGED vars
  BY <1>6 DEF vars, ServiceInv, ServiceTypes, AgeInv, CountInv, UpToDate, AccountInv, WhoIsInv,
              StoreInv, CacheInv, VerdictInv, AnswersItsOwn, RefusesStrangers, PowerInv,
              PowerIsAllowed, Busy, SlotsReturned, CacheBounded, At
<1>7. QED
  BY <1>1, <1>2, <1>3, <1>4, <1>5, <1>6 DEF Next

\* The invariant implies what the service promises.
LEMMA ServiceMeans ==
  ASSUME ServiceAssumption, ServiceInv
  PROVE  /\ TypeOK /\ AnswersItsOwn /\ RefusesStrangers
         /\ CacheBounded /\ SlotsReturned /\ PowerIsAllowed
<1>1. AnswersItsOwn /\ RefusesStrangers /\ CacheBounded /\ SlotsReturned /\ PowerIsAllowed
  BY DEF ServiceInv, AgeInv, VerdictInv, PowerInv, CountInv
<1>2. /\ world \in World /\ world.moves \in 0..MaxMoves /\ acting \in 0..MaxPower
      /\ svc.power \in BOOLEAN
  BY DEF ServiceAssumption, ServiceInv, ServiceTypes, World, Memory
<1>3. DOMAIN svc.auth \subseteq Peers /\ \A p \in DOMAIN svc.auth : svc.auth[p] \in Answers
  BY DEF ServiceInv, ServiceTypes, Memory, Caches
<1>4. \A w \in Workers : work[w].pc \in Points
  BY DEF ServiceInv, ServiceTypes, Connections
<1>5. TypeOK
  BY <1>2, <1>3, <1>4 DEF TypeOK, World, Answers, Points
<1>6. QED
  BY <1>1, <1>5

-----------------------------------------------------------------------------

LEMMA ServiceHolds ==
  ASSUME ServiceAssumption
  PROVE  Spec => []ServiceInv
<1>1. Init => ServiceInv
  BY ServiceInit
<1>2. ServiceInv /\ [Next]_vars => ServiceInv'
  BY ServiceNext
<1>3. QED
  BY <1>1, <1>2, PTL DEF Spec

\* A request is handled only for a machine that belonged, less than the
\* lifetime of a remembered answer ago, to an account this PC had then or had
\* had two ticks before; nobody is turned away who belonged to it all along.
\* However many connections are open, however long a request takes to arrive,
\* and whoever signs in or out where.
THEOREM VerdictsAreFresh ==
  ASSUME ServiceAssumption
  PROVE  Spec => [](AnswersItsOwn /\ RefusesStrangers)
<1>1. Spec => []ServiceInv
  BY ServiceHolds
<1>2. ServiceInv => AnswersItsOwn /\ RefusesStrangers
  BY ServiceMeans
<1>3. QED
  BY <1>1, <1>2, PTL

\* A power action is done only while the owner allows them, or did a tick ago.
THEOREM PowerWasAllowed ==
  ASSUME ServiceAssumption
  PROVE  Spec => []PowerIsAllowed
<1>1. Spec => []ServiceInv
  BY ServiceHolds
<1>2. ServiceInv => PowerIsAllowed
  BY ServiceMeans
<1>3. QED
  BY <1>1, <1>2, PTL

\* The slots that are taken are those of threads at work, never more than there
\* are, and the remembered answers stay as few as their limit: nothing leaks,
\* however a connection ends.
THEOREM NothingLeaks ==
  ASSUME ServiceAssumption
  PROVE  Spec => [](TypeOK /\ SlotsReturned /\ CacheBounded)
<1>1. Spec => []ServiceInv
  BY ServiceHolds
<1>2. ServiceInv => TypeOK /\ SlotsReturned /\ CacheBounded
  BY ServiceMeans
<1>3. QED
  BY <1>1, <1>2, PTL

------------------------------------------------------------------------------
(* The mutexes: an order of theirs, and programs that keep to it.          *)

\* The order in which the mutexes may be taken, which no single place fixes.
Rank == [l \in Mutexes!Locks |->
           CASE l = "tailscale" -> 1 [] l = "wakeSeen" -> 3 [] l = "nat" -> 4
             [] l = "log" -> 5 [] OTHER -> 2]
Above(r) == {l \in Mutexes!Locks : Rank[l] > r}

\* What a program calls.
Called == {"tailscale status", "engine", "engine start", "machine name", "wake probe",
          "display probe", "whois", "netcheck"}

\* A step of a program that takes a mutex later in the order than those that
\* are held, one that lets go of what is held, and a call, which is made while
\* nothing is held and never within another lock (r > 0).
Takes(op, before, after) ==
  \E l \in Mutexes!Locks : /\ op = Mutexes!Take(l) /\ after = before \cup {l}
                           /\ \A k \in before : Rank[k] < Rank[l]
Drops(op, before, after) ==
  \E l \in before : op = Mutexes!Drop(l) /\ after = before \ {l}
Waits(op, r, before, after) ==
  r = 0 /\ (\E what \in Called : op = Mutexes!Calls(what)) /\ before = {} /\ after = {}
Goes(op, r, before, after) ==
  Takes(op, before, after) \/ Drops(op, before, after) \/ Waits(op, r, before, after)

\* h says what is held before each step of a program, and after the last.
Holds(p, r, h) ==
  /\ h[1] = {} /\ h[Len(p) + 1] = {}
  /\ \A i \in 1..Len(p) + 1 : h[i] \subseteq Above(r)
  /\ \A i \in 1..Len(p) : Goes(p[i], r, h[i], h[i + 1])

Ops == ({"take", "drop"} \X Mutexes!Locks) \cup ({"call"} \X Called)
Ordered(p, r) == p \in Seq(Ops) /\ Len(p) # 0 /\ \E h : Holds(p, r, h)

\* One operation, and two.
LEMMA OpTypes ==
  /\ \A l \in Mutexes!Locks : Mutexes!Take(l) \in Ops /\ Mutexes!Drop(l) \in Ops
  /\ \A what \in Called : Mutexes!Calls(what) \in Ops
BY DEF Ops, Mutexes!Take, Mutexes!Drop, Mutexes!Calls

LEMMA Tuples ==
  ASSUME NEW S, NEW a \in S, NEW b \in S
  PROVE  /\ <<a>> \in Seq(S) /\ Len(<<a>>) = 1 /\ <<a>>[1] = a
         /\ <<a, b>> \in Seq(S) /\ Len(<<a, b>>) = 2 /\ <<a, b>>[1] = a /\ <<a, b>>[2] = b
OBVIOUS

LEMMA RankType == Rank \in [Mutexes!Locks -> 0..5]
BY DEF Rank

\* Programs that follow each other,
LEMMA Joined ==
  ASSUME NEW r \in Nat, NEW p, NEW q, Ordered(p, r), Ordered(q, r)
  PROVE  Ordered(p \o q, r)
<1>1. p \in Seq(Ops) /\ q \in Seq(Ops) /\ Len(p) \in Nat \ {0} /\ Len(q) \in Nat \ {0}
  BY LenProperties DEF Ordered
<1>2. PICK g : Holds(p, r, g)
  BY DEF Ordered
<1>3. PICK k : Holds(q, r, k)
  BY DEF Ordered
<1> DEFINE s == p \o q
           h == [i \in 1..Len(p) + Len(q) + 1 |-> IF i <= Len(p) THEN g[i] ELSE k[i - Len(p)]]
<1>4. /\ s \in Seq(Ops) /\ Len(s) = Len(p) + Len(q)
      /\ \A i \in 1..Len(p) + Len(q) : s[i] = IF i <= Len(p) THEN p[i] ELSE q[i - Len(p)]
  BY <1>1, ConcatProperties
<1> HIDE DEF s
<1>5. h[1] = {} /\ h[Len(s) + 1] = {}
  BY <1>1, <1>2, <1>3, <1>4 DEF Holds
<1>6. ASSUME NEW i \in 1..Len(s) + 1
      PROVE  h[i] \subseteq Above(r)
  <2>1. CASE i <= Len(p)
    <3>1. h[i] = g[i] /\ i \in 1..Len(p) + 1
      BY <1>1, <1>4, <2>1
    <3> HIDE DEF h
    <3>2. QED
      BY <1>2, <3>1 DEF Holds
  <2>2. CASE ~(i <= Len(p))
    <3>1. h[i] = k[i - Len(p)] /\ i - Len(p) \in 1..Len(q) + 1
      BY <1>1, <1>4, <2>2
    <3> HIDE DEF h
    <3>2. QED
      BY <1>3, <3>1 DEF Holds
  <2>3. QED
    BY <2>1, <2>2
<1>7. ASSUME NEW i \in 1..Len(s)
      PROVE  Goes(s[i], r, h[i], h[i + 1])
  <2>1. CASE i <= Len(p)
    <3>1. s[i] = p[i] /\ h[i] = g[i] /\ i \in 1..Len(p)
      BY <1>1, <1>4, <2>1
    <3>2. h[i + 1] = g[i + 1]
      <4>1. CASE i < Len(p)
        BY <1>1, <1>4, <4>1
      <4>2. CASE i = Len(p)
        <5>1. h[i + 1] = k[1]
          BY <1>1, <1>4, <4>2
        <5>2. k[1] = {} /\ g[Len(p) + 1] = {}
          BY <1>2, <1>3 DEF Holds
        <5>3. QED
          BY <4>2, <5>1, <5>2
      <4>3. QED
        BY <1>1, <2>1, <4>1, <4>2
    <3> HIDE DEF h
    <3>3. QED
      BY <1>2, <3>1, <3>2 DEF Holds
  <2>2. CASE ~(i <= Len(p))
    <3>1. /\ s[i] = q[i - Len(p)] /\ h[i] = k[i - Len(p)] /\ h[i + 1] = k[(i - Len(p)) + 1]
          /\ i - Len(p) \in 1..Len(q)
      BY <1>1, <1>4, <2>2
    <3> HIDE DEF h
    <3>2. QED
      BY <1>3, <3>1 DEF Holds
  <2>3. QED
    BY <2>1, <2>2
<1> HIDE DEF h
<1>8. Holds(s, r, h)
  BY <1>5, <1>6, <1>7 DEF Holds
<1>9. Len(s) # 0
  BY <1>1, <1>4
<1>10. QED
  BY <1>4, <1>8, <1>9 DEF Ordered, s

\* one that runs inside a lock,
LEMMA Wrapped ==
  ASSUME NEW r \in Nat, NEW l \in Above(r), NEW p, Ordered(p, Rank[l])
  PROVE  Ordered(Mutexes!Under(l, p), r)
<1>1. /\ p \in Seq(Ops) /\ Len(p) \in Nat \ {0} /\ Rank[l] \in Nat /\ Rank[l] > r
      /\ l \in Mutexes!Locks
  BY LenProperties, RankType DEF Ordered, Above
<1>2. PICK g : Holds(p, Rank[l], g)
  BY DEF Ordered
<1> DEFINE s == Mutexes!Under(l, p)
           h == [i \in 1..Len(p) + 3 |-> IF i = 1 \/ i = Len(p) + 3 THEN {} ELSE g[i - 1] \cup {l}]
<1>3. /\ s \in Seq(Ops) /\ Len(s) = Len(p) + 2 /\ s[1] = Mutexes!Take(l)
      /\ s[Len(p) + 2] = Mutexes!Drop(l)
      /\ \A i \in 2..Len(p) + 1 : s[i] = p[i - 1]
  <2> DEFINE a == <<Mutexes!Take(l)>>
             b == <<Mutexes!Drop(l)>>
  <2>1. /\ a \in Seq(Ops) /\ Len(a) = 1 /\ a[1] = Mutexes!Take(l)
        /\ b \in Seq(Ops) /\ Len(b) = 1 /\ b[1] = Mutexes!Drop(l)
    BY <1>1, OpTypes, Tuples
  <2>2. s = (a \o p) \o b
    BY DEF Mutexes!Under
  <2> HIDE DEF a, b, s
  <2>3. /\ a \o p \in Seq(Ops) /\ Len(a \o p) = 1 + Len(p)
        /\ \A i \in 1..1 + Len(p) : (a \o p)[i] = IF i <= 1 THEN a[i] ELSE p[i - 1]
    <3>1. \A i \in 1..Len(a) + Len(p) : (a \o p)[i] = IF i <= Len(a) THEN a[i] ELSE p[i - Len(a)]
      BY <1>1, <2>1, ConcatProperties
    <3>2. a \o p \in Seq(Ops) /\ Len(a \o p) = Len(a) + Len(p)
      BY <1>1, <2>1, ConcatProperties
    <3>3. QED
      BY <2>1, <3>1, <3>2
  <2> DEFINE c == a \o p
  <2> HIDE DEF c
  <2>4. /\ s \in Seq(Ops) /\ Len(s) = (1 + Len(p)) + 1
        /\ \A i \in 1..(1 + Len(p)) + 1 :
              s[i] = IF i <= 1 + Len(p) THEN c[i] ELSE b[i - (1 + Len(p))]
    BY <2>1, <2>2, <2>3, ConcatProperties DEF c
  <2>5. s[1] = Mutexes!Take(l) /\ s[Len(p) + 2] = Mutexes!Drop(l)
    BY <1>1, <2>1, <2>3, <2>4 DEF c
  <2>6. ASSUME NEW i \in 2..Len(p) + 1 PROVE s[i] = p[i - 1]
    BY <1>1, <2>3, <2>4 DEF c
  <2>7. QED
    BY <1>1, <2>4, <2>5, <2>6
<1> HIDE DEF s
<1>4. /\ h[1] = {} /\ h[Len(s) + 1] = {} /\ h[2] = {l} /\ h[Len(p) + 2] = {l}
      /\ \A i \in 2..Len(p) + 1 : h[i] = g[i - 1] \cup {l} /\ h[i + 1] = g[i] \cup {l}
  <2>1. h[1] = {} /\ h[Len(s) + 1] = {}
    BY <1>1, <1>3
  <2>2. h[2] = g[1] \cup {l} /\ h[Len(p) + 2] = g[Len(p) + 1] \cup {l}
    BY <1>1
  <2>3. \A i \in 2..Len(p) + 1 : h[i] = g[i - 1] \cup {l} /\ h[i + 1] = g[i] \cup {l}
    BY <1>1
  <2>4. QED
    BY <1>2, <2>1, <2>2, <2>3 DEF Holds
<1>5. ASSUME NEW i \in 1..Len(s) + 1
      PROVE  h[i] \subseteq Above(r)
  <2>1. CASE i = 1 \/ i = Len(p) + 3
    BY <2>1
  <2>2. CASE i # 1 /\ i # Len(p) + 3
    <3>1. h[i] = g[i - 1] \cup {l} /\ i - 1 \in 1..Len(p) + 1
      BY <1>1, <1>3, <2>2
    <3>2. g[i - 1] \subseteq Above(Rank[l])
      BY <1>2, <3>1 DEF Holds
    <3>3. \A k \in Mutexes!Locks : Rank[k] \in Nat
      BY RankType
    <3>4. Above(Rank[l]) \subseteq Above(r)
      BY <1>1, <3>3 DEF Above
    <3>5. QED
      BY <3>1, <3>2, <3>4
  <2>3. QED
    BY <2>1, <2>2
<1> HIDE DEF h
<1>6. Goes(s[1], r, h[1], h[2])
  BY <1>1, <1>3, <1>4 DEF Goes, Takes
<1>7. Goes(s[Len(p) + 2], r, h[Len(p) + 2], h[(Len(p) + 2) + 1])
  <2>1. h[(Len(p) + 2) + 1] = {}
    BY <1>1, <1>3, <1>4
  <2>2. Drops(Mutexes!Drop(l), {l}, {})
    BY DEF Drops
  <2>3. QED
    BY <1>3, <1>4, <2>1, <2>2 DEF Goes
<1>8. ASSUME NEW i \in 2..Len(p) + 1
      PROVE  Goes(s[i], r, h[i], h[i + 1])
  <2>1. /\ s[i] = p[i - 1] /\ h[i] = g[i - 1] \cup {l} /\ h[i + 1] = g[i] \cup {l}
        /\ i - 1 \in 1..Len(p) /\ i = (i - 1) + 1
    <3>1. s[i] = p[i - 1]
      BY <1>3
    <3>2. h[i] = g[i - 1] \cup {l} /\ h[i + 1] = g[i] \cup {l}
      BY <1>4
    <3>3. i - 1 \in 1..Len(p) /\ i = (i - 1) + 1
      BY <1>1
    <3>4. QED
      BY <3>1, <3>2, <3>3
  <2> DEFINE before == g[i - 1]
             after == g[i]
  <2>2. Goes(p[i - 1], Rank[l], before, after) /\ before \subseteq Above(Rank[l])
    <3>1. Goes(p[i - 1], Rank[l], g[i - 1], g[(i - 1) + 1]) /\ g[i - 1] \subseteq Above(Rank[l])
      BY <1>1, <1>2, <2>1 DEF Holds
    <3>2. QED
      BY <2>1, <3>1
  <2>3. Rank[l] # 0 /\ \A k \in before : Rank[k] > Rank[l]
    BY <1>1, <2>2 DEF Above
  <2> HIDE DEF before, after
  <2>4. CASE Takes(p[i - 1], before, after)
    <3>1. after \subseteq Above(Rank[l])
      <4>1. i \in 1..Len(p) + 1
        BY <1>1
      <4>2. QED
        BY <1>2, <4>1 DEF Holds, after
    <3>2. PICK n \in Mutexes!Locks : /\ p[i - 1] = Mutexes!Take(n) /\ after = before \cup {n}
                                     /\ \A k \in before : Rank[k] < Rank[n]
      BY <2>4 DEF Takes
    <3>3. Rank[l] < Rank[n]
      <4>1. Rank[n] > Rank[l]
        BY <3>1, <3>2 DEF Above
      <4>2. Rank[n] \in Nat
        BY RankType
      <4>3. QED
        BY <1>1, <4>1, <4>2
    <3>4. Takes(p[i - 1], before \cup {l}, after \cup {l})
      BY <3>2, <3>3 DEF Takes
    <3>5. QED
      BY <2>1, <3>4 DEF Goes, before, after
  <2>5. CASE Drops(p[i - 1], before, after)
    <3>1. PICK n \in before : p[i - 1] = Mutexes!Drop(n) /\ after = before \ {n}
      BY <2>5 DEF Drops
    <3>2. n # l
      BY <1>1, <2>3, <3>1
    <3>3. Drops(p[i - 1], before \cup {l}, after \cup {l})
      BY <3>1, <3>2 DEF Drops
    <3>4. QED
      BY <2>1, <3>3 DEF Goes, before, after
  <2>6. QED
    BY <2>2, <2>3, <2>4, <2>5 DEF Goes, Waits
<1>9. \A i \in 1..Len(s) : Goes(s[i], r, h[i], h[i + 1])
  <2>1. \A i \in 1..Len(s) : i = 1 \/ i = Len(p) + 2 \/ i \in 2..Len(p) + 1
    BY <1>1, <1>3
  <2>2. 2 = 1 + 1
    OBVIOUS
  <2>3. QED
    BY <1>6, <1>7, <1>8, <2>1, <2>2
<1>10. Holds(s, r, h)
  BY <1>4, <1>5, <1>9 DEF Holds
<1>11. Len(s) # 0
  BY <1>1, <1>3
<1>12. QED
  BY <1>3, <1>10, <1>11 DEF Ordered, s

\* and the shortest ones.
LEMMA Shortest ==
  /\ \A r \in Nat : \A l \in Above(r) : Ordered(Mutexes!Brief(l), r)
  /\ \A what \in Called : Ordered(<<Mutexes!Calls(what)>>, 0)
<1>1. ASSUME NEW r \in Nat, NEW l \in Above(r)
      PROVE  Ordered(Mutexes!Brief(l), r)
  <2> DEFINE p == Mutexes!Brief(l)
             h == [i \in 1..3 |-> IF i = 2 THEN {l} ELSE {}]
  <2>1. /\ p \in Seq(Ops) /\ Len(p) = 2 /\ p[1] = Mutexes!Take(l) /\ p[2] = Mutexes!Drop(l)
        /\ l \in Mutexes!Locks
    <3>1. l \in Mutexes!Locks
      BY DEF Above
    <3>2. QED
      BY <3>1, OpTypes, Tuples DEF Mutexes!Brief
  <2> HIDE DEF p
  <2>2. h[1] = {} /\ h[2] = {l} /\ h[3] = {}
    OBVIOUS
  <2>3. \A i \in 1..3 : h[i] \subseteq Above(r)
    OBVIOUS
  <2> HIDE DEF h
  <2>4. Takes(p[1], h[1], h[2]) /\ Drops(p[2], h[2], h[3])
    BY <2>1, <2>2 DEF Takes, Drops
  <2>5. \A i \in 1..2 : Goes(p[i], r, h[i], h[i + 1])
    <3>1. \A i \in 1..2 : i = 1 \/ i = 2
      OBVIOUS
    <3>2. 1 + 1 = 2 /\ 2 + 1 = 3
      OBVIOUS
    <3>3. QED
      BY <2>4, <3>1, <3>2 DEF Goes
  <2>6. Holds(p, r, h)
    <3>1. Len(p) + 1 = 3
      BY <2>1
    <3>2. QED
      BY <2>1, <2>2, <2>3, <2>5, <3>1 DEF Holds
  <2>7. QED
    BY <2>1, <2>6 DEF Ordered, p
<1>2. ASSUME NEW what \in Called
      PROVE  Ordered(<<Mutexes!Calls(what)>>, 0)
  <2> DEFINE p == <<Mutexes!Calls(what)>>
             h == [i \in 1..2 |-> {}]
  <2>1. p \in Seq(Ops) /\ Len(p) = 1 /\ p[1] = Mutexes!Calls(what)
    BY OpTypes, Tuples
  <2> HIDE DEF p
  <2>2. h[1] = {} /\ h[2] = {} /\ \A i \in 1..2 : h[i] = {}
    OBVIOUS
  <2> HIDE DEF h
  <2>3. Waits(p[1], 0, h[1], h[2])
    BY <2>1, <2>2 DEF Waits
  <2>4. \A i \in 1..1 : Goes(p[i], 0, h[i], h[i + 1])
    BY <2>3 DEF Goes
  <2>5. Len(p) + 1 = 2
    BY <2>1
  <2>6. Holds(p, 0, h)
    BY <2>1, <2>2, <2>4, <2>5 DEF Holds
  <2>7. Ordered(p, 0)
    BY <2>1, <2>6 DEF Ordered
  <2>8. QED
    BY <2>7 DEF p
<1>3. QED
  BY <1>1, <1>2

LEMMA Ranks ==
  /\ Rank["tailscale"] = 1 /\ Rank["name"] = 2 /\ Rank["wakeSeen"] = 3 /\ Rank["nat"] = 4
  /\ Rank["streamer"] = 2 /\ Rank["wake"] = 2 /\ Rank["display"] = 2 /\ Rank["log"] = 5
  /\ Rank["whoisFailed"] = 2 /\ Rank["branded"] = 2
  /\ \A l \in Mutexes!Locks : Rank[l] > 0 /\ l \in Above(0)
  /\ {"name", "wake", "streamer", "branded", "display", "nat", "wakeSeen", "log"}
         \subseteq Above(1)
  /\ {"wakeSeen", "nat", "log"} \subseteq Above(2)
  /\ {"nat", "log"} \subseteq Above(3)
  /\ "log" \in Above(4)
<1>0. Mutexes!Locks = {"cfg", "name", "tailscale", "wake", "wakeSeen", "display", "install",
                       "streamer", "branded", "log", "auth", "whoisFailed", "nat"}
  BY DEF Mutexes!Locks
<1>1. /\ Rank["tailscale"] = 1 /\ Rank["name"] = 2 /\ Rank["wakeSeen"] = 3 /\ Rank["nat"] = 4
      /\ Rank["streamer"] = 2 /\ Rank["wake"] = 2 /\ Rank["display"] = 2 /\ Rank["log"] = 5
      /\ Rank["whoisFailed"] = 2 /\ Rank["branded"] = 2 /\ Rank["cfg"] = 2
      /\ Rank["auth"] = 2 /\ Rank["install"] = 2
  BY <1>0 DEF Rank
<1>2. /\ \A l \in Mutexes!Locks : Rank[l] > 0 /\ l \in Above(0)
      /\ {"name", "wake", "streamer", "branded", "display", "nat", "wakeSeen", "log"}
         \subseteq Above(1)
      /\ {"wakeSeen", "nat", "log"} \subseteq Above(2)
      /\ {"nat", "log"} \subseteq Above(3)
      /\ "log" \in Above(4)
  <2>1. \A r, l : l \in Above(r) <=> l \in Mutexes!Locks /\ Rank[l] > r
    BY DEF Above
  <2>2. \A l \in Mutexes!Locks : Rank[l] > 0
    BY <1>0, <1>1
  <2>3. Rank["name"] > 1 /\ Rank["wake"] > 1 /\ Rank["streamer"] > 1 /\ Rank["display"] > 1
        /\ Rank["branded"] > 1 /\ Rank["nat"] > 3 /\ Rank["log"] > 4 /\ Rank["wakeSeen"] > 2
        /\ Rank["nat"] > 2 /\ Rank["log"] > 3 /\ Rank["log"] > 2
        /\ Rank["nat"] > 1 /\ Rank["log"] > 1 /\ Rank["wakeSeen"] > 1
    BY <1>1
  <2>4. QED
    BY <1>0, <2>1, <2>2, <2>3
<1>3. QED
  BY <1>1, <1>2

\* The programs of the service are made of these.
LEMMA ProgramsOrdered ==
  ASSUME Mutexes!LocksAssumption, NEW t \in Threads
  PROVE  Ordered(Mutexes!Program(t), 0)
<1> DEFINE B(l) == Mutexes!Brief(l)
           C(what) == <<Mutexes!Calls(what)>>
           U(l, p) == Mutexes!Under(l, p)
<1>2. /\ Mutexes!Locks = {"cfg", "name", "tailscale", "wake", "wakeSeen", "display", "install",
                         "streamer", "branded", "log", "auth", "whoisFailed", "nat"}
      /\ Rank["tailscale"] = 1 /\ Rank["name"] = 2 /\ Rank["wakeSeen"] = 3 /\ Rank["nat"] = 4
      /\ Rank["streamer"] = 2 /\ Rank["wake"] = 2 /\ Rank["display"] = 2 /\ Rank["log"] = 5
      /\ Rank["whoisFailed"] = 2 /\ Rank["branded"] = 2
      /\ \A l \in Mutexes!Locks : Rank[l] > 0 /\ l \in Above(0)
      /\ {"name", "wake", "streamer", "branded", "display", "nat", "wakeSeen", "log"}
         \subseteq Above(1)
      /\ {"wakeSeen", "nat", "log"} \subseteq Above(2)
      /\ {"nat", "log"} \subseteq Above(3)
      /\ "log" \in Above(4)
  BY Ranks DEF Mutexes!Locks
<1>3. \A p, q : Ordered(p, 0) /\ Ordered(q, 0) => Ordered(p \o q, 0)
  BY Joined
<1>4. \A p, q : Ordered(p, 1) /\ Ordered(q, 1) => Ordered(p \o q, 1)
  BY Joined
<1>5. /\ \A l \in Mutexes!Locks : Ordered(B(l), 0)
      /\ \A l \in Above(1) : Ordered(B(l), 1)
      /\ \A l \in Above(2) : Ordered(B(l), 2)
      /\ \A l \in Above(3) : Ordered(B(l), 3)
      /\ \A l \in Above(4) : Ordered(B(l), 4)
  BY <1>2, Shortest
<1>6. \A what \in Called : Ordered(C(what), 0)
  BY Shortest
<1>7. \A l \in Mutexes!Locks : \A p : Ordered(p, Rank[l]) => Ordered(U(l, p), 0)
  BY <1>2, Wrapped
<1>8. \A r \in {0, 1, 2, 3, 4} : \A l \in Above(r) : \A p :
         Ordered(p, Rank[l]) => Ordered(U(l, p), r)
  BY Wrapped
<1>9. Mutexes!Log = B("log")
  BY DEF Mutexes!Log
<1> HIDE DEF B, C, U
<1>10. /\ \A l \in {"tailscale", "streamer", "wake", "display", "whoisFailed", "nat", "wakeSeen"} :
             Ordered(U(l, B("log")), 0)
  BY <1>2, <1>5, <1>7
<1>11. CASE Runs[t] = "netcheck"
  <2>1. Mutexes!Program(t) = C("netcheck") \o U("nat", B("log"))
    BY <1>9, <1>11 DEF Mutexes!Program, Mutexes!Netcheck, C, U
  <2>2. QED
    BY <1>3, <1>6, <1>10, <2>1 DEF Called
<1>12. CASE Runs[t] = "packet"
  <2>1. Mutexes!Program(t) = B("wake") \o U("wakeSeen", B("log"))
    BY <1>9, <1>12 DEF Mutexes!Program, Mutexes!WakePacket, B, U
  <2>2. QED
    BY <1>2, <1>3, <1>5, <1>10, <2>1
<1>13. Ordered(Mutexes!Authorized, 0)
  <2>1. Mutexes!Authorized = B("auth") \o B("tailscale") \o C("whois") \o B("log")
                             \o U("whoisFailed", B("log")) \o B("auth")
    BY <1>9 DEF Mutexes!Authorized, B, C, U
  <2>2. /\ Ordered(B("auth"), 0) /\ Ordered(B("tailscale"), 0) /\ Ordered(C("whois"), 0)
        /\ Ordered(B("log"), 0) /\ Ordered(U("whoisFailed", B("log")), 0)
    BY <1>2, <1>5, <1>6, <1>10 DEF Called
  <2>3. QED
    BY <1>3, <2>1, <2>2
<1>14. Ordered(Mutexes!Status, 0)
  <2> DEFINE last == U("name", U("wakeSeen", U("nat", B("log"))))
             reply == B("wake") \o B("streamer") \o B("branded") \o B("display") \o last
  <2>1. Mutexes!Status = B("cfg") \o U("tailscale", reply)
    BY <1>9 DEF Mutexes!Status, B, U
  <2>2. Ordered(U("nat", B("log")), 3)
    BY <1>2, <1>5, <1>8
  <2>3. Ordered(U("wakeSeen", U("nat", B("log"))), 2)
    BY <1>2, <1>8, <2>2
  <2>4. Ordered(last, 1)
    BY <1>2, <1>8, <2>3
  <2>5. /\ Ordered(B("wake"), 1) /\ Ordered(B("streamer"), 1) /\ Ordered(B("branded"), 1)
        /\ Ordered(B("display"), 1)
    BY <1>2, <1>5
  <2> HIDE DEF last
  <2>6. Ordered(reply, 1)
    BY <1>4, <2>4, <2>5
  <2> HIDE DEF reply
  <2>7. Ordered(U("tailscale", reply), 0) /\ Ordered(B("cfg"), 0)
    BY <1>2, <1>5, <1>7, <2>6
  <2>8. QED
    BY <1>3, <2>1, <2>7
<1>15. CASE Runs[t] = "asks"
  <2>1. Mutexes!Program(t) = Mutexes!Authorized \o Mutexes!Status
    BY <1>15 DEF Mutexes!Program
  <2>2. QED
    BY <1>3, <1>13, <1>14, <2>1
<1>16. CASE Runs[t] = "acts"
  <2>1. Mutexes!Program(t) = Mutexes!Authorized \o Mutexes!Acts
    BY <1>16 DEF Mutexes!Program
  <2>2. Mutexes!Acts = B("cfg") \o B("streamer") \o C("engine") \o B("log")
    BY <1>9 DEF Mutexes!Acts, B, C
  <2>3. /\ Ordered(B("cfg"), 0) /\ Ordered(B("streamer"), 0) /\ Ordered(C("engine"), 0)
        /\ Ordered(B("log"), 0)
    BY <1>2, <1>5, <1>6 DEF Called
  <2>4. Ordered(Mutexes!Acts, 0)
    BY <1>3, <2>2, <2>3
  <2>5. QED
    BY <1>3, <1>13, <2>1, <2>4
<1>17. CASE Runs[t] = "refresh"
  <2> DEFINE first == B("cfg") \o B("cfg") \o C("tailscale status")
                      \o U("tailscale", B("log")) \o B("tailscale")
  <2>1. Mutexes!Program(t) =
          B("cfg") \o B("cfg") \o C("tailscale status")
          \o U("tailscale", B("log")) \o B("tailscale")
          \o B("cfg") \o B("streamer") \o C("engine") \o B("log")
          \o B("streamer") \o U("streamer", B("log")) \o B("install")
          \o B("install") \o B("streamer") \o C("engine start") \o B("log")
          \o C("machine name") \o B("name")
          \o C("wake probe") \o U("wake", B("log"))
          \o C("display probe") \o U("display", B("log"))
    BY <1>9, <1>17 DEF Mutexes!Program, Mutexes!Refresh, B, C, U
  <2>2. /\ \A l \in {"cfg", "tailscale", "streamer", "log", "install", "name"} : Ordered(B(l), 0)
        /\ \A what \in Called : Ordered(C(what), 0)
        /\ \A l \in {"tailscale", "streamer", "wake", "display"} : Ordered(U(l, B("log")), 0)
    BY <1>2, <1>5, <1>6, <1>10
  <2>3. Ordered(first, 0)
    BY <1>3, <2>2 DEF Called
  <2> DEFINE second == first \o B("cfg") \o B("streamer") \o C("engine") \o B("log")
                       \o B("streamer") \o U("streamer", B("log")) \o B("install")
             third == second \o B("install") \o B("streamer") \o C("engine start") \o B("log")
                      \o C("machine name") \o B("name")
             whole == third \o C("wake probe") \o U("wake", B("log"))
                      \o C("display probe") \o U("display", B("log"))
  <2>4. Mutexes!Program(t) = whole
    BY <2>1
  <2> HIDE DEF first
  <2>5. Ordered(second, 0)
    BY <1>3, <2>2, <2>3 DEF Called
  <2> HIDE DEF second
  <2>6. Ordered(third, 0)
    BY <1>3, <2>2, <2>5 DEF Called
  <2> HIDE DEF third
  <2>7. QED
    BY <1>3, <2>2, <2>4, <2>6, SMTT(40), ZenonT(60) DEF Called
<1>18. Runs[t] \in {"refresh", "netcheck", "packet", "asks", "acts"}
  BY DEF Mutexes!LocksAssumption
<1>19. QED
  BY <1>11, <1>12, <1>15, <1>16, <1>17, <1>18

\* What a thread has in hand is what its program has taken and not let go of.
HeldBy(t) == CHOOSE h : Holds(Mutexes!Program(t), 0, h)
LocksInv ==
  /\ Mutexes!TypeOK /\ at \in [Threads -> Nat]
  /\ \A t \in Threads : \A l \in Mutexes!Locks : holder[l] = t <=> l \in HeldBy(t)[at[t]]

LEMMA ProgramSteps ==
  ASSUME Mutexes!LocksAssumption, NEW t \in Threads
  PROVE  /\ Holds(Mutexes!Program(t), 0, HeldBy(t)) /\ Len(Mutexes!Program(t)) \in Nat \ {0}
         /\ t # "free"
<1>1. t # "free"
  BY DEF Mutexes!LocksAssumption, Mutexes!Free
<1>2. Ordered(Mutexes!Program(t), 0)
  BY ProgramsOrdered
<1>3. Holds(Mutexes!Program(t), 0, HeldBy(t))
  BY <1>2 DEF Ordered, HeldBy
<1>4. QED
  BY <1>1, <1>2, <1>3, LenProperties DEF Ordered

LEMMA LocksInit ==
  ASSUME Mutexes!LocksAssumption, Mutexes!Init
  PROVE  LocksInv
<1>1. \A t \in Threads : /\ HeldBy(t)[1] = {} /\ 1 \in 1..Len(Mutexes!Program(t)) /\ t # "free"
  BY ProgramSteps DEF Holds
<1>2. holder = [l \in Mutexes!Locks |-> "free"] /\ at = [t \in Threads |-> 1]
  BY DEF Mutexes!Init, Mutexes!Free
<1>3. at \in [Threads -> Nat] /\ \A t \in Threads : at[t] = 1
  BY <1>2
<1>4. QED
  BY <1>1, <1>2, <1>3 DEF LocksInv, Mutexes!TypeOK, Mutexes!Free

\* A thread goes on to its next step, or starts again with nothing in hand.
LEMMA GoesOn ==
  ASSUME Mutexes!LocksAssumption, LocksInv, NEW t \in Threads, Mutexes!On(t)
  PROVE  /\ at' \in [Threads -> Nat] /\ at'[t] \in 1..Len(Mutexes!Program(t))
         /\ \A u \in Threads \ {t} : at'[u] = at[u]
         /\ Goes(Mutexes!Op(t), 0, HeldBy(t)[at[t]], HeldBy(t)[at'[t]])
<1> DEFINE p == Mutexes!Program(t)
           h == HeldBy(t)
<1>0. /\ at[t] \in 1..Len(p) /\ Len(p) \in Nat \ {0} /\ Holds(p, 0, h)
  BY ProgramSteps DEF LocksInv, Mutexes!TypeOK
<1> HIDE DEF p, h
<1>1. at' = [at EXCEPT ![t] = IF @ = Len(p) THEN 1 ELSE @ + 1] /\ Mutexes!Op(t) = p[at[t]]
  BY DEF Mutexes!On, Mutexes!Op, p
<1>2. at \in [Threads -> Nat]
  BY DEF LocksInv
<1>3. /\ at' \in [Threads -> Nat] /\ \A u \in Threads \ {t} : at'[u] = at[u]
      /\ at'[t] = IF at[t] = Len(p) THEN 1 ELSE at[t] + 1
  BY <1>0, <1>1, <1>2
<1>4. at'[t] \in 1..Len(p)
  BY <1>0, <1>3
<1>5. h[at'[t]] = h[at[t] + 1]
  BY <1>0, <1>3 DEF Holds
<1>6. Goes(p[at[t]], 0, h[at[t]], h[at[t] + 1])
  BY <1>0 DEF Holds
<1>7. QED
  BY <1>1, <1>3, <1>4, <1>5, <1>6 DEF p, h

LEMMA LocksNext ==
  ASSUME Mutexes!LocksAssumption, LocksInv, [Mutexes!Next]_(Mutexes!vars)
  PROVE  LocksInv'
<1>1. CASE UNCHANGED Mutexes!vars
  BY <1>1 DEF Mutexes!vars, LocksInv, Mutexes!TypeOK
<1>2. ASSUME NEW t \in Threads, Mutexes!Lock(t) \/ Mutexes!Unlock(t) \/ Mutexes!Work(t)
      PROVE  LocksInv'
  <2> DEFINE op == Mutexes!Op(t)
             before == HeldBy(t)[at[t]]
             after == HeldBy(t)[at'[t]]
  <2>1. Mutexes!On(t)
    BY <1>2 DEF Mutexes!Lock, Mutexes!Unlock, Mutexes!Work
  <2>2. /\ at' \in [Threads -> Nat] /\ at'[t] \in 1..Len(Mutexes!Program(t))
        /\ \A u \in Threads \ {t} : at'[u] = at[u]
        /\ Goes(op, 0, before, after)
    BY <2>1, GoesOn
  <2>3. /\ holder \in [Mutexes!Locks -> Threads \cup {"free"}]
        /\ \A u \in Threads : at[u] \in 1..Len(Mutexes!Program(u))
        /\ \A l \in Mutexes!Locks : holder[l] = t <=> l \in before
        /\ \A u \in Threads, l \in Mutexes!Locks : holder[l] = u <=> l \in HeldBy(u)[at[u]]
    BY DEF LocksInv, Mutexes!TypeOK, Mutexes!Free
  <2>4. \A u \in Threads : u # "free"
    BY ProgramSteps
  <2>5. before \subseteq Mutexes!Locks
    BY <2>3, ProgramSteps DEF Holds, Above
  <2> HIDE DEF op, before
  <2>6. /\ holder' \in [Mutexes!Locks -> Threads \cup {"free"}]
        /\ \A l \in Mutexes!Locks : holder'[l] = t <=> l \in after
        /\ \A u \in Threads \ {t}, l \in Mutexes!Locks : holder'[l] = u <=> holder[l] = u
    <3> HIDE DEF after
    <3>1. CASE Takes(op, before, after)
      <4>1. PICK l \in Mutexes!Locks : op = <<"take", l>> /\ after = before \cup {l}
        BY <3>1 DEF Takes, Mutexes!Take
      <4>2. holder[l] = "free" /\ holder' = [holder EXCEPT ![l] = t]
        BY <1>2, <4>1 DEF Mutexes!Lock, Mutexes!Unlock, Mutexes!Work, Mutexes!Free, op
      <4>3. QED
        BY <2>3, <2>4, <4>1, <4>2
    <3>2. CASE Drops(op, before, after)
      <4>1. PICK l \in before : op = <<"drop", l>> /\ after = before \ {l}
        BY <3>2 DEF Drops, Mutexes!Drop
      <4>2. holder[l] = t /\ holder' = [holder EXCEPT ![l] = "free"]
        BY <1>2, <2>3, <2>5, <4>1 DEF Mutexes!Lock, Mutexes!Unlock, Mutexes!Work, Mutexes!Free, op
      <4>3. QED
        BY <2>3, <2>4, <2>5, <4>1, <4>2
    <3>3. CASE Waits(op, 0, before, after)
      <4>1. op[1] = "call" /\ after = before
        BY <3>3 DEF Waits, Mutexes!Calls
      <4>2. holder' = holder
        BY <1>2, <4>1 DEF Mutexes!Lock, Mutexes!Unlock, Mutexes!Work, op
      <4>3. QED
        BY <2>3, <4>1, <4>2
    <3>4. QED
      BY <2>2, <3>1, <3>2, <3>3 DEF Goes
  <2>7. \A u \in Threads : at'[u] \in 1..Len(Mutexes!Program(u))
    BY <2>2, <2>3
  <2>8. \A u \in Threads, l \in Mutexes!Locks : holder'[l] = u <=> l \in HeldBy(u)[at'[u]]
    BY <2>2, <2>3, <2>6
  <2>9. QED
    BY <2>2, <2>6, <2>7, <2>8 DEF LocksInv, Mutexes!TypeOK, Mutexes!Free
<1>3. QED
  BY <1>1, <1>2 DEF Mutexes!Next

\* Where a thread waits, its lock comes later in the order than all it holds;
\* of threads that wait for each other, look at the one whose lock is last.
LEMMA LocksMeans ==
  ASSUME Mutexes!LocksAssumption, LocksInv
  PROVE  Mutexes!TypeOK /\ Mutexes!NoCircle /\ Mutexes!NoLockAcrossCalls
<1>1. ASSUME NEW t \in Threads
      PROVE  /\ Goes(Mutexes!Op(t), 0, HeldBy(t)[at[t]], HeldBy(t)[at[t] + 1])
             /\ \A l \in Mutexes!Locks : holder[l] = t <=> l \in HeldBy(t)[at[t]]
  <2>1. at[t] \in 1..Len(Mutexes!Program(t))
    BY DEF LocksInv, Mutexes!TypeOK
  <2>2. QED
    BY <2>1, ProgramSteps DEF LocksInv, Holds, Mutexes!Op
<1>2. ASSUME NEW t \in Threads, Mutexes!Op(t)[1] = "take"
      PROVE  /\ Mutexes!Op(t)[2] \in Mutexes!Locks
             /\ \A l \in Mutexes!Locks : holder[l] = t => Rank[l] < Rank[Mutexes!Op(t)[2]]
  <2>1. Takes(Mutexes!Op(t), HeldBy(t)[at[t]], HeldBy(t)[at[t] + 1])
    BY <1>1, <1>2 DEF Goes, Drops, Waits, Mutexes!Drop, Mutexes!Calls
  <2>2. QED
    BY <1>1, <2>1 DEF Takes, Mutexes!Take
<1>3. Mutexes!NoLockAcrossCalls
  <2> SUFFICES ASSUME NEW t \in Threads, Mutexes!Op(t)[1] = "call", NEW l \in Mutexes!Locks
               PROVE  holder[l] # t
    BY DEF Mutexes!NoLockAcrossCalls
  <2>1. HeldBy(t)[at[t]] = {}
    BY <1>1 DEF Goes, Takes, Drops, Waits, Mutexes!Take, Mutexes!Drop
  <2>2. QED
    BY <1>1, <2>1
<1>4. Mutexes!NoCircle
  <2> SUFFICES ASSUME NEW some \in SUBSET Threads, some # {},
                      \A t \in some : Mutexes!WaitsFor(t) \in some
               PROVE  FALSE
    BY DEF Mutexes!NoCircle
  <2> DEFINE wants(t) == Mutexes!Op(t)[2]
             f == [t \in some |-> Rank[wants(t)]]
  <2>1. ASSUME NEW t \in some
        PROVE  /\ Mutexes!Op(t)[1] = "take" /\ wants(t) \in Mutexes!Locks
               /\ holder[wants(t)] \in some
    <3>1. Mutexes!WaitsFor(t) \in some /\ Mutexes!WaitsFor(t) # "free"
      BY ProgramSteps
    <3>2. Mutexes!Op(t)[1] = "take"
      BY <3>1 DEF Mutexes!WaitsFor, Mutexes!Free
    <3>3. QED
      BY <1>2, <3>1, <3>2 DEF Mutexes!WaitsFor
  <2>2. f \in [some -> 0..5]
    BY <2>1, RankType
  <2> HIDE DEF f
  <2>3. PICK t \in some : \A u \in some : f[t] >= f[u]
    BY <2>2, Largest
  <2> DEFINE u == holder[wants(t)]
  <2>4. u \in some /\ wants(t) \in Mutexes!Locks /\ wants(u) \in Mutexes!Locks
    BY <2>1
  <2>5. Rank[wants(t)] < Rank[wants(u)]
    BY <1>2, <2>1, <2>4
  <2>6. Rank[wants(t)] >= Rank[wants(u)]
    BY <2>3, <2>4 DEF f
  <2>7. QED
    BY <2>4, <2>5, <2>6, RankType
<1>5. QED
  BY <1>3, <1>4 DEF LocksInv

\* No threads of the service wait for each other's mutexes in a circle, and none
\* holds one while it runs a program that may not return (service.rs, wake.rs).
THEOREM NobodyWaitsInACircle ==
  ASSUME Mutexes!LocksAssumption
  PROVE  Mutexes!Spec => [](Mutexes!NoCircle /\ Mutexes!NoLockAcrossCalls)
<1>1. Mutexes!Init => LocksInv
  BY LocksInit
<1>2. LocksInv /\ [Mutexes!Next]_(Mutexes!vars) => LocksInv'
  BY LocksNext
<1>3. LocksInv => Mutexes!NoCircle /\ Mutexes!NoLockAcrossCalls
  BY LocksMeans
<1>4. QED
  BY <1>1, <1>2, <1>3, PTL DEF Mutexes!Spec

------------------------------------------------------------------------------
(* The test of Wake-on-LAN: how long ago the packet came, and where it is.  *)

Interfaces == [on : SUBSET (Networks \cup {"tailnet"}), address : BOOLEAN, lan : BOOLEAN,
               public : BOOLEAN]
Sleepers == [at : Networks, forwards : BOOLEAN, adapter : BOOLEAN, seen : 0..Fresh]
Tests == [at : {"idle", "sleeps", "asks", "told"}, left : Nat, n : 0..MaxTests,
          came : BOOLEAN, clean : BOOLEAN,
          result : {"none", "received", "missed", "error"}]

WakeTypes ==
  /\ sender \in Interfaces /\ sleeper \in Sleepers /\ test \in Tests
  /\ air \subseteq 1..test.n /\ faults \in 0..MaxFaults

UnderWay == test.at \in {"sleeps", "asks"}

\* A packet of this test that came is no older than the test, and one that is
\* not lost comes before the Mac asks.
CameInv ==
  /\ test.at = "sleeps" => test.left <= Settle
  /\ test.at = "asks" => test.left <= Limit
  /\ ~UnderWay => test.left = 0
  /\ test.came /\ test.at = "sleeps" => sleeper.seen + test.left <= Settle
  /\ test.came /\ test.at = "asks" => sleeper.seen + test.left <= Settle + Limit
  /\ test.at \in {"asks", "told"} => test.n \notin air
  /\ test.at = "sleeps" /\ test.left = 0 => test.n \notin air
  /\ test.result # "none" => test.at = "told"
  /\ test.result = "missed" => ~test.came

\* A packet that nothing has happened to is on its way, or has come.
CleanInv ==
  test.clean /\ sleeper.at \in sender.on =>
    /\ UnderWay => sleeper.adapter /\ (test.n \in air \/ test.came)
    /\ test.result # "missed"

WakeInv == WakeTypes /\ CameInv /\ CleanInv

LEMMA WakeBounds ==
  ASSUME Waking!WakeAssumption
  PROVE  /\ Settle \in Nat \ {0} /\ Limit \in Nat /\ Fresh \in Nat /\ MaxTests \in Nat
         /\ MaxFaults \in Nat /\ Settle + Limit < Fresh /\ "tailnet" \notin Networks
BY DEF Waking!WakeAssumption, Waking!Tailnet

LEMMA WakeInit ==
  ASSUME Waking!WakeAssumption, Waking!Init
  PROVE  WakeInv
<1>1. /\ sender \in Interfaces /\ sleeper \in Sleepers
      /\ test = [at |-> "idle", left |-> 0, n |-> 0, came |-> FALSE, clean |-> TRUE,
                 result |-> "none"]
      /\ air = {} /\ faults = 0
  BY DEF Waking!WakeAssumption, Waking!Init, Waking!Tailnet, Waking!Old, Waking!Idle,
         Interfaces, Sleepers
<1>2. test \in Tests
  BY <1>1 DEF Tests, Waking!WakeAssumption
<1>3. QED
  BY <1>1, <1>2 DEF WakeInv, WakeTypes, CameInv, CleanInv, UnderWay, Waking!WakeAssumption

\* A test begins.
LEMMA SendKeeps ==
  ASSUME Waking!WakeAssumption, WakeInv, Waking!Send
  PROVE  WakeInv'
<1> USE WakeBounds
<1>1. /\ UNCHANGED <<sender, sleeper>> /\ test.at \in {"idle", "told"} /\ test.n < MaxTests
      /\ test.n + 1 \in 0..MaxTests /\ air \subseteq 1..test.n /\ faults \in 0..MaxFaults
      /\ sender \in Interfaces /\ sleeper \in Sleepers /\ test.n \in Nat
  <2>1. test \in Tests /\ WakeTypes
    BY DEF WakeInv, WakeTypes
  <2>2. test.n \in 0..MaxTests
    BY <2>1 DEF Tests
  <2>3. UNCHANGED <<sender, sleeper>> /\ test.at \in {"idle", "told"} /\ test.n < MaxTests
    BY DEF Waking!Send
  <2>4. QED
    BY <2>1, <2>2, <2>3 DEF WakeTypes
<1>2. test.n + 1 \notin air /\ air \subseteq 1..(test.n + 1) /\ test.n + 1 \in 1..(test.n + 1)
  BY <1>1
<1>3. CASE ~sender.address
  <2>1. /\ test' = [Waking!Idle EXCEPT !.at = "told", !.n = test.n + 1, !.result = "error"]
        /\ UNCHANGED <<air, faults>>
    BY <1>3 DEF Waking!Send
  <2>2. test' = [at |-> "told", left |-> 0, n |-> test.n + 1, came |-> FALSE, clean |-> TRUE,
                 result |-> "error"]
    BY <2>1 DEF Waking!Idle
  <2>3. test' \in Tests
    BY <1>1, <2>2 DEF Tests
  <2>4. WakeTypes'
    BY <1>1, <1>2, <2>1, <2>2, <2>3 DEF WakeTypes
  <2>5. CameInv'
    <3>1. /\ test'.at = "told" /\ test'.left = 0 /\ test'.n = test.n + 1
          /\ ~test'.came /\ test'.result = "error"
      BY <2>2
    <3>2. air' = air
      BY <2>1
    <3>3. QED
      BY <1>2, <3>1, <3>2 DEF CameInv, UnderWay
  <2>6. CleanInv'
    BY <2>2 DEF CleanInv, UnderWay
  <2>7. QED
    BY <2>4, <2>5, <2>6 DEF WakeInv
<1>4. CASE sender.address
  <2>1. PICK lost \in SUBSET {p[1] : p \in Waking!Plan} :
          /\ IF lost = {} THEN UNCHANGED faults ELSE Waking!Fault
          /\ air' = IF \E p \in Waking!Plan : Waking!Heard(p) /\ p[1] \notin lost
                    THEN air \cup {test.n + 1} ELSE air
          /\ test' = [Waking!Idle EXCEPT !.at = "sleeps", !.left = Settle, !.n = test.n + 1,
                                         !.clean = lost = {} /\ sleeper.adapter]
    BY <1>4 DEF Waking!Send
  <2> DEFINE clean == lost = {} /\ sleeper.adapter
  <2>2. test' = [at |-> "sleeps", left |-> Settle, n |-> test.n + 1, came |-> FALSE,
                 clean |-> clean, result |-> "none"]
    BY <2>1 DEF Waking!Idle
  <2>3. clean \in BOOLEAN
    OBVIOUS
  <2>4. clean /\ sleeper.at \in sender.on => sleeper.adapter /\ air' = air \cup {test.n + 1}
    <3> SUFFICES ASSUME clean, sleeper.at \in sender.on
                 PROVE  sleeper.adapter /\ air' = air \cup {test.n + 1}
      OBVIOUS
    <3>1. sleeper.at \in sender.on \ {"tailnet"}
      BY <1>1 DEF Sleepers, Waking!Tailnet
    <3>2. <<sleeper.at, "broadcast">> \in Waking!Plan
      BY <3>1 DEF Waking!Plan, Waking!Tailnet
    <3>3. Waking!Heard(<<sleeper.at, "broadcast">>)
      BY DEF Waking!Heard
    <3>4. QED
      BY <2>1, <3>2, <3>3
  <2> HIDE DEF clean
  <2>5. test' \in Tests
    BY <1>1, <2>2, <2>3 DEF Tests
  <2>6. faults' \in 0..MaxFaults
    BY <1>1, <2>1 DEF Waking!Fault
  <2>7. air' \subseteq 1..(test.n + 1)
    BY <1>2, <2>1
  <2>8. WakeTypes'
    BY <1>1, <2>2, <2>5, <2>6, <2>7 DEF WakeTypes
  <2>9. CameInv'
    BY <2>2 DEF CameInv, UnderWay
  <2>10. CleanInv'
    BY <1>1, <2>2, <2>4 DEF CleanInv, UnderWay
  <2>11. QED
    BY <2>8, <2>9, <2>10 DEF WakeInv
<1>5. QED
  BY <1>3, <1>4

\* The test goes on: the Mac asks, is answered, or is not.
LEMMA AskKeeps ==
  ASSUME Waking!WakeAssumption, WakeInv, Waking!Ask \/ Waking!NoAnswer \/ Waking!Status
  PROVE  WakeInv'
<1> USE WakeBounds
<1>1. test \in Tests /\ UNCHANGED <<sender, sleeper, air>>
  BY DEF WakeInv, WakeTypes, Waking!Ask, Waking!NoAnswer, Waking!Status
<1>2. CASE Waking!Ask
  <2>1. test' = [test EXCEPT !.at = "asks", !.left = Limit] /\ UNCHANGED faults
        /\ test.at = "sleeps" /\ test.left = 0
    BY <1>2 DEF Waking!Ask
  <2>2. test' = [at |-> "asks", left |-> Limit, n |-> test.n, came |-> test.came,
                 clean |-> test.clean, result |-> test.result]
    BY <1>1, <2>1 DEF Tests
  <2>3. test' \in Tests
    BY <1>1, <2>2 DEF Tests
  <2>4. WakeTypes'
    BY <1>1, <2>1, <2>2, <2>3 DEF WakeInv, WakeTypes
  <2>5. CameInv'
    <3>1. sleeper.seen \in Nat /\ CameInv
      BY DEF WakeInv, WakeTypes, Sleepers
    <3>2. test.came => sleeper.seen <= Settle
      <4>1. test.came => sleeper.seen + test.left <= Settle
        BY <2>1, <3>1 DEF CameInv
      <4>2. QED
        BY <2>1, <3>1, <4>1
    <3>3. test.n \notin air /\ test.result = "none"
      BY <1>1, <2>1, <3>1 DEF CameInv, Tests
    <3>5. QED
      BY <1>1, <2>2, <3>1, <3>2, <3>3 DEF CameInv, UnderWay
  <2>6. CleanInv'
    BY <1>1, <2>1, <2>2 DEF WakeInv, CleanInv, UnderWay
  <2>7. QED
    BY <2>4, <2>5, <2>6 DEF WakeInv
<1>3. ASSUME NEW result \in {"received", "missed", "error"}, test.at = "asks",
             test' = [test EXCEPT !.at = "told", !.left = 0, !.result = result],
             result = "missed" => ~(sleeper.seen < Fresh), faults' \in 0..MaxFaults
      PROVE  WakeInv'
  <2>1. test' = [at |-> "told", left |-> 0, n |-> test.n, came |-> test.came,
                 clean |-> test.clean, result |-> result]
    BY <1>1, <1>3 DEF Tests
  <2>2. test' \in Tests
    BY <1>1, <2>1 DEF Tests
  <2>3. WakeTypes'
    BY <1>1, <1>3, <2>1, <2>2 DEF WakeInv, WakeTypes
  <2>4. test.n \notin air /\ (result = "missed" => ~test.came)
    <3>1. sleeper.seen \in Nat /\ CameInv
      BY <1>1 DEF WakeInv, WakeTypes, Sleepers
    <3>2. test.left \in Nat
      BY <1>1 DEF Tests
    <3>3. test.n \notin air /\ (test.came => sleeper.seen + test.left <= Settle + Limit)
      BY <1>3, <3>1 DEF CameInv
    <3>4. test.came => sleeper.seen < Fresh
      <4> DEFINE seen == sleeper.seen
                 left == test.left
      <4>1. test.came => seen + left <= Settle + Limit
        BY <3>3
      <4>2. seen \in Nat /\ left \in Nat
        BY <3>1, <3>2
      <4> HIDE DEF seen, left
      <4>3. test.came => seen < Fresh
        BY <4>1, <4>2
      <4>4. QED
        BY <4>3 DEF seen
    <3>5. QED
      BY <1>3, <3>3, <3>4
  <2>5. CameInv'
    BY <1>1, <2>1, <2>4 DEF CameInv, UnderWay
  <2>6. CleanInv'
    BY <1>1, <1>3, <2>1, <2>4 DEF WakeInv, CleanInv, UnderWay
  <2>7. QED
    BY <2>3, <2>5, <2>6 DEF WakeInv
<1>4. CASE Waking!NoAnswer
  <2>1. faults' \in 0..MaxFaults
    BY <1>4 DEF Waking!NoAnswer, Waking!Fault, WakeInv, WakeTypes
  <2>2. test.at = "asks" /\ test' = [test EXCEPT !.at = "told", !.left = 0, !.result = "error"]
    BY <1>4 DEF Waking!NoAnswer
  <2>3. QED
    BY <1>3, <2>1, <2>2
<1>5. CASE Waking!Status
  <2>1. faults' \in 0..MaxFaults
    BY <1>5 DEF Waking!Status, WakeInv, WakeTypes
  <2>2. PICK result \in {"received", "missed"} :
          result = IF sleeper.seen < Fresh THEN "received" ELSE "missed"
    OBVIOUS
  <2>3. test.at = "asks" /\ test' = [test EXCEPT !.at = "told", !.left = 0, !.result = result]
    BY <1>5, <2>2 DEF Waking!Status
  <2>4. QED
    BY <1>3, <2>1, <2>2, <2>3
<1>6. QED
  BY <1>2, <1>4, <1>5

\* What an event on the way does to the test: a packet comes, or is lost.
LEMMA PacketKeeps ==
  ASSUME Waking!WakeAssumption, WakeInv, NEW n \in 1..MaxTests,
         Waking!WakePacket(n) \/ Waking!Lose(n)
  PROVE  WakeInv'
<1> USE WakeBounds
<1>1. /\ test \in Tests /\ sleeper \in Sleepers /\ n \in air /\ air' = air \ {n}
      /\ UNCHANGED sender /\ WakeTypes /\ CameInv /\ CleanInv
  BY DEF WakeInv, WakeTypes, Waking!WakePacket, Waking!Lose
<1>2. CASE Waking!WakePacket(n) /\ sleeper.adapter
  <2> DEFINE came == test.came \/ n = test.n
  <2>1. /\ sleeper' = [sleeper EXCEPT !.seen = 0] /\ test' = [test EXCEPT !.came = came]
        /\ UNCHANGED faults
    BY <1>2 DEF Waking!WakePacket
  <2>2. came \in BOOLEAN /\ (came => test.came \/ n = test.n) /\ (test.came => came)
        /\ (n = test.n => came)
    BY <1>1 DEF Tests
  <2> HIDE DEF came
  <2>3. /\ test' \in Tests /\ test'.at = test.at /\ test'.left = test.left /\ test'.n = test.n
        /\ test'.came = came /\ test'.clean = test.clean /\ test'.result = test.result
    BY <1>1, <2>1, <2>2 DEF Tests
  <2>4. /\ sleeper' \in Sleepers /\ sleeper'.at = sleeper.at /\ sleeper'.seen = 0
        /\ sleeper'.adapter = sleeper.adapter
    BY <1>1, <2>1 DEF Sleepers
  <2>5. WakeTypes'
    BY <1>1, <2>1, <2>3, <2>4 DEF WakeTypes
  <2>6. CameInv'
    <3>1. test.left \in Nat
      BY <1>1 DEF Tests
    <3>2. QED
      BY <1>1, <2>2, <2>3, <2>4, <3>1 DEF CameInv, UnderWay
  <2>7. CleanInv'
    BY <1>1, <2>2, <2>3, <2>4 DEF CleanInv, UnderWay
  <2>8. QED
    BY <2>5, <2>6, <2>7 DEF WakeInv
<1>3. CASE Waking!WakePacket(n) /\ ~sleeper.adapter
  <2>1. UNCHANGED <<sleeper, test, faults>>
    BY <1>3 DEF Waking!WakePacket
  <2>2. QED
    BY <1>1, <1>3, <2>1 DEF WakeInv, WakeTypes, CameInv, CleanInv, UnderWay
<1>4. CASE Waking!Lose(n)
  <2>1. test' = [test EXCEPT !.clean = FALSE] /\ UNCHANGED sleeper /\ faults' \in 0..MaxFaults
    BY <1>1, <1>4 DEF Waking!Lose, Waking!Fault, WakeTypes
  <2>2. /\ test' \in Tests /\ test'.at = test.at /\ test'.left = test.left /\ test'.n = test.n
        /\ test'.came = test.came /\ test'.clean = FALSE /\ test'.result = test.result
    BY <1>1, <2>1 DEF Tests
  <2>3. QED
    BY <1>1, <2>1, <2>2 DEF WakeInv, WakeTypes, CameInv, CleanInv, UnderWay
<1>5. QED
  BY <1>2, <1>3, <1>4

\* The service looks for the adapter again, and may not find it.
LEMMA ProbeKeeps ==
  ASSUME Waking!WakeAssumption, WakeInv, Waking!Probe
  PROVE  WakeInv'
<1> USE WakeBounds
<1>1. /\ test \in Tests /\ sleeper \in Sleepers /\ UNCHANGED <<sender, air>>
      /\ WakeTypes /\ CameInv /\ CleanInv
  BY DEF WakeInv, WakeTypes, Waking!Probe
<1>2. CASE sleeper' = [sleeper EXCEPT !.adapter = TRUE] /\ UNCHANGED <<test, faults>>
  <2>1. /\ sleeper' \in Sleepers /\ sleeper'.at = sleeper.at /\ sleeper'.seen = sleeper.seen
        /\ sleeper'.adapter
    BY <1>1, <1>2 DEF Sleepers
  <2>2. QED
    BY <1>1, <1>2, <2>1 DEF WakeInv, WakeTypes, CameInv, CleanInv, UnderWay
<1>3. CASE Waking!Fault /\ sleeper' = [sleeper EXCEPT !.adapter = FALSE]
           /\ test' = [test EXCEPT !.clean = FALSE]
  <2>1. faults' \in 0..MaxFaults
    BY <1>1, <1>3 DEF Waking!Fault, WakeTypes
  <2>2. /\ test' \in Tests /\ test'.at = test.at /\ test'.left = test.left /\ test'.n = test.n
        /\ test'.came = test.came /\ test'.clean = FALSE /\ test'.result = test.result
    BY <1>1, <1>3 DEF Tests
  <2>3. sleeper' \in Sleepers /\ sleeper'.seen = sleeper.seen
    BY <1>1, <1>3 DEF Sleepers
  <2>4. QED
    BY <1>1, <2>1, <2>2, <2>3 DEF WakeInv, WakeTypes, CameInv, CleanInv, UnderWay
<1>4. QED
  BY <1>2, <1>3 DEF Waking!Probe

\* Time passes for the packet that came as it does for the test.
LEMMA TimePasses ==
  ASSUME Waking!WakeAssumption, WakeInv, Waking!Tick
  PROVE  WakeInv'
<1> USE WakeBounds
<1>1. /\ test \in Tests /\ sleeper \in Sleepers /\ UNCHANGED <<sender, air, faults>>
      /\ WakeTypes /\ CameInv /\ CleanInv
      /\ (UnderWay => test.left > 0)
      /\ (test.at = "sleeps" /\ test.left = 1 => test.n \notin air)
  BY DEF WakeInv, WakeTypes, Waking!Tick, UnderWay
<1> DEFINE seen == IF sleeper.seen < Fresh THEN sleeper.seen + 1 ELSE Fresh
           left == IF UnderWay THEN test.left - 1 ELSE test.left
<1>2. sleeper.seen \in 0..Fresh /\ test.left \in Nat
  BY <1>1 DEF Sleepers, Tests
<1>3. seen \in 0..Fresh /\ seen <= sleeper.seen + 1 /\ left \in Nat
  BY <1>1, <1>2
<1>4. sleeper' = [sleeper EXCEPT !.seen = seen] /\ test' = [test EXCEPT !.left = left]
  BY <1>1, <1>2 DEF Waking!Tick, Waking!Old, UnderWay, Tests
<1> HIDE DEF seen
<1>5. UnderWay => left = test.left - 1
  OBVIOUS
<1> HIDE DEF left
<1>6. /\ sleeper' \in Sleepers /\ sleeper'.at = sleeper.at /\ sleeper'.adapter = sleeper.adapter
      /\ sleeper'.seen = seen
  BY <1>1, <1>3, <1>4 DEF Sleepers
<1>7. /\ test' \in Tests /\ test'.at = test.at /\ test'.left = left /\ test'.n = test.n
      /\ test'.came = test.came /\ test'.clean = test.clean /\ test'.result = test.result
  BY <1>1, <1>3, <1>4 DEF Tests
<1>8. WakeTypes'
  BY <1>1, <1>6, <1>7 DEF WakeTypes
<1>9. CameInv'
  <2>1. CASE UnderWay
    <3>1. left = test.left - 1 /\ test.left \in Nat \ {0} /\ left \in Nat
      BY <1>1, <1>2, <1>3, <1>5, <2>1
    <3>2. /\ seen \in Nat /\ sleeper.seen \in Nat
          /\ seen + left <= sleeper.seen + test.left
      BY <1>2, <1>3, <3>1
    <3>3. /\ test'.at = "sleeps" => test'.left <= Settle
          /\ test'.at = "asks" => test'.left <= Limit
      BY <1>1, <1>7, <3>1 DEF CameInv
    <3>4. test'.came /\ test'.at = "sleeps" => sleeper'.seen + test'.left <= Settle
      <4>1. test.came /\ test.at = "sleeps" => sleeper.seen + test.left <= Settle
        BY <1>1 DEF CameInv
      <4>2. test.came /\ test.at = "sleeps" => seen + left <= Settle
        BY <3>1, <3>2, <4>1
      <4>3. QED
        BY <1>6, <1>7, <4>2
    <3>5. test'.came /\ test'.at = "asks" => sleeper'.seen + test'.left <= Settle + Limit
      <4>1. test.came /\ test.at = "asks" => sleeper.seen + test.left <= Settle + Limit
        BY <1>1 DEF CameInv
      <4>2. test.came /\ test.at = "asks" => seen + left <= Settle + Limit
        BY <3>1, <3>2, <4>1
      <4>3. QED
        BY <1>6, <1>7, <4>2
    <3>6. test'.at = "sleeps" /\ test'.left = 0 => test'.n \notin air'
      BY <1>1, <1>7, <3>1
    <3>7. /\ test'.at \in {"asks", "told"} => test'.n \notin air'
          /\ test'.result # "none" => test'.at = "told"
          /\ test'.result = "missed" => ~test'.came
          /\ UnderWay'
      BY <1>1, <1>7, <2>1 DEF CameInv, UnderWay
    <3>8. QED
      BY <3>3, <3>4, <3>5, <3>6, <3>7 DEF CameInv
  <2>2. CASE ~UnderWay
    <3>1. left = test.left
      BY <2>2 DEF left
    <3>2. QED
      BY <1>1, <1>7, <2>2, <3>1 DEF CameInv, UnderWay
  <2>3. QED
    BY <2>1, <2>2
<1>10. CleanInv'
  BY <1>1, <1>6, <1>7 DEF CleanInv, UnderWay
<1>11. QED
  BY <1>8, <1>9, <1>10 DEF WakeInv

LEMMA WakeNext ==
  ASSUME Waking!WakeAssumption, WakeInv, [Waking!Next]_(Waking!vars)
  PROVE  WakeInv'
<1>1. CASE UNCHANGED Waking!vars
  BY <1>1 DEF Waking!vars, WakeInv, WakeTypes, CameInv, CleanInv, UnderWay
<1>2. CASE Waking!Next
  BY <1>2, SendKeeps, AskKeeps, PacketKeeps, ProbeKeeps, TimePasses DEF Waking!Next
<1>3. QED
  BY <1>1, <1>2

LEMMA WakeMeans ==
  ASSUME Waking!WakeAssumption, WakeInv
  PROVE  Waking!TypeOK /\ Waking!CameIsTold /\ Waking!SameNetworkIsReached
<1> USE WakeBounds
<1>1. /\ test \in Tests /\ sleeper \in Sleepers /\ WakeTypes /\ CameInv /\ CleanInv
  BY DEF WakeInv, WakeTypes
<1>2. Waking!CameIsTold /\ Waking!SameNetworkIsReached
  BY <1>1 DEF CameInv, CleanInv, Waking!CameIsTold, Waking!SameNetworkIsReached
<1>3. test.left \in 0..Settle + Limit
  <2>1. test.left \in Nat
    BY <1>1 DEF Tests
  <2>2. test.left <= Settle \/ test.left <= Limit \/ test.left = 0
    BY <1>1 DEF CameInv, UnderWay, Tests
  <2>3. QED
    BY <2>1, <2>2
<1>4. air \subseteq 1..MaxTests
  <2>1. test.n \in 0..MaxTests
    BY <1>1 DEF Tests
  <2>2. QED
    BY <1>1, <2>1 DEF WakeTypes
<1>5. Waking!TypeOK
  BY <1>1, <1>3, <1>4 DEF WakeTypes, Waking!TypeOK, Waking!Old, Tests, Sleepers
<1>6. QED
  BY <1>2, <1>5

\* The test of Wake-on-LAN (wake_test, plan, wake_packet): a packet of the test
\* that the service took is not denied, and a PC on a network of the Mac that
\* nothing has failed for is not said to be out of reach.
THEOREM WakeTestTellsTheTruth ==
  ASSUME Waking!WakeAssumption
  PROVE  Waking!Spec => [](Waking!CameIsTold /\ Waking!SameNetworkIsReached)
<1>1. Waking!Init => WakeInv
  BY WakeInit
<1>2. WakeInv /\ [Waking!Next]_(Waking!vars) => WakeInv'
  BY WakeNext
<1>3. WakeInv => Waking!CameIsTold /\ Waking!SameNetworkIsReached
  BY WakeMeans
<1>4. QED
  BY <1>1, <1>2, <1>3, PTL DEF Waking!Spec
==============================================================================
