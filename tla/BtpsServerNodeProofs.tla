----------------------- MODULE BtpsServerNodeProofs -----------------------
(***************************************************************************)
(* Proofs about BtpsServerNode and its rate limiter, for all limits,       *)
(* windows, lines and middleware files.                                    *)
(***************************************************************************)
EXTENDS BtpsServerNode, TLAPS, FiniteSetTheorems

----------------------------------------------------------------------------
(* The counters of the limiter.                                            *)

\* What cleanup() throws away no request would have noticed: at every later
\* time the next request of any key has the same answer and leaves the same
\* counter as without it (cleanup, isAllowed).
THEOREM CleanupIsInvisible ==
    ASSUME NEW stored \in [Keys -> Counters \cup {None}],
           NEW now \in Nat, NEW later \in Nat, now <= later, NEW k \in Keys
    PROVE  /\ IsAllowed(k, Cleaned(stored, now)[k], later)
                = IsAllowed(k, stored[k], later)
           /\ Counted(k, Cleaned(stored, now)[k], later)
                = Counted(k, stored[k], later)
<1> DEFINE cleaned == Cleaned(stored, now)[k]
<1>1. CASE cleaned = stored[k]
  BY <1>1
<1>2. CASE cleaned # stored[k]
  <2>1. stored[k] # None /\ IsOld(stored[k], now) /\ cleaned = None
    BY <1>2 DEF Cleaned
  <2>2. IsOld(stored[k], later)
    BY <2>1, WindowAssumption DEF IsOld, Counters
  <2>3. StartsWindow(cleaned, later) /\ StartsWindow(stored[k], later)
    BY <2>1, <2>2 DEF StartsWindow
  <2> QED
    BY <2>3, Zenon DEF IsAllowed, Counted
<1> QED
  BY <1>1, <1>2

\* A counter stays what one is, and never counts beyond its limit but for the
\* request that starts a window (isAllowed).
THEOREM CountedIsBounded ==
    ASSUME NEW k \in Keys, NEW counter \in Counters \cup {None}, NEW now \in Nat,
           counter # None => counter.count <= Limit[k] \/ counter.count = 1
    PROVE  /\ Counted(k, counter, now) \in Counters
           /\ \/ Counted(k, counter, now).count <= Limit[k]
              \/ Counted(k, counter, now).count = 1
<1>1. CASE StartsWindow(counter, now)
  BY <1>1 DEF Counted, Counters
<1>2. CASE ~StartsWindow(counter, now)
  <2>1. counter \in Counters /\ Limit[k] \in Nat
    BY <1>2, LimitAssumption DEF StartsWindow
  <2>2. CASE counter.count < Limit[k]
    BY <1>2, <2>1, <2>2 DEF Counted, Counters
  <2>3. CASE ~(counter.count < Limit[k])
    BY <1>2, <2>1, <2>3, NoCounterAssumption DEF Counted, Counters
  <2> QED
    BY <2>2, <2>3
<1> QED
  BY <1>1, <1>2

----------------------------------------------------------------------------
(* The rate.                                                               *)

LimitShape ==
    /\ clock \in Times
    /\ counters \in [Keys -> Counters \cup {None}]
    /\ allowedIn \in [Keys -> [Times -> Nat]]

\* The stretch that begins at time t reaches time u
Reaches(t, u) == u <= t + Window

\* What counts towards the limit of key k, in the stretch from t.  A stretch
\* that begins within the window of its counter has none of that window's
\* first request in it, one that begins before has not seen the whole of an
\* earlier window, and without a counter there is room for a window in every
\* stretch that goes on.
StretchOf(k, t) ==
    LET n == allowedIn[k][t]  counter == counters[k] IN
    /\ n < 2 * Limit[k]
    /\ t > clock => n = 0
    /\ counter = None /\ Reaches(t, clock) => n < Limit[k]
    /\ counter # None =>
          /\ t > counter.windowStart => n < counter.count
          /\ t <= counter.windowStart /\ Reaches(t, counter.windowStart)
                => n < Limit[k] + counter.count

RateOf(k) ==
    /\ counters[k] # None => /\ counters[k].windowStart <= clock
                             /\ 1 <= counters[k].count
                             /\ counters[k].count <= Limit[k]
    /\ \A t \in Times : StretchOf(k, t)

RateInv == LimitShape /\ \A k \in Keys : Limit[k] > 0 => RateOf(k)

\* A request is counted in the window there is, or in one of its own, and in
\* every stretch that reaches it
LEMMA AskKeepsRate ==
    ASSUME RateInv, NEW k, NEW allowed \in BOOLEAN, Ask(k, allowed), clock' = clock
    PROVE  RateInv'
<1> USE LimitAssumption, WindowAssumption, NoCounterAssumption, ClockAssumption
<1>1. CASE k \notin Keys
  <2>1. counters' = counters /\ allowedIn' = allowedIn
    BY <1>1 DEF Ask, RateInv, LimitShape
  <2> QED
    BY <2>1 DEF RateInv, LimitShape, RateOf, StretchOf
<1>2. CASE k \in Keys
  <2> DEFINE old == counters[k]
             new == Counted(k, old, clock)
             n == allowedIn[k]
  <2>1. /\ Limit[k] \in Nat /\ Window \in Nat /\ clock \in Nat
        /\ old = None \/ (old.count \in Nat /\ old.windowStart \in Nat)
        /\ n \in [Times -> Nat]
    BY <1>2 DEF RateInv, LimitShape, Counters, Times
  <2>2. new \in Counters /\ new # None
    <3>1. CASE StartsWindow(old, clock)
      BY <2>1, <3>1 DEF Counted, Counters
    <3>2. CASE ~StartsWindow(old, clock)
      <4>1. old \in Counters
        BY <1>2, <3>2 DEF RateInv, LimitShape, StartsWindow
      <4> QED
        BY <3>2, <4>1 DEF Counted, Counters
    <3> QED
      BY <3>1, <3>2
  <2>3. /\ counters'[k] = new
        /\ \A j \in Keys : j # k => counters'[j] = counters[j]
        /\ counters' \in [Keys -> Counters \cup {None}]
    BY <1>2, <2>2 DEF Ask, RateInv, LimitShape
  <2>4. /\ \A j \in Keys : j # k => allowedIn'[j] = allowedIn[j]
        /\ \A t \in Times : allowedIn'[k][t] =
              IF allowed /\ t <= clock /\ Reaches(t, clock) THEN n[t] + 1 ELSE n[t]
        /\ allowedIn' \in [Keys -> [Times -> Nat]]
    BY <1>2, <2>1 DEF Ask, RateInv, LimitShape, Reaches
  <2>5. LimitShape'
    BY <2>3, <2>4 DEF RateInv, LimitShape
  <2>6. ASSUME NEW j \in Keys, j # k, Limit[j] > 0
        PROVE  RateOf(j)'
    BY <2>3, <2>4, <2>6 DEF RateInv, RateOf, StretchOf
  <2>7. ASSUME Limit[k] > 0
        PROVE  RateOf(k)'
    <3>1. RateOf(k)
      BY <1>2, <2>7 DEF RateInv
    <3>2. allowed = IsAllowed(k, old, clock)
      BY DEF Ask
    <3>3. CASE StartsWindow(old, clock)
      <4>1. new.count = 1 /\ new.windowStart = clock /\ allowed
        BY <3>2, <3>3 DEF Counted, IsAllowed
      <4>2. ASSUME NEW t \in Times, t <= clock, Reaches(t, clock)
            PROVE  n[t] < Limit[k]
        <5>1. t \in Nat /\ n[t] \in Nat
          BY <2>1 DEF Times
        <5>2. CASE old = None
          BY <3>1, <4>2, <5>2 DEF RateOf, StretchOf
        <5>3. CASE old # None
          <6>1. old.windowStart + Window < clock /\ clock <= t + Window
            BY <3>3, <4>2, <5>3 DEF StartsWindow, IsOld, Reaches
          <6>2. n[t] < old.count /\ old.count <= Limit[k]
            BY <2>1, <3>1, <5>1, <5>3, <6>1 DEF RateOf, StretchOf
          <6> QED
            BY <2>1, <5>1, <5>3, <6>2
        <5> QED
          BY <5>2, <5>3
      <4>3. ASSUME NEW t \in Times
            PROVE  StretchOf(k, t)'
        <5>1. /\ t \in Nat /\ n[t] \in Nat /\ n[t] < 2 * Limit[k]
              /\ t > clock => n[t] = 0
          BY <2>1, <3>1 DEF RateOf, StretchOf, Times
        <5> QED
          BY <2>1, <2>2, <2>3, <2>4, <2>7, <4>1, <4>2, <5>1 DEF StretchOf, Reaches
      <4> QED
        BY <2>1, <2>3, <2>7, <4>1, <4>3 DEF RateOf
    <3>4. CASE ~StartsWindow(old, clock)
      <4>1. old # None /\ clock <= old.windowStart + Window
        BY <2>1, <3>4 DEF StartsWindow, IsOld
      <4>2. CASE old.count < Limit[k]
        <5>1. new.count = old.count + 1 /\ new.windowStart = old.windowStart /\ allowed
          <6>1. old \in Counters
            BY <1>2, <4>1 DEF RateInv, LimitShape
          <6> QED
            BY <3>2, <3>4, <4>2, <6>1 DEF Counted, IsAllowed, Counters
        <5>2. ASSUME NEW t \in Times
              PROVE  StretchOf(k, t)'
          <6>1. /\ t \in Nat /\ n[t] \in Nat /\ StretchOf(k, t)
                /\ old.windowStart <= clock /\ 1 <= old.count
            BY <2>1, <3>1, <4>1 DEF RateOf, Times
          <6> QED
            BY <2>1, <2>2, <2>3, <2>4, <4>1, <4>2, <5>1, <6>1 DEF StretchOf, Reaches
        <5> QED
          BY <2>1, <2>3, <3>1, <4>1, <4>2, <5>1, <5>2 DEF RateOf
      <4>3. CASE ~(old.count < Limit[k])
        <5>1. new = old /\ ~allowed
          BY <3>2, <3>4, <4>3 DEF Counted, IsAllowed
        <5> QED
          BY <2>1, <2>3, <2>4, <3>1, <4>1, <5>1 DEF RateOf, StretchOf, Reaches, Times
      <4> QED
        BY <4>2, <4>3
    <3> QED
      BY <3>3, <3>4
  <2> QED
    BY <2>5, <2>6, <2>7 DEF RateInv
<1> QED
  BY <1>1, <1>2

\* A counter that is thrown away has left room
LEMMA CleanupKeepsRate ==
    ASSUME RateInv, Cleanup
    PROVE  RateInv'
<1> USE LimitAssumption, WindowAssumption, NoCounterAssumption, ClockAssumption
<1>1. UNCHANGED <<clock, allowedIn>>
  BY DEF Cleanup
<1>2. \A k \in Keys : counters'[k] = IF counters[k] # None /\ IsOld(counters[k], clock)
                                     THEN None ELSE counters[k]
  BY DEF Cleanup, Cleaned
<1>3. LimitShape'
  BY <1>1 DEF Cleanup, Cleaned, RateInv, LimitShape
<1>4. ASSUME NEW k \in Keys, Limit[k] > 0
      PROVE  RateOf(k)'
  <2>1. RateOf(k) /\ counters[k] \in Counters \cup {None} /\ allowedIn[k] \in [Times -> Nat]
    BY <1>4 DEF RateInv, LimitShape
  <2>2. CASE counters'[k] = counters[k]
    BY <1>1, <2>1, <2>2 DEF RateOf, StretchOf, Reaches
  <2>3. CASE counters'[k] # counters[k]
    <3>1. counters'[k] = None /\ counters[k] \in Counters /\ IsOld(counters[k], clock)
      BY <1>2, <2>1, <2>3
    <3>2. Limit[k] \in Nat /\ Window \in Nat /\ clock \in Nat
      BY DEF RateInv, LimitShape, Times
    <3>3. counters[k] # None /\ counters[k].count \in Nat /\ counters[k].windowStart \in Nat
      BY <3>1, NoCounterAssumption DEF Counters
    <3>4. ASSUME NEW t \in Times
          PROVE  StretchOf(k, t)'
      <4>1. t \in Nat /\ allowedIn[k][t] \in Nat /\ StretchOf(k, t)
        BY <2>1 DEF RateOf, Times
      <4>2. counters[k].count <= Limit[k] /\ counters[k].windowStart + Window < clock
        BY <2>1, <3>1, <3>3 DEF RateOf, IsOld
      <4> QED
        BY <1>1, <3>1, <3>2, <3>3, <4>1, <4>2 DEF StretchOf, Reaches
    <3> QED
      BY <3>1, <3>4 DEF RateOf
  <2> QED
    BY <2>2, <2>3
<1> QED
  BY <1>3, <1>4 DEF RateInv

\* Time goes by, and stretches end
LEMMA TickKeepsRate ==
    ASSUME RateInv, Tick
    PROVE  RateInv'
<1> USE LimitAssumption, WindowAssumption, NoCounterAssumption, ClockAssumption
<1>1. /\ UNCHANGED <<counters, allowedIn>>
      /\ clock' = clock + 1 /\ clock \in Nat /\ clock' \in Times
  BY DEF Tick, limitVars, RateInv, LimitShape, Times
<1>2. LimitShape'
  BY <1>1 DEF RateInv, LimitShape
<1>3. ASSUME NEW k \in Keys, Limit[k] > 0
      PROVE  RateOf(k)'
  <2>1. /\ RateOf(k) /\ counters[k] \in Counters \cup {None}
        /\ allowedIn[k] \in [Times -> Nat] /\ Limit[k] \in Nat /\ Window \in Nat
    BY <1>3 DEF RateInv, LimitShape
  <2> QED
    BY <1>1, <2>1 DEF RateOf, StretchOf, Reaches, Counters, Times
<1> QED
  BY <1>2, <1>3 DEF RateInv

LEMMA RateStep ==
    ASSUME RateInv, [Next]_vars
    PROVE  RateInv'
<1>1. CASE UNCHANGED <<clock, counters, allowedIn>>
  BY <1>1 DEF RateInv, LimitShape, RateOf, StretchOf
<1>2. ASSUME NEW k, NEW allowed \in BOOLEAN, Ask(k, allowed), UNCHANGED clock
      PROVE  RateInv'
  BY <1>2, AskKeepsRate
<1>3. ASSUME NEW h \in Lines, NEW c \in Conns, NEW l \in LineSet, Arrive(h, c, l)
      PROVE  RateInv'
  BY <1>1, <1>2, <1>3 DEF Arrive, limitVars
<1>4. ASSUME NEW h \in Lines, AfterParsing(h)
      PROVE  RateInv'
  BY <1>1, <1>2, <1>4 DEF AfterParsing, limitVars
<1> QED
  BY <1>1, <1>3, <1>4, CleanupKeepsRate, TickKeepsRate
  DEF Next, vars, limitVars, Start, Loaded, Listens, Stop, Connect, Parse

\* The limits hold in every stretch of time, for any limits, any window, any
\* clock, and whenever cleanup() runs.
THEOREM RateIsKept == Spec => []RateHolds
<1> USE LimitAssumption, WindowAssumption, NoCounterAssumption, ClockAssumption
<1>1. ASSUME Init PROVE RateInv
  <2>1. /\ LimitShape
        /\ \A k \in Keys : counters[k] = None /\ \A t \in Times : allowedIn[k][t] = 0
    BY <1>1 DEF Init, LimitShape, Times
  <2> QED
    BY <2>1 DEF RateInv, RateOf, StretchOf
<1>2. RateInv /\ [Next]_vars => RateInv'
  BY RateStep
<1>3. RateInv => RateHolds
  BY DEF RateInv, RateOf, StretchOf, RateHolds
<1> QED
  BY <1>1, <1>2, <1>3, PTL DEF Spec

----------------------------------------------------------------------------
(* The middleware of the file.                                             *)

\* The definitions that can be used come one before another
LEMMA BeforeIsAnOrder ==
    ASSUME NEW d \in Seq(Definitions), MaxPriority \in Nat,
           NEW i \in DOMAIN d, NEW j \in DOMAIN d, NEW k \in DOMAIN d
    PROVE  /\ ~Before(d, i, i)
           /\ i # j => Before(d, i, j) \/ Before(d, j, i)
           /\ Before(d, i, j) /\ Before(d, j, k) => Before(d, i, k)
<1>1. /\ PriorityOf(d[i]) \in Nat /\ PriorityOf(d[j]) \in Nat
      /\ PriorityOf(d[k]) \in Nat
  <2>1. \A x \in DOMAIN d : d[x] \in Definitions
    OBVIOUS
  <2>2. \A mw \in Definitions : PriorityOf(mw) \in Nat
    BY DEF PriorityOf, Definitions
  <2> QED
    BY <2>1, <2>2
<1>2. i \in Nat /\ j \in Nat /\ k \in Nat
  OBVIOUS
<1> QED
  BY <1>1, <1>2 DEF Before

\* ... each in a place of its own among the places there are, which tells what
\* comes before what
LEMMA PlacesAreInOrder ==
    ASSUME NEW d \in Seq(Definitions), MaxPriority \in Nat
    PROVE  LET n == Cardinality(Kept(d)) IN
           /\ n \in Nat
           /\ \A i \in Kept(d) : Place(d, i) \in 1 .. n
           /\ \A i, k \in Kept(d) :
                 /\ Before(d, i, k) => Place(d, i) < Place(d, k)
                 /\ Place(d, i) = Place(d, k) => i = k
<1> DEFINE used == Kept(d)
           first(i) == {k \in used : Before(d, k, i)}
<1>1. used \subseteq DOMAIN d /\ IsFiniteSet(used)
  <2>1. IsFiniteSet(1 .. Len(d)) /\ DOMAIN d = 1 .. Len(d)
    BY FS_Interval
  <2>2. used \subseteq DOMAIN d
    BY DEF Kept
  <2> QED
    BY <2>1, <2>2, FS_Subset
<1>2. Cardinality(used) \in Nat
  BY <1>1, FS_CardinalityType
<1>3. \A i \in used : Place(d, i) = Cardinality(first(i)) + 1
  BY DEF Place
<1> HIDE DEF used
<1>4. ASSUME NEW i \in used
      PROVE  /\ IsFiniteSet(first(i)) /\ Cardinality(first(i)) \in Nat
             /\ Cardinality(first(i)) < Cardinality(used)
  <2>1. first(i) \subseteq used \ {i}
    BY <1>1, BeforeIsAnOrder
  <2>2. /\ IsFiniteSet(used \ {i})
        /\ Cardinality(used \ {i}) = Cardinality(used) - 1
    BY <1>1, FS_RemoveElement
  <2>3. /\ IsFiniteSet(first(i)) /\ Cardinality(first(i)) <= Cardinality(used \ {i})
    BY <2>1, <2>2, FS_Subset
  <2>4. Cardinality(first(i)) \in Nat
    BY <2>3, FS_CardinalityType
  <2> QED
    BY <1>2, <2>2, <2>3, <2>4
<1>5. ASSUME NEW i \in used, NEW k \in used, Before(d, i, k)
      PROVE  Cardinality(first(i)) < Cardinality(first(k))
  <2>1. first(i) \cup {i} \subseteq first(k) /\ i \notin first(i)
    BY <1>1, <1>5, BeforeIsAnOrder
  <2>2. Cardinality(first(i) \cup {i}) = Cardinality(first(i)) + 1
    BY <1>4, <2>1, FS_AddElement
  <2>3. Cardinality(first(i) \cup {i}) <= Cardinality(first(k))
    BY <1>4, <2>1, FS_Subset
  <2>4. Cardinality(first(i)) \in Nat /\ Cardinality(first(k)) \in Nat
    BY <1>4
  <2> HIDE DEF first
  <2> QED
    BY <2>2, <2>3, <2>4
<1>6. ASSUME NEW i \in used, NEW k \in used, i # k
      PROVE  Cardinality(first(i)) # Cardinality(first(k))
  <2>1. Before(d, i, k) \/ Before(d, k, i)
    BY <1>1, <1>6, BeforeIsAnOrder
  <2>2. Cardinality(first(i)) \in Nat /\ Cardinality(first(k)) \in Nat
    BY <1>4
  <2>3. \/ Cardinality(first(i)) < Cardinality(first(k))
        \/ Cardinality(first(k)) < Cardinality(first(i))
    BY <1>5, <2>1
  <2> HIDE DEF first
  <2> QED
    BY <2>2, <2>3
<1> HIDE DEF first
<1>7. \A i \in used : Place(d, i) \in 1 .. Cardinality(used)
  BY <1>2, <1>3, <1>4
<1>8. \A i, k \in used : Before(d, i, k) => Place(d, i) < Place(d, k)
  BY <1>3, <1>4, <1>5
<1>9. \A i, k \in used : Place(d, i) = Place(d, k) => i = k
  BY <1>3, <1>4, <1>6
<1> QED
  BY <1>2, <1>7, <1>8, <1>9 DEF used

\* ... and is found there (validateAndSortMiddleware)
LEMMA SortedIsInPlace ==
    ASSUME NEW d \in Seq(Definitions), MaxPriority \in Nat
    PROVE  \A i \in Kept(d) : /\ Place(d, i) \in DOMAIN ValidAndSorted(d)
                              /\ ValidAndSorted(d)[Place(d, i)] = d[i]
<1> TAKE i \in Kept(d)
<1>1. Place(d, i) \in 1 .. Cardinality(Kept(d))
  BY PlacesAreInOrder
<1>2. \A k \in Kept(d) : Place(d, k) = Place(d, i) => k = i
  BY PlacesAreInOrder
<1>3. (CHOOSE k \in Kept(d) : Place(d, k) = Place(d, i)) = i
  BY <1>2
<1> QED
  BY <1>1, <1>3 DEF ValidAndSorted

----------------------------------------------------------------------------
(* Nothing is accepted before start() has come to its end.                 *)

\* what loadMiddleware() makes of the file
Configured == IF file.format = "absent" THEN <<>>
              ELSE ValidAndSorted(file.definitions)

\* A start() that goes on has the middleware in place, which another start()
\* at most puts there again
ReadyInv ==
    /\ file \in Files /\ DOMAIN start = Starts
    /\ middleware \in {<<>>, Configured}
    /\ \A s \in Starts : start[s] = "hook" => middleware = Configured
    /\ listening \/ open # {} => hookRun /\ middleware = Configured

LEMMA ReadyStep ==
    ASSUME ReadyInv, [Next]_vars
    PROVE  ReadyInv'
<1> USE DEF ReadyInv, Configured, lifeVars, connVars
<1>1. ASSUME NEW s \in Starts, Start(s) PROVE ReadyInv'
  BY <1>1 DEF Start
<1>2. ASSUME NEW s \in Starts, Loaded(s) PROVE ReadyInv'
  BY <1>2 DEF Loaded
<1>3. ASSUME NEW s \in Starts, Listens(s) PROVE ReadyInv'
  BY <1>3 DEF Listens
<1>4. CASE Stop
  BY <1>4 DEF Stop
<1>5. ASSUME NEW c \in Conns, Connect(c) PROVE ReadyInv'
  BY <1>5 DEF Connect
<1>6. CASE UNCHANGED <<lifeVars, open>>
  BY <1>6
<1> QED
  BY <1>1, <1>2, <1>3, <1>4, <1>5, <1>6
  DEF Next, vars, Cleanup, Tick, Arrive, Parse, AfterParsing

\* No connection is accepted before the middleware of the file is in place and
\* in order, whatever the file holds and however calls of start() and stop()
\* run into one another.
THEOREM AcceptsWhenReady == Spec => []ListeningIsReady
<1>1. Init => ReadyInv
  BY DEF Init, ReadyInv
<1>2. ReadyInv /\ [Next]_vars => ReadyInv'
  BY ReadyStep
<1>3. ASSUME ReadyInv PROVE ListeningIsReady
  <2> SUFFICES ASSUME listening \/ open # {}, file.format \in {"module", "array"}
               PROVE  LET used == {i \in DOMAIN file.definitions :
                                      /\ file.definitions[i].valid
                                      /\ file.definitions[i].enabled}
                          before(i, k) ==
                              LET p == file.definitions[i].priority
                                  q == file.definitions[k].priority
                              IN  \/ /\ p # None
                                     /\ IF q = None THEN p < MaxPriority ELSE p < q
                                  \/ p = q /\ i < k
                      IN  \E place \in [used -> DOMAIN middleware] :
                              /\ \A i \in used : middleware[place[i]] = file.definitions[i]
                              /\ \A i, k \in used : before(i, k) => place[i] < place[k]
    BY <1>3 DEF ListeningIsReady, ReadyInv
  <2> DEFINE d == file.definitions
             place == [i \in Kept(d) |-> Place(d, i)]
  <2>1. d \in Seq(Definitions) /\ MaxPriority \in Nat
    BY <1>3, FilesAssumption DEF ReadyInv
  <2>2. middleware = ValidAndSorted(d)
    BY <1>3 DEF ReadyInv, Configured
  <2>3. /\ place \in [Kept(d) -> DOMAIN middleware]
        /\ \A i \in Kept(d) : middleware[place[i]] = d[i]
    BY <2>1, <2>2, SortedIsInPlace
  <2>4. ASSUME NEW i \in Kept(d), NEW k \in Kept(d),
               LET p == d[i].priority  q == d[k].priority
               IN  \/ /\ p # None
                      /\ IF q = None THEN p < MaxPriority ELSE p < q
                   \/ p = q /\ i < k
        PROVE  place[i] < place[k]
    <3>1. Before(d, i, k)
      BY <2>4 DEF Before, PriorityOf
    <3> QED
      BY <2>1, <3>1, PlacesAreInOrder
  <2> QED
    BY <2>3, <2>4 DEF Kept
<1> QED
  BY <1>1, <1>2, <1>3, PTL DEF Spec

----------------------------------------------------------------------------
(* Who a line is counted as.                                               *)

\* What a line is, and that lines come in their order
LinesShape ==
    /\ DOMAIN pc = Lines /\ DOMAIN line = Lines /\ DOMAIN countedAs = Lines
    /\ DOMAIN identity = Conns /\ DOMAIN fixed = Conns /\ DOMAIN context = Conns
    /\ open \subseteq Conns
    /\ \A h \in Lines : pc[h] # "idle" =>
          /\ line[h].conn \in open /\ line[h].from # None
          /\ line[h].identity => line[h].kind \notin {"control", "garbage", "unknown"}
    /\ \A g, h \in Lines : g < h /\ pc[g] = "idle" => pc[h] = "idle"

\* A connection that has named a sender keeps it
SenderKept ==
    \A c \in Conns : fixed[c] # None => identity[c].from = fixed[c]

\* Without an overlap a line that is handled is the last one of its connection
LastInFlight ==
    \A h, g \in Lines :
        /\ pc[h] \in {"arrived", "parsed"} /\ line[h].conn \notin overlapped
        /\ g > h /\ pc[g] # "idle"
        => line[g].conn # line[h].conn

\* ... so that the context and the identity are its own when it was parsed
OwnContext ==
    \A h \in Lines : pc[h] = "parsed" /\ line[h].conn \notin overlapped =>
        LET c == line[h].conn IN
        /\ line[h].kind \notin {"garbage", "unknown", "invalid"} =>
              context[c].data /\ ~context[c].error
        /\ identity[c].from # None
        /\ fixed[c] = None /\ line[h].kind \notin {"control", "garbage", "unknown"}
              => identity[c].from = line[h].from
        /\ line[h].identity => fixed[c] # None

\* Line h was counted as its own sender's or as that of the connection's, and
\* as no other once line f has named it
CountedFor(h) ==
    /\ countedAs[h] # None
    /\ line[h].kind # "control" => countedAs[h] \in {line[h].from, fixed[line[h].conn]}
    /\ \A f \in Lines :
          f <= h /\ pc[f] = "processed" /\ line[f].conn = line[h].conn /\ line[f].identity
          => fixed[line[h].conn] # None /\ countedAs[h] = fixed[line[h].conn]

AllCounted ==
    \A h \in Lines :
        /\ pc[h] = "processed" /\ line[h].conn \notin overlapped
        /\ Uses("afterParsing", "fromIdentity")
        => CountedFor(h)

CountInv == LinesShape /\ SenderKept /\ LastInFlight /\ OwnContext /\ AllCounted

\* A line begins to be handled: nothing that is known of others changes
LEMMA ArriveKeepsCount ==
    ASSUME CountInv, NEW h \in Lines, NEW c \in Conns, NEW l \in LineSet,
           Arrive(h, c, l)
    PROVE  CountInv'
<1>1. /\ UNCHANGED <<middleware, open, identity, fixed, context, countedAs>>
      /\ pc[h] = "idle" /\ c \in open
      /\ pc'[h] \in {"arrived", "dropped", "refused"}
      /\ line'[h].conn = c /\ line'[h].from = l.from /\ line'[h].kind = l.kind
      /\ line'[h].identity = l.identity
      /\ \A g \in Lines : g # h => pc'[g] = pc[g] /\ line'[g] = line[g]
      /\ \A g \in Lines : g < h => pc[g] # "idle"
      /\ DOMAIN pc' = Lines /\ DOMAIN line' = Lines
  BY DEF Arrive, CountInv, LinesShape, lifeVars
<1>2. /\ \A d \in Conns : d \notin overlapped' => d \notin overlapped
      /\ c \notin overlapped' => InFlight(c) = {}
  BY DEF Arrive
<1>3. LinesShape'
  BY <1>1, LineAssumption DEF CountInv, LinesShape
<1>4. SenderKept'
  BY <1>1 DEF CountInv, SenderKept
<1>5. \A g \in Lines : g > h => pc[g] = "idle"
  BY <1>1 DEF CountInv, LinesShape
<1>6. LastInFlight'
  BY <1>1, <1>2, <1>5 DEF CountInv, LastInFlight, LinesShape, InFlight
<1>7. OwnContext'
  BY <1>1, <1>2 DEF CountInv, OwnContext, LinesShape
<1>8. AllCounted'
  BY <1>1, <1>2 DEF CountInv, AllCounted, CountedFor, Uses, LinesShape
<1> QED
  BY <1>3, <1>4, <1>6, <1>7, <1>8 DEF CountInv

\* A line that is parsed leaves its own context, and a sender that is kept
LEMMA ParseKeepsCount ==
    ASSUME CountInv, NEW h \in Lines, Parse(h)
    PROVE  CountInv'
<1> DEFINE c == line[h].conn
<1>1. /\ UNCHANGED <<middleware, open, line, countedAs, overlapped>>
      /\ pc[h] = "arrived" /\ pc'[h] = "parsed" /\ c \in Conns
      /\ line[h].from # None
      /\ line[h].identity => line[h].kind \notin {"control", "garbage", "unknown"}
      /\ \A g \in Lines : g # h => pc'[g] = pc[g]
      /\ \A d \in Conns : d # c => /\ context'[d] = context[d]
                                   /\ identity'[d] = identity[d] /\ fixed'[d] = fixed[d]
      /\ line[h].kind \notin {"garbage", "unknown", "invalid"} =>
            context'[c].data /\ ~context'[c].error
      /\ identity'[c] = updateIdentityInfo(c, line[h])
      /\ fixed'[c] = IF fixed[c] = None /\ line[h].identity THEN line[h].from ELSE fixed[c]
  BY DEF Parse, CountInv, LinesShape, lifeVars
<1>2. LinesShape'
  BY <1>1 DEF Parse, CountInv, LinesShape
<1>3. /\ fixed[c] # None => identity'[c].from = fixed[c] /\ fixed'[c] = fixed[c]
      /\ identity'[c].from # None
      /\ fixed[c] = None /\ line[h].kind \notin {"control", "garbage", "unknown"}
            => identity'[c].from = line[h].from
  BY <1>1, AddressAssumption DEF updateIdentityInfo, CountInv, SenderKept
<1>4. SenderKept'
  BY <1>1, <1>3 DEF CountInv, SenderKept
<1>5. LastInFlight'
  BY <1>1 DEF CountInv, LastInFlight, LinesShape
<1>6. ASSUME NEW g \in Lines, g # h, pc[g] = "parsed", line[g].conn \notin overlapped
      PROVE  line[g].conn # c /\ line[g].conn \in Conns
  <2>1. g < h \/ h < g
    BY <1>6 DEF Lines
  <2> QED
    BY <1>1, <1>6, <2>1 DEF CountInv, LastInFlight, LinesShape
<1>7. OwnContext'
  <2> SUFFICES ASSUME NEW g \in Lines, pc'[g] = "parsed", line[g].conn \notin overlapped
               PROVE  LET d == line[g].conn IN
                      /\ line[g].kind \notin {"garbage", "unknown", "invalid"} =>
                            context'[d].data /\ ~context'[d].error
                      /\ identity'[d].from # None
                      /\ fixed'[d] = None /\ line[g].kind \notin {"control", "garbage", "unknown"}
                            => identity'[d].from = line[g].from
                      /\ line[g].identity => fixed'[d] # None
    BY <1>1 DEF OwnContext
  <2>1. CASE g = h
    BY <1>1, <1>3, <2>1
  <2>2. CASE g # h
    BY <1>1, <1>6, <2>2 DEF CountInv, OwnContext
  <2> QED
    BY <2>1, <2>2
<1>8. AllCounted'
  <2> SUFFICES ASSUME NEW g \in Lines, pc'[g] = "processed",
                      line[g].conn \notin overlapped,
                      Uses("afterParsing", "fromIdentity")
               PROVE  CountedFor(g)'
    BY <1>1 DEF AllCounted, Uses
  <2>1. pc[g] = "processed" /\ line[g].conn \in Conns
    BY <1>1 DEF CountInv, LinesShape
  <2>2. CountedFor(g)
    BY <2>1 DEF CountInv, AllCounted
  <2>3. fixed[line[g].conn] # None => fixed'[line[g].conn] = fixed[line[g].conn]
    BY <1>1, <1>3, <2>1
  <2> QED
    BY <1>1, <2>2, <2>3 DEF CountedFor
<1> QED
  BY <1>2, <1>4, <1>5, <1>7, <1>8 DEF CountInv

\* A line gets through after it was counted under the identity there is
LEMMA AfterParsingKeepsCount ==
    ASSUME CountInv, NEW h \in Lines, AfterParsing(h)
    PROVE  CountInv'
<1> DEFINE c == line[h].conn
<1>1. /\ UNCHANGED <<middleware, open, identity, fixed, context, line, overlapped>>
      /\ pc[h] = "parsed" /\ c \in Conns
      /\ pc'[h] \in {"dropped", "refused", "rejected", "processed"}
      /\ \A g \in Lines : g # h => pc'[g] = pc[g] /\ countedAs'[g] = countedAs[g]
      /\ DOMAIN pc' = Lines /\ DOMAIN countedAs' = Lines
  BY DEF AfterParsing, Goes, CountInv, LinesShape, lifeVars
<1>2. pc'[h] = "processed" =>
         /\ line[h].kind \notin {"garbage", "unknown", "invalid"}
         /\ \/ countedAs'[h] = identity[c].from
            \/ ~(/\ Uses("afterParsing", "fromIdentity")
                 /\ context[c].data /\ ~context[c].error)
  BY DEF AfterParsing, Goes, CountInv, LinesShape
<1>3. LinesShape'
  BY <1>1 DEF CountInv, LinesShape
<1>4. SenderKept'
  BY <1>1 DEF CountInv, SenderKept
<1>5. LastInFlight'
  BY <1>1 DEF CountInv, LastInFlight
<1>6. OwnContext'
  BY <1>1 DEF CountInv, OwnContext
<1>7. AllCounted'
  <2> SUFFICES ASSUME NEW g \in Lines, pc'[g] = "processed",
                      line[g].conn \notin overlapped,
                      Uses("afterParsing", "fromIdentity")
               PROVE  CountedFor(g)'
    BY <1>1 DEF AllCounted, Uses
  <2>1. CASE g = h
    <3>1. context[c].data /\ ~context[c].error
      BY <1>1, <1>2, <2>1 DEF CountInv, OwnContext
    <3>2. countedAs'[h] = identity[c].from
      BY <1>2, <2>1, <3>1
    <3>3. /\ identity[c].from # None
          /\ line[h].kind # "control" =>
                identity[c].from \in {line[h].from, fixed[c]}
      BY <1>1, <1>2, <2>1 DEF CountInv, OwnContext, SenderKept
    <3>4. ASSUME NEW f \in Lines, f <= h, pc'[f] = "processed", line[f].conn = c,
                 line[f].identity
          PROVE  fixed[c] # None
      <4>1. CASE f = h
        BY <1>1, <2>1, <3>4, <4>1 DEF CountInv, OwnContext
      <4>2. CASE f # h
        <5>1. CountedFor(f)
          BY <1>1, <2>1, <3>4, <4>2 DEF CountInv, AllCounted
        <5>2. f <= f
          BY DEF Lines
        <5> QED
          BY <1>1, <3>4, <4>2, <5>1, <5>2 DEF CountedFor
      <4> QED
        BY <4>1, <4>2
    <3>5. fixed[c] # None => identity[c].from = fixed[c]
      BY <1>1 DEF CountInv, SenderKept
    <3> QED
      BY <1>1, <2>1, <3>2, <3>3, <3>4, <3>5 DEF CountedFor
  <2>2. CASE g # h
    <3>1. CountedFor(g) /\ pc[g] = "processed"
      BY <1>1, <2>2 DEF CountInv, AllCounted
    <3>2. ~(h <= g /\ line[h].conn = line[g].conn)
      <4>1. h <= g => h < g
        BY <2>2 DEF Lines
      <4> QED
        BY <1>1, <3>1, <4>1 DEF CountInv, LastInFlight
    <3> QED
      BY <1>1, <2>2, <3>1, <3>2 DEF CountedFor
  <2> QED
    BY <2>1, <2>2
<1> QED
  BY <1>3, <1>4, <1>5, <1>6, <1>7 DEF CountInv

LEMMA CountStep ==
    ASSUME ReadyInv, CountInv, [Next]_vars
    PROVE  CountInv'
<1>1. ReadyInv' /\ file' = file
  BY ReadyStep DEF Next, vars, lifeVars, Start, Loaded, Listens, Stop, Cleanup, Tick,
     Connect, Arrive, Parse, AfterParsing
<1>2. ASSUME UNCHANGED <<identity, fixed, context, lineVars>>,
             open \subseteq open' /\ open' \subseteq Conns
      PROVE  CountInv'
  <2>1. \A h \in Lines : pc[h] # "idle" => open # {}
    BY DEF CountInv, LinesShape
  <2>2. open # {} => middleware' = middleware
    BY <1>1, <1>2 DEF ReadyInv, Configured
  <2>3. AllCounted'
    BY <1>2, <2>1, <2>2 DEF CountInv, AllCounted, CountedFor, Uses, lineVars
  <2> QED
    BY <1>2, <2>3 DEF CountInv, LinesShape, SenderKept, LastInFlight, OwnContext, lineVars
<1>3. ASSUME NEW c \in Conns, Connect(c) PROVE CountInv'
  BY <1>2, <1>3 DEF Connect, CountInv, LinesShape
<1>4. CASE UNCHANGED <<connVars, lineVars>>
  BY <1>2, <1>4 DEF connVars, CountInv, LinesShape
<1> QED
  BY <1>3, <1>4, ArriveKeepsCount, ParseKeepsCount, AfterParsingKeepsCount
  DEF Next, vars, Start, Loaded, Listens, Stop, Cleanup, Tick

\* On a connection without overlaps no line gets through uncounted, or counted
\* as a third party's, for any number of lines and connections.
THEOREM LinesAreCounted == Spec => []ProcessedIsCounted
<1>1. Init => ReadyInv /\ CountInv
  BY DEF Init, ReadyInv, CountInv, LinesShape, SenderKept, LastInFlight, OwnContext,
         AllCounted
<1>2. ReadyInv /\ CountInv /\ [Next]_vars => ReadyInv' /\ CountInv'
  BY ReadyStep, CountStep
<1>3. ASSUME CountInv PROVE ProcessedIsCounted
  <2> SUFFICES ASSUME NEW h \in Lines, pc[h] = "processed",
                      line[h].conn \notin overlapped,
                      Uses("afterParsing", "fromIdentity")
               PROVE  /\ line[h].kind # "control" =>
                            countedAs[h] \in {line[h].from, fixed[line[h].conn]}
                      /\ countedAs[h] # None
                      /\ \A g \in Lines : g > h /\ pc[g] = "processed"
                                          /\ line[g].conn = line[h].conn
                                          /\ line[h].identity =>
                            countedAs[g] = countedAs[h]
    BY DEF ProcessedIsCounted
  <2>1. \A g \in Lines : pc[g] = "processed" /\ line[g].conn = line[h].conn
                         => CountedFor(g)
    BY <1>3 DEF CountInv, AllCounted
  <2>2. h <= h /\ \A g \in Lines : g > h => h <= g
    BY DEF Lines
  <2> QED
    BY <2>1, <2>2 DEF CountedFor
<1> QED
  BY <1>1, <1>2, <1>3, PTL DEF Spec

=============================================================================
