----------------------- MODULE BtpsTransporterProofs -----------------------
(***************************************************************************)
(* Proofs about BtpsTransporter, for any receivers, clients, calls and     *)
(* limits.                                                                 *)
(***************************************************************************)
EXTENDS BtpsTransporter, TLAPS, FiniteSetTheorems

USE LimitAssumption, NoneAssumption

----------------------------------------------------------------------------
(* The pool's books.                                                       *)

ClientStates == {"unused", "live", "destroyed"}

PoolShape ==
    /\ maxConnections \in Nat
    /\ connections \in [Receivers -> Clients \cup {None}]
    /\ client \in [Clients -> ClientStates]
    /\ timer \in [Clients -> Receivers \cup {None}]

\* A call that has begun knows what it does
CallShape ==
    /\ DOMAIN pc = Calls /\ DOMAIN op = Calls
    /\ \A w \in Calls : pc[w] # "idle" => op[w] \in [kind : Kinds, to : Receivers]

\* The clients that are still to be created are nobody's
UnusedAreFree ==
    \A c \in Clients : client[c] = "unused" =>
        \A p \in Receivers : connections[p] # c

Books == PoolShape /\ CallShape /\ PoolOwnsClients /\ UnusedAreFree

\* The books say of which receivers a client is the connection: of one at
\* most, as a client has one timer
LEMMA OneReceiver ==
    ASSUME Books, NEW p \in Receivers, NEW q \in Receivers,
           connections[p] = connections[q], connections[p] # None
    PROVE  p = q
<1>1. connections[p] \in Clients
  BY DEF Books, PoolShape
<1>2. timer[connections[p]] = p /\ timer[connections[p]] = q
  BY <1>1 DEF Books, PoolOwnsClients
<1> QED
  BY <1>2

\* A fresh client is unused, when there is one
LEMMA FreshIsUnused ==
    ASSUME \E c \in Clients : client[c] = "unused"
    PROVE  FreshClient \in Clients /\ client[FreshClient] = "unused"
BY DEF FreshClient

\* Whatever takes the place of an entry, Pool keeps the books
LEMMA PoolKeepsBooks ==
    ASSUME Books, NEW p \in Receivers, NEW c, NEW fired,
           c = None \/ (c \in Clients /\ client[c] = "unused"),
           \A x \in fired : x = connections[p],
           Pool(p, c, fired)
    PROVE  /\ connections' \in [Receivers -> Clients \cup {None}]
           /\ client' \in [Clients -> ClientStates]
           /\ timer' \in [Clients -> Receivers \cup {None}]
           /\ PoolOwnsClients' /\ UnusedAreFree'
<1> DEFINE old == connections[p]
<1>1. /\ connections' \in [Receivers -> Clients \cup {None}]
      /\ client' \in [Clients -> ClientStates]
      /\ timer' \in [Clients -> Receivers \cup {None}]
  BY DEF Books, PoolShape, Pool, ClientStates
<1>2. \A q \in Receivers : connections'[q] = IF q = p THEN c ELSE connections[q]
  BY DEF Books, PoolShape, Pool
<1>3. \A q \in Receivers : q # p /\ connections[q] # None => connections[q] # old
  BY OneReceiver
<1>4. \A x \in Clients :
         /\ client'[x] = IF x = c THEN "live"
                         ELSE IF x = old THEN "destroyed" ELSE client[x]
         /\ timer'[x] = IF x = c THEN p ELSE IF x = old THEN None ELSE timer[x]
  BY DEF Pool
<1>5. c # None => \A q \in Receivers : connections[q] # c
  BY DEF Books, UnusedAreFree
<1>6. ASSUME NEW x \in Clients
      PROVE  /\ client'[x] = "live" => \E q \in Receivers : connections'[q] = x
             /\ \A q \in Receivers : timer'[x] = q <=> connections'[q] = x
             /\ client'[x] = "unused" => \A q \in Receivers : connections'[q] # x
  <2>1. x # None /\ None \notin Receivers
    BY DEF PoolShape
  <2>2. CASE x = c
    BY <1>2, <1>4, <1>5, <2>1, <2>2
  <2>3. CASE x # c /\ x = old
    BY <1>2, <1>3, <1>4, <2>1, <2>3
  <2>4. CASE x # c /\ x # old
    <3>1. client'[x] = client[x] /\ timer'[x] = timer[x]
      BY <1>4, <2>4
    <3>2. \A q \in Receivers : connections'[q] = x <=> connections[q] = x
      BY <1>2, <2>1, <2>4
    <3>3. client[x] = "live" => \E q \in Receivers : connections[q] = x
      BY <2>1 DEF Books, PoolOwnsClients, Pooled
    <3> QED
      BY <3>1, <3>2, <3>3 DEF Books, PoolOwnsClients, UnusedAreFree
  <2> QED
    BY <2>2, <2>3, <2>4
<1>7. \A x \in Clients : x # None
  OBVIOUS
<1>8. PoolOwnsClients'
  BY <1>6, <1>7 DEF PoolOwnsClients, Pooled
<1>9. UnusedAreFree'
  BY <1>6 DEF UnusedAreFree
<1> QED
  BY <1>1, <1>8, <1>9

\* A registration, too, whether it fails or not
LEMMA PerformKeepsBooks ==
    ASSUME Books, NEW w \in Calls, NEW o \in [kind : Kinds, to : Receivers],
           Perform(w, o)
    PROVE  /\ connections' \in [Receivers -> Clients \cup {None}]
           /\ client' \in [Clients -> ClientStates]
           /\ timer' \in [Clients -> Receivers \cup {None}]
           /\ PoolOwnsClients' /\ UnusedAreFree'
<1>1. o.to \in Receivers
  OBVIOUS
<1>2. CASE UNCHANGED poolVars
  BY <1>2 DEF Books, PoolShape, PoolOwnsClients, UnusedAreFree, Pooled, poolVars
<1>3. CASE Pool(o.to, None, {})
  BY <1>1, <1>3, PoolKeepsBooks
<1>4. CASE /\ \E c \in Clients : client[c] = "unused"
           /\ Pool(o.to, FreshClient, {})
  <2>1. FreshClient \in Clients /\ client[FreshClient] = "unused"
    BY <1>4, FreshIsUnused
  <2> QED
    BY <1>1, <1>4, <2>1, PoolKeepsBooks
<1> QED
  BY <1>2, <1>3, <1>4 DEF Perform

LEMMA CallShapeStep ==
    ASSUME CallShape, [Next]_vars
    PROVE  CallShape'
<1> USE DEF vars, poolVars, frameVars, sendVars, CallShape
<1>1. ASSUME NEW w \in Calls, NEW o \in [kind : Kinds, to : Receivers],
             Transport(w, o)
      PROVE  CallShape'
  BY <1>1 DEF Transport, Begin, Sends
<1>2. ASSUME NEW w \in Calls, NEW o \in [kind : Kinds, to : Receivers],
             Wait(w, o)
      PROVE  CallShape'
  BY <1>2 DEF Wait, Begin
<1>3. ASSUME NEW w \in Calls, NEW o \in [kind : Kinds, to : Receivers],
             Register(w, o)
      PROVE  CallShape'
  BY <1>3 DEF Register, Begin, Perform
<1>4. ASSUME NEW w \in Calls, LockResolved(w)
      PROVE  CallShape'
  BY <1>4 DEF LockResolved, Perform
<1>5. ASSUME NEW w \in Calls, Resume(w)
      PROVE  CallShape'
  BY <1>5 DEF Resume, Registering
<1>6. ASSUME NEW w \in Calls, SendOnNew(w)
      PROVE  CallShape'
  BY <1>6 DEF SendOnNew, Sends
<1>7. ASSUME NEW w \in Calls, Write(w)
      PROVE  CallShape'
  BY <1>7 DEF Write
<1>8. ASSUME NEW w \in Calls, NEW verdict \in {"response", "error"},
             Settle(w, verdict)
      PROVE  CallShape'
  BY <1>8 DEF Settle
<1>9. ASSUME NEW p \in Receivers, Deregister(p)
      PROVE  CallShape'
  BY <1>9 DEF Deregister
<1>10. ASSUME NEW p \in Receivers, UpdateConnection(p)
      PROVE  CallShape'
  BY <1>10 DEF UpdateConnection
<1>11. ASSUME UpdateConnectionTTL
      PROVE  CallShape'
  BY <1>11 DEF UpdateConnectionTTL
<1>12. ASSUME NEW n \in Limits, SetMaxConnections(n)
      PROVE  CallShape'
  BY <1>12 DEF SetMaxConnections
<1>13. ASSUME NEW c \in Clients, Expire(c)
      PROVE  CallShape'
  BY <1>13 DEF Expire
<1>14. ASSUME NEW c \in Clients, ConnectionTimeout(c)
      PROVE  CallShape'
  BY <1>14 DEF ConnectionTimeout
<1>15. ASSUME NEW c \in Clients, NEW active \in BOOLEAN, Event(c, active)
      PROVE  CallShape'
  BY <1>15 DEF Event
<1>16. ASSUME Destroy
      PROVE  CallShape'
  BY <1>16 DEF Destroy
<1>17. CASE UNCHANGED vars
  BY <1>17 DEF vars
<1> QED
  BY <1>1, <1>2, <1>3, <1>4, <1>5, <1>6, <1>7, <1>8, <1>9, <1>10, <1>11,
     <1>12, <1>13, <1>14, <1>15, <1>16, <1>17 DEF Next

\* Every step keeps the books: a timer is set for the connection it is to
\* remove, and a connection timeout leaves the client where it is
LEMMA PoolStep ==
    ASSUME Books, [Next]_vars
    PROVE  (PoolShape /\ PoolOwnsClients /\ UnusedAreFree)'
<1> USE DEF vars, poolVars, frameVars, sendVars
<1>1. ASSUME NEW w \in Calls, NEW o \in [kind : Kinds, to : Receivers],
             Transport(w, o)
      PROVE  (PoolShape /\ PoolOwnsClients /\ UnusedAreFree)'
  BY <1>1
  DEF Transport, Begin, Sends, Books, PoolShape, PoolOwnsClients,
      UnusedAreFree, Pooled, ClientStates
<1>2. ASSUME NEW w \in Calls, NEW o \in [kind : Kinds, to : Receivers],
             Wait(w, o)
      PROVE  (PoolShape /\ PoolOwnsClients /\ UnusedAreFree)'
  BY <1>2
  DEF Wait, Begin, Books, PoolShape, PoolOwnsClients, UnusedAreFree,
      Pooled, ClientStates
<1>3. ASSUME NEW w \in Calls, NEW o \in [kind : Kinds, to : Receivers],
             Register(w, o)
      PROVE  (PoolShape /\ PoolOwnsClients /\ UnusedAreFree)'
  <2>1. Perform(w, o) /\ maxConnections' = maxConnections
    BY <1>3 DEF Register
  <2> QED
    BY <2>1, PerformKeepsBooks DEF Books, PoolShape
<1>4. ASSUME NEW w \in Calls, LockResolved(w)
      PROVE  (PoolShape /\ PoolOwnsClients /\ UnusedAreFree)'
  <2>1. /\ Perform(w, op[w]) /\ maxConnections' = maxConnections
        /\ op[w] \in [kind : Kinds, to : Receivers]
    BY <1>4 DEF LockResolved, Books, CallShape
  <2> QED
    BY <2>1, PerformKeepsBooks DEF Books, PoolShape
<1>5. ASSUME NEW w \in Calls, Resume(w)
      PROVE  (PoolShape /\ PoolOwnsClients /\ UnusedAreFree)'
  BY <1>5
  DEF Resume, Registering, Books, PoolShape, PoolOwnsClients,
      UnusedAreFree, Pooled, ClientStates
<1>6. ASSUME NEW w \in Calls, SendOnNew(w)
      PROVE  (PoolShape /\ PoolOwnsClients /\ UnusedAreFree)'
  BY <1>6
  DEF SendOnNew, Sends, Books, PoolShape, PoolOwnsClients, UnusedAreFree,
      Pooled, ClientStates
<1>7. ASSUME NEW w \in Calls, Write(w)
      PROVE  (PoolShape /\ PoolOwnsClients /\ UnusedAreFree)'
  BY <1>7
  DEF Write, Books, PoolShape, PoolOwnsClients, UnusedAreFree, Pooled,
      ClientStates
<1>8. ASSUME NEW w \in Calls, NEW verdict \in {"response", "error"},
             Settle(w, verdict)
      PROVE  (PoolShape /\ PoolOwnsClients /\ UnusedAreFree)'
  BY <1>8
  DEF Settle, Books, PoolShape, PoolOwnsClients, UnusedAreFree, Pooled,
      ClientStates
<1>9. ASSUME NEW p \in Receivers, Deregister(p)
      PROVE  (PoolShape /\ PoolOwnsClients /\ UnusedAreFree)'
  <2>1. Pool(p, None, {}) /\ maxConnections' = maxConnections
    BY <1>9 DEF Deregister
  <2> QED
    BY <2>1, PoolKeepsBooks DEF Books, PoolShape
<1>10. ASSUME NEW p \in Receivers, UpdateConnection(p)
      PROVE  (PoolShape /\ PoolOwnsClients /\ UnusedAreFree)'
  BY <1>10
  DEF UpdateConnection, Books, PoolShape, PoolOwnsClients, UnusedAreFree,
      Pooled, ClientStates
<1>11. ASSUME UpdateConnectionTTL
      PROVE  (PoolShape /\ PoolOwnsClients /\ UnusedAreFree)'
  <2>1. ASSUME NEW c \in Clients, NEW p \in Receivers, connections[p] = c
        PROVE  (CHOOSE q \in Receivers : connections[q] = c) = timer[c]
    <3>1. timer[c] = p /\ \A q \in Receivers : connections[q] = c => q = timer[c]
      BY <2>1 DEF Books, PoolOwnsClients
    <3> QED
      BY <2>1, <3>1
  <2>2. timer' = [c \in Clients |-> timer[c]]
    BY <1>11, <2>1 DEF UpdateConnectionTTL
  <2>3. UNCHANGED <<maxConnections, connections, client, timer>>
    BY <1>11, <2>2 DEF UpdateConnectionTTL, Books, PoolShape
  <2> QED
    BY <2>3 DEF Books, PoolShape, PoolOwnsClients, UnusedAreFree, Pooled
<1>12. ASSUME NEW n \in Limits, SetMaxConnections(n)
      PROVE  (PoolShape /\ PoolOwnsClients /\ UnusedAreFree)'
  BY <1>12
  DEF SetMaxConnections, Books, PoolShape, PoolOwnsClients, UnusedAreFree,
      Pooled, ClientStates
<1>13. ASSUME NEW c \in Clients, Expire(c)
      PROVE  (PoolShape /\ PoolOwnsClients /\ UnusedAreFree)'
  <2>1. Pool(timer[c], None, {c}) /\ maxConnections' = maxConnections
    BY <1>13 DEF Expire
  <2>2. timer[c] \in Receivers /\ connections[timer[c]] = c
    BY <1>13 DEF Expire, Books, PoolShape, PoolOwnsClients
  <2> QED
    BY <2>1, <2>2, PoolKeepsBooks DEF Books, PoolShape
<1>14. ASSUME NEW c \in Clients, ConnectionTimeout(c)
      PROVE  (PoolShape /\ PoolOwnsClients /\ UnusedAreFree)'
  BY <1>14
  DEF ConnectionTimeout, Books, PoolShape, PoolOwnsClients, UnusedAreFree,
      Pooled, ClientStates
<1>15. ASSUME NEW c \in Clients, NEW active \in BOOLEAN, Event(c, active)
      PROVE  (PoolShape /\ PoolOwnsClients /\ UnusedAreFree)'
  BY <1>15
  DEF Event, Books, PoolShape, PoolOwnsClients, UnusedAreFree, Pooled,
      ClientStates
<1>16. ASSUME Destroy
      PROVE  (PoolShape /\ PoolOwnsClients /\ UnusedAreFree)'
  <2>1. /\ \A p \in Receivers : connections'[p] = None
        /\ \A c \in Clients :
              /\ client'[c] = IF c \in Pooled THEN "destroyed" ELSE client[c]
              /\ timer'[c] = IF c \in Pooled THEN None ELSE timer[c]
    BY <1>16 DEF Destroy
  <2>2. ASSUME NEW c \in Clients
        PROVE  client'[c] # "live" /\ \A p \in Receivers : timer'[c] # p
    BY <2>1 DEF Books, PoolShape, PoolOwnsClients, UnusedAreFree, Pooled
  <2>3. PoolShape'
    BY <1>16 DEF Destroy, Books, PoolShape, ClientStates
  <2>4. PoolOwnsClients'
    BY <2>1, <2>2 DEF PoolOwnsClients
  <2>5. UnusedAreFree'
    BY <2>1 DEF UnusedAreFree
  <2> QED
    BY <2>3, <2>4, <2>5
<1>17. CASE UNCHANGED vars
  BY <1>17
  DEF vars, Books, PoolShape, PoolOwnsClients, UnusedAreFree, Pooled,
      ClientStates
<1> QED
  BY <1>1, <1>2, <1>3, <1>4, <1>5, <1>6, <1>7, <1>8, <1>9, <1>10, <1>11,
     <1>12, <1>13, <1>14, <1>15, <1>16, <1>17 DEF Next

\* Pool, clients, timers and waiting calls agree with one another, whatever is
\* registered, updated, timed out and removed meanwhile (BtpsTransporter).
THEOREM BooksCorrect == Spec => []Books
<1>1. Init => Books
  BY DEF Init, Books, PoolShape, CallShape, PoolOwnsClients, Pooled,
         UnusedAreFree, ClientStates
<1>2. Books /\ [Next]_vars => Books'
  BY CallShapeStep, PoolStep DEF Books
<1> QED
  BY <1>1, <1>2, PTL DEF Spec

\* The pool owns its clients, in every behaviour.
THEOREM PoolCorrect == Spec => []PoolOwnsClients
<1>1. Books => PoolOwnsClients
  BY DEF Books
<1> QED
  BY <1>1, BooksCorrect, PTL

----------------------------------------------------------------------------
(* The bound on the pool.                                                  *)

\* The pool grows by one client at most, and only where there is room for it
Grows == \E p \in Receivers, c \in Clients :
            ~Full(p) /\ Pooled' \subseteq (Pooled \ {connections[p]}) \cup {c}

LEMMA PoolTakesAway ==
    ASSUME Books, NEW p \in Receivers, NEW fired, Pool(p, None, fired)
    PROVE  Pooled' \subseteq Pooled
BY DEF Pool, Books, PoolShape, Pooled

LEMMA PoolAddsOne ==
    ASSUME Books, NEW p \in Receivers, NEW c \in Clients, NEW fired, Pool(p, c, fired)
    PROVE  Pooled' \subseteq (Pooled \ {connections[p]}) \cup {c}
<1>1. \A q \in Receivers : connections'[q] = IF q = p THEN c ELSE connections[q]
  BY DEF Pool, Books, PoolShape
<1>2. \A q \in Receivers :
         q # p /\ connections[q] # None => connections[q] # connections[p]
  BY OneReceiver
<1> QED
  BY <1>1, <1>2 DEF Pooled

LEMMA PerformGrows ==
    ASSUME Books, NEW w \in Calls, NEW o \in [kind : Kinds, to : Receivers],
           Perform(w, o)
    PROVE  Pooled' \subseteq Pooled \/ Grows
<1>1. o.to \in Receivers
  OBVIOUS
<1>2. CASE UNCHANGED poolVars
  BY <1>2 DEF Pooled, poolVars
<1>3. CASE Pool(o.to, None, {})
  BY <1>1, <1>3, PoolTakesAway
<1>4. CASE /\ ~Full(o.to)
           /\ \E c \in Clients : client[c] = "unused"
           /\ Pool(o.to, FreshClient, {})
  <2>1. FreshClient \in Clients
    BY <1>4, FreshIsUnused
  <2> QED
    BY <1>1, <1>4, <2>1, PoolAddsOne DEF Grows
<1> QED
  BY <1>2, <1>3, <1>4 DEF Perform

\* Only a registration makes the pool grow
LEMMA StepGrows ==
    ASSUME Books, [Next]_vars
    PROVE  Pooled' \subseteq Pooled \/ Grows
<1>1. ASSUME NEW w \in Calls, NEW o \in [kind : Kinds, to : Receivers], Register(w, o)
      PROVE  Pooled' \subseteq Pooled \/ Grows
  BY <1>1, PerformGrows DEF Register
<1>2. ASSUME NEW w \in Calls, LockResolved(w)
      PROVE  Pooled' \subseteq Pooled \/ Grows
  <2>1. Perform(w, op[w]) /\ op[w] \in [kind : Kinds, to : Receivers]
    BY <1>2 DEF LockResolved, Books, CallShape
  <2> QED
    BY <2>1, PerformGrows
<1>3. ASSUME NEW p \in Receivers, Deregister(p)
      PROVE  Pooled' \subseteq Pooled \/ Grows
  BY <1>3, PoolTakesAway DEF Deregister
<1>4. ASSUME NEW c \in Clients, Expire(c)
      PROVE  Pooled' \subseteq Pooled \/ Grows
  <2>1. timer[c] \in Receivers /\ Pool(timer[c], None, {c})
    BY <1>4 DEF Expire, Books, PoolShape
  <2> QED
    BY <2>1, PoolTakesAway
<1>5. CASE UNCHANGED connections
  BY <1>5 DEF Pooled
<1>6. CASE Destroy
  BY <1>6 DEF Destroy, Pooled
<1> QED
  BY <1>1, <1>2, <1>3, <1>4, <1>5, <1>6
  DEF Next, vars, poolVars, Transport, Wait, Resume, SendOnNew, Write, Settle,
      UpdateConnection, UpdateConnectionTTL, SetMaxConnections,
      ConnectionTimeout, Event

\* A pool to which clients are added one by one is finite
PoolIsFinite == IsFiniteSet(Pooled)

LEMMA FiniteStep ==
    ASSUME PoolIsFinite, Pooled' \subseteq Pooled \/ Grows
    PROVE  PoolIsFinite'
<1>1. CASE Pooled' \subseteq Pooled
  BY <1>1, FS_Subset DEF PoolIsFinite
<1>2. CASE Grows
  <2>1. PICK p \in Receivers, c \in Clients :
           Pooled' \subseteq (Pooled \ {connections[p]}) \cup {c}
    BY <1>2 DEF Grows
  <2>2. IsFiniteSet(Pooled \ {connections[p]})
    BY FS_Subset DEF PoolIsFinite
  <2>3. IsFiniteSet((Pooled \ {connections[p]}) \cup {c})
    BY <2>2, FS_AddElement
  <2> QED
    BY <2>1, <2>3, FS_Subset DEF PoolIsFinite
<1> QED
  BY <1>1, <1>2

\* Where there is room for one there is one more at most afterwards
LEMMA BoundStep ==
    ASSUME Books, PoolIsFinite, Pooled' \subseteq Pooled \/ Grows,
           Cardinality(Pooled') > Cardinality(Pooled)
    PROVE  Cardinality(Pooled') <= maxConnections
<1>1. CASE Pooled' \subseteq Pooled
  <2>1. /\ Cardinality(Pooled') <= Cardinality(Pooled)
        /\ Cardinality(Pooled) \in Nat /\ Cardinality(Pooled') \in Nat
    BY <1>1, FS_Subset, FS_CardinalityType DEF PoolIsFinite
  <2> QED
    BY <2>1
<1>2. CASE Grows
  <2>1. PICK p \in Receivers, c \in Clients :
           ~Full(p) /\ Pooled' \subseteq (Pooled \ {connections[p]}) \cup {c}
    BY <1>2 DEF Grows
  <2> DEFINE Rest == Pooled \ {connections[p]}
  <2>2. IsFiniteSet(Rest) /\ Cardinality(Rest) \in Nat
    BY FS_Subset, FS_CardinalityType DEF PoolIsFinite
  <2>3. /\ IsFiniteSet(Rest \cup {c}) /\ Cardinality(Rest \cup {c}) \in Nat
        /\ Cardinality(Rest \cup {c}) <= Cardinality(Rest) + 1
    <3>1. /\ IsFiniteSet(Rest \cup {c})
          /\ Cardinality(Rest \cup {c})
                = IF c \in Rest THEN Cardinality(Rest) ELSE Cardinality(Rest) + 1
      BY <2>2, FS_AddElement
    <3> QED
      BY <2>2, <3>1
  <2>4. Cardinality(Pooled') <= Cardinality(Rest \cup {c}) /\ Cardinality(Pooled') \in Nat
    BY <2>1, <2>3, FS_Subset, FS_CardinalityType
  <2>5. Cardinality(Rest) < maxConnections /\ maxConnections \in Nat
    BY <2>1, <2>2 DEF Full, Books, PoolShape
  <2> HIDE DEF Rest
  <2> QED
    BY <2>2, <2>3, <2>4, <2>5
<1> QED
  BY <1>1, <1>2

\* The pool stays within its bound, however the limit is changed and whichever
\* registrations wait for one another; none of it depends on how many
\* receivers there are.
THEOREM BoundHolds == Spec => PoolIsBounded
<1>1. Init => PoolIsFinite
  <2>1. Init => Pooled = {}
    BY DEF Init, Pooled
  <2> QED
    BY <2>1, FS_EmptySet DEF PoolIsFinite
<1>2. Books /\ PoolIsFinite /\ [Next]_vars => PoolIsFinite'
  BY StepGrows, FiniteStep
<1>3. Books /\ PoolIsFinite /\ [Next]_vars
         => [Cardinality(Pooled') > Cardinality(Pooled)
               => Cardinality(Pooled') <= maxConnections]_vars
  BY StepGrows, BoundStep
<1> QED
  BY <1>1, <1>2, <1>3, BooksCorrect, PTL DEF Spec, PoolIsBounded

----------------------------------------------------------------------------
(* The connections of the calls.                                           *)

\* What a call has got is a client that was created, and it has got nothing
\* before it has begun
ViaShape ==
    /\ DOMAIN via = Calls
    /\ \A w \in Calls : via[w] # None =>
          via[w] \in Clients /\ client[via[w]] # "unused" /\ pc[w] # "idle"

CallBooks == Books /\ ViaShape /\ CallsKeepReceiver

\* While a call keeps its client, the entry of its receiver may only change
\* with the client's destruction
Safe(w) ==
    /\ via[w] # None => via[w] \in Clients /\ client[via[w]] # "unused"
    /\ via[w] # None /\ client[via[w]] = "live" => connections[op[w].to] = via[w]

\* Whatever takes the place of an entry, the calls that held its client see it
\* destroyed, and no call held the new one
LEMMA PoolKeepsCalls ==
    ASSUME CallBooks, NEW p \in Receivers, NEW c, NEW fired,
           c = None \/ (c \in Clients /\ client[c] = "unused"),
           Pool(p, c, fired), NEW w \in Calls, via'[w] = via[w], op'[w] = op[w]
    PROVE  Safe(w)'
<1> SUFFICES ASSUME via[w] # None
             PROVE  /\ client'[via[w]] # "unused"
                    /\ client'[via[w]] = "live" => connections'[op[w].to] = via[w]
  BY DEF CallBooks, ViaShape, Safe
<1>1. via[w] \in Clients /\ client[via[w]] # "unused" /\ pc[w] # "idle"
  BY DEF CallBooks, ViaShape
<1>2. op[w].to \in Receivers
  BY <1>1 DEF CallBooks, Books, CallShape
<1>3. via[w] # c
  BY <1>1
<1>4. client'[via[w]] = IF via[w] = connections[p] THEN "destroyed" ELSE client[via[w]]
  BY <1>1, <1>3 DEF Pool
<1>5. connections'[op[w].to] = IF op[w].to = p THEN c ELSE connections[op[w].to]
  BY <1>2 DEF Pool, CallBooks, Books, PoolShape
<1> QED
  BY <1>1, <1>4, <1>5 DEF CallBooks, CallsKeepReceiver

\* A registration gives its call the client that it makes the receiver's entry
LEMMA PerformKeepsCalls ==
    ASSUME CallBooks, NEW w \in Calls, NEW o \in [kind : Kinds, to : Receivers],
           Perform(w, o), op'[w] = o, pc[w] = "idle" => via[w] = None,
           op[w] = o \/ via[w] = None, \A v \in Calls : v # w => op'[v] = op[v]
    PROVE  /\ DOMAIN via' = Calls /\ pc'[w] # "idle"
           /\ \A v \in Calls : v # w => pc'[v] = pc[v]
           /\ \A v \in Calls : Safe(v)'
<1>1. o.to \in Receivers /\ DOMAIN via = Calls /\ DOMAIN pc = Calls
  BY DEF CallBooks, Books, CallShape, ViaShape
<1>2. /\ DOMAIN via' = Calls /\ pc'[w] # "idle"
      /\ \A v \in Calls : v # w => pc'[v] = pc[v]
  BY <1>1 DEF Perform
<1>3. \A v \in Calls : via[v] # None =>
         via[v] \in Clients /\ client[via[v]] # "unused" /\ op'[v] = op[v]
  BY DEF CallBooks, ViaShape
<1>4. CASE UNCHANGED <<poolVars, via>>
  <2>1. UNCHANGED <<via, connections, client>>
    BY <1>4 DEF poolVars
  <2>2. \A v \in Calls : via[v] # None /\ client[via[v]] = "live" => connections[op[v].to] = via[v]
    BY DEF CallBooks, CallsKeepReceiver
  <2>3. \A v \in Calls : Safe(v)'
    BY <1>3, <2>1, <2>2 DEF Safe
  <2> QED
    BY <1>2, <2>3
<1>5. CASE Pool(o.to, None, {}) /\ UNCHANGED via
  <2> SUFFICES ASSUME NEW v \in Calls
               PROVE  Safe(v)'
    BY <1>2
  <2>1. CASE via[v] = None
    BY <1>5, <2>1 DEF Safe
  <2>2. CASE via[v] # None
    BY <1>1, <1>3, <1>5, <2>2, PoolKeepsCalls
  <2> QED
    BY <2>1, <2>2
<1>6. CASE /\ \E c \in Clients : client[c] = "unused"
           /\ Pool(o.to, FreshClient, {})
           /\ via' = [via EXCEPT ![w] = FreshClient]
  <2>1. FreshClient \in Clients /\ client[FreshClient] = "unused"
    BY <1>6, FreshIsUnused
  <2> SUFFICES ASSUME NEW v \in Calls
               PROVE  Safe(v)'
    BY <1>2
  <2>2. CASE v = w
    <3>1. via'[w] = FreshClient /\ client'[FreshClient] = "live"
      BY <1>1, <1>6, <2>1 DEF Pool
    <3>2. connections'[o.to] = FreshClient
      BY <1>1, <1>6 DEF Pool, CallBooks, Books, PoolShape
    <3> QED
      BY <2>1, <2>2, <3>1, <3>2 DEF Safe
  <2>3. CASE v # w /\ via[v] = None
    BY <1>1, <1>6, <2>3 DEF Safe
  <2>4. CASE v # w /\ via[v] # None
    <3>1. via'[v] = via[v] /\ op'[v] = op[v]
      BY <1>1, <1>6, <2>4
    <3> QED
      BY <1>1, <1>6, <2>1, <3>1, PoolKeepsCalls
  <2> QED
    BY <2>2, <2>3, <2>4
<1> QED
  BY <1>2, <1>4, <1>5, <1>6 DEF Perform

\* Every step keeps the calls at the connections of their receivers
LEMMA CallsStep ==
    ASSUME CallBooks, [Next]_vars
    PROVE  (ViaShape /\ CallsKeepReceiver)'
<1>1. ASSUME DOMAIN via' = Calls,
             \A w \in Calls : Safe(w)' /\ (via'[w] # None => pc'[w] # "idle")
      PROVE  (ViaShape /\ CallsKeepReceiver)'
  BY <1>1 DEF ViaShape, CallsKeepReceiver, Safe
<1>2. /\ DOMAIN via = Calls /\ DOMAIN pc = Calls /\ DOMAIN op = Calls
      /\ \A w \in Calls : Safe(w) /\ (via[w] # None => pc[w] # "idle")
  BY DEF CallBooks, Books, CallShape, ViaShape, CallsKeepReceiver, Safe
<1>3. ASSUME NEW p \in Receivers, NEW fired, Pool(p, None, fired), UNCHANGED <<op, via, pc>>
      PROVE  (ViaShape /\ CallsKeepReceiver)'
  <2>1. \A w \in Calls : Safe(w)'
    BY <1>3, PoolKeepsCalls
  <2> QED
    BY <1>1, <1>2, <1>3, <2>1
<1>4. ASSUME NEW w \in Calls, NEW o \in [kind : Kinds, to : Receivers], Transport(w, o)
      PROVE  (ViaShape /\ CallsKeepReceiver)'
  <2>1. /\ op' = [op EXCEPT ![w] = o] /\ via' = [via EXCEPT ![w] = connections[o.to]]
        /\ pc' = [pc EXCEPT ![w] = "sent"] /\ UNCHANGED <<connections, client>>
        /\ connections[o.to] # None
    BY <1>4 DEF Transport, Begin, Sends, poolVars
  <2>2. connections[o.to] \in Clients /\ client[connections[o.to]] # "unused"
    BY <2>1 DEF CallBooks, Books, PoolShape, UnusedAreFree
  <2>3. ASSUME NEW v \in Calls
        PROVE  Safe(v)' /\ (via'[v] # None => pc'[v] # "idle")
    <3>1. CASE v = w
      BY <1>2, <2>1, <2>2, <3>1 DEF Safe
    <3>2. CASE v # w
      BY <1>2, <2>1, <3>2 DEF Safe
    <3> QED
      BY <3>1, <3>2
  <2> QED
    BY <1>1, <1>2, <2>1, <2>3
<1>5. ASSUME NEW w \in Calls, NEW o \in [kind : Kinds, to : Receivers], Wait(w, o)
      PROVE  (ViaShape /\ CallsKeepReceiver)'
  <2>1. /\ op' = [op EXCEPT ![w] = o] /\ pc[w] = "idle"
        /\ pc' = [pc EXCEPT ![w] = "waiting"] /\ UNCHANGED <<via, connections, client>>
    BY <1>5 DEF Wait, Begin, poolVars
  <2>2. ASSUME NEW v \in Calls
        PROVE  Safe(v)' /\ (via'[v] # None => pc'[v] # "idle")
    <3>1. CASE v = w
      BY <1>2, <2>1, <3>1 DEF Safe
    <3>2. CASE v # w
      BY <1>2, <2>1, <3>2 DEF Safe
    <3> QED
      BY <3>1, <3>2
  <2> QED
    BY <1>1, <1>2, <2>1, <2>2
<1>6. ASSUME NEW w \in Calls, NEW o \in [kind : Kinds, to : Receivers], Register(w, o)
      PROVE  (ViaShape /\ CallsKeepReceiver)'
  <2>1. Perform(w, o) /\ op' = [op EXCEPT ![w] = o] /\ pc[w] = "idle"
    BY <1>6 DEF Register, Begin
  <2>2. op'[w] = o /\ via[w] = None /\ \A v \in Calls : v # w => op'[v] = op[v]
    BY <1>2, <2>1
  <2>3. /\ DOMAIN via' = Calls /\ pc'[w] # "idle"
        /\ \A v \in Calls : v # w => pc'[v] = pc[v]
        /\ \A v \in Calls : Safe(v)'
    BY <2>1, <2>2, PerformKeepsCalls
  <2>4. \A v \in Calls : v # w => via'[v] = via[v]
    BY <1>2, <2>1 DEF Perform
  <2> QED
    BY <1>1, <1>2, <2>3, <2>4
<1>7. ASSUME NEW w \in Calls, LockResolved(w)
      PROVE  (ViaShape /\ CallsKeepReceiver)'
  <2>1. Perform(w, op[w]) /\ op' = op /\ pc[w] # "idle"
        /\ op[w] \in [kind : Kinds, to : Receivers]
    BY <1>7 DEF LockResolved, CallBooks, Books, CallShape, frameVars
  <2>2. /\ DOMAIN via' = Calls /\ pc'[w] # "idle"
        /\ \A v \in Calls : v # w => pc'[v] = pc[v]
        /\ \A v \in Calls : Safe(v)'
    BY <2>1, PerformKeepsCalls
  <2>3. \A v \in Calls : v # w => via'[v] = via[v]
    BY <1>2, <2>1 DEF Perform
  <2> QED
    BY <1>1, <1>2, <2>2, <2>3
<1>8. ASSUME NEW w \in Calls, Resume(w) \/ SendOnNew(w)
      PROVE  (ViaShape /\ CallsKeepReceiver)'
  <2>1. /\ UNCHANGED <<via, op, connections, client>> /\ pc'[w] # "idle"
        /\ \A v \in Calls : v # w => pc'[v] = pc[v]
    <3>1. CASE Resume(w)
      BY <1>2, <3>1 DEF Resume, poolVars, frameVars
    <3>2. CASE SendOnNew(w)
      BY <1>2, <3>2 DEF SendOnNew, Sends, poolVars, frameVars
    <3> QED
      BY <1>8, <3>1, <3>2
  <2> QED
    BY <1>1, <1>2, <2>1 DEF Safe
<1>9. CASE UNCHANGED <<via, op, pc, connections, client>>
  BY <1>1, <1>2, <1>9 DEF Safe
<1>10. ASSUME NEW p \in Receivers, Deregister(p)
       PROVE  (ViaShape /\ CallsKeepReceiver)'
  BY <1>3, <1>10 DEF Deregister, frameVars
<1>11. ASSUME NEW c \in Clients, Expire(c)
       PROVE  (ViaShape /\ CallsKeepReceiver)'
  <2>1. timer[c] \in Receivers
    BY <1>11 DEF Expire, CallBooks, Books, PoolShape
  <2> QED
    BY <1>3, <1>11, <2>1 DEF Expire, frameVars
<1>12. ASSUME NEW c \in Clients, ConnectionTimeout(c)
       PROVE  (ViaShape /\ CallsKeepReceiver)'
  <2>1. /\ UNCHANGED <<via, op, pc, connections>>
        /\ \A d \in Clients : client'[d] = client[d] \/ client'[d] = "destroyed"
    BY <1>12 DEF ConnectionTimeout, frameVars, CallBooks, Books, PoolShape
  <2>2. \A w \in Calls : Safe(w)'
    BY <1>2, <2>1 DEF Safe
  <2> QED
    BY <1>1, <1>2, <2>1, <2>2
<1>13. CASE Destroy
  <2>1. /\ UNCHANGED <<via, op, pc>>
        /\ \A c \in Clients : client'[c] = IF c \in Pooled THEN "destroyed" ELSE client[c]
    BY <1>13 DEF Destroy, frameVars
  <2>2. \A c \in Clients : client[c] = "live" => c \in Pooled
    BY DEF CallBooks, Books, PoolOwnsClients
  <2>3. \A c \in Clients : client'[c] # "live" /\ (client[c] # "unused" => client'[c] # "unused")
    BY <2>1, <2>2
  <2>4. \A w \in Calls : Safe(w)'
    BY <1>2, <2>1, <2>3 DEF Safe
  <2> QED
    BY <1>1, <1>2, <2>1, <2>4
<1> QED
  BY <1>4, <1>5, <1>6, <1>7, <1>8, <1>9, <1>10, <1>11, <1>12, <1>13
  DEF Next, vars, poolVars, frameVars, Write, Settle, UpdateConnection,
      UpdateConnectionTTL, SetMaxConnections, Event

\* A call goes out over the connection of its receiver as it is then, whatever
\* was overridden, expired, removed and registered anew while it waited.
THEOREM ReceiversAreKept == Spec => []CallsKeepReceiver
<1>1. Init => CallBooks
  <2>1. Init => Books
    BY DEF Init, Books, PoolShape, CallShape, PoolOwnsClients, Pooled,
           UnusedAreFree, ClientStates
  <2>2. Init => ViaShape /\ CallsKeepReceiver
    BY DEF Init, ViaShape, CallsKeepReceiver
  <2> QED
    BY <2>1, <2>2 DEF CallBooks
<1>2. CallBooks /\ [Next]_vars => CallBooks'
  <2>1. Books /\ [Next]_vars => Books'
    BY CallShapeStep, PoolStep DEF Books
  <2> QED
    BY <2>1, CallsStep DEF CallBooks
<1>3. CallBooks => CallsKeepReceiver
  BY DEF CallBooks
<1> QED
  BY <1>1, <1>2, <1>3, PTL DEF Spec

=============================================================================
