------------------------- MODULE BtpsClientProofs -------------------------
(***************************************************************************)
(* Proofs about BtpsClient, for every set of calls, ids and sockets and    *)
(* every setting of the options: the books it keeps of its calls, what it  *)
(* writes, its flags, and that it implements RequestReply.                 *)
(***************************************************************************)
EXTENDS BtpsClient, TLAPS, FiniteSetTheorems, SequenceTheorems

USE IdOfAssumption, NoneAssumption, WriteAssumption, OptionAssumption

----------------------------------------------------------------------------
(* The queue as a Map.                                                     *)

\* A function on 1 .. n is a sequence of length n.
LEMMA SeqOfLength ==
    ASSUME NEW S, NEW n \in Nat, NEW f \in [1 .. n -> S]
    PROVE  f \in Seq(S) /\ Len(f) = n /\ DOMAIN f = 1 .. n
<1>1. f \in Seq(S)
  BY SeqDef
<1>2. Len(f) \in Nat /\ DOMAIN f = 1 .. Len(f)
  BY <1>1, LenProperties
<1>3. 1 .. Len(f) = 1 .. n
  BY <1>2
<1>4. Len(f) = n
  BY <1>2, <1>3, SMT
<1> QED
  BY <1>1, <1>2, <1>4

\* Deleting an id leaves a queue of the same calls, no longer than before.
LEMMA WithoutIsQueue ==
    ASSUME NEW q \in Seq(Requests), NEW id
    PROVE  /\ Without(q, id) \in Seq(Requests)
           /\ Len(Without(q, id)) <= Len(q)
           /\ \A i \in DOMAIN Without(q, id) :
                 \E k \in DOMAIN q : k \in {i, i + 1} /\ Without(q, id)[i] = q[k]
<1>0. Len(q) \in Nat /\ DOMAIN q = 1 .. Len(q) /\ q \in [1 .. Len(q) -> Requests]
  BY LenProperties
<1>1. CASE ~ \E i \in DOMAIN q : IdOf[q[i]] = id
  BY <1>0, <1>1 DEF Without
<1>2. CASE \E i \in DOMAIN q : IdOf[q[i]] = id
  <2> DEFINE d == CHOOSE i \in DOMAIN q : IdOf[q[i]] = id
             f == [k \in 1 .. (Len(q) - 1) |-> IF k < d THEN q[k] ELSE q[k + 1]]
  <2>1. d \in 1 .. Len(q)
    BY <1>0, <1>2
  <2>2. Without(q, id) = f
    BY <1>2 DEF Without
  <2>3. Len(q) - 1 \in Nat
    BY <1>0, <2>1
  <2>4. f \in [1 .. (Len(q) - 1) -> Requests]
    BY <1>0, <2>1, <2>3
  <2> HIDE DEF d
  <2>5. f \in Seq(Requests) /\ Len(f) = Len(q) - 1 /\ DOMAIN f = 1 .. (Len(q) - 1)
    BY <2>3, <2>4, SeqOfLength
  <2>6. \A i \in DOMAIN f : \E k \in DOMAIN q : k \in {i, i + 1} /\ f[i] = q[k]
    BY <1>0, <2>1, <2>5
  <2> HIDE DEF f
  <2> QED
    BY <1>0, <2>2, <2>5, <2>6
<1> QED
  BY <1>1, <1>2

Distinct(q) == \A i, k \in DOMAIN q : IdOf[q[i]] = IdOf[q[k]] => i = k

\* A queue of distinct ids stays one, and the id that is deleted is gone.
LEMMA WithoutRemoves ==
    ASSUME NEW q \in Seq(Requests), NEW id, Distinct(q)
    PROVE  /\ Distinct(Without(q, id))
           /\ \A i \in DOMAIN Without(q, id) : IdOf[Without(q, id)[i]] # id
<1>0. Len(q) \in Nat /\ DOMAIN q = 1 .. Len(q) /\ q \in [1 .. Len(q) -> Requests]
  BY LenProperties
<1>1. CASE ~ \E i \in DOMAIN q : IdOf[q[i]] = id
  BY <1>0, <1>1 DEF Without
<1>2. CASE \E i \in DOMAIN q : IdOf[q[i]] = id
  <2> DEFINE d == CHOOSE i \in DOMAIN q : IdOf[q[i]] = id
             f == [k \in 1 .. (Len(q) - 1) |-> IF k < d THEN q[k] ELSE q[k + 1]]
             at(i) == IF i < d THEN i ELSE i + 1
  <2>1. d \in 1 .. Len(q) /\ IdOf[q[d]] = id
    BY <1>0, <1>2
  <2>2. Without(q, id) = f
    BY <1>2 DEF Without
  <2> HIDE DEF d
  <2>3. DOMAIN f = 1 .. (Len(q) - 1)
    OBVIOUS
  <2>4. \A i \in DOMAIN f : at(i) \in DOMAIN q /\ f[i] = q[at(i)] /\ at(i) # d
    BY <1>0, <2>1
  <2>5. \A i, k \in DOMAIN f : at(i) = at(k) => i = k
    BY <1>0, <2>1
  <2> HIDE DEF f, at
  <2>6. Distinct(f)
    BY <2>4, <2>5 DEF Distinct
  <2>7. \A i \in DOMAIN f : IdOf[f[i]] # id
    BY <1>0, <2>1, <2>4 DEF Distinct
  <2> QED
    BY <2>2, <2>6, <2>7
<1> QED
  BY <1>1, <1>2

\* Setting an id makes the queue one call longer, or leaves its length.
LEMMA WithIsQueue ==
    ASSUME NEW q \in Seq(Requests), NEW r \in Requests
    PROVE  /\ With(q, r) \in Seq(Requests)
           /\ Len(With(q, r)) \in {Len(q), Len(q) + 1}
           /\ \A i \in DOMAIN With(q, r) :
                 With(q, r)[i] = r \/ \E k \in DOMAIN q : With(q, r)[i] = q[k]
           /\ Distinct(q) => Distinct(With(q, r))
<1>0. Len(q) \in Nat /\ DOMAIN q = 1 .. Len(q) /\ q \in [1 .. Len(q) -> Requests]
  BY LenProperties
<1>1. CASE \E i \in DOMAIN q : IdOf[q[i]] = IdOf[r]
  <2> DEFINE f == [i \in DOMAIN q |-> IF IdOf[q[i]] = IdOf[r] THEN r ELSE q[i]]
  <2>1. With(q, r) = f
    BY <1>1 DEF With
  <2>2. f \in [1 .. Len(q) -> Requests]
    BY <1>0
  <2>3. f \in Seq(Requests) /\ Len(f) = Len(q)
    BY <1>0, <2>2, SeqOfLength
  <2>4. Distinct(q) => Distinct(f)
    BY DEF Distinct
  <2> QED
    BY <2>1, <2>3, <2>4
<1>2. CASE ~ \E i \in DOMAIN q : IdOf[q[i]] = IdOf[r]
  <2>1. With(q, r) = Append(q, r)
    BY <1>2 DEF With
  <2>2. /\ Append(q, r) \in Seq(Requests)
        /\ Len(Append(q, r)) = Len(q) + 1
        /\ \A i \in 1 .. Len(q) : Append(q, r)[i] = q[i]
        /\ Append(q, r)[Len(q) + 1] = r
    BY AppendProperties
  <2>3. DOMAIN Append(q, r) = 1 .. (Len(q) + 1)
    BY <2>2, LenProperties
  <2>4. \A i \in 1 .. (Len(q) + 1) : i \in 1 .. Len(q) \/ i = Len(q) + 1
    BY <1>0
  <2>5. Distinct(q) => Distinct(Append(q, r))
    BY <1>0, <1>2, <2>2, <2>3, <2>4 DEF Distinct
  <2> QED
    BY <1>0, <2>1, <2>2, <2>3, <2>4, <2>5
<1> QED
  BY <1>1, <1>2

----------------------------------------------------------------------------
(* Types.                                                                  *)

Flags == [isConnecting : BOOLEAN, isConnected : BOOLEAN, isDraining : BOOLEAN,
          isDestroyed : BOOLEAN, shouldRetry : BOOLEAN]

\* A write keeps what it changes within its types.
LEMMA WriteType ==
    ASSUME TypeOK, NEW r \in Requests, NEW accepted \in BOOLEAN,
           socket \in Sockets, Write(r, accepted)
    PROVE  /\ states' \in Flags
           /\ written' \subseteq Requests
           /\ unanswered' \in [Sockets -> [Ids -> Nat]]
           /\ clogged' \subseteq Sockets
           /\ backpressureQueue' \in Seq(Requests)
<1>1. states' \in Flags
  BY DEF TypeOK, Write, Flags
<1>2. IdOf[r] \in Ids
  OBVIOUS
<1>3. unanswered' \in [Sockets -> [Ids -> Nat]]
  BY <1>2 DEF TypeOK, Write
<1>4. backpressureQueue' \in Seq(Requests)
  BY AppendProperties DEF TypeOK, Write
<1> QED
  BY <1>1, <1>3, <1>4 DEF TypeOK, Write

\* The socket that getSocket() takes is one of them.
LEMMA FreshSocketType ==
    (\E s \in Sockets : conn[s] = "idle") => FreshSocket \in Sockets
  BY DEF FreshSocket

Outcomes == {"idle", "pending"} \cup Verdicts

\* Settling calls with a verdict gives each call one of its outcomes.
LEMMA SettledType ==
    ASSUME NEW o \in [Requests -> Outcomes], NEW S, NEW verdict \in Verdicts
    PROVE  Settled(o, S, verdict) \in [Requests -> Outcomes]
  BY DEF Settled, Outcomes

\* sendArtifact() keeps what it changes within its types.
LEMMA SendArtifactType ==
    ASSUME TypeOK, ConnectedHasSocket, NEW r \in Requests,
           NEW q \in Seq(Requests), NEW t \in SUBSET Requests,
           NEW o \in [Requests -> Outcomes], SendArtifact(r, q, t, o)
    PROVE  /\ states' \in Flags /\ states'.isConnected = states.isConnected
           /\ written' \subseteq Requests
           /\ unanswered' \in [Sockets -> [Ids -> Nat]]
           /\ clogged' \subseteq Sockets
           /\ backpressureQueue' \in Seq(Requests)
           /\ queue' \in Seq(Requests)
           /\ timer' \subseteq Requests
           /\ outcome' \in [Requests -> Outcomes]
<1>1. CASE Writable
  <2>1. PICK accepted \in WriteResults : Write(r, accepted)
    BY <1>1 DEF SendArtifact
  <2>2. socket \in Sockets
    BY <1>1 DEF Writable, TypeOK, ConnectedHasSocket
  <2>3. accepted \in BOOLEAN
    OBVIOUS
  <2>4. states'.isConnected = states.isConnected
    BY <2>1 DEF Write, TypeOK
  <2> QED
    BY <1>1, <2>1, <2>2, <2>3, <2>4, WriteType DEF SendArtifact
<1>2. CASE ~Writable
  <2>1. Without(q, IdOf[r]) \in Seq(Requests)
    BY WithoutIsQueue
  <2>2. Settled(o, {r}, "error") \in [Requests -> Outcomes]
    BY SettledType DEF Verdicts
  <2> QED
    BY <1>2, <2>1, <2>2 DEF SendArtifact, TypeOK, Flags, wireVars
<1> QED
  BY <1>1, <1>2

\* RetryConnect and ResolveError keep what they change within its types, and
\* leave the client disconnected.
LEMMA DisconnectType ==
    ASSUME TypeOK, RetryConnect \/ ResolveError
    PROVE  /\ states' \in Flags /\ ~states'.isConnected
           /\ socket' \in Sockets \cup {None}
           /\ retries' \in Nat /\ retryTimers' \in Nat
           /\ queue' \in Seq(Requests)
           /\ timer' \subseteq Requests
           /\ outcome' \in [Requests -> Outcomes]
<1>1. states' \in Flags /\ ~states'.isConnected
  BY DEF TypeOK, RetryConnect, ResolveError, Disconnected, Flags
<1>2. CASE RetryConnect
  BY <1>1, <1>2 DEF RetryConnect, TypeOK, Outcomes, callVars, retryVars
<1>3. CASE ResolveError
  <2>1. Settled(outcome, Queued, "error") \in [Requests -> Outcomes]
    BY SettledType DEF TypeOK, Verdicts, Outcomes
  <2> QED
    BY <1>1, <1>3, <2>1, EmptySeq DEF ResolveError, FailQueue, TypeOK, retryVars
<1> QED
  BY <1>2, <1>3

\* Every step keeps the types and the socket of a connected client.
LEMMA TypeStep ==
    TypeOK /\ ConnectedHasSocket /\ [Next]_vars => TypeOK' /\ ConnectedHasSocket'
<1> SUFFICES ASSUME TypeOK, ConnectedHasSocket, [Next]_vars
             PROVE  TypeOK' /\ ConnectedHasSocket'
  OBVIOUS
<1>1. ASSUME NEW r \in Requests, (\E v \in BOOLEAN : Refuse(r, v))
      PROVE  TypeOK' /\ ConnectedHasSocket'
  BY <1>1
  DEF Refuse, TypeOK, ConnectedHasSocket, Verdicts, connVars, wireVars, retryVars
<1>2. ASSUME NEW r \in Requests, Send(r)
      PROVE  TypeOK' /\ ConnectedHasSocket'
  <2>1. With(queue, r) \in Seq(Requests)
    BY WithIsQueue DEF TypeOK
  <2>2. CASE UNCHANGED <<states, connVars>>
    BY <1>2, <2>1, <2>2 DEF Send, TypeOK, ConnectedHasSocket, Verdicts, connVars, wireVars, retryVars
  <2>3. CASE StartConnection(r)
    <3>1. FreshSocket \in Sockets
      BY <2>3, FreshSocketType DEF StartConnection
    <3>2. /\ states' \in Flags /\ states'.isConnected = states.isConnected
          /\ conn' \in [Sockets -> Phases] /\ \A s \in Sockets : conn[s] # "idle" => conn'[s] # "idle"
          /\ owner' \in [Sockets -> Requests \cup {None}]
      BY <2>3, <3>1 DEF StartConnection, TypeOK, Flags, Phases
    <3> QED
      BY <1>2, <2>1, <3>2 DEF Send, TypeOK, ConnectedHasSocket, Flags, Verdicts, wireVars, retryVars
  <2> QED
    BY <1>2, <2>2, <2>3 DEF Send
<1>3. ASSUME NEW o \in Options, Update(o)
      PROVE  TypeOK' /\ ConnectedHasSocket'
  BY <1>3
  DEF Update, TypeOK, ConnectedHasSocket, connVars, wireVars, callVars, retryVars
<1>4. ASSUME End
      PROVE  TypeOK' /\ ConnectedHasSocket'
  BY <1>4
  DEF End, TypeOK, ConnectedHasSocket, Phases, Disconnected, wireVars, callVars, retryVars
<1>5. ASSUME Destroy
      PROVE  TypeOK' /\ ConnectedHasSocket'
  BY <1>5, EmptySeq
  DEF Destroy, TypeOK, ConnectedHasSocket, DestroyClient, Phases, Queued, retryVars
<1>6. ASSUME NEW s \in Sockets, LookupFails(s)
      PROVE  TypeOK' /\ ConnectedHasSocket'
  BY <1>6
  DEF LookupFails, TypeOK, ConnectedHasSocket, Phases, wireVars, callVars, retryVars
<1>7. ASSUME NEW s \in Sockets, LookupSucceeds(s) \/ ConnectThrows(s)
      PROVE  TypeOK' /\ ConnectedHasSocket'
  <2>1. CASE LookupSucceeds(s)
    BY <2>1
    DEF LookupSucceeds, TypeOK, ConnectedHasSocket, Phases, wireVars, callVars, retryVars
  <2>2. CASE ConnectThrows(s)
    BY <2>2
    DEF ConnectThrows, TypeOK, ConnectedHasSocket, Phases, wireVars, callVars, retryVars
  <2> QED
    BY <1>7, <2>1, <2>2
<1>8. ASSUME NEW s \in Sockets, Connected(s)
      PROVE  TypeOK' /\ ConnectedHasSocket'
  BY <1>8
  DEF Connected, TypeOK, ConnectedHasSocket, Phases, wireVars, callVars, retryVars
<1>9. ASSUME NEW r \in Requests, DispatchWithSocket(r)
      PROVE  TypeOK' /\ ConnectedHasSocket'
  <2>1. SendArtifact(r, queue, timer, outcome)
    BY <1>9 DEF DispatchWithSocket
  <2>2. outcome \in [Requests -> Outcomes] /\ queue \in Seq(Requests) /\ timer \in SUBSET Requests
    BY DEF TypeOK, Outcomes
  <2> QED
    BY <1>9, <2>1, <2>2, SendArtifactType
    DEF DispatchWithSocket, TypeOK, ConnectedHasSocket, Flags, Outcomes, connVars, retryVars
<1>10. ASSUME NEW r \in Requests, DispatchWithoutSocket(r)
      PROVE  TypeOK' /\ ConnectedHasSocket'
  <2>1. CASE states.isConnecting
    BY <1>10, <2>1 DEF DispatchWithoutSocket, TypeOK, ConnectedHasSocket, connVars, wireVars, callVars, retryVars
  <2>2. CASE ~states.isConnecting
    <3>1. PICK failed : /\ timer' = timer \ failed
                        /\ outcome' = Settled(outcome, failed, "error")
      BY <1>10, <2>2 DEF DispatchWithoutSocket
    <3>2. outcome' \in [Requests -> Outcomes]
      BY <3>1, SettledType DEF TypeOK, Outcomes, Verdicts
    <3> QED
      BY <1>10, <2>2, <3>1, <3>2, EmptySeq
      DEF DispatchWithoutSocket, TypeOK, ConnectedHasSocket, Outcomes, connVars, wireVars, retryVars
  <2> QED
    BY <2>1, <2>2
<1>11. ASSUME RetryTimer
      PROVE  TypeOK' /\ ConnectedHasSocket'
  <2>1. retryTimers' \in Nat
    BY <1>11 DEF RetryTimer, RetryDue, TypeOK
  <2>2. CASE UNCHANGED <<states, connVars>>
    BY <1>11, <2>1, <2>2 DEF RetryTimer, TypeOK, ConnectedHasSocket, connVars, wireVars, callVars
  <2>3. CASE StartConnection(None)
    <3>1. FreshSocket \in Sockets
      BY <2>3, FreshSocketType DEF StartConnection
    <3>2. /\ states' \in Flags /\ states'.isConnected = states.isConnected
          /\ conn' \in [Sockets -> Phases] /\ \A s \in Sockets : conn[s] # "idle" => conn'[s] # "idle"
          /\ owner' \in [Sockets -> Requests \cup {None}]
      BY <2>3, <3>1 DEF StartConnection, TypeOK, Flags, Phases
    <3> QED
      BY <1>11, <2>1, <3>2 DEF RetryTimer, TypeOK, ConnectedHasSocket, Flags, wireVars, callVars
  <2> QED
    BY <1>11, <2>2, <2>3 DEF RetryTimer
<1>12. ASSUME NEW r \in Requests, Timeout(r)
      PROVE  TypeOK' /\ ConnectedHasSocket'
  BY <1>12, WithoutIsQueue
  DEF Timeout, TypeOK, ConnectedHasSocket, Settled, Verdicts, connVars, wireVars, retryVars
<1>13. ASSUME NEW s \in Sockets, NEW i \in Ids, Data(s, i)
      PROVE  TypeOK' /\ ConnectedHasSocket'
  <2>1. unanswered[s][i] \in Nat /\ unanswered[s][i] - 1 \in Nat /\ verifying[i] + 1 \in Nat
    BY <1>13 DEF Data, TypeOK
  <2>2. unanswered' \in [Sockets -> [Ids -> Nat]] /\ verifying' \in [Ids -> Nat]
    BY <1>13, <2>1 DEF Data, TypeOK
  <2>3. states' \in Flags /\ states'.isConnected = states.isConnected
    BY <1>13 DEF Data, TypeOK, Flags
  <2> QED
    BY <1>13, <2>2, <2>3 DEF Data, TypeOK, ConnectedHasSocket, Flags, connVars, callVars, retryVars
<1>14. ASSUME NEW s \in Sockets, OtherData(s)
      PROVE  TypeOK' /\ ConnectedHasSocket'
  BY <1>14
  DEF OtherData, TypeOK, ConnectedHasSocket, connVars, wireVars, callVars, retryVars
<1>15. ASSUME NEW i \in Ids, NEW valid \in BOOLEAN, Verified(i, valid)
      PROVE  TypeOK' /\ ConnectedHasSocket'
  <2>1. verifying' \in [Ids -> Nat]
    BY <1>15 DEF Verified, TypeOK
  <2>2. CASE \E r \in Queued : IdOf[r] = i
    <3> DEFINE answered == CHOOSE r \in Queued : IdOf[r] = i
               q == Without(queue, i)
               t == timer \ {answered}
               o == Settled(outcome, {answered}, IF valid THEN "response" ELSE "error")
    <3>1. q \in Seq(Requests) /\ t \in SUBSET Requests /\ o \in [Requests -> Outcomes]
      BY WithoutIsQueue, SettledType DEF TypeOK, Outcomes, Verdicts
    <3>2. CASE q # <<>> /\ states.isConnected
      <4>1. SendArtifact(Head(q), q, t, o)
        BY <1>15, <2>2, <3>2 DEF Verified
      <4>2. Head(q) \in Requests
        BY <3>1, <3>2, HeadTailProperties
      <4> HIDE DEF q, t, o
      <4> QED
        BY <1>15, <2>1, <3>1, <4>1, <4>2, SendArtifactType
        DEF Verified, TypeOK, ConnectedHasSocket, Flags, Outcomes, connVars, retryVars
    <3>3. CASE ~(q # <<>> /\ states.isConnected)
      <4>1. queue' = q /\ timer' = t /\ outcome' = o /\ UNCHANGED <<states, wireVars>>
        BY <1>15, <2>2, <3>3 DEF Verified
      <4> HIDE DEF q, t, o
      <4> QED
        BY <1>15, <2>1, <3>1, <4>1
        DEF Verified, TypeOK, ConnectedHasSocket, Outcomes, connVars, wireVars, retryVars
    <3> QED
      BY <3>2, <3>3
  <2>3. CASE ~ \E r \in Queued : IdOf[r] = i
    BY <1>15, <2>1, <2>3
    DEF Verified, TypeOK, ConnectedHasSocket, connVars, wireVars, callVars, retryVars
  <2> QED
    BY <2>2, <2>3
<1>16. ASSUME NEW s \in Sockets, Drain(s)
      PROVE  TypeOK' /\ ConnectedHasSocket'
  <2> DEFINE chunks(i) == {k \in DOMAIN backpressureQueue : IdOf[backpressureQueue[k]] = i}
  <2>1. \A i : Cardinality(chunks(i)) \in Nat
    <3>1. DOMAIN backpressureQueue = 1 .. Len(backpressureQueue) /\ Len(backpressureQueue) \in Nat
      BY LenProperties DEF TypeOK
    <3>2. IsFiniteSet(DOMAIN backpressureQueue)
      BY <3>1, FS_Interval
    <3> QED
      BY <3>2, FS_Subset, FS_CardinalityType
  <2>2. CASE states.isDraining \/ socket = None
    BY <1>16, <2>2 DEF Drain, TypeOK, ConnectedHasSocket, connVars, callVars, retryVars
  <2>3. CASE ~(states.isDraining \/ socket = None)
    <3>1. unanswered' \in [Sockets -> [Ids -> Nat]]
      <4>1. unanswered' = [unanswered EXCEPT ![socket] =
                [i \in Ids |-> unanswered[socket][i] + Cardinality(chunks(i))]]
        BY <1>16, <2>3 DEF Drain
      <4> HIDE DEF chunks
      <4>2. socket \in Sockets /\ unanswered \in [Sockets -> [Ids -> Nat]]
        BY <2>3 DEF TypeOK
      <4>3. \A i \in Ids : unanswered[socket][i] + Cardinality(chunks(i)) \in Nat
        BY <2>1, <4>2
      <4> QED
        BY <4>1, <4>2, <4>3
    <3>2. states' \in Flags /\ states'.isConnected = states.isConnected
      <4>1. states' = [states EXCEPT !.isDraining = FALSE]
        BY <1>16, <2>3 DEF Drain
      <4> QED
        BY <4>1 DEF TypeOK, Flags
    <3>3. backpressureQueue' \in Seq(Requests)
      BY <1>16, <2>3, EmptySeq DEF Drain
    <3> QED
      BY <1>16, <3>1, <3>2, <3>3
      DEF Drain, TypeOK, ConnectedHasSocket, Flags, connVars, callVars, retryVars
  <2> QED
    BY <2>2, <2>3
<1>17. ASSUME NEW s \in Sockets, Breaks(s)
      PROVE  TypeOK' /\ ConnectedHasSocket'
  BY <1>17
  DEF Breaks, TypeOK, ConnectedHasSocket, Phases, wireVars, callVars, retryVars
<1>18. ASSUME NEW s \in Sockets, ConnectionTimeout(s)
      PROVE  TypeOK' /\ ConnectedHasSocket'
  BY <1>18, EmptySeq
  DEF ConnectionTimeout, TypeOK, ConnectedHasSocket, DestroyClient, Phases, Queued, retryVars
<1>19. ASSUME NEW s \in Sockets, NEW retryable \in BOOLEAN, OnError(s, retryable)
      PROVE  TypeOK' /\ ConnectedHasSocket'
  <2>1. RetryConnect \/ ResolveError
    BY <1>19 DEF OnError
  <2> QED
    BY <1>19, <2>1, DisconnectType
    DEF OnError, TypeOK, ConnectedHasSocket, Flags, Outcomes, Phases, wireVars
<1>20. ASSUME NEW s \in Sockets, OnEnd(s)
      PROVE  TypeOK' /\ ConnectedHasSocket'
  <2>1. RetryConnect \/ ResolveError
    BY <1>20 DEF OnEnd
  <2> QED
    BY <1>20, <2>1, DisconnectType
    DEF OnEnd, TypeOK, ConnectedHasSocket, Flags, Outcomes, Phases, wireVars
<1>21. ASSUME NEW s \in Sockets, OnClose(s)
      PROVE  TypeOK' /\ ConnectedHasSocket'
  <2>1. ResolveError
    BY <1>21 DEF OnClose
  <2>2. unanswered' \in [Sockets -> [Ids -> Nat]] /\ clogged' \subseteq Sockets
    BY <1>21 DEF OnClose, TypeOK
  <2> QED
    BY <1>21, <2>1, <2>2, DisconnectType
    DEF OnClose, TypeOK, ConnectedHasSocket, Flags, Outcomes, Phases
<1>22. CASE UNCHANGED vars
  BY <1>22 DEF vars, TypeOK, ConnectedHasSocket, connVars, wireVars, callVars, retryVars
<1> QED
  BY <1>1, <1>2, <1>3, <1>4, <1>5, <1>6, <1>7, <1>8, <1>9, <1>10, <1>11, <1>12, <1>13, <1>14, <1>15, <1>16, <1>17, <1>18, <1>19, <1>20, <1>21, <1>22 DEF Next, Caller

\* The flags, queues, timers and sockets of a client are what they are
\* declared to be, and a connected client has a socket, for any number of
\* calls and connections.
THEOREM TypeCorrect == Spec => [](TypeOK /\ ConnectedHasSocket)
<1>1. Init => TypeOK /\ ConnectedHasSocket
  BY EmptySeq DEF Init, TypeOK, ConnectedHasSocket, Phases, Verdicts
<1> QED
  BY <1>1, TypeStep, PTL DEF Spec
----------------------------------------------------------------------------
(* The bookkeeping of the calls: the queue, the timers and the promises    *)
(* agree.  It is EveryCallIsTimed and QueueIsUnsettled of any q, t and o,  *)
(* so that it can be followed through the handlers that settle two calls.  *)

Books(q, t, o, destroyed) ==
    /\ q \in Seq(Requests) /\ t \subseteq Requests
    /\ o \in [Requests -> Outcomes]
    /\ Distinct(q)
    /\ \A k \in DOMAIN q : q[k] \in t
    /\ \A r \in t : o[r] = "pending"
    /\ \A r \in Requests : o[r] = "pending" => r \in t \/ destroyed

\* Settling a call with its timer cleared and its id deleted keeps the books.
LEMMA StrikeOne ==
    ASSUME NEW q, NEW t, NEW o, NEW destroyed, Books(q, t, o, destroyed),
           NEW r \in Requests, NEW verdict \in Verdicts
    PROVE  Books(Without(q, IdOf[r]), t \ {r}, Settled(o, {r}, verdict), destroyed)
<1>1. /\ Without(q, IdOf[r]) \in Seq(Requests)
      /\ Distinct(Without(q, IdOf[r]))
      /\ \A i \in DOMAIN Without(q, IdOf[r]) : IdOf[Without(q, IdOf[r])[i]] # IdOf[r]
  BY WithoutIsQueue, WithoutRemoves DEF Books
<1>2. \A i \in DOMAIN Without(q, IdOf[r]) : Without(q, IdOf[r])[i] \in t \ {r}
  BY <1>1, WithoutIsQueue DEF Books
<1>3. Settled(o, {r}, verdict) \in [Requests -> Outcomes]
  BY SettledType DEF Books
<1>4. \A x \in t \ {r} : Settled(o, {r}, verdict)[x] = "pending"
  BY DEF Books, Settled
<1>5. \A x \in Requests :
         Settled(o, {r}, verdict)[x] = "pending" => x \in t \ {r} \/ destroyed
  BY DEF Books, Settled, Verdicts
<1> QED
  BY <1>1, <1>2, <1>3, <1>4, <1>5 DEF Books

\* So does settling any calls with the queue cleared.
LEMMA StrikeAll ==
    ASSUME NEW q, NEW t, NEW o, NEW destroyed, Books(q, t, o, destroyed),
           NEW S, NEW verdict \in Verdicts
    PROVE  Books(<<>>, t \ S, Settled(o, S, verdict), destroyed)
<1>1. <<>> \in Seq(Requests) /\ Distinct(<<>>) /\ DOMAIN <<>> = {}
  BY EmptySeq DEF Distinct
<1>2. Settled(o, S, verdict) \in [Requests -> Outcomes]
  BY SettledType DEF Books
<1>3. \A x \in t \ S : Settled(o, S, verdict)[x] = "pending"
  BY DEF Books, Settled
<1>4. \A x \in Requests :
         Settled(o, S, verdict)[x] = "pending" => x \in t \ S \/ destroyed
  BY DEF Books, Settled, Verdicts
<1> QED
  BY <1>1, <1>2, <1>3, <1>4 DEF Books

CallBooks == Books(queue, timer, outcome, states.isDestroyed)

\* sendArtifact() keeps the books it is called with.
LEMMA SendArtifactBooks ==
    ASSUME TypeOK, NEW r \in Requests, NEW q, NEW t, NEW o,
           Books(q, t, o, states.isDestroyed), SendArtifact(r, q, t, o)
    PROVE  CallBooks' /\ states'.isDestroyed = states.isDestroyed
<1>1. CASE Writable
  <2>1. PICK accepted \in WriteResults : Write(r, accepted)
    BY <1>1 DEF SendArtifact
  <2>2. states'.isDestroyed = states.isDestroyed
    BY <2>1 DEF Write, TypeOK
  <2> QED
    BY <1>1, <2>2 DEF SendArtifact, CallBooks
<1>2. CASE ~Writable
  <2>1. Books(Without(q, IdOf[r]), t \ {r}, Settled(o, {r}, "error"),
              states.isDestroyed)
    BY StrikeOne DEF Verdicts
  <2> QED
    BY <1>2, <2>1 DEF SendArtifact, CallBooks
<1> QED
  BY <1>1, <1>2

\* RetryConnect leaves the books alone, ResolveError closes them.
LEMMA DisconnectBooks ==
    ASSUME TypeOK, CallBooks, RetryConnect \/ ResolveError
    PROVE  CallBooks' /\ states'.isDestroyed = states.isDestroyed
<1>1. states'.isDestroyed = states.isDestroyed
  BY DEF TypeOK, RetryConnect, ResolveError, Disconnected
<1>2. CASE RetryConnect
  BY <1>1, <1>2 DEF RetryConnect, CallBooks, callVars
<1>3. CASE ResolveError
  <2>1. Books(<<>>, timer \ Queued, Settled(outcome, Queued, "error"),
              states.isDestroyed)
    BY StrikeAll DEF CallBooks, Verdicts
  <2> QED
    BY <1>1, <1>3, <2>1 DEF ResolveError, FailQueue, CallBooks
<1> QED
  BY <1>1, <1>2, <1>3

\* destroy() closes them too, without settling anything.
LEMMA DestroyBooks ==
    ASSUME TypeOK, CallBooks, NEW c, DestroyClient(c)
    PROVE  CallBooks' /\ states'.isDestroyed
<1>1. states'.isDestroyed
  BY DEF DestroyClient
<1>2. Books(<<>>, timer \ Queued, outcome, TRUE)
  <2>1. <<>> \in Seq(Requests) /\ Distinct(<<>>) /\ DOMAIN <<>> = {}
    BY EmptySeq DEF Distinct
  <2> QED
    BY <2>1 DEF Books, CallBooks
<1>3. Books(queue', timer', outcome', TRUE)
  BY <1>2 DEF DestroyClient
<1> QED
  BY <1>1, <1>3 DEF Books, CallBooks

\* Every step keeps the books, and a destroyed client stays destroyed.
LEMMA BooksStep ==
    ASSUME TypeOK, CallBooks, [Next]_vars
    PROVE  CallBooks' /\ (states.isDestroyed => states'.isDestroyed)
<1> DEFINE Kept == CallBooks' /\ (states.isDestroyed => states'.isDestroyed)
<1>1. ASSUME UNCHANGED <<queue, timer, outcome>>,
             states'.isDestroyed = states.isDestroyed
      PROVE  Kept
  BY <1>1 DEF CallBooks
<1>2. ASSUME NEW r \in Requests, (\E v \in BOOLEAN : Refuse(r, v))
      PROVE  Kept
  <2>1. /\ outcome[r] = "idle" /\ outcome' = [outcome EXCEPT ![r] = "error"]
        /\ UNCHANGED <<queue, timer, states>>
    BY <1>2 DEF Refuse
  <2>2. outcome' \in [Requests -> Outcomes]
    BY <2>1 DEF CallBooks, Books, Outcomes, Verdicts
  <2>3. r \notin timer
    BY <2>1 DEF CallBooks, Books
  <2>4. \A x \in Requests : x # r => outcome'[x] = outcome[x]
    BY <2>1 DEF CallBooks, Books
  <2>5. outcome'[r] # "pending"
    BY <2>1 DEF CallBooks, Books
  <2> QED
    BY <2>1, <2>2, <2>3, <2>4, <2>5 DEF CallBooks, Books
<1>3. ASSUME NEW r \in Requests, Send(r)
      PROVE  Kept
  <2>1. /\ outcome' = [outcome EXCEPT ![r] = "pending"]
        /\ timer' = timer \cup {r} /\ queue' = With(queue, r)
    BY <1>3 DEF Send
  <2>2. states'.isDestroyed = states.isDestroyed
    BY <1>3 DEF Send, StartConnection, TypeOK
  <2>3. outcome' \in [Requests -> Outcomes] /\ \A x \in timer' : outcome'[x] = "pending"
    BY <2>1 DEF CallBooks, Books, Outcomes
  <2>4. \A x \in Requests : outcome'[x] = "pending" => x \in timer' \/ states.isDestroyed
    BY <2>1 DEF CallBooks, Books
  <2>5. /\ queue' \in Seq(Requests) /\ Distinct(queue')
        /\ \A i \in DOMAIN queue' : queue'[i] \in timer'
    BY <2>1, WithIsQueue DEF CallBooks, Books
  <2> QED
    BY <2>1, <2>2, <2>3, <2>4, <2>5 DEF CallBooks, Books
<1>4. ASSUME NEW o \in Options, Update(o)
      PROVE  Kept
  BY <1>1, <1>4 DEF Update, callVars
<1>5. ASSUME End
      PROVE  Kept
  BY <1>1, <1>5 DEF End, Disconnected, callVars, TypeOK
<1>6. ASSUME Destroy
      PROVE  Kept
  BY <1>6, DestroyBooks DEF Destroy
<1>7. ASSUME NEW s \in Sockets,
             \/ LookupFails(s) \/ LookupSucceeds(s) \/ ConnectThrows(s) \/ Connected(s)
             \/ OtherData(s) \/ Breaks(s)
      PROVE  Kept
  BY <1>1, <1>7
  DEF LookupFails, LookupSucceeds, ConnectThrows, Connected, OtherData, Breaks, callVars, TypeOK
<1>8. ASSUME NEW r \in Requests, DispatchWithSocket(r)
      PROVE  Kept
  <2>1. SendArtifact(r, queue, timer, outcome)
    BY <1>8 DEF DispatchWithSocket
  <2> QED
    BY <2>1, SendArtifactBooks DEF CallBooks
<1>9. ASSUME NEW r \in Requests, DispatchWithoutSocket(r)
      PROVE  Kept
  <2>1. CASE states.isConnecting
    BY <1>1, <1>9, <2>1 DEF DispatchWithoutSocket, callVars
  <2>2. CASE ~states.isConnecting
    <3>1. PICK failed : /\ queue' = <<>>
                        /\ timer' = timer \ failed
                        /\ outcome' = Settled(outcome, failed, "error")
      BY <1>9, <2>2 DEF DispatchWithoutSocket
    <3>2. Books(<<>>, timer \ failed, Settled(outcome, failed, "error"),
                states.isDestroyed)
      BY StrikeAll DEF CallBooks, Verdicts
    <3>3. UNCHANGED states
      BY <1>9 DEF DispatchWithoutSocket
    <3> QED
      BY <3>1, <3>2, <3>3 DEF CallBooks
  <2> QED
    BY <2>1, <2>2
<1>10. ASSUME RetryTimer
      PROVE  Kept
  BY <1>1, <1>10 DEF RetryTimer, StartConnection, callVars, TypeOK
<1>11. ASSUME NEW r \in Requests, Timeout(r)
      PROVE  Kept
  <2>1. Books(Without(queue, IdOf[r]), timer \ {r}, Settled(outcome, {r}, "timeout"),
              states.isDestroyed)
    BY StrikeOne DEF CallBooks, Verdicts
  <2> QED
    BY <1>11, <2>1 DEF Timeout, CallBooks
<1>12. ASSUME NEW s \in Sockets, NEW i \in Ids, Data(s, i)
      PROVE  Kept
  BY <1>1, <1>12 DEF Data, callVars, TypeOK
<1>13. ASSUME NEW i \in Ids, NEW valid \in BOOLEAN, Verified(i, valid)
      PROVE  Kept
  <2>1. CASE ~ \E r \in Queued : IdOf[r] = i
    BY <1>1, <1>13, <2>1 DEF Verified, callVars
  <2>2. CASE \E r \in Queued : IdOf[r] = i
    <3> DEFINE answered == CHOOSE r \in Queued : IdOf[r] = i
               q == Without(queue, i)
               t == timer \ {answered}
               o == Settled(outcome, {answered}, IF valid THEN "response" ELSE "error")
    <3>1. answered \in Queued /\ IdOf[answered] = i
      BY <2>2
    <3>2. answered \in Requests
      BY <3>1 DEF Queued, CallBooks, Books
    <3>3. Books(q, t, o, states.isDestroyed)
      BY <3>1, <3>2, StrikeOne DEF CallBooks, Verdicts
    <3>4. CASE q # <<>> /\ states.isConnected
      <4>1. SendArtifact(Head(q), q, t, o)
        BY <1>13, <2>2, <3>4 DEF Verified
      <4> HIDE DEF q, t, o
      <4>2. Head(q) \in Requests
        BY <3>3, <3>4, HeadTailProperties DEF Books
      <4> QED
        BY <3>3, <4>1, <4>2, SendArtifactBooks
    <3>5. CASE ~(q # <<>> /\ states.isConnected)
      <4>1. queue' = q /\ timer' = t /\ outcome' = o /\ UNCHANGED states
        BY <1>13, <2>2, <3>5 DEF Verified
      <4> HIDE DEF q, t, o
      <4> QED
        BY <3>3, <4>1 DEF CallBooks
    <3> QED
      BY <3>4, <3>5
  <2> QED
    BY <2>1, <2>2
<1>14. ASSUME NEW s \in Sockets, Drain(s)
      PROVE  Kept
  <2>1. states'.isDestroyed = states.isDestroyed
    <3>1. CASE states.isDraining \/ socket = None
      BY <1>14, <3>1 DEF Drain
    <3>2. CASE ~(states.isDraining \/ socket = None)
      <4>1. states' = [states EXCEPT !.isDraining = FALSE]
        BY <1>14, <3>2 DEF Drain
      <4> QED
        BY <4>1 DEF TypeOK
    <3> QED
      BY <3>1, <3>2
  <2> QED
    BY <1>1, <1>14, <2>1 DEF Drain, callVars
<1>15. ASSUME NEW s \in Sockets, ConnectionTimeout(s)
      PROVE  Kept
  BY <1>15, DestroyBooks DEF ConnectionTimeout
<1>16. ASSUME NEW s \in Sockets, NEW retryable \in BOOLEAN,
              OnError(s, retryable) \/ OnEnd(s) \/ OnClose(s)
      PROVE  Kept
  <2>1. RetryConnect \/ ResolveError
    BY <1>16 DEF OnError, OnEnd, OnClose
  <2> QED
    BY <2>1, DisconnectBooks
<1>17. CASE UNCHANGED vars
  BY <1>1, <1>17 DEF vars, callVars
<1> QED
  BY <1>2, <1>3, <1>4, <1>5, <1>6, <1>7, <1>8, <1>9, <1>10, <1>11, <1>12, <1>13,
     <1>14, <1>15, <1>16, <1>17 DEF Next, Caller

\* The books in the words of the two properties.
LEMMA BooksMean ==
    ASSUME CallBooks
    PROVE  EveryCallIsTimed /\ QueueIsUnsettled
<1>1. \A k \in DOMAIN queue : queue[k] \in timer
  BY DEF CallBooks, Books
<1>2. Queued \subseteq timer
  BY <1>1 DEF Queued
<1>3. EveryCallIsTimed
  BY DEF CallBooks, Books, EveryCallIsTimed
<1> QED
  BY <1>2, <1>3 DEF CallBooks, Books, Distinct, QueueIsUnsettled

\* The books are in order in every reachable state.
THEOREM BooksCorrect == Spec => []CallBooks
<1>1. Init => CallBooks
  BY EmptySeq DEF Init, CallBooks, Books, Distinct, Outcomes
<1>2. TypeOK /\ CallBooks /\ [Next]_vars => CallBooks'
  BY BooksStep
<1> QED
  BY <1>1, <1>2, TypeCorrect, PTL DEF Spec

\* For any number of calls, ids shared or not: an unsettled call has its
\* timeout armed, until the client is destroyed, and a settled one has not,
\* whichever handlers run in between.
THEOREM CallsAreTimed == Spec => []EveryCallIsTimed
<1>1. CallBooks => EveryCallIsTimed
  BY BooksMean
<1> QED
  BY <1>1, BooksCorrect, PTL

\* No settled call is left in the queue for pumpNextQueue() to send, and no
\* two calls of one id are.
THEOREM QueueUnsettled == Spec => []QueueIsUnsettled
<1>1. CallBooks => QueueIsUnsettled
  BY BooksMean
<1> QED
  BY <1>1, BooksCorrect, PTL

----------------------------------------------------------------------------
(* Backpressure and destroy().                                             *)

\* What makes 'drain' harmless: chunks wait only while isDraining is set, and
\* destroy() resets both.
WireInv ==
    /\ BackpressureIsDraining
    /\ states.isDestroyed => ~states.isDraining

\* sendArtifact() keeps WireInv, and writes nothing for a destroyed client.
LEMMA SendArtifactWire ==
    ASSUME TypeOK, WireInv, NEW r, NEW q, NEW t, NEW o, SendArtifact(r, q, t, o)
    PROVE  WireInv' /\ (states.isDestroyed => unanswered' = unanswered)
<1>1. CASE Writable
  <2>1. PICK accepted \in WriteResults : Write(r, accepted)
    BY <1>1 DEF SendArtifact
  <2>2. ~states.isDestroyed
    BY <1>1 DEF Writable
  <2>3. /\ states'.isDestroyed = states.isDestroyed
        /\ states'.isDraining = (states.isDraining \/ ~accepted)
    BY <2>1 DEF Write, TypeOK
  <2>4. backpressureQueue' # <<>> => states'.isDraining
    BY <2>1, <2>3 DEF Write, WireInv, BackpressureIsDraining
  <2> QED
    BY <2>2, <2>3, <2>4 DEF WireInv, BackpressureIsDraining
<1>2. CASE ~Writable
  BY <1>2 DEF SendArtifact, WireInv, BackpressureIsDraining, wireVars
<1> QED
  BY <1>1, <1>2

\* Whenever 'drain' flushes, there is nothing to flush.
LEMMA DrainIsSilent ==
    ASSUME TypeOK, WireInv, NEW s \in Sockets, Drain(s)
    PROVE  unanswered' = unanswered
<1>1. CASE states.isDraining \/ socket = None
  BY <1>1 DEF Drain
<1>2. CASE ~(states.isDraining \/ socket = None)
  <2> DEFINE chunks(i) == {k \in DOMAIN backpressureQueue : IdOf[backpressureQueue[k]] = i}
  <2>1. backpressureQueue = <<>>
    BY <1>2 DEF WireInv, BackpressureIsDraining
  <2>2. \A i : Cardinality(chunks(i)) = 0
    BY <2>1, EmptySeq, FS_EmptySet
  <2>3. unanswered' = [unanswered EXCEPT ![socket] =
            [i \in Ids |-> unanswered[socket][i] + Cardinality(chunks(i))]]
    BY <1>2 DEF Drain
  <2> HIDE DEF chunks
  <2>4. socket \in Sockets /\ unanswered \in [Sockets -> [Ids -> Nat]]
    BY <1>2 DEF TypeOK
  <2>5. [i \in Ids |-> unanswered[socket][i] + Cardinality(chunks(i))] = unanswered[socket]
    BY <2>2, <2>4
  <2> QED
    BY <2>3, <2>4, <2>5
<1> QED
  BY <1>1, <1>2

\* Every step keeps WireInv, and writes nothing for a destroyed client.
LEMMA WireStep ==
    ASSUME TypeOK, WireInv, [Next]_vars
    PROVE  /\ WireInv'
           /\ states.isDestroyed =>
                 \A s \in Sockets, i \in Ids : unanswered'[s][i] <= unanswered[s][i]
<1> DEFINE Kept == /\ WireInv'
                   /\ states.isDestroyed => \A s \in Sockets, i \in Ids :
                                               unanswered'[s][i] <= unanswered[s][i]
<1>0. \A s \in Sockets, i \in Ids : unanswered[s][i] \in Nat
  BY DEF TypeOK
<1>1. ASSUME states'.isDraining = states.isDraining,
             states'.isDestroyed = states.isDestroyed,
             UNCHANGED <<unanswered, backpressureQueue>>
      PROVE  Kept
  BY <1>0, <1>1 DEF WireInv, BackpressureIsDraining
<1>2. ASSUME NEW r \in Requests, Send(r) \/ (\E v \in BOOLEAN : Refuse(r, v)) \/ DispatchWithoutSocket(r) \/ Timeout(r)
      PROVE  Kept
  BY <1>1, <1>2
  DEF Send, Refuse, DispatchWithoutSocket, Timeout, StartConnection, wireVars, TypeOK
<1>3. ASSUME \/ \E o \in Options : Update(o)
             \/ End \/ RetryTimer
      PROVE  Kept
  BY <1>1, <1>3 DEF Update, End, RetryTimer, Disconnected, StartConnection, wireVars, TypeOK
<1>4. ASSUME NEW s \in Sockets,
             \/ LookupFails(s) \/ LookupSucceeds(s) \/ ConnectThrows(s) \/ Connected(s)
             \/ OtherData(s) \/ Breaks(s)
      PROVE  Kept
  BY <1>1, <1>4
  DEF LookupFails, LookupSucceeds, ConnectThrows, Connected, OtherData, Breaks, wireVars, TypeOK
<1>5. ASSUME NEW c, DestroyClient(c)
      PROVE  Kept
  BY <1>0, <1>5 DEF DestroyClient, WireInv, BackpressureIsDraining
<1>6. ASSUME NEW r \in Requests, DispatchWithSocket(r)
      PROVE  Kept
  BY <1>0, <1>6, SendArtifactWire DEF DispatchWithSocket
<1>7. ASSUME NEW s \in Sockets, NEW i \in Ids, Data(s, i)
      PROVE  Kept
  <2>1. unanswered' = [unanswered EXCEPT ![s][i] = @ - 1]
    BY <1>7 DEF Data
  <2>2. \A x \in Sockets, y \in Ids : unanswered'[x][y] <= unanswered[x][y]
    BY <1>0, <2>1 DEF TypeOK
  <2> QED
    BY <1>7, <2>2 DEF Data, WireInv, BackpressureIsDraining, TypeOK
<1>8. ASSUME NEW i \in Ids, NEW valid \in BOOLEAN, Verified(i, valid)
      PROVE  Kept
  <2>1. CASE UNCHANGED <<states, wireVars>>
    BY <1>1, <2>1 DEF wireVars
  <2>2. CASE \E r, q, t, o : SendArtifact(r, q, t, o)
    BY <1>0, <2>2, SendArtifactWire
  <2> QED
    BY <1>8, <2>1, <2>2 DEF Verified
<1>9. ASSUME NEW s \in Sockets, Drain(s)
      PROVE  Kept
  <2>1. CASE states.isDraining \/ socket = None
    BY <1>1, <1>9, <2>1 DEF Drain
  <2>2. CASE ~(states.isDraining \/ socket = None)
    <3>1. states' = [states EXCEPT !.isDraining = FALSE] /\ backpressureQueue' = <<>>
      BY <1>9, <2>2 DEF Drain
    <3>2. WireInv'
      BY <3>1 DEF WireInv, BackpressureIsDraining, TypeOK
    <3>3. unanswered' = unanswered
      BY <1>9, DrainIsSilent
    <3> QED
      BY <1>0, <3>2, <3>3
  <2> QED
    BY <2>1, <2>2
<1>10. ASSUME NEW s \in Sockets, OnClose(s)
      PROVE  Kept
  <2>1. unanswered' = [unanswered EXCEPT ![s] = [i \in Ids |-> 0]]
    BY <1>10 DEF OnClose
  <2>2. \A x \in Sockets, y \in Ids : unanswered'[x][y] <= unanswered[x][y]
    BY <1>0, <2>1 DEF TypeOK
  <2> QED
    BY <1>10, <2>2
    DEF OnClose, ResolveError, Disconnected, WireInv, BackpressureIsDraining, TypeOK
<1>11. ASSUME NEW s \in Sockets, NEW retryable \in BOOLEAN,
              OnError(s, retryable) \/ OnEnd(s)
      PROVE  Kept
  BY <1>1, <1>11
  DEF OnError, OnEnd, RetryConnect, ResolveError, Disconnected, wireVars, TypeOK
<1>12. CASE UNCHANGED vars
  BY <1>1, <1>12 DEF vars, wireVars
<1>13. CASE Caller
  BY <1>2, <1>3, <1>5, <1>13 DEF Caller, Destroy
<1>14. ASSUME NEW s \in Sockets, ConnectionTimeout(s)
      PROVE  Kept
  BY <1>5, <1>14 DEF ConnectionTimeout
<1> QED
  BY <1>2, <1>3, <1>4, <1>6, <1>7, <1>8, <1>9, <1>10, <1>11, <1>12, <1>13, <1>14 DEF Next

\* The invariant under which destroy() and 'drain' are argued about.
THEOREM WireInvariant == Spec => []WireInv
<1>1. Init => WireInv
  BY DEF Init, WireInv, BackpressureIsDraining
<1>2. TypeOK /\ WireInv /\ [Next]_vars => WireInv'
  BY WireStep
<1> QED
  BY <1>1, <1>2, TypeCorrect, PTL DEF Spec

\* flushBackpressure() never finds a chunk to write a second time.
THEOREM BackpressureDrains == Spec => []BackpressureIsDraining
<1>1. WireInv => BackpressureIsDraining
  BY DEF WireInv
<1> QED
  BY <1>1, WireInvariant, PTL

\* Once destroy() was called no step writes an artifact, on any connection.
THEOREM DestroyedIsSilent == Spec => NoWriteAfterDestroy
<1>1. TypeOK /\ WireInv /\ [Next]_vars =>
         [states.isDestroyed => \A s \in Sockets, i \in Ids :
             unanswered'[s][i] <= unanswered[s][i]]_vars
  BY WireStep
<1> QED
  BY <1>1, WireInvariant, TypeCorrect, PTL DEF Spec, NoWriteAfterDestroy
----------------------------------------------------------------------------
(* isConnecting.                                                           *)

\* isConnecting is set for a reason, in any case where it was.
LEMMA ConnectingStep ==
    ASSUME TypeOK, ConnectingIsUnderWay, [Next]_vars
    PROVE  ConnectingIsUnderWay'
<1> DEFINE UnderWay(s) == conn[s] \in {"lookup", "connecting", "failed", "thrown"}
<1>1. ASSUME states'.isConnecting = states.isConnecting,
             \A s \in Sockets : UnderWay(s) => UnderWay(s)'
      PROVE  ConnectingIsUnderWay'
  BY <1>1 DEF ConnectingIsUnderWay
<1>2. ASSUME ~states'.isConnecting
      PROVE  ConnectingIsUnderWay'
  BY <1>2 DEF ConnectingIsUnderWay
<1>3. ASSUME NEW waiter, StartConnection(waiter)
      PROVE  ConnectingIsUnderWay'
  <2>1. FreshSocket \in Sockets
    BY <1>3, FreshSocketType DEF StartConnection
  <2>2. conn'[FreshSocket] = "lookup"
    BY <1>3, <2>1 DEF StartConnection, TypeOK
  <2> QED
    BY <2>1, <2>2 DEF ConnectingIsUnderWay
<1>4. ASSUME NEW r, NEW q, NEW t, NEW o, SendArtifact(r, q, t, o), UNCHANGED conn
      PROVE  ConnectingIsUnderWay'
  <2>1. states'.isConnecting = states.isConnecting
    BY <1>4 DEF SendArtifact, Write, TypeOK
  <2> QED
    BY <1>1, <1>4, <2>1
<1>5. ASSUME NEW r \in Requests, Send(r)
      PROVE  ConnectingIsUnderWay'
  BY <1>1, <1>3, <1>5 DEF Send, connVars
<1>6. ASSUME NEW r \in Requests, (\E v \in BOOLEAN : Refuse(r, v)) \/ DispatchWithoutSocket(r) \/ Timeout(r)
      PROVE  ConnectingIsUnderWay'
  BY <1>1, <1>6 DEF Refuse, DispatchWithoutSocket, Timeout, connVars
<1>7. ASSUME NEW o \in Options, Update(o)
      PROVE  ConnectingIsUnderWay'
  BY <1>1, <1>7 DEF Update, connVars
<1>8. CASE RetryTimer
  BY <1>1, <1>3, <1>8 DEF RetryTimer, connVars
<1>9. ASSUME NEW r \in Requests, DispatchWithSocket(r)
      PROVE  ConnectingIsUnderWay'
  BY <1>4, <1>9 DEF DispatchWithSocket, connVars
<1>10. ASSUME NEW i \in Ids, NEW valid \in BOOLEAN, Verified(i, valid)
       PROVE  ConnectingIsUnderWay'
  <2>1. UNCHANGED conn
    BY <1>10 DEF Verified, connVars
  <2>2. UNCHANGED states \/ \E r, q, t, o : SendArtifact(r, q, t, o)
    BY <1>10 DEF Verified
  <2> QED
    BY <1>1, <1>4, <2>1, <2>2
<1>11. ASSUME NEW s \in Sockets, LookupSucceeds(s) \/ ConnectThrows(s) \/ Breaks(s)
       PROVE  ConnectingIsUnderWay'
  BY <1>1, <1>11 DEF LookupSucceeds, ConnectThrows, Breaks, TypeOK
<1>12. ASSUME NEW s \in Sockets, OtherData(s) \/ \E i \in Ids : Data(s, i)
       PROVE  ConnectingIsUnderWay'
  BY <1>1, <1>12 DEF OtherData, Data, connVars, TypeOK
<1>13. ASSUME NEW s \in Sockets, Drain(s)
       PROVE  ConnectingIsUnderWay'
  <2>1. UNCHANGED states \/ states' = [states EXCEPT !.isDraining = FALSE]
    BY <1>13 DEF Drain
  <2>2. states'.isConnecting = states.isConnecting
    BY <2>1 DEF TypeOK
  <2> QED
    BY <1>1, <1>13, <2>2 DEF Drain, connVars
<1>14. ASSUME \/ End \/ \E c : DestroyClient(c)
              \/ \E s \in Sockets :
                    \/ LookupFails(s) \/ Connected(s) \/ OnEnd(s) \/ OnClose(s)
                    \/ \E retryable \in BOOLEAN : OnError(s, retryable)
       PROVE  ConnectingIsUnderWay'
  <2>1. Disconnected => ~states'.isConnecting
    BY DEF Disconnected, TypeOK
  <2>2. CASE End \/ \E s \in Sockets :
                       \/ OnEnd(s) \/ OnClose(s)
                       \/ \E retryable \in BOOLEAN : OnError(s, retryable)
    <3>1. Disconnected
      BY <2>2 DEF End, OnEnd, OnClose, OnError, RetryConnect, ResolveError
    <3> QED
      BY <1>2, <2>1, <3>1
  <2>3. CASE \E c : DestroyClient(c)
    BY <1>2, <2>3 DEF DestroyClient
  <2>4. CASE \E s \in Sockets : LookupFails(s) \/ Connected(s)
    BY <1>2, <2>4 DEF LookupFails, Connected, TypeOK
  <2> QED
    BY <1>14, <2>2, <2>3, <2>4
<1>15. CASE Caller
  BY <1>5, <1>6, <1>7, <1>14, <1>15 DEF Caller, Destroy
<1>16. ASSUME NEW s \in Sockets, ConnectionTimeout(s)
       PROVE  ConnectingIsUnderWay'
  BY <1>14, <1>16 DEF ConnectionTimeout
<1>17. CASE UNCHANGED vars
  BY <1>1, <1>17 DEF vars, connVars
<1> QED
  BY <1>6, <1>8, <1>9, <1>10, <1>11, <1>12, <1>13, <1>14, <1>15, <1>16, <1>17 DEF Next

\* However a connection comes about or fails, isConnecting is only set while
\* a connection is under way or its failure is still to be reported.
THEOREM ConnectingUnderWay == Spec => []ConnectingIsUnderWay
<1>1. Init => ConnectingIsUnderWay
  BY DEF Init, ConnectingIsUnderWay
<1>2. TypeOK /\ ConnectingIsUnderWay /\ [Next]_vars => ConnectingIsUnderWay'
  BY ConnectingStep
<1> QED
  BY <1>1, <1>2, TypeCorrect, PTL DEF Spec

----------------------------------------------------------------------------
(* What is written is awaited.                                             *)

Awaited(i) ==
    \E r \in Requests : IdOf[r] = i /\ (outcome'[r] = "pending" \/ pc[r] = "socket")

\* The only id sendArtifact() writes is that of its artifact, and then it
\* settles nothing.
LEMMA SendArtifactWrites ==
    ASSUME TypeOK, NEW r \in Requests, NEW q, NEW t, NEW o, SendArtifact(r, q, t, o),
           NEW s \in Sockets, NEW i \in Ids, unanswered'[s][i] > unanswered[s][i]
    PROVE  IdOf[r] = i /\ outcome' = o
<1>0. unanswered \in [Sockets -> [Ids -> Nat]] /\ unanswered[s][i] \in Nat
  BY DEF TypeOK
<1>1. CASE Writable
  <2>1. PICK accepted \in WriteResults : Write(r, accepted)
    BY <1>1 DEF SendArtifact
  <2>2. unanswered' = [unanswered EXCEPT ![socket][IdOf[r]] = @ + 1]
    BY <2>1 DEF Write
  <2>3. IdOf[r] # i => unanswered'[s][i] = unanswered[s][i]
    BY <1>0, <2>2
  <2> QED
    BY <1>0, <1>1, <2>3 DEF SendArtifact
<1>2. CASE ~Writable
  BY <1>0, <1>2 DEF SendArtifact, wireVars
<1> QED
  BY <1>1, <1>2

\* The first of what is left of the queue is still pending, and has another id.
LEMMA HeadIsPending ==
    ASSUME CallBooks, NEW id, Without(queue, id) # <<>>
    PROVE  /\ Head(Without(queue, id)) \in Requests
           /\ outcome[Head(Without(queue, id))] = "pending"
           /\ IdOf[Head(Without(queue, id))] # id
<1> DEFINE q == Without(queue, id)
<1>1. queue \in Seq(Requests)
  BY DEF CallBooks, Books
<1>2. /\ q \in Seq(Requests)
      /\ \A i \in DOMAIN q : (\E k \in DOMAIN queue : q[i] = queue[k]) /\ IdOf[q[i]] # id
  BY <1>1, WithoutIsQueue, WithoutRemoves DEF CallBooks, Books
<1> HIDE DEF q
<1>3. q # <<>> /\ Head(q) \in Requests
  BY <1>2, HeadTailProperties DEF q
<1>4. Len(q) \in Nat /\ Len(q) # 0 /\ DOMAIN q = 1 .. Len(q)
  BY <1>2, <1>3, EmptySeq, LenProperties
<1>5. 1 \in DOMAIN q /\ Head(q) = q[1]
  BY <1>2, <1>3, <1>4
<1>6. PICK k \in DOMAIN queue : Head(q) = queue[k]
  BY <1>2, <1>5
<1> QED
  BY <1>2, <1>3, <1>5, <1>6 DEF CallBooks, Books, q

\* A step that writes an artifact writes one that is awaited.
LEMMA AwaitedStep ==
    ASSUME TypeOK, WireInv, CallBooks, [Next]_vars,
           NEW s \in Sockets, NEW i \in Ids, unanswered'[s][i] > unanswered[s][i]
    PROVE  Awaited(i)
<1>0. unanswered \in [Sockets -> [Ids -> Nat]] /\ unanswered[s][i] \in Nat
  BY DEF TypeOK
<1>1. ASSUME UNCHANGED unanswered
      PROVE  FALSE
  BY <1>0, <1>1
<1>2. ASSUME NEW r \in Requests, DispatchWithSocket(r)
      PROVE  Awaited(i)
  <2>1. pc[r] = "socket" /\ SendArtifact(r, queue, timer, outcome)
    BY <1>2 DEF DispatchWithSocket
  <2>2. IdOf[r] = i
    BY <2>1, SendArtifactWrites
  <2> QED
    BY <2>1, <2>2 DEF Awaited
<1>3. ASSUME NEW id \in Ids, NEW valid \in BOOLEAN, Verified(id, valid)
      PROVE  Awaited(i)
  <2>1. CASE UNCHANGED <<states, wireVars>>
    BY <1>1, <2>1 DEF wireVars
  <2>2. CASE ~ UNCHANGED <<states, wireVars>>
    <3> DEFINE answered == CHOOSE r \in Queued : IdOf[r] = id
               verdict == IF valid THEN "response" ELSE "error"
               q == Without(queue, id)
               o == Settled(outcome, {answered}, verdict)
    <3>1. /\ \E r \in Queued : IdOf[r] = id
          /\ q # <<>> /\ \E t : SendArtifact(Head(q), q, t, o)
      BY <1>3, <2>2 DEF Verified
    <3>2. /\ Head(q) \in Requests /\ outcome[Head(q)] = "pending"
          /\ IdOf[Head(q)] # id
      BY <3>1, HeadIsPending
    <3>3. IdOf[answered] = id
      BY <3>1
    <3>4. o[Head(q)] = "pending"
      BY <3>2, <3>3 DEF Settled
    <3> HIDE DEF q, o
    <3>5. IdOf[Head(q)] = i /\ outcome' = o
      BY <3>1, <3>2, SendArtifactWrites
    <3> QED
      BY <3>2, <3>4, <3>5 DEF Awaited
  <2> QED
    BY <2>1, <2>2
<1>4. ASSUME NEW x \in Sockets, Drain(x)
      PROVE  FALSE
  BY <1>1, <1>4, DrainIsSilent
<1>5. ASSUME NEW x \in Sockets, NEW y \in Ids, Data(x, y)
      PROVE  FALSE
  <2>1. unanswered' = [unanswered EXCEPT ![x][y] = @ - 1] /\ unanswered[x][y] \in Nat
    BY <1>5 DEF Data, TypeOK
  <2>2. unanswered'[s][i] <= unanswered[s][i]
    BY <1>0, <2>1
  <2>3. unanswered'[s][i] \in Int
    BY <1>0, <2>1
  <2> QED
    BY <1>0, <2>2, <2>3
<1>6. ASSUME NEW x \in Sockets, OnClose(x)
      PROVE  FALSE
  <2>1. unanswered' = [unanswered EXCEPT ![x] = [y \in Ids |-> 0]]
    BY <1>6 DEF OnClose
  <2>2. unanswered'[s][i] \in {0, unanswered[s][i]}
    BY <1>0, <2>1
  <2> QED
    BY <1>0, <2>2
<1>7. ASSUME NEW x \in Sockets, NEW retryable \in BOOLEAN, OnError(x, retryable) \/ OnEnd(x)
      PROVE  FALSE
  BY <1>1, <1>7 DEF OnError, OnEnd, wireVars
<1>8. ASSUME NEW r \in Requests,
             \/ Send(r) \/ (\E v \in BOOLEAN : Refuse(r, v))
             \/ DispatchWithoutSocket(r) \/ Timeout(r)
      PROVE  FALSE
  BY <1>1, <1>8 DEF Send, Refuse, DispatchWithoutSocket, Timeout, wireVars
<1>9. ASSUME \/ \E o \in Options : Update(o)
             \/ End \/ Destroy \/ RetryTimer
             \/ \E x \in Sockets :
                   \/ LookupFails(x) \/ LookupSucceeds(x) \/ ConnectThrows(x) \/ Connected(x)
                   \/ OtherData(x) \/ Breaks(x) \/ ConnectionTimeout(x)
      PROVE  FALSE
  BY <1>1, <1>9
  DEF Update, End, Destroy, DestroyClient, RetryTimer, LookupFails, LookupSucceeds, ConnectThrows,
      Connected, OtherData, Breaks, ConnectionTimeout, wireVars
<1>10. CASE UNCHANGED vars
  BY <1>1, <1>10 DEF vars, wireVars
<1> QED
  BY <1>2, <1>3, <1>4, <1>5, <1>6, <1>7, <1>8, <1>9, <1>10 DEF Next, Caller

\* For any number of calls and connections, ids shared or not: an artifact is
\* only written while a call of its id waits for the answer, or by that
\* call's own dispatch(); pumpNextQueue() and 'drain' send nothing whose call
\* has settled.
THEOREM WrittenIsAwaited == Spec => WritesAreAwaited
<1>1. TypeOK /\ WireInv /\ CallBooks /\ [Next]_vars =>
         [\A s \in Sockets, i \in Ids :
             unanswered'[s][i] > unanswered[s][i] =>
                 \E r \in Requests :
                     IdOf[r] = i /\ (outcome'[r] = "pending" \/ pc[r] = "socket")]_vars
  BY AwaitedStep DEF Awaited
<1> QED
  BY <1>1, TypeCorrect, WireInvariant, BooksCorrect, PTL DEF Spec, WritesAreAwaited

----------------------------------------------------------------------------
(* What no step of the client undoes.                                      *)

\* Settling calls never makes one idle again.
LEMMA SettledKeeps ==
    ASSUME NEW o \in [Requests -> Outcomes], NEW S, NEW verdict \in Verdicts
    PROVE  \A r \in Requests : o[r] # "idle" => Settled(o, S, verdict)[r] # "idle"
  BY DEF Settled, Verdicts

\* No call becomes idle again, and nothing that was written is forgotten.
LEMMA HistoryStep ==
    ASSUME TypeOK, [Next]_vars
    PROVE  /\ \A r \in Requests : outcome[r] # "idle" => outcome'[r] # "idle"
           /\ written \subseteq written'
<1> DEFINE Kept == /\ \A r \in Requests : outcome[r] # "idle" => outcome'[r] # "idle"
                   /\ written \subseteq written'
<1>0. outcome \in [Requests -> Outcomes]
  BY DEF TypeOK, Outcomes
<1>1. ASSUME UNCHANGED <<outcome, written>>
      PROVE  Kept
  BY <1>1
<1>10. ASSUME NEW S, NEW verdict \in Verdicts,
              outcome' = Settled(outcome, S, verdict), UNCHANGED written
       PROVE  Kept
  BY <1>0, <1>10, SettledKeeps
<1>2. ASSUME NEW r, NEW q, NEW t, NEW o \in [Requests -> Outcomes],
             \A x \in Requests : outcome[x] # "idle" => o[x] # "idle",
             SendArtifact(r, q, t, o)
      PROVE  Kept
  <2>1. outcome' = o \/ outcome' = Settled(o, {r}, "error")
    BY <1>2 DEF SendArtifact
  <2>2. written \subseteq written'
    BY <1>2 DEF SendArtifact, Write, wireVars
  <2> QED
    BY <1>2, <2>1, <2>2, SettledKeeps DEF Verdicts
<1>3. ASSUME NEW r \in Requests, Send(r) \/ (\E v \in BOOLEAN : Refuse(r, v))
      PROVE  Kept
  BY <1>0, <1>3 DEF Send, Refuse, wireVars
<1>4. ASSUME NEW r \in Requests, DispatchWithSocket(r)
      PROVE  Kept
  BY <1>0, <1>2, <1>4 DEF DispatchWithSocket
<1>5. ASSUME NEW r \in Requests, DispatchWithoutSocket(r) \/ Timeout(r)
      PROVE  Kept
  <2>1. UNCHANGED written
    BY <1>5 DEF DispatchWithoutSocket, Timeout, wireVars
  <2>2. \/ UNCHANGED outcome
        \/ \E S : outcome' = Settled(outcome, S, "error")
        \/ outcome' = Settled(outcome, {r}, "timeout")
    BY <1>5 DEF DispatchWithoutSocket, Timeout, callVars
  <2>3. "error" \in Verdicts /\ "timeout" \in Verdicts
    BY DEF Verdicts
  <2> QED
    BY <1>1, <1>10, <2>1, <2>2, <2>3
<1>6. ASSUME NEW i \in Ids, NEW valid \in BOOLEAN, Verified(i, valid)
      PROVE  Kept
  <2>1. CASE UNCHANGED <<callVars, states, wireVars>>
    BY <1>1, <2>1 DEF callVars, wireVars
  <2>2. CASE ~UNCHANGED <<callVars, states, wireVars>>
    <3> DEFINE answered == CHOOSE r \in Queued : IdOf[r] = i
               verdict == IF valid THEN "response" ELSE "error"
               q == Without(queue, i)
               o == Settled(outcome, {answered}, verdict)
    <3>1. \/ SendArtifact(Head(q), q, timer \ {answered}, o)
          \/ outcome' = o /\ UNCHANGED written
      BY <1>6, <2>2 DEF Verified, wireVars
    <3>2. verdict \in Verdicts
      BY DEF Verdicts
    <3>3. o \in [Requests -> Outcomes] /\ \A x \in Requests : outcome[x] # "idle" => o[x] # "idle"
      BY <1>0, <3>2, SettledType, SettledKeeps
    <3> HIDE DEF o, q
    <3> QED
      BY <1>2, <3>1, <3>3
  <2> QED
    BY <2>1, <2>2
<1>7. ASSUME \/ \E o \in Options : Update(o)
             \/ End \/ Destroy \/ RetryTimer
             \/ \E s \in Sockets :
                   \/ LookupFails(s) \/ LookupSucceeds(s) \/ ConnectThrows(s) \/ Connected(s)
                   \/ \E i \in Ids : Data(s, i)
                   \/ OtherData(s) \/ Drain(s) \/ Breaks(s) \/ ConnectionTimeout(s)
      PROVE  Kept
  BY <1>1, <1>7
  DEF Update, End, Destroy, DestroyClient, RetryTimer, LookupFails, LookupSucceeds, ConnectThrows,
      Connected, Data, OtherData, Drain, Breaks, ConnectionTimeout, callVars, wireVars
<1>8. ASSUME NEW s \in Sockets, NEW retryable \in BOOLEAN,
             OnError(s, retryable) \/ OnEnd(s) \/ OnClose(s)
      PROVE  Kept
  <2>1. UNCHANGED written /\ (RetryConnect \/ ResolveError)
    BY <1>8 DEF OnError, OnEnd, OnClose, wireVars
  <2>2. UNCHANGED outcome \/ outcome' = Settled(outcome, Queued, "error")
    BY <2>1 DEF RetryConnect, ResolveError, FailQueue, callVars
  <2>3. "error" \in Verdicts
    BY DEF Verdicts
  <2> QED
    BY <1>1, <1>10, <2>1, <2>2, <2>3
<1>9. CASE UNCHANGED vars
  BY <1>1, <1>9 DEF vars, callVars, wireVars
<1> QED
  BY <1>3, <1>4, <1>5, <1>6, <1>7, <1>8, <1>9 DEF Next, Caller
----------------------------------------------------------------------------
(* What an answer and a write presuppose.                                  *)

WasWritten(i) == \E w \in written : IdOf[w] = i

\* A message from the server is about an artifact that was written to it, and
\* a dispatch() that waits was called.
WireKnown ==
    /\ \A s \in Sockets, i \in Ids : unanswered[s][i] > 0 => WasWritten(i)
    /\ \A i \in Ids : verifying[i] > 0 => WasWritten(i)

DispatchKnown ==
    /\ \A r \in Requests : pc[r] # "none" => outcome[r] # "idle"
    /\ \A s \in Sockets : owner[s] # None => outcome[owner[s]] # "idle"

\* Every step keeps what is known of the messages.
LEMMA WireKnownStep ==
    ASSUME TypeOK, ConnectedHasSocket, WireInv, WireKnown, [Next]_vars
    PROVE  WireKnown'
<1>0. \A i \in Ids : WasWritten(i) => WasWritten(i)'
  BY HistoryStep DEF WasWritten
<1>1. ASSUME UNCHANGED <<unanswered, verifying>>
      PROVE  WireKnown'
  BY <1>0, <1>1 DEF WireKnown
<1>2. ASSUME NEW r \in Requests, NEW q, NEW t, NEW o, SendArtifact(r, q, t, o)
      PROVE  \A s \in Sockets, i \in Ids : unanswered'[s][i] > 0 => WasWritten(i)'
  <2>1. CASE Writable
    <3>1. PICK accepted \in WriteResults : Write(r, accepted)
      BY <1>2, <2>1 DEF SendArtifact
    <3>2. unanswered' = [unanswered EXCEPT ![socket][IdOf[r]] = @ + 1]
      BY <3>1 DEF Write
    <3>3. WasWritten(IdOf[r])'
      BY <3>1 DEF Write, WasWritten
    <3>4. \A s \in Sockets, i \in Ids : i # IdOf[r] => unanswered'[s][i] = unanswered[s][i]
      BY <3>2 DEF TypeOK
    <3> QED
      BY <1>0, <3>3, <3>4 DEF WireKnown
  <2>2. CASE ~Writable
    BY <1>0, <1>2, <2>2 DEF SendArtifact, wireVars, WireKnown
  <2> QED
    BY <2>1, <2>2
<1>3. ASSUME NEW r \in Requests,
             Send(r) \/ (\E v \in BOOLEAN : Refuse(r, v)) \/ DispatchWithoutSocket(r) \/ Timeout(r)
      PROVE  WireKnown'
  BY <1>1, <1>3 DEF Send, Refuse, DispatchWithoutSocket, Timeout, wireVars
<1>4. ASSUME \/ \E o \in Options : Update(o)
             \/ End \/ RetryTimer
             \/ \E c : DestroyClient(c)
             \/ \E s \in Sockets :
                   \/ LookupFails(s) \/ LookupSucceeds(s) \/ ConnectThrows(s) \/ Connected(s)
                   \/ OtherData(s) \/ Breaks(s) \/ OnEnd(s)
                   \/ \E retryable \in BOOLEAN : OnError(s, retryable)
      PROVE  WireKnown'
  BY <1>1, <1>4
  DEF Update, End, RetryTimer, DestroyClient, LookupFails, LookupSucceeds, ConnectThrows, Connected,
      OtherData, Breaks, OnEnd, OnError, wireVars
<1>5. ASSUME NEW r \in Requests, DispatchWithSocket(r)
      PROVE  WireKnown'
  BY <1>0, <1>2, <1>5 DEF DispatchWithSocket, WireKnown
<1>6. ASSUME NEW s \in Sockets, NEW i \in Ids, Data(s, i)
      PROVE  WireKnown'
  <2>1. /\ unanswered[s][i] > 0
        /\ unanswered' = [unanswered EXCEPT ![s][i] = @ - 1]
        /\ verifying' = [verifying EXCEPT ![i] = @ + 1]
    BY <1>6 DEF Data
  <2>2. \A x \in Sockets, y \in Ids : unanswered'[x][y] <= unanswered[x][y]
    BY <2>1 DEF TypeOK
  <2>3. \A x \in Sockets, y \in Ids : unanswered'[x][y] > 0 => unanswered[x][y] > 0
    <3> TAKE x \in Sockets, y \in Ids
    <3>1. unanswered[x][y] \in Nat
      BY DEF TypeOK
    <3>2. x = s /\ y = i => unanswered'[x][y] = unanswered[x][y] - 1
      BY <2>1 DEF TypeOK
    <3>3. ~(x = s /\ y = i) => unanswered'[x][y] = unanswered[x][y]
      BY <2>1 DEF TypeOK
    <3> QED
      BY <3>1, <3>2, <3>3
  <2>4. \A y \in Ids : verifying'[y] > 0 => verifying[y] > 0 \/ y = i
    BY <2>1 DEF TypeOK
  <2> QED
    BY <1>0, <2>1, <2>3, <2>4 DEF WireKnown
<1>7. ASSUME NEW i \in Ids, NEW valid \in BOOLEAN, Verified(i, valid)
      PROVE  WireKnown'
  <2>1. verifying[i] > 0 /\ verifying' = [verifying EXCEPT ![i] = @ - 1]
    BY <1>7 DEF Verified
  <2>2. \A y \in Ids : verifying'[y] > 0 => verifying[y] > 0
    BY <2>1 DEF TypeOK
  <2>3. \A s \in Sockets, y \in Ids : unanswered'[s][y] > 0 => WasWritten(y)'
    <3>1. CASE UNCHANGED unanswered
      BY <1>0, <3>1 DEF WireKnown
    <3>2. CASE ~UNCHANGED unanswered
      <4> DEFINE q == Without(queue, i)
      <4>1. \E t, o : q # <<>> /\ SendArtifact(Head(q), q, t, o)
        BY <1>7, <3>2 DEF Verified, wireVars
      <4>2. q \in Seq(Requests)
        BY WithoutIsQueue DEF TypeOK
      <4> HIDE DEF q
      <4>3. Head(q) \in Requests
        BY <4>1, <4>2, HeadTailProperties
      <4> QED
        BY <1>2, <4>1, <4>3
    <3> QED
      BY <3>1, <3>2
  <2> QED
    BY <1>0, <2>2, <2>3 DEF WireKnown
<1>8. ASSUME NEW s \in Sockets, Drain(s)
      PROVE  WireKnown'
  BY <1>1, <1>8, DrainIsSilent DEF Drain
<1>9. ASSUME NEW s \in Sockets, OnClose(s)
      PROVE  WireKnown'
  <2>1. unanswered' = [unanswered EXCEPT ![s] = [i \in Ids |-> 0]] /\ UNCHANGED verifying
    BY <1>9 DEF OnClose
  <2>2. \A x \in Sockets, y \in Ids : unanswered'[x][y] > 0 => unanswered[x][y] > 0
    BY <2>1 DEF TypeOK
  <2> QED
    BY <1>0, <2>1, <2>2 DEF WireKnown
<1>10. CASE UNCHANGED vars
  BY <1>1, <1>10 DEF vars, wireVars
<1>11. CASE Caller
  BY <1>3, <1>4, <1>11 DEF Caller, Destroy
<1>12. ASSUME NEW s \in Sockets, ConnectionTimeout(s)
       PROVE  WireKnown'
  BY <1>4, <1>12 DEF ConnectionTimeout
<1> QED
  BY <1>3, <1>4, <1>5, <1>6, <1>7, <1>8, <1>9, <1>10, <1>11, <1>12 DEF Next

\* Every step keeps what is known of the dispatch() calls.
LEMMA DispatchKnownStep ==
    ASSUME TypeOK, DispatchKnown, [Next]_vars
    PROVE  DispatchKnown'
<1>0. \A r \in Requests : outcome[r] # "idle" => outcome'[r] # "idle"
  BY HistoryStep
<1>1. ASSUME \A x \in Requests : pc'[x] # "none" => outcome'[x] # "idle",
             \A s \in Sockets : owner'[s] # None => outcome'[owner'[s]] # "idle"
      PROVE  DispatchKnown'
  BY <1>1 DEF DispatchKnown
<1>2. ASSUME UNCHANGED pc
      PROVE  \A x \in Requests : pc'[x] # "none" => outcome'[x] # "idle"
  BY <1>0, <1>2 DEF DispatchKnown
<1>3. ASSUME UNCHANGED owner
      PROVE  \A s \in Sockets : owner'[s] # None => outcome'[owner'[s]] # "idle"
  BY <1>0, <1>3 DEF DispatchKnown, TypeOK
<1>4. ASSUME NEW waiter \in Requests \cup {None}, StartConnection(waiter),
             waiter # None => outcome'[waiter] # "idle"
      PROVE  \A s \in Sockets : owner'[s] # None => outcome'[owner'[s]] # "idle"
  <2>1. owner' = [owner EXCEPT ![FreshSocket] = waiter]
    BY <1>4 DEF StartConnection
  <2>2. \A s \in Sockets : owner'[s] \in {owner[s], waiter}
    BY <2>1 DEF TypeOK
  <2>3. \A s \in Sockets : owner[s] # None => owner[s] \in Requests
    BY DEF TypeOK
  <2> QED
    BY <1>0, <1>4, <2>2, <2>3 DEF DispatchKnown
<1>5. ASSUME NEW r \in Requests, Send(r)
      PROVE  DispatchKnown'
  <2>1. outcome'[r] # "idle"
    BY <1>5 DEF Send, TypeOK
  <2>2. \A x \in Requests : x # r => pc'[x] = pc[x]
    BY <1>5 DEF Send, TypeOK
  <2>3. \A x \in Requests : pc'[x] # "none" => outcome'[x] # "idle"
    BY <1>0, <2>1, <2>2 DEF DispatchKnown
  <2>4. UNCHANGED owner \/ StartConnection(r)
    BY <1>5 DEF Send, connVars
  <2> QED
    BY <1>1, <1>3, <1>4, <2>1, <2>3, <2>4
<1>6. ASSUME NEW r \in Requests, DispatchWithSocket(r) \/ DispatchWithoutSocket(r)
      PROVE  DispatchKnown'
  <2>1. pc' = [pc EXCEPT ![r] = "none"] /\ UNCHANGED owner
    BY <1>6 DEF DispatchWithSocket, DispatchWithoutSocket, connVars
  <2>2. \A x \in Requests : pc'[x] # "none" => pc[x] # "none"
    BY <2>1 DEF TypeOK
  <2> QED
    BY <1>0, <1>1, <1>3, <2>1, <2>2 DEF DispatchKnown
<1>7. ASSUME NEW s \in Sockets, LookupFails(s) \/ ConnectThrows(s) \/ Connected(s)
      PROVE  DispatchKnown'
  <2>1. /\ \/ pc' = [r \in Requests |-> IF owner[s] = r THEN "noSocket" ELSE pc[r]]
           \/ pc' = [r \in Requests |-> IF owner[s] = r THEN "none" ELSE pc[r]]
           \/ pc' = [r \in Requests |-> IF owner[s] = r THEN "socket" ELSE pc[r]]
        /\ owner' = [owner EXCEPT ![s] = None]
    BY <1>7 DEF LookupFails, ConnectThrows, Connected
  <2>2. \A x \in Requests : pc'[x] = pc[x] \/ owner[s] = x
    BY <2>1
  <2>3. \A x \in Requests : pc'[x] # "none" => outcome'[x] # "idle"
    BY <1>0, <2>2, NoneAssumption DEF DispatchKnown
  <2>4. \A x \in Sockets : owner'[x] # None => owner'[x] = owner[x] /\ owner[x] \in Requests
    BY <2>1 DEF TypeOK
  <2> QED
    BY <1>0, <1>1, <2>3, <2>4 DEF DispatchKnown
<1>8. CASE RetryTimer
  <2>1. UNCHANGED pc /\ (UNCHANGED owner \/ StartConnection(None))
    BY <1>8 DEF RetryTimer, connVars
  <2> QED
    BY <1>1, <1>2, <1>3, <1>4, <2>1
<1>9. ASSUME UNCHANGED <<pc, owner>>
      PROVE  DispatchKnown'
  BY <1>1, <1>2, <1>3, <1>9
<1>10. ASSUME NEW r \in Requests, (\E v \in BOOLEAN : Refuse(r, v)) \/ Timeout(r)
       PROVE  DispatchKnown'
  BY <1>9, <1>10 DEF Refuse, Timeout, connVars
<1>11. ASSUME NEW i \in Ids, NEW valid \in BOOLEAN, Verified(i, valid)
       PROVE  DispatchKnown'
  BY <1>9, <1>11 DEF Verified, connVars
<1>12. ASSUME \/ \E o \in Options : Update(o)
              \/ End \/ \E c : DestroyClient(c)
              \/ \E s \in Sockets :
                    \/ LookupSucceeds(s) \/ OtherData(s) \/ Drain(s)
                    \/ \E i \in Ids : Data(s, i)
                    \/ Breaks(s) \/ OnEnd(s) \/ OnClose(s)
                    \/ \E retryable \in BOOLEAN : OnError(s, retryable)
       PROVE  DispatchKnown'
  BY <1>9, <1>12
  DEF Update, End, DestroyClient, LookupSucceeds, OtherData, Drain, Data, Breaks,
      OnEnd, OnClose, OnError, connVars
<1>13. CASE Caller
  BY <1>5, <1>10, <1>12, <1>13 DEF Caller, Destroy
<1>14. ASSUME NEW s \in Sockets, ConnectionTimeout(s)
       PROVE  DispatchKnown'
  BY <1>12, <1>14 DEF ConnectionTimeout
<1>15. CASE UNCHANGED vars
  BY <1>9, <1>15 DEF vars, connVars
<1> QED
  BY <1>6, <1>7, <1>8, <1>10, <1>11, <1>12, <1>13, <1>14, <1>15 DEF Next
\* In every reachable state, messages and dispatch() calls are known.
THEOREM KnownInvariant == Spec => [](WireKnown /\ DispatchKnown)
<1>1. Init => WireKnown /\ DispatchKnown
  BY DEF Init, WireKnown, DispatchKnown
<1>2. TypeOK /\ ConnectedHasSocket /\ WireInv /\ WireKnown /\ DispatchKnown /\ [Next]_vars
         => (WireKnown /\ DispatchKnown)'
  BY WireKnownStep, DispatchKnownStep
<1> QED
  BY <1>1, <1>2, TypeCorrect, WireInvariant, PTL DEF Spec

----------------------------------------------------------------------------
(* The refinement.                                                         *)

\* Every step of the client is a step of the promise, or changes nothing the
\* callers see.
LEMMA PromiseStep ==
    ASSUME TypeOK, CallBooks, WireKnown, DispatchKnown, [Next]_vars
    PROVE  [Promise!Next]_(Promise!vars)
<1> DEFINE Step == [Promise!Next]_(Promise!vars)
<1>0. outcome \in [Requests -> Outcomes]
  BY DEF TypeOK, Outcomes
<1>1. ASSUME UNCHANGED <<outcome, written>>, states'.isDestroyed = states.isDestroyed
      PROVE  Step
  BY <1>1 DEF Promise!vars
<1>2. ASSUME NEW S, NEW failure \in {"error", "timeout"},
             outcome' = Settled(outcome, S, failure),
             UNCHANGED written, states'.isDestroyed = states.isDestroyed
      PROVE  Step
  <2> DEFINE P == {r \in Requests : r \in S /\ outcome[r] = "pending"}
  <2>1. Promise!Fail(P, failure)
    BY <1>2 DEF Promise!Fail, Settled
  <2>2. P \in SUBSET Requests /\ failure \in Promise!Failures
    BY DEF Promise!Failures
  <2> HIDE DEF P
  <2> QED
    BY <2>1, <2>2 DEF Promise!Next
<1>3. ASSUME NEW c, DestroyClient(c)
      PROVE  Step
  <2>1. Promise!Close
    BY <1>3 DEF DestroyClient, Promise!Close
  <2> QED
    BY <2>1 DEF Promise!Next
<1>4. ASSUME NEW r \in Requests, (\E v \in BOOLEAN : Refuse(r, v))
      PROVE  Step
  <2>1. Promise!Refuse(r)
    BY <1>4 DEF Refuse, Promise!Refuse, wireVars
  <2> QED
    BY <2>1 DEF Promise!Next
<1>5. ASSUME NEW r \in Requests, Send(r)
      PROVE  Step
  <2>1. states'.isDestroyed = states.isDestroyed
    BY <1>5 DEF Send, StartConnection, TypeOK
  <2>2. Promise!Accept(r)
    BY <1>5, <2>1 DEF Send, Promise!Accept, wireVars
  <2> QED
    BY <2>2 DEF Promise!Next
<1>6. ASSUME NEW r \in Requests, DispatchWithSocket(r)
      PROVE  Step
  <2>1. SendArtifact(r, queue, timer, outcome) /\ outcome[r] # "idle"
    BY <1>6 DEF DispatchWithSocket, DispatchKnown
  <2>2. CASE Writable
    <3>1. PICK accepted \in WriteResults : Write(r, accepted)
      BY <2>1, <2>2 DEF SendArtifact
    <3>2. states'.isDestroyed = states.isDestroyed /\ ~states.isDestroyed
      BY <2>2, <3>1 DEF Write, Writable, TypeOK
    <3>3. Promise!Write(r)
      BY <2>1, <2>2, <3>1, <3>2 DEF SendArtifact, Write, Promise!Write
    <3> QED
      BY <3>3 DEF Promise!Next
  <2>3. CASE ~Writable
    <3>1. outcome' = Settled(outcome, {r}, "error") /\ UNCHANGED <<written, states>>
      BY <2>1, <2>3 DEF SendArtifact, wireVars
    <3> QED
      BY <1>2, <3>1
  <2> QED
    BY <2>2, <2>3
<1>7. ASSUME NEW r \in Requests, DispatchWithoutSocket(r) \/ Timeout(r)
      PROVE  Step
  <2>1. UNCHANGED <<written, states>>
    BY <1>7 DEF DispatchWithoutSocket, Timeout, wireVars
  <2>2. \/ UNCHANGED outcome
        \/ \E S : outcome' = Settled(outcome, S, "error")
        \/ outcome' = Settled(outcome, {r}, "timeout")
    BY <1>7 DEF DispatchWithoutSocket, Timeout, callVars
  <2> QED
    BY <1>1, <1>2, <2>1, <2>2
<1>8. ASSUME NEW i \in Ids, NEW valid \in BOOLEAN, Verified(i, valid)
      PROVE  Step
  <2>1. CASE ~ \E r \in Queued : IdOf[r] = i
    BY <1>1, <1>8, <2>1 DEF Verified, callVars, wireVars
  <2>2. CASE \E r \in Queued : IdOf[r] = i
    <3> DEFINE answered == CHOOSE r \in Queued : IdOf[r] = i
               verdict == IF valid THEN "response" ELSE "error"
               q == Without(queue, i)
               t == timer \ {answered}
               o == Settled(outcome, {answered}, verdict)
               next == Head(q)
    <3>1. answered \in Queued /\ IdOf[answered] = i
      BY <2>2
    <3>2. answered \in Requests /\ outcome[answered] = "pending"
      BY <3>1 DEF Queued, CallBooks, Books
    <3>3. \E w \in written : IdOf[w] = IdOf[answered]
      BY <1>8, <3>1 DEF Verified, WireKnown, WasWritten
    <3>4. o = [outcome EXCEPT ![answered] = verdict]
      BY <1>0, <3>2 DEF Settled
    <3>5. q \in Seq(Requests) /\ \A k \in DOMAIN q : IdOf[q[k]] # i /\ q[k] \in timer
      BY WithoutIsQueue, WithoutRemoves DEF CallBooks, Books
    <3>6. verdict \in {"response", "error"}
      OBVIOUS
    <3>7. CASE q # <<>> /\ states.isConnected
      <4>1. SendArtifact(next, q, t, o)
        BY <1>8, <2>2, <3>7 DEF Verified
      <4> HIDE DEF answered, verdict, q, o, t
      <4>2. next \in Requests /\ 1 \in DOMAIN q /\ next = q[1]
        BY <3>5, <3>7, HeadTailProperties, EmptySeq, LenProperties
      <4>3. next # answered /\ outcome[next] = "pending"
        BY <3>1, <3>5, <4>2 DEF CallBooks, Books
      <4> HIDE DEF next
      <4>4. CASE Writable
        <5>1. PICK accepted \in WriteResults : Write(next, accepted)
          BY <4>1, <4>4 DEF SendArtifact
        <5>2. states'.isDestroyed = states.isDestroyed /\ ~states.isDestroyed
          BY <4>4, <5>1 DEF Write, Writable, TypeOK
        <5>3. written' = written \cup {next} /\ outcome' = o
          BY <4>1, <4>4, <5>1 DEF SendArtifact, Write
        <5>4. Promise!Answer(answered, next)
          BY <3>2, <3>3, <3>4, <3>6, <4>3, <5>2, <5>3 DEF Promise!Answer
        <5> QED
          BY <3>2, <4>2, <5>4 DEF Promise!Next
      <4>5. CASE ~Writable
        <5>1. outcome' = Settled(o, {next}, "error") /\ UNCHANGED <<written, states>>
          BY <4>1, <4>5 DEF SendArtifact, wireVars
        <5>2. Settled(o, {next}, "error")
                 = [outcome EXCEPT ![answered] = verdict, ![next] = "error"]
          BY <1>0, <3>2, <3>4, <4>2, <4>3 DEF Settled
        <5>3. Promise!Answer(answered, next)
          BY <3>2, <3>3, <3>6, <4>3, <5>1, <5>2 DEF Promise!Answer
        <5> QED
          BY <3>2, <4>2, <5>3 DEF Promise!Next
      <4> QED
        BY <4>4, <4>5
    <3>8. CASE ~(q # <<>> /\ states.isConnected)
      <4>1. outcome' = o /\ UNCHANGED <<written, states>>
        BY <1>8, <2>2, <3>8 DEF Verified, wireVars
      <4>2. CASE valid
        <5>1. verdict = "response"
          BY <4>2
        <5> HIDE DEF answered, verdict, o
        <5>2. Promise!Answer(answered, answered)
          BY <3>2, <3>3, <3>4, <4>1, <5>1 DEF Promise!Answer
        <5> QED
          BY <3>2, <5>2 DEF Promise!Next
      <4>3. CASE ~valid
        <5>1. o = Settled(outcome, {answered}, "error")
          BY <4>3
        <5> HIDE DEF answered, o
        <5> QED
          BY <1>2, <4>1, <5>1
      <4> QED
        BY <4>2, <4>3
    <3> QED
      BY <3>7, <3>8
  <2> QED
    BY <2>1, <2>2
<1>9. ASSUME NEW s \in Sockets, NEW retryable \in BOOLEAN,
             OnError(s, retryable) \/ OnEnd(s) \/ OnClose(s)
      PROVE  Step
  <2>1. UNCHANGED written /\ (RetryConnect \/ ResolveError)
    BY <1>9 DEF OnError, OnEnd, OnClose, wireVars
  <2>2. UNCHANGED outcome \/ outcome' = Settled(outcome, Queued, "error")
    BY <2>1 DEF RetryConnect, ResolveError, FailQueue, callVars
  <2>3. states'.isDestroyed = states.isDestroyed
    BY <2>1 DEF RetryConnect, ResolveError, Disconnected, TypeOK
  <2> QED
    BY <1>1, <1>2, <2>1, <2>2, <2>3
<1>10. ASSUME \/ \E o \in Options : Update(o)
              \/ End \/ RetryTimer
       PROVE  Step
  BY <1>1, <1>10
  DEF Update, End, RetryTimer, StartConnection, Disconnected, TypeOK, callVars, wireVars
<1>11. ASSUME NEW s \in Sockets,
              \/ LookupFails(s) \/ LookupSucceeds(s) \/ ConnectThrows(s) \/ Connected(s)
              \/ OtherData(s) \/ Breaks(s) \/ \E i \in Ids : Data(s, i)
       PROVE  Step
  BY <1>1, <1>11
  DEF LookupFails, LookupSucceeds, ConnectThrows, Connected, OtherData, Breaks, Data, TypeOK,
      callVars, wireVars
<1>12. ASSUME NEW s \in Sockets, Drain(s)
       PROVE  Step
  <2>1. UNCHANGED states \/ states' = [states EXCEPT !.isDraining = FALSE]
    BY <1>12 DEF Drain
  <2>2. states'.isDestroyed = states.isDestroyed
    BY <2>1 DEF TypeOK
  <2> QED
    BY <1>1, <1>12, <2>2 DEF Drain, callVars
<1>13. ASSUME NEW s \in Sockets, ConnectionTimeout(s)
       PROVE  Step
  BY <1>3, <1>13 DEF ConnectionTimeout
<1>14. CASE Caller
  BY <1>3, <1>4, <1>5, <1>10, <1>14 DEF Caller, Destroy
<1>15. CASE UNCHANGED vars
  BY <1>1, <1>15 DEF vars, callVars, wireVars
<1> QED
  BY <1>6, <1>7, <1>8, <1>9, <1>10, <1>11, <1>12, <1>13, <1>14, <1>15 DEF Next

\* For any number of calls and connections, whatever the order of answers,
\* failures, timeouts and destroy(): a call settles at most once, gets a
\* response only when an artifact of its id was written, and nothing is
\* accepted or written once the client is destroyed.
THEOREM KeepsItsPromise == Spec => PromiseSpec
<1>1. Init => Promise!Init
  BY DEF Init, Promise!Init
<1>2. TypeOK /\ CallBooks /\ WireKnown /\ DispatchKnown /\ [Next]_vars
         => [Promise!Next]_(Promise!vars)
  BY PromiseStep
<1> QED
  BY <1>1, <1>2, TypeCorrect, BooksCorrect, KnownInvariant, PTL
  DEF Spec, PromiseSpec, Promise!Spec
=============================================================================
