---------------------------- MODULE BtpsClient ----------------------------
(***************************************************************************)
(* The BTPS client: one object that multiplexes send() calls over one TLS  *)
(* connection.  A send() queues its artifact under the artifact's id, arms *)
(* a timer, gets hold of a socket (looking the host up and connecting when *)
(* there is none) and writes the artifact; a line from the server settles  *)
(* the queued send() with the same id.                                     *)
(*                                                                         *)
(* JavaScript runs each callback to its end, so a step of this module is   *)
(* the code from one await, callback or timer to the next.  DNS, the peer  *)
(* and the kernel are nondeterministic choices.                            *)
(***************************************************************************)
EXTENDS Naturals, Sequences, FiniteSets

CONSTANTS
    Requests,     \* the send() calls made in a behaviour
    Ids,          \* the artifact ids
    IdOf,         \* the id of each call's artifact; a caller may reuse one
    Sockets,      \* the connections getSocket() may open: bounds a behaviour
    WriteResults, \* what socket.write() may return
    Options,      \* the {maxRetries, maxQueue} options update() may set
    None          \* JavaScript's undefined

ASSUME IdOfAssumption   == IdOf \in [Requests -> Ids]
ASSUME NoneAssumption   == None \notin Requests /\ None \notin Sockets
ASSUME WriteAssumption  == WriteResults \subseteq BOOLEAN
ASSUME OptionAssumption == Options \subseteq [maxRetries : Nat, maxQueue : Nat]

VARIABLES
    options,      \* the options in force
    states,       \* the five flags of ConnectionStates
    socket,       \* this.socket
    retries,      \* this.retries
    retryTimers,  \* timers set by retryConnect and not fired
    queue,        \* this.queue: the calls, in the order of the Map
    timer,        \* the calls whose timeout is armed
    outcome,      \* what each call's promise has settled to
    pc,           \* where each dispatch() waits
    conn,         \* the phase of each connection
    owner,        \* the dispatch() that waits for it, None for a retry
    written,      \* the calls whose artifact has been written (a history)
    unanswered,   \* copies of each id written to it and not answered
    clogged,      \* sockets whose last write() returned false
    verifying,    \* messages onData has parsed and is verifying, by id
    backpressureQueue

connVars  == <<conn, owner>>
wireVars  == <<written, unanswered, clogged, backpressureQueue>>
callVars  == <<queue, timer, outcome>>
retryVars == <<retries, retryTimers>>
vars == <<options, states, socket, pc, verifying,
          connVars, wireVars, callVars, retryVars>>

----------------------------------------------------------------------------
(* A connection is "idle" until getSocket() starts it, in "lookup" while   *)
(* DNS is asked, "connecting", "open", "halfClosed" once end() was called  *)
(* on it, "ended" once the peer closed its side, "failed" when an error    *)
(* has destroyed it and the event is still to come, "closing" when only    *)
(* 'close' is to come, "thrown" when tls.connect() threw and there is none. *)
Phases == {"idle", "lookup", "connecting", "open", "halfClosed", "ended",
           "failed", "closing", "closed", "thrown"}
Readable      == {"open", "halfClosed"}
WritableEnded == {"halfClosed", "ended"}
Alive         == {"connecting", "open", "halfClosed", "ended"}
Destroyed     == {"failed", "closing", "closed"}
Verdicts  == {"response", "error", "timeout"}

Queued == {queue[i] : i \in DOMAIN queue}

\* Mutant of Without: the entry stays
WithoutNothing(q, id) == q

\* Map.delete(id): the ids of a queue are distinct
Without(q, id) ==
    IF \E i \in DOMAIN q : IdOf[q[i]] = id
    THEN LET d == CHOOSE i \in DOMAIN q : IdOf[q[i]] = id
         IN  [k \in 1 .. (Len(q) - 1) |-> IF k < d THEN q[k] ELSE q[k + 1]]
    ELSE q

\* Map.set(id, call): an id that is present keeps its place
With(q, r) ==
    IF \E i \in DOMAIN q : IdOf[q[i]] = IdOf[r]
    THEN [i \in DOMAIN q |-> IF IdOf[q[i]] = IdOf[r] THEN r ELSE q[i]]
    ELSE Append(q, r)

\* Mutant of Settled: a callback in the place of a promise
SettledAgain(o, S, verdict) ==
    [r \in Requests |-> IF r \in S THEN verdict ELSE o[r]]

\* resolve() of the calls in S: a promise settles once
Settled(o, S, verdict) ==
    [r \in Requests |-> IF r \in S /\ o[r] = "pending" THEN verdict ELSE o[r]]

\* getRetryInfo().willRetry
WillRetry(retryable) ==
    /\ retryable
    /\ retries < options.maxRetries
    /\ states.shouldRetry
    /\ ~states.isDestroyed

----------------------------------------------------------------------------
Init ==
    /\ options \in Options
    /\ states = [isConnecting |-> FALSE, isConnected |-> FALSE,
                 isDraining |-> FALSE, isDestroyed |-> FALSE,
                 shouldRetry |-> TRUE]
    /\ socket = None
    /\ retries = 0 /\ retryTimers = 0
    /\ queue = <<>> /\ timer = {}
    /\ outcome = [r \in Requests |-> "idle"]
    /\ pc = [r \in Requests |-> "none"]
    /\ conn = [s \in Sockets |-> "idle"]
    /\ owner = [s \in Sockets |-> None]
    /\ written = {}
    /\ unanswered = [s \in Sockets |-> [i \in Ids |-> 0]]
    /\ clogged = {}
    /\ verifying = [i \in Ids |-> 0]
    /\ backpressureQueue = <<>>

----------------------------------------------------------------------------
(* What the handlers share.                                                *)

\* getSocket() returns this.socket
Usable == socket # None /\ conn[socket] \notin Destroyed

\* getSocket() starts a connection for `waiter`
FreshSocket == CHOOSE s \in Sockets : conn[s] = "idle"

StartConnection(waiter) ==
    /\ \E s \in Sockets : conn[s] = "idle"
    /\ states' = [states EXCEPT !.isConnecting = TRUE]
    /\ conn' = [conn EXCEPT ![FreshSocket] = "lookup"]
    /\ owner' = [owner EXCEPT ![FreshSocket] = waiter]

\* Mutant of Writable: destroy() is not looked at
WritableThoughDestroyed ==
    /\ socket # None => conn[socket] \notin Destroyed \cup WritableEnded
    /\ states.isConnected
    /\ ~states.isConnecting

\* sendArtifact() may write
Writable ==
    /\ socket # None => conn[socket] \notin Destroyed \cup WritableEnded
    /\ states.isConnected
    /\ ~states.isDestroyed
    /\ ~states.isConnecting

\* Mutant of Write: isDraining is not set
WriteNotDraining(r, accepted) ==
    /\ written' = written \cup {r}
    /\ unanswered' = [unanswered EXCEPT ![socket][IdOf[r]] = @ + 1]
    /\ backpressureQueue' = IF accepted THEN backpressureQueue
                            ELSE Append(backpressureQueue, r)
    /\ clogged' = IF accepted THEN clogged ELSE clogged \cup {socket}
    /\ UNCHANGED states

\* the write of sendArtifact(), which returns `accepted`
Write(r, accepted) ==
    /\ written' = written \cup {r}
    /\ unanswered' = [unanswered EXCEPT ![socket][IdOf[r]] = @ + 1]
    /\ backpressureQueue' = IF accepted THEN backpressureQueue
                            ELSE Append(backpressureQueue, r)
    /\ states' = [states EXCEPT !.isDraining = @ \/ ~accepted]
    /\ clogged' = IF accepted THEN clogged ELSE clogged \cup {socket}

\* sendArtifact(r), in a handler that has already made q, t and o of the
\* queue, the timers and the promises
SendArtifact(r, q, t, o) ==
    IF Writable
    THEN /\ \E accepted \in WriteResults : Write(r, accepted)
         /\ queue' = q /\ timer' = t /\ outcome' = o
    ELSE /\ queue' = Without(q, IdOf[r])
         /\ timer' = t \ {r}
         /\ outcome' = Settled(o, {r}, "error")
         /\ UNCHANGED <<states, wireVars>>

\* Mutants of Disconnected: each forgets one of the flags
StillConnecting == states' = [states EXCEPT !.isConnected = FALSE]
StillConnected  == states' = [states EXCEPT !.isConnecting = FALSE]

\* the handler marks the client disconnected
Disconnected ==
    states' = [states EXCEPT !.isConnected = FALSE, !.isConnecting = FALSE]

\* Mutant of FailQueue: the calls are dropped without an error
DropQueue ==
    /\ queue' = <<>>
    /\ timer' = timer \ Queued
    /\ UNCHANGED outcome

\* cleanupQueue(error): every queued call fails
FailQueue ==
    /\ queue' = <<>>
    /\ timer' = timer \ Queued
    /\ outcome' = Settled(outcome, Queued, "error")

\* resolveError(error)
ResolveError ==
    /\ Disconnected
    /\ socket' = None
    /\ FailQueue
    /\ UNCHANGED retryVars

\* retryConnect(), in a handler that marks the client disconnected
RetryConnect ==
    /\ Disconnected
    /\ IF retries < options.maxRetries
       THEN retries' = retries + 1 /\ retryTimers' = retryTimers + 1
       ELSE UNCHANGED retryVars
    /\ UNCHANGED <<socket, callVars>>

\* destroy(), when it leaves the connections as c: the queued calls lose
\* their timers and are not resolved
DestroyClient(c) ==
    /\ states' = [isConnecting |-> FALSE, isConnected |-> FALSE,
                  isDraining |-> FALSE, isDestroyed |-> TRUE,
                  shouldRetry |-> FALSE]
    /\ backpressureQueue' = <<>>
    /\ conn' = [s \in Sockets |-> IF s = socket /\ c[s] \in Alive
                                  THEN "closing" ELSE c[s]]
    /\ queue' = <<>>
    /\ timer' = timer \ Queued
    /\ UNCHANGED <<options, socket, outcome, pc, verifying, owner, written,
                   unanswered, clogged, retryVars>>

----------------------------------------------------------------------------
(* The caller.                                                             *)

\* send() has no room
QueueFull == Len(queue) >= options.maxQueue

\* send() of an artifact that validateArtifact() refuses, on a destroyed
\* client, or with the queue full
Refuse(r, valid) ==
    /\ outcome[r] = "idle"
    /\ states.isDestroyed \/ ~valid \/ QueueFull
    /\ outcome' = [outcome EXCEPT ![r] = "error"]
    /\ UNCHANGED <<options, states, socket, pc, verifying, connVars, wireVars,
                   queue, timer, retryVars>>

\* send() up to the first await of dispatch()
Send(r) ==
    /\ outcome[r] = "idle"
    /\ ~states.isDestroyed
    /\ ~QueueFull
    /\ outcome' = [outcome EXCEPT ![r] = "pending"]
    /\ timer' = timer \cup {r}
    /\ queue' = With(queue, r)
    /\ \/ /\ states.isConnecting
          /\ UNCHANGED <<states, pc, connVars>>
       \/ /\ ~states.isConnecting /\ Usable
          /\ pc' = [pc EXCEPT ![r] = "socket"]
          /\ UNCHANGED <<states, connVars>>
       \/ /\ ~states.isConnecting /\ ~Usable
          /\ pc' = [pc EXCEPT ![r] = "waiting"]
          /\ StartConnection(r)
    /\ UNCHANGED <<options, socket, verifying, wireVars, retryVars>>

\* update()
Update(o) ==
    /\ options' = o
    /\ UNCHANGED <<states, socket, pc, verifying, connVars, wireVars, callVars,
                   retryVars>>

\* end(): the socket is half closed and forgotten
End ==
    /\ Disconnected
    /\ socket' = None
    /\ conn' = [s \in Sockets |-> IF s = socket /\ conn[s] = "open"
                                  THEN "halfClosed" ELSE conn[s]]
    /\ UNCHANGED <<options, pc, verifying, owner, wireVars, callVars,
                   retryVars>>

\* destroy()
Destroy == DestroyClient(conn)

----------------------------------------------------------------------------
(* Connecting.                                                             *)

\* The DNS lookup fails: getSocket() returns an error to a dispatch()
LookupFails(s) ==
    /\ conn[s] = "lookup"
    /\ conn' = [conn EXCEPT ![s] = "closed"]
    /\ states' = [states EXCEPT !.isConnecting = FALSE]
    /\ pc' = [r \in Requests |-> IF owner[s] = r THEN "noSocket" ELSE pc[r]]
    /\ owner' = [owner EXCEPT ![s] = None]
    /\ UNCHANGED <<options, socket, verifying, wireVars, callVars, retryVars>>

\* The host is known: tls.connect()
LookupSucceeds(s) ==
    /\ conn[s] = "lookup"
    /\ conn' = [conn EXCEPT ![s] = "connecting"]
    /\ UNCHANGED <<options, states, socket, pc, verifying, owner, wireVars,
                   callVars, retryVars>>

\* tls.connect() throws, say of a port out of range: dispatch() ends with a
\* rejection nobody awaits, its call stays queued, and isConnecting stays set
ConnectThrows(s) ==
    /\ conn[s] = "lookup"
    /\ conn' = [conn EXCEPT ![s] = "thrown"]
    /\ pc' = [r \in Requests |-> IF owner[s] = r THEN "none" ELSE pc[r]]
    /\ owner' = [owner EXCEPT ![s] = None]
    /\ UNCHANGED <<options, states, socket, verifying, wireVars, callVars,
                   retryVars>>

\* The connect callback
Connected(s) ==
    /\ conn[s] = "connecting"
    /\ conn' = [conn EXCEPT ![s] = "open"]
    /\ states' = [states EXCEPT !.isConnected = TRUE, !.isConnecting = FALSE]
    /\ socket' = s
    /\ pc' = [r \in Requests |-> IF owner[s] = r THEN "socket" ELSE pc[r]]
    /\ owner' = [owner EXCEPT ![s] = None]
    /\ UNCHANGED <<options, verifying, wireVars, callVars, retryVars>>

\* dispatch() goes on with a socket: its own artifact is sent, even when the
\* call has timed out meanwhile
DispatchWithSocket(r) ==
    /\ pc[r] = "socket"
    /\ pc' = [pc EXCEPT ![r] = "none"]
    /\ SendArtifact(r, queue, timer, outcome)
    /\ UNCHANGED <<options, socket, verifying, connVars, retryVars>>

\* dispatch() goes on with an error: unless another attempt has begun, the
\* call and all the others fail
DispatchWithoutSocket(r) ==
    /\ pc[r] = "noSocket"
    /\ pc' = [pc EXCEPT ![r] = "none"]
    /\ IF states.isConnecting
       THEN UNCHANGED callVars
       ELSE LET failed == {r} \cup {x \in Queued : IdOf[x] # IdOf[r]} IN
            /\ queue' = <<>>
            /\ timer' = timer \ failed
            /\ outcome' = Settled(outcome, failed, "error")
    /\ UNCHANGED <<options, states, socket, verifying, connVars, wireVars,
                   retryVars>>

\* A timer set by retryConnect() is still to fire
RetryDue == retryTimers > 0

\* The timer of retryConnect(): getSocket(), whoever needs a connection
RetryTimer ==
    /\ RetryDue
    /\ retryTimers' = retryTimers - 1
    /\ IF Usable \/ states.isConnecting
       THEN UNCHANGED <<states, connVars>>
       ELSE StartConnection(None)
    /\ UNCHANGED <<options, socket, pc, verifying, wireVars, callVars, retries>>

----------------------------------------------------------------------------
(* Waiting and answers.                                                    *)

\* The timeout of a call, which deletes the entry of its id
Timeout(r) ==
    /\ r \in timer
    /\ timer' = timer \ {r}
    /\ queue' = Without(queue, IdOf[r])
    /\ outcome' = Settled(outcome, {r}, "timeout")
    /\ UNCHANGED <<options, states, socket, pc, verifying, connVars, wireVars,
                   retryVars>>

\* onData() up to its await: a line that answers an artifact of id i
Data(s, i) ==
    /\ conn[s] \in Readable
    /\ unanswered[s][i] > 0
    /\ unanswered' = [unanswered EXCEPT ![s][i] = @ - 1]
    /\ verifying' = [verifying EXCEPT ![i] = @ + 1]
    /\ states' = [states EXCEPT !.shouldRetry = FALSE]
    /\ UNCHANGED <<options, socket, pc, connVars, written, clogged,
                   backpressureQueue, callVars, retryVars>>

\* onData() on a line that answers no artifact, or is no JSON
OtherData(s) ==
    /\ conn[s] \in Readable
    /\ states' = [states EXCEPT !.shouldRetry = FALSE]
    /\ UNCHANGED <<options, socket, pc, verifying, connVars, wireVars, callVars,
                   retryVars>>

\* onData() goes on with the signature verified or refuted: the call queued
\* under the message's id settles, and pumpNextQueue() sends the first of the
\* calls that are left
Verified(i, valid) ==
    /\ verifying[i] > 0
    /\ verifying' = [verifying EXCEPT ![i] = @ - 1]
    /\ IF \E r \in Queued : IdOf[r] = i
       THEN LET answered == CHOOSE r \in Queued : IdOf[r] = i
                q == Without(queue, i)
                t == timer \ {answered}
                o == Settled(outcome, {answered},
                             IF valid THEN "response" ELSE "error")
            IN  IF q # <<>> /\ states.isConnected
                THEN SendArtifact(Head(q), q, t, o)
                ELSE /\ queue' = q /\ timer' = t /\ outcome' = o
                     /\ UNCHANGED <<states, wireVars>>
       ELSE UNCHANGED <<callVars, states, wireVars>>
    /\ UNCHANGED <<options, socket, pc, connVars, retryVars>>

\* 'drain': flushBackpressure(), which gives up when isDraining is set
Drain(s) ==
    /\ s \in clogged
    /\ conn[s] \in Readable
    /\ clogged' = clogged \ {s}
    /\ IF states.isDraining \/ socket = None
       THEN UNCHANGED <<states, backpressureQueue, unanswered>>
       ELSE /\ backpressureQueue' = <<>>
            /\ states' = [states EXCEPT !.isDraining = FALSE]
            /\ unanswered' = [unanswered EXCEPT ![socket] = [i \in Ids |->
                 @[i] + Cardinality({k \in DOMAIN backpressureQueue :
                                         IdOf[backpressureQueue[k]] = i})]]
    /\ UNCHANGED <<options, socket, pc, verifying, written, connVars, callVars,
                   retryVars>>

----------------------------------------------------------------------------
(* The end of a connection.                                                *)

\* The kernel or the peer breaks a connection: Node destroys the socket at
\* once and reports it later
Breaks(s) ==
    /\ conn[s] \in Alive
    /\ conn' = [conn EXCEPT ![s] = "failed"]
    /\ UNCHANGED <<options, states, socket, pc, verifying, owner, wireVars,
                   callVars, retryVars>>

\* The connection timeout: the socket is destroyed with an error, and so is
\* the client
ConnectionTimeout(s) ==
    /\ conn[s] \in Alive
    /\ DestroyClient([conn EXCEPT ![s] = "failed"])

\* 'error'
OnError(s, retryable) ==
    /\ conn[s] = "failed"
    /\ conn' = [conn EXCEPT ![s] = "closing"]
    /\ IF WillRetry(retryable) THEN RetryConnect ELSE ResolveError
    /\ UNCHANGED <<options, pc, verifying, owner, wireVars>>

\* 'end': a retry when getRetryInfo() announces none, and the reverse
OnEnd(s) ==
    /\ conn[s] \in Readable
    /\ conn' = [conn EXCEPT ![s] = "ended"]
    /\ IF WillRetry(TRUE) THEN ResolveError ELSE RetryConnect
    /\ UNCHANGED <<options, pc, verifying, owner, wireVars>>

\* 'close': every queued call fails, whichever connection it waits for
OnClose(s) ==
    /\ conn[s] \in {"ended", "closing"}
    /\ conn' = [conn EXCEPT ![s] = "closed"]
    /\ unanswered' = [unanswered EXCEPT ![s] = [i \in Ids |-> 0]]
    /\ clogged' = clogged \ {s}
    /\ ResolveError
    /\ UNCHANGED <<options, pc, verifying, owner, written, backpressureQueue>>

----------------------------------------------------------------------------
Caller ==
    \/ \E r \in Requests : Send(r) \/ \E valid \in BOOLEAN : Refuse(r, valid)
    \/ \E o \in Options : Update(o)
    \/ End
    \/ Destroy

Next ==
    \/ Caller
    \/ \E r \in Requests :
          DispatchWithSocket(r) \/ DispatchWithoutSocket(r) \/ Timeout(r)
    \/ RetryTimer
    \/ \E i \in Ids, valid \in BOOLEAN : Verified(i, valid)
    \/ \E s \in Sockets :
          \/ LookupFails(s) \/ LookupSucceeds(s) \/ ConnectThrows(s)
          \/ Connected(s)
          \/ \E i \in Ids : Data(s, i)
          \/ OtherData(s) \/ Drain(s)
          \/ Breaks(s) \/ ConnectionTimeout(s)
          \/ \E retryable \in BOOLEAN : OnError(s, retryable)
          \/ OnEnd(s) \/ OnClose(s)

Spec == Init /\ [][Next]_vars

\* Node fires the timers that are due and resumes what was awaited; DNS
\* answers or gives up, a connection is established or refused, and a socket
\* that is done reports it.  Nothing is assumed of the server or the caller.
Connects(s) == conn[s] = "connecting" /\ (Connected(s) \/ Breaks(s))

Fairness ==
    /\ \A r \in Requests :
          /\ WF_vars(Timeout(r))
          /\ WF_vars(DispatchWithSocket(r) \/ DispatchWithoutSocket(r))
    /\ \A s \in Sockets :
          /\ WF_vars(LookupFails(s) \/ LookupSucceeds(s) \/ ConnectThrows(s))
          /\ WF_vars(Connects(s))
          /\ WF_vars(\E retryable \in BOOLEAN : OnError(s, retryable))
          /\ WF_vars(OnClose(s))

FairSpec == Spec /\ Fairness

----------------------------------------------------------------------------
(* Properties.                                                             *)

\* Every variable holds what its declaration says.
TypeOK ==
    /\ options \in Options
    /\ states \in [isConnecting : BOOLEAN, isConnected : BOOLEAN,
                   isDraining : BOOLEAN, isDestroyed : BOOLEAN,
                   shouldRetry : BOOLEAN]
    /\ socket \in Sockets \cup {None}
    /\ retries \in Nat /\ retryTimers \in Nat
    /\ queue \in Seq(Requests)
    /\ timer \subseteq Requests
    /\ outcome \in [Requests -> {"idle", "pending"} \cup Verdicts]
    /\ pc \in [Requests -> {"none", "waiting", "socket", "noSocket"}]
    /\ conn \in [Sockets -> Phases]
    /\ owner \in [Sockets -> Requests \cup {None}]
    /\ written \subseteq Requests
    /\ unanswered \in [Sockets -> [Ids -> Nat]]
    /\ clogged \subseteq Sockets
    /\ verifying \in [Ids -> Nat]
    /\ backpressureQueue \in Seq(Requests)

\* A call whose promise is open has its timeout armed, until the client is
\* destroyed, and no settled call has one: no path through the handlers
\* clears a timer without resolving, or resolves and leaves a timer that
\* would later delete another call's entry of the same id.
EveryCallIsTimed ==
    \A r \in Requests :
        /\ r \in timer => outcome[r] = "pending"
        /\ outcome[r] = "pending" => r \in timer \/ states.isDestroyed

\* What is queued is unsettled and can be found by its id: no settled call
\* is left for pumpNextQueue() to send again, whatever order the answer, the
\* timeout and the failures of the calls come in, ids reused or not.
QueueIsUnsettled ==
    /\ Queued \subseteq timer
    /\ \A i, j \in DOMAIN queue : IdOf[queue[i]] = IdOf[queue[j]] => i = j

\* isConnecting, which keeps dispatch() from sending and getSocket() from
\* connecting, is only set while an attempt is under way or its failure is
\* still to be reported, unless tls.connect() threw in one: no other exit
\* leaves the client connecting for ever.
ConnectingIsUnderWay ==
    states.isConnecting =>
        \E s \in Sockets :
            conn[s] \in {"lookup", "connecting", "failed", "thrown"}

\* sendArtifact() writes through this.socket only when there is one: an
\* undefined socket would be taken for backpressure.
ConnectedHasSocket ==
    states.isConnected => socket # None /\ conn[socket] # "idle"

\* Chunks in the backpressure queue have been accepted by write() already,
\* and isDraining is set as long as there are any: 'drain' never writes an
\* artifact a second time.
BackpressureIsDraining ==
    backpressureQueue # <<>> => states.isDraining

\* What is written is still awaited: an artifact goes over the wire only for
\* a call whose promise is open and stays so, or in that call's own dispatch(),
\* which does not look whether it has timed out meanwhile.  pumpNextQueue() may
\* send a second time what is queued, but nothing that this answer or an
\* earlier event has settled, and 'drain' sends nothing at all.
WritesAreAwaited ==
    [][\A s \in Sockets, i \in Ids :
          unanswered'[s][i] > unanswered[s][i] =>
              \E r \in Requests :
                  IdOf[r] = i /\ (outcome'[r] = "pending" \/ pc[r] = "socket")]_vars

\* Nothing is written once destroy() was called: not by the dispatch() calls
\* it overtakes, not over a connection that is established after it.
NoWriteAfterDestroy ==
    [][states.isDestroyed =>
        \A s \in Sockets, i \in Ids : unanswered'[s][i] <= unanswered[s][i]]_vars

\* Unless the client is destroyed, every call settles, whatever the server
\* and the connections do.
EveryCallSettles ==
    \A r \in Requests :
        outcome[r] = "pending" ~> outcome[r] # "pending" \/ states.isDestroyed

\* The client does not stay in isConnecting, except when tls.connect() threw:
\* nothing resets it then.
ConnectingEnds ==
    states.isConnecting ~>
        ~states.isConnecting \/ \E s \in Sockets : conn[s] = "thrown"

\* The client implements what RequestReply promises of it.
Promise == INSTANCE RequestReply WITH closed <- states.isDestroyed
PromiseSpec == Promise!Spec
=============================================================================
