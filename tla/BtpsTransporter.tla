-------------------------- MODULE BtpsTransporter --------------------------
(***************************************************************************)
(* BtpsTransporter: a pool of BtpsClients, one for each receiver.  A       *)
(* connection is registered by call or by the first transport() to its     *)
(* receiver, and is removed by call, by an override, by its TTL or by      *)
(* destroy().                                                              *)
(*                                                                         *)
(* A pooled client is taken to do what RequestReply says, which BtpsClient *)
(* is shown to implement.  Besides, it may destroy itself: that is what    *)
(* BtpsClient does when its connection was silent for connectionTimeoutMs. *)
(* A step is the code between two awaits.                                  *)
(***************************************************************************)
EXTENDS Naturals, FiniteSets

CONSTANTS
    Receivers,    \* the identities that connections lead to
    Clients,      \* the BtpsClients it may create: bounds a behaviour
    Calls,        \* calls of registerConnection() and transport()
    Limits,       \* the values setMaxConnections() may set
    None          \* JavaScript's undefined

ASSUME LimitAssumption == Limits \subseteq Nat
ASSUME NoneAssumption  == None \notin Clients \cup Receivers \cup Calls

VARIABLES
    maxConnections,
    connections,     \* the client of each receiver
    connectionLock,  \* the registration each receiver's lock stands for
    client,          \* whether each client is there
    listening,       \* the clients whose events reach the transporter
    isActive,        \* the clients whose connection is marked active
    timer,           \* the receiver each client's TTL timer will remove
    pc,              \* where each call waits
    op,              \* what it is doing: [kind, to]
    awaits,          \* the registration it waits for
    via,             \* the client it has got
    outcome,         \* the promise of its send()
    written          \* the calls whose artifact was written (a history)

poolVars  == <<connections, client, listening, isActive, timer>>
frameVars == <<op, awaits>>
sendVars  == <<outcome, written>>
vars == <<maxConnections, poolVars, connectionLock, pc, frameVars, via, sendVars>>

Kinds == {"register", "override", "transport"}
Registering == {"registered", "failing"}

Pooled == {connections[p] : p \in Receivers} \ {None}

Init ==
    /\ maxConnections \in Limits
    /\ connections = [p \in Receivers |-> None]
    /\ connectionLock = [p \in Receivers |-> None]
    /\ client = [c \in Clients |-> "unused"]
    /\ listening = {} /\ isActive = {}
    /\ timer = [c \in Clients |-> None]
    /\ pc = [w \in Calls |-> "idle"]
    /\ op = [w \in Calls |-> None]
    /\ awaits = [w \in Calls |-> None]
    /\ via = [w \in Calls |-> None]
    /\ outcome = [w \in Calls |-> "idle"]
    /\ written = {}

----------------------------------------------------------------------------
(* What the methods share.                                                 *)

\* Mutant of Pool: an entry that is replaced keeps its client and its timer
PoolKeepsOld(p, c, fired) ==
    /\ connections' = [connections EXCEPT ![p] = c]
    /\ client' = [x \in Clients |-> IF x = c THEN "live" ELSE client[x]]
    /\ timer' = [x \in Clients |-> IF x = c THEN p
                                   ELSE IF x \in fired THEN None ELSE timer[x]]
    /\ listening' = (listening \ {connections[p]}) \cup ({c} \ {None})
    /\ isActive' = isActive \ {connections[p]}

\* deregisterConnection(p), after which the entry of p is client c or none;
\* the timers in `fired' have fired
Pool(p, c, fired) ==
    LET old == connections[p] IN
    /\ connections' = [connections EXCEPT ![p] = c]
    /\ client' = [x \in Clients |-> IF x = c THEN "live"
                                    ELSE IF x = old THEN "destroyed" ELSE client[x]]
    /\ timer' = [x \in Clients |-> IF x = c THEN p
                                   ELSE IF x \in fired \cup {old} THEN None ELSE timer[x]]
    /\ listening' = (listening \ {old}) \cup ({c} \ {None})
    /\ isActive' = isActive \ {old}

\* Mutant of Full: one connection too many
OneTooMany(p) == Cardinality(Pooled \ {connections[p]}) > maxConnections

\* there is no room for a connection to p, one that is overridden not counted
Full(p) == Cardinality(Pooled \ {connections[p]}) >= maxConnections

\* The clients and the calls are taken in some order: their names mean nothing
FreshClient == CHOOSE c \in Clients : client[c] = "unused"
FreshCall   == CHOOSE w \in Calls : pc[w] = "idle"

\* performConnectionRegistration(), which sets the lock of the receiver: it
\* fails when there is a connection, or no room, or createClient() refuses the
\* options; an override has removed the connection by then
Perform(w, o) ==
    /\ connectionLock' = [connectionLock EXCEPT ![o.to] = w]
    /\ \/ /\ connections[o.to] # None /\ o.kind # "override"
          /\ pc' = [pc EXCEPT ![w] = "failing"]
          /\ UNCHANGED <<poolVars, via>>
       \/ /\ connections[o.to] = None \/ o.kind = "override"
          /\ Pool(o.to, None, {})
          /\ pc' = [pc EXCEPT ![w] = "failing"]
          /\ UNCHANGED via
       \/ /\ connections[o.to] = None \/ o.kind = "override"
          /\ ~Full(o.to)
          /\ \E c \in Clients : client[c] = "unused"
          /\ Pool(o.to, FreshClient, {})
          /\ via' = [via EXCEPT ![w] = FreshClient]
          /\ pc' = [pc EXCEPT ![w] = "registered"]

\* client.send(): refused by a client that is destroyed, or when its queue is full
Sends(w, c) ==
    /\ pc' = [pc EXCEPT ![w] = "sent"]
    /\ \/ client[c] = "live" /\ outcome' = [outcome EXCEPT ![w] = "pending"]
       \/ outcome' = [outcome EXCEPT ![w] = "error"]
    /\ UNCHANGED written

----------------------------------------------------------------------------
(* Calls.                                                                  *)

\* Call w begins to do o
Begin(w, o) ==
    /\ pc[w] = "idle" /\ w = FreshCall
    /\ op' = [op EXCEPT ![w] = o]

\* transport() to a receiver that has a connection
Transport(w, o) ==
    /\ Begin(w, o)
    /\ o.kind = "transport"
    /\ connections[o.to] # None
    /\ via' = [via EXCEPT ![w] = connections[o.to]]
    /\ Sends(w, connections[o.to])
    /\ UNCHANGED <<maxConnections, poolVars, connectionLock, awaits>>

\* registerConnection(), called as such or by a transport() that has found
\* no connection, waits for the registration whose lock it finds
Wait(w, o) ==
    /\ Begin(w, o)
    /\ o.kind = "transport" => connections[o.to] = None
    /\ connectionLock[o.to] # None
    /\ awaits' = [awaits EXCEPT ![w] = connectionLock[o.to]]
    /\ pc' = [pc EXCEPT ![w] = "waiting"]
    /\ UNCHANGED <<maxConnections, poolVars, connectionLock, via, sendVars>>

\* registerConnection() when there is none
Register(w, o) ==
    /\ Begin(w, o)
    /\ o.kind = "transport" => connections[o.to] = None
    /\ connectionLock[o.to] = None
    /\ Perform(w, o)
    /\ UNCHANGED <<maxConnections, awaits, sendVars>>

\* registerConnection() goes on with its own registration; the lock is not
\* looked at again
LockResolved(w) ==
    /\ pc[w] = "waiting"
    /\ pc[awaits[w]] \notin Registering
    /\ Perform(w, op[w])
    /\ UNCHANGED <<maxConnections, frameVars, sendVars>>

\* Mutant of Resume: only the owner of the lock goes on
ResumeOwner(w) ==
    /\ pc[w] \in Registering
    /\ connectionLock[op[w].to] = w
    /\ connectionLock' = [connectionLock EXCEPT ![op[w].to] = None]
    /\ pc' = [pc EXCEPT ![w] = CASE pc[w] = "failing" -> "failed"
                                 [] op[w].kind = "transport" -> "connected"
                                 [] OTHER -> "done"]
    /\ UNCHANGED <<maxConnections, poolVars, frameVars, via, sendVars>>

\* The registration has ended: the receiver's lock is deleted, whosever it is
Resume(w) ==
    /\ pc[w] \in Registering
    /\ connectionLock' = [connectionLock EXCEPT ![op[w].to] = None]
    /\ pc' = [pc EXCEPT ![w] = CASE pc[w] = "failing" -> "failed"
                                 [] op[w].kind = "transport" -> "connected"
                                 [] OTHER -> "done"]
    /\ UNCHANGED <<maxConnections, poolVars, frameVars, via, sendVars>>

\* transport() goes on with the connection it has registered, which another
\* call may have removed
SendOnNew(w) ==
    /\ pc[w] = "connected"
    /\ Sends(w, via[w])
    /\ UNCHANGED <<maxConnections, poolVars, connectionLock, frameVars, via>>

\* deregisterConnection()
Deregister(p) ==
    /\ Pool(p, None, {})
    /\ UNCHANGED <<maxConnections, connectionLock, pc, frameVars, via, sendVars>>

\* The timer of createConnectionTimeout() and updateConnection()
Expire(c) ==
    /\ timer[c] # None
    /\ Pool(timer[c], None, {c})
    /\ UNCHANGED <<maxConnections, connectionLock, pc, frameVars, via, sendVars>>

\* updateConnection() with a new TTL: another timer takes the place of the old
UpdateConnection(p) ==
    /\ connections[p] # None
    /\ timer' = [timer EXCEPT ![connections[p]] = p]
    /\ UNCHANGED <<maxConnections, connections, client, listening, isActive,
                   connectionLock, pc, frameVars, via, sendVars>>

\* updateConnectionTTLSeconds(), which updates every connection
UpdateConnectionTTL ==
    /\ timer' = [c \in Clients |-> IF \E p \in Receivers : connections[p] = c
                                   THEN CHOOSE p \in Receivers : connections[p] = c
                                   ELSE timer[c]]
    /\ UNCHANGED <<maxConnections, connections, client, listening, isActive,
                   connectionLock, pc, frameVars, via, sendVars>>

\* setMaxConnections()
SetMaxConnections(n) ==
    /\ maxConnections' = n
    /\ UNCHANGED <<poolVars, connectionLock, pc, frameVars, via, sendVars>>

\* destroy(): calls that wait go on all the same
Destroy ==
    /\ connections' = [p \in Receivers |-> None]
    /\ client' = [c \in Clients |-> IF c \in Pooled THEN "destroyed" ELSE client[c]]
    /\ timer' = [c \in Clients |-> IF c \in Pooled THEN None ELSE timer[c]]
    /\ listening' = listening \ Pooled /\ isActive' = {}
    /\ connectionLock' = [p \in Receivers |-> None]
    /\ UNCHANGED <<maxConnections, pc, frameVars, via, sendVars>>

----------------------------------------------------------------------------
(* The clients.                                                            *)

\* An event of a client: 'connected' and 'message' mark the connection
\* active, 'end' and 'error' inactive
Event(c, active) ==
    /\ c \in listening /\ client[c] = "live"
    /\ isActive' = IF active THEN isActive \cup {c} ELSE isActive \ {c}
    /\ UNCHANGED <<maxConnections, connections, client, listening, timer,
                   connectionLock, pc, frameVars, via, sendVars>>

\* The connection timeout: the client destroys itself, its listeners removed
\* before there is an event
ConnectionTimeout(c) ==
    /\ client[c] = "live"
    /\ client' = [client EXCEPT ![c] = "destroyed"]
    /\ listening' = listening \ {c}
    /\ UNCHANGED <<maxConnections, connections, isActive, timer, connectionLock, pc,
                   frameVars, via, sendVars>>

\* The client writes an artifact
Write(w) ==
    /\ outcome[w] = "pending"
    /\ client[via[w]] = "live"
    /\ written' = written \cup {w}
    /\ UNCHANGED <<maxConnections, poolVars, connectionLock, pc, frameVars,
                   via, outcome>>

\* The promise of a send() settles; a timeout is an error here
Settle(w, verdict) ==
    /\ outcome[w] = "pending"
    /\ verdict = "response" => w \in written /\ client[via[w]] = "live"
    /\ outcome' = [outcome EXCEPT ![w] = verdict]
    /\ UNCHANGED <<maxConnections, poolVars, connectionLock, pc, frameVars,
                   via, written>>

----------------------------------------------------------------------------
Next ==
    \/ \E w \in Calls, o \in [kind : Kinds, to : Receivers] :
          Transport(w, o) \/ Wait(w, o) \/ Register(w, o)
    \/ \E w \in Calls :
          \/ LockResolved(w) \/ Resume(w) \/ SendOnNew(w) \/ Write(w)
          \/ \E verdict \in {"response", "error"} : Settle(w, verdict)
    \/ \E p \in Receivers : Deregister(p) \/ UpdateConnection(p)
    \/ UpdateConnectionTTL
    \/ \E n \in Limits : SetMaxConnections(n)
    \/ \E c \in Clients :
          \/ Expire(c) \/ ConnectionTimeout(c)
          \/ \E active \in BOOLEAN : Event(c, active)
    \/ Destroy

Spec == Init /\ [][Next]_vars

\* what is awaited is resumed, and a client that is not destroyed settles
\* its calls (BtpsClient's EveryCallSettles)
Settles(w) ==
    /\ \E c \in Clients : via[w] = c /\ client[c] = "live"
    /\ \E verdict \in {"response", "error"} : Settle(w, verdict)

Fairness ==
    \A w \in Calls :
        /\ WF_vars(LockResolved(w)) /\ WF_vars(Resume(w)) /\ WF_vars(SendOnNew(w))
        /\ WF_vars(Settles(w))

FairSpec == Spec /\ Fairness

----------------------------------------------------------------------------
(* Properties.                                                             *)

\* A client that is not destroyed is in the pool, where its TTL, an override
\* and destroy() can reach it; and the TTL timers that run are those of the
\* pool's entries: no connection stays for ever, and no timer of an old
\* connection removes a new one to the same receiver.
PoolOwnsClients ==
    \A c \in Clients :
        /\ client[c] = "live" => c \in Pooled
        /\ \A p \in Receivers : timer[c] = p <=> connections[p] = c

\* The pool does not grow beyond maxConnections, whatever registrations wait
\* for one another and however the limit is changed meanwhile.
PoolIsBounded ==
    [][Cardinality(Pooled') > Cardinality(Pooled)
        => Cardinality(Pooled') <= maxConnections]_vars

\* A call goes out over the connection of its receiver as it is then: while it
\* waits for a lock, the connection it was given may be overridden, expire,
\* be removed or be registered anew by another call, and the client it holds is
\* destroyed by then or still the receiver's entry.
CallsKeepReceiver ==
    \A w \in Calls : via[w] # None /\ client[via[w]] = "live" =>
        connections[op[w].to] = via[w]

\* Every call ends, a transport() with the promise of its send() settled,
\* unless its client is destroyed: no registration waits for ever for a lock.
Ended(w) ==
    \/ pc[w] \in {"done", "failed"}
    \/ pc[w] = "sent" /\ outcome[w] # "pending"
    \/ \E c \in Clients : via[w] = c /\ client[c] = "destroyed"

EveryCallEnds == \A w \in Calls : pc[w] # "idle" ~> Ended(w)
=============================================================================
