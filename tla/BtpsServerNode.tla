--------------------------- MODULE BtpsServerNode ---------------------------
(***************************************************************************)
(* The server around its connections: start() loads the middleware, runs   *)
(* the hook and listens; the lines of all connections go through the       *)
(* middleware of the file, among it the rate limiters of                   *)
(* createDefaultMiddleware; each connection has one identity, which the    *)
(* limiter counts its lines under.  What becomes of a line afterwards is   *)
(* the subject of BtpsServerConnection.                                    *)
(*                                                                         *)
(* The handlers of a connection's lines run concurrently and share the     *)
(* request context.  A step is the code between two awaits; the middleware *)
(* of one stage, which awaits nothing of the outside, is one step.         *)
(***************************************************************************)
EXTENDS BtpsRateLimiter, Sequences, FiniteSets

CONSTANTS
    Starts,        \* the start() calls of a behaviour
    Conns,         \* the connections, all from one address
    N,             \* how many lines they send: bounds a behaviour
    LineSet,       \* what a line may be
    Files,         \* what btps.middleware.mjs may hold
    MaxPriority,   \* Number.MAX_SAFE_INTEGER
    MaxClock       \* bounds the time

Lines == 1 .. N
Times == 0 .. MaxClock
Ip    == "remoteAddress"

\* A definition in the file: `use` names its handler, and None in its priority
\* stands for a priority that is not given
Definitions == [stage : STRING, use : STRING, priority : Nat \cup {None},
                valid : BOOLEAN, enabled : BOOLEAN]

ASSUME FilesAssumption ==
    /\ MaxPriority \in Nat
    /\ \A f \in Files : f.definitions \in Seq(Definitions)

\* Lines: `from` is an identity, or the id of an agent, and `identity` says
\* whether it and the line's other end are valid identities.  "invalid" is an
\* artifact of a known type that is against its schema, "unknown" is JSON of no
\* known type (taken to have no `artifact` of its own), "garbage" is no JSON; a
\* control line has no ends
Kinds == {"transporter", "lookup", "agent", "control", "invalid", "unknown",
          "garbage"}

ASSUME LineAssumption ==
    \A l \in LineSet :
        /\ l.kind \in Kinds /\ l.identity \in BOOLEAN /\ l.from # None
        /\ l.identity => l.kind \notin {"control", "garbage", "unknown"}
ASSUME KeysAssumption ==
    /\ <<"ipAddress", Ip>> \in Keys
    /\ \A from \in {l.from : l \in LineSet} \cup {Ip, None} :
          <<"fromIdentity", from>> \in Keys
ASSUME AddressAssumption == Ip # None
ASSUME ClockAssumption   == MaxClock \in Nat

VARIABLES
    file,          \* the middleware file
    middleware,    \* this.middleware of the manager
    start,         \* where each start() waits
    hookRun,       \* onServerStart has run (a history)
    listening,     \* whether the TLS server accepts connections
    clock,
    counters,      \* the counters of both limits
    allowedIn,     \* how many requests of each key were allowed in the
                   \* stretch of a window that begins at each time
                   \* (a history)
    open,          \* the connections that were accepted
    identity,      \* identityRef of each: [to, from]
    fixed,         \* the identity's sender, once both ends are valid
    context,       \* data and error of the shared request context
    responseSent,  \* the flag of the shared response context
    pc,            \* where the handler of each line waits
    line,          \* the line, and the connection it came on
    countedAs,     \* who its handler counted it as (a history)
    overlapped     \* connections with a line before the last was done
                   \* (a history)

lifeVars  == <<file, middleware, start, hookRun, listening>>
limitVars == <<counters, allowedIn>>
connVars  == <<open, identity, fixed, context, responseSent>>
lineVars  == <<pc, line, countedAs, overlapped>>
vars == <<lifeVars, clock, limitVars, connVars, lineVars>>

----------------------------------------------------------------------------
(* MiddlewareManager.                                                      *)

\* Mutant of PriorityOf: without a priority comes first
PriorityOrFirst(mw) == IF mw.priority = None THEN 0 ELSE mw.priority

PriorityOf(mw) == IF mw.priority = None THEN MaxPriority ELSE mw.priority

\* whether definition i comes before definition k
Before(definitions, i, k) ==
    \/ PriorityOf(definitions[i]) < PriorityOf(definitions[k])
    \/ PriorityOf(definitions[i]) = PriorityOf(definitions[k]) /\ i < k

\* validateAndSortMiddleware(): invalid and disabled definitions are left
\* out, the rest is sorted and equal priorities stay as they are
Kept(definitions) ==
    {i \in DOMAIN definitions : definitions[i].valid /\ definitions[i].enabled}
Place(definitions, i) ==
    Cardinality({k \in Kept(definitions) : Before(definitions, k, i)}) + 1
ValidAndSorted(definitions) ==
    [n \in 1 .. Cardinality(Kept(definitions)) |->
        definitions[CHOOSE i \in Kept(definitions) : Place(definitions, i) = n]]

\* getMiddleware()
getMiddleware(stage) == SelectSeq(middleware, LAMBDA mw : mw.stage = stage)

Uses(stage, use) ==
    \E i \in DOMAIN middleware :
        middleware[i].stage = stage /\ middleware[i].use = use

----------------------------------------------------------------------------
Init ==
    /\ file \in Files
    /\ middleware = <<>>
    /\ start = [s \in Starts |-> "idle"]
    /\ hookRun = FALSE /\ listening = FALSE
    /\ clock = 0
    /\ counters = [k \in Keys |-> None]
    /\ allowedIn = [k \in Keys |-> [t \in Times |-> 0]]
    /\ open = {}
    /\ identity = [c \in Conns |-> [to |-> None, from |-> None]]
    /\ fixed = [c \in Conns |-> None]
    /\ context = [c \in Conns |-> [data |-> FALSE, error |-> FALSE]]
    /\ responseSent = [c \in Conns |-> FALSE]
    /\ pc = [h \in Lines |-> "idle"]
    /\ line = [h \in Lines |-> None]
    /\ countedAs = [h \in Lines |-> None]
    /\ overlapped = {}

----------------------------------------------------------------------------
(* start() and stop().                                                     *)

Start(s) ==
    /\ start[s] = "idle"
    /\ start' = [start EXCEPT ![s] = "loading"]
    /\ UNCHANGED <<file, middleware, hookRun, listening, clock, limitVars,
                   connVars, lineVars>>

\* loadMiddleware() returns: a file that cannot be used makes start() fail
Loaded(s) ==
    /\ start[s] = "loading"
    /\ IF file.format = "unusable"
       THEN /\ start' = [start EXCEPT ![s] = "failed"]
            /\ UNCHANGED middleware
       ELSE /\ start' = [start EXCEPT ![s] = "hook"]
            /\ middleware' = IF file.format = "absent" THEN middleware
                             ELSE ValidAndSorted(file.definitions)
    /\ UNCHANGED <<file, hookRun, listening, clock, limitVars, connVars,
                   lineVars>>

\* onServerStart() has run or thrown; listen() throws on a server that does
Listens(s) ==
    /\ start[s] = "hook"
    /\ hookRun' = TRUE
    /\ listening' = TRUE
    /\ start' = [start EXCEPT ![s] = IF listening THEN "failed" ELSE "done"]
    /\ UNCHANGED <<file, middleware, clock, limitVars, connVars, lineVars>>

\* stop(): the connections stay, and so does a start() that is under way
Stop ==
    /\ listening
    /\ listening' = FALSE
    /\ UNCHANGED <<file, middleware, start, hookRun, clock, limitVars,
                   connVars, lineVars>>

----------------------------------------------------------------------------
(* The rate limiter.                                                       *)

\* isAllowed() of key k, with its answer in `allowed`
Ask(k, allowed) ==
    /\ allowed = IsAllowed(k, counters[k], clock)
    /\ counters' = [counters EXCEPT ![k] = Counted(k, @, clock)]
    /\ allowedIn' = IF allowed
                    THEN [allowedIn EXCEPT ![k] = [t \in Times |->
                             IF t <= clock /\ clock <= t + Window
                             THEN @[t] + 1 ELSE @[t]]]
                    ELSE allowedIn

Cleanup ==
    /\ counters' = Cleaned(counters, clock)
    /\ counters' # counters
    /\ UNCHANGED <<lifeVars, clock, allowedIn, connVars, lineVars>>

Tick ==
    /\ clock < MaxClock
    /\ clock' = clock + 1
    /\ UNCHANGED <<lifeVars, limitVars, connVars, lineVars>>

----------------------------------------------------------------------------
(* The lines.                                                              *)

Connect(c) ==
    /\ listening /\ c \notin open
    /\ open' = open \cup {c}
    /\ UNCHANGED <<lifeVars, clock, limitVars, identity, fixed, context,
                   responseSent, lineVars>>

InFlight(c) == {h \in Lines : pc[h] \in {"arrived", "parsed"} /\ line[h].conn = c}

\* The middleware before parsing: once an answer was sent none of it runs
Arrive(h, c, l) ==
    /\ pc[h] = "idle" /\ \A g \in Lines : g < h => pc[g] # "idle"
    /\ c \in open
    /\ line' = [line EXCEPT ![h] = [conn |-> c, from |-> l.from,
                                    kind |-> l.kind, identity |-> l.identity]]
    /\ overlapped' = IF InFlight(c) = {} THEN overlapped
                     ELSE overlapped \cup {c}
    /\ IF responseSent[c] /\ getMiddleware("beforeParsing") # <<>>
       THEN /\ pc' = [pc EXCEPT ![h] = "dropped"]
            /\ UNCHANGED <<limitVars, responseSent>>
       ELSE IF Uses("beforeParsing", "ipAddress")
       THEN \E allowed \in BOOLEAN :
               /\ Ask(<<"ipAddress", Ip>>, allowed)
               /\ pc' = [pc EXCEPT ![h] = IF allowed THEN "arrived"
                                          ELSE "refused"]
               /\ responseSent' = [responseSent EXCEPT ![c] = @ \/ ~allowed]
       ELSE /\ pc' = [pc EXCEPT ![h] = "arrived"]
            /\ UNCHANGED <<limitVars, responseSent>>
    /\ UNCHANGED <<lifeVars, clock, open, identity, fixed, context, countedAs>>

\* Mutant of updateIdentityInfo: what was set is not looked at
updateAnyIdentityInfo(c, l) ==
    CASE l.kind \in {"garbage", "unknown"} -> [to |-> "unknown", from |-> Ip]
      [] l.kind = "control" -> [to |-> "unknown", from |-> Ip]
      [] OTHER -> [to |-> "recipient", from |-> l.from]

\* updateIdentityInfo(): an identity with both ends valid is kept, the
\* artifact's ends replace any other
updateIdentityInfo(c, l) ==
    IF fixed[c] # None THEN identity[c]
    ELSE CASE l.kind \in {"garbage", "unknown", "control"} ->
                [to |-> IF identity[c].to = None THEN "unknown"
                        ELSE identity[c].to,
                 from |-> IF identity[c].from = None THEN Ip
                          ELSE identity[c].from]
           [] OTHER -> [to |-> "recipient", from |-> l.from]

\* _parseAndValidateArtifact, and what the contexts and the identity become
Parse(h) ==
    LET l == line[h]  c == line[h].conn IN
    /\ pc[h] = "arrived"
    /\ context' = [context EXCEPT ![c] =
                      [data |-> l.kind # "garbage",
                       error |-> l.kind \in {"garbage", "unknown", "invalid"}]]
    /\ identity' = [identity EXCEPT ![c] = updateIdentityInfo(c, l)]
    /\ fixed' = IF fixed[c] = None /\ l.identity
                THEN [fixed EXCEPT ![c] = l.from] ELSE fixed
    /\ pc' = [pc EXCEPT ![h] = "parsed"]
    /\ UNCHANGED <<lifeVars, clock, limitVars, open, responseSent, line,
                   countedAs, overlapped>>

\* The line goes on, or its error is sent
Goes(h) ==
    pc' = [pc EXCEPT ![h] = IF line[h].kind \in {"garbage", "unknown", "invalid"}
                            THEN "rejected" ELSE "processed"]

\* The middleware after parsing: the limiter looks at the shared context and
\* the identity of the connection
AfterParsing(h) ==
    LET c == line[h].conn
        from == identity[c].from
    IN
    /\ pc[h] = "parsed"
    /\ IF responseSent[c] /\ getMiddleware("afterParsing") # <<>>
       THEN /\ pc' = [pc EXCEPT ![h] = "dropped"]
            /\ UNCHANGED <<limitVars, responseSent, countedAs>>
       ELSE IF /\ Uses("afterParsing", "fromIdentity")
               /\ context[c].data /\ ~context[c].error
       THEN /\ countedAs' = [countedAs EXCEPT ![h] = from]
            /\ \/ /\ Ask(<<"fromIdentity", from>>, TRUE)
                  /\ Goes(h)
                  /\ UNCHANGED responseSent
               \/ /\ Ask(<<"fromIdentity", from>>, FALSE)
                  /\ pc' = [pc EXCEPT ![h] = "refused"]
                  /\ responseSent' = [responseSent EXCEPT ![c] = TRUE]
       ELSE Goes(h) /\ UNCHANGED <<limitVars, responseSent, countedAs>>
    /\ UNCHANGED <<lifeVars, clock, open, identity, fixed, context, line,
                   overlapped>>

Next ==
    \/ \E s \in Starts : Start(s) \/ Loaded(s) \/ Listens(s)
    \/ Stop \/ Cleanup \/ Tick
    \/ \E c \in Conns : Connect(c)
    \/ \E h \in Lines :
          \/ \E c \in Conns, l \in LineSet : Arrive(h, c, l)
          \/ Parse(h) \/ AfterParsing(h)

Spec == Init /\ [][Next]_vars

----------------------------------------------------------------------------
(* Properties.                                                             *)

\* No line is handled, not even a connection accepted, before the middleware
\* of the file is in place and the hook has run, also after a restart: what
\* stands there is the file's definitions that can be used, the lower
\* priority first, equal ones in the order of the file (start,
\* validateAndSortMiddleware).
ListeningIsReady ==
    listening \/ open # {} =>
        /\ hookRun
        /\ file.format \in {"module", "array"} =>
              LET used == {i \in DOMAIN file.definitions :
                              /\ file.definitions[i].valid
                              /\ file.definitions[i].enabled}
                  before(i, k) ==
                      LET p == file.definitions[i].priority
                          q == file.definitions[k].priority
                      IN  \/ /\ p # None
                             /\ IF q = None THEN p < MaxPriority ELSE p < q
                          \/ p = q /\ i < k
              IN  \E place \in [used -> DOMAIN middleware] :
                      /\ \A i \in used : middleware[place[i]] = file.definitions[i]
                      /\ \A i, k \in used : before(i, k) => place[i] < place[k]

\* In any stretch of time as long as a window, a key is allowed less than
\* twice its limit, wherever its windows begin and whatever is cleaned up
\* (isAllowed).
RateHolds ==
    \A k \in Keys, t \in Times : Limit[k] > 0 => allowedIn[k][t] < 2 * Limit[k]

\* With the limiter in the file, on a connection that sends its lines one
\* after another, every line that gets through was counted: as its sender's,
\* or as that of the sender which the connection has once named
\* (updateIdentityInfo).  Lines that overlap may be counted as another's, or
\* not at all, because they share one request context.
ProcessedIsCounted ==
    \A h \in Lines :
        /\ pc[h] = "processed" /\ line[h].conn \notin overlapped
        /\ Uses("afterParsing", "fromIdentity")
        => /\ line[h].kind # "control" =>
                 countedAs[h] \in {line[h].from, fixed[line[h].conn]}
           /\ countedAs[h] # None
           /\ fixed[line[h].conn] # None =>
                 \A g \in Lines : g > h /\ pc[g] = "processed"
                                  /\ line[g].conn = line[h].conn
                                  /\ line[h].identity =>
                     countedAs[g] = countedAs[h]
=============================================================================
