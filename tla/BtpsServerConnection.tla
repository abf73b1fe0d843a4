----------------------- MODULE BtpsServerConnection -----------------------
(***************************************************************************)
(* One TLS connection of the BTPS server.  Each line that arrives starts   *)
(* an asynchronous handler: parse, verify the signature, check the trust,  *)
(* deliver to the listeners, forward, answer, with the server's middleware *)
(* before and after each of them.  The handlers of a connection run        *)
(* concurrently: each owns what it keeps in local constants, but they      *)
(* share one request context and one response context.                     *)
(*                                                                         *)
(* A step is the code between two awaits.  Middleware, listeners, stores,  *)
(* DNS and the forwarding handler are nondeterministic choices.            *)
(***************************************************************************)
EXTENDS Naturals, Sequences

CONSTANTS
    N,             \* how many lines the client sends: bounds a behaviour
    LineSet,       \* what a line may be
    Installations, \* the sets of stages that may have a middleware
    None           \* JavaScript's undefined

Lines == 1 .. N

\* 0 stands for the connection itself, whose own errors are no line's
Sources == 0 .. N

Stages == {"beforeParsing", "afterParsing", "beforeSignature",
           "afterSignature", "beforeTrust", "afterTrust", "beforeArtifact",
           "afterArtifact", "failing"}

\* "control" is a control artifact other than QUIT, "agent" an action the
\* server does not await, "immediate" one it does, "onboarding" auth.request,
\* "invalid" a transporter artifact against the schema, "unknown" JSON of no
\* known type, "garbage" no JSON.
AgentKinds   == {"agent", "immediate", "onboarding"}
RequestKinds == AgentKinds \cup {"transporter"}
Kinds == RequestKinds \cup {"lookup", "quit", "control", "invalid", "unknown",
                               "garbage"}

ASSUME NAssumption    == N \in Nat
ASSUME LineAssumption == LineSet \subseteq [kind : Kinds, signed : BOOLEAN]
ASSUME InstallAssumption == Installations \subseteq SUBSET Stages
ASSUME NoneAssumption == None \notin Lines

VARIABLES
    lines,        \* the lines, in the order they arrive
    middleware,   \* the stages with a middleware
    socket,       \* "open", "ending" once the server has called end(), "ended"
                  \* once the peer has, "destroyed"
    ctx,          \* the line whose reqId and data the shared contexts hold
    responseSent, \* the flag of the shared response context
    pc,           \* where each line's handler waits
    data,         \* the line each pipeline works on
    verified,     \* the line whose signature it has found valid
    trusted,      \* the line whose sender it has found trusted
    delivered,    \* the line it has emitted to the listeners
    forwarded,    \* the handlers whose forwarding handler has returned
    answers,      \* what each line's handler has written: [to, what]
    responded,    \* the handlers whose external code has answered: each of
                  \* them does so once at most
    broken,       \* the errors, of a handler or of the connection, that wait in
                  \* handleOnSocketError() for middleware
    overlapped    \* a line arrived before the handlers were done (a history)

vars == <<lines, middleware, socket, ctx, responseSent, pc, data, verified,
          trusted, delivered, forwarded, answers, responded, broken, overlapped>>

wire  == <<socket, answers>>
shared == <<lines, middleware, ctx, overlapped>>
local == <<data, verified, trusted, delivered, forwarded>>
extern == <<responseSent, responded, broken>>

----------------------------------------------------------------------------
Init ==
    /\ lines \in [Lines -> LineSet]
    /\ middleware \in Installations
    /\ socket = "open"
    /\ ctx = None
    /\ responseSent = FALSE
    /\ pc = [h \in Lines |-> "idle"]
    /\ data = [h \in Lines |-> None]
    /\ verified = [h \in Lines |-> None]
    /\ trusted = [h \in Lines |-> None]
    /\ delivered = [h \in Lines |-> None]
    /\ forwarded = {}
    /\ answers = [h \in Lines |-> <<>>]
    /\ responded = {} /\ broken = {}
    /\ overlapped = FALSE

----------------------------------------------------------------------------
\* isResponseSent()
IsResponseSent == socket # "open" \/ responseSent

\* executeMiddleware() up to its first handler
EnterStage(h, stage) ==
    pc' = [pc EXCEPT ![h] = IF stage \in middleware /\ IsResponseSent
                            THEN "done" ELSE stage]

\* executeMiddleware() has returned false
Passes(h, stage) ==
    /\ pc[h] = stage
    /\ stage \in middleware => ~IsResponseSent

Finish(h) == pc' = [pc EXCEPT ![h] = "done"]

\* data?.artifact?.id of the shared response context: JSON of no known type is
\* there as it came, and has no artifact in it
ReqId == IF ctx # None /\ lines[ctx].kind = "unknown" THEN None ELSE ctx

\* h writes an answer; the connection's own is no line's
Answered(h, to, what) ==
    [k \in Lines |-> IF k = h THEN Append(answers[k], [to |-> to, what |-> what])
                     ELSE answers[k]]

\* sendBtpsResponse(): h writes an answer to line `to`, and leaves the socket
\* as `next`
Write(h, to, what, next) ==
    IF socket = "open"
    THEN /\ answers' = Answered(h, to, what)
         /\ socket' = next
    ELSE UNCHANGED wire

\* handleOnSocketError() after its middleware
Fail(h) ==
    /\ answers' = IF socket = "open" THEN Answered(h, ReqId, "error") ELSE answers
    /\ socket' = "destroyed"

\* handleOnSocketError() has a middleware to run before it closes the connection
HasErrorMiddleware == "failing" \in middleware /\ ~IsResponseSent

\* The line handler's catch
Catch(h) ==
    pc' = [pc EXCEPT ![h] = IF HasErrorMiddleware THEN "failing" ELSE "closing"]

Throw(h) ==
    /\ Catch(h)
    /\ UNCHANGED <<shared, local, wire, extern>>

----------------------------------------------------------------------------
(* Middleware and listeners.                                               *)

\* A middleware calls sendRes() or sendError(), which do not look at what was
\* sent before.  On a socket that is not open that has no effect.
MiddlewareResponds(h) ==
    /\ \/ h \in Lines /\ pc[h] \in middleware
       \/ h \in broken /\ "failing" \in middleware
    /\ socket = "open" /\ h \notin responded
    /\ responded' = responded \cup {h}
    /\ responseSent' = TRUE
    /\ \E next \in {"open", "ending", "destroyed"} : Write(h, ReqId, "custom", next)
    /\ UNCHANGED <<shared, local, pc, broken>>

\* executeMiddleware() returns true, whoever has answered; on "failing" its
\* result is ignored
MiddlewareStops(h) ==
    /\ pc[h] \in middleware \ {"failing"}
    /\ IsResponseSent
    /\ Finish(h)
    /\ UNCHANGED <<shared, local, wire, extern>>

\* A middleware throws; out of the catch itself nothing catches it
MiddlewareThrows(h) ==
    /\ pc[h] \in middleware
    /\ IF pc[h] = "failing"
       THEN /\ pc' = [pc EXCEPT ![h] = "rejected"]
            /\ UNCHANGED <<shared, local, wire, extern>>
       ELSE Throw(h)

\* A listener answers an agent's artifact through the response context, some
\* time after it got it when the server does not await it
ListenerResponds(h) ==
    /\ delivered[h] # None
    /\ \/ lines[delivered[h]].kind = "agent"
       \/ lines[delivered[h]].kind \in AgentKinds /\ pc[h] = "listening"
    /\ socket = "open" /\ h \notin responded
    /\ responded' = responded \cup {h}
    /\ responseSent' = TRUE
    /\ \E next \in {"open", "ending", "destroyed"} : Write(h, ReqId, "custom", next)
    /\ UNCHANGED <<shared, local, pc, broken>>

----------------------------------------------------------------------------
(* A line.                                                                 *)

\* 'data', up to the middleware before parsing.  A last line without its end
\* comes when the peer has ended the connection.
Arrive(h) ==
    /\ pc[h] = "idle"
    /\ h > 1 => pc[h - 1] # "idle"
    /\ socket \in {"open", "ending"} \/ (socket = "ended" /\ h = N)
    /\ EnterStage(h, "beforeParsing")
    /\ overlapped' = \/ overlapped \/ broken # {}
                     \/ \E k \in 1 .. (h - 1) : pc[k] \notin {"done", "rejected"}
    /\ UNCHANGED <<lines, middleware, ctx, local, wire, extern>>

\* Mutant of Parse: the id is set once for a connection, as the identity is
ParseOnce(h) ==
    /\ Passes(h, "beforeParsing")
    /\ ctx' = IF ctx = None /\ lines[h].kind # "garbage" THEN h ELSE ctx
    /\ EnterStage(h, "afterParsing")
    /\ UNCHANGED <<lines, middleware, overlapped, local, wire, extern>>

\* _parseAndValidateArtifact(): the contexts are now this line's
Parse(h) ==
    /\ Passes(h, "beforeParsing")
    /\ ctx' = IF lines[h].kind = "garbage" THEN None ELSE h
    /\ EnterStage(h, "afterParsing")
    /\ UNCHANGED <<lines, middleware, overlapped, local, wire, extern>>

\* A line that does not parse, has no known type or is against the schema
RefuseLine(h) ==
    /\ Passes(h, "afterParsing")
    /\ lines[h].kind \in {"invalid", "unknown", "garbage"}
    /\ Write(h, None, "error", "open")
    /\ Finish(h)
    /\ UNCHANGED <<shared, local, extern>>

\* handleControl()
HandleControl(h) ==
    /\ Passes(h, "afterParsing")
    /\ \/ lines[h].kind = "quit"    /\ Write(h, ReqId, "bye", "ending")
       \/ lines[h].kind = "control" /\ Write(h, ReqId, "error", "ending")
    /\ Finish(h)
    /\ UNCHANGED <<shared, local, extern>>

\* handleIdentityLookup() up to the identity store
StartLookup(h) ==
    /\ Passes(h, "afterParsing")
    /\ lines[h].kind = "lookup"
    /\ pc' = [pc EXCEPT ![h] = "lookingUp"]
    /\ UNCHANGED <<shared, local, wire, extern>>

\* The store has no such record
LookupFindsNothing(h) ==
    /\ pc[h] = "lookingUp"
    /\ Write(h, ReqId, "error", "open")
    /\ Finish(h)
    /\ UNCHANGED <<shared, local, extern>>

\* The store has one: the response schema has no such document, and
\* sendBtpsResponse() destroys the socket
LookupFindsRecord(h) ==
    /\ pc[h] = "lookingUp"
    /\ socket' = IF socket = "open" THEN "destroyed" ELSE socket
    /\ Finish(h)
    /\ UNCHANGED <<answers, shared, local, extern>>

\* The store throws: the promise is returned out of the try, not awaited
LookupThrows(h) ==
    /\ pc[h] = "lookingUp"
    /\ pc' = [pc EXCEPT ![h] = "rejected"]
    /\ UNCHANGED <<shared, local, wire, extern>>

\* Signing the answer throws: handleOnSocketError() is called and awaited
LookupUnsigned(h) ==
    /\ pc[h] = "lookingUp"
    /\ Throw(h)

EnterPipeline(h) ==
    /\ Passes(h, "afterParsing")
    /\ lines[h].kind \in RequestKinds
    /\ EnterStage(h, "beforeSignature")
    /\ UNCHANGED <<shared, local, wire, extern>>

----------------------------------------------------------------------------
(* executeRequestPipeline().                                               *)

\* `const { data } = reqCtx', then verifySignature() up to its await
Capture(h) ==
    /\ Passes(h, "beforeSignature")
    /\ data' = [data EXCEPT ![h] = ctx]
    /\ pc' = [pc EXCEPT ![h] = "verifying"]
    /\ UNCHANGED <<verified, trusted, delivered, forwarded, shared, wire, extern>>

\* Mutant of SignatureValid: the signature is not looked at
SignatureAssumed(d) == d # None

\* verifySignature() of artifact d: only requests carry a signature
SignatureValid(d) ==
    d # None /\ lines[d].kind \in RequestKinds \cup {"invalid"} /\ lines[d].signed

\* verifySignature() returns; a key that is not found refutes any signature
SignatureChecked(h, isValid) ==
    /\ pc[h] = "verifying"
    /\ data[h] # None /\ lines[data[h]].kind # "unknown"
    /\ isValid => SignatureValid(data[h])
    /\ verified' = [verified EXCEPT ![h] = IF isValid THEN data[h] ELSE None]
    /\ EnterStage(h, "afterSignature")
    /\ UNCHANGED <<data, trusted, delivered, forwarded, shared, wire, extern>>

\* verifySignature() throws: there is no data or no artifact in it, or DNS or
\* the trust store does
VerifyThrows(h) ==
    /\ pc[h] = "verifying"
    /\ data[h] # None => lines[data[h]].kind # "onboarding"
    /\ Throw(h)

RefuseSignature(h) ==
    /\ Passes(h, "afterSignature")
    /\ verified[h] = None
    /\ Write(h, ReqId, "error", "open")
    /\ Finish(h)
    /\ UNCHANGED <<shared, local, extern>>

AcceptSignature(h) ==
    /\ Passes(h, "afterSignature")
    /\ verified[h] # None
    /\ EnterStage(h, "beforeTrust")
    /\ UNCHANGED <<shared, local, wire, extern>>

\* verifyTrust() up to the trust store
CheckTrust(h) ==
    /\ Passes(h, "beforeTrust")
    /\ pc' = [pc EXCEPT ![h] = "checkingTrust"]
    /\ UNCHANGED <<shared, local, wire, extern>>

\* verifyTrust() returns; an agent that asks to be enrolled needs no trust
TrustChecked(h, isTrusted) ==
    /\ pc[h] = "checkingTrust"
    /\ lines[data[h]].kind = "onboarding" => isTrusted
    /\ trusted' = [trusted EXCEPT ![h] = IF isTrusted THEN data[h] ELSE None]
    /\ EnterStage(h, "afterTrust")
    /\ UNCHANGED <<data, verified, delivered, forwarded, shared, wire, extern>>

\* The trust store throws
TrustThrows(h) ==
    /\ pc[h] = "checkingTrust"
    /\ lines[data[h]].kind # "onboarding"
    /\ Throw(h)

RefuseTrust(h) ==
    /\ Passes(h, "afterTrust")
    /\ trusted[h] = None
    /\ Write(h, ReqId, "error", "open")
    /\ Finish(h)
    /\ UNCHANGED <<shared, local, extern>>

\* Mutant of MayAccept: the trust is not looked at
AcceptsAnyone(h) == TRUE

\* isTrusted, after the trust check
MayAccept(h) == trusted[h] # None

AcceptTrust(h) ==
    /\ Passes(h, "afterTrust")
    /\ MayAccept(h)
    /\ EnterStage(h, "beforeArtifact")
    /\ UNCHANGED <<shared, local, wire, extern>>

\* Mutant of Artifact: the shared context is read again
ArtifactOfContext(h) == IF ctx = None THEN data[h] ELSE ctx

\* what the pipeline passes to processMessage()
Artifact(h) == data[h]

\* processMessage() emits the artifact
Deliver(h) ==
    /\ Passes(h, "beforeArtifact")
    /\ delivered' = [delivered EXCEPT ![h] = Artifact(h)]
    /\ pc' = [pc EXCEPT ![h] = IF lines[data[h]].kind \in AgentKinds
                               THEN "listening" ELSE "forwarding"]
    /\ UNCHANGED <<data, verified, trusted, forwarded, shared, wire, extern>>

\* emit() lets a listener's exception through, unless its result is awaited
DeliverThrows(h) ==
    /\ Passes(h, "beforeArtifact")
    /\ lines[data[h]].kind \notin {"immediate", "onboarding"}
    /\ delivered' = [delivered EXCEPT ![h] = Artifact(h)]
    /\ Catch(h)
    /\ UNCHANGED <<data, verified, trusted, forwarded, shared, wire, extern>>

\* An awaited listener throws: handleOnSocketError() is called and not
\* awaited.  It only takes longer than this handler when it has middleware.
ListenerThrows(h) ==
    /\ pc[h] = "listening"
    /\ lines[data[h]].kind \in {"immediate", "onboarding"}
    /\ h \notin broken
    /\ IF HasErrorMiddleware
       THEN broken' = broken \cup {h} /\ UNCHANGED <<wire, pc>>
       ELSE Fail(h) /\ Finish(h) /\ UNCHANGED broken
    /\ UNCHANGED <<shared, local, responseSent, responded>>

\* Mutant of ListenersReturn: on to the forwarding, answer or not
ListenersReturnAnyway(h) ==
    /\ pc[h] = "listening"
    /\ pc' = [pc EXCEPT ![h] = "forwarding"]
    /\ UNCHANGED <<shared, local, wire, extern>>

\* The listeners have returned: on to the forwarding, unless there is an answer
ListenersReturn(h) ==
    /\ pc[h] = "listening"
    /\ pc' = [pc EXCEPT ![h] = IF IsResponseSent THEN "done" ELSE "forwarding"]
    /\ UNCHANGED <<shared, local, wire, extern>>

\* The forwarding handler returns
Forwarded(h) ==
    /\ pc[h] = "forwarding"
    /\ forwarded' = forwarded \cup {h}
    /\ EnterStage(h, "afterArtifact")
    /\ UNCHANGED <<data, verified, trusted, delivered, shared, wire, extern>>

\* Mutant of ForwardThrows: the failure is swallowed
ForwardSwallows(h) ==
    /\ pc[h] = "forwarding"
    /\ EnterStage(h, "afterArtifact")
    /\ UNCHANGED <<shared, local, wire, extern>>

\* The forwarding handler throws
ForwardThrows(h) ==
    /\ pc[h] = "forwarding"
    /\ Throw(h)

\* Mutant of Acknowledge: the handler returns without a word
AcknowledgeNothing(h) ==
    /\ Passes(h, "afterArtifact")
    /\ Finish(h)
    /\ UNCHANGED <<shared, local, wire, extern>>

\* The success response
Acknowledge(h) ==
    /\ Passes(h, "afterArtifact")
    /\ Write(h, ReqId, "success", "open")
    /\ Finish(h)
    /\ UNCHANGED <<shared, local, extern>>

----------------------------------------------------------------------------
(* Errors.                                                                 *)

\* handleOnSocketError() in the line handler's catch
HandleError(h) ==
    /\ pc[h] \in {"failing", "closing"}
    /\ Fail(h)
    /\ Finish(h)
    /\ UNCHANGED <<shared, local, extern>>

\* The connection's inactivity timeout
ConnectionTimeout ==
    /\ socket # "destroyed" /\ 0 \notin broken
    /\ IF HasErrorMiddleware
       THEN broken' = broken \cup {0} /\ UNCHANGED wire
       ELSE Fail(0) /\ UNCHANGED broken
    /\ UNCHANGED <<shared, local, pc, responseSent, responded>>

\* handleOnSocketError() of an error no handler waits for
HandleBroken(s) ==
    /\ s \in broken
    /\ broken' = broken \ {s}
    /\ Fail(s)
    /\ UNCHANGED <<shared, local, pc, responseSent, responded>>

\* The peer ends the connection
PeerEnds ==
    /\ socket \in {"open", "ending"}
    /\ socket' = "ended"
    /\ UNCHANGED <<shared, local, extern, pc, answers>>

\* The peer breaks the connection, or lingers too long after end()
PeerBreaks ==
    /\ socket # "destroyed"
    /\ socket' = "destroyed"
    /\ UNCHANGED <<shared, local, extern, pc, answers>>

----------------------------------------------------------------------------
Extern(h) ==
    \/ MiddlewareStops(h) \/ MiddlewareThrows(h)
    \/ ListenerResponds(h) \/ ListenerThrows(h)

Line(h) ==
    \/ Arrive(h) \/ Parse(h) \/ RefuseLine(h) \/ HandleControl(h)
    \/ StartLookup(h) \/ LookupFindsNothing(h) \/ LookupFindsRecord(h)
    \/ LookupThrows(h) \/ LookupUnsigned(h) \/ EnterPipeline(h)

Pipeline(h) ==
    \/ Capture(h) \/ VerifyThrows(h) \/ RefuseSignature(h) \/ AcceptSignature(h)
    \/ \E isValid \in BOOLEAN : SignatureChecked(h, isValid)
    \/ CheckTrust(h) \/ TrustThrows(h) \/ RefuseTrust(h) \/ AcceptTrust(h)
    \/ \E isTrusted \in BOOLEAN : TrustChecked(h, isTrusted)
    \/ Deliver(h) \/ DeliverThrows(h) \/ ListenersReturn(h)
    \/ Forwarded(h) \/ ForwardThrows(h) \/ Acknowledge(h) \/ HandleError(h)

Next ==
    \/ \E h \in Lines : Extern(h) \/ Line(h) \/ Pipeline(h)
    \/ \E s \in Sources : MiddlewareResponds(s) \/ HandleBroken(s)
    \/ ConnectionTimeout \/ PeerEnds \/ PeerBreaks

Spec == Init /\ [][Next]_vars

----------------------------------------------------------------------------
(* Properties.                                                             *)

Answers == {"success", "bye", "error", "custom"}

\* Every variable holds what its declaration says.
TypeOK ==
    /\ lines \in [Lines -> LineSet]
    /\ middleware \in Installations
    /\ socket \in {"open", "ending", "ended", "destroyed"}
    /\ ctx \in Lines \cup {None}
    /\ responseSent \in BOOLEAN /\ overlapped \in BOOLEAN
    /\ pc \in [Lines -> Stages \cup {"idle", "lookingUp", "verifying",
                    "checkingTrust", "listening", "forwarding", "closing",
                    "done", "rejected"}]
    /\ data \in [Lines -> Lines \cup {None}]
    /\ verified \in [Lines -> Lines \cup {None}]
    /\ trusted \in [Lines -> Lines \cup {None}]
    /\ delivered \in [Lines -> Lines \cup {None}]
    /\ forwarded \subseteq Lines
    /\ answers \in [Lines -> Seq([to : Lines \cup {None}, what : Answers])]
    /\ responded \subseteq Sources /\ broken \subseteq Sources

\* What a pipeline delivers is the artifact whose signature it has verified
\* and whose sender it has found trusted, although other lines rewrite the
\* shared request context while it waits.
DeliveredIsCleared ==
    \A h \in Lines : delivered[h] # None =>
        /\ delivered[h] = verified[h] /\ delivered[h] = trusted[h]
        /\ lines[delivered[h]].signed

\* A client that reads "success" may forget its artifact: it has reached the
\* listeners, and the forwarding handler has returned from it.
AckedIsForwarded ==
    \A h \in Lines : \A k \in DOMAIN answers[h] :
        answers[h][k].what = "success" => h \in forwarded /\ delivered[h] # None

\* A line has one answer: middleware or an awaited listener that answers keeps
\* the pipeline from doing so.  The exceptions are errors, which destroy the
\* connection, and agent actions the server does not await.
AnsweredOnce ==
    \A h \in Lines : Len(answers[h]) > 1 =>
        \/ socket = "destroyed" \/ h \in broken
        \/ delivered[h] # None /\ lines[delivered[h]].kind = "agent"

\* A handler that ends without an answer on an open connection has one of
\* three causes: the identity store threw, and the rejection of the promise
\* that is returned out of the try block (btpsServer.ts:342) reaches no one;
\* error middleware threw, out of the catch; or external code has answered
\* another line, and responseSent, which is never reset, silences this one.
SilenceHasCause ==
    \A h \in Lines :
        pc[h] \in {"done", "rejected"} /\ socket = "open" /\ answers[h] = <<>> =>
            \/ pc[h] = "rejected" /\ (lines[h].kind = "lookup" \/ "failing" \in middleware)
            \/ pc[h] = "done" /\ \E k \in responded : k # h

\* As long as a client waits for each answer before its next line, a handler
\* works on its own line and answers under its id.  Errors of middleware
\* before the parsing are left out: the id is still the line's before.
SequentialIsCorrelated ==
    ~overlapped /\ "beforeParsing" \notin middleware =>
        \A h \in Lines :
            /\ delivered[h] \in {None, h}
            /\ \A k \in DOMAIN answers[h] :
                  answers[h][k].what # "custom" => answers[h][k].to \in {None, h}
=============================================================================
