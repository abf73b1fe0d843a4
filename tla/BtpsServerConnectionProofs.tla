-------------------- MODULE BtpsServerConnectionProofs --------------------
(***************************************************************************)
(* What a server connection delivers, acknowledges and answers, for any    *)
(* number of pipelined lines and any middleware.                           *)
(***************************************************************************)
EXTENDS BtpsServerConnection, TLAPS, SequenceTheorems

Places == Stages \cup {"idle", "lookingUp", "verifying", "checkingTrust",
                       "listening", "forwarding", "closing", "done", "rejected"}

Answer == [to : Lines \cup {None}, what : Answers]

SocketStates == {"open", "ending", "ended", "destroyed"}

\* A line's handler is one of those that may write.
LEMMA LinesAreSources == Lines \subseteq Sources
  BY NAssumption DEF Lines, Sources

\* The id of the response context is that of the line the contexts hold.
LEMMA ReqIdIsContext ==
    ASSUME TypeOK
    PROVE  ReqId \in {None, ctx} /\ ReqId \in Lines \cup {None}
  BY DEF ReqId, TypeOK

\* Answering keeps the types of the answers.
LEMMA AnsweredType ==
    ASSUME TypeOK, NEW h \in Sources, NEW to \in Lines \cup {None}, NEW what \in Answers
    PROVE  Answered(h, to, what) \in [Lines -> Seq(Answer)]
<1> SUFFICES ASSUME NEW k \in Lines
             PROVE  Append(answers[k], [to |-> to, what |-> what]) \in Seq(Answer)
                    /\ answers[k] \in Seq(Answer)
  BY DEF Answered
<1>1. [to |-> to, what |-> what] \in Answer
  BY DEF Answer
<1>2. answers[k] \in Seq(Answer)
  BY DEF TypeOK, Answer
<1> QED
  BY <1>1, <1>2, AppendProperties

\* Writing an answer keeps the types.
LEMMA WriteType ==
    ASSUME TypeOK, NEW h \in Sources, NEW to \in Lines \cup {None},
           NEW what \in Answers, NEW next \in SocketStates, Write(h, to, what, next)
    PROVE  /\ answers' \in [Lines -> Seq(Answer)]
           /\ socket' \in SocketStates
<1>1. Answered(h, to, what) \in [Lines -> Seq(Answer)]
  BY AnsweredType
<1>2. answers \in [Lines -> Seq(Answer)] /\ socket \in SocketStates
  BY DEF TypeOK, Answer, SocketStates
<1> QED
  BY <1>1, <1>2 DEF Write, wire

\* So does the failure of a connection.
LEMMA FailType ==
    ASSUME TypeOK, NEW h \in Sources, Fail(h)
    PROVE  /\ answers' \in [Lines -> Seq(Answer)]
           /\ socket' \in SocketStates
<1>1. "error" \in Answers /\ ReqId \in Lines \cup {None}
  BY ReqIdIsContext DEF Answers
<1>2. Answered(h, ReqId, "error") \in [Lines -> Seq(Answer)]
  BY <1>1, AnsweredType
<1> QED
  BY <1>2 DEF TypeOK, Fail, Answer, SocketStates

\* The types of a step that moves handler h and changes nothing else.
LEMMA MoveType ==
    ASSUME TypeOK, NEW h \in Lines, NEW place \in Places,
           pc' = [pc EXCEPT ![h] = place]
    PROVE  pc' \in [Lines -> Places]
  BY DEF TypeOK, Places

\* Every step keeps the types: middleware and listeners.
LEMMA ExternType ==
    ASSUME TypeOK, NEW h \in Lines, Extern(h)
    PROVE  TypeOK'
<1> USE LinesAreSources
<1>1. CASE MiddlewareStops(h)
  BY <1>1 DEF MiddlewareStops, Finish, TypeOK, shared, local, wire, extern, Stages
<1>2. CASE MiddlewareThrows(h)
  BY <1>2 DEF MiddlewareThrows, Throw, Catch, TypeOK, shared, local, wire, extern, Stages
<1>3. CASE ListenerResponds(h)
  <2>1. PICK next \in {"open", "ending", "destroyed"} : Write(h, ReqId, "custom", next)
    BY <1>3 DEF ListenerResponds
  <2>2. answers' \in [Lines -> Seq(Answer)] /\ socket' \in SocketStates
    BY <2>1, WriteType, ReqIdIsContext DEF Answers, SocketStates
  <2> QED
    BY <1>3, <2>2 DEF ListenerResponds, TypeOK, shared, local, Answer, SocketStates
<1>4. CASE ListenerThrows(h)
  <2>1. CASE HasErrorMiddleware
    BY <1>4, <2>1 DEF ListenerThrows, TypeOK, shared, local, wire
  <2>2. CASE ~HasErrorMiddleware
    <3>1. answers' \in [Lines -> Seq(Answer)] /\ socket' \in SocketStates
      BY <1>4, <2>2, FailType DEF ListenerThrows
    <3> QED
      BY <1>4, <2>2, <3>1
      DEF ListenerThrows, Finish, TypeOK, shared, local, Answer, SocketStates
  <2> QED
    BY <2>1, <2>2
<1> QED
  BY <1>1, <1>2, <1>3, <1>4 DEF Extern

\* The same of the steps of a line.
LEMMA LineType ==
    ASSUME TypeOK, NEW h \in Lines, Line(h)
    PROVE  TypeOK'
<1> USE LinesAreSources
<1>1. CASE \/ Arrive(h) \/ EnterPipeline(h) \/ StartLookup(h) \/ LookupThrows(h)
           \/ LookupUnsigned(h)
  BY <1>1
  DEF Arrive, EnterPipeline, StartLookup, LookupThrows, LookupUnsigned, EnterStage,
      Throw, Catch, TypeOK, shared, local, wire, extern, Stages
<1>2. CASE Parse(h)
  BY <1>2 DEF Parse, EnterStage, TypeOK, local, wire, extern, Stages
<1>3. CASE LookupFindsRecord(h)
  BY <1>3 DEF LookupFindsRecord, Finish, TypeOK, shared, local, extern
<1>4. CASE RefuseLine(h) \/ HandleControl(h) \/ LookupFindsNothing(h)
  <2>1. PICK to \in {None, ReqId}, what \in {"error", "bye"}, next \in {"open", "ending"} :
            Write(h, to, what, next)
    BY <1>4 DEF RefuseLine, HandleControl, LookupFindsNothing
  <2>2. answers' \in [Lines -> Seq(Answer)] /\ socket' \in SocketStates
    BY <2>1, WriteType, ReqIdIsContext DEF Answers, SocketStates
  <2> QED
    BY <1>4, <2>2
    DEF RefuseLine, HandleControl, LookupFindsNothing, Finish, TypeOK, shared,
        local, extern, Answer, SocketStates
<1> QED
  BY <1>1, <1>2, <1>3, <1>4 DEF Line

\* The same of the steps of the pipeline.
LEMMA PipelineType ==
    ASSUME TypeOK, NEW h \in Lines, Pipeline(h)
    PROVE  TypeOK'
<1> USE LinesAreSources
<1>1. CASE \/ AcceptSignature(h) \/ CheckTrust(h) \/ AcceptTrust(h)
           \/ ListenersReturn(h)
  BY <1>1
  DEF AcceptSignature, CheckTrust, AcceptTrust, ListenersReturn, EnterStage, TypeOK,
      shared, local, wire, extern, Stages
<1>2. CASE VerifyThrows(h) \/ TrustThrows(h) \/ ForwardThrows(h)
  BY <1>2
  DEF VerifyThrows, TrustThrows, ForwardThrows, Throw, Catch, TypeOK, shared,
      local, wire, extern, Stages
<1>3. CASE Capture(h) \/ \E isValid \in BOOLEAN : SignatureChecked(h, isValid)
  <2>1. CASE Capture(h)
    BY <2>1 DEF Capture, TypeOK, shared, wire, extern
  <2>2. ASSUME NEW isValid \in BOOLEAN, SignatureChecked(h, isValid)
        PROVE  TypeOK'
    <3>1. verified' = [verified EXCEPT ![h] = data[h]] \/ verified' = [verified EXCEPT ![h] = None]
      BY <2>2 DEF SignatureChecked
    <3>2. verified' \in [Lines -> Lines \cup {None}]
      BY <3>1 DEF TypeOK
    <3> QED
      BY <2>2, <3>2 DEF SignatureChecked, EnterStage, TypeOK, shared, wire, extern, Stages
  <2> QED
    BY <1>3, <2>1, <2>2
<1>4. CASE Forwarded(h) \/ \E isTrusted \in BOOLEAN : TrustChecked(h, isTrusted)
  BY <1>4 DEF Forwarded, TrustChecked, EnterStage, TypeOK, shared, wire, extern, Stages
<1>5. CASE Deliver(h) \/ DeliverThrows(h)
  BY <1>5
  DEF Deliver, DeliverThrows, Artifact, Catch, TypeOK, shared, wire, extern, Stages
<1>6. CASE RefuseSignature(h) \/ RefuseTrust(h) \/ Acknowledge(h)
  <2>1. PICK what \in {"error", "success"} : Write(h, ReqId, what, "open")
    BY <1>6 DEF RefuseSignature, RefuseTrust, Acknowledge
  <2>2. answers' \in [Lines -> Seq(Answer)] /\ socket' \in SocketStates
    BY <2>1, WriteType, ReqIdIsContext DEF Answers, SocketStates
  <2> QED
    BY <1>6, <2>2
    DEF RefuseSignature, RefuseTrust, Acknowledge, Finish, TypeOK, shared, local,
        extern, Answer, SocketStates
<1>7. CASE HandleError(h)
  <2>1. answers' \in [Lines -> Seq(Answer)] /\ socket' \in SocketStates
    BY <1>7, FailType DEF HandleError
  <2> QED
    BY <1>7, <2>1
    DEF HandleError, Finish, TypeOK, shared, local, extern, Answer, SocketStates
<1> QED
  BY <1>1, <1>2, <1>3, <1>4, <1>5, <1>6, <1>7 DEF Pipeline

\* The same of errors, middleware answers and the peer.
LEMMA ConnectionType ==
    ASSUME TypeOK,
           \/ \E s \in Sources : MiddlewareResponds(s) \/ HandleBroken(s)
           \/ ConnectionTimeout \/ PeerEnds \/ PeerBreaks
    PROVE  TypeOK'
<1>1. ASSUME NEW s \in Sources, MiddlewareResponds(s)
      PROVE  TypeOK'
  <2>1. PICK next \in {"open", "ending", "destroyed"} : Write(s, ReqId, "custom", next)
    BY <1>1 DEF MiddlewareResponds
  <2>2. answers' \in [Lines -> Seq(Answer)] /\ socket' \in SocketStates
    BY <2>1, WriteType, ReqIdIsContext DEF Answers, SocketStates
  <2> QED
    BY <1>1, <2>2 DEF MiddlewareResponds, TypeOK, shared, local, Answer, SocketStates
<1>2. ASSUME NEW s \in Sources, HandleBroken(s)
      PROVE  TypeOK'
  <2>1. answers' \in [Lines -> Seq(Answer)] /\ socket' \in SocketStates
    BY <1>2, FailType DEF HandleBroken
  <2> QED
    BY <1>2, <2>1 DEF HandleBroken, TypeOK, shared, local, Answer, SocketStates
<1>3. CASE ConnectionTimeout
  <2>1. 0 \in Sources
    BY NAssumption DEF Sources
  <2>2. CASE HasErrorMiddleware
    BY <1>3, <2>1, <2>2 DEF ConnectionTimeout, TypeOK, shared, local, wire
  <2>3. CASE ~HasErrorMiddleware
    <3>1. answers' \in [Lines -> Seq(Answer)] /\ socket' \in SocketStates
      BY <1>3, <2>1, <2>3, FailType DEF ConnectionTimeout
    <3> QED
      BY <1>3, <2>3, <3>1
      DEF ConnectionTimeout, TypeOK, shared, local, Answer, SocketStates
  <2> QED
    BY <2>2, <2>3
<1>4. CASE PeerEnds \/ PeerBreaks
  BY <1>4 DEF PeerEnds, PeerBreaks, TypeOK, shared, local, extern
<1> QED
  BY <1>1, <1>2, <1>3, <1>4

\* A connection starts with the types.
LEMMA TypeInit == Init => TypeOK
<1> SUFFICES ASSUME Init
             PROVE  TypeOK
  OBVIOUS
<1>1. <<>> \in Seq([to : Lines \cup {None}, what : Answers])
  BY EmptySeq
<1> QED
  BY <1>1 DEF Init, TypeOK

\* Every step keeps them.
LEMMA TypeStep == TypeOK /\ [Next]_vars => TypeOK'
<1> SUFFICES ASSUME TypeOK, [Next]_vars
             PROVE  TypeOK'
  OBVIOUS
<1>1. CASE UNCHANGED vars
  BY <1>1 DEF vars, TypeOK
<1> QED
  BY <1>1, ExternType, LineType, PipelineType, ConnectionType DEF Next

\* Every variable of a connection keeps its type, for any number of lines.
THEOREM TypeCorrect == Spec => []TypeOK
  BY TypeInit, TypeStep, PTL DEF Spec

----------------------------------------------------------------------------
(* What is delivered.  The artifact of a pipeline is captured once, and    *)
(* how far it has come says what is known of it.                           *)

Before   == {"idle", "beforeParsing", "afterParsing", "lookingUp",
             "beforeSignature", "verifying"}
Checking == {"afterSignature", "beforeTrust", "checkingTrust", "afterTrust",
             "beforeArtifact"}
Emitted  == {"listening", "forwarding", "afterArtifact"}

\* Handler h knows of no artifact but its own, and nothing before it checks it.
OwnArtifact(h) ==
    /\ verified[h] \in {None, data[h]} /\ trusted[h] \in {None, data[h]}
    /\ delivered[h] \in {None, data[h]}
    /\ verified[h] # None => lines[verified[h]].signed
    /\ pc[h] \in Before => verified[h] = None /\ trusted[h] = None

\* It has come as far as its checks allow.
Progress(h) ==
    /\ pc[h] \in Before \cup Checking => delivered[h] = None
    /\ pc[h] \in {"beforeTrust", "checkingTrust", "afterTrust"} => verified[h] # None
    /\ pc[h] \in {"beforeArtifact"} \cup Emitted \/ delivered[h] # None =>
          verified[h] # None /\ trusted[h] # None
    /\ pc[h] \in Emitted => delivered[h] # None
    /\ pc[h] = "afterArtifact" => h \in forwarded

Cleared == \A h \in Lines : OwnArtifact(h) /\ Progress(h)

\* A step of the connection, or of another line, leaves a handler as it is.
LEMMA ClearedKept ==
    ASSUME Cleared, NEW h \in Lines,
           lines' = lines, forwarded \subseteq forwarded',
           verified'[h] = verified[h], trusted'[h] = trusted[h],
           delivered'[h] = delivered[h], data'[h] = data[h], pc'[h] = pc[h]
    PROVE  OwnArtifact(h)' /\ Progress(h)'
  BY DEF Cleared, OwnArtifact, Progress

\* A handler that stops, or moves on where nothing more is known, keeps what
\* is known of its artifact.
LEMMA ClearedMoves ==
    ASSUME TypeOK, Cleared, NEW h \in Lines, NEW place,
           UNCHANGED <<lines, local>>, pc' = [pc EXCEPT ![h] = place],
           \/ place \notin Before \cup Checking \cup Emitted
           \/ place \in Before /\ pc[h] \in Before
           \/ place = "beforeTrust" /\ pc[h] = "afterSignature" /\ verified[h] # None
           \/ place = "checkingTrust" /\ pc[h] = "beforeTrust"
           \/ place = "beforeArtifact" /\ pc[h] = "afterTrust" /\ trusted[h] # None
           \/ place = "forwarding" /\ pc[h] = "listening"
    PROVE  Cleared'
<1>1. pc'[h] = place /\ \A k \in Lines : k # h => pc'[k] = pc[k]
  BY DEF TypeOK
<1>2. ASSUME NEW k \in Lines, k # h
      PROVE  OwnArtifact(k)' /\ Progress(k)'
  BY <1>1, <1>2, ClearedKept DEF local
<1>3. OwnArtifact(h)' /\ Progress(h)'
  BY <1>1 DEF Cleared, OwnArtifact, Progress, local, Before, Checking, Emitted
<1> QED
  BY <1>2, <1>3 DEF Cleared

\* Middleware and listeners keep what is known of the artifacts.
LEMMA ExternClears ==
    ASSUME TypeOK, Cleared, NEW h \in Lines, Extern(h)
    PROVE  Cleared'
<1>1. CASE MiddlewareStops(h) \/ MiddlewareThrows(h)
  BY <1>1, ClearedMoves
  DEF MiddlewareStops, MiddlewareThrows, Finish, Throw, Catch, shared,
      Before, Checking, Emitted
<1>2. CASE ListenerResponds(h)
  BY <1>2, ClearedKept DEF ListenerResponds, shared, local, Cleared
<1>3. CASE ListenerThrows(h)
  <2>1. CASE HasErrorMiddleware
    BY <1>3, <2>1, ClearedKept DEF ListenerThrows, shared, local, Cleared
  <2>2. CASE ~HasErrorMiddleware
    BY <1>3, <2>2, ClearedMoves
    DEF ListenerThrows, Finish, shared, Before, Checking, Emitted
  <2> QED
    BY <2>1, <2>2
<1> QED
  BY <1>1, <1>2, <1>3 DEF Extern

\* So do the steps of a line, before and beside the pipeline.
LEMMA LineClears ==
    ASSUME TypeOK, Cleared, NEW h \in Lines, Line(h)
    PROVE  Cleared'
<1>1. CASE \/ Arrive(h) \/ Parse(h) \/ EnterPipeline(h)
           \/ StartLookup(h) \/ LookupThrows(h) \/ LookupUnsigned(h)
  BY <1>1, ClearedMoves
  DEF Arrive, Parse, EnterPipeline, StartLookup, LookupThrows, LookupUnsigned, Throw,
      Catch, EnterStage, Passes, shared, Before, Checking, Emitted
<1>2. CASE \/ LookupFindsRecord(h) \/ RefuseLine(h) \/ HandleControl(h)
           \/ LookupFindsNothing(h)
  BY <1>2, ClearedMoves
  DEF LookupFindsRecord, RefuseLine, HandleControl, LookupFindsNothing, Finish,
      shared, Before, Checking, Emitted
<1> QED
  BY <1>1, <1>2 DEF Line

\* Each step of the pipeline adds what it has found.
LEMMA PipelineClears ==
    ASSUME TypeOK, Cleared, NEW h \in Lines, Pipeline(h)
    PROVE  Cleared'
<1> USE DEF Before, Checking, Emitted
<1>1. CASE \/ AcceptSignature(h) \/ CheckTrust(h) \/ AcceptTrust(h)
           \/ ListenersReturn(h)
  BY <1>1, ClearedMoves
  DEF AcceptSignature, CheckTrust, AcceptTrust, MayAccept, ListenersReturn,
      EnterStage, Passes, shared
<1>2. CASE VerifyThrows(h) \/ TrustThrows(h) \/ ForwardThrows(h)
  BY <1>2, ClearedMoves DEF VerifyThrows, TrustThrows, ForwardThrows, Throw, Catch, shared
<1>3. CASE \/ RefuseSignature(h) \/ RefuseTrust(h) \/ Acknowledge(h) \/ HandleError(h)
  BY <1>3, ClearedMoves
  DEF RefuseSignature, RefuseTrust, Acknowledge, HandleError, Finish, shared
<1>4. SUFFICES ASSUME \/ Capture(h) \/ \E isValid \in BOOLEAN : SignatureChecked(h, isValid)
                      \/ \E isTrusted \in BOOLEAN : TrustChecked(h, isTrusted)
                      \/ Deliver(h) \/ DeliverThrows(h) \/ Forwarded(h)
               PROVE  Cleared'
  BY <1>1, <1>2, <1>3 DEF Pipeline
<1>5. ASSUME NEW k \in Lines, k # h
      PROVE  OwnArtifact(k)' /\ Progress(k)'
  BY <1>4, <1>5, ClearedKept
  DEF Capture, SignatureChecked, TrustChecked, Deliver, DeliverThrows, Forwarded,
      EnterStage, Catch, TypeOK, shared
<1>6. OwnArtifact(h) /\ Progress(h)
  BY DEF Cleared
<1>7. OwnArtifact(h)' /\ Progress(h)'
  <2>1. CASE Capture(h)
    BY <1>6, <2>1 DEF Capture, Passes, TypeOK, OwnArtifact, Progress, shared
  <2>2. ASSUME NEW isValid \in BOOLEAN, SignatureChecked(h, isValid)
        PROVE  OwnArtifact(h)' /\ Progress(h)'
    <3>1. verified'[h] \in {None, data[h]}
      BY <2>2 DEF SignatureChecked, TypeOK
    <3>2. verified'[h] # None => lines[verified'[h]].signed
      BY <2>2 DEF SignatureChecked, SignatureValid, TypeOK
    <3> QED
      BY <1>6, <2>2, <3>1, <3>2
      DEF SignatureChecked, EnterStage, TypeOK, OwnArtifact, Progress, shared
  <2>3. ASSUME NEW isTrusted \in BOOLEAN, TrustChecked(h, isTrusted)
        PROVE  OwnArtifact(h)' /\ Progress(h)'
    <3>1. trusted'[h] \in {None, data[h]}
      BY <2>3 DEF TrustChecked, TypeOK
    <3> QED
      BY <1>6, <2>3, <3>1
      DEF TrustChecked, EnterStage, TypeOK, OwnArtifact, Progress, shared
  <2>4. CASE Deliver(h) \/ DeliverThrows(h)
    BY <1>6, <2>4
    DEF Deliver, DeliverThrows, Artifact, Catch, Passes, TypeOK, OwnArtifact, Progress,
        shared
  <2>5. CASE Forwarded(h)
    BY <1>6, <2>5 DEF Forwarded, EnterStage, TypeOK, OwnArtifact, Progress, shared
  <2> QED
    BY <1>4, <2>1, <2>2, <2>3, <2>4, <2>5
<1> QED
  BY <1>5, <1>7 DEF Cleared

\* Every step keeps what is known of the artifacts.
LEMMA ClearedStep == TypeOK /\ Cleared /\ [Next]_vars => Cleared'
<1> SUFFICES ASSUME TypeOK, Cleared, [Next]_vars
             PROVE  Cleared'
  OBVIOUS
<1>1. CASE \/ \E s \in Sources : MiddlewareResponds(s) \/ HandleBroken(s)
           \/ ConnectionTimeout \/ PeerEnds \/ PeerBreaks \/ UNCHANGED vars
  BY <1>1, ClearedKept
  DEF MiddlewareResponds, HandleBroken, ConnectionTimeout, PeerEnds, PeerBreaks,
      vars, shared, local, Cleared
<1> QED
  BY <1>1, ExternClears, LineClears, PipelineClears DEF Next

\* The inductive invariant of the pipelines: how far a handler has come says
\* what was found of the one artifact it works on, whatever other lines write
\* into the context they share.
THEOREM ClearedInvariant == Spec => []Cleared
<1>1. Init => Cleared
  BY DEF Init, Cleared, OwnArtifact, Progress, Before, Checking, Emitted
<1> QED
  BY <1>1, TypeCorrect, ClearedStep, PTL DEF Spec

\* What a pipeline delivers is the artifact whose signature it has verified
\* and whose sender it has found trusted.
THEOREM OnlyClearedDelivered == Spec => []DeliveredIsCleared
<1>1. Cleared => DeliveredIsCleared
  BY DEF Cleared, OwnArtifact, Progress, DeliveredIsCleared
<1> QED
  BY <1>1, ClearedInvariant, PTL

----------------------------------------------------------------------------
(* Answers.                                                                *)

\* Handler h, or the connection, writes an answer with the id of line `to'.
Appends(h, to, what) == answers' = Answered(h, to, what)

\* A handler that has parsed its line and is not done, or whose error is still
\* to be answered.
Working(h) ==
    pc[h] \notin {"idle", "beforeParsing", "done", "rejected"} \/ h \in broken

\* An answer is appended to those of its handler.
LEMMA AppendedAnswer ==
    ASSUME TypeOK, NEW h \in Lines, NEW what \in Answers, NEW to \in Lines \cup {None},
           Appends(h, to, what)
    PROVE  /\ answers'[h] # <<>>
           /\ Len(answers[h]) = 0 => Len(answers'[h]) = 1
           /\ \A i \in DOMAIN answers'[h] :
                 \/ i \in DOMAIN answers[h] /\ answers'[h][i] = answers[h][i]
                 \/ answers'[h][i] = [to |-> to, what |-> what]
<1>1. answers[h] \in Seq(Answer)
  BY DEF TypeOK, Answer
<1>2. [to |-> to, what |-> what] \in Answer
  BY DEF Answer
<1>3. answers'[h] = Append(answers[h], [to |-> to, what |-> what])
  BY DEF Answered, Appends
<1>4. /\ Len(answers'[h]) = Len(answers[h]) + 1
      /\ \A i \in 1 .. Len(answers[h]) : answers'[h][i] = answers[h][i]
      /\ answers'[h][Len(answers[h]) + 1] = [to |-> to, what |-> what]
  BY <1>1, <1>2, <1>3, AppendProperties
<1>5. DOMAIN answers[h] = 1 .. Len(answers[h]) /\ DOMAIN answers'[h] = 1 .. Len(answers'[h])
  BY <1>1, <1>2, <1>3, AppendProperties
<1>6. Len(answers[h]) \in Nat
  BY <1>1
<1>7. answers'[h] # <<>> /\ (Len(answers[h]) = 0 => Len(answers'[h]) = 1)
  BY <1>4, <1>5, <1>6
<1> QED
  BY <1>4, <1>5, <1>6, <1>7

\* The answers of the other handlers stay as they are.
LEMMA OthersKeep ==
    ASSUME TypeOK, NEW h, NEW what, NEW to, Appends(h, to, what)
    PROVE  \A k \in Lines : k # h => answers'[k] = answers[k]
  BY DEF Appends, Answered

\* How a step changes the answers: not at all, or by one of a handler.  Only
\* handlers past the forwarding say "success", and what does not come from the
\* application has no id or the one of the context while its line is worked on.
AnswersStep ==
    \/ answers' = answers
    \/ \E h \in Sources, to \in Lines \cup {None}, what \in Answers :
          /\ Appends(h, to, what)
          /\ what = "success" => h \in Lines /\ pc[h] = "afterArtifact"
          /\ what # "custom" => to = None \/ (to = ReqId /\ (h \in Lines => Working(h)))

\* Every step changes the answers in this way.
LEMMA AnswersChange == TypeOK /\ [Next]_vars => AnswersStep
<1> SUFFICES ASSUME TypeOK, [Next]_vars
             PROVE  AnswersStep
  OBVIOUS
<1>1. ASSUME NEW h \in Sources, NEW to \in Lines \cup {None}, NEW what \in Answers,
             NEW next, Write(h, to, what, next),
             what = "success" => h \in Lines /\ pc[h] = "afterArtifact",
             what # "custom" => to = None \/ (to = ReqId /\ (h \in Lines => Working(h)))
      PROVE  AnswersStep
  BY <1>1 DEF Write, wire, AnswersStep, Appends
<1>2. ASSUME NEW h \in Sources, h \in Lines => Working(h), Fail(h)
      PROVE  AnswersStep
  BY <1>2, ReqIdIsContext DEF Fail, AnswersStep, Appends, Answers
<1>3. ReqId \in Lines \cup {None}
  BY ReqIdIsContext
<1>4. ASSUME NEW h \in Lines, Extern(h)
      PROVE  AnswersStep
  BY <1>4, <1>1, <1>2, <1>3, LinesAreSources
  DEF Extern, MiddlewareStops, MiddlewareThrows, Throw, ListenerResponds, ListenerThrows,
      wire, AnswersStep, Answers, Working
<1>5. ASSUME NEW h \in Lines, Line(h)
      PROVE  AnswersStep
  BY <1>5, <1>1, <1>3, LinesAreSources
  DEF Line, Arrive, Parse, RefuseLine, HandleControl, StartLookup, LookupFindsNothing,
      LookupFindsRecord, LookupThrows, LookupUnsigned, Throw, EnterPipeline, Passes, wire,
      AnswersStep, Answers, Working
<1>6. ASSUME NEW h \in Lines, Pipeline(h)
      PROVE  AnswersStep
  <2>1. CASE Acknowledge(h) \/ RefuseSignature(h) \/ RefuseTrust(h)
    BY <2>1, <1>1, <1>3, LinesAreSources
    DEF Acknowledge, RefuseSignature, RefuseTrust, Passes, Answers, Working
  <2>2. CASE HandleError(h)
    BY <2>2, <1>2, LinesAreSources DEF HandleError, Working
  <2>3. CASE UNCHANGED answers
    BY <2>3 DEF AnswersStep
  <2> QED
    BY <1>6, <2>1, <2>2, <2>3
    DEF Pipeline, Capture, VerifyThrows, AcceptSignature, SignatureChecked, CheckTrust,
        TrustThrows, AcceptTrust, TrustChecked, Deliver, DeliverThrows, ListenersReturn,
        Forwarded, ForwardThrows, Throw, wire
<1>7. ASSUME NEW s \in Sources, MiddlewareResponds(s) \/ HandleBroken(s)
      PROVE  AnswersStep
  BY <1>7, <1>1, <1>2, <1>3 DEF MiddlewareResponds, HandleBroken, Answers, Working
<1>8. CASE ConnectionTimeout
  <2>1. 0 \in Sources /\ 0 \notin Lines
    BY NAssumption DEF Sources, Lines
  <2> QED
    BY <1>8, <1>2, <2>1 DEF ConnectionTimeout, wire, AnswersStep
<1>9. CASE PeerEnds \/ PeerBreaks \/ UNCHANGED vars
  BY <1>9 DEF PeerEnds, PeerBreaks, vars, wire, AnswersStep
<1> QED
  BY <1>4, <1>5, <1>6, <1>7, <1>8, <1>9 DEF Next

\* An answer of a handler was there before the step, or was written by it.
LEMMA NewAnswer ==
    ASSUME TypeOK, [Next]_vars, NEW h \in Lines, NEW k \in DOMAIN answers'[h]
    PROVE  \/ k \in DOMAIN answers[h] /\ answers'[h][k] = answers[h][k]
           \/ /\ answers'[h][k].what = "success" => pc[h] = "afterArtifact"
              /\ answers'[h][k].what # "custom" =>
                    answers'[h][k].to = None \/ (answers'[h][k].to = ctx /\ Working(h))
<1> DEFINE Old == k \in DOMAIN answers[h] /\ answers'[h][k] = answers[h][k]
           New == /\ answers'[h][k].what = "success" => pc[h] = "afterArtifact"
                  /\ answers'[h][k].what # "custom" =>
                        answers'[h][k].to = None \/ (answers'[h][k].to = ctx /\ Working(h))
<1>1. h \in Sources
  BY LinesAreSources
<1>2. CASE answers' = answers
  BY <1>2
<1>3. ASSUME NEW g \in Sources, NEW to \in Lines \cup {None}, NEW what \in Answers,
             Appends(g, to, what),
             what = "success" => g \in Lines /\ pc[g] = "afterArtifact",
             what # "custom" => to = None \/ (to = ReqId /\ (g \in Lines => Working(g)))
      PROVE  Old \/ New
  <2>1. CASE g # h
    <3>1. answers'[h] = answers[h]
      BY <1>3, <2>1, OthersKeep
    <3> QED
      BY <3>1
  <2>2. CASE g = h
    <3>1. Old \/ answers'[h][k] = [to |-> to, what |-> what]
      BY <1>3, <2>2, AppendedAnswer
    <3> QED
      BY <1>3, <2>2, <3>1, ReqIdIsContext
  <2> QED
    BY <2>1, <2>2
<1> QED
  BY <1>2, <1>3, AnswersChange DEF AnswersStep

\* What was delivered and forwarded stays so.
LEMMA DeliveredStays ==
    TypeOK /\ Cleared /\ [Next]_vars =>
        /\ forwarded \subseteq forwarded'
        /\ \A h \in Lines : delivered[h] # None => delivered'[h] = delivered[h]
<1> SUFFICES ASSUME TypeOK, Cleared, [Next]_vars
             PROVE  /\ forwarded \subseteq forwarded'
                    /\ \A h \in Lines : delivered[h] # None => delivered'[h] = delivered[h]
  OBVIOUS
<1>1. CASE UNCHANGED <<delivered, forwarded>>
  BY <1>1
<1>2. ASSUME NEW h \in Lines, Deliver(h) \/ DeliverThrows(h)
      PROVE  /\ forwarded \subseteq forwarded'
             /\ \A k \in Lines : delivered[k] # None => delivered'[k] = delivered[k]
  <2>1. delivered[h] = None
    BY <1>2 DEF Cleared, Progress, Checking, Deliver, DeliverThrows, Passes
  <2> QED
    BY <1>2, <2>1 DEF Deliver, DeliverThrows, TypeOK
<1>3. ASSUME NEW h \in Lines, Forwarded(h)
      PROVE  UNCHANGED delivered /\ forwarded \subseteq forwarded'
  BY <1>3 DEF Forwarded
<1>4. ASSUME NEW h \in Lines, Extern(h) \/ Line(h)
      PROVE  UNCHANGED <<delivered, forwarded>>
  BY <1>4
  DEF Extern, MiddlewareStops, MiddlewareThrows, Throw, ListenerResponds, ListenerThrows,
      Line, Arrive, Parse, RefuseLine, HandleControl, StartLookup, LookupFindsNothing,
      LookupFindsRecord, LookupThrows, LookupUnsigned, EnterPipeline, local
<1>5. ASSUME NEW h \in Lines, Pipeline(h)
      PROVE  \/ Deliver(h) \/ DeliverThrows(h) \/ Forwarded(h)
             \/ UNCHANGED <<delivered, forwarded>>
  BY <1>5
  DEF Pipeline, Capture, VerifyThrows, RefuseSignature, AcceptSignature,
      SignatureChecked, CheckTrust, TrustThrows, RefuseTrust, AcceptTrust, TrustChecked,
      ListenersReturn, ForwardThrows, Acknowledge, HandleError, Throw, local
<1>6. CASE \/ \E s \in Sources : MiddlewareResponds(s) \/ HandleBroken(s)
           \/ ConnectionTimeout \/ PeerEnds \/ PeerBreaks \/ UNCHANGED vars
  BY <1>6 DEF MiddlewareResponds, HandleBroken, ConnectionTimeout, PeerEnds, PeerBreaks,
              vars, local
<1> QED
  BY <1>1, <1>2, <1>3, <1>4, <1>5, <1>6 DEF Next

\* An answer that says "success" is written when the listeners have the
\* artifact and the forwarding has returned.
LEMMA AckedStep ==
    TypeOK /\ Cleared /\ AckedIsForwarded /\ [Next]_vars => AckedIsForwarded'
<1> SUFFICES ASSUME TypeOK, Cleared, AckedIsForwarded, [Next]_vars,
                    NEW h \in Lines, NEW k \in DOMAIN answers'[h],
                    answers'[h][k].what = "success"
             PROVE  h \in forwarded' /\ delivered'[h] # None
  BY DEF AckedIsForwarded
<1>1. \/ k \in DOMAIN answers[h] /\ answers'[h][k] = answers[h][k]
      \/ pc[h] = "afterArtifact"
  BY NewAnswer
<1>2. h \in forwarded /\ delivered[h] # None
  BY <1>1 DEF AckedIsForwarded, Cleared, Progress, Emitted
<1> QED
  BY <1>2, DeliveredStays

\* A client that reads "success" may forget its artifact: it has reached the
\* listeners, and the forwarding handler has returned from it.
THEOREM OnlyForwardedAcked == Spec => []AckedIsForwarded
<1>1. Init => AckedIsForwarded
  BY LinesAreSources DEF Init, AckedIsForwarded
<1> QED
  BY <1>1, TypeCorrect, ClearedInvariant, AckedStep, PTL DEF Spec

----------------------------------------------------------------------------
(* One answer to each line.                                                *)

\* The second answer is kept off: whoever has answered is done, or the shared
\* flag stops it at the next place where it looks at it.
Stopped(h) ==
    \/ pc[h] \in {"done", "rejected", "closing"}
    \/ responseSent /\ h \in responded /\ (pc[h] = "listening" \/ pc[h] \in middleware)

Excused(h) ==
    \/ socket = "destroyed" \/ h \in broken
    \/ delivered[h] # None /\ lines[delivered[h]].kind = "agent"

OnceFor(h) ==
    \/ Excused(h) \/ Len(answers[h]) = 0
    \/ Len(answers[h]) = 1 /\ Stopped(h)

Once == \A h \in Lines : OnceFor(h)

\* What a connection never takes back.
LEMMA ConnectionStays ==
    TypeOK /\ [Next]_vars =>
        /\ lines' = lines /\ middleware' = middleware
        /\ responseSent => responseSent'
        /\ responded \subseteq responded'
        /\ overlapped => overlapped'
        /\ socket # "open" => socket' # "open"
        /\ socket = "destroyed" => socket' = "destroyed"
        /\ \A h \in broken : h \in broken' \/ socket' = "destroyed"
<1> SUFFICES ASSUME TypeOK, [Next]_vars
             PROVE  /\ lines' = lines /\ middleware' = middleware
                    /\ responseSent => responseSent'
                    /\ responded \subseteq responded'
                    /\ overlapped => overlapped'
                    /\ socket # "open" => socket' # "open"
                    /\ socket = "destroyed" => socket' = "destroyed"
                    /\ \A h \in broken : h \in broken' \/ socket' = "destroyed"
  OBVIOUS
<1> DEFINE Stays == /\ lines' = lines /\ middleware' = middleware
                    /\ responseSent => responseSent'
                    /\ responded \subseteq responded'
                    /\ overlapped => overlapped'
                    /\ socket # "open" => socket' # "open"
                    /\ socket = "destroyed" => socket' = "destroyed"
                    /\ \A h \in broken : h \in broken' \/ socket' = "destroyed"
<1>1. ASSUME NEW h \in Lines, Extern(h)
      PROVE  Stays
  BY <1>1
  DEF Extern, MiddlewareStops, MiddlewareThrows, Throw, ListenerResponds, ListenerThrows,
      Write, Fail, shared, local, wire, extern
<1>2. ASSUME NEW h \in Lines, Line(h)
      PROVE  Stays
  <2>1. CASE \/ Arrive(h) \/ Parse(h) \/ StartLookup(h) \/ LookupThrows(h) \/ EnterPipeline(h)
             \/ LookupFindsRecord(h) \/ LookupUnsigned(h)
    BY <2>1
    DEF Arrive, Parse, StartLookup, LookupFindsRecord, LookupThrows, LookupUnsigned, Throw,
        EnterPipeline, TypeOK, shared, wire, extern
  <2>2. CASE RefuseLine(h) \/ HandleControl(h) \/ LookupFindsNothing(h)
    BY <2>2
    DEF RefuseLine, HandleControl, LookupFindsNothing, Write, shared, wire, extern
  <2> QED
    BY <1>2, <2>1, <2>2 DEF Line
<1>3. ASSUME NEW h \in Lines, Pipeline(h)
      PROVE  Stays
  <2>1. CASE UNCHANGED <<shared, extern, wire>>
    BY <2>1 DEF shared, extern, wire
  <2>2. CASE RefuseSignature(h) \/ RefuseTrust(h) \/ Acknowledge(h) \/ HandleError(h)
    BY <2>2
    DEF RefuseSignature, RefuseTrust, Acknowledge, HandleError, Write, Fail, shared,
        extern, wire
  <2> QED
    BY <1>3, <2>1, <2>2
    DEF Pipeline, Capture, VerifyThrows, AcceptSignature, SignatureChecked, CheckTrust,
        TrustThrows, AcceptTrust, TrustChecked, Deliver, DeliverThrows, ListenersReturn,
        Forwarded, ForwardThrows, Throw
<1>4. ASSUME NEW s \in Sources, MiddlewareResponds(s) \/ HandleBroken(s)
      PROVE  Stays
  BY <1>4
  DEF MiddlewareResponds, HandleBroken, Write, Fail, IsResponseSent, shared, local, wire
<1>5. CASE ConnectionTimeout \/ PeerEnds \/ PeerBreaks \/ UNCHANGED vars
  BY <1>5
  DEF ConnectionTimeout, Fail, PeerEnds, PeerBreaks, vars, shared, local, extern, wire
<1> QED
  BY <1>1, <1>2, <1>3, <1>4, <1>5 DEF Next

\* An excuse lasts.
LEMMA ExcusedStays ==
    TypeOK /\ Cleared /\ [Next]_vars => \A h \in Lines : Excused(h) => Excused(h)'
  BY ConnectionStays, DeliveredStays DEF Excused

\* A step of the connection, or of another line, leaves a handler's answer and
\* what keeps it from another one.
LEMMA OnceKept ==
    ASSUME TypeOK, Cleared, Once, [Next]_vars, NEW h \in Lines,
           answers'[h] = answers[h], pc'[h] = pc[h]
    PROVE  OnceFor(h)'
  BY ConnectionStays, ExcusedStays DEF Once, OnceFor, Stopped

\* A handler that was not stopped has not answered: it may move on, or answer
\* and be done or destroy the connection.
LEMMA OnceMoves ==
    ASSUME TypeOK, Cleared, Once, [Next]_vars, NEW h \in Lines, ~Stopped(h),
           \/ answers'[h] = answers[h]
           \/ /\ Len(answers[h]) = 0 => Len(answers'[h]) = 1
              /\ pc'[h] = "done" \/ socket' = "destroyed"
    PROVE  OnceFor(h)'
  BY ExcusedStays DEF Once, OnceFor, Stopped, Excused

\* Where a handler looks at the shared flag, or never answers before, it is
\* not stopped.
LEMMA NotStopped ==
    ASSUME TypeOK, NEW h \in Lines,
           \/ \E stage \in Stages : Passes(h, stage)
           \/ pc[h] \in {"idle", "lookingUp", "verifying", "checkingTrust", "forwarding"}
    PROVE  ~Stopped(h)
  BY InstallAssumption DEF Stopped, Passes, IsResponseSent, TypeOK, Stages

\* What writing an answer does to the answers of the handlers.
LEMMA WriteAnswers ==
    ASSUME TypeOK, NEW h \in Sources, NEW to \in Lines \cup {None}, NEW what \in Answers,
           NEW next, Write(h, to, what, next)
    PROVE  /\ \A k \in Lines : k # h => answers'[k] = answers[k]
           /\ h \in Lines =>
                \/ answers'[h] = answers[h] /\ socket # "open"
                \/ Len(answers[h]) = 0 => Len(answers'[h]) = 1
<1>1. CASE socket = "open"
  <2>1. Appends(h, to, what)
    BY <1>1 DEF Write, Appends
  <2>2. \A k \in Lines : k # h => answers'[k] = answers[k]
    BY <2>1, OthersKeep
  <2>3. h \in Lines => (Len(answers[h]) = 0 => Len(answers'[h]) = 1)
    BY <2>1, AppendedAnswer
  <2> QED
    BY <2>2, <2>3
<1>2. CASE socket # "open"
  BY <1>2 DEF Write, wire
<1> QED
  BY <1>1, <1>2

\* The same of the failure of a connection.
LEMMA FailAnswers ==
    ASSUME TypeOK, NEW h \in Sources, Fail(h)
    PROVE  /\ \A k \in Lines : k # h => answers'[k] = answers[k]
           /\ socket' = "destroyed"
<1>1. CASE socket = "open"
  <2>1. Appends(h, ReqId, "error")
    BY <1>1 DEF Fail, Appends
  <2> QED
    BY <2>1, OthersKeep DEF Fail
<1>2. CASE socket # "open"
  BY <1>2 DEF Fail
<1> QED
  BY <1>1, <1>2

\* Middleware and listeners add no second answer.
LEMMA ExternOnce ==
    ASSUME TypeOK, Cleared, Once, [Next]_vars, NEW h \in Lines, Extern(h)
    PROVE  Once'
<1> USE LinesAreSources
<1>1. middleware \subseteq Stages
  BY InstallAssumption DEF TypeOK
<1>2. OnceFor(h) /\ h \in Sources /\ ReqId \in Lines \cup {None} /\ "custom" \in Answers
  BY ReqIdIsContext DEF Once, Answers
<1>3. ASSUME \A k \in Lines : k # h => answers'[k] = answers[k] /\ pc'[k] = pc[k]
      PROVE  \A k \in Lines : k # h => OnceFor(k)'
  BY <1>3, OnceKept
<1>4. CASE MiddlewareStops(h)
  <2>1. UNCHANGED answers /\ pc'[h] = "done" /\ \A k \in Lines : k # h => pc'[k] = pc[k]
    BY <1>4 DEF MiddlewareStops, Finish, TypeOK, wire
  <2>2. OnceFor(h)'
    BY <1>2, <2>1, ExcusedStays DEF OnceFor, Stopped
  <2> QED
    BY <1>3, <2>1, <2>2 DEF Once
<1>5. CASE MiddlewareThrows(h)
  <2>1. UNCHANGED <<answers, socket, responseSent, middleware>> /\ pc[h] \in middleware
        /\ \A k \in Lines : k # h => pc'[k] = pc[k]
    BY <1>5 DEF MiddlewareThrows, Throw, Catch, TypeOK, wire, extern, shared
  <2>2. pc'[h] \in {"rejected", "closing"} \/ (pc'[h] = "failing" /\ ~responseSent)
    BY <1>5 DEF MiddlewareThrows, Throw, Catch, TypeOK, HasErrorMiddleware, IsResponseSent
  <2>3. Stopped(h) => responseSent
    BY <1>1, <2>1 DEF Stopped, Stages
  <2>4. OnceFor(h)'
    BY <1>2, <2>1, <2>2, <2>3, ExcusedStays DEF OnceFor, Stopped
  <2> QED
    BY <1>3, <2>1, <2>4 DEF Once
<1>6. CASE ListenerResponds(h)
  <2>1. PICK next \in {"open", "ending", "destroyed"} : Write(h, ReqId, "custom", next)
    BY <1>6 DEF ListenerResponds
  <2>6. UNCHANGED <<pc, lines, delivered>>
    BY <1>6 DEF ListenerResponds, shared, local
  <2>2. \A k \in Lines : k # h => answers'[k] = answers[k]
    BY <1>2, <2>1, WriteAnswers
  <2>3. responseSent' /\ h \in responded' /\ h \notin responded
    BY <1>6 DEF ListenerResponds
  <2>4. CASE lines[delivered[h]].kind = "agent"
    BY <1>3, <1>6, <2>6, <2>2, <2>4 DEF ListenerResponds, Once, OnceFor, Excused
  <2>5. CASE pc[h] = "listening"
    <3>1. ~Stopped(h)
      BY <1>1, <2>3, <2>5 DEF Stopped, Stages
    <3>2. answers'[h] = answers[h] \/ (Len(answers[h]) = 0 => Len(answers'[h]) = 1)
      BY <1>2, <2>1, WriteAnswers
    <3>3. OnceFor(h)'
      BY <1>2, <2>6, <2>3, <2>5, <3>1, <3>2, ExcusedStays DEF OnceFor, Stopped
    <3> QED
      BY <1>3, <2>6, <2>2, <3>3 DEF Once
  <2> QED
    BY <1>6, <2>4, <2>5 DEF ListenerResponds
<1>7. CASE ListenerThrows(h)
  <2>1. CASE HasErrorMiddleware
    BY <1>3, <1>7, <2>1 DEF ListenerThrows, Once, OnceFor, Excused, wire
  <2>2. CASE ~HasErrorMiddleware
    <3>1. Fail(h) /\ \A k \in Lines : k # h => pc'[k] = pc[k]
      BY <1>7, <2>2 DEF ListenerThrows, Finish, TypeOK
    <3> QED
      BY <1>2, <1>3, <3>1, FailAnswers DEF Once, OnceFor, Excused
  <2> QED
    BY <2>1, <2>2
<1> QED
  BY <1>4, <1>5, <1>6, <1>7 DEF Extern

\* A line and its pipeline answer when nobody has, and are done then.
LEMMA HandlerOnce ==
    ASSUME TypeOK, Cleared, Once, [Next]_vars, NEW h \in Lines, Line(h) \/ Pipeline(h)
    PROVE  Once'
<1> USE LinesAreSources
<1>1. h \in Sources /\ ReqId \in Lines \cup {None} /\ {"error", "bye", "success"} \subseteq Answers
  BY ReqIdIsContext DEF Answers
<1>2. ASSUME \A k \in Lines : k # h => answers'[k] = answers[k] /\ pc'[k] = pc[k]
      PROVE  \A k \in Lines : k # h => OnceFor(k)'
  BY <1>2, OnceKept
<1>3. ASSUME ~Stopped(h), UNCHANGED answers, \A k \in Lines : k # h => pc'[k] = pc[k]
      PROVE  Once'
  BY <1>2, <1>3, OnceMoves DEF Once
<1>4. ASSUME ~Stopped(h), Finish(h), NEW to \in {None, ReqId}, NEW what \in {"error", "bye", "success"},
             NEW next, Write(h, to, what, next)
      PROVE  Once'
  <2>1. /\ \A k \in Lines : k # h => answers'[k] = answers[k] /\ pc'[k] = pc[k]
        /\ answers'[h] = answers[h] \/ (Len(answers[h]) = 0 => Len(answers'[h]) = 1)
        /\ pc'[h] = "done"
    BY <1>1, <1>4, WriteAnswers DEF Finish, TypeOK
  <2> QED
    BY <1>2, <1>4, <2>1, OnceMoves DEF Once
<1>5. CASE Line(h)
  <2>1. CASE \/ Arrive(h) \/ Parse(h) \/ StartLookup(h) \/ LookupThrows(h) \/ EnterPipeline(h)
             \/ LookupFindsRecord(h) \/ LookupUnsigned(h)
    <3>1. UNCHANGED answers /\ \A k \in Lines : k # h => pc'[k] = pc[k]
      BY <2>1
      DEF Arrive, Parse, StartLookup, LookupThrows, EnterPipeline, LookupFindsRecord,
          LookupUnsigned, Throw, Catch, EnterStage, Finish, TypeOK, wire
    <3>2. ~Stopped(h)
      BY <2>1, NotStopped
      DEF Arrive, Parse, StartLookup, LookupThrows, EnterPipeline, LookupFindsRecord,
          LookupUnsigned, Stages
    <3> QED
      BY <1>3, <3>1, <3>2
  <2>2. CASE RefuseLine(h) \/ HandleControl(h) \/ LookupFindsNothing(h)
    <3>1. ~Stopped(h)
      BY <2>2, NotStopped DEF RefuseLine, HandleControl, LookupFindsNothing, Stages
    <3> QED
      BY <1>4, <2>2, <3>1 DEF RefuseLine, HandleControl, LookupFindsNothing
  <2> QED
    BY <1>5, <2>1, <2>2 DEF Line
<1>6. CASE Pipeline(h)
  <2>1. CASE RefuseSignature(h) \/ RefuseTrust(h) \/ Acknowledge(h)
    <3>1. ~Stopped(h)
      BY <2>1, NotStopped DEF RefuseSignature, RefuseTrust, Acknowledge, Stages
    <3> QED
      BY <1>4, <2>1, <3>1 DEF RefuseSignature, RefuseTrust, Acknowledge
  <2>2. CASE HandleError(h)
    <3>1. Fail(h) /\ \A k \in Lines : k # h => pc'[k] = pc[k]
      BY <2>2 DEF HandleError, Finish, TypeOK
    <3> QED
      BY <1>1, <1>2, <3>1, FailAnswers DEF Once, OnceFor, Excused
  <2>3. CASE ListenersReturn(h)
    <3>1. UNCHANGED <<answers, socket, responseSent, responded, middleware>> /\ pc[h] = "listening"
          /\ \A k \in Lines : k # h => pc'[k] = pc[k]
      BY <2>3 DEF ListenersReturn, TypeOK, wire, extern, shared
    <3>2. Stopped(h) => pc'[h] = "done"
      BY <2>3, <3>1, InstallAssumption
      DEF ListenersReturn, Stopped, IsResponseSent, TypeOK, Stages
    <3>3. OnceFor(h)'
      BY <3>1, <3>2, ExcusedStays DEF Once, OnceFor, Stopped
    <3> QED
      BY <1>2, <3>1, <3>3 DEF Once
  <2>4. CASE \/ Capture(h) \/ AcceptSignature(h) \/ CheckTrust(h) \/ AcceptTrust(h)
             \/ Deliver(h) \/ DeliverThrows(h)
    <3>1. UNCHANGED answers /\ \A k \in Lines : k # h => pc'[k] = pc[k]
      BY <2>4
      DEF Capture, AcceptSignature, CheckTrust, AcceptTrust, Deliver, DeliverThrows,
          EnterStage, Catch, TypeOK, wire
    <3>2. ~Stopped(h)
      BY <2>4, NotStopped
      DEF Capture, AcceptSignature, CheckTrust, AcceptTrust, Deliver, DeliverThrows, Stages
    <3> QED
      BY <1>3, <3>1, <3>2
  <2>5. CASE \/ VerifyThrows(h) \/ TrustThrows(h) \/ Forwarded(h) \/ ForwardThrows(h)
             \/ \E isValid \in BOOLEAN : SignatureChecked(h, isValid)
             \/ \E isTrusted \in BOOLEAN : TrustChecked(h, isTrusted)
    <3>1. UNCHANGED answers /\ \A k \in Lines : k # h => pc'[k] = pc[k]
      BY <2>5
      DEF VerifyThrows, TrustThrows, Forwarded, ForwardThrows, SignatureChecked,
          TrustChecked, EnterStage, Throw, Catch, TypeOK, wire
    <3>2. ~Stopped(h)
      BY <2>5, NotStopped
      DEF VerifyThrows, TrustThrows, Forwarded, ForwardThrows, SignatureChecked, TrustChecked
    <3> QED
      BY <1>3, <3>1, <3>2
  <2> QED
    BY <1>6, <2>1, <2>2, <2>3, <2>4, <2>5 DEF Pipeline
<1> QED
  BY <1>5, <1>6

\* Every step keeps the handlers to one answer.
LEMMA OnceStep == TypeOK /\ Cleared /\ Once /\ [Next]_vars => Once'
<1> SUFFICES ASSUME TypeOK, Cleared, Once, [Next]_vars
             PROVE  Once'
  OBVIOUS
<1> USE LinesAreSources
<1>1. ASSUME NEW s \in Sources, MiddlewareResponds(s)
      PROVE  Once'
  <2>1. PICK next \in {"open", "ending", "destroyed"} : Write(s, ReqId, "custom", next)
    BY <1>1 DEF MiddlewareResponds
  <2>2. /\ \A k \in Lines : k # s => answers'[k] = answers[k]
        /\ s \in Lines =>
             answers'[s] = answers[s] \/ (Len(answers[s]) = 0 => Len(answers'[s]) = 1)
    BY <2>1, WriteAnswers, ReqIdIsContext DEF Answers
  <2>3. /\ UNCHANGED <<pc, middleware, broken>> /\ responseSent'
        /\ s \notin responded /\ s \in responded'
    BY <1>1 DEF MiddlewareResponds, shared
  <2>4. \A k \in Lines : k # s => OnceFor(k)'
    BY <2>2, <2>3, OnceKept
  <2>5. ASSUME s \in Lines
        PROVE  OnceFor(s)'
    <3>1. CASE s \in broken
      BY <2>3, <3>1 DEF OnceFor, Excused
    <3>2. CASE pc[s] \in middleware
      <4>1. ~Stopped(s)
        BY <2>3, <3>2, InstallAssumption DEF Stopped, TypeOK, Stages
      <4> QED
        BY <2>2, <2>3, <2>5, <3>2, <4>1, ExcusedStays DEF Once, OnceFor, Stopped
    <3> QED
      BY <1>1, <3>1, <3>2 DEF MiddlewareResponds
  <2> QED
    BY <2>4, <2>5 DEF Once
<1>2. ASSUME NEW s \in Sources, HandleBroken(s)
      PROVE  Once'
  BY <1>2, FailAnswers DEF HandleBroken, Once, OnceFor, Excused
<1>3. CASE ConnectionTimeout
  <2>1. 0 \in Sources /\ 0 \notin Lines
    BY NAssumption DEF Sources, Lines
  <2>2. UNCHANGED pc /\ \A k \in Lines : answers'[k] = answers[k]
    BY <1>3, <2>1, FailAnswers DEF ConnectionTimeout, wire
  <2> QED
    BY <2>2, OnceKept DEF Once
<1>4. CASE PeerEnds \/ PeerBreaks \/ UNCHANGED vars
  BY <1>4, OnceKept DEF PeerEnds, PeerBreaks, vars, wire, Once
<1> QED
  BY <1>1, <1>2, <1>3, <1>4, ExternOnce, HandlerOnce DEF Next

\* A line has one answer, unless the connection fails or the server does not
\* await the action it asks for.
THEOREM OneAnswer == Spec => []AnsweredOnce
<1>1. Init => Once
  <2>1. Len(<<>>) = 0
    OBVIOUS
  <2> QED
    BY <2>1, LinesAreSources DEF Init, Once, OnceFor
<1>2. TypeOK /\ Once => AnsweredOnce
  <2>1. ~(0 > 1) /\ ~(1 > 1)
    OBVIOUS
  <2> QED
    BY <2>1, Zenon DEF Once, OnceFor, Excused, AnsweredOnce
<1> QED
  BY <1>1, <1>2, TypeCorrect, ClearedInvariant, OnceStep, PTL DEF Spec

----------------------------------------------------------------------------
(* What silences a line.                                                   *)

\* A step moves one handler.
LEMMA OneMoves ==
    ASSUME TypeOK, NEW g \in Lines, Extern(g) \/ Line(g) \/ Pipeline(g)
    PROVE  \A h \in Lines : h # g => pc'[h] = pc[h]
<1>1. CASE Extern(g)
  BY <1>1
  DEF Extern, MiddlewareStops, MiddlewareThrows, ListenerResponds, ListenerThrows, Finish,
      Throw, Catch, TypeOK
<1>2. CASE Line(g)
  BY <1>2
  DEF Line, Arrive, Parse, RefuseLine, HandleControl, StartLookup, LookupFindsNothing,
      LookupFindsRecord, LookupThrows, LookupUnsigned, Throw, Catch, EnterPipeline,
      EnterStage, Finish, TypeOK
<1>3. CASE Pipeline(g)
  BY <1>3
  DEF Pipeline, Capture, VerifyThrows, AcceptSignature, SignatureChecked, CheckTrust,
      TrustThrows, AcceptTrust, TrustChecked, Deliver, DeliverThrows, ListenersReturn,
      Forwarded, ForwardThrows, RefuseSignature, RefuseTrust, Acknowledge, HandleError,
      EnterStage, Finish, Throw, Catch, TypeOK
<1> QED
  BY <1>1, <1>2, <1>3

\* A handler's answers are not taken back.
LEMMA AnswersGrow ==
    ASSUME TypeOK, [Next]_vars, NEW h \in Lines, answers[h] # <<>>
    PROVE  answers'[h] # <<>>
<1>1. ASSUME NEW g \in Sources, NEW to \in Lines \cup {None}, NEW what \in Answers,
             Appends(g, to, what)
      PROVE  answers'[h] # <<>>
  <2>1. CASE g = h
    BY <1>1, <2>1, AppendedAnswer
  <2>2. CASE g # h
    BY <1>1, <2>2, OthersKeep
  <2> QED
    BY <2>1, <2>2
<1> QED
  BY <1>1, AnswersChange DEF AnswersStep

\* A handler that is done has answered, or the flag has kept it from doing so.
DoneMeansAnswered ==
    \A h \in Lines :
        pc[h] = "done" /\ socket = "open" /\ ~responseSent => answers[h] # <<>>

\* A handler that ends on an open connection has answered, or middleware or a
\* listener has answered some line of the connection.
LEMMA DoneStep ==
    TypeOK /\ DoneMeansAnswered /\ [Next]_vars => DoneMeansAnswered'
<1> SUFFICES ASSUME TypeOK, DoneMeansAnswered, [Next]_vars, NEW h \in Lines,
                    pc'[h] = "done", socket' = "open", ~responseSent'
             PROVE  answers'[h] # <<>>
  BY DEF DoneMeansAnswered
<1> USE LinesAreSources
<1>1. socket = "open" /\ ~responseSent
  BY ConnectionStays
<1>2. CASE pc[h] = "done"
  BY <1>1, <1>2, AnswersGrow DEF DoneMeansAnswered
<1>3. SUFFICES ASSUME pc[h] # "done"
               PROVE  answers'[h] # <<>>
  BY <1>2
<1>4. h \in Sources /\ ReqId \in Lines \cup {None} /\ {"error", "bye", "success"} \subseteq Answers
  BY ReqIdIsContext DEF Answers
<1>5. ASSUME NEW to \in {None, ReqId}, NEW what \in {"error", "bye", "success"},
             NEW next, Write(h, to, what, next)
      PROVE  answers'[h] # <<>>
  BY <1>1, <1>4, <1>5, AppendedAnswer DEF Write, Appends
<1>6. CASE Extern(h)
  BY <1>1, <1>3, <1>6
  DEF Extern, MiddlewareStops, MiddlewareThrows, ListenerResponds, ListenerThrows,
      IsResponseSent, Throw, Catch, Fail, TypeOK
<1>7. CASE Line(h)
  <2>1. CASE RefuseLine(h) \/ HandleControl(h) \/ LookupFindsNothing(h)
    BY <1>5, <2>1 DEF RefuseLine, HandleControl, LookupFindsNothing
  <2>2. CASE LookupFindsRecord(h)
    BY <1>1, <2>2 DEF LookupFindsRecord
  <2>3. CASE \/ Arrive(h) \/ Parse(h) \/ EnterPipeline(h) \/ StartLookup(h)
             \/ LookupThrows(h) \/ LookupUnsigned(h)
    BY <1>1, <2>3
    DEF Arrive, Parse, EnterPipeline, StartLookup, LookupThrows, LookupUnsigned, Throw,
        Catch, EnterStage, IsResponseSent, TypeOK
  <2> QED
    BY <1>7, <2>1, <2>2, <2>3 DEF Line
<1>8. CASE Pipeline(h)
  <2>1. CASE RefuseSignature(h) \/ RefuseTrust(h) \/ Acknowledge(h)
    BY <1>5, <2>1 DEF RefuseSignature, RefuseTrust, Acknowledge
  <2>2. CASE HandleError(h)
    BY <2>2 DEF HandleError, Fail
  <2>3. CASE \/ Capture(h) \/ AcceptSignature(h) \/ CheckTrust(h) \/ AcceptTrust(h)
             \/ Deliver(h) \/ ListenersReturn(h) \/ Forwarded(h)
             \/ \E isValid \in BOOLEAN : SignatureChecked(h, isValid)
             \/ \E isTrusted \in BOOLEAN : TrustChecked(h, isTrusted)
    BY <1>1, <2>3
    DEF Capture, AcceptSignature, CheckTrust, AcceptTrust, Deliver, ListenersReturn,
        Forwarded, SignatureChecked, TrustChecked, EnterStage, IsResponseSent, TypeOK
  <2>4. CASE VerifyThrows(h) \/ TrustThrows(h) \/ ForwardThrows(h) \/ DeliverThrows(h)
    BY <2>4
    DEF VerifyThrows, TrustThrows, ForwardThrows, DeliverThrows, Throw, Catch, TypeOK
  <2> QED
    BY <1>8, <2>1, <2>2, <2>3, <2>4 DEF Pipeline
<1>9. CASE \/ \E s \in Sources : MiddlewareResponds(s) \/ HandleBroken(s)
           \/ ConnectionTimeout \/ PeerEnds \/ PeerBreaks \/ UNCHANGED vars
  BY <1>3, <1>9
  DEF MiddlewareResponds, HandleBroken, ConnectionTimeout, PeerEnds, PeerBreaks, vars
<1>10. ASSUME NEW g \in Lines, g # h, Extern(g) \/ Line(g) \/ Pipeline(g)
       PROVE  FALSE
  BY <1>3, <1>10, OneMoves
<1> QED
  BY <1>6, <1>7, <1>8, <1>9, <1>10 DEF Next

\* What answers a line is seen on the wire, the flag stands for one of these
\* answers, and a handler is rejected by the identity lookup or by middleware.
Attributed ==
    /\ responseSent => responded # {}
    /\ \A h \in Lines :
          /\ socket = "open" /\ h \in responded => answers[h] # <<>>
          /\ pc[h] = "lookingUp" => lines[h].kind = "lookup"
          /\ pc[h] = "rejected" => lines[h].kind = "lookup" \/ "failing" \in middleware

\* External code that answers a line on an open connection writes to it.
LEMMA RespondedStep ==
    TypeOK /\ Attributed /\ [Next]_vars =>
        /\ responseSent' => responded' # {}
        /\ \A h \in Lines : socket' = "open" /\ h \in responded' => answers'[h] # <<>>
<1> SUFFICES ASSUME TypeOK, Attributed, [Next]_vars
             PROVE  /\ responseSent' => responded' # {}
                    /\ \A h \in Lines :
                          socket' = "open" /\ h \in responded' => answers'[h] # <<>>
  OBVIOUS
<1>1. ASSUME NEW s \in Sources, NEW next, socket = "open", Write(s, ReqId, "custom", next),
             responded' = responded \cup {s}
      PROVE  /\ responseSent' => responded' # {}
             /\ \A h \in Lines :
                   socket' = "open" /\ h \in responded' => answers'[h] # <<>>
  <2>1. Appends(s, ReqId, "custom") /\ "custom" \in Answers
    BY <1>1 DEF Write, Appends, Answers
  <2>2. s \in Lines => answers'[s] # <<>>
    BY <2>1, AppendedAnswer, ReqIdIsContext
  <2> QED
    BY <1>1, <2>2, AnswersGrow DEF Attributed
<1>2. ASSUME NEW s \in Sources, MiddlewareResponds(s)
      PROVE  \E next : Write(s, ReqId, "custom", next) /\ socket = "open"
                       /\ responded' = responded \cup {s}
  BY <1>2 DEF MiddlewareResponds
<1>3. ASSUME NEW h \in Lines, ListenerResponds(h)
      PROVE  \E next : Write(h, ReqId, "custom", next) /\ socket = "open"
                       /\ responded' = responded \cup {h}
  BY <1>3 DEF ListenerResponds
<1>4. CASE UNCHANGED <<responseSent, responded>>
  BY <1>4, ConnectionStays, AnswersGrow DEF Attributed
<1>5. ASSUME NEW h \in Lines, Extern(h)
      PROVE  ListenerResponds(h) \/ UNCHANGED <<responseSent, responded>>
  BY <1>5
  DEF Extern, MiddlewareStops, MiddlewareThrows, ListenerThrows, Throw, extern
<1>6. ASSUME NEW h \in Lines, Line(h) \/ Pipeline(h)
      PROVE  UNCHANGED <<responseSent, responded>>
  BY <1>6
  DEF Line, Arrive, Parse, RefuseLine, HandleControl, StartLookup, LookupFindsNothing,
      LookupFindsRecord, LookupThrows, LookupUnsigned, EnterPipeline,
      Pipeline, Capture, VerifyThrows, AcceptSignature, SignatureChecked, CheckTrust,
      TrustThrows, AcceptTrust, TrustChecked, Deliver, DeliverThrows, ListenersReturn,
      Forwarded, ForwardThrows, RefuseSignature, RefuseTrust, Acknowledge, HandleError,
      Throw, extern
<1>7. CASE \/ \E s \in Sources : HandleBroken(s)
           \/ ConnectionTimeout \/ PeerEnds \/ PeerBreaks \/ UNCHANGED vars
  BY <1>4, <1>7 DEF HandleBroken, ConnectionTimeout, PeerEnds, PeerBreaks, vars, extern
<1> QED
  BY <1>1, <1>2, <1>3, <1>4, <1>5, <1>6, <1>7, LinesAreSources DEF Next

\* Only an identity lookup, or middleware of errors, rejects a handler.
LEMMA RejectedStep ==
    TypeOK /\ Attributed /\ [Next]_vars =>
        \A h \in Lines :
            /\ pc'[h] = "lookingUp" => lines'[h].kind = "lookup"
            /\ pc'[h] = "rejected" => lines'[h].kind = "lookup" \/ "failing" \in middleware'
<1> SUFFICES ASSUME TypeOK, Attributed, [Next]_vars, NEW h \in Lines
             PROVE  /\ pc'[h] = "lookingUp" => lines'[h].kind = "lookup"
                    /\ pc'[h] = "rejected" => lines'[h].kind = "lookup" \/ "failing" \in middleware'
  OBVIOUS
<1>1. lines' = lines /\ middleware' = middleware
  BY ConnectionStays
<1>2. CASE pc'[h] = pc[h]
  BY <1>1, <1>2 DEF Attributed
<1>3. CASE Extern(h)
  <2>1. pc'[h] # "lookingUp" \/ pc'[h] = pc[h]
    BY <1>3
    DEF Extern, MiddlewareStops, MiddlewareThrows, ListenerResponds, ListenerThrows,
        Finish, Throw, Catch, TypeOK
  <2>2. pc'[h] = "rejected" => "failing" \in middleware \/ pc'[h] = pc[h]
    BY <1>3
    DEF Extern, MiddlewareStops, MiddlewareThrows, ListenerResponds, ListenerThrows,
        Finish, Throw, Catch, TypeOK
  <2> QED
    BY <1>1, <1>2, <2>1, <2>2
<1>4. CASE Line(h)
  <2>1. CASE StartLookup(h) \/ LookupThrows(h)
    BY <1>1, <2>1 DEF StartLookup, LookupThrows, Attributed, TypeOK
  <2>2. CASE \/ Arrive(h) \/ Parse(h) \/ RefuseLine(h) \/ HandleControl(h)
             \/ LookupFindsNothing(h) \/ LookupFindsRecord(h) \/ LookupUnsigned(h)
             \/ EnterPipeline(h)
    BY <2>2
    DEF Arrive, Parse, RefuseLine, HandleControl, LookupFindsNothing, LookupFindsRecord,
        LookupUnsigned, EnterPipeline, EnterStage, Finish, Throw, Catch, TypeOK
  <2> QED
    BY <1>4, <2>1, <2>2 DEF Line
<1>5. CASE Pipeline(h)
  BY <1>5
  DEF Pipeline, Capture, VerifyThrows, AcceptSignature, SignatureChecked, CheckTrust,
      TrustThrows, AcceptTrust, TrustChecked, Deliver, DeliverThrows, ListenersReturn,
      Forwarded, ForwardThrows, RefuseSignature, RefuseTrust, Acknowledge, HandleError,
      EnterStage, Finish, Throw, Catch, TypeOK
<1>6. CASE \/ \E s \in Sources : MiddlewareResponds(s) \/ HandleBroken(s)
           \/ ConnectionTimeout \/ PeerEnds \/ PeerBreaks \/ UNCHANGED vars
  BY <1>2, <1>6
  DEF MiddlewareResponds, HandleBroken, ConnectionTimeout, PeerEnds, PeerBreaks, vars
<1>7. ASSUME NEW g \in Lines, g # h, Extern(g) \/ Line(g) \/ Pipeline(g)
      PROVE  pc'[h] = pc[h]
  BY <1>7, OneMoves
<1> QED
  BY <1>2, <1>3, <1>4, <1>5, <1>6, <1>7 DEF Next

\* A handler that ends without an answer on an open connection was rejected by
\* its identity lookup or by middleware of errors, or external code has
\* answered another line of the connection: nothing else silences a line.
THEOREM SilenceIsExplained == Spec => []SilenceHasCause
<1>1. Init => DoneMeansAnswered /\ Attributed
  BY DEF Init, DoneMeansAnswered, Attributed
<1>2. TypeOK /\ Attributed /\ [Next]_vars => Attributed'
  BY RespondedStep, RejectedStep DEF Attributed
<1>3. DoneMeansAnswered /\ Attributed => SilenceHasCause
  <2> SUFFICES ASSUME DoneMeansAnswered, Attributed, NEW h \in Lines,
                      pc[h] \in {"done", "rejected"}, socket = "open", answers[h] = <<>>
               PROVE  \/ pc[h] = "rejected" /\ (lines[h].kind = "lookup" \/ "failing" \in middleware)
                      \/ pc[h] = "done" /\ \E k \in responded : k # h
    BY DEF SilenceHasCause
  <2>1. h \notin responded
    BY DEF Attributed
  <2> QED
    BY <2>1 DEF DoneMeansAnswered, Attributed
<1> QED
  BY <1>1, <1>2, <1>3, TypeCorrect, DoneStep, PTL DEF Spec

----------------------------------------------------------------------------
(* Lines in turn.                                                          *)

Sequential == ~overlapped /\ "beforeParsing" \notin middleware

\* While the lines come in turn, the handlers of earlier lines are done with
\* the context, and a handler at work has it to itself.
InTurn(h) ==
    /\ \A k \in Lines : k < h /\ pc[h] # "idle" =>
          pc[k] \in {"done", "rejected"} /\ k \notin broken
    /\ h \in broken => pc[h] \notin {"idle", "beforeParsing"}
    /\ Working(h) => ctx \in {None, h}
    /\ data[h] \in {None, h}

Turns == Sequential => \A h \in Lines : InTurn(h)

\* A step that leaves the handlers and the context as they are keeps the turns.
LEMMA TurnsKept ==
    ASSUME Turns, UNCHANGED <<pc, ctx, data, overlapped, middleware>>,
           broken' \subseteq broken \cup {0}
    PROVE  Turns'
<1>1. 0 \notin Lines
  BY NAssumption DEF Lines
<1> QED
  BY <1>1 DEF Turns, Sequential, InTurn, Working

\* So does a step of the handler whose turn it is, whatever it captures.
LEMMA TurnsMove ==
    ASSUME TypeOK, Turns, NEW g \in Lines, UNCHANGED <<ctx, overlapped, middleware>>,
           \A k \in Lines : k # g => pc'[k] = pc[k] /\ data'[k] = data[k],
           Sequential => pc[g] \notin {"idle", "beforeParsing", "done", "rejected"},
           pc'[g] \notin {"idle", "beforeParsing"},
           data'[g] \in {data[g], ctx}, broken' \subseteq broken \cup {g}
    PROVE  Turns'
<1> SUFFICES ASSUME Sequential, NEW h \in Lines
             PROVE  InTurn(h)'
  BY DEF Turns, Sequential
<1>1. InTurn(h) /\ InTurn(g) /\ Working(g)
  BY DEF Turns, Working
<1>2. \A k \in Lines : k < h /\ pc'[h] # "idle" =>
          pc'[k] \in {"done", "rejected"} /\ k \notin broken'
  <2> SUFFICES ASSUME NEW k \in Lines, k < h, pc'[h] # "idle"
               PROVE  pc'[k] \in {"done", "rejected"} /\ k \notin broken'
    OBVIOUS
  <2>1. pc[h] # "idle"
    OBVIOUS
  <2>2. pc[k] \in {"done", "rejected"} /\ k \notin broken
    BY <1>1, <2>1 DEF InTurn
  <2>3. k # g
    BY <2>2
  <2> QED
    BY <2>2, <2>3
<1>3. h \in broken' => pc'[h] \notin {"idle", "beforeParsing"}
  BY <1>1 DEF InTurn
<1>4. Working(h)' => ctx' \in {None, h}
  <2>1. CASE h = g
    BY <1>1, <2>1 DEF InTurn
  <2>2. CASE h # g
    BY <1>1, <2>2 DEF InTurn, Working
  <2> QED
    BY <2>1, <2>2
<1>5. data'[h] \in {None, h}
  <2>1. CASE h = g
    BY <1>1, <2>1 DEF InTurn
  <2>2. CASE h # g
    BY <1>1, <2>2 DEF InTurn
  <2> QED
    BY <2>1, <2>2
<1> QED
  BY <1>2, <1>3, <1>4, <1>5 DEF InTurn

\* A line that arrives in its turn finds the earlier ones done.
LEMMA ArriveInTurn ==
    ASSUME TypeOK, Turns, NEW g \in Lines, Arrive(g)
    PROVE  Turns'
<1> SUFFICES ASSUME Sequential', NEW h \in Lines
             PROVE  InTurn(h)'
  BY DEF Turns
<1>1. Sequential /\ broken = {} /\ UNCHANGED <<ctx, data, broken>>
  BY DEF Sequential, Arrive, local, extern
<1>2. \A k \in Lines : k < g => pc[k] \in {"done", "rejected"}
  BY DEF Sequential, Arrive, Lines
<1>3. /\ pc[g] = "idle" /\ pc'[g] \in {"beforeParsing", "done"}
      /\ \A k \in Lines : k # g => pc'[k] = pc[k]
  BY DEF Arrive, EnterStage, TypeOK
<1>4. InTurn(h)
  BY <1>1 DEF Turns
<1>5. ASSUME NEW k \in Lines, k < h, pc'[h] # "idle"
      PROVE  pc'[k] \in {"done", "rejected"} /\ k \notin broken'
  <2>1. CASE h = g
    <3>1. k # g
      BY <1>5, <2>1 DEF Lines
    <3> QED
      BY <1>1, <1>2, <1>3, <1>5, <2>1, <3>1
  <2>2. CASE h # g
    BY <1>1, <1>3, <1>4, <1>5, <2>2 DEF InTurn
  <2> QED
    BY <2>1, <2>2
<1>6. Working(h)' => ctx' \in {None, h}
  BY <1>1, <1>3, <1>4 DEF InTurn, Working
<1> QED
  BY <1>1, <1>4, <1>5, <1>6 DEF InTurn

\* A line that is parsed in its turn takes the context from nobody.
LEMMA ParseInTurn ==
    ASSUME TypeOK, Turns, NEW g \in Lines, Parse(g)
    PROVE  Turns'
<1> SUFFICES ASSUME Sequential, NEW h \in Lines
             PROVE  InTurn(h)'
  BY DEF Turns, Sequential, Parse
<1>1. UNCHANGED <<data, broken>> /\ ctx' \in {None, g}
  BY DEF Parse, local, extern
<1>2. /\ pc[g] = "beforeParsing" /\ pc'[g] \in {"afterParsing", "done"}
      /\ \A k \in Lines : k # g => pc'[k] = pc[k]
  BY DEF Parse, Passes, EnterStage, TypeOK
<1>3. InTurn(h) /\ InTurn(g)
  BY DEF Turns
<1>4. ASSUME NEW k \in Lines, k < h, pc'[h] # "idle"
      PROVE  pc'[k] \in {"done", "rejected"} /\ k \notin broken'
  <2>1. pc[h] # "idle"
    BY <1>2, <1>4
  <2>2. pc[k] \in {"done", "rejected"} /\ k \notin broken
    BY <1>3, <1>4, <2>1 DEF InTurn
  <2> QED
    BY <1>1, <1>2, <2>2
<1>5. ASSUME h # g, Working(h)
      PROVE  FALSE
  <2>1. pc[h] # "idle"
    BY <1>3, <1>5 DEF InTurn, Working
  <2>2. CASE g < h
    BY <1>2, <1>3, <2>1, <2>2 DEF InTurn
  <2>3. CASE h < g
    BY <1>2, <1>3, <1>5, <2>3 DEF InTurn, Working
  <2> QED
    BY <1>5, <2>2, <2>3 DEF Lines
<1>6. Working(h)' => ctx' \in {None, h}
  BY <1>1, <1>2, <1>5 DEF Working
<1> QED
  BY <1>1, <1>2, <1>3, <1>4, <1>6 DEF InTurn

\* Every step keeps the turns.
LEMMA TurnsStep == TypeOK /\ Turns /\ [Next]_vars => Turns'
<1> SUFFICES ASSUME TypeOK, Turns, [Next]_vars
             PROVE  Turns'
  OBVIOUS
<1>1. middleware \subseteq Stages
  BY InstallAssumption DEF TypeOK
<1>2. ASSUME NEW g \in Lines, Extern(g)
      PROVE  Turns'
  <2>1. \A k \in Lines : k # g => pc'[k] = pc[k]
    BY <1>2, OneMoves
  <2>2. CASE MiddlewareStops(g) \/ MiddlewareThrows(g)
    <3>1. /\ UNCHANGED <<ctx, overlapped, middleware, data, broken>>
          /\ pc[g] \in middleware /\ pc'[g] \notin {"idle", "beforeParsing"}
      BY <2>2
      DEF MiddlewareStops, MiddlewareThrows, Finish, Throw, Catch, shared, local, extern,
          TypeOK
    <3>2. Sequential => pc[g] \notin {"idle", "beforeParsing", "done", "rejected"}
      BY <1>1, <3>1 DEF Sequential, Stages
    <3> QED
      BY <2>1, <3>1, <3>2, TurnsMove
  <2>3. CASE ListenerResponds(g)
    BY <2>3, TurnsKept DEF ListenerResponds, shared, local
  <2>4. CASE ListenerThrows(g)
    <3>1. /\ UNCHANGED <<ctx, overlapped, middleware, data>> /\ broken' \subseteq broken \cup {g}
          /\ pc[g] = "listening" /\ pc'[g] \in {"listening", "done"}
      BY <2>4 DEF ListenerThrows, Finish, shared, local, TypeOK
    <3> QED
      BY <2>1, <3>1, TurnsMove
  <2> QED
    BY <1>2, <2>2, <2>3, <2>4 DEF Extern
<1>3. ASSUME NEW g \in Lines, Line(g)
      PROVE  Turns'
  <2>1. CASE \/ RefuseLine(g) \/ HandleControl(g) \/ StartLookup(g) \/ LookupFindsNothing(g)
             \/ LookupFindsRecord(g) \/ LookupThrows(g) \/ LookupUnsigned(g)
             \/ EnterPipeline(g)
    <3>1. /\ UNCHANGED <<ctx, overlapped, middleware, data, broken>>
          /\ pc[g] \in {"afterParsing", "lookingUp"}
          /\ pc'[g] \in {"done", "lookingUp", "rejected", "beforeSignature", "failing",
                         "closing"}
      BY <2>1
      DEF RefuseLine, HandleControl, StartLookup, LookupFindsNothing, LookupFindsRecord,
          LookupThrows, LookupUnsigned, Throw, Catch, EnterPipeline, EnterStage, Passes,
          Finish, shared, local, extern, TypeOK
    <3>2. \A k \in Lines : k # g => pc'[k] = pc[k]
      BY <1>3, OneMoves
    <3> QED
      BY <3>1, <3>2, TurnsMove
  <2> QED
    BY <1>3, <2>1, ArriveInTurn, ParseInTurn DEF Line
<1>4. ASSUME NEW g \in Lines, Pipeline(g)
      PROVE  Turns'
  <2>1. pc[g] \in (Stages \ {"beforeParsing"}) \cup
            {"verifying", "checkingTrust", "listening", "forwarding", "closing"}
    BY <1>4
    DEF Pipeline, Capture, VerifyThrows, RefuseSignature, AcceptSignature,
        SignatureChecked, CheckTrust, TrustThrows, RefuseTrust, AcceptTrust, TrustChecked,
        Deliver, DeliverThrows, ListenersReturn, Forwarded, ForwardThrows, Acknowledge,
        HandleError, Passes, Stages
  <2>2. CASE \/ Capture(g) \/ AcceptSignature(g) \/ CheckTrust(g) \/ AcceptTrust(g)
             \/ Deliver(g) \/ DeliverThrows(g) \/ ListenersReturn(g) \/ Forwarded(g)
    <3>1. /\ pc'[g] \notin {"idle", "beforeParsing"} /\ data'[g] \in {data[g], ctx}
          /\ \A k \in Lines : k # g => data'[k] = data[k]
          /\ UNCHANGED <<ctx, overlapped, middleware, broken>>
      BY <2>2
      DEF Capture, AcceptSignature, CheckTrust, AcceptTrust, Deliver, DeliverThrows,
          ListenersReturn, Forwarded, EnterStage, Catch, TypeOK, shared, local, extern
    <3> QED
      BY <1>4, <2>1, <3>1, OneMoves, TurnsMove DEF Stages
  <2>3. CASE \/ VerifyThrows(g) \/ TrustThrows(g) \/ ForwardThrows(g)
             \/ RefuseSignature(g) \/ RefuseTrust(g) \/ Acknowledge(g) \/ HandleError(g)
             \/ \E isValid \in BOOLEAN : SignatureChecked(g, isValid)
             \/ \E isTrusted \in BOOLEAN : TrustChecked(g, isTrusted)
    <3>1. /\ pc'[g] \notin {"idle", "beforeParsing"}
          /\ UNCHANGED <<ctx, overlapped, middleware, data, broken>>
      BY <2>3
      DEF VerifyThrows, TrustThrows, ForwardThrows, RefuseSignature, RefuseTrust,
          Acknowledge, HandleError, SignatureChecked, TrustChecked, EnterStage, Throw,
          Catch, Finish, TypeOK, shared, local, extern
    <3> QED
      BY <1>4, <2>1, <3>1, OneMoves, TurnsMove DEF Stages
  <2> QED
    BY <1>4, <2>2, <2>3 DEF Pipeline
<1>5. CASE \/ \E s \in Sources : MiddlewareResponds(s) \/ HandleBroken(s)
           \/ ConnectionTimeout \/ PeerEnds \/ PeerBreaks \/ UNCHANGED vars
  BY <1>5, TurnsKept
  DEF MiddlewareResponds, HandleBroken, ConnectionTimeout, PeerEnds, PeerBreaks, vars,
      shared, local, extern
<1> QED
  BY <1>2, <1>3, <1>4, <1>5 DEF Next

\* As long as a client waits for each answer before its next line, a handler
\* works on its own line and answers under its id.
THEOREM TurnsCorrelate == Spec => []SequentialIsCorrelated
<1>1. Init => Turns /\ SequentialIsCorrelated
  BY LinesAreSources DEF Init, Turns, InTurn, Working, SequentialIsCorrelated
<1>2. TypeOK /\ Cleared' /\ Turns /\ Turns' /\ SequentialIsCorrelated /\ [Next]_vars
        => SequentialIsCorrelated'
  <2> SUFFICES ASSUME TypeOK, Cleared', Turns, Turns', SequentialIsCorrelated, [Next]_vars,
                      Sequential', NEW h \in Lines
               PROVE  /\ delivered'[h] \in {None, h}
                      /\ \A k \in DOMAIN answers'[h] :
                            answers'[h][k].what # "custom" => answers'[h][k].to \in {None, h}
    BY DEF SequentialIsCorrelated, Sequential
  <2>1. Sequential
    BY ConnectionStays DEF Sequential
  <2>2. delivered'[h] \in {None, h}
    BY DEF Turns, InTurn, Cleared, OwnArtifact
  <2>3. ASSUME NEW k \in DOMAIN answers'[h], answers'[h][k].what # "custom"
        PROVE  answers'[h][k].to \in {None, h}
    BY <2>1, <2>3, NewAnswer DEF SequentialIsCorrelated, Sequential, Turns, InTurn
  <2> QED
    BY <2>2, <2>3
<1> QED
  BY <1>1, <1>2, TypeCorrect, ClearedInvariant, TurnsStep, PTL DEF Spec
=============================================================================
