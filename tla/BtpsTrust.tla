----------------------------- MODULE BtpsTrust -----------------------------
(***************************************************************************)
(* Trust between identities: a sender asks for it, the receiver decides    *)
(* and answers, and each keeps a record of it in the store of its server.  *)
(* The servers look at each artifact that comes in (verifyTrust) and hand  *)
(* it to the application, which changes the records.                       *)
(*                                                                         *)
(* Artifacts may be lost, repeated and overtaken.  That an artifact is of  *)
(* the one it says it is from is the subject of BtpsDelegation.  A step is *)
(* the code between two awaits: the verdict on an artifact is one, what    *)
(* the application does with it is another, later one.                     *)
(***************************************************************************)
EXTENDS BtpsCrypto, FiniteSets

CONSTANTS
    Identities,    \* as they may be spelled
    Lower,         \* their spelling in lower case
    CoolingOff,    \* the time a receiver wants between two requests
    Choices,       \* what it may decide: [status, expiresIn, retryIn]
    MaxClock,      \* bounds the time
    MaxSent,       \* bounds the artifacts under way
    Handlings      \* 1 .. n, the artifacts that are handled: bounds a behaviour

Parties  == {Lower[i] : i \in Identities}
TrustIds == Parties \X Parties
Times    == 0 .. MaxClock
Dates    == Nat \cup {None}
Statuses == {"accepted", "rejected", "revoked", "pending", "blocked"}

ASSUME LowerAssumption ==
    /\ Lower \in [Identities -> Identities]
    /\ \A i \in Identities : Lower[Lower[i]] = Lower[i]
ASSUME CoolingOffAssumption == CoolingOff \in Nat
ASSUME ChoicesAssumption ==
    Choices \subseteq [status : Statuses \ {"pending"},
                       expiresIn : Dates, retryIn : Dates]
ASSUME ClockAssumption == MaxClock \in Nat
ASSUME HandlingsAssumption == Handlings \subseteq Nat

Records == [senderId : Identities, receiverId : Identities, status : Statuses,
            expiresAt : Dates, retryAfterDate : Dates]

\* What a receiver tells of its decision
Answers == [text : {FALSE}, status : Statuses, expiresAt : Dates,
            retryAfterDate : Dates]

ASSUME NoRecordAssumption == None \notin Records \cup Answers \cup Nat

VARIABLES
    clock,
    trustStore,    \* the store of each party
    sent,          \* the artifacts that were sent
    pc,            \* how far the handling of an artifact has come
    message,       \* the artifact
    decision,      \* what each receiver has decided last (a history)
    seen,          \* the time of a verdict, and the decision then (a history)
    doneAt,        \* when the application had an artifact (a history)
    decidedSince,  \* handlings after which there was a decision (a history)
    raced          \* trusts with two artifacts, or one and a decision, at a
                   \* time (a history)

history == <<decision, seen, doneAt, decidedSince, raced>>
vars == <<clock, trustStore, sent, pc, message, history>>

----------------------------------------------------------------------------
(* The policy.                                                             *)

computeTrustId(senderId, receiverId) ==
    <<Lower[senderId], Lower[receiverId]>>

isTrustActive(trust, now) ==
    /\ trust # None
    /\ trust.status = "accepted"
    /\ trust.expiresAt # None => trust.expiresAt >= now

\* Mutant of validateTrustRequest: what is not active may be asked for
ValidateAnyTrustRequest(trust, now) == ~isTrustActive(trust, now)

validateTrustRequest(trust, now) ==
    /\ ~isTrustActive(trust, now)
    /\ trust # None =>
          /\ trust.status # "blocked"
          /\ trust.retryAfterDate # None => trust.retryAfterDate <= now

\* Mutant of validateTrustResponse: what was answered may be answered again
ValidateAnyTrustResponse(senderId, receiverId, store) ==
    LET trust == store[computeTrustId(receiverId, senderId)]
    IN  trust # None /\ trust.receiverId = senderId

\* The record is that of the request: its receiver is the sender now
validateTrustResponse(senderId, receiverId, store) ==
    LET trust == store[computeTrustId(receiverId, senderId)]
    IN  /\ trust # None
        /\ trust.status = "pending"
        /\ trust.receiverId = senderId

canRetryTrust(trust, now) ==
    trust # None =>
        /\ trust.status \notin {"accepted", "blocked"}
        /\ trust.retryAfterDate # None => trust.retryAfterDate <= now

\* Mutant of verifyTrust: trust has no direction
VerifyEitherWay(m, store, now) ==
    LET id == computeTrustId(m.from, m.to) IN
    CASE m.type = "TRUST_RES" -> validateTrustResponse(m.from, m.to, store)
      [] m.type = "TRUST_REQ" -> validateTrustRequest(store[id], now)
      [] m.type = "BTPS_DOC"  -> isTrustActive(store[id], now)
                                 \/ isTrustActive(store[<<id[2], id[1]>>], now)

\* verifyTrust(), on the record that the store has returned
verifyTrust(m, store, now) ==
    LET trust == store[computeTrustId(m.from, m.to)]
    IN  CASE m.type = "TRUST_RES" -> validateTrustResponse(m.from, m.to, store)
          [] m.type = "TRUST_REQ" -> validateTrustRequest(trust, now)
          [] m.type = "BTPS_DOC"  -> isTrustActive(trust, now)

----------------------------------------------------------------------------
Key(p) == [publicKey |-> p, privateKey |-> p]

\* An artifact that one party sends to an identity, sealed for it
Letter(from, to, type, document) ==
    signEncrypt(to, Lower[to], Key(from),
                [type |-> type, from |-> from, to |-> to,
                 selector |-> "btps1", document |-> document,
                 encryption |-> None, signature |-> None],
                TRUE)

Request == [text |-> FALSE, request |-> TRUE]
Answer(status, expiresAt, retryAfterDate) ==
    [text |-> FALSE, status |-> status, expiresAt |-> expiresAt,
     retryAfterDate |-> retryAfterDate]

\* The date that is so far away
Date(duration) == IF duration = None THEN None ELSE clock + duration

\* The trust an artifact is about
TrustOf(m) == IF m.type = "TRUST_RES" THEN computeTrustId(m.to, m.from)
              ELSE computeTrustId(m.from, m.to)

\* What is with the application of party p about a trust
Waiting(p, id) == {h \in Handlings : pc[h] = "trusted" /\ TrustOf(message[h]) = id
                                     /\ Lower[message[h].to] = p}

\* The record of a trust once it is asked for: create(), or update() of the
\* one there is
Asked(trust, senderId, receiverId, retryAfterDate) ==
    IF trust = None
    THEN [senderId |-> senderId, receiverId |-> receiverId,
          status |-> "pending", expiresAt |-> None,
          retryAfterDate |-> retryAfterDate]
    ELSE [trust EXCEPT !.status = "pending",
                       !.retryAfterDate = retryAfterDate]

----------------------------------------------------------------------------
Init ==
    /\ clock = 0
    /\ trustStore = [p \in Parties |-> [id \in TrustIds |-> None]]
    /\ sent = {}
    /\ pc = [h \in Handlings |-> "idle"]
    /\ message = [h \in Handlings |-> None]
    /\ decision = [id \in TrustIds |-> None]
    /\ seen = [h \in Handlings |-> None]
    /\ doneAt = [h \in Handlings |-> None]
    /\ decidedSince = {}
    /\ raced = {}

\* When signEncrypt throws nothing is sent
Post(m) ==
    /\ m # None
    /\ m \in sent \/ Cardinality(sent) < MaxSent
    /\ sent' = sent \cup {m}

\* Party p asks for trust, if canRetryTrust() lets it
AskForTrust(p, to) ==
    LET id == computeTrustId(p, to) IN
    /\ Lower[to] # p
    /\ canRetryTrust(trustStore[p][id], clock)
    /\ Post(Letter(p, to, "TRUST_REQ", Request))
    /\ trustStore' = [trustStore EXCEPT ![p][id] = Asked(@, p, to, None)]
    /\ UNCHANGED <<clock, pc, message, history>>

\* Party p sends a document
SendDocument(p, to) ==
    /\ Lower[to] # p
    /\ Post(Letter(p, to, "BTPS_DOC", Doc({"title"})))
    /\ UNCHANGED <<clock, trustStore, pc, message, history>>

\* A record after an answer, or the decision that it tells of
Decided(trust, answer) ==
    [trust EXCEPT !.status = answer.status, !.expiresAt = answer.expiresAt,
                  !.retryAfterDate = answer.retryAfterDate]

\* The receiver of a request decides on it, or once more, and answers
Decide(id, choice) ==
    LET p == id[2]
        trust == trustStore[p][id]
        answer == Answer(choice.status, Date(choice.expiresIn),
                         Date(choice.retryIn))
    IN
    /\ trust # None
    /\ trustStore' = [trustStore EXCEPT ![p][id] = Decided(@, answer)]
    /\ Post(Letter(p, trust.senderId, "TRUST_RES", answer))
    /\ decision' = [decision EXCEPT ![id] = answer]
    /\ decidedSince' = decidedSince \cup
          {h \in Handlings : pc[h] # "idle" /\ TrustOf(message[h]) = id}
    /\ raced' = raced \cup {i \in {id} : Waiting(p, id) # {}}
    /\ UNCHANGED <<clock, pc, message, seen, doneAt>>

\* The server of its receiver has read the record, and goes on or refuses
Verify(h, m) ==
    LET p == Lower[m.to] IN
    /\ pc[h] = "idle" /\ \A g \in Handlings : g < h => pc[g] # "idle"
    /\ m \in sent
    /\ message' = [message EXCEPT ![h] = m]
    /\ pc' = [pc EXCEPT ![h] = IF verifyTrust(m, trustStore[p], clock)
                               THEN "trusted" ELSE "refused"]
    /\ seen' = [seen EXCEPT ![h] =
                   [at |-> clock, decision |-> decision[TrustOf(m)]]]
    /\ raced' = raced \cup {id \in {TrustOf(m)} : Waiting(p, id) # {}}
    /\ UNCHANGED <<clock, trustStore, sent, decision, doneAt, decidedSince>>

Handled(h) ==
    /\ pc[h] = "trusted"
    /\ pc' = [pc EXCEPT ![h] = "done"]
    /\ doneAt' = [doneAt EXCEPT ![h] = clock]
    /\ UNCHANGED <<clock, sent, message, decision, seen, decidedSince, raced>>

\* The application notes a request, and when the next one may come
HandleRequest(h) ==
    LET m == message[h]
        id == TrustOf(m)
    IN
    /\ Handled(h)
    /\ m.type = "TRUST_REQ"
    /\ trustStore' = [trustStore EXCEPT ![Lower[m.to]][id] =
                         Asked(@, m.from, m.to, clock + CoolingOff)]

\* The application notes the answer to its request
HandleResponse(h) ==
    LET m == message[h]
        p == Lower[m.to]
        id == TrustOf(m)
        answer == decryptVerify(m.from, m, p).document
    IN
    /\ Handled(h)
    /\ m.type = "TRUST_RES"
    /\ trustStore' = [trustStore EXCEPT ![p][id] = Decided(@, answer)]

HandleDocument(h) ==
    /\ Handled(h)
    /\ message[h].type = "BTPS_DOC"
    /\ UNCHANGED trustStore

Tick ==
    /\ clock < MaxClock
    /\ clock' = clock + 1
    /\ UNCHANGED <<trustStore, sent, pc, message, history>>

Next ==
    \/ \E p \in Parties, to \in Identities :
          AskForTrust(p, to) \/ SendDocument(p, to)
    \/ \E id \in TrustIds, choice \in Choices : Decide(id, choice)
    \/ \E h \in Handlings :
          \/ \E m \in sent : Verify(h, m)
          \/ HandleRequest(h) \/ HandleResponse(h) \/ HandleDocument(h)
    \/ Tick

Spec == Init /\ [][Next]_vars

----------------------------------------------------------------------------
(* Properties.                                                             *)

Passed(h, type) == pc[h] \in {"trusted", "done"} /\ message[h].type = type

\* A document passes only while its receiver's last word on its sender is an
\* acceptance that has not run out: never on the strength of a trust the
\* other way round, nor of what the receiver was told about its own requests
\* (verifyTrust, computeTrustId).
DocumentsAreWanted ==
    \A h \in Handlings : Passed(h, "BTPS_DOC") =>
        LET then == seen[h].decision
        IN  /\ then # None /\ then.status = "accepted"
            /\ then.expiresAt # None => then.expiresAt >= seen[h].at

\* Whom the receiver has blocked asks no more, and who has asked asks again
\* only after the cooling-off, unless the receiver has decided meanwhile.
\* The verdict on a request, its noting and a decision do not exclude each
\* other, which may lose a decision (validateTrustRequest).
RequestsKeepDistance ==
    \A h \in Handlings :
        Passed(h, "TRUST_REQ") /\ TrustOf(message[h]) \notin raced =>
            /\ seen[h].decision # None => seen[h].decision.status # "blocked"
            /\ \A g \in Handlings :
                  /\ g < h /\ pc[g] = "done" /\ message[g].type = "TRUST_REQ"
                  /\ TrustOf(message[g]) = TrustOf(message[h])
                  /\ g \notin decidedSince
                  => doneAt[g] + CoolingOff <= seen[h].at

\* Once answered, a sender's record is changed by nothing but its own next
\* request, however often and however late the answers arrive, as long as
\* they are not handled at the same time (validateTrustResponse).
AnswersSettle ==
    [][\A id \in TrustIds :
          LET old == trustStore[id[1]][id]
              new == trustStore'[id[1]][id]
          IN  old # None /\ id[1] # id[2] /\ id \notin raced /\ new # old =>
                 old.status = "pending" \/ new.status = "pending"]_vars
=============================================================================
