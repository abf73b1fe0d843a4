------------------------ MODULE BtpsArtifactProofs ------------------------
(***************************************************************************)
(* What holds of the artifacts that identities exchange: that what is      *)
(* signed and sealed is read, what the trust policy lets pass, and what an *)
(* agent makes and sends.                                                  *)
(*                                                                         *)
(* Each of the two records of a trust has its own half of the invariant:   *)
(* the receiver's follows its decisions, and the sender's is pending as    *)
(* long as an answer to it is being handled.  A trust is at its receiver   *)
(* under id[2] and at its sender under id[1], so the proofs rest on        *)
(* nobody having a trust with itself.                                      *)
(*                                                                         *)
(* Of the agent the invariant says for each place where a command waits    *)
(* what it has found out, made and sent.                                   *)
(***************************************************************************)
EXTENDS BtpsTrust, BtpsAgent, TLAPS

----------------------------------------------------------------------------
(* The policy.                                                             *)

\* What the policy of the sender lets it ask for, the same record would let
\* pass at the receiver: canRetryTrust() is never laxer than
\* validateTrustRequest().
THEOREM RetryIsAllowed ==
    ASSUME NEW trust \in Records \cup {None}, NEW now \in Nat,
           canRetryTrust(trust, now)
    PROVE  validateTrustRequest(trust, now)
BY DEF canRetryTrust, validateTrustRequest, isTrustActive

----------------------------------------------------------------------------
(* Signing and sealing.                                                    *)

\* From what signEncrypt() has signed and sealed, decryptVerify() with the keys
\* of the two ends gives the document back and leaves the other fields; with
\* any other key of a receiver it gives nothing.  This holds for any fields,
\* keys and options, but not for a text that is to be sealed, which
\* JSON.parse() refuses.
THEOREM SealedIsRead ==
    ASSUME Text # None, NEW Fields, NEW plain, plain = [x \in Fields |-> plain[x]],
           {"document", "encryption", "signature", "selector"} \subseteq Fields,
           plain.document # None, plain.signature = None,
           NEW sender, NEW receiver, receiver # None, NEW to,
           NEW encrypting \in BOOLEAN, encrypting => ~plain.document.text,
           signEncrypt(to, receiver, Key(sender), plain, encrypting) # None
    PROVE  LET artifact == signEncrypt(to, receiver, Key(sender), plain, encrypting)
               Read(pem) == decryptVerify(sender, artifact, pem)
           IN  /\ \A x \in Fields : x \notin {"encryption", "signature"} =>
                     Read(receiver)[x] = plain[x]
               /\ encrypting /\ to # None /\ plain.selector # None =>
                     /\ artifact.document = Text
                     /\ \A pem : pem \notin {None, receiver} => Read(pem) = None
<1> DEFINE sealing == (to # None /\ plain.selector # None) /\ encrypting
           encryption == encryptBtpPayload(plain.document, receiver)
           docToSign == IF sealing
                        THEN [plain EXCEPT !.document = Text,
                                             !.encryption = encryption]
                        ELSE [plain EXCEPT !.encryption = None]
           signature == signBtpPayload(docToSign, Key(sender))
           artifact == signEncrypt(to, receiver, Key(sender), plain, encrypting)
<1>1. /\ artifact = [docToSign EXCEPT !.signature = signature]
      /\ signature # None /\ (sealing => encryption # None)
  BY Zenon DEF signEncrypt
<1>2. /\ signature = [fingerprint |-> sender, value |-> [key |-> sender, of |-> docToSign]]
      /\ getFingerprintFromPem(sender) = sender
  BY <1>1 DEF signBtpPayload, getFingerprintFromPem, Key
<1>3. sealing => encryption = [encryptedKey |-> receiver, sealed |-> plain.document]
  BY <1>1 DEF encryptBtpPayload
<1> HIDE DEF signature, encryption
<1>4. /\ docToSign = [x \in Fields |-> docToSign[x]]
      /\ docToSign.signature = None
      /\ docToSign.document = IF sealing THEN Text ELSE plain.document
      /\ docToSign.encryption = IF sealing THEN encryption ELSE None
      /\ \A x \in Fields : x \notin {"document", "encryption"} => docToSign[x] = plain[x]
  OBVIOUS
<1> HIDE DEF docToSign, sealing, artifact
<1>5. /\ artifact = [x \in Fields |-> artifact[x]]
      /\ artifact.signature = signature
      /\ \A x \in Fields : x # "signature" => artifact[x] = docToSign[x]
  BY <1>1, <1>4
<1>6. [artifact EXCEPT !.signature = None] = docToSign
  BY <1>4, <1>5
<1>7. verifySignature([artifact EXCEPT !.signature = None], artifact.signature, sender)
  BY <1>2, <1>5, <1>6 DEF verifySignature
<1>8. /\ artifact.document = IF sealing THEN Text ELSE plain.document
      /\ artifact.encryption = IF sealing THEN encryption ELSE None
  BY <1>4, <1>5
<1> DEFINE Opened(pem) == artifact.encryption # None /\ pem # None
                          /\ artifact.document # None /\ artifact.document.text
           Contents(pem) == IF Opened(pem) THEN decryptBtpPayload(artifact.encryption, pem)
                            ELSE artifact.document
<1>9. \A pem : decryptVerify(sender, artifact, pem) =
                  IF Opened(pem) /\ Contents(pem) = None THEN None
                  ELSE [artifact EXCEPT !.document = Contents(pem)]
  BY <1>7, Zenon DEF decryptVerify
<1>10. Contents(receiver) = plain.document
  <2>1. CASE sealing
    <3>1. encrypting /\ ~plain.document.text
      BY <2>1 DEF sealing
    <3>2. artifact.document = Text /\ artifact.encryption = encryption
      BY <1>8, <2>1
    <3>3. encryption # None /\ encryption.encryptedKey = receiver
          /\ encryption.sealed = plain.document
      BY <1>1, <1>3, <2>1
    <3>4. Text.text
      BY DEF Text
    <3> QED
      BY <3>1, <3>2, <3>3, <3>4 DEF decryptBtpPayload
  <2>2. CASE ~sealing
    BY <1>8, <2>2
  <2> QED
    BY <2>1, <2>2
<1>11. ASSUME NEW x \in Fields, x \notin {"encryption", "signature"}
       PROVE  decryptVerify(sender, artifact, receiver)[x] = plain[x]
  <2>1. decryptVerify(sender, artifact, receiver)
          = [artifact EXCEPT !.document = plain.document]
    BY <1>9, <1>10
  <2> QED
    BY <2>1, <1>4, <1>5, <1>11
<1>12. ASSUME sealing, NEW pem, pem \notin {None, receiver}
       PROVE  artifact.document = Text /\ decryptVerify(sender, artifact, pem) = None
  <2>1. artifact.document = Text /\ artifact.encryption = encryption
    BY <1>8, <1>12
  <2>2. encryption # None /\ encryption.encryptedKey = receiver
    BY <1>1, <1>3, <1>12
  <2>3. Text.text
    BY DEF Text
  <2>4. Opened(pem) /\ Contents(pem) = None
    BY <2>1, <2>2, <2>3, <1>12 DEF decryptBtpPayload
  <2> QED
    BY <2>1, <2>4, <1>9, Zenon
<1> QED
  BY <1>11, <1>12 DEF artifact, sealing

----------------------------------------------------------------------------
(* What an artifact is from and to.                                        *)

IsLetter(m) ==
    /\ m.from \in Identities /\ m.to \in Identities
    /\ Lower[m.from] # Lower[m.to]

LEMMA PartyIsIdentity ==
    ASSUME NEW p \in Parties
    PROVE  p \in Identities /\ Lower[p] = p
BY LowerAssumption DEF Parties

\* signEncrypt() leaves the ends and the type of an artifact as they are
LEMMA LetterEnds ==
    ASSUME NEW from, NEW to, NEW type, NEW document,
           Letter(from, to, type, document) # None
    PROVE  /\ Letter(from, to, type, document).from = from
           /\ Letter(from, to, type, document).to = to
           /\ Letter(from, to, type, document).type = type
<1> DEFINE Ends(r) == /\ {"from", "to", "type"} \subseteq DOMAIN r
                      /\ r.from = from /\ r.to = to /\ r.type = type
           plain == [type |-> type, from |-> from, to |-> to,
                       selector |-> "btps1", document |-> document,
                       encryption |-> None, signature |-> None]
<1>1. Ends(plain)
  OBVIOUS
<1>2. ASSUME NEW r, Ends(r), NEW d, NEW e
      PROVE  /\ Ends([r EXCEPT !.encryption = e])
             /\ Ends([r EXCEPT !.signature = e])
             /\ Ends([r EXCEPT !.document = d])
  BY <1>2
<1>3. ASSUME NEW r, Ends(r), NEW d, NEW e
      PROVE  Ends([r EXCEPT !.document = d, !.encryption = e])
  BY <1>3, <1>2
<1> HIDE DEF Ends
<1> DEFINE sealing == to # None /\ plain.selector # None
           encryption == encryptBtpPayload(plain.document, Lower[to])
           docToSign == IF sealing /\ TRUE
                        THEN [plain EXCEPT !.document = Text,
                                             !.encryption = encryption]
                        ELSE [plain EXCEPT !.encryption = None]
           signature == signBtpPayload(docToSign, Key(from))
<1>4. Letter(from, to, type, document) = [docToSign EXCEPT !.signature = signature]
  BY Zenon DEF Letter, signEncrypt
<1> HIDE DEF plain, encryption
<1>5. Ends(docToSign)
  BY <1>1, <1>2, <1>3
<1> HIDE DEF docToSign, signature
<1>6. Ends([docToSign EXCEPT !.signature = signature])
  BY <1>2, <1>5
<1> QED
  BY <1>4, <1>6 DEF Ends

----------------------------------------------------------------------------
(* What the variables look like.                                           *)

HasFields(trust) ==
    {"senderId", "status", "expiresAt", "retryAfterDate"} \subseteq DOMAIN trust

Shape ==
    /\ trustStore = [p \in Parties |-> [id \in TrustIds |-> trustStore[p][id]]]
    /\ \A p \in Parties, id \in TrustIds :
          trustStore[p][id] # None => HasFields(trustStore[p][id])
    /\ decision = [id \in TrustIds |-> decision[id]]
    /\ pc \in [Handlings -> {"idle", "trusted", "refused", "done"}]
    /\ message = [h \in Handlings |-> message[h]]
    /\ seen = [h \in Handlings |-> seen[h]]
    /\ doneAt = [h \in Handlings |-> doneAt[h]]
    /\ clock \in Nat

\* Nobody writes to itself
Letters ==
    /\ \A m \in sent : IsLetter(m)
    /\ \A h \in Handlings : pc[h] # "idle" => IsLetter(message[h])

\* The record at the receiver of a trust is of another's request
Receivers ==
    \A id \in TrustIds : LET trust == trustStore[id[2]][id] IN
        trust # None =>
            /\ id[1] # id[2]
            /\ trust \in Records /\ Lower[trust.senderId] = id[1]

\* An answer is handled at a record that was there when it passed
WaitedFor ==
    \A h \in Handlings : pc[h] = "trusted" /\ message[h].type = "TRUST_RES" =>
        HasFields(trustStore[Lower[message[h].to]][TrustOf(message[h])])

Basics == Shape /\ Letters /\ Receivers /\ WaitedFor

LEMMA TrustOfLetter ==
    ASSUME NEW m, IsLetter(m)
    PROVE  /\ TrustOf(m) \in TrustIds
           /\ Lower[m.to] \in Parties /\ Lower[m.from] \in Parties
           /\ TrustOf(m)[1] # TrustOf(m)[2]
           /\ m.type = "TRUST_RES" => TrustOf(m) = <<Lower[m.to], Lower[m.from]>>
           /\ m.type # "TRUST_RES" => TrustOf(m) = <<Lower[m.from], Lower[m.to]>>
BY DEF IsLetter, TrustOf, computeTrustId, TrustIds, Parties

\* What a write of one record does
LEMMA StoreWrite ==
    ASSUME Shape, NEW p \in Parties, NEW id \in TrustIds, NEW trust,
           HasFields(trust),
           trustStore' = [trustStore EXCEPT ![p][id] = trust]
    PROVE  /\ trustStore' = [q \in Parties |-> [i \in TrustIds |-> trustStore'[q][i]]]
           /\ trustStore'[p][id] = trust
           /\ \A q \in Parties, i \in TrustIds :
                 q # p \/ i # id => trustStore'[q][i] = trustStore[q][i]
           /\ \A q \in Parties, i \in TrustIds :
                 /\ trustStore'[q][i] # None => HasFields(trustStore'[q][i])
                 /\ HasFields(trustStore[q][i]) => HasFields(trustStore'[q][i])
<1>1. trustStore = [q \in Parties |-> [i \in TrustIds |-> trustStore[q][i]]]
  BY DEF Shape
<1>2. /\ trustStore' = [q \in Parties |-> [i \in TrustIds |-> trustStore'[q][i]]]
      /\ trustStore'[p][id] = trust
      /\ \A q \in Parties, i \in TrustIds :
            q # p \/ i # id => trustStore'[q][i] = trustStore[q][i]
  BY <1>1
<1> QED
  BY <1>2 DEF Shape

\* A write keeps Receivers when what it writes at a receiver is of its sender
LEMMA ReceiversWrite ==
    ASSUME Basics, NEW p \in Parties, NEW id \in TrustIds, NEW trust,
           HasFields(trust),
           trustStore' = [trustStore EXCEPT ![p][id] = trust],
           id[1] # id[2],
           p = id[2] => trust \in Records /\ Lower[trust.senderId] = id[1]
    PROVE  Receivers'
<1>1. /\ trustStore'[p][id] = trust
      /\ \A q \in Parties, i \in TrustIds :
            q # p \/ i # id => trustStore'[q][i] = trustStore[q][i]
  <2>1. trustStore = [q \in Parties |-> [i \in TrustIds |-> trustStore[q][i]]]
    BY DEF Basics, Shape
  <2>2. trustStore'[p] = [trustStore[p] EXCEPT ![id] = trust]
    BY <2>1
  <2>3. \A q \in Parties : q # p => trustStore'[q] = trustStore[q]
    BY <2>1
  <2> QED
    BY <2>1, <2>2, <2>3
<1>2. \A i \in TrustIds : i[2] \in Parties
  BY DEF TrustIds
<1> QED
  BY <1>1, <1>2 DEF Basics, Receivers

LEMMA WaitedForWrite ==
    ASSUME Basics, NEW p \in Parties, NEW id \in TrustIds, NEW trust,
           HasFields(trust),
           trustStore' = [trustStore EXCEPT ![p][id] = trust],
           message' = message,
           \A h \in Handlings : pc'[h] = "trusted" => pc[h] = "trusted"
    PROVE  WaitedFor'
<1>1. Shape /\ Letters /\ WaitedFor
  BY DEF Basics
<1>2. \A q \in Parties, i \in TrustIds :
         HasFields(trustStore[q][i]) => HasFields(trustStore'[q][i])
  BY <1>1, StoreWrite
<1> SUFFICES ASSUME NEW h \in Handlings, pc'[h] = "trusted",
                    message[h].type = "TRUST_RES"
             PROVE  HasFields(trustStore'[Lower[message[h].to]][TrustOf(message[h])])
  BY DEF WaitedFor, TrustOf
<1>3. pc[h] = "trusted" /\ IsLetter(message[h])
  BY <1>1 DEF Letters
<1>4. /\ Lower[message[h].to] \in Parties /\ TrustOf(message[h]) \in TrustIds
      /\ HasFields(trustStore[Lower[message[h].to]][TrustOf(message[h])])
  BY <1>1, <1>3, TrustOfLetter DEF WaitedFor
<1> QED
  BY <1>2, <1>4

LEMMA AskedFields ==
    ASSUME NEW trust, NEW s, NEW r, NEW date, trust # None => HasFields(trust)
    PROVE  /\ HasFields(Asked(trust, s, r, date))
           /\ Asked(trust, s, r, date).status = "pending"
           /\ Asked(trust, s, r, date).retryAfterDate = date
           /\ Asked(trust, s, r, date).senderId
                = IF trust = None THEN s ELSE trust.senderId
BY DEF Asked, HasFields

LEMMA AskedIsRecord ==
    ASSUME NEW trust \in Records \cup {None}, NEW s \in Identities,
           NEW r \in Identities, NEW date \in Dates
    PROVE  Asked(trust, s, r, date) \in Records
BY DEF Asked, Records, Statuses, Dates

LEMMA DecidedIsRecord ==
    ASSUME NEW trust \in Records, NEW answer \in Answers
    PROVE  Decided(trust, answer) \in Records
BY DEF Decided, Records, Answers

LEMMA AnswerIsAnswer ==
    ASSUME clock \in Nat, NEW choice \in Choices
    PROVE  Answer(choice.status, Date(choice.expiresIn), Date(choice.retryIn))
             \in Answers
<1>1. /\ choice.status \in Statuses
      /\ choice.expiresIn \in Dates /\ choice.retryIn \in Dates
  BY ChoicesAssumption
<1>2. Date(choice.expiresIn) \in Dates /\ Date(choice.retryIn) \in Dates
  BY <1>1 DEF Date, Dates
<1> QED
  BY <1>1, <1>2 DEF Answer, Answers

LEMMA DecidedFields ==
    ASSUME NEW trust, NEW answer, HasFields(trust)
    PROVE  /\ HasFields(Decided(trust, answer))
           /\ Decided(trust, answer).status = answer.status
           /\ Decided(trust, answer).expiresAt = answer.expiresAt
           /\ Decided(trust, answer).senderId = trust.senderId
BY DEF Decided, HasFields

LEMMA BasicsInit == Init => Basics
<1> SUFFICES ASSUME Init PROVE Basics
  OBVIOUS
<1>1. Shape
  BY DEF Init, Shape
<1>2. Letters
  BY DEF Init, Letters
<1>3. Receivers
  BY DEF Init, Receivers, TrustIds
<1>4. WaitedFor
  BY DEF Init, WaitedFor
<1> QED
  BY <1>1, <1>2, <1>3, <1>4 DEF Basics

\* A letter is sent, and then known to be one
LEMMA LetterSent ==
    ASSUME NEW from \in Parties, NEW to \in Identities, NEW type, NEW document,
           Lower[to] # from, Letters, Post(Letter(from, to, type, document)),
           UNCHANGED <<pc, message>>
    PROVE  Letters'
<1>1. IsLetter(Letter(from, to, type, document))
  BY LetterEnds, PartyIsIdentity DEF Post, IsLetter
<1> QED
  BY <1>1 DEF Letters, Post

LEMMA BasicsStep == Basics /\ [Next]_vars => Basics'
<1> SUFFICES ASSUME Basics, [Next]_vars PROVE Basics'
  OBVIOUS
<1> USE DEF Basics
<1>1. ASSUME NEW p \in Parties, NEW to \in Identities, AskForTrust(p, to)
      PROVE  Basics'
  <2> DEFINE id == computeTrustId(p, to)
  <2>1. id \in TrustIds /\ id = <<p, Lower[to]>> /\ p # Lower[to]
    BY <1>1, PartyIsIdentity DEF computeTrustId, TrustIds, Parties, AskForTrust
  <2>2. trustStore' = [trustStore EXCEPT ![p][id] = Asked(trustStore[p][id], p, to, None)]
    BY <1>1 DEF AskForTrust
  <2>3. HasFields(Asked(trustStore[p][id], p, to, None))
    BY <2>1, AskedFields DEF Shape
  <2> HIDE DEF id
  <2>4. Shape'
    <3>1. UNCHANGED <<clock, pc, message, decision, seen, doneAt>>
      BY <1>1 DEF AskForTrust, history
    <3>2. /\ trustStore' = [q \in Parties |-> [i \in TrustIds |-> trustStore'[q][i]]]
          /\ \A q \in Parties, i \in TrustIds :
                trustStore'[q][i] # None => HasFields(trustStore'[q][i])
      BY <2>1, <2>2, <2>3, StoreWrite
    <3> QED
      BY <3>1, <3>2 DEF Shape
  <2>5. Letters'
    BY <1>1, LetterSent DEF AskForTrust
  <2>6. Receivers'
    BY <2>1, <2>2, <2>3, ReceiversWrite
  <2>7. WaitedFor'
    <3>1. UNCHANGED <<pc, message>>
      BY <1>1 DEF AskForTrust
    <3> QED
      BY <2>1, <2>2, <2>3, <3>1, WaitedForWrite
  <2> QED
    BY <2>4, <2>5, <2>6, <2>7
<1>2. ASSUME NEW p \in Parties, NEW to \in Identities, SendDocument(p, to)
      PROVE  Basics'
  <2>1. Letters'
    BY <1>2, LetterSent DEF SendDocument
  <2>2. WaitedFor'
    BY <1>2 DEF SendDocument, WaitedFor, TrustOf, computeTrustId
  <2> QED
    BY <1>2, <2>1, <2>2 DEF SendDocument, Shape, Receivers, history
<1>3. ASSUME NEW id \in TrustIds, NEW choice \in Choices, Decide(id, choice)
      PROVE  Basics'
  <2> DEFINE p == id[2]
             trust == trustStore[p][id]
             answer == Answer(choice.status, Date(choice.expiresIn), Date(choice.retryIn))
  <2>1. /\ p \in Parties /\ trust # None /\ p # id[1]
        /\ trust \in Records /\ Lower[trust.senderId] = id[1]
    BY <1>3 DEF Decide, Receivers, TrustIds
  <2>2. trustStore' = [trustStore EXCEPT ![p][id] = Decided(trustStore[p][id], answer)]
    BY <1>3 DEF Decide
  <2>3. /\ HasFields(Decided(trust, answer))
        /\ Decided(trust, answer).senderId = trust.senderId
        /\ Decided(trust, answer) \in Records
    BY <2>1, AnswerIsAnswer, DecidedFields, DecidedIsRecord DEF Shape
  <2>4. decision' = [decision EXCEPT ![id] = answer]
    BY <1>3 DEF Decide
  <2>5. UNCHANGED <<clock, pc, message, seen, doneAt>>
    BY <1>3 DEF Decide
  <2>6. Letters'
    <3>1. Post(Letter(p, trust.senderId, "TRUST_RES", answer))
      BY <1>3 DEF Decide
    <3>2. trust.senderId \in Identities
      BY <2>1 DEF Records
    <3> HIDE DEF p, trust, answer
    <3> QED
      BY <2>1, <2>5, <3>1, <3>2, LetterSent
  <2> HIDE DEF answer
  <2>7. Shape'
    <3>1. /\ trustStore' = [q \in Parties |-> [i \in TrustIds |-> trustStore'[q][i]]]
          /\ \A q \in Parties, i \in TrustIds :
                trustStore'[q][i] # None => HasFields(trustStore'[q][i])
      BY <2>1, <2>2, <2>3, StoreWrite
    <3> QED
      BY <2>4, <2>5, <3>1 DEF Shape
  <2>8. Receivers'
    BY <2>1, <2>2, <2>3, ReceiversWrite
  <2>9. WaitedFor'
    BY <2>1, <2>2, <2>3, <2>5, WaitedForWrite
  <2> QED
    BY <2>6, <2>7, <2>8, <2>9
<1>4. ASSUME NEW h \in Handlings, NEW m \in sent, Verify(h, m)
      PROVE  Basics'
  <2>1. Shape'
    BY <1>4 DEF Verify, Shape
  <2>2. Letters'
    BY <1>4 DEF Verify, Letters, Shape
  <2>3. Receivers'
    BY <1>4 DEF Verify, Receivers
  <2>4. WaitedFor'
    <3>1. IsLetter(m)
      BY <1>4 DEF Letters
    <3>2. ASSUME m.type = "TRUST_RES", pc'[h] = "trusted"
          PROVE  HasFields(trustStore[Lower[m.to]][TrustOf(m)])
      <4>1. verifyTrust(m, trustStore[Lower[m.to]], clock)
        BY <1>4, <3>2 DEF Verify, Shape
      <4>2. validateTrustResponse(m.from, m.to, trustStore[Lower[m.to]])
        BY <3>2, <4>1 DEF verifyTrust
      <4> QED
        BY <3>1, <3>2, <4>2, TrustOfLetter
        DEF validateTrustResponse, TrustOf, Shape
    <3> QED
      BY <1>4, <3>2 DEF Verify, WaitedFor, Shape, TrustOf, computeTrustId
  <2> QED
    BY <2>1, <2>2, <2>3, <2>4
<1>5. ASSUME NEW h \in Handlings, HandleRequest(h)
      PROVE  Basics'
  <2> DEFINE m == message[h]
             p == Lower[m.to]
             id == TrustOf(m)
             date == clock + CoolingOff
  <2>1. IsLetter(m) /\ m.type = "TRUST_REQ"
    BY <1>5 DEF HandleRequest, Handled, Letters
  <2>2. /\ id \in TrustIds /\ p \in Parties
        /\ id = <<Lower[m.from], p>> /\ p # id[1]
    BY <2>1, TrustOfLetter
  <2>3. trustStore' = [trustStore EXCEPT ![p][id] =
                          Asked(trustStore[p][id], m.from, m.to, date)]
    BY <1>5 DEF HandleRequest
  <2>4. /\ HasFields(Asked(trustStore[p][id], m.from, m.to, date))
        /\ Asked(trustStore[p][id], m.from, m.to, date).senderId
             = IF trustStore[p][id] = None THEN m.from ELSE trustStore[p][id].senderId
    BY <2>2, AskedFields DEF Shape
  <2>5. /\ pc' = [pc EXCEPT ![h] = "done"] /\ doneAt' = [doneAt EXCEPT ![h] = clock]
        /\ pc[h] = "trusted"
        /\ UNCHANGED <<clock, sent, message, decision, seen>>
    BY <1>5 DEF HandleRequest, Handled
  <2>6. Letters'
    BY <2>5 DEF Letters, Shape, IsLetter
  <2> HIDE DEF id, date
  <2>7. Shape'
    <3>1. /\ trustStore' = [q \in Parties |-> [i \in TrustIds |-> trustStore'[q][i]]]
          /\ \A q \in Parties, i \in TrustIds :
                trustStore'[q][i] # None => HasFields(trustStore'[q][i])
      BY <2>2, <2>3, <2>4, StoreWrite
    <3> QED
      BY <2>5, <3>1 DEF Shape
  <2>8. Receivers'
    <3>1. id[1] # id[2]
      BY <2>2
    <3>2. trustStore[p][id] = None \/ trustStore[p][id] \in Records
      BY <2>2 DEF Receivers
    <3>3. date \in Dates
      BY CoolingOffAssumption DEF date, Dates, Shape
    <3>4. LET asked == Asked(trustStore[p][id], m.from, m.to, date)
          IN  asked \in Records /\ Lower[asked.senderId] = id[1]
      BY <2>1, <2>2, <2>4, <3>2, <3>3, AskedIsRecord DEF Receivers, IsLetter
    <3> QED
      BY <2>2, <2>3, <2>4, <3>1, <3>4, ReceiversWrite
  <2>9. WaitedFor'
    BY <2>2, <2>3, <2>4, <2>5, WaitedForWrite DEF Shape
  <2> QED
    BY <2>6, <2>7, <2>8, <2>9
<1>6. ASSUME NEW h \in Handlings, HandleResponse(h)
      PROVE  Basics'
  <2> DEFINE m == message[h]
             p == Lower[m.to]
             id == TrustOf(m)
             answer == decryptVerify(m.from, m, p).document
             decided == Decided(trustStore[p][id], answer)
  <2>1. IsLetter(m) /\ m.type = "TRUST_RES" /\ pc[h] = "trusted"
    BY <1>6 DEF HandleResponse, Handled, Letters
  <2>2. /\ id \in TrustIds /\ p \in Parties
        /\ id[1] = p /\ id[1] # id[2]
    BY <2>1, TrustOfLetter
  <2>3. trustStore' = [trustStore EXCEPT ![p][id] = decided]
    BY <1>6 DEF HandleResponse
  <2>4. HasFields(decided)
    BY <1>6, <2>1, DecidedFields DEF WaitedFor
  <2>5. /\ pc' = [pc EXCEPT ![h] = "done"] /\ doneAt' = [doneAt EXCEPT ![h] = clock]
        /\ pc[h] = "trusted"
        /\ UNCHANGED <<clock, sent, message, decision, seen>>
    BY <1>6 DEF HandleResponse, Handled
  <2>6. Letters'
    BY <2>5 DEF Letters, Shape, IsLetter
  <2> HIDE DEF id, decided
  <2>7. Shape'
    <3>1. /\ trustStore' = [q \in Parties |-> [i \in TrustIds |-> trustStore'[q][i]]]
          /\ \A q \in Parties, i \in TrustIds :
                trustStore'[q][i] # None => HasFields(trustStore'[q][i])
      BY <2>2, <2>3, <2>4, StoreWrite
    <3> QED
      BY <2>5, <3>1 DEF Shape
  <2>8. Receivers'
    BY <2>2, <2>3, <2>4, ReceiversWrite
  <2>9. WaitedFor'
    BY <2>2, <2>3, <2>4, <2>5, WaitedForWrite DEF Shape
  <2> QED
    BY <2>6, <2>7, <2>8, <2>9
<1>7. ASSUME NEW h \in Handlings, HandleDocument(h)
      PROVE  Basics'
  <2>1. /\ pc' = [pc EXCEPT ![h] = "done"] /\ pc[h] = "trusted"
        /\ doneAt' = [doneAt EXCEPT ![h] = clock]
        /\ UNCHANGED <<clock, trustStore, sent, message, decision, seen>>
    BY <1>7 DEF HandleDocument, Handled
  <2>2. Shape'
    BY <2>1 DEF Shape
  <2>3. Letters'
    BY <2>1 DEF Shape, Letters, IsLetter
  <2>4. Receivers' /\ WaitedFor'
    BY <2>1 DEF Shape, Receivers, WaitedFor, TrustOf, computeTrustId
  <2> QED
    BY <2>2, <2>3, <2>4
<1>8. CASE Tick
  <2>1. clock' \in Nat /\ UNCHANGED <<trustStore, sent, pc, message, history>>
    BY <1>8 DEF Tick, Shape
  <2> QED
    BY <2>1 DEF Shape, Letters, IsLetter, Receivers, history, WaitedFor,
                TrustOf, computeTrustId
<1>9. CASE UNCHANGED vars
  BY <1>9 DEF vars, history, Shape, Letters, IsLetter, Receivers, WaitedFor,
              TrustOf, computeTrustId
<1> QED
  BY <1>1, <1>2, <1>3, <1>4, <1>5, <1>6, <1>7, <1>8, <1>9 DEF Next

THEOREM BasicsCorrect == Spec => []Basics
BY BasicsInit, BasicsStep, PTL DEF Spec

----------------------------------------------------------------------------
(* What each action does to the two records of a trust.                    *)

AtSender(id)   == trustStore[id[1]][id]
AtReceiver(id) == trustStore[id[2]][id]

LEMMA SenderWrite ==
    ASSUME Basics, NEW id \in TrustIds, id[1] # id[2], NEW trust,
           HasFields(trust),
           trustStore' = [trustStore EXCEPT ![id[1]][id] = trust]
    PROVE  /\ AtSender(id)' = trust
           /\ \A i \in TrustIds : i # id => AtSender(i)' = AtSender(i)
           /\ \A i \in TrustIds : AtReceiver(i)' = AtReceiver(i)
<1>1. \A i \in TrustIds : i[1] \in Parties /\ i[2] \in Parties
  BY DEF TrustIds
<1>2. Shape
  BY DEF Basics
<1>3. PICK p \in Parties : p = id[1]
  BY <1>1
<1>4. trustStore' = [trustStore EXCEPT ![p][id] = trust]
  BY <1>3
<1>5. trustStore'[p][id] = trust
  BY ONLY <1>2, <1>4, p \in Parties, id \in TrustIds, HasFields(trust), StoreWrite
<1>6. \A q \in Parties, i \in TrustIds :
         q # p \/ i # id => trustStore'[q][i] = trustStore[q][i]
  BY ONLY <1>2, <1>4, p \in Parties, id \in TrustIds, HasFields(trust), StoreWrite
<1> QED
  BY <1>1, <1>3, <1>5, <1>6 DEF AtSender, AtReceiver

LEMMA ReceiverWrite ==
    ASSUME Basics, NEW id \in TrustIds, id[1] # id[2], NEW trust,
           HasFields(trust),
           trustStore' = [trustStore EXCEPT ![id[2]][id] = trust]
    PROVE  /\ AtReceiver(id)' = trust
           /\ \A i \in TrustIds : i # id => AtReceiver(i)' = AtReceiver(i)
           /\ \A i \in TrustIds : i[1] # i[2] => AtSender(i)' = AtSender(i)
<1>1. \A i \in TrustIds : i[1] \in Parties /\ i[2] \in Parties
  BY DEF TrustIds
<1>2. Shape
  BY DEF Basics
<1>3. PICK p \in Parties : p = id[2]
  BY <1>1
<1>4. trustStore' = [trustStore EXCEPT ![p][id] = trust]
  BY <1>3
<1>5. trustStore'[p][id] = trust
  BY ONLY <1>2, <1>4, p \in Parties, id \in TrustIds, HasFields(trust), StoreWrite
<1>6. \A q \in Parties, i \in TrustIds :
         q # p \/ i # id => trustStore'[q][i] = trustStore[q][i]
  BY ONLY <1>2, <1>4, p \in Parties, id \in TrustIds, HasFields(trust), StoreWrite
<1> QED
  BY <1>1, <1>3, <1>5, <1>6 DEF AtSender, AtReceiver

LEMMA AskForTrustEffect ==
    ASSUME Basics, NEW p \in Parties, NEW to \in Identities, AskForTrust(p, to)
    PROVE  /\ UNCHANGED <<clock, pc, message, history>>
           /\ \A i \in TrustIds : AtReceiver(i)' = AtReceiver(i)
           /\ \A i \in TrustIds : \/ AtSender(i)' = AtSender(i)
                                  \/ AtSender(i)'.status = "pending"
<1> DEFINE id == <<p, Lower[to]>>
           trust == Asked(trustStore[p][id], p, to, None)
<1>1. id \in TrustIds /\ id[1] = p /\ id[1] # id[2]
  BY DEF TrustIds, Parties, AskForTrust
<1>2. trustStore' = [trustStore EXCEPT ![id[1]][id] = trust]
  <2>1. trustStore' = [trustStore EXCEPT ![p][id] = trust]
    BY PartyIsIdentity, Zenon DEF AskForTrust, computeTrustId
  <2> QED
    BY <1>1, <2>1
<1>3. HasFields(trust) /\ trust.status = "pending"
  BY <1>1, AskedFields DEF Basics, Shape
<1>4. UNCHANGED <<clock, pc, message, history>>
  BY DEF AskForTrust
<1> HIDE DEF id, trust
<1>5. /\ AtSender(id)' = trust
      /\ \A i \in TrustIds : i # id => AtSender(i)' = AtSender(i)
      /\ \A i \in TrustIds : AtReceiver(i)' = AtReceiver(i)
  BY <1>1, <1>2, <1>3, SenderWrite
<1> QED
  BY <1>3, <1>4, <1>5

LEMMA DecideEffect ==
    ASSUME Basics, NEW id \in TrustIds, NEW choice \in Choices, Decide(id, choice)
    PROVE  /\ UNCHANGED <<clock, pc, message, seen, doneAt>>
           /\ decision[id]' \in Answers
           /\ \A i \in TrustIds : i # id => decision[i]' = decision[i]
           /\ AtReceiver(id)' # None
           /\ AtReceiver(id)'.status = decision[id]'.status
           /\ AtReceiver(id)'.expiresAt = decision[id]'.expiresAt
           /\ \A i \in TrustIds : i # id => AtReceiver(i)' = AtReceiver(i)
           /\ \A i \in TrustIds : i[1] # i[2] => AtSender(i)' = AtSender(i)
<1> DEFINE answer == Answer(choice.status, Date(choice.expiresIn), Date(choice.retryIn))
           trust == Decided(trustStore[id[2]][id], answer)
<1>1. UNCHANGED <<clock, pc, message, seen, doneAt>>
  BY DEF Decide
<1>2. decision' = [decision EXCEPT ![id] = answer]
  BY DEF Decide
<1>3. decision[id]' = answer /\ \A i \in TrustIds : i # id => decision[i]' = decision[i]
  BY <1>2 DEF Basics, Shape
<1>4. answer \in Answers
  BY AnswerIsAnswer DEF Basics, Shape
<1>5. trustStore[id[2]][id] \in Records /\ id[1] # id[2]
  BY DEF Decide, Basics, Receivers
<1>6. /\ HasFields(trust) /\ trust # None
      /\ trust.status = answer.status /\ trust.expiresAt = answer.expiresAt
  <2>1. trust # None
    BY <1>4, <1>5, DecidedIsRecord, NoRecordAssumption
  <2>2. HasFields(trustStore[id[2]][id])
    BY <1>5 DEF HasFields, Records
  <2> QED
    BY <2>1, <2>2, DecidedFields
<1>7. trustStore' = [trustStore EXCEPT ![id[2]][id] = trust]
  BY DEF Decide
<1> HIDE DEF answer, trust
<1> QED
  BY <1>1, <1>3, <1>4, <1>5, <1>6, <1>7, ReceiverWrite

LEMMA HandleRequestEffect ==
    ASSUME Basics, NEW h \in Handlings, HandleRequest(h)
    PROVE  LET id == TrustOf(message[h]) IN
           /\ message[h].type = "TRUST_REQ" /\ id \in TrustIds /\ id[1] # id[2]
           /\ id[2] = Lower[message[h].to]
           /\ \A i \in TrustIds : i = id =>
                 /\ AtReceiver(i)' # None
                 /\ AtReceiver(i)'.status = "pending"
                 /\ AtReceiver(i)'.retryAfterDate = clock + CoolingOff
           /\ \A i \in TrustIds : i # id => AtReceiver(i)' = AtReceiver(i)
           /\ \A i \in TrustIds : i[1] # i[2] => AtSender(i)' = AtSender(i)
<1> DEFINE m == message[h]
           id == TrustOf(m)
           trust == Asked(trustStore[Lower[m.to]][id], m.from, m.to, clock + CoolingOff)
<1>1. m.type = "TRUST_REQ" /\ IsLetter(m)
  BY DEF HandleRequest, Handled, Basics, Letters
<1>2. id \in TrustIds /\ id[1] # id[2] /\ id[2] = Lower[m.to] /\ Lower[m.to] \in Parties
  BY <1>1, TrustOfLetter
<1>3. trustStore' = [trustStore EXCEPT ![id[2]][id] = trust]
  BY <1>2 DEF HandleRequest
<1>4. /\ HasFields(trust) /\ trust # None
      /\ trust.status = "pending" /\ trust.retryAfterDate = clock + CoolingOff
  <2>1. trustStore[Lower[m.to]][id] \in Records \cup {None}
    BY <1>2 DEF Basics, Receivers
  <2>2. clock + CoolingOff \in Dates
    BY CoolingOffAssumption DEF Dates, Basics, Shape
  <2>3. trust # None
    BY <1>1, <2>1, <2>2, AskedIsRecord, NoRecordAssumption DEF IsLetter
  <2> QED
    BY <1>2, <2>3, AskedFields DEF Basics, Shape
<1> HIDE DEF id, trust
<1>5. \A i \in TrustIds : i = id => AtReceiver(i)' = trust
  BY <1>2, <1>3, <1>4, ReceiverWrite
<1>6. /\ \A i \in TrustIds : i # id => AtReceiver(i)' = AtReceiver(i)
      /\ \A i \in TrustIds : i[1] # i[2] => AtSender(i)' = AtSender(i)
  BY <1>2, <1>3, <1>4, ReceiverWrite
<1> QED
  BY <1>1, <1>2, <1>4, <1>5, <1>6 DEF id

LEMMA HandleResponseEffect ==
    ASSUME Basics, NEW h \in Handlings, HandleResponse(h)
    PROVE  LET id == TrustOf(message[h]) IN
           /\ message[h].type = "TRUST_RES" /\ id \in TrustIds /\ id[1] # id[2]
           /\ id[1] = Lower[message[h].to]
           /\ \A i \in TrustIds : i # id => AtSender(i)' = AtSender(i)
           /\ \A i \in TrustIds : AtReceiver(i)' = AtReceiver(i)
<1> DEFINE m == message[h]
           p == Lower[m.to]
           id == TrustOf(m)
           trust == Decided(trustStore[p][id], decryptVerify(m.from, m, p).document)
<1>1. m.type = "TRUST_RES" /\ IsLetter(m) /\ HasFields(trustStore[p][id])
  BY DEF HandleResponse, Handled, Basics, Letters, WaitedFor
<1>2. id \in TrustIds /\ id[1] # id[2] /\ id[1] = p
  BY <1>1, TrustOfLetter
<1>3. trustStore' = [trustStore EXCEPT ![id[1]][id] = trust]
  BY <1>2 DEF HandleResponse
<1>4. HasFields(trust)
  BY <1>1, DecidedFields
<1> HIDE DEF id, trust
<1>5. /\ \A i \in TrustIds : i # id => AtSender(i)' = AtSender(i)
      /\ \A i \in TrustIds : AtReceiver(i)' = AtReceiver(i)
  BY <1>2, <1>3, <1>4, SenderWrite
<1> QED
  BY <1>1, <1>2, <1>5 DEF id

\* The steps that touch no record
LEMMA OtherEffect ==
    ASSUME UNCHANGED trustStore
    PROVE  \A i \in TrustIds : /\ AtSender(i)' = AtSender(i)
                               /\ AtReceiver(i)' = AtReceiver(i)
BY DEF AtSender, AtReceiver

----------------------------------------------------------------------------
(* Documents.                                                              *)

\* What a receiver has accepted is what it has decided last
DecisionsKept ==
    \A id \in TrustIds : LET trust == AtReceiver(id) IN
        trust # None /\ trust.status = "accepted" =>
            /\ decision[id] # None /\ decision[id].status = "accepted"
            /\ decision[id].expiresAt = trust.expiresAt

LEMMA DecisionsStep ==
    Basics /\ DecisionsKept /\ [Next]_vars => DecisionsKept'
<1> SUFFICES ASSUME Basics, DecisionsKept, [Next]_vars PROVE DecisionsKept'
  OBVIOUS
<1>1. ASSUME NEW p \in Parties, NEW to \in Identities, AskForTrust(p, to)
      PROVE  DecisionsKept'
  BY <1>1, AskForTrustEffect DEF DecisionsKept, history
<1>2. ASSUME NEW id \in TrustIds, NEW choice \in Choices, Decide(id, choice)
      PROVE  DecisionsKept'
  <2>1. decision[id]' # None
    BY <1>2, DecideEffect, NoRecordAssumption
  <2> QED
    BY <1>2, <2>1, DecideEffect DEF DecisionsKept
<1>3. ASSUME NEW h \in Handlings, HandleRequest(h)
      PROVE  DecisionsKept'
  BY <1>3, HandleRequestEffect DEF DecisionsKept, HandleRequest, Handled
<1>4. ASSUME NEW h \in Handlings, HandleResponse(h)
      PROVE  DecisionsKept'
  BY <1>4, HandleResponseEffect DEF DecisionsKept, HandleResponse, Handled
<1>5. ASSUME UNCHANGED <<trustStore, decision>>
      PROVE  DecisionsKept'
  BY <1>5, OtherEffect DEF DecisionsKept
<1> QED
  BY <1>1, <1>2, <1>3, <1>4, <1>5
  DEF Next, vars, history, SendDocument, Verify, HandleDocument, Handled, Tick

\* A document passes on the record that its receiver has of its sender, which
\* follows what the receiver has decided last.
LEMMA DocumentsStep ==
    Basics /\ DecisionsKept /\ DocumentsAreWanted /\ [Next]_vars
        => DocumentsAreWanted'
<1> SUFFICES ASSUME Basics, DecisionsKept, DocumentsAreWanted, [Next]_vars
             PROVE  DocumentsAreWanted'
  OBVIOUS
<1>1. ASSUME NEW h \in Handlings, NEW m \in sent, Verify(h, m)
      PROVE  DocumentsAreWanted'
  <2> DEFINE id == TrustOf(m)
  <2>1. /\ pc' = [pc EXCEPT ![h] = IF verifyTrust(m, trustStore[Lower[m.to]], clock)
                                   THEN "trusted" ELSE "refused"]
        /\ message' = [message EXCEPT ![h] = m]
        /\ seen' = [seen EXCEPT ![h] = [at |-> clock, decision |-> decision[id]]]
    BY <1>1 DEF Verify
  <2>2. ASSUME m.type = "BTPS_DOC", pc'[h] = "trusted"
        PROVE  /\ decision[id] # None /\ decision[id].status = "accepted"
               /\ decision[id].expiresAt # None => decision[id].expiresAt >= clock
    <3>1. IsLetter(m)
      BY DEF Basics, Letters
    <3>2. id \in TrustIds /\ id = <<Lower[m.from], Lower[m.to]>>
      BY <2>2, <3>1, TrustOfLetter
    <3>3. verifyTrust(m, trustStore[Lower[m.to]], clock)
      BY <2>1, <2>2 DEF Basics, Shape
    <3>4. isTrustActive(trustStore[Lower[m.to]][computeTrustId(m.from, m.to)], clock)
      BY <2>2, <3>3 DEF verifyTrust
    <3>5. isTrustActive(AtReceiver(id), clock)
      BY <3>2, <3>4 DEF AtReceiver, computeTrustId
    <3> QED
      BY <3>2, <3>5 DEF DecisionsKept, isTrustActive
  <2> QED
    BY <2>1, <2>2 DEF DocumentsAreWanted, Passed, Basics, Shape
<1>2. ASSUME NEW h \in Handlings, Handled(h)
      PROVE  DocumentsAreWanted'
  BY <1>2 DEF Handled, DocumentsAreWanted, Passed, Basics, Shape
<1>3. ASSUME UNCHANGED <<pc, message, seen>>
      PROVE  DocumentsAreWanted'
  BY <1>3 DEF DocumentsAreWanted, Passed
<1> QED
  BY <1>1, <1>2, <1>3
  DEF Next, vars, history, AskForTrust, SendDocument, Decide, HandleRequest,
      HandleResponse, HandleDocument, Tick

\* A document passes only while its receiver's last word on its sender is an
\* acceptance that has not run out (verifyTrust, computeTrustId).
THEOREM OnlyWantedDocuments == Spec => []DocumentsAreWanted
<1>1. Init => DecisionsKept
  BY DEF Init, DecisionsKept, AtReceiver, TrustIds
<1>2. Init => DocumentsAreWanted
  BY DEF Init, DocumentsAreWanted, Passed
<1> QED
  BY <1>1, <1>2, BasicsCorrect, DecisionsStep, DocumentsStep, PTL DEF Spec

----------------------------------------------------------------------------
(* Answers.                                                                *)

\* The handlings of an answer that wait find the record they were let pass
\* on, unless two of them wait for one record
AnswersWait ==
    \A h \in Handlings :
        pc[h] = "trusted" /\ message[h].type = "TRUST_RES"
            /\ TrustOf(message[h]) \notin raced
        => /\ AtSender(TrustOf(message[h])).status = "pending"
           /\ \A g \in Handlings :
                 pc[g] = "trusted" /\ message[g].type = "TRUST_RES"
                     /\ TrustOf(message[g]) = TrustOf(message[h]) => g = h

LEMMA AnswersWaitStep ==
    Basics /\ AnswersWait /\ [Next]_vars => AnswersWait'
<1> SUFFICES ASSUME Basics, AnswersWait, [Next]_vars PROVE AnswersWait'
  OBVIOUS
<1> DEFINE Waits(h) == pc[h] = "trusted" /\ message[h].type = "TRUST_RES"
<1>1. \A h \in Handlings : Waits(h) =>
         LET id == TrustOf(message[h]) IN
         /\ id \in TrustIds /\ id[1] # id[2] /\ id[1] = Lower[message[h].to]
  BY TrustOfLetter DEF Basics, Letters
<1>2. ASSUME NEW p \in Parties, NEW to \in Identities, AskForTrust(p, to)
      PROVE  AnswersWait'
  <2>1. UNCHANGED <<pc, message, raced>>
    BY <1>2 DEF AskForTrust, history
  <2>2. \A i \in TrustIds : \/ AtSender(i)' = AtSender(i)
                           \/ AtSender(i)'.status = "pending"
    BY <1>2, AskForTrustEffect
  <2> QED
    BY <1>1, <2>1, <2>2 DEF AnswersWait, TrustOf, computeTrustId
<1>3. ASSUME NEW id \in TrustIds, NEW choice \in Choices, Decide(id, choice)
      PROVE  AnswersWait'
  <2>1. raced \subseteq raced'
    BY <1>3 DEF Decide
  <2>2. UNCHANGED <<pc, message>>
    BY <1>3 DEF Decide
  <2>3. \A i \in TrustIds : i[1] # i[2] => AtSender(i)' = AtSender(i)
    BY <1>3, DecideEffect
  <2> QED
    BY <1>1, <2>1, <2>2, <2>3 DEF AnswersWait, TrustOf, computeTrustId
<1>4. ASSUME NEW k \in Handlings, NEW m \in sent, Verify(k, m)
      PROVE  AnswersWait'
  <2> DEFINE id == TrustOf(m)
  <2>1. /\ pc' = [pc EXCEPT ![k] = IF verifyTrust(m, trustStore[Lower[m.to]], clock)
                                   THEN "trusted" ELSE "refused"]
        /\ message' = [message EXCEPT ![k] = m]
        /\ pc[k] = "idle"
        /\ raced' = raced \cup {i \in {id} : Waiting(Lower[m.to], i) # {}}
        /\ UNCHANGED trustStore
    BY <1>4 DEF Verify
  <2>2. /\ pc'[k] = IF verifyTrust(m, trustStore[Lower[m.to]], clock)
                    THEN "trusted" ELSE "refused"
        /\ message'[k] = m
        /\ \A g \in Handlings : g # k => pc'[g] = pc[g] /\ message'[g] = message[g]
    BY <2>1 DEF Basics, Shape
  <2>3. IsLetter(m)
    BY DEF Basics, Letters
  <2>4. ASSUME m.type = "TRUST_RES", pc'[k] = "trusted"
        PROVE  AtSender(id).status = "pending"
    <3>1. verifyTrust(m, trustStore[Lower[m.to]], clock)
      BY <2>2, <2>4
    <3>2. validateTrustResponse(m.from, m.to, trustStore[Lower[m.to]])
      BY <2>4, <3>1 DEF verifyTrust
    <3>3. id = <<Lower[m.to], Lower[m.from]>>
      BY <2>3, <2>4, TrustOfLetter
    <3> QED
      BY <3>2, <3>3 DEF validateTrustResponse, AtSender, computeTrustId
  <2>5. ASSUME m.type = "TRUST_RES", NEW g \in Handlings, Waits(g),
               TrustOf(message[g]) = id
        PROVE  id \in raced'
    <3>1. Lower[message[g].to] = Lower[m.to]
      BY <1>1, <2>3, <2>5, TrustOfLetter
    <3>2. g \in Waiting(Lower[m.to], id)
      BY <2>5, <3>1 DEF Waiting
    <3> QED
      BY <2>1, <3>2
  <2>6. \A i \in TrustIds : AtSender(i)' = AtSender(i)
    BY <2>1, OtherEffect
  <2> SUFFICES ASSUME NEW h \in Handlings, pc'[h] = "trusted",
                      message'[h].type = "TRUST_RES",
                      TrustOf(message'[h]) \notin raced'
               PROVE  /\ AtSender(TrustOf(message[h]))'.status = "pending"
                      /\ \A g \in Handlings :
                            pc'[g] = "trusted" /\ message'[g].type = "TRUST_RES"
                                /\ TrustOf(message'[g]) = TrustOf(message'[h])
                            => g = h
    BY DEF AnswersWait, TrustOf, computeTrustId
  <2>7. CASE h = k
    <3>1. AtSender(TrustOf(message[h]))'.status = "pending"
      BY <2>1, <2>2, <2>4, <2>7 DEF AtSender, TrustOf, computeTrustId
    <3> QED
      BY <2>2, <2>5, <2>7, <3>1
  <2>8. CASE h # k
    <3>1. TrustOf(message[h]) \notin raced /\ Waits(h)
      BY <2>1, <2>2, <2>8
    <3>2. AtSender(TrustOf(message[h]))'.status = "pending"
      BY <2>1, <2>2, <2>8, <3>1 DEF AnswersWait, AtSender, TrustOf, computeTrustId
    <3> QED
      BY <2>2, <2>5, <2>8, <3>1, <3>2 DEF AnswersWait
  <2> QED
    BY <2>7, <2>8
<1>5. ASSUME NEW k \in Handlings, HandleRequest(k)
      PROVE  AnswersWait'
  <2>1. /\ pc' = [pc EXCEPT ![k] = "done"]
        /\ UNCHANGED <<message, raced>>
    BY <1>5 DEF HandleRequest, Handled
  <2>2. \A i \in TrustIds : i[1] # i[2] => AtSender(i)' = AtSender(i)
    BY <1>5, HandleRequestEffect
  <2>3. \A h \in Handlings : pc'[h] = "trusted" => pc[h] = "trusted"
    BY <2>1 DEF Basics, Shape
  <2>4. \A h \in Handlings : Waits(h) =>
            AtSender(TrustOf(message[h]))' = AtSender(TrustOf(message[h]))
    BY <1>1, <2>1, <2>2 DEF AtSender, TrustOf, computeTrustId
  <2> QED
    BY <2>1, <2>3, <2>4 DEF AnswersWait, AtSender, TrustOf, computeTrustId
<1>6. ASSUME NEW k \in Handlings, HandleResponse(k)
      PROVE  AnswersWait'
  <2>1. /\ pc' = [pc EXCEPT ![k] = "done"] /\ Waits(k)
        /\ UNCHANGED <<message, raced>>
    BY <1>6 DEF HandleResponse, Handled
  <2>2. \A i \in TrustIds : i # TrustOf(message[k]) => AtSender(i)' = AtSender(i)
    BY <1>6, HandleResponseEffect
  <2>3. \A h \in Handlings : pc'[h] = "trusted" => pc[h] = "trusted" /\ h # k
    BY <2>1 DEF Basics, Shape
  <2>4. \A h \in Handlings : Waits(h) /\ h # k /\ TrustOf(message[h]) \notin raced =>
            TrustOf(message[h]) # TrustOf(message[k])
    BY <2>1 DEF AnswersWait
  <2>5. \A h \in Handlings : Waits(h) /\ h # k /\ TrustOf(message[h]) \notin raced =>
            AtSender(TrustOf(message[h]))' = AtSender(TrustOf(message[h]))
    BY <1>1, <2>1, <2>2, <2>4 DEF AtSender, TrustOf, computeTrustId
  <2> QED
    BY <2>1, <2>3, <2>5 DEF AnswersWait, AtSender, TrustOf, computeTrustId
<1>7. ASSUME NEW k \in Handlings, HandleDocument(k)
      PROVE  AnswersWait'
  <2>1. /\ pc' = [pc EXCEPT ![k] = "done"]
        /\ UNCHANGED <<message, raced, trustStore>>
    BY <1>7 DEF HandleDocument, Handled
  <2> QED
    BY <2>1 DEF AnswersWait, AtSender, Basics, Shape, TrustOf, computeTrustId
<1>8. ASSUME UNCHANGED <<pc, message, raced, trustStore>>
      PROVE  AnswersWait'
  BY <1>8 DEF AnswersWait, AtSender, TrustOf, computeTrustId
<1> QED
  BY <1>2, <1>3, <1>4, <1>5, <1>6, <1>7, <1>8
  DEF Next, vars, history, SendDocument, Tick

\* Once answered, a sender's record is changed by nothing but its own next
\* request, however often and however late the answers arrive, as long as
\* they are not handled at the same time (validateTrustResponse).
THEOREM AnswersAreFinal == Spec => AnswersSettle
<1> DEFINE OnlySettles ==
        \A id \in TrustIds :
            LET old == trustStore[id[1]][id]
                new == trustStore'[id[1]][id]
            IN  old # None /\ id[1] # id[2] /\ id \notin raced /\ new # old =>
                   old.status = "pending" \/ new.status = "pending"
<1>1. Init => AnswersWait
  BY DEF Init, AnswersWait
<1>2. Basics /\ AnswersWait /\ [Next]_vars => [OnlySettles]_vars
  <2> SUFFICES ASSUME Basics, AnswersWait, Next, NEW id \in TrustIds,
                      id[1] # id[2], id \notin raced,
                      AtSender(id)' # AtSender(id)
               PROVE  \/ AtSender(id).status = "pending"
                      \/ AtSender(id)'.status = "pending"
    BY DEF AtSender
  <2>1. ASSUME NEW p \in Parties, NEW to \in Identities, AskForTrust(p, to)
        PROVE  AtSender(id)'.status = "pending"
    BY <2>1, AskForTrustEffect
  <2>2. ASSUME NEW i \in TrustIds, NEW choice \in Choices, Decide(i, choice)
        PROVE  FALSE
    BY <2>2, DecideEffect
  <2>3. ASSUME NEW h \in Handlings, HandleRequest(h)
        PROVE  FALSE
    BY <2>3, HandleRequestEffect
  <2>4. ASSUME NEW h \in Handlings, HandleResponse(h)
        PROVE  AtSender(id).status = "pending"
    <3>1. id = TrustOf(message[h]) /\ message[h].type = "TRUST_RES"
      BY <2>4, HandleResponseEffect
    <3>2. pc[h] = "trusted"
      BY <2>4 DEF HandleResponse, Handled
    <3> QED
      BY <3>1, <3>2 DEF AnswersWait
  <2>5. ASSUME UNCHANGED trustStore
        PROVE  FALSE
    BY <2>5, OtherEffect
  <2> QED
    BY <2>1, <2>2, <2>3, <2>4, <2>5
    DEF Next, SendDocument, Verify, HandleDocument, Tick
<1> QED
  BY <1>1, <1>2, BasicsCorrect, AnswersWaitStep, PTL DEF Spec, AnswersSettle

----------------------------------------------------------------------------
(* Requests.                                                               *)

IsRequest(h) == message[h].type = "TRUST_REQ"

\* The artifacts are handled in the order of their numbers
InOrder ==
    \A g, h \in Handlings : g < h /\ pc[h] # "idle" => pc[g] # "idle"

\* The record of a sender that is blocked says so, and no request of it waits
BlockedStays ==
    \A id \in TrustIds :
        /\ id \notin raced /\ decision[id] # None
        /\ decision[id].status = "blocked"
        => /\ AtReceiver(id) # None /\ AtReceiver(id).status = "blocked"
           /\ \A h \in Handlings :
                 pc[h] = "trusted" /\ IsRequest(h) => TrustOf(message[h]) # id

\* A request that was noted holds the next one back until there is a decision
NotedHoldsBack ==
    \A g \in Handlings :
        /\ pc[g] = "done" /\ IsRequest(g)
        /\ g \notin decidedSince /\ TrustOf(message[g]) \notin raced
        => LET trust == AtReceiver(TrustOf(message[g])) IN
           /\ trust # None /\ trust.retryAfterDate \in Nat
           /\ doneAt[g] \in Nat /\ doneAt[g] <= clock
           /\ doneAt[g] + CoolingOff <= trust.retryAfterDate

\* A request that passes while one before it waits makes a race
PassingRaces ==
    \A g, h \in Handlings :
        /\ g < h /\ pc[g] = "trusted" /\ IsRequest(g) /\ Passed(h, "TRUST_REQ")
        /\ TrustOf(message[g]) = TrustOf(message[h])
        => TrustOf(message[h]) \in raced

RequestsInv == InOrder /\ BlockedStays /\ NotedHoldsBack /\ PassingRaces

\* What the steps of a handling do to its variables
LEMMA VerifyEffect ==
    ASSUME Basics, NEW k \in Handlings, NEW m \in sent, Verify(k, m)
    PROVE  /\ pc[k] = "idle" /\ \A g \in Handlings : g < k => pc[g] # "idle"
           /\ pc'[k] = IF verifyTrust(m, trustStore[Lower[m.to]], clock)
                       THEN "trusted" ELSE "refused"
           /\ message'[k] = m
           /\ seen'[k] = [at |-> clock, decision |-> decision[TrustOf(m)]]
           /\ \A g \in Handlings : g # k =>
                 pc'[g] = pc[g] /\ message'[g] = message[g] /\ seen'[g] = seen[g]
           /\ raced \subseteq raced'
           /\ Waiting(Lower[m.to], TrustOf(m)) # {} => TrustOf(m) \in raced'
           /\ UNCHANGED <<clock, trustStore, decision, doneAt, decidedSince>>
BY DEF Verify, Basics, Shape

LEMMA HandledEffect ==
    ASSUME Basics, NEW k \in Handlings, Handled(k)
    PROVE  /\ pc[k] = "trusted" /\ pc'[k] = "done" /\ doneAt'[k] = clock
           /\ \A g \in Handlings : g # k => pc'[g] = pc[g] /\ doneAt'[g] = doneAt[g]
           /\ UNCHANGED <<clock, message, decision, seen, decidedSince, raced>>
BY DEF Handled, Basics, Shape

\* The trust of a request is at its receiver
LEMMA RequestTrust ==
    ASSUME Basics, NEW h \in Handlings, pc[h] # "idle", IsRequest(h)
    PROVE  LET id == TrustOf(message[h]) IN
           /\ id \in TrustIds /\ id[1] # id[2]
           /\ id[2] = Lower[message[h].to]
BY TrustOfLetter DEF Basics, Letters, IsRequest

LEMMA OrderStep == Basics /\ InOrder /\ [Next]_vars => InOrder'
<1> SUFFICES ASSUME Basics, InOrder, [Next]_vars PROVE InOrder'
  OBVIOUS
<1>1. ASSUME NEW k \in Handlings, NEW m \in sent, Verify(k, m)
      PROVE  InOrder'
  <2>1. \A g \in Handlings : g < k => pc[g] # "idle"
    BY <1>1, VerifyEffect
  <2>2. /\ pc'[k] # "idle"
        /\ \A g \in Handlings : g # k => pc'[g] = pc[g]
    BY <1>1, VerifyEffect
  <2> QED
    BY <2>1, <2>2 DEF InOrder
<1>2. ASSUME NEW k \in Handlings, Handled(k)
      PROVE  InOrder'
  BY <1>2, HandledEffect DEF InOrder
<1>3. ASSUME UNCHANGED pc
      PROVE  InOrder'
  BY <1>3 DEF InOrder
<1> QED
  BY <1>1, <1>2, <1>3
  DEF Next, vars, history, AskForTrust, SendDocument, Decide, HandleRequest,
      HandleResponse, HandleDocument, Tick

LEMMA RaceStep ==
    Basics /\ InOrder /\ PassingRaces /\ [Next]_vars => PassingRaces'
<1> SUFFICES ASSUME Basics, InOrder, PassingRaces, [Next]_vars
             PROVE  PassingRaces'
  OBVIOUS
<1>1. ASSUME NEW k \in Handlings, NEW m \in sent, Verify(k, m)
      PROVE  PassingRaces'
  <2> SUFFICES ASSUME NEW g \in Handlings, NEW h \in Handlings, g < h,
                      pc'[g] = "trusted", message'[g].type = "TRUST_REQ",
                      pc'[h] \in {"trusted", "done"}, message'[h].type = "TRUST_REQ",
                      TrustOf(message'[g]) = TrustOf(message'[h])
               PROVE  TrustOf(message'[h]) \in raced'
    BY DEF PassingRaces, Passed, IsRequest, TrustOf, computeTrustId
  <2>1. CASE g = k
    <3>1. h # k /\ pc[h] # "idle" /\ pc[k] = "idle"
      BY <1>1, <2>1, VerifyEffect, HandlingsAssumption
    <3> QED
      BY <2>1, <3>1 DEF InOrder
  <2>2. CASE g # k /\ h = k
    <3>1. /\ pc[g] = "trusted" /\ IsRequest(g)
          /\ message'[g] = message[g] /\ message'[k] = m
      BY <1>1, <2>2, VerifyEffect DEF IsRequest
    <3>2. TrustOf(message[g])[2] = Lower[message[g].to]
      BY <3>1, RequestTrust
    <3>3. TrustOf(m)[2] = Lower[m.to]
      BY <2>2, <3>1, TrustOfLetter DEF Basics, Letters
    <3>4. g \in Waiting(Lower[m.to], TrustOf(m))
      BY <2>2, <3>1, <3>2, <3>3 DEF Waiting
    <3> QED
      BY <1>1, <2>2, <3>1, <3>4, VerifyEffect
  <2>3. CASE g # k /\ h # k
    <3>1. /\ pc'[g] = pc[g] /\ message'[g] = message[g]
          /\ pc'[h] = pc[h] /\ message'[h] = message[h]
          /\ raced \subseteq raced'
      BY <1>1, <2>3, VerifyEffect
    <3>2. TrustOf(message[h]) \in raced
      BY <3>1 DEF PassingRaces, Passed, IsRequest
    <3> QED
      BY <3>1, <3>2
  <2> QED
    BY <2>1, <2>2, <2>3
<1>2. ASSUME NEW k \in Handlings, Handled(k)
      PROVE  PassingRaces'
  <2>1. /\ pc[k] = "trusted" /\ pc'[k] = "done"
        /\ \A g \in Handlings : g # k => pc'[g] = pc[g]
        /\ UNCHANGED <<message, raced>>
    BY <1>2, HandledEffect
  <2> QED
    BY <2>1 DEF PassingRaces, Passed, IsRequest, TrustOf, computeTrustId
<1>3. ASSUME UNCHANGED <<pc, message>>, raced \subseteq raced'
      PROVE  PassingRaces'
  BY <1>3 DEF PassingRaces, Passed, IsRequest, TrustOf, computeTrustId
<1> QED
  BY <1>1, <1>2, <1>3
  DEF Next, vars, history, AskForTrust, SendDocument, Decide, HandleRequest,
      HandleResponse, HandleDocument, Tick

LEMMA BlockedStep ==
    Basics /\ BlockedStays /\ [Next]_vars => BlockedStays'
<1> SUFFICES ASSUME Basics, BlockedStays, [Next]_vars PROVE BlockedStays'
  OBVIOUS
<1>1. ASSUME NEW id \in TrustIds, NEW choice \in Choices, Decide(id, choice)
      PROVE  BlockedStays'
  <2> SUFFICES ASSUME NEW i \in TrustIds, i \notin raced', decision[i]' # None,
                      decision[i]'.status = "blocked"
               PROVE  /\ AtReceiver(i)' # None /\ AtReceiver(i)'.status = "blocked"
                      /\ \A h \in Handlings :
                            pc[h] = "trusted" /\ IsRequest(h) => TrustOf(message[h]) # i
    BY <1>1, DecideEffect DEF BlockedStays, IsRequest, TrustOf, computeTrustId
  <2>1. raced' = raced \cup {j \in {id} : Waiting(id[2], j) # {}}
    BY <1>1 DEF Decide
  <2>2. CASE i = id
    <3>1. Waiting(id[2], id) = {}
      BY <2>1, <2>2
    <3>2. \A h \in Handlings :
             pc[h] = "trusted" /\ IsRequest(h) => TrustOf(message[h]) # id
      BY <3>1, RequestTrust DEF Waiting
    <3> QED
      BY <1>1, <2>2, <3>2, DecideEffect
  <2>3. CASE i # id
    BY <1>1, <2>1, <2>3, DecideEffect DEF BlockedStays
  <2> QED
    BY <2>2, <2>3
<1>2. ASSUME NEW k \in Handlings, NEW m \in sent, Verify(k, m)
      PROVE  BlockedStays'
  <2>1. \A i \in TrustIds : AtReceiver(i)' = AtReceiver(i)
    BY <1>2, VerifyEffect, OtherEffect
  <2>2. ASSUME NEW i \in TrustIds, m.type = "TRUST_REQ", pc'[k] = "trusted",
               TrustOf(m) = i, AtReceiver(i) # None
        PROVE  AtReceiver(i).status # "blocked"
    <3>1. validateTrustRequest(trustStore[Lower[m.to]][computeTrustId(m.from, m.to)], clock)
      BY <1>2, <2>2, VerifyEffect DEF verifyTrust
    <3>2. i = <<Lower[m.from], Lower[m.to]>>
      BY <2>2, TrustOfLetter DEF Basics, Letters
    <3>3. validateTrustRequest(AtReceiver(i), clock)
      BY <3>1, <3>2 DEF AtReceiver, computeTrustId
    <3> QED
      BY <2>2, <3>3 DEF validateTrustRequest
  <2> SUFFICES ASSUME NEW i \in TrustIds, i \notin raced, decision[i] # None,
                      decision[i].status = "blocked"
               PROVE  /\ AtReceiver(i) # None /\ AtReceiver(i).status = "blocked"
                      /\ \A h \in Handlings :
                            pc'[h] = "trusted" /\ message'[h].type = "TRUST_REQ"
                                => TrustOf(message'[h]) # i
    <3>1. UNCHANGED decision /\ raced \subseteq raced'
      BY <1>2, VerifyEffect
    <3> QED
      BY <2>1, <3>1 DEF BlockedStays, IsRequest, TrustOf, computeTrustId
  <2>3. AtReceiver(i) # None /\ AtReceiver(i).status = "blocked"
    BY DEF BlockedStays
  <2>4. ASSUME NEW h \in Handlings, pc'[h] = "trusted",
               message'[h].type = "TRUST_REQ"
        PROVE  TrustOf(message'[h]) # i
    <3>1. CASE h = k
      <4>1. message'[k] = m /\ m.type = "TRUST_REQ" /\ pc'[k] = "trusted"
        BY <1>2, <2>4, <3>1, VerifyEffect
      <4>2. TrustOf(m) # i
        BY <2>2, <2>3, <4>1
      <4> QED
        BY <3>1, <4>1, <4>2
    <3>2. CASE h # k
      <4>1. pc[h] = "trusted" /\ message'[h] = message[h] /\ IsRequest(h)
        BY <1>2, <2>4, <3>2, VerifyEffect DEF IsRequest
      <4>2. TrustOf(message[h]) # i
        BY <4>1 DEF BlockedStays
      <4> QED
        BY <4>1, <4>2
    <3> QED
      BY <3>1, <3>2
  <2> QED
    BY <2>3, <2>4
<1>3. ASSUME NEW k \in Handlings, HandleRequest(k)
      PROVE  BlockedStays'
  <2>1. Handled(k)
    BY <1>3 DEF HandleRequest
  <2>2. /\ pc[k] = "trusted" /\ pc'[k] = "done"
        /\ \A g \in Handlings : g # k => pc'[g] = pc[g]
        /\ UNCHANGED <<message, decision, raced>>
    BY <2>1, HandledEffect
  <2>3. /\ IsRequest(k)
        /\ \A i \in TrustIds : i # TrustOf(message[k]) => AtReceiver(i)' = AtReceiver(i)
    BY <1>3, HandleRequestEffect DEF IsRequest
  <2> QED
    BY <2>2, <2>3 DEF BlockedStays, IsRequest, TrustOf, computeTrustId
<1>4. ASSUME NEW k \in Handlings, Handled(k), \A i \in TrustIds : AtReceiver(i)' = AtReceiver(i)
      PROVE  BlockedStays'
  <2>1. /\ pc[k] = "trusted" /\ pc'[k] = "done"
        /\ \A g \in Handlings : g # k => pc'[g] = pc[g]
        /\ UNCHANGED <<message, decision, raced>>
    BY <1>4, HandledEffect
  <2> QED
    BY <1>4, <2>1 DEF BlockedStays, IsRequest, TrustOf, computeTrustId
<1>5. ASSUME UNCHANGED <<pc, message, decision, raced>>,
             \A i \in TrustIds : AtReceiver(i)' = AtReceiver(i)
      PROVE  BlockedStays'
  BY <1>5 DEF BlockedStays, IsRequest, TrustOf, computeTrustId
<1>6. ASSUME NEW p \in Parties, NEW to \in Identities, AskForTrust(p, to)
      PROVE  BlockedStays'
  BY <1>5, <1>6, AskForTrustEffect DEF history
<1>7. ASSUME NEW k \in Handlings, HandleResponse(k)
      PROVE  BlockedStays'
  BY <1>4, <1>7, HandleResponseEffect DEF HandleResponse
<1>8. ASSUME NEW k \in Handlings, HandleDocument(k)
      PROVE  BlockedStays'
  BY <1>4, <1>8, OtherEffect DEF HandleDocument
<1>9. ASSUME UNCHANGED <<trustStore, pc, message, decision, raced>>
      PROVE  BlockedStays'
  BY <1>5, <1>9, OtherEffect
<1> QED
  BY <1>1, <1>2, <1>3, <1>6, <1>7, <1>8, <1>9
  DEF Next, vars, history, SendDocument, Tick

LEMMA NotedStep ==
    Basics /\ NotedHoldsBack /\ [Next]_vars => NotedHoldsBack'
<1> SUFFICES ASSUME Basics, NotedHoldsBack, [Next]_vars PROVE NotedHoldsBack'
  OBVIOUS
<1> USE CoolingOffAssumption
<1>1. \A g \in Handlings : pc[g] = "done" /\ IsRequest(g)
          => TrustOf(message[g]) \in TrustIds
  BY RequestTrust
<1>2. clock \in Nat
  BY DEF Basics, Shape
<1>3. ASSUME NEW id \in TrustIds, NEW choice \in Choices, Decide(id, choice)
      PROVE  NotedHoldsBack'
  <2>1. /\ UNCHANGED <<clock, pc, message, doneAt>> /\ raced \subseteq raced'
        /\ decidedSince' = decidedSince \cup
              {h \in Handlings : pc[h] # "idle" /\ TrustOf(message[h]) = id}
    BY <1>3 DEF Decide
  <2>2. \A i \in TrustIds : i # id => AtReceiver(i)' = AtReceiver(i)
    BY <1>3, DecideEffect
  <2> QED
    BY <1>1, <2>1, <2>2 DEF NotedHoldsBack, IsRequest, TrustOf, computeTrustId
<1>4. ASSUME NEW k \in Handlings, NEW m \in sent, Verify(k, m)
      PROVE  NotedHoldsBack'
  <2>1. \A i \in TrustIds : AtReceiver(i)' = AtReceiver(i)
    BY <1>4, VerifyEffect, OtherEffect
  <2>2. pc'[k] # "done"
    BY <1>4, VerifyEffect
  <2>3. /\ \A g \in Handlings : g # k => pc'[g] = pc[g] /\ message'[g] = message[g]
        /\ raced \subseteq raced' /\ UNCHANGED <<clock, doneAt, decidedSince>>
    BY <1>4, VerifyEffect
  <2> QED
    BY <1>1, <2>1, <2>2, <2>3
    DEF NotedHoldsBack, IsRequest, TrustOf, computeTrustId
<1>5. ASSUME NEW k \in Handlings, HandleRequest(k)
      PROVE  NotedHoldsBack'
  <2>1. Handled(k)
    BY <1>5 DEF HandleRequest
  <2>2. /\ pc'[k] = "done" /\ doneAt'[k] = clock
        /\ \A g \in Handlings : g # k => pc'[g] = pc[g] /\ doneAt'[g] = doneAt[g]
        /\ UNCHANGED <<clock, message, decidedSince, raced>>
    BY <2>1, HandledEffect
  <2>3. /\ \A i \in TrustIds : i # TrustOf(message[k]) => AtReceiver(i)' = AtReceiver(i)
        /\ \A i \in TrustIds : i = TrustOf(message[k]) =>
              /\ AtReceiver(i)' # None
              /\ AtReceiver(i)'.retryAfterDate = clock + CoolingOff
        /\ TrustOf(message[k]) \in TrustIds
    BY <1>5, HandleRequestEffect
  <2> SUFFICES ASSUME NEW g \in Handlings, pc'[g] = "done", IsRequest(g),
                      g \notin decidedSince, TrustOf(message[g]) \notin raced,
                      NEW i \in TrustIds, i = TrustOf(message[g])
               PROVE  /\ AtReceiver(i)' # None /\ AtReceiver(i)'.retryAfterDate \in Nat
                      /\ doneAt'[g] \in Nat /\ doneAt'[g] <= clock
                      /\ doneAt'[g] + CoolingOff <= AtReceiver(i)'.retryAfterDate
    <3>1. \A g \in Handlings : pc'[g] = "done" /\ IsRequest(g)
              => TrustOf(message[g]) \in TrustIds
      BY <1>1, <2>2, <2>3
    <3> QED
      BY <2>2, <3>1 DEF NotedHoldsBack, IsRequest, TrustOf, computeTrustId
  <2>4. doneAt'[g] \in Nat /\ doneAt'[g] <= clock
    BY <1>2, <2>2 DEF NotedHoldsBack
  <2>5. CASE i = TrustOf(message[k])
    BY <1>2, <2>3, <2>4, <2>5
  <2>6. CASE i # TrustOf(message[k])
    BY <2>2, <2>3, <2>6 DEF NotedHoldsBack
  <2> QED
    BY <2>4, <2>5, <2>6
<1>6. ASSUME NEW k \in Handlings, Handled(k), ~IsRequest(k),
             \A i \in TrustIds : AtReceiver(i)' = AtReceiver(i)
      PROVE  NotedHoldsBack'
  <2>1. /\ \A g \in Handlings : g # k => pc'[g] = pc[g] /\ doneAt'[g] = doneAt[g]
        /\ UNCHANGED <<clock, message, decidedSince, raced>>
    BY <1>6, HandledEffect
  <2> QED
    BY <1>1, <1>6, <2>1 DEF NotedHoldsBack, IsRequest, TrustOf, computeTrustId
<1>7. ASSUME UNCHANGED <<pc, message, doneAt, decidedSince, raced>>,
             clock' \in Nat, clock <= clock',
             \A i \in TrustIds : AtReceiver(i)' = AtReceiver(i)
      PROVE  NotedHoldsBack'
  <2> SUFFICES ASSUME NEW g \in Handlings, pc[g] = "done", IsRequest(g),
                      g \notin decidedSince, TrustOf(message[g]) \notin raced,
                      NEW i \in TrustIds, i = TrustOf(message[g])
               PROVE  /\ AtReceiver(i)' # None /\ AtReceiver(i)'.retryAfterDate \in Nat
                      /\ doneAt[g] \in Nat /\ doneAt[g] <= clock'
                      /\ doneAt[g] + CoolingOff <= AtReceiver(i)'.retryAfterDate
    BY <1>1, <1>7 DEF NotedHoldsBack, IsRequest, TrustOf, computeTrustId
  <2>1. AtReceiver(i)' = AtReceiver(i)
    BY <1>7
  <2> QED
    BY <1>2, <1>7, <2>1 DEF NotedHoldsBack
<1>8. ASSUME NEW p \in Parties, NEW to \in Identities, AskForTrust(p, to)
      PROVE  NotedHoldsBack'
  BY <1>2, <1>7, <1>8, AskForTrustEffect DEF history
<1>9. ASSUME NEW k \in Handlings, HandleResponse(k)
      PROVE  NotedHoldsBack'
  BY <1>6, <1>9, HandleResponseEffect DEF HandleResponse, IsRequest
<1>10. ASSUME NEW k \in Handlings, HandleDocument(k)
       PROVE  NotedHoldsBack'
  BY <1>6, <1>10, OtherEffect DEF HandleDocument, IsRequest
<1>11. ASSUME UNCHANGED <<trustStore, pc, message, doneAt, decidedSince, raced>>,
              clock' = clock \/ clock' = clock + 1
       PROVE  NotedHoldsBack'
  BY <1>2, <1>7, <1>11, OtherEffect
<1> QED
  BY <1>3, <1>4, <1>5, <1>8, <1>9, <1>10, <1>11
  DEF Next, vars, history, SendDocument, Tick

LEMMA DistanceStep ==
    Basics /\ RequestsInv /\ RequestsKeepDistance /\ [Next]_vars
        => RequestsKeepDistance'
<1> SUFFICES ASSUME Basics, RequestsInv, RequestsKeepDistance, [Next]_vars
             PROVE  RequestsKeepDistance'
  OBVIOUS
<1> USE DEF RequestsInv
<1>1. ASSUME NEW k \in Handlings, NEW m \in sent, Verify(k, m)
      PROVE  RequestsKeepDistance'
  <2>1. /\ pc[k] = "idle" /\ message'[k] = m
        /\ seen'[k] = [at |-> clock, decision |-> decision[TrustOf(m)]]
        /\ pc'[k] = IF verifyTrust(m, trustStore[Lower[m.to]], clock)
                    THEN "trusted" ELSE "refused"
    BY <1>1, VerifyEffect
  <2>2. /\ \A g \in Handlings : g # k =>
              pc'[g] = pc[g] /\ message'[g] = message[g] /\ seen'[g] = seen[g]
        /\ raced \subseteq raced' /\ UNCHANGED <<doneAt, decidedSince>>
    BY <1>1, VerifyEffect
  <2>3. ASSUME m.type = "TRUST_REQ", pc'[k] = "trusted"
        PROVE  /\ TrustOf(m) \in TrustIds
               /\ validateTrustRequest(AtReceiver(TrustOf(m)), clock)
    <3>1. validateTrustRequest(trustStore[Lower[m.to]][computeTrustId(m.from, m.to)], clock)
      BY <2>1, <2>3 DEF verifyTrust
    <3>2. TrustOf(m) = <<Lower[m.from], Lower[m.to]>> /\ TrustOf(m) \in TrustIds
      BY <2>3, TrustOfLetter DEF Basics, Letters
    <3> QED
      BY <3>1, <3>2 DEF AtReceiver, computeTrustId
  <2> SUFFICES ASSUME NEW h \in Handlings, pc'[h] \in {"trusted", "done"},
                      message'[h].type = "TRUST_REQ",
                      TrustOf(message'[h]) \notin raced'
               PROVE  /\ seen'[h].decision # None => seen'[h].decision.status # "blocked"
                      /\ \A g \in Handlings :
                            /\ g < h /\ pc'[g] = "done"
                            /\ message'[g].type = "TRUST_REQ"
                            /\ TrustOf(message'[g]) = TrustOf(message'[h])
                            /\ g \notin decidedSince
                            => doneAt[g] + CoolingOff <= seen'[h].at
    BY <2>2 DEF RequestsKeepDistance, Passed, TrustOf, computeTrustId
  <2>4. CASE h = k
    <3>1. /\ m.type = "TRUST_REQ" /\ pc'[k] = "trusted" /\ TrustOf(m) \notin raced
          /\ seen'[h] = [at |-> clock, decision |-> decision[TrustOf(m)]]
      BY <2>1, <2>2, <2>4
    <3>2. decision[TrustOf(m)] # None => decision[TrustOf(m)].status # "blocked"
      BY <2>3, <3>1 DEF BlockedStays, validateTrustRequest
    <3>3. ASSUME NEW g \in Handlings, g < h, pc'[g] = "done",
                 message'[g].type = "TRUST_REQ",
                 TrustOf(message'[g]) = TrustOf(m), g \notin decidedSince
          PROVE  doneAt[g] + CoolingOff <= clock
      <4>1. g # k
        BY <2>4, <3>3, HandlingsAssumption
      <4>2. /\ pc[g] = "done" /\ IsRequest(g) /\ TrustOf(message[g]) = TrustOf(m)
        BY <2>2, <3>3, <4>1 DEF IsRequest
      <4>3. LET trust == AtReceiver(TrustOf(m)) IN
            /\ trust # None /\ trust.retryAfterDate \in Nat /\ doneAt[g] \in Nat
            /\ doneAt[g] + CoolingOff <= trust.retryAfterDate
        BY <3>1, <3>3, <4>2 DEF NotedHoldsBack
      <4>4. AtReceiver(TrustOf(m)).retryAfterDate <= clock
        BY <2>3, <3>1, <4>3, NoRecordAssumption DEF validateTrustRequest
      <4> QED
        BY <4>3, <4>4, CoolingOffAssumption DEF Basics, Shape
    <3> QED
      BY <2>1, <2>4, <3>1, <3>2, <3>3
  <2>5. CASE h # k
    <3>1. /\ pc'[h] = pc[h] /\ message'[h] = message[h] /\ seen'[h] = seen[h]
          /\ TrustOf(message[h]) \notin raced /\ Passed(h, "TRUST_REQ")
      BY <2>2, <2>5 DEF Passed
    <3>2. \A g \in Handlings : pc'[g] = "done" => g # k
      BY <2>1
    <3> QED
      BY <2>2, <3>1, <3>2 DEF RequestsKeepDistance
  <2> QED
    BY <2>4, <2>5
<1>2. ASSUME NEW k \in Handlings, Handled(k)
      PROVE  RequestsKeepDistance'
  <2>1. /\ pc[k] = "trusted" /\ pc'[k] = "done"
        /\ \A g \in Handlings : g # k => pc'[g] = pc[g] /\ doneAt'[g] = doneAt[g]
        /\ UNCHANGED <<message, seen, decidedSince, raced>>
    BY <1>2, HandledEffect
  <2> SUFFICES ASSUME NEW h \in Handlings, Passed(h, "TRUST_REQ")',
                      TrustOf(message[h]) \notin raced
               PROVE  /\ seen[h].decision # None => seen[h].decision.status # "blocked"
                      /\ \A g \in Handlings :
                            /\ g < h /\ pc'[g] = "done" /\ IsRequest(g)
                            /\ TrustOf(message[g]) = TrustOf(message[h])
                            /\ g \notin decidedSince
                            => doneAt'[g] + CoolingOff <= seen[h].at
    BY <2>1 DEF RequestsKeepDistance, TrustOf, computeTrustId, IsRequest
  <2>2. Passed(h, "TRUST_REQ")
    BY <2>1 DEF Passed
  <2>3. ~(k < h /\ IsRequest(k) /\ TrustOf(message[k]) = TrustOf(message[h]))
    BY <2>1, <2>2 DEF PassingRaces
  <2> QED
    BY <2>1, <2>2, <2>3 DEF RequestsKeepDistance, IsRequest
<1>3. ASSUME UNCHANGED <<pc, message, seen, doneAt>>,
             raced \subseteq raced', decidedSince \subseteq decidedSince'
      PROVE  RequestsKeepDistance'
  BY <1>3 DEF RequestsKeepDistance, Passed, TrustOf, computeTrustId
<1> QED
  BY <1>1, <1>2, <1>3
  DEF Next, vars, history, AskForTrust, SendDocument, Decide, HandleRequest,
      HandleResponse, HandleDocument, Tick

\* Whom the receiver has blocked asks no more, and who has asked asks again
\* only after the cooling-off, unless the receiver has decided meanwhile or
\* two handlings of the trust have overlapped (validateTrustRequest).
THEOREM DistanceIsKept == Spec => []RequestsKeepDistance
<1>1. Init => RequestsInv
  BY DEF Init, RequestsInv, InOrder, BlockedStays, NotedHoldsBack,
         PassingRaces, Passed
<1>2. Init => RequestsKeepDistance
  BY DEF Init, RequestsKeepDistance, Passed
<1>3. Basics /\ RequestsInv /\ [Next]_vars => RequestsInv'
  BY OrderStep, BlockedStep, NotedStep, RaceStep DEF RequestsInv
<1> QED
  BY <1>1, <1>2, <1>3, BasicsCorrect, DistanceStep, PTL DEF Spec

----------------------------------------------------------------------------
(* What the agent makes.                                                   *)

\* undefined is no artifact, no document and no key
NoneIsNoFunction == \A f : f = [x \in DOMAIN f |-> f[x]] => f # None

Unsigned(a) == [a EXCEPT !.signature = None]

\* A signature is of all the other fields, and leaves them as they are
LEMMA SignedFields ==
    ASSUME NEW a, a = [x \in ArtifactFields |-> a[x]], a.signature = None
    PROVE  /\ Signed(a) = [x \in ArtifactFields |-> Signed(a)[x]]
           /\ \A x \in ArtifactFields : x # "signature" => Signed(a)[x] = a[x]
           /\ Unsigned(Signed(a)) = a
           /\ Signed(a).signature = signBtpPayload(Unsigned(Signed(a)), keyPair)
<1>1. Signed(a) = [a EXCEPT !.signature = signBtpPayload(a, keyPair)]
  BY DEF Signed
<1>2. Unsigned(Signed(a)) = a
  BY <1>1 DEF Unsigned, ArtifactFields
<1> QED
  BY <1>1, <1>2 DEF ArtifactFields

\* A transporter artifact has the contents it was given
LEMMA TransporterFields ==
    ASSUME NEW p, NEW contents, NEW s,
           NEW t, t = TransporterArtifact(p, contents, s)
    PROVE  /\ t = [x \in ArtifactFields |-> t[x]]
           /\ t.selector = s /\ t.document = contents.document
           /\ t.encryption = contents.encryption
           /\ t.signature = signBtpPayload(Unsigned(t), keyPair)
<1> DEFINE f == [type |-> mappedTransporterAction[p.action], from |-> Self,
                 to |-> p.to, selector |-> s, document |-> contents.document,
                 encryption |-> contents.encryption]
           a == Artifact(f)
<1>1. t = Signed(a)
  BY DEF TransporterArtifact
<1>2. /\ a = [x \in ArtifactFields |-> a[x]]
      /\ a.selector = s /\ a.document = contents.document
      /\ a.encryption = contents.encryption /\ a.signature = None
  BY DEF Artifact, ArtifactFields
<1> HIDE DEF a
<1>3. {"selector", "document", "encryption"} \subseteq ArtifactFields \ {"signature"}
  BY DEF ArtifactFields
<1> QED
  BY <1>1, <1>2, <1>3, SignedFields

\* So has an agent's artifact, whose encryption is null
LEMMA AgentFields ==
    ASSUME NEW p, NEW d, NEW t, t = AgentArtifact(p, d)
    PROVE  /\ t = [x \in ArtifactFields |-> t[x]]
           /\ t.action = p.action /\ t.agentId = "agent" /\ t.to = p.to
           /\ t.document = d /\ t.encryption = None /\ t.identity = None
           /\ t.signature = signBtpPayload(Unsigned(t), keyPair)
<1> DEFINE f == [action |-> p.action, agentId |-> "agent", to |-> p.to,
                 document |-> d]
           a == Artifact(f)
<1>1. t = Signed(a)
  BY DEF AgentArtifact
<1>2. /\ a = [x \in ArtifactFields |-> a[x]]
      /\ a.action = p.action /\ a.agentId = "agent" /\ a.to = p.to
      /\ a.document = d /\ a.encryption = None /\ a.identity = None
      /\ a.signature = None
  BY DEF Artifact, ArtifactFields
<1> HIDE DEF a
<1>3. {"action", "agentId", "to", "document", "encryption", "identity"}
         \subseteq ArtifactFields \ {"signature"}
  BY DEF ArtifactFields
<1> QED
  BY <1>1, <1>2, <1>3, SignedFields

\* What the pair has signed is verified with its public key
LEMMA SignedIsVerified ==
    ASSUME NEW t, keyPair = Pair, t.signature # None,
           t.signature = signBtpPayload(Unsigned(t), keyPair)
    PROVE  verifySignature(Unsigned(t), t.signature, Pair.publicKey)
<1>1. t.signature = [fingerprint |-> getFingerprintFromPem(Pair.publicKey),
                     value |-> [key |-> Pair.privateKey, of |-> Unsigned(t)]]
  BY DEF signBtpPayload
<1> QED
  BY <1>1 DEF verifySignature, Pair

\* A command that is carried to another identity has a document, no text
LEMMA CarriedIsDocument ==
    ASSUME NEW p, ForTransport(p), CommandFits(p.action, p.document)
    PROVE  p.document # None /\ ~p.document.text
<1> DEFINE schemas == <<"TrustReq", "TrustRes", "Invoice", "AuthReq",
                        "Query", "Mutation", "Ids", "Create">>
           parsed == IF p.document = None THEN None
                     ELSE Parsed(schemas, p.document)
<1>1. p.action \in AGENT_ACTIONS_REQUIRING_DOCUMENT
  BY DEF ForTransport, mappedTransporterAction, AGENT_ACTIONS_REQUIRING_DOCUMENT,
         TRUST_ACTIONS, ARTIFACT_ACTIONS
<1>2. parsed # None
  BY <1>1 DEF CommandFits, validateAgentDocument
<1>3. Parsed(schemas, p.document) # None
  BY <1>2
<1>4. PICK i \in DOMAIN schemas : Fits(schemas[i], p.document)
  BY <1>3, Zenon DEF Parsed
<1> QED
  BY <1>2, <1>4 DEF Fits

----------------------------------------------------------------------------
(* Each command.                                                           *)

\* Artifact a is what command p makes under the selector that is on it
MadeFrom(p, a) ==
    /\ CommandFits(p.action, p.document)
    /\ a.signature # None
    /\ IF ForTransport(p)
       THEN LET inner == a.document.artifact
                sealed == [document |-> IF p.encryption THEN Text ELSE p.document,
                           encryption |-> inner.encryption]
            IN  /\ a = AgentArtifact(p, AsDocument(inner))
                /\ inner = TransporterArtifact(p, sealed, inner.selector)
                /\ inner.signature # None
                /\ IF p.encryption
                   THEN /\ inner.encryption # None
                        /\ inner.encryption = [encryptedKey |-> <<p.to, inner.selector>>,
                                               sealed |-> p.document]
                   ELSE inner.encryption = None
       ELSE a = AgentArtifact(p, p.document)

HasMade(c) ==
    \/ place[c] = "made" \/ payload[c] # None
    \/ refusal[c] = None /\ outcome[c] # "idle"

\* Where a command waits says what has been found out, made and sent
CommandInv(c) ==
    /\ place[c] # "idle" => params[c] \in UNION {Params[d] : d \in Commands}
    /\ place[c] \in {"host", "key", "socket"} =>
          ForTransport(params[c]) /\ CommandFits(params[c].action, params[c].document)
    /\ place[c] = "key" => params[c].encryption
    /\ place[c] \in {"idle", "host", "key", "socket"} => payload[c] = None
    /\ place[c] \in {"idle", "host", "key", "socket", "made"} =>
          outcome[c] = "idle" /\ c \notin written
    /\ HasMade(c) => place[c] # "idle" /\ MadeFrom(params[c], payload[c])
    /\ refusal[c] = None /\ outcome[c] # "idle" =>
          BtpArtifactServerSchema(payload[c])
    /\ c \in written => refusal[c] = None /\ outcome[c] # "idle"
    /\ reply[c] # None => c \in written

AgentShape ==
    /\ DOMAIN place = Commands /\ DOMAIN params = Commands /\ DOMAIN payload = Commands
    /\ DOMAIN refusal = Commands /\ DOMAIN outcome = Commands
    /\ DOMAIN selector = Commands /\ DOMAIN reply = Commands
    /\ written \subseteq Commands

AgentInv == AgentShape /\ \A c \in Commands : CommandInv(c)

\* What is made of a document, sealed or not
LEMMA MadeForTransportIsMade ==
    ASSUME NEW c \in Commands, NEW contents, NEW s, NEW p, p = params[c],
           ForTransport(p), CommandFits(p.action, p.document),
           contents.document = IF p.encryption THEN Text ELSE p.document,
           IF p.encryption
           THEN /\ contents.encryption # None
                /\ contents.encryption = [encryptedKey |-> <<p.to, s>>,
                                          sealed |-> p.document]
           ELSE contents.encryption = None,
           contents = [document |-> contents.document,
                       encryption |-> contents.encryption],
           MadeForTransport(c, contents, s)
    PROVE  \/ Fails(c, "signature") /\ UNCHANGED payload
           \/ \E a : /\ MadeFrom(p, a) /\ a = [x \in ArtifactFields |-> a[x]]
                     /\ payload' = [payload EXCEPT ![c] = a]
                     /\ place' = [place EXCEPT ![c] = "made"] /\ UNCHANGED refusal
<1>1. PICK t : t = TransporterArtifact(p, contents, s)
  OBVIOUS
<1>2. PICK a : a = AgentArtifact(p, AsDocument(t))
  OBVIOUS
<1>3. CASE Fails(c, "signature") /\ UNCHANGED payload
  BY <1>3
<1>4. CASE /\ t.signature # None /\ a.signature # None
           /\ place' = [place EXCEPT ![c] = "made"] /\ UNCHANGED refusal
           /\ payload' = [payload EXCEPT ![c] = a]
  <2>1. t.selector = s /\ t.document = contents.document
        /\ t.encryption = contents.encryption
    BY <1>1, TransporterFields
  <2>2. a.document = AsDocument(t) /\ a = [x \in ArtifactFields |-> a[x]]
    BY <1>2, AgentFields
  <2>3. AsDocument(t).artifact = t
    BY DEF AsDocument
  <2>4. t = TransporterArtifact(p, [document |-> IF p.encryption THEN Text ELSE p.document,
                                    encryption |-> t.encryption], t.selector)
    BY <1>1, <2>1, Zenon
  <2>5. MadeFrom(p, a)
    BY <1>2, <1>4, <2>1, <2>2, <2>3, <2>4, Zenon DEF MadeFrom
  <2> QED
    BY <1>4, <2>2, <2>5
<1> QED
  BY <1>1, <1>2, <1>3, <1>4, Zenon DEF MadeForTransport, Made

\* What was made stays, since the key pair does
LEMMA MadeFromKept ==
    ASSUME NEW c, NEW p, NEW a, params'[c] = p, payload'[c] = a,
           keyPair' = keyPair, MadeFrom(p, a)
    PROVE  MadeFrom(params[c], payload[c])'
BY DEF MadeFrom, AgentArtifact, TransporterArtifact, Signed

\* A step of command c alone
Only(c) ==
    /\ keyPair' = keyPair /\ AgentShape'
    /\ \A d \in Commands \ {c} :
          /\ place'[d] = place[d] /\ params'[d] = params[d] /\ payload'[d] = payload[d]
          /\ refusal'[d] = refusal[d] /\ outcome'[d] = outcome[d]
          /\ reply'[d] = reply[d] /\ (d \in written' <=> d \in written)

LEMMA OnlyKeeps ==
    ASSUME AgentInv, NEW c, Only(c), c \in Commands => CommandInv(c)'
    PROVE  AgentInv'
<1> SUFFICES ASSUME NEW d \in Commands, d # c
             PROVE  CommandInv(d)'
  BY DEF AgentInv, Only
<1>1. /\ place'[d] = place[d] /\ params'[d] = params[d] /\ payload'[d] = payload[d]
      /\ refusal'[d] = refusal[d] /\ outcome'[d] = outcome[d]
      /\ reply'[d] = reply[d] /\ (d \in written' <=> d \in written)
      /\ keyPair' = keyPair
  BY DEF Only
<1>2. CommandInv(d)
  BY DEF AgentInv
<1>3. HasMade(d) => MadeFrom(params[d], payload[d])'
  BY <1>1, <1>2, MadeFromKept DEF CommandInv, HasMade
<1> QED
  BY <1>1, <1>2, <1>3 DEF CommandInv, HasMade

\* The command has made its artifact, or could not
LEMMA MadeKeeps ==
    ASSUME NEW c \in Commands, NEW p \in UNION {Params[d] : d \in Commands},
           AgentShape, AgentShape', keyPair' = keyPair, params'[c] = p,
           payload[c] = None, outcome'[c] = "idle", c \notin written', reply'[c] = None,
           \/ Fails(c, "signature") /\ UNCHANGED payload
           \/ \E a : /\ MadeFrom(p, a) /\ a = [x \in ArtifactFields |-> a[x]]
                     /\ payload' = [payload EXCEPT ![c] = a]
                     /\ place' = [place EXCEPT ![c] = "made"] /\ UNCHANGED refusal
    PROVE  CommandInv(c)'
<1>1. CASE Fails(c, "signature") /\ UNCHANGED payload
  BY <1>1 DEF Fails, CommandInv, HasMade, AgentShape
<1>2. ASSUME NEW a, MadeFrom(p, a), a = [x \in ArtifactFields |-> a[x]],
             payload' = [payload EXCEPT ![c] = a],
             place' = [place EXCEPT ![c] = "made"]
      PROVE  CommandInv(c)'
  <2>1. payload'[c] = a /\ place'[c] = "made"
    BY <1>2 DEF AgentShape
  <2>3. MadeFrom(params[c], payload[c])'
    BY <1>2, <2>1, MadeFromKept
  <2> QED
    BY <2>1, <2>3 DEF CommandInv, HasMade
<1> QED
  BY <1>1, <1>2

\* The command is called
LEMMA CommandKeeps ==
    ASSUME AgentInv, NEW c \in Commands, NEW p \in Params[c],
           Command(c, p)
    PROVE  AgentInv'
<1>1. /\ place[c] = "idle" /\ params'[c] = p
      /\ UNCHANGED <<keyPair, outcome, written, reply, selector>>
      /\ Only(c)
  BY DEF Command, AgentInv, AgentShape, Only, Fails, Made, sendVars, dnsVars
<1>2. /\ payload[c] = None /\ outcome'[c] = "idle"
      /\ c \notin written' /\ reply'[c] = None
  BY <1>1 DEF AgentInv, CommandInv, HasMade
<1>3. p \in UNION {Params[d] : d \in Commands}
  OBVIOUS
<1>4. CASE ~CommandFits(p.action, p.document)
  <2>1. place'[c] = "done" /\ payload' = payload
    BY <1>4 DEF Command, Fails, AgentInv, AgentShape
  <2> QED
    BY <1>1, <1>2, <1>3, <2>1, OnlyKeeps DEF CommandInv, HasMade
<1>5. CASE CommandFits(p.action, p.document) /\ ForTransport(p)
  <2>1. place'[c] = "host" /\ payload' = payload
    BY <1>5 DEF Command, AgentInv, AgentShape
  <2> QED
    BY <1>1, <1>2, <1>3, <1>5, <2>1, OnlyKeeps DEF CommandInv, HasMade
<1>6. CASE CommandFits(p.action, p.document) /\ ~ForTransport(p)
  <2>1. PICK a : a = AgentArtifact(p, p.document)
    OBVIOUS
  <2>2. a = [x \in ArtifactFields |-> a[x]]
    BY <2>1, AgentFields
  <2>3. \/ Fails(c, "signature") /\ UNCHANGED payload
        \/ /\ a.signature # None /\ payload' = [payload EXCEPT ![c] = a]
           /\ place' = [place EXCEPT ![c] = "made"] /\ UNCHANGED refusal
    BY <1>6, <2>1 DEF Command, Made
  <2>4. a.signature # None => MadeFrom(p, a)
    BY <1>6, <2>1 DEF MadeFrom
  <2>5. CommandInv(c)'
    BY <1>1, <1>2, <1>3, <2>2, <2>3, <2>4, MadeKeeps DEF AgentInv, Only
  <2> QED
    BY <1>1, <2>5, OnlyKeeps
<1> QED
  BY <1>4, <1>5, <1>6

\* The receiver's host and key are found
LEMMA FoundKeeps ==
    ASSUME AgentInv, NEW c \in Commands,
           HostFound(c) \/ KeyFound(c)
    PROVE  AgentInv'
<1> DEFINE p == params[c]
<1>1. /\ place[c] \in {"host", "key"} /\ UNCHANGED <<keyPair, params, sendVars>>
      /\ Only(c)
  BY DEF HostFound, KeyFound, AgentInv, AgentShape, Only, Fails, Made, MadeForTransport,
         sendVars, dnsVars
<1>2. /\ payload[c] = None /\ outcome'[c] = "idle"
      /\ c \notin written' /\ reply'[c] = None
      /\ p \in UNION {Params[d] : d \in Commands}
      /\ ForTransport(p) /\ CommandFits(p.action, p.document)
      /\ place[c] = "key" => p.encryption
  BY <1>1 DEF AgentInv, CommandInv, HasMade, sendVars
<1>3. ASSUME NEW contents, NEW s, MadeForTransport(c, contents, s),
             contents = [document |-> contents.document,
                         encryption |-> contents.encryption],
             contents.document = IF p.encryption THEN Text ELSE p.document,
             IF p.encryption
             THEN /\ contents.encryption # None
                  /\ contents.encryption = [encryptedKey |-> <<p.to, s>>,
                                            sealed |-> p.document]
             ELSE contents.encryption = None
      PROVE  AgentInv'
  <2>1. \/ Fails(c, "signature") /\ UNCHANGED payload
        \/ \E a : /\ MadeFrom(p, a) /\ a = [x \in ArtifactFields |-> a[x]]
                  /\ payload' = [payload EXCEPT ![c] = a]
                  /\ place' = [place EXCEPT ![c] = "made"] /\ UNCHANGED refusal
    BY <1>2, <1>3, MadeForTransportIsMade
  <2>2. CommandInv(c)'
    BY <1>1, <1>2, <2>1, MadeKeeps DEF AgentInv, Only
  <2> QED
    BY <1>1, <2>2, OnlyKeeps
<1>4. CASE HostFound(c)
  <2>1. PICK found : IF p.encryption
                     THEN /\ place' = [place EXCEPT ![c] = "key"] /\ UNCHANGED payload
                     ELSE MadeForTransport(c, Sealed(p, None), found)
    BY <1>4 DEF HostFound
  <2>2. CASE p.encryption
    <3>1. place'[c] = "key" /\ payload' = payload
      BY <2>1, <2>2 DEF AgentInv, AgentShape
    <3>2. CommandInv(c)'
      BY <1>1, <1>2, <2>2, <3>1 DEF CommandInv, HasMade
    <3> QED
      BY <1>1, <3>2, OnlyKeeps
  <2>3. CASE ~p.encryption
    <3>1. Sealed(p, None) = [document |-> p.document, encryption |-> None]
      BY <2>3 DEF Sealed
    <3> QED
      BY <1>3, <2>1, <2>3, <3>1
  <2> QED
    BY <2>2, <2>3
<1>5. CASE KeyFound(c)
  <2>1. PICK pem \in {<<p.to, selector[c]>>, Garbled} :
             LET contents == Sealed(p, pem) IN
             IF contents = None THEN Fails(c, "encryption") /\ UNCHANGED payload
             ELSE MadeForTransport(c, contents, selector[c])
    BY <1>5 DEF KeyFound
  <2>2. p.encryption
    BY <1>2, <1>5 DEF KeyFound
  <2>3. CASE Sealed(p, pem) = None
    <3>1. place'[c] = "done" /\ payload' = payload
      BY <2>1, <2>3 DEF Fails, AgentInv, AgentShape
    <3>2. CommandInv(c)'
      BY <1>1, <1>2, <3>1 DEF CommandInv, HasMade
    <3> QED
      BY <1>1, <3>2, OnlyKeeps
  <2>4. CASE Sealed(p, pem) # None
    <3> DEFINE e == encryptBtpPayload(p.document, pem)
    <3>1. e # None /\ Sealed(p, pem) = [document |-> Text, encryption |-> e]
      BY <2>2, <2>4, Zenon DEF Sealed
    <3>2. e = [encryptedKey |-> pem, sealed |-> p.document] /\ pem # Garbled
      BY <3>1 DEF encryptBtpPayload
    <3> HIDE DEF e
    <3>3. pem = <<p.to, selector[c]>>
      BY <3>2
    <3> QED
      BY <1>3, <2>1, <2>2, <2>4, <3>1, <3>2, <3>3
  <2> QED
    BY <2>3, <2>4
<1> QED
  BY <1>4, <1>5

\* Nothing is found, or a socket is to ask
LEMMA LookupKeeps ==
    ASSUME AgentInv, NEW c \in Commands, Lookup(c)
    PROVE  AgentInv'
<1>1. CASE HostFound(c) \/ KeyFound(c)
  BY <1>1, FoundKeeps
<1>2. CASE HostMissing(c) \/ KeyLookupThrows(c) \/ AskHost(c) \/ LookupSocketCloses(c)
  <2>1. /\ place[c] \in {"host", "key", "socket"} /\ place'[c] \in {"done", "socket"}
        /\ place[c] = "socket" => place'[c] = "done"
        /\ UNCHANGED <<keyPair, params, payload, sendVars>> /\ Only(c)
    BY <1>2 DEF HostMissing, KeyLookupThrows, AskHost, LookupSocketCloses, Fails,
                AgentInv, AgentShape, Only, sendVars, dnsVars
  <2>2. CommandInv(c)'
    BY <2>1 DEF AgentInv, CommandInv, HasMade, sendVars
  <2> QED
    BY <2>1, <2>2, OnlyKeeps
<1> QED
  BY <1>1, <1>2 DEF Lookup

\* What was made is sent on or refused
LEMMA SendKeeps ==
    ASSUME AgentInv, NEW c \in Commands, Send(c)
    PROVE  AgentInv'
<1>1. /\ place[c] = "made" /\ UNCHANGED <<keyPair, params, payload, written, reply>>
      /\ Only(c)
  BY DEF Send, Fails, AgentInv, AgentShape, Only, dnsVars
<1>2. /\ place'[c] \in {"done", "sent"} /\ outcome'[c] # "idle"
      /\ refusal'[c] = None => BtpArtifactServerSchema(payload[c])
  <2>1. CASE Refusal(c) # None
    BY <2>1 DEF Send, Fails, AgentInv, AgentShape
  <2>2. CASE Refusal(c) = None
    <3>1. BtpArtifactServerSchema(payload[c])
      BY <2>2, NoneAssumption DEF Refusal
    <3> QED
      BY <2>2, <3>1 DEF Send, AgentInv, AgentShape
  <2> QED
    BY <2>1, <2>2
<1>3. CommandInv(c)
  BY DEF AgentInv
<1>4. MadeFrom(params[c], payload[c])'
  BY <1>1, <1>3, MadeFromKept DEF CommandInv, HasMade
<1>5. CommandInv(c)'
  BY <1>1, <1>2, <1>3, <1>4 DEF CommandInv, HasMade
<1> QED
  BY <1>1, <1>5, OnlyKeeps

\* The client writes it, and the server answers
LEMMA WriteKeeps ==
    ASSUME AgentInv, NEW c \in Commands, Write(c) \/ Reply(c)
    PROVE  AgentInv'
<1>1. /\ UNCHANGED <<keyPair, place, params, payload, refusal, outcome>>
      /\ c \in written' => c \in written \/ (refusal[c] = None /\ outcome[c] # "idle")
      /\ reply'[c] # None => reply[c] # None \/ c \in written'
      /\ c \in written => c \in written'
      /\ Only(c)
  BY DEF Write, Reply, AgentInv, AgentShape, Only, dnsVars, makeVars
<1>2. CommandInv(c)
  BY DEF AgentInv
<1>3. HasMade(c) => MadeFrom(params[c], payload[c])'
  BY <1>1, <1>2, MadeFromKept DEF CommandInv, HasMade
<1>4. CommandInv(c)'
  BY <1>1, <1>2, <1>3 DEF CommandInv, HasMade
<1> QED
  BY <1>1, <1>4, OnlyKeeps

\* The call settles
LEMMA SettlesKeeps ==
    ASSUME AgentInv, NEW c \in Commands, Settles(c)
    PROVE  AgentInv'
<1>1. /\ outcome[c] = "pending" /\ outcome'[c] # "idle" /\ place'[c] = "done"
      /\ UNCHANGED <<keyPair, params, payload, refusal, written, reply>>
      /\ Only(c)
  BY DEF Settles, Receive, Settle, AgentInv, AgentShape, Only, dnsVars
<1>2. CommandInv(c)
  BY DEF AgentInv
<1>3. HasMade(c) => MadeFrom(params[c], payload[c])'
  BY <1>1, <1>2, MadeFromKept DEF CommandInv, HasMade
<1>4. CommandInv(c)'
  BY <1>1, <1>2, <1>3 DEF CommandInv, HasMade
<1> QED
  BY <1>1, <1>4, OnlyKeeps

\* Keys that come and go do not touch what is made
LEMMA OthersKeep ==
    ASSUME AgentInv,
           \/ Destroy \/ UNCHANGED agentVars
           \/ \E i \in Publishers : Rotate(i) \/ Retire(i)
    PROVE  AgentInv'
<1>1. UNCHANGED <<keyPair, makeVars, outcome, written, reply>>
  BY DEF Destroy, Rotate, Retire, agentVars, makeVars, sendVars
<1>2. ASSUME NEW c \in Commands
      PROVE  CommandInv(c)'
  <2>1. CommandInv(c)
    BY DEF AgentInv
  <2>2. HasMade(c) => MadeFrom(params[c], payload[c])'
    BY <1>1, <2>1, MadeFromKept DEF CommandInv, HasMade, makeVars
  <2> QED
    BY <1>1, <2>1, <2>2 DEF CommandInv, HasMade, makeVars
<1> QED
  BY <1>1, <1>2 DEF AgentInv, AgentShape, makeVars

LEMMA AgentStep ==
    ASSUME AgentInv, [AgentNext]_agentVars
    PROVE  AgentInv'
BY CommandKeeps, LookupKeeps, SendKeeps, WriteKeeps, SettlesKeeps, OthersKeep
   DEF AgentNext

LEMMA AgentCorrect == AgentSpec => []AgentInv
<1>1. AgentInit => AgentInv
  BY DEF AgentInit, AgentInv, AgentShape, CommandInv, HasMade
<1>2. AgentInv /\ [AgentNext]_agentVars => AgentInv'
  BY AgentStep
<1> QED
  BY <1>1, <1>2, PTL DEF AgentSpec

----------------------------------------------------------------------------
(* What is read.                                                           *)

\* Verified with a key that opens nothing, an artifact is what it was
LEMMA PlainIsRead ==
    ASSUME NoneIsNoFunction, NEW pem, NEW t, t = [x \in ArtifactFields |-> t[x]],
           verifySignature(Unsigned(t), t.signature, pem),
           NEW key, key = None \/ t.encryption = None
    PROVE  /\ decryptVerify(pem, t, key) # None
           /\ decryptVerify(pem, t, key).document = t.document
<1>1. decryptVerify(pem, t, key) = [t EXCEPT !.document = t.document]
  BY Zenon DEF decryptVerify, Unsigned
<1>2. [t EXCEPT !.document = t.document] = t
  OBVIOUS
<1>3. t # None
  BY DEF NoneIsNoFunction
<1> QED
  BY <1>1, <1>2, <1>3

\* What is sealed is read with the receiver's key
LEMMA SealedIsOpened ==
    ASSUME NoneIsNoFunction, NEW pem, NEW t, t = [x \in ArtifactFields |-> t[x]],
           verifySignature(Unsigned(t), t.signature, pem),
           NEW key, key # None, NEW d, d # None, ~d.text,
           t.document = Text, t.encryption # None,
           t.encryption = [encryptedKey |-> key, sealed |-> d]
    PROVE  /\ decryptVerify(pem, t, key) # None
           /\ decryptVerify(pem, t, key).document = d
<1>1. Text # None /\ Text.text
  BY DEF Text, NoneIsNoFunction
<1>2. decryptBtpPayload(t.encryption, key) = d
  BY DEF decryptBtpPayload
<1>3. decryptVerify(pem, t, key) = [t EXCEPT !.document = d]
  BY <1>1, <1>2, Zenon DEF decryptVerify, Unsigned
<1> DEFINE r == [t EXCEPT !.document = d]
<1>4. r = [x \in DOMAIN r |-> r[x]] /\ r.document = d
  BY DEF ArtifactFields
<1> HIDE DEF r
<1>5. r # None
  BY <1>4 DEF NoneIsNoFunction
<1> QED
  BY <1>3, <1>4, <1>5 DEF r

LEMMA CommandIsRead ==
    ASSUME NoneIsNoFunction, AgentInv
    PROVE  ReadsAsCommanded
<1> SUFFICES ASSUME NEW c \in Commands, payload[c] # None, keyPair = Pair
             PROVE  LET outer == decryptVerify(Pair.publicKey, payload[c], None)
                        inner == outer.document.artifact
                        read  == decryptVerify(Pair.publicKey, inner,
                                               <<params[c].to, inner.selector>>)
                    IN  /\ outer # None
                        /\ IF ForTransport(params[c])
                           THEN /\ read # None /\ read.document = params[c].document
                                /\ params[c].encryption => inner.document = Text
                           ELSE outer.document = params[c].document
  BY DEF ReadsAsCommanded
<1> DEFINE a == payload[c]
           p == params[c]
           outer == decryptVerify(Pair.publicKey, a, None)
           inner == outer.document.artifact
           read == decryptVerify(Pair.publicKey, inner, <<p.to, inner.selector>>)
<1> SUFFICES /\ outer # None
             /\ IF ForTransport(p)
                THEN /\ read # None /\ read.document = p.document
                     /\ p.encryption => inner.document = Text
                ELSE outer.document = p.document
  OBVIOUS
<1>1. MadeFrom(p, a) /\ p.encryption \in BOOLEAN
  BY ParamsAssumption DEF AgentInv, CommandInv, HasMade
<1> HIDE DEF p
<1>2. ASSUME NEW d, a = AgentArtifact(p, d), a.signature # None
      PROVE  outer # None /\ outer.document = d
  <2>1. /\ a = [x \in ArtifactFields |-> a[x]] /\ a.document = d
        /\ a.signature = signBtpPayload(Unsigned(a), keyPair)
    BY <1>2, AgentFields
  <2>2. verifySignature(Unsigned(a), a.signature, Pair.publicKey)
    BY <1>2, <2>1, SignedIsVerified
  <2> QED
    BY <2>1, <2>2, PlainIsRead
<1>3. CASE ~ForTransport(p)
  BY <1>1, <1>2, <1>3 DEF MadeFrom
<1>4. CASE ForTransport(p)
  <2>1. PICK i : i = a.document.artifact
    OBVIOUS
  <2> DEFINE sealed == [document |-> IF p.encryption THEN Text ELSE p.document,
                        encryption |-> i.encryption]
  <2>2. /\ a.signature # None /\ a = AgentArtifact(p, AsDocument(i))
        /\ i = TransporterArtifact(p, sealed, i.selector) /\ i.signature # None
        /\ IF p.encryption
           THEN /\ i.encryption # None
                /\ i.encryption = [encryptedKey |-> <<p.to, i.selector>>,
                                   sealed |-> p.document]
           ELSE i.encryption = None
    BY <1>1, <1>4, <2>1, Zenon DEF MadeFrom
  <2>3. outer # None /\ outer.document = AsDocument(i)
    BY <1>2, <2>2
  <2>4. inner = i /\ read = decryptVerify(Pair.publicKey, i, <<p.to, i.selector>>)
    BY <2>3 DEF AsDocument
  <2> HIDE DEF read, inner, outer, a, p
  <2>5. /\ i = [x \in ArtifactFields |-> i[x]]
        /\ i.document = IF p.encryption THEN Text ELSE p.document
        /\ i.signature = signBtpPayload(Unsigned(i), keyPair)
    BY <2>2, TransporterFields
  <2>6. verifySignature(Unsigned(i), i.signature, Pair.publicKey)
    BY <2>2, <2>5, SignedIsVerified
  <2>7. p.document # None /\ ~p.document.text
    BY <1>1, <1>4, CarriedIsDocument DEF MadeFrom
  <2>8. <<p.to, i.selector>> # None
    BY DEF NoneIsNoFunction
  <2>9. CASE p.encryption
    BY <1>4, <2>2, <2>3, <2>4, <2>5, <2>6, <2>7, <2>8, <2>9, SealedIsOpened
  <2>10. CASE ~p.encryption
    BY <1>4, <2>2, <2>3, <2>4, <2>5, <2>6, <2>10, PlainIsRead
  <2> QED
    BY <1>1, <2>9, <2>10
<1> QED
  BY <1>3, <1>4

\* Whatever the pair of the agent signs and the key of the receiver seals, the
\* receiver reads what was commanded
THEOREM CommandsAreRead == NoneIsNoFunction => (AgentSpec => []ReadsAsCommanded)
<1> SUFFICES ASSUME NoneIsNoFunction PROVE AgentSpec => []ReadsAsCommanded
  OBVIOUS
<1>1. AgentInv => ReadsAsCommanded
  BY CommandIsRead
<1> QED
  BY <1>1, AgentCorrect, PTL

LEMMA WrittenIsAgents ==
    ASSUME AgentInv
    PROVE  ServerReadsAgent
<1> SUFFICES ASSUME NEW c \in written, NEW a, a = payload[c]
             PROVE  ParsedType(a) = "agent"
  BY DEF ServerReadsAgent
<1>1. /\ MadeFrom(params[c], a) /\ BtpArtifactServerSchema(a)
      /\ params[c] \in UNION {Params[d] : d \in Commands}
  BY DEF AgentInv, CommandInv, HasMade, AgentShape
<1>2. PICK d : a = AgentArtifact(params[c], d)
  BY <1>1, Zenon DEF MadeFrom
<1>3. /\ a.action = params[c].action /\ a.agentId = "agent" /\ a.to = params[c].to
      /\ a.identity = None
  BY <1>2, AgentFields
<1>4. a.signature # None /\ a.action \in AGENT_ACTIONS
  BY <1>1, <1>3 DEF MadeFrom, CommandFits
<1>5. a.action # None /\ a.agentId # None /\ a.to # None
  BY <1>1, <1>3, <1>4, NoneAssumption, ParamsAssumption
<1> QED
  BY <1>1, <1>3, <1>4, <1>5
  DEF ParsedType, isBtpsControlArtifact, isBtpsTransportArtifact,
      isBtpsIdentityRequest, isBtpsAgentArtifact, Present, Absent

\* The server takes whatever the agent writes for an agent's artifact
THEOREM AgentIsKnown == AgentSpec => []ServerReadsAgent
<1>1. AgentInv => ServerReadsAgent
  BY WrittenIsAgents
<1> QED
  BY <1>1, AgentCorrect, PTL

\* Each step of the agent is one of the client that RequestReply has, or none
LEMMA StepIsClients ==
    ASSUME AgentInv, [AgentNext]_agentVars
    PROVE  [Client!Next]_Client!vars
<1> USE DEF AgentInv, AgentShape
<1>1. ASSUME NEW c \in Commands, Send(c)
      PROVE  Client!Refuse(c) \/ Client!Accept(c)
  <2>1. outcome[c] = "idle"
    BY <1>1 DEF Send, CommandInv
  <2>2. Refusal(c) = None => ~isDestroyed
    BY NoneAssumption DEF Refusal
  <2> QED
    BY <1>1, <2>1, <2>2 DEF Send, Client!Refuse, Client!Accept
<1>2. ASSUME NEW c \in Commands, Write(c)
      PROVE  Client!Write(c)
  BY <1>2 DEF Write, Client!Write
<1>3. ASSUME NEW c \in Commands, NEW f \in {"error", "timeout"},
             outcome[c] = "pending", outcome' = [outcome EXCEPT ![c] = f],
             UNCHANGED <<isDestroyed, written>>
      PROVE  Client!Next
  <2>1. outcome' = [d \in Commands |-> IF d \in {c} THEN f ELSE outcome[d]]
    BY <1>3
  <2>2. Client!Fail({c}, f) /\ {c} \in SUBSET Commands /\ f \in Client!Failures
    BY <1>3, <2>1 DEF Client!Fail, Client!Failures
  <2> QED
    BY <2>2 DEF Client!Next
<1>4. ASSUME NEW c \in Commands, Receive(c), verifyServerMessage(reply[c])
      PROVE  Client!Answer(c, c)
  <2>1. c \in written
    BY <1>4 DEF Receive, CommandInv
  <2> QED
    BY <1>4, <2>1 DEF Receive, Client!Answer
<1>5. ASSUME NEW c \in Commands, Settles(c)
      PROVE  Client!Next
  <2>1. CASE Receive(c) /\ verifyServerMessage(reply[c])
    BY <1>4, <2>1 DEF Client!Next
  <2>2. CASE Receive(c) /\ ~verifyServerMessage(reply[c])
    BY <1>3, <2>2 DEF Receive
  <2>3. ASSUME NEW f \in {"error", "timeout"}, Settle(c, f)
        PROVE  Client!Next
    BY <1>3, <2>3 DEF Settle
  <2> QED
    BY <1>5, <2>1, <2>2, <2>3 DEF Settles
<1>6. CASE Destroy
  BY <1>6 DEF Destroy, Client!Next, Client!Close
<1>7. CASE UNCHANGED <<outcome, written, isDestroyed>>
  BY <1>7 DEF Client!vars
<1>8. ASSUME NEW c \in Commands,
             Reply(c) \/ Lookup(c) \/ \E p \in Params[c] : Command(c, p)
      PROVE  UNCHANGED <<outcome, written, isDestroyed>>
  BY <1>8 DEF Reply, Lookup, Command, HostFound, HostMissing, KeyFound,
              KeyLookupThrows, AskHost, LookupSocketCloses, sendVars
<1>9. CASE (\E i \in Publishers : Rotate(i) \/ Retire(i)) \/ UNCHANGED agentVars
  BY <1>7, <1>9 DEF Rotate, Retire, agentVars, sendVars
<1> QED
  BY <1>1, <1>2, <1>5, <1>6, <1>7, <1>8, <1>9 DEF AgentNext, Client!Next

\* The agent uses the client as RequestReply has it
THEOREM AgentKeepsPromise == AgentSpec => SendSpec
<1>1. AgentInit => Client!Init
  BY DEF AgentInit, Client!Init
<1>2. AgentInv /\ [AgentNext]_agentVars => [Client!Next]_Client!vars
  BY StepIsClients
<1> QED
  BY <1>1, <1>2, AgentCorrect, PTL DEF AgentSpec, SendSpec, Client!Spec
=============================================================================
