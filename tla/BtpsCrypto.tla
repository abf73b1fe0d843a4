---------------------------- MODULE BtpsCrypto ----------------------------
(***************************************************************************)
(* Encryption and signatures, with the keys as symbols: a key pair is one  *)
(* value, its public and its private part the same.  None as a result      *)
(* stands for an exception.                                                *)
(***************************************************************************)
EXTENDS BtpsSchemas

CONSTANT Garbled     \* a text that is no key

\* createPublicKey() throws on what is no public key
getFingerprintFromPem(pem) == IF pem = Garbled THEN None ELSE pem

\* The private key signs, the fingerprint is that of the public one: nobody
\* looks at whether they belong together
signBtpPayload(payload, pemFiles) ==
    IF pemFiles.privateKey = Garbled
       \/ getFingerprintFromPem(pemFiles.publicKey) = None
    THEN None
    ELSE [fingerprint |-> getFingerprintFromPem(pemFiles.publicKey),
          value |-> [key |-> pemFiles.privateKey, of |-> payload]]

verifySignature(payload, signature, senderPubPem) ==
    /\ signature.fingerprint = getFingerprintFromPem(senderPubPem)
    /\ signature.value = [key |-> senderPubPem, of |-> payload]

\* A fresh AES key seals the payload, the receiver's RSA key the AES key
encryptBtpPayload(payload, receiverPubPem) ==
    IF receiverPubPem = Garbled THEN None
    ELSE [encryptedKey |-> receiverPubPem, sealed |-> payload]

\* Only the receiver's key gives the AES key back; JSON.parse() then throws
\* on a text, which was sealed as it is
decryptBtpPayload(encryption, receiverPrivPem) ==
    IF encryption.encryptedKey # receiverPrivPem \/ encryption.sealed.text
    THEN None
    ELSE encryption.sealed

\* The document is sealed for a receiver that is given with a selector, and
\* whose key there is, when encryption is asked for; all is signed then
signEncrypt(to, receiverPubPem, pemFiles, payload, encrypting) ==
    LET receiver == to # None /\ payload.selector # None
        sealing == receiver /\ encrypting
        encryption == encryptBtpPayload(payload.document, receiverPubPem)
        docToSign == IF sealing
                     THEN [payload EXCEPT !.document = Text,
                                          !.encryption = encryption]
                     ELSE [payload EXCEPT !.encryption = None]
        signature == signBtpPayload(docToSign, pemFiles)
    IN  IF \/ receiver /\ receiverPubPem = None
           \/ sealing /\ encryption = None
           \/ signature = None
        THEN None
        ELSE [docToSign EXCEPT !.signature = signature]

\* The signature covers all but itself (and a delegation, which no artifact
\* here has: BtpsDelegation has them).  A sealed text is opened when there is a
\* key to open it with, and else left as it is
decryptVerify(senderPubPem, artifact, receiverPrivatePem) ==
    LET rest == [artifact EXCEPT !.signature = None]
        needsDecryption == /\ artifact.encryption # None
                           /\ receiverPrivatePem # None
                           /\ artifact.document # None
                           /\ artifact.document.text
        document == IF needsDecryption
                    THEN decryptBtpPayload(artifact.encryption,
                                           receiverPrivatePem)
                    ELSE artifact.document
    IN  IF \/ ~verifySignature(rest, artifact.signature, senderPubPem)
           \/ needsDecryption /\ document = None
        THEN None
        ELSE [artifact EXCEPT !.document = document]
=============================================================================
