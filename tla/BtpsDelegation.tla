--------------------------- MODULE BtpsDelegation ---------------------------
(***************************************************************************)
(* Artifacts on their way from a device to a server that verifies them: a  *)
(* device signs with the key of its identity, or with its own key and lets *)
(* BtpsDelegator delegate; the delegator signs in its own name, or has the *)
(* identity's key sign and attests.  The server (verifySignature) looks up *)
(* each key in the DNS, while identities change their keys.  Some of the   *)
(* artifacts come from other implementations of the protocol, which may    *)
(* name and sign what this one would not.                                  *)
(*                                                                         *)
(* A signature is its key and all that was signed; a key is its identity   *)
(* and selector, or the device's.  A field that is absent is not in the    *)
(* domain of its record.  A step is the code between two awaits.           *)
(***************************************************************************)
EXTENDS Naturals

CONSTANTS
    Identities,
    Domains,
    DomainOf,      \* the domain of each identity
    Delegator,     \* the identity of the delegator
    Device,        \* the key of the device
    MaxSelector,   \* the last selector of each domain: bounds its rotations
    Artifacts,     \* the artifacts that are sent: bounds a behaviour
    Others,        \* those of other implementations
    OtherKeys,     \* the keys these sign with
    InitCalls,     \* the calls of init() that can be under way at a time
    None           \* JavaScript's undefined

ASSUME DomainAssumption   == DomainOf \in [Identities -> Domains]
ASSUME DelegatorAssumption == Delegator \in Identities
ASSUME SelectorAssumption == MaxSelector \in [Domains -> Nat]

VARIABLES
    published,     \* the selectors under which each identity has a key record
    hostSelector,  \* the selector in the host record of each domain
    delegator,     \* the delegator's private key, selector and isInitialized
    asked,         \* the selector each init() looks up the key of, None if none
    pc,            \* where each artifact is
    message,       \* what it is by now
    keyPair,       \* onBehalfOf of its delegateArtifact()
    again          \* whether an init() came upon another's work (a history)

dnsVars == <<published, hostSelector>>
vars == <<dnsVars, delegator, asked, pc, message, keyPair, again>>

Selectors == Nat \ {0}
Keys      == (Identities \X Selectors) \cup {Device}
Verdicts  == {"valid", "invalid", "thrown"}

ASSUME NoneAssumption == None \notin Keys \cup Selectors
ASSUME OthersAssumption == Others \subseteq Artifacts /\ OtherKeys \subseteq Keys

\* what getHostAndSelector() finds for identity i, and its key in use
Selector(i) == hostSelector[DomainOf[i]]
CurrentKey(i) == <<i, Selector(i)>>

----------------------------------------------------------------------------
(* Signatures.                                                             *)

\* record r without field f
Without(r, f) == [x \in DOMAIN r \ {f} |-> r[x]]

\* record r with its field f set to v
With(r, f, v) == [x \in DOMAIN r \cup {f} |-> IF x = f THEN v ELSE r[x]]

\* signBtpPayload()
SignBtpPayload(payload, key) == [key |-> key, of |-> payload]

\* verifySignature() of crypto
VerifySignature(payload, signature, key) ==
    signature = SignBtpPayload(payload, key)

\* resolvePublicKey(): the key, None without a record
ResolvePublicKey(i, selector) ==
    IF selector \in published[i] THEN <<i, selector>> ELSE None

----------------------------------------------------------------------------
(* The device and the delegator.                                           *)

\* An artifact from identity i: its selector is what the sender takes for
\* the one in use
Payload(w, i) == [id |-> w, from |-> i, selector |-> Selector(i)]
Signed(w, i, key) ==
    With(Payload(w, i), "signature", SignBtpPayload(Payload(w, i), key))

\* createDelegation(): what is signed is the artifact with the delegation
CreateDelegation(m, signer, key, selector) ==
    LET delegation == [agentPubKey |-> Device, signedBy |-> signer,
                       selector |-> selector]
    IN  With(delegation, "signature",
             SignBtpPayload(With(m, "delegation", delegation), key))

\* createAttestation(): what is signed is the delegation with the attestation
CreateAttestation(delegation, key, selector) ==
    LET attestation == [signedBy |-> Delegator, selector |-> selector]
    IN  With(attestation, "signature",
             SignBtpPayload(With(delegation, "attestation", attestation), key))

Init ==
    /\ published = [i \in Identities |-> {1}]
    /\ hostSelector = [d \in Domains |-> 1]
    /\ delegator = [key |-> <<Delegator, 1>>, selector |-> 1, isInitialized |-> FALSE]
    /\ asked = [k \in InitCalls |-> None]
    /\ pc = [w \in Artifacts |-> "idle"]
    /\ message = [w \in Artifacts |-> None]
    /\ keyPair = [w \in Artifacts |-> None]
    /\ again = FALSE

\* init(), which the constructor calls and does not await and the owner may
\* call too, has got the selector and asks for its key
SelectorFound(k) ==
    /\ asked[k] = None
    /\ delegator' = [delegator EXCEPT !.selector = Selector(Delegator)]
    /\ asked' = [asked EXCEPT ![k] = Selector(Delegator)]
    /\ again' = (\/ again \/ delegator.isInitialized
                 \/ \E j \in InitCalls \ {k} : asked[j] # None)
    /\ UNCHANGED <<dnsVars, pc, message, keyPair>>

\* Mutant of KeyFound: isKeyPairMatching() is not asked
KeyFoundAny(k) ==
    /\ asked[k] # None
    /\ ResolvePublicKey(Delegator, asked[k]) # None
    /\ delegator' = [delegator EXCEPT !.isInitialized = TRUE]
    /\ asked' = [asked EXCEPT ![k] = None]
    /\ UNCHANGED <<dnsVars, pc, message, keyPair, again>>

\* ... and the key record, which holds the public key of its private key; the
\* selector may be another's by now
KeyFound(k) ==
    /\ asked[k] # None
    /\ ResolvePublicKey(Delegator, asked[k]) = delegator.key
    /\ delegator' = [delegator EXCEPT !.isInitialized = TRUE]
    /\ asked' = [asked EXCEPT ![k] = None]
    /\ UNCHANGED <<dnsVars, pc, message, keyPair, again>>

\* ... or another one, or none, or the DNS fails: the call throws
InitThrows(k) ==
    /\ asked[k] # None
    /\ asked' = [asked EXCEPT ![k] = None]
    /\ UNCHANGED <<dnsVars, delegator, pc, message, keyPair, again>>

\* The device sends an artifact of identity i with its key
Send(w, i) ==
    /\ pc[w] = "idle"
    /\ message' = [message EXCEPT ![w] = Signed(w, i, CurrentKey(i))]
    /\ pc' = [pc EXCEPT ![w] = "sent"]
    /\ UNCHANGED <<dnsVars, delegator, asked, keyPair, again>>

\* delegateArtifact(): the delegator signs
Delegate(w, i) ==
    /\ pc[w] = "idle" /\ delegator.isInitialized
    /\ LET m == Signed(w, i, Device) IN
       message' = [message EXCEPT ![w] = With(m, "delegation",
          CreateDelegation(m, Delegator, delegator.key, delegator.selector))]
    /\ pc' = [pc EXCEPT ![w] = "sent"]
    /\ UNCHANGED <<dnsVars, delegator, asked, keyPair, again>>

\* delegateArtifact() on behalf of identity j, with its keys, up to the await
DelegateOnBehalf(w, i, j) ==
    /\ pc[w] = "idle" /\ delegator.isInitialized
    /\ keyPair' = [keyPair EXCEPT ![w] = CurrentKey(j)]
    /\ message' = [message EXCEPT ![w] = Signed(w, i, Device)]
    /\ pc' = [pc EXCEPT ![w] = "delegating"]
    /\ UNCHANGED <<dnsVars, delegator, asked, again>>

\* That identity signs and the delegator attests, both with the selector that
\* was found for the identity
Attest(w) ==
    /\ pc[w] = "delegating"
    /\ LET m == message[w]
           signer == keyPair[w][1]
           selector == Selector(signer)
           d == CreateDelegation(m, signer, keyPair[w], selector)
       IN  message' = [message EXCEPT ![w] = With(m, "delegation",
              With(d, "attestation", CreateAttestation(d, delegator.key, selector)))]
    /\ pc' = [pc EXCEPT ![w] = "sent"]
    /\ UNCHANGED <<dnsVars, delegator, asked, keyPair, again>>

\* The identity's selector is not found
DelegateThrows(w) ==
    /\ pc[w] = "delegating"
    /\ pc' = [pc EXCEPT ![w] = "failed"]
    /\ UNCHANGED <<dnsVars, delegator, asked, message, keyPair, again>>

----------------------------------------------------------------------------
(* Other implementations of the protocol.                                  *)

Arrive(w, m) ==
    /\ pc[w] = "idle"
    /\ message' = [message EXCEPT ![w] = m]
    /\ pc' = [pc EXCEPT ![w] = "sent"]
    /\ UNCHANGED <<dnsVars, delegator, asked, keyPair, again>>

\* An artifact of identity i is signed with some key
SentByOther(w, i, own) == Arrive(w, Signed(w, i, own))

\* ... and delegated by identity j, with some key
DelegatedByOther(w, i, j, own, key) ==
    LET m == Signed(w, i, own) IN
    Arrive(w, With(m, "delegation", CreateDelegation(m, j, key, Selector(j))))

\* ... after it was attested: the delegation is signed with its attestation
AttestedByOther(w, i, j, own, key) ==
    LET m == Signed(w, i, own)
        terms == [agentPubKey |-> Device, signedBy |-> j, selector |-> Selector(j)]
        d == With(terms, "attestation",
                  CreateAttestation(terms, CurrentKey(Delegator), Selector(Delegator)))
    IN  Arrive(w, With(m, "delegation",
                       With(d, "signature", SignBtpPayload(With(m, "delegation", d), key))))

\* One is sent with the delegation of another
ReusedByOther(w, v, i) ==
    /\ pc[v] # "idle" /\ "delegation" \in DOMAIN message[v]
    /\ Arrive(w, With(Signed(w, i, Device), "delegation", message[v].delegation))

----------------------------------------------------------------------------
(* The server.                                                             *)

Delegated(m) == "delegation" \in DOMAIN m
Attested(m)  == Delegated(m) /\ "attestation" \in DOMAIN m.delegation

\* isDelegationAllowed()
IsDelegationAllowed(m) ==
    \/ m.from = m.delegation.signedBy
    \/ DomainOf[m.from] = DomainOf[m.delegation.signedBy]

\* Mutant of LacksAttestation: none is required
LacksNothing(m) == FALSE

\* an attestation is required and there is none
LacksAttestation(m) == m.delegation.signedBy = m.from /\ ~Attested(m)

\* what verifyAttestation() finds, with the attestor's key
AttestationHolds(m, key) ==
    LET attestation == m.delegation.attestation IN
    /\ key # None
    /\ VerifySignature(With(m.delegation, "attestation", Without(attestation, "signature")),
                       attestation.signature, key)

\* what verifyDelegation() finds in the end, with the key of the one who
\* signed the delegation
DelegationHolds(m, key) ==
    LET artifact == Without(m, "delegation") IN
    /\ key # None
    /\ VerifySignature(With(m, "delegation", Without(m.delegation, "signature")),
                       m.delegation.signature, key)
    /\ VerifySignature(Without(artifact, "signature"), artifact.signature,
                       m.delegation.agentPubKey)

\* what verifySignature() finds without a delegation
ArtifactHolds(m, key) ==
    /\ key # None
    /\ VerifySignature(Without(m, "signature"), m.signature, key)

Verdict(w, holds) == pc' = [pc EXCEPT ![w] = IF holds THEN "valid" ELSE "invalid"]

\* verifySignature() begins, and looks up a key unless it refuses at once
Verify(w) ==
    /\ pc[w] = "sent"
    /\ LET m == message[w] IN
       IF Delegated(m) /\ (~IsDelegationAllowed(m) \/ LacksAttestation(m))
       THEN Verdict(w, FALSE)
       ELSE pc' = [pc EXCEPT ![w] = IF Attested(m) THEN "attestor"
                                    ELSE IF Delegated(m) THEN "signer" ELSE "sender"]
    /\ UNCHANGED <<dnsVars, delegator, asked, message, keyPair, again>>

\* The key of the attestor is looked up: on to that of the signer
AttestorResolved(w) ==
    /\ pc[w] = "attestor"
    /\ LET m == message[w]
           a == m.delegation.attestation
       IN  IF AttestationHolds(m, ResolvePublicKey(a.signedBy, a.selector))
           THEN pc' = [pc EXCEPT ![w] = "signer"]
           ELSE Verdict(w, FALSE)
    /\ UNCHANGED <<dnsVars, delegator, asked, message, keyPair, again>>

\* The key of the one who signed the delegation is
SignerResolved(w) ==
    /\ pc[w] = "signer"
    /\ LET d == message[w].delegation IN
       Verdict(w, DelegationHolds(message[w], ResolvePublicKey(d.signedBy, d.selector)))
    /\ UNCHANGED <<dnsVars, delegator, asked, message, keyPair, again>>

\* The key of the sender is
SenderResolved(w) ==
    /\ pc[w] = "sender"
    /\ LET m == message[w] IN
       Verdict(w, ArtifactHolds(m, ResolvePublicKey(m.from, m.selector)))
    /\ UNCHANGED <<dnsVars, delegator, asked, message, keyPair, again>>

\* The DNS fails
LookupThrows(w) ==
    /\ pc[w] \in {"attestor", "signer", "sender"}
    /\ pc' = [pc EXCEPT ![w] = "thrown"]
    /\ UNCHANGED <<dnsVars, delegator, asked, message, keyPair, again>>

----------------------------------------------------------------------------
(* The DNS.                                                                *)

\* A domain rotates: its identities publish keys under a new selector
Rotate(d) ==
    /\ hostSelector[d] < MaxSelector[d]
    /\ hostSelector' = [hostSelector EXCEPT ![d] = @ + 1]
    /\ published' = [i \in Identities |->
          IF DomainOf[i] = d THEN published[i] \cup {hostSelector[d] + 1} ELSE published[i]]
    /\ UNCHANGED <<delegator, asked, pc, message, keyPair, again>>

\* An old key is removed
Retire(i, selector) ==
    /\ selector # Selector(i)
    /\ published' = [published EXCEPT ![i] = @ \ {selector}]
    /\ UNCHANGED <<hostSelector, delegator, asked, pc, message, keyPair, again>>

Next ==
    \/ \E k \in InitCalls : SelectorFound(k) \/ KeyFound(k) \/ InitThrows(k)
    \/ \E w \in Artifacts \ Others, i \in Identities :
          \/ Send(w, i) \/ Delegate(w, i)
          \/ \E j \in Identities : DelegateOnBehalf(w, i, j)
    \/ \E w \in Others, i \in Identities :
          \/ \E own \in OtherKeys \cup {Device} :
                \/ SentByOther(w, i, own)
                \/ \E j \in Identities, key \in OtherKeys :
                      \/ DelegatedByOther(w, i, j, own, key)
                      \/ AttestedByOther(w, i, j, own, key)
          \/ \E v \in Artifacts : ReusedByOther(w, v, i)
    \/ \E w \in Artifacts :
          \/ Attest(w) \/ DelegateThrows(w)
          \/ Verify(w) \/ AttestorResolved(w) \/ SignerResolved(w) \/ SenderResolved(w)
          \/ LookupThrows(w)
    \/ \E d \in Domains : Rotate(d)
    \/ \E i \in Identities : \E selector \in published[i] : Retire(i, selector)

Spec == Init /\ [][Next]_vars

----------------------------------------------------------------------------
(* Properties.                                                             *)

\* who has signed for the identity an artifact is from, as what, and how
Signer(m)    == IF Delegated(m) THEN m.delegation.signedBy ELSE m.from
SignedAs(m)  == <<Signer(m), IF Delegated(m) THEN m.delegation.selector ELSE m.selector>>
Authority(m) == IF Delegated(m) THEN m.delegation.signature ELSE m.signature
SignedBy(m)  == Authority(m).key

\* its key record was removed
Retired(m) == SignedAs(m)[2] \notin published[Signer(m)]

\* The delegator names a selector that is not its key's.  An init() does that
\* when the domain has rotated and another one was successful before, which
\* stays initialized although this one fails, or is under way, which then
\* finds the key it asked for.
Mismatched(m) == SignedBy(m) # SignedAs(m) /\ again

\* "maintaining backward compatibility" (keyRotation.md): an artifact this
\* library has made without attestation is found invalid only when the
\* delegation is not allowed, the key it was signed with is not published any
\* more, or init() calls have met: keys may be rotated and old ones retired
\* while it is made, sent and verified, and whoever signs signs what the
\* server verifies.
HonestIsValid ==
    \A w \in Artifacts \ Others :
        pc[w] = "invalid" /\ ~Attested(message[w]) =>
            \/ Retired(message[w]) \/ Mismatched(message[w])
            \/ /\ Delegated(message[w])
               /\ \/ message[w].from = Delegator
                  \/ DomainOf[message[w].from] # DomainOf[Delegator]

\* Whichever implementation it is from, an artifact that is found valid has
\* the signature of its identity, or of another one of that domain as its
\* delegator, by the key of the selector named; over this artifact and
\* sender, not over one it was taken from; and by the device delegated to.
\* A delegation by the identity itself never is: it needs an attestation, and
\* neither of the two signatures can be over the other one.
ValidIsAuthorised ==
    \A w \in Artifacts :
        pc[w] = "valid" =>
            LET m == message[w] IN
            /\ Authority(m).key = SignedAs(m)
            /\ Authority(m).of.id = w /\ Authority(m).of.from = m.from
            /\ Delegated(m) => /\ Signer(m) # m.from
                               /\ DomainOf[Signer(m)] = DomainOf[m.from]
                               /\ m.signature.key = m.delegation.agentPubKey
                               /\ ~Attested(m)

\* "Decorates a BTPTransporterArtifact with delegation and attestation as
\* needed" (classApiReference.md): what the delegator has attested is valid,
\* where a delegation is allowed, as long as nobody changes a key.
AttestedIsValid ==
    \A w \in Artifacts \ Others :
        /\ pc[w] = "invalid" /\ Attested(message[w])
        /\ IsDelegationAllowed(message[w])
        => \E d \in Domains : hostSelector[d] > 1
=============================================================================
