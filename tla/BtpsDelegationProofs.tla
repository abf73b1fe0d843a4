----------------------- MODULE BtpsDelegationProofs -----------------------
(***************************************************************************)
(* Proofs about BtpsDelegation, for any identities, domains, keys and      *)
(* artifacts.                                                              *)
(***************************************************************************)
EXTENDS BtpsDelegation, TLAPS

USE DomainAssumption, DelegatorAssumption, SelectorAssumption, NoneAssumption,
    OthersAssumption

----------------------------------------------------------------------------
(* Records whose fields come and go.                                       *)

\* Of two values of a field the last one counts
LEMMA WithTwice ==
    ASSUME NEW r, NEW f, NEW u, NEW v
    PROVE  With(With(r, f, u), f, v) = With(r, f, v)
BY DEF With

\* A field that is set and taken away leaves the record it was set in
LEMMA WithoutWith ==
    ASSUME NEW r, NEW f, NEW v, r = [x \in DOMAIN r |-> r[x]], f \notin DOMAIN r
    PROVE  Without(With(r, f, v), f) = r
<1>1. DOMAIN With(r, f, v) \ {f} = DOMAIN r
  BY DEF With
<1>2. \A x \in DOMAIN r : With(r, f, v)[x] = r[x]
  BY DEF With
<1> QED
  BY <1>1, <1>2 DEF Without

----------------------------------------------------------------------------
(* The steps.                                                              *)

\* of this library up to the artifact that is sent
Makes(w, i) ==
    \/ Send(w, i) \/ Delegate(w, i)
    \/ \E j \in Identities : DelegateOnBehalf(w, i, j)

\* of the server, and of this library after an await
Goes(w) ==
    \/ Attest(w) \/ DelegateThrows(w)
    \/ Verify(w) \/ AttestorResolved(w) \/ SignerResolved(w) \/ SenderResolved(w)
    \/ LookupThrows(w)

\* Whatever another implementation makes arrives
LEMMA NextKinds ==
    ASSUME Next
    PROVE  \/ \E k \in InitCalls : SelectorFound(k) \/ KeyFound(k) \/ InitThrows(k)
           \/ \E w \in Artifacts \ Others, i \in Identities : Makes(w, i)
           \/ \E w \in Others : \E m : Arrive(w, m)
           \/ \E w \in Artifacts : Goes(w)
           \/ \E d \in Domains : Rotate(d)
           \/ \E i \in Identities : \E selector \in published[i] : Retire(i, selector)
<1>1. ASSUME NEW w \in Others, NEW i \in Identities, NEW own, SentByOther(w, i, own)
      PROVE  \E m : Arrive(w, m)
  BY <1>1 DEF SentByOther
<1>2. ASSUME NEW w \in Others, NEW i \in Identities, NEW j \in Identities, NEW own,
             NEW key, DelegatedByOther(w, i, j, own, key)
      PROVE  \E m : Arrive(w, m)
  BY <1>2 DEF DelegatedByOther
<1>3. ASSUME NEW w \in Others, NEW i \in Identities, NEW j \in Identities, NEW own,
             NEW key, AttestedByOther(w, i, j, own, key)
      PROVE  \E m : Arrive(w, m)
  BY <1>3 DEF AttestedByOther
<1>4. ASSUME NEW w \in Others, NEW v \in Artifacts, NEW i \in Identities,
             ReusedByOther(w, v, i)
      PROVE  \E m : Arrive(w, m)
  BY <1>4 DEF ReusedByOther
<1> QED
  BY <1>1, <1>2, <1>3, <1>4 DEF Next, Makes, Goes

----------------------------------------------------------------------------
(* What is authorised.                                                     *)

\* Of the signatures of an attested delegation one was made before the other,
\* and is not over it: that of the delegation or that of the attestation
First(d) == /\ "signature" \in DOMAIN d
            /\ "attestation" \notin DOMAIN d.signature.of.delegation
Second(d) == /\ "signature" \in DOMAIN d
             /\ "signature" \notin DOMAIN d.attestation.signature.of

\* what an artifact is at least, whichever implementation it is from
Whole(w, m) ==
    /\ {"id", "from", "signature"} \subseteq DOMAIN m
    /\ m.id = w
    /\ Attested(m) => First(m.delegation) \/ Second(m.delegation)

\* A delegation is looked into when it is allowed only, and what attests it
\* comes after it
Checked(w) ==
    LET m == message[w] IN
    /\ pc[w] # "idle" => Whole(w, m)
    /\ pc[w] \in {"attestor", "signer"} =>
          Delegated(m) /\ IsDelegationAllowed(m) /\ ~LacksAttestation(m)
    /\ pc[w] = "signer" /\ Attested(m) => First(m.delegation)
    /\ pc[w] = "sender" => ~Delegated(m)

\* what ValidIsAuthorised says of one artifact
Authorised(w) ==
    LET m == message[w] IN
    /\ Authority(m).key = SignedAs(m)
    /\ Authority(m).of.id = w /\ Authority(m).of.from = m.from
    /\ Delegated(m) => /\ Signer(m) # m.from
                       /\ DomainOf[Signer(m)] = DomainOf[m.from]
                       /\ m.signature.key = m.delegation.agentPubKey
                       /\ ~Attested(m)

LEMMA AllAuthorised ==
    /\ ValidIsAuthorised <=> \A w \in Artifacts : pc[w] = "valid" => Authorised(w)
    /\ ValidIsAuthorised' <=> \A w \in Artifacts : pc'[w] = "valid" => Authorised(w)'
BY DEF ValidIsAuthorised, Authorised

Shape == DOMAIN pc = Artifacts /\ DOMAIN message = Artifacts
AuthorisedInv == Shape /\ ValidIsAuthorised /\ \A w \in Artifacts : Checked(w)

LEMMA SignedIsWhole ==
    ASSUME NEW w, NEW i, NEW key
    PROVE  Whole(w, Signed(w, i, key)) /\ ~Delegated(Signed(w, i, key))
<1> DEFINE payload == Payload(w, i)
           m == Signed(w, i, key)
<1>1. DOMAIN payload = {"id", "from", "selector"} /\ payload.id = w
  BY DEF Payload
<1>2. m = With(payload, "signature", SignBtpPayload(payload, key))
  BY DEF Signed
<1> HIDE DEF payload, m
<1>3. DOMAIN m = {"id", "from", "selector", "signature"} /\ m.id = w
  BY <1>1, <1>2 DEF With
<1> QED
  BY <1>3 DEF Whole, Attested, Delegated, m

\* A delegation is put into an artifact
LEMMA WithDelegation ==
    ASSUME NEW w, NEW m, NEW d, Whole(w, m),
           "attestation" \in DOMAIN d => First(d) \/ Second(d)
    PROVE  Whole(w, With(m, "delegation", d))
<1> DEFINE n == With(m, "delegation", d)
<1>1. /\ DOMAIN n = DOMAIN m \cup {"delegation"} /\ n.delegation = d
      /\ \A x \in DOMAIN m : x # "delegation" => n[x] = m[x]
  BY DEF With
<1> HIDE DEF n
<1>2. {"id", "from", "signature"} \subseteq DOMAIN n /\ n.id = w
  BY <1>1 DEF Whole
<1> QED
  BY <1>1, <1>2 DEF Whole, Attested, n

\* What createDelegation() makes is signed without an attestation
LEMMA CreatedFirst ==
    ASSUME NEW m, NEW signer, NEW key, NEW selector
    PROVE  LET d == CreateDelegation(m, signer, key, selector) IN
           /\ "attestation" \notin DOMAIN d
           /\ \A a : First(With(d, "attestation", a))
<1> DEFINE delegation == [agentPubKey |-> Device, signedBy |-> signer,
                          selector |-> selector]
           signature == SignBtpPayload(With(m, "delegation", delegation), key)
           d == CreateDelegation(m, signer, key, selector)
<1>1. d = With(delegation, "signature", signature)
  BY DEF CreateDelegation
<1>2. DOMAIN delegation = {"agentPubKey", "signedBy", "selector"}
  OBVIOUS
<1>3. signature.of.delegation = delegation
  <2>1. signature.of = With(m, "delegation", delegation)
    BY DEF SignBtpPayload
  <2> QED
    BY <2>1 DEF With
<1> HIDE DEF delegation, signature, d
<1>4. DOMAIN d = {"agentPubKey", "signedBy", "selector", "signature"}
      /\ d.signature = signature
  BY <1>1, <1>2 DEF With
<1>5. ASSUME NEW a
      PROVE  First(With(d, "attestation", a))
  <2>1. /\ DOMAIN With(d, "attestation", a) = DOMAIN d \cup {"attestation"}
        /\ With(d, "attestation", a).signature = signature
    BY <1>4 DEF With
  <2> QED
    BY <1>2, <1>3, <1>4, <2>1 DEF First
<1> QED
  BY <1>4, <1>5 DEF d

\* What another implementation makes is attested without a signature
LEMMA AttestedSecond ==
    ASSUME NEW j, NEW s, NEW u, NEW key, NEW f
    PROVE  LET terms == [agentPubKey |-> Device, signedBy |-> j, selector |-> s]
               d == With(terms, "attestation", CreateAttestation(terms, key, u))
           IN  Second(With(d, "signature", f))
<1> DEFINE terms == [agentPubKey |-> Device, signedBy |-> j, selector |-> s]
           attestation == [signedBy |-> Delegator, selector |-> u]
           signature == SignBtpPayload(With(terms, "attestation", attestation), key)
           a == CreateAttestation(terms, key, u)
           d == With(terms, "attestation", a)
           e == With(d, "signature", f)
<1>1. a = With(attestation, "signature", signature)
  BY DEF CreateAttestation
<1>2. "signature" \notin DOMAIN terms
  OBVIOUS
<1>3. signature.of = With(terms, "attestation", attestation)
  BY DEF SignBtpPayload
<1> HIDE DEF terms, attestation, signature, a
<1>4. a.signature = signature
  BY <1>1 DEF With
<1>5. e.attestation = a
  BY DEF With
<1>6. "signature" \notin DOMAIN signature.of
  BY <1>2, <1>3 DEF With
<1> HIDE DEF d, e
<1>7. Second(e)
  <2>1. "signature" \in DOMAIN e
    BY DEF e, With
  <2> QED
    BY <1>4, <1>5, <1>6, <2>1 DEF Second
<1> QED
  BY <1>7 DEF terms, a, d, e

\* An attestation that verifies was made after the delegation was signed
LEMMA AttestationIsLater ==
    ASSUME NEW w, NEW m, NEW key, Whole(w, m), Attested(m), AttestationHolds(m, key)
    PROVE  First(m.delegation)
<1> DEFINE d == m.delegation
           rest == With(d, "attestation", Without(d.attestation, "signature"))
<1>1. d.attestation.signature = SignBtpPayload(rest, key)
  BY DEF AttestationHolds, VerifySignature
<1>2. d.attestation.signature.of = rest
  BY <1>1 DEF SignBtpPayload
<1>3. DOMAIN d \subseteq DOMAIN rest
  BY DEF With
<1>4. ~Second(d)
  BY <1>2, <1>3 DEF Second
<1> QED
  BY <1>4 DEF Whole

\* What verifies as a delegation is signed over this artifact without an
\* attestation, by the key looked up, and by the device
LEMMA DelegationIsOver ==
    ASSUME NEW w, NEW m, NEW key, Whole(w, m), Delegated(m),
           Attested(m) => First(m.delegation), DelegationHolds(m, key)
    PROVE  /\ m.delegation.signature.key = key
           /\ m.delegation.signature.of.id = w
           /\ m.delegation.signature.of.from = m.from
           /\ m.signature.key = m.delegation.agentPubKey
           /\ ~Attested(m)
<1> DEFINE d == m.delegation
           rest == With(m, "delegation", Without(d, "signature"))
           artifact == Without(m, "delegation")
<1>1. /\ d.signature = SignBtpPayload(rest, key)
      /\ artifact.signature = SignBtpPayload(Without(artifact, "signature"), d.agentPubKey)
  BY DEF DelegationHolds, VerifySignature
<1>2. d.signature.key = key /\ d.signature.of = rest
  BY <1>1 DEF SignBtpPayload
<1>3. rest.id = m.id /\ rest.from = m.from /\ rest.delegation = Without(d, "signature")
  BY DEF Whole, With
<1>4. artifact.signature = m.signature
  BY DEF Whole, Without
<1>5. m.signature.key = d.agentPubKey
  BY <1>1, <1>4 DEF SignBtpPayload
<1>6. ASSUME Attested(m)
      PROVE  FALSE
  <2>1. "attestation" \in DOMAIN Without(d, "signature")
    BY <1>6 DEF Attested, Without
  <2> QED
    BY <1>2, <1>3, <1>6, <2>1 DEF First
<1> QED
  BY <1>2, <1>3, <1>5, <1>6 DEF Whole

\* An artifact that is left alone is as good as before
LEMMA CheckedStays ==
    ASSUME AuthorisedInv, Shape',
           NEW w \in Artifacts,
           \A v \in Artifacts : v # w => pc'[v] = pc[v] /\ message'[v] = message[v],
           Checked(w)',
           pc'[w] = "valid" => pc[w] = "valid" /\ message'[w] = message[w]
    PROVE  AuthorisedInv'
<1>1. \A v \in Artifacts : Checked(v)'
  BY DEF AuthorisedInv, Checked
<1>2. ValidIsAuthorised'
  BY DEF AuthorisedInv, ValidIsAuthorised
<1> QED
  BY <1>1, <1>2 DEF AuthorisedInv

\* An artifact that arrives whole is in order
LEMMA ArriveStep ==
    ASSUME AuthorisedInv, NEW w \in Artifacts, NEW m, Arrive(w, m), Whole(w, m)
    PROVE  AuthorisedInv'
<1>1. /\ Shape' /\ pc'[w] = "sent" /\ message'[w] = m
      /\ \A v \in Artifacts : v # w => pc'[v] = pc[v] /\ message'[v] = message[v]
  BY DEF Arrive, AuthorisedInv, Shape
<1>2. Checked(w)'
  BY <1>1 DEF Checked, Whole, Attested, Delegated
<1> QED
  BY <1>1, <1>2, CheckedStays

\* Whatever an artifact consists of, nothing of it changes while it is
\* verified, and a signature that holds is that of the key looked up
LEMMA AuthorisedStep ==
    ASSUME AuthorisedInv, [Next]_vars
    PROVE  AuthorisedInv'
<1> USE DEF vars, dnsVars
<1>1. CASE UNCHANGED <<pc, message>>
  BY <1>1 DEF AuthorisedInv, Shape, ValidIsAuthorised, Checked
<1>2. ASSUME NEW w \in Artifacts, NEW i \in Identities, Send(w, i)
      PROVE  AuthorisedInv'
  <2>1. Arrive(w, Signed(w, i, CurrentKey(i)))
    BY <1>2 DEF Send, Arrive
  <2> QED
    BY <2>1, SignedIsWhole, ArriveStep
<1>3. ASSUME NEW w \in Artifacts, NEW i \in Identities, NEW j \in Identities,
             NEW own, NEW key, NEW selector,
             LET m == Signed(w, i, own) IN
             Arrive(w, With(m, "delegation", CreateDelegation(m, j, key, selector)))
      PROVE  AuthorisedInv'
  <2> DEFINE m == Signed(w, i, own)
             d == CreateDelegation(m, j, key, selector)
  <2>1. Whole(w, With(m, "delegation", d))
    <3>1. "attestation" \notin DOMAIN d
      BY CreatedFirst
    <3>2. Whole(w, m)
      BY SignedIsWhole
    <3> HIDE DEF m, d
    <3> QED
      BY <3>1, <3>2, WithDelegation
  <2>2. Arrive(w, With(m, "delegation", d))
    BY <1>3
  <2> HIDE DEF m, d
  <2> QED
    BY <2>1, <2>2, ArriveStep
<1>4. ASSUME NEW w \in Artifacts, NEW i \in Identities, Delegate(w, i)
      PROVE  AuthorisedInv'
  <2>1. LET m == Signed(w, i, Device) IN
        Arrive(w, With(m, "delegation",
               CreateDelegation(m, Delegator, delegator.key, delegator.selector)))
    BY <1>4 DEF Delegate, Arrive
  <2> QED
    BY <1>3, <2>1
<1>5. ASSUME NEW w \in Artifacts, NEW i \in Identities, NEW j \in Identities,
             DelegateOnBehalf(w, i, j)
      PROVE  AuthorisedInv'
  <2>1. /\ Shape' /\ pc'[w] = "delegating" /\ message'[w] = Signed(w, i, Device)
        /\ \A v \in Artifacts : v # w => pc'[v] = pc[v] /\ message'[v] = message[v]
    BY <1>5 DEF DelegateOnBehalf, AuthorisedInv, Shape
  <2>2. Whole(w, Signed(w, i, Device))
    BY SignedIsWhole
  <2>3. Checked(w)'
    BY <2>1, <2>2 DEF Checked, Whole, Attested, Delegated
  <2> QED
    BY <2>1, <2>3, CheckedStays
<1>6. ASSUME NEW w \in Artifacts, Attest(w)
      PROVE  AuthorisedInv'
  <2> DEFINE m == message[w]
             signer == keyPair[w][1]
             d == CreateDelegation(m, signer, keyPair[w], Selector(signer))
             e == With(d, "attestation",
                       CreateAttestation(d, delegator.key, Selector(signer)))
  <2>1. First(e)
    BY CreatedFirst
  <2>2. Whole(w, m)
    BY <1>6 DEF Attest, AuthorisedInv, Checked
  <2>3. /\ Shape' /\ pc'[w] = "sent" /\ message'[w] = With(m, "delegation", e)
        /\ \A v \in Artifacts : v # w => pc'[v] = pc[v] /\ message'[v] = message[v]
    BY <1>6 DEF Attest, AuthorisedInv, Shape
  <2> HIDE DEF e
  <2>4. Whole(w, With(m, "delegation", e))
    BY <2>1, <2>2, WithDelegation
  <2>5. Checked(w)'
    BY <2>3, <2>4 DEF Checked, Whole, Attested, Delegated
  <2> QED
    BY <2>3, <2>5, CheckedStays
<1>7. ASSUME NEW w \in Artifacts, NEW i \in Identities, NEW own, SentByOther(w, i, own)
      PROVE  AuthorisedInv'
  BY <1>7, SignedIsWhole, ArriveStep DEF SentByOther
<1>8. ASSUME NEW w \in Artifacts, NEW i \in Identities, NEW j \in Identities,
             NEW own, NEW key, DelegatedByOther(w, i, j, own, key)
      PROVE  AuthorisedInv'
  BY <1>3, <1>8 DEF DelegatedByOther
<1>9. ASSUME NEW w \in Artifacts, NEW i \in Identities, NEW j \in Identities,
             NEW own, NEW key, AttestedByOther(w, i, j, own, key)
      PROVE  AuthorisedInv'
  <2> DEFINE m == Signed(w, i, own)
             terms == [agentPubKey |-> Device, signedBy |-> j, selector |-> Selector(j)]
             d == With(terms, "attestation",
                       CreateAttestation(terms, CurrentKey(Delegator), Selector(Delegator)))
             e == With(d, "signature", SignBtpPayload(With(m, "delegation", d), key))
  <2>1. Second(e)
    BY AttestedSecond
  <2>2. Whole(w, m)
    BY SignedIsWhole
  <2>3. Arrive(w, With(m, "delegation", e))
    BY <1>9 DEF AttestedByOther
  <2> HIDE DEF m, e
  <2> QED
    BY <2>1, <2>2, <2>3, WithDelegation, ArriveStep
<1>10. ASSUME NEW w \in Artifacts, NEW v \in Artifacts, NEW i \in Identities,
              ReusedByOther(w, v, i)
       PROVE  AuthorisedInv'
  <2> DEFINE m == Signed(w, i, Device)
             d == message[v].delegation
  <2>1. "attestation" \in DOMAIN d => First(d) \/ Second(d)
    BY <1>10 DEF ReusedByOther, AuthorisedInv, Checked, Whole, Attested, Delegated
  <2>2. Whole(w, m)
    BY SignedIsWhole
  <2>3. Arrive(w, With(m, "delegation", d))
    BY <1>10 DEF ReusedByOther
  <2> HIDE DEF m, d
  <2> QED
    BY <2>1, <2>2, <2>3, WithDelegation, ArriveStep
<1>11. ASSUME NEW w \in Artifacts, UNCHANGED message, Shape',
              \A v \in Artifacts : v # w => pc'[v] = pc[v], Whole(w, message[w]),
              \/ pc'[w] \in {"failed", "invalid", "thrown"}
              \/ pc'[w] = "valid" /\ Authorised(w)
              \/ pc'[w] = "sender" /\ ~Delegated(message[w])
              \/ /\ pc'[w] \in {"attestor", "signer"}
                 /\ Delegated(message[w]) /\ IsDelegationAllowed(message[w])
                 /\ ~LacksAttestation(message[w])
                 /\ pc'[w] = "signer" /\ Attested(message[w])
                       => First(message[w].delegation)
       PROVE  AuthorisedInv'
  <2>1. Checked(w)'
    BY <1>11 DEF Checked, Whole, Attested, Delegated, IsDelegationAllowed, LacksAttestation
  <2>2. \A v \in Artifacts : Checked(v)'
    BY <1>11, <2>1 DEF AuthorisedInv, Checked
  <2>3. Authorised(w) => Authorised(w)'
    BY <1>11 DEF Authorised, Authority, SignedAs, Signer, Attested, Delegated
  <2>4. \A v \in Artifacts \ {w} : Authorised(v) => Authorised(v)'
    BY <1>11 DEF Authorised, Authority, SignedAs, Signer, Attested, Delegated
  <2>5. \A v \in Artifacts : pc'[v] = "valid" => Authorised(v)'
    BY <1>11, <2>3, <2>4, AllAuthorised DEF AuthorisedInv
  <2> QED
    BY <1>11, <2>2, <2>5, AllAuthorised DEF AuthorisedInv
<1>12. ASSUME NEW w \in Artifacts, DelegateThrows(w)
       PROVE  AuthorisedInv'
  BY <1>11, <1>12 DEF DelegateThrows, AuthorisedInv, Shape, Checked
<1>13. ASSUME NEW w \in Artifacts, Verify(w)
       PROVE  AuthorisedInv'
  <2>1. /\ Shape' /\ UNCHANGED message /\ Whole(w, message[w])
        /\ \A v \in Artifacts : v # w => pc'[v] = pc[v]
    BY <1>13 DEF Verify, Verdict, AuthorisedInv, Shape, Checked
  <2>2. \/ pc'[w] = "invalid"
        \/ pc'[w] = "sender" /\ ~Delegated(message[w])
        \/ /\ pc'[w] = "attestor" \/ (pc'[w] = "signer" /\ ~Attested(message[w]))
           /\ Delegated(message[w]) /\ IsDelegationAllowed(message[w])
           /\ ~LacksAttestation(message[w])
    BY <1>13 DEF Verify, Verdict, AuthorisedInv, Shape, Attested
  <2> QED
    BY <1>11, <2>1, <2>2
<1>14. ASSUME NEW w \in Artifacts, AttestorResolved(w)
       PROVE  AuthorisedInv'
  <2> DEFINE m == message[w]
             key == ResolvePublicKey(m.delegation.attestation.signedBy,
                                     m.delegation.attestation.selector)
  <2>1. /\ Shape' /\ UNCHANGED message /\ Whole(w, message[w])
        /\ \A v \in Artifacts : v # w => pc'[v] = pc[v]
        /\ Delegated(m) /\ IsDelegationAllowed(m) /\ ~LacksAttestation(m)
    BY <1>14 DEF AttestorResolved, Verdict, AuthorisedInv, Shape, Checked
  <2>2. \/ pc'[w] = "invalid"
        \/ pc'[w] = "signer" /\ AttestationHolds(m, key)
    BY <1>14 DEF AttestorResolved, Verdict, AuthorisedInv, Shape
  <2>3. Attested(m) /\ AttestationHolds(m, key) => First(m.delegation)
    BY <2>1, AttestationIsLater
  <2> HIDE DEF key
  <2> QED
    BY <1>11, <2>1, <2>2, <2>3
<1>15. ASSUME NEW w \in Artifacts, SignerResolved(w)
       PROVE  AuthorisedInv'
  <2> DEFINE m == message[w]
             key == ResolvePublicKey(m.delegation.signedBy, m.delegation.selector)
  <2>1. /\ Shape' /\ UNCHANGED message /\ Whole(w, m)
        /\ \A v \in Artifacts : v # w => pc'[v] = pc[v]
        /\ Delegated(m) /\ IsDelegationAllowed(m) /\ ~LacksAttestation(m)
        /\ Attested(m) => First(m.delegation)
    BY <1>15 DEF SignerResolved, Verdict, AuthorisedInv, Shape, Checked
  <2>2. \/ pc'[w] = "invalid"
        \/ pc'[w] = "valid" /\ DelegationHolds(m, key)
    BY <1>15 DEF SignerResolved, Verdict, AuthorisedInv, Shape
  <2>3. ASSUME DelegationHolds(m, key)
        PROVE  Authorised(w)
    <3>1. key = <<m.delegation.signedBy, m.delegation.selector>>
      BY <2>3 DEF DelegationHolds, ResolvePublicKey
    <3> HIDE DEF key
    <3>2. /\ m.delegation.signature.key = key
          /\ m.delegation.signature.of.id = w
          /\ m.delegation.signature.of.from = m.from
          /\ m.signature.key = m.delegation.agentPubKey
          /\ ~Attested(m)
      BY <2>1, <2>3, DelegationIsOver
    <3> QED
      BY <2>1, <3>1, <3>2
      DEF Authorised, Authority, SignedAs, Signer, IsDelegationAllowed, LacksAttestation
  <2> HIDE DEF key
  <2> QED
    BY <1>11, <2>1, <2>2, <2>3
<1>16. ASSUME NEW w \in Artifacts, SenderResolved(w)
       PROVE  AuthorisedInv'
  <2> DEFINE m == message[w]
             key == ResolvePublicKey(m.from, m.selector)
  <2>1. /\ Shape' /\ UNCHANGED message /\ Whole(w, m)
        /\ \A v \in Artifacts : v # w => pc'[v] = pc[v]
        /\ ~Delegated(m)
    BY <1>16 DEF SenderResolved, Verdict, AuthorisedInv, Shape, Checked
  <2>2. \/ pc'[w] = "invalid"
        \/ pc'[w] = "valid" /\ ArtifactHolds(m, key)
    BY <1>16 DEF SenderResolved, Verdict, AuthorisedInv, Shape
  <2>3. ASSUME ArtifactHolds(m, key)
        PROVE  Authorised(w)
    <3>1. key = <<m.from, m.selector>>
      BY <2>3 DEF ArtifactHolds, ResolvePublicKey
    <3> HIDE DEF key
    <3>2. m.signature.key = key /\ m.signature.of = Without(m, "signature")
      BY <2>3 DEF ArtifactHolds, VerifySignature, SignBtpPayload
    <3>3. Without(m, "signature").id = w /\ Without(m, "signature").from = m.from
      BY <2>1 DEF Whole, Without
    <3> QED
      BY <2>1, <3>1, <3>2, <3>3 DEF Authorised, Authority, SignedAs, Signer
  <2> HIDE DEF key
  <2> QED
    BY <1>11, <2>1, <2>2, <2>3
<1>17. ASSUME NEW w \in Artifacts, LookupThrows(w)
       PROVE  AuthorisedInv'
  BY <1>11, <1>17 DEF LookupThrows, AuthorisedInv, Shape, Checked
<1>18. ASSUME NEW w \in Artifacts, Goes(w)
       PROVE  AuthorisedInv'
  BY <1>6, <1>12, <1>13, <1>14, <1>15, <1>16, <1>17, <1>18 DEF Goes
<1>19. ASSUME NEW w \in Artifacts, NEW i \in Identities, Makes(w, i)
       PROVE  AuthorisedInv'
  BY <1>2, <1>4, <1>5, <1>19 DEF Makes
<1>20. ASSUME NEW w \in Others, NEW i \in Identities,
              \/ \E own \in OtherKeys \cup {Device} :
                    \/ SentByOther(w, i, own)
                    \/ \E j \in Identities, key \in OtherKeys :
                          \/ DelegatedByOther(w, i, j, own, key)
                          \/ AttestedByOther(w, i, j, own, key)
              \/ \E v \in Artifacts : ReusedByOther(w, v, i)
       PROVE  AuthorisedInv'
  BY <1>7, <1>8, <1>9, <1>10, <1>20, OthersAssumption
<1>21. CASE Next
  BY <1>1, <1>18, <1>19, <1>20, <1>21
  DEF Next, Goes, Makes, SelectorFound, KeyFound, InitThrows, Rotate, Retire
<1> QED
  BY <1>1, <1>21 DEF vars

\* Whichever implementation an artifact is from, and whoever changes keys
\* meanwhile: what is found valid was signed by a key of its identity, or of a
\* delegator of its domain, over this very artifact.
THEOREM OnlyAuthorised == Spec => []ValidIsAuthorised
<1>1. Init => AuthorisedInv
  BY DEF Init, AuthorisedInv, Shape, ValidIsAuthorised, Checked
<1>2. AuthorisedInv /\ [Next]_vars => AuthorisedInv'
  BY AuthorisedStep
<1>3. AuthorisedInv => ValidIsAuthorised
  BY DEF AuthorisedInv
<1> QED
  BY <1>1, <1>2, <1>3, PTL DEF Spec

----------------------------------------------------------------------------
(* What honest senders make.                                               *)

\* An artifact w from identity i that names selector s, signed with key
Sent(w, i, s, key) ==
    LET payload == [id |-> w, from |-> i, selector |-> s] IN
    With(payload, "signature", SignBtpPayload(payload, key))

\* ... and delegated by the delegator, under its selector t
ByDelegator(w, i, s, t) ==
    LET m == Sent(w, i, s, Device) IN
    With(m, "delegation", CreateDelegation(m, Delegator, <<Delegator, 1>>, t))

LEMMA SentFields ==
    ASSUME NEW w, NEW i, NEW s, NEW key
    PROVE  LET m == Sent(w, i, s, key) IN
               /\ ~Delegated(m) /\ "delegation" \notin DOMAIN m
               /\ m = [x \in DOMAIN m |-> m[x]]
               /\ m.from = i /\ m.selector = s
               /\ m.signature = SignBtpPayload(Without(m, "signature"), key)
               /\ m.signature.key = key
<1> DEFINE payload == [id |-> w, from |-> i, selector |-> s]
           m == Sent(w, i, s, key)
<1>1. m = With(payload, "signature", SignBtpPayload(payload, key))
  BY DEF Sent
<1>2. /\ DOMAIN payload = {"id", "from", "selector"}
      /\ payload = [x \in DOMAIN payload |-> payload[x]]
      /\ payload.from = i /\ payload.selector = s
  OBVIOUS
<1> HIDE DEF payload
<1>3. /\ DOMAIN m = {"id", "from", "selector", "signature"}
      /\ m.from = i /\ m.selector = s /\ m.signature = SignBtpPayload(payload, key)
  BY <1>1, <1>2 DEF With
<1>4. Without(m, "signature") = payload
  BY <1>1, <1>2, WithoutWith
<1>5. m = [x \in DOMAIN m |-> m[x]]
  BY <1>1 DEF With
<1>6. m.signature.key = key
  BY <1>3 DEF SignBtpPayload
<1> QED
  BY <1>3, <1>4, <1>5, <1>6 DEF Delegated, payload

\* What a sender has signed with a key verifies with that key
LEMMA SentHolds ==
    ASSUME NEW w, NEW i, NEW s, NEW key, key # None
    PROVE  ArtifactHolds(Sent(w, i, s, key), key)
BY SentFields DEF ArtifactHolds, VerifySignature

LEMMA DelegatedFields ==
    ASSUME NEW w, NEW i, NEW s, NEW t
    PROVE  LET m == ByDelegator(w, i, s, t) IN
               /\ Delegated(m) /\ ~Attested(m) /\ m.from = i
               /\ m.delegation.signedBy = Delegator /\ m.delegation.selector = t
               /\ m.delegation.agentPubKey = Device
               /\ m.delegation.signature = SignBtpPayload(
                     With(m, "delegation", Without(m.delegation, "signature")),
                     <<Delegator, 1>>)
               /\ m.delegation.signature.key = <<Delegator, 1>>
               /\ Without(m, "delegation") = Sent(w, i, s, Device)
<1> DEFINE p == Sent(w, i, s, Device)
           m == ByDelegator(w, i, s, t)
           delegation == [agentPubKey |-> Device, signedBy |-> Delegator,
                          selector |-> t]
           d == CreateDelegation(p, Delegator, <<Delegator, 1>>, t)
           signature == SignBtpPayload(With(p, "delegation", delegation),
                                       <<Delegator, 1>>)
<1>1. m = With(p, "delegation", d) /\ d = With(delegation, "signature", signature)
  BY DEF ByDelegator, CreateDelegation
<1>2. /\ DOMAIN delegation = {"agentPubKey", "signedBy", "selector"}
      /\ delegation = [x \in DOMAIN delegation |-> delegation[x]]
      /\ delegation.agentPubKey = Device /\ delegation.signedBy = Delegator
      /\ delegation.selector = t
  OBVIOUS
<1>3. /\ "delegation" \notin DOMAIN p /\ p = [x \in DOMAIN p |-> p[x]]
      /\ p.from = i /\ "from" \in DOMAIN p
  <2>1. "from" \in DOMAIN p
    BY DEF Sent, With
  <2> QED
    BY <2>1, SentFields
<1> HIDE DEF delegation, p, m, d, signature
<1>4. /\ DOMAIN d = {"agentPubKey", "signedBy", "selector", "signature"}
      /\ d.agentPubKey = Device /\ d.signedBy = Delegator /\ d.selector = t
      /\ d.signature = signature
  BY <1>1, <1>2 DEF With
<1>5. Without(d, "signature") = delegation
  BY <1>1, <1>2, WithoutWith
<1>6. "delegation" \in DOMAIN m /\ m.delegation = d /\ m.from = i
  BY <1>1, <1>3 DEF With
<1>7. Delegated(m) /\ ~Attested(m)
  BY <1>4, <1>6 DEF Delegated, Attested
<1>8. Without(m, "delegation") = p
  BY <1>1, <1>3, WithoutWith
<1>9. With(m, "delegation", delegation) = With(p, "delegation", delegation)
  BY <1>1, WithTwice
<1>10. signature.key = <<Delegator, 1>>
  BY DEF signature, SignBtpPayload
<1>11. signature = SignBtpPayload(With(m, "delegation", Without(d, "signature")),
                                  <<Delegator, 1>>)
  BY <1>5, <1>9 DEF signature
<1> QED
  BY <1>4, <1>6, <1>7, <1>8, <1>10, <1>11 DEF m, p

\* What the delegator has signed verifies with its key, when it named the
\* selector of that key
LEMMA DelegatedHolds ==
    ASSUME NEW w, NEW i, NEW s
    PROVE  DelegationHolds(ByDelegator(w, i, s, 1), <<Delegator, 1>>)
<1>1. <<Delegator, 1>> # None
  BY DEF Keys, Selectors
<1> DEFINE p == Sent(w, i, s, Device)
           m == ByDelegator(w, i, s, 1)
<1>2. /\ Without(m, "delegation") = p
      /\ m.delegation.agentPubKey = Device
      /\ m.delegation.signature
           = SignBtpPayload(With(m, "delegation", Without(m.delegation, "signature")),
                            <<Delegator, 1>>)
  BY DelegatedFields
<1>3. p.signature = SignBtpPayload(Without(p, "signature"), Device)
  BY SentFields
<1> HIDE DEF p, m
<1> QED
  BY <1>1, <1>2, <1>3 DEF DelegationHolds, VerifySignature, p, m

----------------------------------------------------------------------------
(* The keys.                                                               *)

\* A delegator that is initialized names the selector of its key, unless an
\* init() came upon another's work
KeysShape ==
    /\ hostSelector \in [Domains -> Selectors]
    /\ DOMAIN published = Identities
    /\ delegator \in [key : {<<Delegator, 1>>}, selector : Selectors,
                      isInitialized : BOOLEAN]
    /\ asked \in [InitCalls -> Selectors \cup {None}]
    /\ again \in BOOLEAN
    /\ delegator.selector <= Selector(Delegator)
    /\ again \/ /\ delegator.isInitialized = TRUE => delegator.selector = 1
                /\ \A k \in InitCalls : asked[k] # None =>
                      /\ asked[k] = delegator.selector
                      /\ delegator.isInitialized = FALSE
                      /\ \A j \in InitCalls \ {k} : asked[j] = None

\* Selectors go up, and one that was in use and is not published any more
\* never is again
KeysGoOn ==
    /\ again => again'
    /\ \A i \in Identities : Selector(i) <= Selector(i)'
    /\ \A i \in Identities, s \in Selectors :
          s <= Selector(i) /\ s \notin published[i] => s \notin published'[i]

LEMMA KeysStep ==
    ASSUME KeysShape, [Next]_vars
    PROVE  KeysShape' /\ KeysGoOn
<1> USE DEF vars, dnsVars, Selectors
<1>1. ASSUME NEW k \in InitCalls, SelectorFound(k)
      PROVE  KeysShape' /\ KeysGoOn
  <2>1. /\ delegator' = [key |-> <<Delegator, 1>>, selector |-> Selector(Delegator),
                         isInitialized |-> delegator.isInitialized]
        /\ Selector(Delegator) \in Selectors
        /\ UNCHANGED <<published, hostSelector>>
        /\ asked' \in [InitCalls -> Selectors \cup {None}]
        /\ asked' = [asked EXCEPT ![k] = Selector(Delegator)]
        /\ again' = (again \/ delegator.isInitialized
                     \/ \E j \in InitCalls \ {k} : asked[j] # None)
    BY <1>1 DEF SelectorFound, KeysShape, Selector
  <2>2. ASSUME ~again'
        PROVE  /\ delegator'.isInitialized = FALSE
               /\ \A j \in InitCalls \ {k} : asked'[j] = None
               /\ asked'[k] = delegator'.selector
    BY <2>1, <2>2 DEF KeysShape
  <2>3. again' \in BOOLEAN
    BY <2>1 DEF KeysShape
  <2>4. again' \/ /\ delegator'.isInitialized = TRUE => delegator'.selector = 1
                  /\ \A i \in InitCalls : asked'[i] # None =>
                        /\ asked'[i] = delegator'.selector
                        /\ delegator'.isInitialized = FALSE
                        /\ \A j \in InitCalls \ {i} : asked'[j] = None
    BY <2>2
  <2> QED
    BY <2>1, <2>3, <2>4 DEF KeysShape, KeysGoOn, Selector
<1>2. ASSUME NEW k \in InitCalls, KeyFound(k)
      PROVE  KeysShape' /\ KeysGoOn
  <2>1. /\ delegator' = [key |-> <<Delegator, 1>>, selector |-> delegator.selector,
                         isInitialized |-> TRUE]
        /\ UNCHANGED <<published, hostSelector, again>>
        /\ asked' = [asked EXCEPT ![k] = None]
        /\ asked' \in [InitCalls -> Selectors \cup {None}]
    BY <1>2 DEF KeyFound, KeysShape
  <2>2. <<Delegator, 1>> # None
    BY DEF Keys, Selectors
  <2>3. asked[k] # None /\ asked[k] = 1
    BY <1>2, <2>2 DEF KeyFound, ResolvePublicKey, KeysShape
  <2>4. again \/ /\ delegator.selector = 1
                 /\ \A j \in InitCalls : asked'[j] = None
    BY <2>1, <2>3 DEF KeysShape
  <2> QED
    BY <2>1, <2>4 DEF KeysShape, KeysGoOn, Selector
<1>6. ASSUME NEW k \in InitCalls, InitThrows(k)
      PROVE  KeysShape' /\ KeysGoOn
  <2>1. /\ UNCHANGED <<published, hostSelector, delegator, again>>
        /\ asked' = [asked EXCEPT ![k] = None]
        /\ asked' \in [InitCalls -> Selectors \cup {None}]
    BY <1>6 DEF InitThrows, KeysShape
  <2>2. \A j \in InitCalls : asked'[j] = asked[j] \/ asked'[j] = None
    BY <2>1 DEF KeysShape
  <2> QED
    BY <2>1, <2>2 DEF KeysShape, KeysGoOn, Selector
<1>3. CASE UNCHANGED <<dnsVars, delegator, asked, again>>
  BY <1>3 DEF KeysShape, KeysGoOn, Selector
<1>4. ASSUME NEW d \in Domains, Rotate(d)
      PROVE  KeysShape' /\ KeysGoOn
  <2>1. /\ hostSelector' \in [Domains -> Selectors]
        /\ \A i \in Identities : Selector(i) <= Selector(i)'
    BY <1>4 DEF Rotate, KeysShape, Selector
  <2>2. \A i \in Identities, s \in Selectors :
           s <= Selector(i) /\ s \notin published[i] => s \notin published'[i]
    BY <1>4 DEF Rotate, KeysShape, Selector
  <2>3. DOMAIN published' = Identities /\ UNCHANGED <<delegator, asked, again>>
    BY <1>4 DEF Rotate
  <2>4. Selector(Delegator) \in Selectors /\ Selector(Delegator)' \in Selectors
    BY <2>1 DEF Selector, KeysShape
  <2>5. delegator.selector <= Selector(Delegator)'
    BY <2>1, <2>4 DEF KeysShape
  <2> QED
    BY <2>1, <2>2, <2>3, <2>5 DEF KeysShape, KeysGoOn
<1>5. ASSUME NEW i \in Identities, NEW selector, Retire(i, selector)
      PROVE  KeysShape' /\ KeysGoOn
  BY <1>5 DEF Retire, KeysShape, KeysGoOn, Selector
<1>7. ASSUME NEW w \in Artifacts,
             \/ \E i \in Identities : Makes(w, i)
             \/ \E m : Arrive(w, m)
             \/ Goes(w)
      PROVE  UNCHANGED <<dnsVars, delegator, asked, again>>
  BY <1>7 DEF Makes, Send, Delegate, DelegateOnBehalf, Arrive, Goes, Attest,
     DelegateThrows, Verify, AttestorResolved, SignerResolved, SenderResolved,
     LookupThrows
<1> QED
  BY <1>1, <1>2, <1>3, <1>4, <1>5, <1>6, <1>7, NextKinds, OthersAssumption

----------------------------------------------------------------------------
(* What is under way.                                                      *)

\* an artifact signed by its identity's key of that time, or by the delegator
Own(w) ==
    \E i \in Identities, s \in Selectors :
        s <= Selector(i) /\ message[w] = Sent(w, i, s, <<i, s>>)
OfDelegator(w) ==
    \E i \in Identities, s \in Selectors, t \in Selectors :
        /\ t <= Selector(Delegator) /\ (t = 1 \/ again)
        /\ message[w] = ByDelegator(w, i, s, t)

Made(w) == \/ w \in Others
           \/ pc[w] \in {"idle", "delegating", "failed"}
           \/ Own(w) \/ OfDelegator(w) \/ Attested(message[w])

Guided(w) ==
    /\ pc[w] = "attestor" => Attested(message[w])
    /\ pc[w] \in {"attestor", "signer"} => Delegated(message[w])
    /\ pc[w] = "sender" => ~Delegated(message[w])

\* Every artifact of this library was made by an honest sender, and each one
\* is being verified for what it is
MadeInv == Shape /\ KeysShape /\ \A w \in Artifacts : Made(w) /\ Guided(w)

\* who signed an artifact did it under a selector of its past
LEMMA SignedInThePast ==
    ASSUME KeysShape, NEW w \in Artifacts, Own(w) \/ OfDelegator(w)
    PROVE  /\ Signer(message[w]) \in Identities
           /\ SignedAs(message[w]) = <<Signer(message[w]), SignedAs(message[w])[2]>>
           /\ SignedAs(message[w])[2] \in Selectors
           /\ SignedAs(message[w])[2] <= Selector(Signer(message[w]))
<1>1. CASE Own(w)
  <2>1. PICK i \in Identities, s \in Selectors :
           s <= Selector(i) /\ message[w] = Sent(w, i, s, <<i, s>>)
    BY <1>1 DEF Own
  <2>2. ~Delegated(message[w]) /\ message[w].from = i /\ message[w].selector = s
    BY <2>1, SentFields
  <2> QED
    BY <2>1, <2>2 DEF Signer, SignedAs
<1>2. CASE OfDelegator(w)
  <2>1. PICK i \in Identities, s \in Selectors, t \in Selectors :
           t <= Selector(Delegator) /\ message[w] = ByDelegator(w, i, s, t)
    BY <1>2 DEF OfDelegator
  <2>2. /\ Delegated(message[w])
        /\ message[w].delegation.signedBy = Delegator
        /\ message[w].delegation.selector = t
    BY <2>1, DelegatedFields
  <2> QED
    BY <2>1, <2>2 DEF Signer, SignedAs
<1> QED
  BY <1>1, <1>2

\* Artifacts are not changed by what happens to keys
LEMMA OwnStays ==
    ASSUME KeysGoOn, KeysShape, KeysShape', NEW w \in Artifacts,
           message'[w] = message[w]
    PROVE  (Own(w) => Own(w)') /\ (OfDelegator(w) => OfDelegator(w)')
<1>1. \A i \in Identities : Selector(i) \in Nat /\ Selector(i)' \in Nat
  BY DEF KeysShape, Selector, Selectors
<1>2. \A i \in Identities, s \in Selectors : s <= Selector(i) => s <= Selector(i)'
  BY <1>1 DEF KeysGoOn, Selectors
<1>3. again => again'
  BY DEF KeysGoOn
<1> QED
  BY <1>2, <1>3 DEF Own, OfDelegator

LEMMA AttestedByConstruction ==
    ASSUME NEW m, NEW d, NEW a
    PROVE  Attested(With(m, "delegation", With(d, "attestation", a)))
BY DEF Attested, Delegated, With

\* An artifact that is left alone stays what it is
LEMMA LeftAlone ==
    ASSUME KeysGoOn, KeysShape, KeysShape', NEW w \in Artifacts, Made(w), Guided(w),
           message'[w] = message[w], pc'[w] = pc[w]
    PROVE  Made(w)' /\ Guided(w)'
BY OwnStays DEF Made, Guided, Attested, Delegated

LEMMA MadeStep ==
    ASSUME MadeInv, [Next]_vars
    PROVE  MadeInv'
<1>1. KeysShape /\ KeysShape' /\ KeysGoOn /\ Shape
  BY KeysStep DEF MadeInv
<1>2. Shape'
  <2>1. ASSUME NEW w \in Artifacts,
               \/ \E i \in Identities : Makes(w, i)
               \/ \E m : Arrive(w, m)
               \/ Goes(w)
        PROVE  Shape'
    BY <1>1, <2>1 DEF Shape, Makes, Send, Delegate, DelegateOnBehalf, Arrive, Goes,
       Attest, DelegateThrows, Verify, Verdict, AttestorResolved, SignerResolved,
       SenderResolved, LookupThrows
  <2> QED
    BY <1>1, <2>1, NextKinds, OthersAssumption
    DEF Shape, vars, SelectorFound, KeyFound, InitThrows, Rotate, Retire
<1>3. CASE UNCHANGED <<pc, message>>
  BY <1>1, <1>2, <1>3, LeftAlone DEF MadeInv
<1>4. ASSUME NEW w \in Artifacts,
             \A v \in Artifacts : v # w => pc'[v] = pc[v] /\ message'[v] = message[v],
             Made(w)' /\ Guided(w)'
      PROVE  MadeInv'
  BY <1>1, <1>2, <1>4, LeftAlone DEF MadeInv
<1>5. ASSUME NEW w \in Artifacts, NEW i \in Identities, Send(w, i)
      PROVE  MadeInv'
  <2>1. /\ message'[w] = Sent(w, i, Selector(i), <<i, Selector(i)>>) /\ pc'[w] = "sent"
        /\ UNCHANGED hostSelector
    BY <1>1, <1>5 DEF Send, Shape, Signed, Payload, Sent, CurrentKey, dnsVars
  <2>2. Selector(i) \in Selectors /\ Selector(i) <= Selector(i) /\ Selector(i)' = Selector(i)
    BY <1>1, <2>1 DEF KeysShape, Selector, Selectors
  <2>3. Own(w)'
    BY <2>1, <2>2 DEF Own
  <2> QED
    BY <1>1, <1>4, <1>5, <2>1, <2>3 DEF Send, Shape, Made, Guided
<1>6. ASSUME NEW w \in Artifacts, NEW i \in Identities, Delegate(w, i)
      PROVE  MadeInv'
  <2>1. /\ message'[w] = ByDelegator(w, i, Selector(i), delegator.selector)
        /\ pc'[w] = "sent" /\ UNCHANGED <<hostSelector, delegator, again>>
        /\ delegator.isInitialized
    BY <1>1, <1>6 DEF Delegate, Shape, Signed, Payload, Sent, ByDelegator, dnsVars, KeysShape
  <2>2. /\ Selector(i) \in Selectors
        /\ delegator.selector \in Selectors
        /\ delegator.selector <= Selector(Delegator)'
        /\ delegator.selector = 1 \/ again'
    BY <1>1, <2>1 DEF KeysShape, Selector
  <2>3. OfDelegator(w)'
    BY <2>1, <2>2 DEF OfDelegator
  <2> QED
    BY <1>1, <1>4, <1>6, <2>1, <2>3 DEF Delegate, Shape, Made, Guided
<1>7. ASSUME NEW w \in Artifacts, NEW i \in Identities, NEW j \in Identities,
             DelegateOnBehalf(w, i, j)
      PROVE  MadeInv'
  <2>1. pc'[w] = "delegating"
    BY <1>1, <1>7 DEF DelegateOnBehalf, Shape
  <2> QED
    BY <1>1, <1>4, <1>7, <2>1 DEF DelegateOnBehalf, Shape, Made, Guided
<1>8. ASSUME NEW w \in Artifacts, Attest(w)
      PROVE  MadeInv'
  <2>1. pc'[w] = "sent" /\ Attested(message'[w])
    BY <1>1, <1>8, AttestedByConstruction DEF Attest, Shape
  <2>2. Made(w)' /\ Guided(w)'
    BY <2>1 DEF Made, Guided, Attested, Delegated
  <2> QED
    BY <1>1, <1>4, <1>8, <2>2 DEF Attest, Shape
<1>9. ASSUME NEW w \in Artifacts, DelegateThrows(w)
      PROVE  MadeInv'
  <2>1. pc'[w] = "failed"
    BY <1>1, <1>9 DEF DelegateThrows, Shape
  <2> QED
    BY <1>1, <1>4, <1>9, <2>1 DEF DelegateThrows, Shape, Made, Guided
<1>10. ASSUME NEW w \in Artifacts,
              \/ Verify(w) \/ AttestorResolved(w) \/ SignerResolved(w)
              \/ SenderResolved(w) \/ LookupThrows(w)
       PROVE  MadeInv'
  <2>1. /\ message' = message
        /\ pc[w] \in {"sent", "attestor", "signer", "sender"}
        /\ \A v \in Artifacts : v # w => pc'[v] = pc[v]
        /\ \/ pc'[w] \in Verdicts
           \/ pc'[w] = "attestor" /\ Attested(message[w])
           \/ pc'[w] = "signer" /\ Delegated(message[w])
           \/ pc'[w] = "sender" /\ ~Delegated(message[w])
    <3>1. CASE Verify(w)
      BY <1>1, <3>1 DEF Verify, Verdict, Verdicts, Shape, Attested
    <3>2. CASE AttestorResolved(w)
      BY <1>1, <3>2 DEF AttestorResolved, Verdict, Verdicts, Shape, MadeInv, Guided, Attested
    <3>3. CASE SignerResolved(w)
      BY <1>1, <3>3 DEF SignerResolved, Verdict, Verdicts, Shape
    <3>4. CASE SenderResolved(w)
      BY <1>1, <3>4 DEF SenderResolved, Verdict, Verdicts, Shape
    <3>5. CASE LookupThrows(w)
      BY <1>1, <3>5 DEF LookupThrows, Verdicts, Shape
    <3> QED
      BY <1>10, <3>1, <3>2, <3>3, <3>4, <3>5
  <2>2. w \in Others \/ Own(w) \/ OfDelegator(w) \/ Attested(message[w])
    BY <2>1 DEF MadeInv, Made
  <2>3. w \in Others \/ Own(w)' \/ OfDelegator(w)' \/ Attested(message[w])
    BY <1>1, <2>1, <2>2, OwnStays
  <2>4. Made(w)'
    BY <2>1, <2>3 DEF Made, Attested, Delegated
  <2>5. Guided(w)'
    BY <2>1 DEF Guided, Attested, Delegated, Verdicts
  <2> QED
    BY <1>4, <2>1, <2>4, <2>5
<1>11. ASSUME NEW w \in Others, NEW m, Arrive(w, m)
       PROVE  MadeInv'
  <2>1. pc'[w] = "sent"
    BY <1>1, <1>11, OthersAssumption DEF Arrive, Shape
  <2>2. Made(w)' /\ Guided(w)'
    BY <2>1 DEF Made, Guided
  <2> QED
    BY <1>1, <1>4, <1>11, <2>2, OthersAssumption DEF Arrive, Shape
<1> QED
  BY <1>3, <1>5, <1>6, <1>7, <1>8, <1>9, <1>10, <1>11, NextKinds, OthersAssumption
  DEF Makes, Goes, vars, SelectorFound, KeyFound, InitThrows, Rotate, Retire

----------------------------------------------------------------------------
(* Why an honest artifact is found invalid.                                *)

\* what HonestIsValid allows for
Excused(w) ==
    \/ Retired(message[w]) \/ Mismatched(message[w])
    \/ /\ Delegated(message[w])
       /\ \/ message[w].from = Delegator
          \/ DomainOf[message[w].from] # DomainOf[Delegator]

\* An excuse lasts: selectors do not come back
LEMMA ExcuseLasts ==
    ASSUME KeysShape, KeysGoOn, NEW w \in Artifacts, Own(w) \/ OfDelegator(w),
           Excused(w), message'[w] = message[w]
    PROVE  Excused(w)'
<1>1. /\ Signer(message[w]) \in Identities
      /\ SignedAs(message[w])[2] \in Selectors
      /\ SignedAs(message[w])[2] <= Selector(Signer(message[w]))
  BY SignedInThePast
<1>2. CASE Retired(message[w])
  <2>1. SignedAs(message[w])[2] \notin published'[Signer(message[w])]
    BY <1>1, <1>2 DEF Retired, KeysGoOn
  <2> QED
    BY <2>1 DEF Excused, Retired, Signer, SignedAs, Delegated
<1>3. CASE Mismatched(message[w])
  <2>1. again' /\ SignedBy(message[w]) # SignedAs(message[w])
    BY <1>3 DEF Mismatched, KeysGoOn
  <2> QED
    BY <2>1 DEF Excused, Mismatched, SignedBy, Authority, SignedAs, Signer, Delegated
<1>4. CASE ~Retired(message[w]) /\ ~Mismatched(message[w])
  BY <1>4 DEF Excused, Delegated
<1> QED
  BY <1>2, <1>3, <1>4

\* One or the other has made it
LEMMA OwnOrDelegated ==
    ASSUME NEW w \in Artifacts
    PROVE  /\ Own(w) => ~Delegated(message[w])
           /\ OfDelegator(w) => Delegated(message[w])
<1>1. ASSUME Own(w) PROVE ~Delegated(message[w])
  <2>1. PICK i \in Identities, s \in Selectors : message[w] = Sent(w, i, s, <<i, s>>)
    BY <1>1 DEF Own
  <2> QED
    BY <2>1, SentFields
<1>2. ASSUME OfDelegator(w) PROVE Delegated(message[w])
  <2>1. PICK i \in Identities, s \in Selectors, t \in Selectors :
           message[w] = ByDelegator(w, i, s, t)
    BY <1>2 DEF OfDelegator
  <2> QED
    BY <2>1, DelegatedFields
<1> QED
  BY <1>1, <1>2

\* A delegation of the delegator is refused at once for the reasons named only
LEMMA RefusedIsExcused ==
    ASSUME NEW w \in Artifacts, Own(w) \/ OfDelegator(w), Delegated(message[w]),
           ~IsDelegationAllowed(message[w]) \/ LacksAttestation(message[w])
    PROVE  Excused(w)
<1>1. ~Own(w)
  BY OwnOrDelegated
<1>2. PICK i \in Identities, s \in Selectors, t \in Selectors :
         message[w] = ByDelegator(w, i, s, t)
  BY <1>1 DEF OfDelegator
<1>3. message[w].delegation.signedBy = Delegator
  BY <1>2, DelegatedFields
<1> QED
  BY <1>3 DEF Excused, IsDelegationAllowed, LacksAttestation

\* What its sender signed fails for want of the key record only
LEMMA SenderIsExcused ==
    ASSUME NEW w \in Artifacts, Own(w),
           ~ArtifactHolds(message[w],
                          ResolvePublicKey(message[w].from, message[w].selector))
    PROVE  Excused(w)
<1>1. PICK i \in Identities, s \in Selectors : message[w] = Sent(w, i, s, <<i, s>>)
  BY DEF Own
<1>2. ~Delegated(message[w]) /\ message[w].from = i /\ message[w].selector = s
  BY <1>1, SentFields
<1>3. <<i, s>> # None
  BY DEF Keys
<1>4. ArtifactHolds(message[w], <<i, s>>)
  BY <1>1, <1>3, SentHolds
<1>5. s \notin published[i]
  BY <1>2, <1>4 DEF ResolvePublicKey
<1> QED
  BY <1>2, <1>5 DEF Excused, Retired, Signer, SignedAs

\* What the delegator signed fails for want of the key record, or because it
\* named another selector than that of its key
LEMMA DelegatorIsExcused ==
    ASSUME NEW w \in Artifacts, OfDelegator(w),
           ~DelegationHolds(message[w],
                            ResolvePublicKey(message[w].delegation.signedBy,
                                             message[w].delegation.selector))
    PROVE  Excused(w)
<1>1. PICK i \in Identities, s \in Selectors, t \in Selectors :
         (t = 1 \/ again) /\ message[w] = ByDelegator(w, i, s, t)
  BY DEF OfDelegator
<1>2. /\ Delegated(message[w])
      /\ message[w].delegation.signedBy = Delegator
      /\ message[w].delegation.selector = t
      /\ message[w].delegation.signature.key = <<Delegator, 1>>
  BY <1>1, DelegatedFields
<1>3. CASE t = 1
  <2>1. DelegationHolds(message[w], <<Delegator, 1>>)
    BY <1>1, <1>3, DelegatedHolds
  <2>2. t \notin published[Delegator]
    BY <1>2, <1>3, <2>1 DEF ResolvePublicKey
  <2> QED
    BY <1>2, <2>2 DEF Excused, Retired, Signer, SignedAs
<1>4. CASE t # 1
  <2>1. Mismatched(message[w])
    BY <1>1, <1>2, <1>4 DEF Mismatched, SignedBy, Authority, SignedAs, Signer
  <2> QED
    BY <2>1 DEF Excused
<1> QED
  BY <1>3, <1>4

LEMMA HonestStep ==
    ASSUME MadeInv, HonestIsValid, [Next]_vars
    PROVE  HonestIsValid'
<1>1. KeysShape /\ KeysShape' /\ KeysGoOn /\ Shape /\ MadeInv'
  BY KeysStep, MadeStep DEF MadeInv
<1> SUFFICES ASSUME NEW w \in Artifacts \ Others, pc'[w] = "invalid",
                    ~Attested(message'[w])
             PROVE  Excused(w)'
  BY DEF HonestIsValid, Excused, Retired, Mismatched, Delegated, Attested, Signer,
         SignedAs, SignedBy, Authority
<1>2. Own(w)' \/ OfDelegator(w)'
  BY <1>1 DEF MadeInv, Made, Attested, Delegated
<1>3. /\ message'[w] = message[w]
      /\ \/ pc[w] = "invalid"
         \/ pc[w] = "sent" /\ Verify(w)
         \/ pc[w] = "attestor" /\ AttestorResolved(w)
         \/ pc[w] = "signer" /\ SignerResolved(w)
         \/ pc[w] = "sender" /\ SenderResolved(w)
  <2>1. CASE UNCHANGED <<pc, message>>
    BY <2>1 DEF MadeInv
  <2>2. ASSUME NEW v \in Artifacts, v # w,
               \/ \E i \in Identities : Makes(v, i)
               \/ \E m : Arrive(v, m)
               \/ Goes(v)
        PROVE  pc'[w] = pc[w] /\ message'[w] = message[w]
    BY <1>1, <2>2 DEF Shape, Makes, Send, Delegate, DelegateOnBehalf, Arrive, Goes,
       Attest, DelegateThrows, Verify, Verdict, AttestorResolved, SignerResolved,
       SenderResolved, LookupThrows
  <2>3. ASSUME \/ \E i \in Identities : Makes(w, i)
               \/ \E m : Arrive(w, m)
        PROVE  FALSE
    BY <1>1, <2>3 DEF Shape, Makes, Send, Delegate, DelegateOnBehalf, Arrive
  <2>4. ASSUME Goes(w)
        PROVE  /\ message'[w] = message[w]
               /\ \/ pc[w] = "sent" /\ Verify(w)
                  \/ pc[w] = "attestor" /\ AttestorResolved(w)
                  \/ pc[w] = "signer" /\ SignerResolved(w)
                  \/ pc[w] = "sender" /\ SenderResolved(w)
    BY <1>1, <2>4 DEF Shape, Goes, Attest, DelegateThrows, Verify, AttestorResolved,
       SignerResolved, SenderResolved, LookupThrows
  <2>5. ASSUME pc'[w] = pc[w] /\ message'[w] = message[w]
        PROVE  pc[w] = "invalid"
    BY <2>5
  <2> QED
    BY <2>1, <2>2, <2>3, <2>4, <2>5, NextKinds, OthersAssumption
    DEF vars, SelectorFound, KeyFound, InitThrows, Rotate, Retire
<1>4. ~Attested(message[w]) /\ (Own(w) \/ OfDelegator(w))
  BY <1>3 DEF MadeInv, Made, Attested, Delegated
<1>5. Excused(w) => Excused(w)'
  BY <1>1, <1>3, <1>4, ExcuseLasts
<1>6. CASE pc[w] = "invalid"
  BY <1>4, <1>5, <1>6 DEF HonestIsValid, Excused
<1>7. CASE pc[w] = "sent"
  <2>1. /\ Delegated(message[w])
        /\ ~IsDelegationAllowed(message[w]) \/ LacksAttestation(message[w])
    BY <1>1, <1>3, <1>7 DEF Verify, Verdict, Shape
  <2> QED
    BY <1>4, <1>5, <2>1, RefusedIsExcused
<1>8. CASE pc[w] = "attestor"
  BY <1>4, <1>8 DEF MadeInv, Guided
<1>9. CASE pc[w] = "signer"
  <2>1. ~DelegationHolds(message[w],
                         ResolvePublicKey(message[w].delegation.signedBy,
                                          message[w].delegation.selector))
    BY <1>1, <1>3, <1>9 DEF SignerResolved, Verdict, Shape
  <2>2. Delegated(message[w])
    BY <1>9 DEF MadeInv, Guided
  <2>3. OfDelegator(w)
    BY <1>4, <2>2, OwnOrDelegated
  <2> QED
    BY <1>5, <2>1, <2>3, DelegatorIsExcused
<1>10. CASE pc[w] = "sender"
  <2>1. ~ArtifactHolds(message[w],
                       ResolvePublicKey(message[w].from, message[w].selector))
    BY <1>1, <1>3, <1>10 DEF SenderResolved, Verdict, Shape
  <2>2. ~Delegated(message[w])
    BY <1>10 DEF MadeInv, Guided
  <2>3. Own(w)
    BY <1>4, <2>2, OwnOrDelegated
  <2> QED
    BY <1>5, <2>1, <2>3, SenderIsExcused
<1> QED
  BY <1>3, <1>6, <1>7, <1>8, <1>9, <1>10

\* Signing and verifying agree on what is signed, field by field, for every
\* artifact this library makes without attestation, whatever becomes of the
\* keys in between and however many init() calls overlap: what is found
\* invalid has an excuse.
THEOREM HonestySucceeds == Spec => []HonestIsValid
<1>1. Init => MadeInv /\ HonestIsValid
  <2>1. ASSUME Init PROVE KeysShape
    <3>1. 1 \in Selectors /\ 1 <= 1
      BY DEF Selectors
    <3>2. Selector(Delegator) = 1
      BY <2>1 DEF Init, Selector
    <3> QED
      BY <2>1, <3>1, <3>2 DEF Init, KeysShape
  <2> QED
    BY <2>1 DEF Init, MadeInv, Shape, Made, Guided, HonestIsValid
<1>2. MadeInv /\ HonestIsValid /\ [Next]_vars => MadeInv' /\ HonestIsValid'
  BY MadeStep, HonestStep
<1> QED
  BY <1>1, <1>2, PTL DEF Spec

=============================================================================
