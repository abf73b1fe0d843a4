----------------------------- MODULE BtpsAgent -----------------------------
(***************************************************************************)
(* The agent: command() checks its parameters, makes an agent artifact,    *)
(* signs it and hands it to send().  A command to another identity wraps   *)
(* its document in a transporter artifact of its own first, which takes a  *)
(* look at the DNS and, to encrypt, the receiver's public key.             *)
(*                                                                         *)
(* The client below the agent is the one RequestReply specifies; here are  *)
(* the checks of send() and of the answers, on what they really check.  A  *)
(* step is the code between two awaits.                                    *)
(*                                                                         *)
(* AgentInit, AgentNext and AgentSpec have names of their own for modules  *)
(* that are about the agent and the trust of BtpsTrust.                    *)
(***************************************************************************)
EXTENDS BtpsCrypto, FiniteSets

CONSTANTS
    Commands,      \* the command() calls of a behaviour
    Params,        \* what each may be called with
    Publishers,    \* those whose records are looked up in the DNS
    Self,          \* the identity the agent acts for
    Server,        \* the identity of the server that answers
    MaxSelector,   \* bounds the rotations of an identity's key
    MaxQueue,      \* options.maxQueue
    PemPairs       \* the key pairs an agent may be set up with

ASSUME IdentityAssumption == Server \in Publishers
ASSUME SelectorAssumption == MaxSelector \in Nat \ {0}
ASSUME NoneAssumption ==
    None \notin Publishers \cup AGENT_ACTIONS
                \cup {"agent", "destroyed", "artifact", "queue"}
ASSUME ParamsAssumption ==
    \A p \in UNION {Params[c] : c \in Commands} :
                      /\ DOMAIN p = {"action", "to", "document", "encryption"}
                      /\ p.to \in Publishers /\ p.encryption \in BOOLEAN

VARIABLES
    keyPair,       \* this.keyPair
    hostOption,    \* whether options.host and options.hostSelector are set
    published,     \* the selectors under which each identity has a key record
    hostSelector,  \* the selector in the host record of each identity
    place,         \* where each command waits
    params,        \* what it was called with
    selector,      \* the selector it found for the receiver
    payload,       \* the artifact it has made
    refusal,       \* the check that ended it, if one did
    isDestroyed,   \* states.isDestroyed
    outcome,       \* what its send() has settled to
    written,       \* the commands whose artifact is written
    reply          \* the server's answer on its way

dnsVars  == <<published, hostSelector>>
sendVars == <<isDestroyed, outcome, written, reply>>
makeVars == <<place, params, selector, payload, refusal>>
agentVars == <<keyPair, hostOption, dnsVars, makeVars, sendVars>>

Selectors == 1 .. MaxSelector
DefaultSelector == 1

mappedTransporterAction ==
    [a \in {"trust.request", "trust.respond", "trust.update", "trust.delete",
            "artifact.send"} |->
        CASE a = "trust.request" -> "TRUST_REQ"
          [] a = "artifact.send" -> "BTPS_DOC"
          [] OTHER -> "TRUST_RES"]

ForTransport(p) == p.action \in DOMAIN mappedTransporterAction

\* Those of all artifacts that are told apart here
ArtifactFields ==
    {"type", "action", "agentId", "from", "to", "selector", "document",
     "encryption", "signature", "identity", "hostSelector"}

\* An artifact with no field but those that the function f gives it
Artifact(f) ==
    [x \in ArtifactFields |-> IF x \in DOMAIN f THEN f[x] ELSE None]

\* An artifact that is the document of another
AsDocument(a) ==
    [text |-> FALSE, inner |-> {}, artifact |-> a,
     fields |-> Required["Transporter"] \cup {"document"}]

Signed(a) == [a EXCEPT !.signature = signBtpPayload(a, keyPair)]

----------------------------------------------------------------------------
(* buildTransportArtifact and getAgentArtifact, once nothing is awaited.   *)

\* Mutant of Sealed: what cannot be encrypted goes as it is
SealedIfPossible(p, receiverPubPem) ==
    IF p.encryption /\ receiverPubPem # Garbled
    THEN [document |-> Text,
          encryption |-> encryptBtpPayload(p.document, receiverPubPem)]
    ELSE [document |-> p.document, encryption |-> None]

\* The document and its encryption, None when encrypting throws
Sealed(p, receiverPubPem) ==
    LET encryption == encryptBtpPayload(p.document, receiverPubPem)
    IN  IF ~p.encryption
        THEN [document |-> p.document, encryption |-> None]
        ELSE IF encryption = None THEN None
        ELSE [document |-> Text, encryption |-> encryption]

TransporterArtifact(p, contents, receiverSelector) ==
    Signed(Artifact(
        [type |-> mappedTransporterAction[p.action], from |-> Self,
         to |-> p.to, selector |-> receiverSelector,
         document |-> contents.document, encryption |-> contents.encryption]))

\* Whatever the options, an agent's artifact is not encrypted
AgentArtifact(p, document) ==
    Signed(Artifact([action |-> p.action, agentId |-> "agent", to |-> p.to,
                     document |-> document]))

----------------------------------------------------------------------------
AgentInit ==
    /\ keyPair \in PemPairs
    /\ hostOption \in BOOLEAN
    /\ published = [i \in Publishers |-> {DefaultSelector}]
    /\ hostSelector = [i \in Publishers |-> DefaultSelector]
    /\ place = [c \in Commands |-> "idle"]
    /\ params = [c \in Commands |-> None]
    /\ selector = [c \in Commands |-> None]
    /\ payload = [c \in Commands |-> None]
    /\ refusal = [c \in Commands |-> None]
    /\ isDestroyed = FALSE
    /\ outcome = [c \in Commands |-> "idle"]
    /\ written = {}
    /\ reply = [c \in Commands |-> None]

\* command() resolves to an error of buildClientErrorResponse
Fails(c, why) ==
    /\ place' = [place EXCEPT ![c] = "done"]
    /\ refusal' = [refusal EXCEPT ![c] = why]

\* getAgentArtifact returns, with an error when nothing could be signed
Made(c, artifact) ==
    IF artifact.signature = None
    THEN Fails(c, "signature") /\ UNCHANGED payload
    ELSE /\ payload' = [payload EXCEPT ![c] = artifact]
         /\ place' = [place EXCEPT ![c] = "made"]
         /\ UNCHANGED refusal

\* The same with a transporter artifact for its document
MadeForTransport(c, contents, receiverSelector) ==
    LET artifact == TransporterArtifact(params[c], contents, receiverSelector)
    IN  IF artifact.signature = None
        THEN Fails(c, "signature") /\ UNCHANGED payload
        ELSE Made(c, AgentArtifact(params[c], AsDocument(artifact)))

----------------------------------------------------------------------------
(* command(), up to send().                                                *)

\* command(): the parameters are checked; a command to another identity
\* waits for the host's record
Command(c, p) ==
    /\ place[c] = "idle"
    /\ params' = [params EXCEPT ![c] = p]
    /\ IF ~CommandFits(p.action, p.document)
       THEN Fails(c, "parameters") /\ UNCHANGED payload
       ELSE IF ForTransport(p)
       THEN place' = [place EXCEPT ![c] = "host"] /\ UNCHANGED <<payload, refusal>>
       ELSE Made(c, AgentArtifact(p, p.document))
    /\ UNCHANGED <<keyPair, hostOption, dnsVars, selector, sendVars>>

\* resolveBtpsHostDnsTxt finds the host, by the options or in the DNS.  The
\* document goes as it is, or the receiver's key is asked for
HostFound(c) ==
    /\ place[c] = "host"
    /\ LET found == IF hostOption THEN DefaultSelector
                    ELSE hostSelector[params[c].to]
       IN  /\ selector' = [selector EXCEPT ![c] = found]
           /\ IF params[c].encryption
              THEN place' = [place EXCEPT ![c] = "key"]
                   /\ UNCHANGED <<payload, refusal>>
              ELSE MadeForTransport(c, Sealed(params[c], None), found)
    /\ UNCHANGED <<keyPair, hostOption, dnsVars, params, sendVars>>

\* There is no such record, or to encrypt there is no name of a host in it
HostMissing(c) ==
    /\ place[c] = "host" /\ ~hostOption
    /\ Fails(c, "host")
    /\ UNCHANGED <<keyPair, hostOption, dnsVars, params, selector, payload,
                   sendVars>>

\* getDnsIdentityParts finds the receiver's record, whose key may be Garbled
KeyFound(c) ==
    /\ place[c] = "key"
    /\ selector[c] \in published[params[c].to]
    /\ \E pem \in {<<params[c].to, selector[c]>>, Garbled} :
          LET contents == Sealed(params[c], pem)
          IN  IF contents = None
              THEN Fails(c, "encryption") /\ UNCHANGED payload
              ELSE MadeForTransport(c, contents, selector[c])
    /\ UNCHANGED <<keyPair, hostOption, dnsVars, params, selector, sendVars>>

\* There is none, or the DNS does not answer: getDnsIdentityParts throws
KeyLookupThrows(c) ==
    /\ place[c] = "key"
    /\ Fails(c, "key")
    /\ UNCHANGED <<keyPair, hostOption, dnsVars, params, selector, payload,
                   sendVars>>

\* The DNS answers with an empty list: a socket of its own is to ask the
\* host, and is destroyed before it can
AskHost(c) ==
    /\ place[c] = "key"
    /\ place' = [place EXCEPT ![c] = "socket"]
    /\ UNCHANGED <<keyPair, hostOption, dnsVars, params, selector, payload,
                   refusal, sendVars>>

\* Mutant of LookupSocketCloses: only 'data', 'error' and 'end' are heard
CloseUnheard(c) ==
    /\ place[c] = "socket"
    /\ place' = [place EXCEPT ![c] = "lost"]
    /\ UNCHANGED <<keyPair, hostOption, dnsVars, params, selector, payload,
                   refusal, sendVars>>

\* 'close' of that socket: the lookup resolves to an error
LookupSocketCloses(c) ==
    /\ place[c] = "socket"
    /\ Fails(c, "key")
    /\ UNCHANGED <<keyPair, hostOption, dnsVars, params, selector, payload,
                   sendVars>>

----------------------------------------------------------------------------
(* send() and the client below it.                                         *)

\* Mutant of Refusal: a destroyed client goes on
RefusalOfLiving(c) ==
    IF ~BtpArtifactServerSchema(payload[c]) THEN "artifact"
    ELSE IF Cardinality({d \in Commands : outcome[d] = "pending"}) >= MaxQueue
    THEN "queue"
    ELSE None

\* Mutant of Refusal: the artifact is not looked at
RefusalOfAny(c) ==
    IF isDestroyed THEN "destroyed"
    ELSE IF Cardinality({d \in Commands : outcome[d] = "pending"}) >= MaxQueue
    THEN "queue"
    ELSE None

\* The checks of send(), in their order
Refusal(c) ==
    IF isDestroyed THEN "destroyed"
    ELSE IF ~BtpArtifactServerSchema(payload[c]) THEN "artifact"
    ELSE IF Cardinality({d \in Commands : outcome[d] = "pending"}) >= MaxQueue
    THEN "queue"
    ELSE None

Send(c) ==
    /\ place[c] = "made"
    /\ IF Refusal(c) # None
       THEN /\ Fails(c, Refusal(c))
            /\ outcome' = [outcome EXCEPT ![c] = "error"]
       ELSE /\ place' = [place EXCEPT ![c] = "sent"]
            /\ outcome' = [outcome EXCEPT ![c] = "pending"]
            /\ UNCHANGED refusal
    /\ UNCHANGED <<keyPair, hostOption, dnsVars, params, selector, payload,
                   isDestroyed, written, reply>>

\* The client writes the artifact, also when the caller has given up
Write(c) ==
    /\ place[c] \in {"sent", "done"} /\ outcome[c] # "idle" /\ refusal[c] = None
    /\ ~isDestroyed /\ c \notin written
    /\ written' = written \cup {c}
    /\ UNCHANGED <<keyPair, hostOption, dnsVars, makeVars, isDestroyed,
                   outcome, reply>>

\* What a server may mean to answer: unsigned, or signed with the key that it
\* was set up with, under the name and the selector that are to be its own
ServerAnswers ==
    LET answer(signer, given, signature) ==
            [signedBy |-> signer, selector |-> given, document |-> None,
             encryption |-> None, signature |-> signature]
        signed(signer, given, key) ==
            answer(signer, given,
                   signBtpPayload(answer(signer, given, None),
                                  [publicKey |-> <<Server, key>>,
                                   privateKey |-> <<Server, key>>]))
    IN  {answer(None, None, None)}
        \cup {signed(signer, given, key) : signer \in {Server, None},
                   given \in Selectors, key \in Selectors}

\* The server answers, if sendBtpsResponse finds the answer in order
Reply(c) ==
    /\ c \in written /\ reply[c] = None
    /\ \E r \in ServerAnswers : BtpServerResponseSchema(r)
                       /\ reply' = [reply EXCEPT ![c] = r]
    /\ UNCHANGED <<keyPair, hostOption, dnsVars, makeVars, isDestroyed,
                   outcome, written>>

\* verifyServerMessage(): its signer's key, as the DNS has it now
verifyServerMessage(msg) ==
    \/ msg.signature = None
    \/ /\ Present(msg, {"signedBy", "selector"})
       /\ msg.selector \in published[msg.signedBy]
       /\ decryptVerify(<<msg.signedBy, msg.selector>>, msg, None) # None

\* The answer settles the call
Receive(c) ==
    /\ outcome[c] = "pending" /\ reply[c] # None
    /\ place' = [place EXCEPT ![c] = "done"]
    /\ outcome' = [outcome EXCEPT ![c] =
                      IF verifyServerMessage(reply[c]) THEN "response"
                      ELSE "error"]
    /\ UNCHANGED <<keyPair, hostOption, dnsVars, params, selector, payload,
                   refusal, isDestroyed, written, reply>>

\* Its timeout or a lost connection does
Settle(c, failure) ==
    /\ outcome[c] = "pending"
    /\ place' = [place EXCEPT ![c] = "done"]
    /\ outcome' = [outcome EXCEPT ![c] = failure]
    /\ UNCHANGED <<keyPair, hostOption, dnsVars, params, selector, payload,
                   refusal, isDestroyed, written, reply>>

\* destroy(): the timers of the calls that are queued are gone.  destroy(true)
\* is end() of the client: to a call here, a lost connection (Settle)
Destroy ==
    /\ ~isDestroyed
    /\ isDestroyed' = TRUE
    /\ UNCHANGED <<keyPair, hostOption, dnsVars, makeVars, outcome, written,
                   reply>>

----------------------------------------------------------------------------
\* An identity publishes its next key, or removes an old one
Rotate(i) ==
    /\ hostSelector[i] < MaxSelector
    /\ hostSelector' = [hostSelector EXCEPT ![i] = @ + 1]
    /\ published' = [published EXCEPT ![i] = @ \cup {hostSelector[i] + 1}]
    /\ UNCHANGED <<keyPair, hostOption, makeVars, sendVars>>

Retire(i) ==
    /\ \E s \in published[i] \ {hostSelector[i]} :
          published' = [published EXCEPT ![i] = @ \ {s}]
    /\ UNCHANGED <<keyPair, hostOption, hostSelector, makeVars, sendVars>>

Lookup(c) ==
    \/ HostFound(c) \/ HostMissing(c) \/ KeyFound(c) \/ KeyLookupThrows(c)
    \/ AskHost(c) \/ LookupSocketCloses(c)

Settles(c) == Receive(c) \/ \E f \in {"error", "timeout"} : Settle(c, f)

AgentNext ==
    \/ \E c \in Commands :
          \/ \E p \in Params[c] : Command(c, p)
          \/ Lookup(c) \/ Send(c) \/ Write(c) \/ Reply(c) \/ Settles(c)
    \/ Destroy
    \/ \E i \in Publishers : Rotate(i) \/ Retire(i)

AgentSpec == AgentInit /\ [][AgentNext]_agentVars

\* A DNS question is answered, a destroyed socket closes, a promise runs on.
\* The timer of a call that is queued fires, until destroy() clears it
FairSpec ==
    /\ AgentSpec
    /\ \A c \in Commands :
          /\ WF_place(Lookup(c))
          /\ WF_place(Send(c))
          /\ WF_place(~isDestroyed /\ Settles(c))

----------------------------------------------------------------------------
(* Properties.                                                             *)

Pair == [publicKey |-> <<"agent", 1>>, privateKey |-> <<"agent", 1>>]

\* The signatures of the agent, made before and after a document is wrapped
\* in an artifact of another kind, hold for what leaves it in the end; and
\* what is asked to be encrypted leaves encrypted, for the key that the
\* receiver has under the selector on the artifact: with that key the
\* receiver reads the document of the command, and nothing in plain is left
\* of it (getAgentArtifact, buildTransportArtifact, decryptVerify).
ReadsAsCommanded ==
    \A c \in Commands : payload[c] # None /\ keyPair = Pair =>
        LET outer == decryptVerify(Pair.publicKey, payload[c], None)
            inner == outer.document.artifact
            read  == decryptVerify(Pair.publicKey, inner,
                                   <<params[c].to, inner.selector>>)
        IN  /\ outer # None
            /\ IF ForTransport(params[c])
               THEN /\ read # None /\ read.document = params[c].document
                    /\ params[c].encryption => inner.document = Text
               ELSE outer.document = params[c].document

\* Client and server read an artifact alike: whatever the agent writes, the
\* server takes for an agent's artifact (send, _parseAndValidateArtifact).
ServerReadsAgent ==
    \A c \in written : ParsedType(payload[c]) = "agent"

\* A command that is still looking things up when destroy() is called
\* sends nothing any more: the agent uses the client as RequestReply has it.
Client == INSTANCE RequestReply WITH
              Requests <- Commands, IdOf <- [c \in Commands |-> c],
              closed <- isDestroyed

SendSpec == Client!Spec

\* Every command ends, whatever the DNS and the server do, and though no
\* lookup at the host is ever answered; but destroy() may leave a call that
\* is queued unsettled.
CommandsEnd ==
    \A c \in Commands :
        place[c] # "idle" ~> place[c] = "done" \/ (place[c] = "sent" /\ isDestroyed)
=============================================================================
