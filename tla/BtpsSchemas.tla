---------------------------- MODULE BtpsSchemas ----------------------------
(***************************************************************************)
(* The shapes of documents, artifacts and responses, and the checks on     *)
(* them that client and server share.                                      *)
(*                                                                         *)
(* A field that is present has a value of its declared type, so that a     *)
(* document is the set of its fields, with those of the document nested in *)
(* it, or a text.  An artifact is a record in which None stands for an     *)
(* absent field; only its encryption is never absent, None is its null.    *)
(***************************************************************************)
EXTENDS Naturals

CONSTANT None     \* JavaScript's undefined

Text == [text |-> TRUE, fields |-> {}, inner |-> {}]
Doc(fields)         == [text |-> FALSE, fields |-> fields, inner |-> {}]
DocWith(fields, in) == [text |-> FALSE, fields |-> fields, inner |-> in]

----------------------------------------------------------------------------
(* The actions.                                                            *)
TRUST_ACTIONS == {"trust.request", "trust.respond"}
TRUST_IMMEDIATE_ACTIONS == {"trust.update", "trust.delete", "trust.fetch"}
INBOX_ACTIONS   == {"inbox.fetch", "inbox.delete", "inbox.seen"}
OUTBOX_ACTIONS  == {"outbox.fetch", "outbox.cancel"}
SENTBOX_ACTIONS == {"sentbox.fetch", "sentbox.delete"}
DRAFT_ACTIONS   == {"draft.fetch", "draft.create", "draft.update",
                    "draft.delete"}
TRASH_ACTIONS   == {"trash.fetch", "trash.delete"}
AUTH_ACTIONS    == {"auth.request", "auth.refresh"}
ARTIFACT_ACTIONS == {"artifact.send"}
CONTROL_ACTIONS  == {"PING", "QUIT"}
TRANSPORTER_ACTIONS == {"TRUST_REQ", "TRUST_RES", "BTPS_DOC"}

\* SENTBOX_ACTIONS are not among them
AGENT_ACTIONS ==
    TRUST_ACTIONS \cup TRUST_IMMEDIATE_ACTIONS \cup INBOX_ACTIONS
    \cup OUTBOX_ACTIONS \cup DRAFT_ACTIONS \cup {"system.ping"}
    \cup AUTH_ACTIONS \cup ARTIFACT_ACTIONS \cup TRASH_ACTIONS

IMMEDIATE_ACTIONS ==
    {"system.ping"} \cup AUTH_ACTIONS \cup INBOX_ACTIONS \cup OUTBOX_ACTIONS
    \cup DRAFT_ACTIONS \cup TRUST_IMMEDIATE_ACTIONS \cup SENTBOX_ACTIONS
    \cup TRASH_ACTIONS

AGENT_ACTIONS_REQUIRING_DOCUMENT ==
    TRUST_ACTIONS \cup ARTIFACT_ACTIONS \cup AUTH_ACTIONS
    \cup {"trust.update", "trust.delete", "inbox.seen", "inbox.delete",
          "sentbox.delete", "outbox.cancel", "draft.create", "draft.update",
          "draft.delete", "trash.delete"}

----------------------------------------------------------------------------
(* The document schemas.                                                   *)
Required ==
    [TrustReq |-> {"id", "name", "email", "reason", "phone"},
     TrustRes |-> {"id", "decision", "decidedAt", "decidedBy"},
     Invoice  |-> {"title", "id", "issuedAt", "status", "totalAmount",
                   "lineItems"},
     AuthReq  |-> {"identity", "authToken", "publicKey"},
     AuthRes  |-> {"agentId", "refreshToken", "expiresAt", "decryptBy"},
     Query    |-> {},
     Result   |-> {"results"},
     Mutation |-> {"id", "document"},
     Create   |-> {"type", "document"},
     Ids      |-> {"ids"},
     Transporter |-> {"version", "issuedAt", "id", "type", "from", "to",
                      "signature", "encryption", "selector"}]

QueryFields == {"since", "until", "limit", "cursor", "query", "sort"}
DatedFields == {"expiresAt", "message", "privacyType"}

Optional ==
    [TrustReq |-> DatedFields \cup {"address", "logoUrl", "displayName",
                                    "websiteUrl"},
     TrustRes |-> DatedFields \cup {"retryAfterDate"},
     Invoice  |-> {"dueAt", "paidAt", "refundedAt", "disputedAt", "issuer",
                   "paymentLink", "description", "attachment", "template"},
     AuthReq  |-> {"agentInfo"}, AuthRes |-> {}, Query |-> QueryFields,
     Result   |-> {"cursor", "total", "hasNext"},
     Mutation |-> {}, Create |-> {}, Ids |-> {},
     Transporter |-> {"document", "delegation"}]

\* BtpDocSchema, for the document nested in a mutation or a draft
BtpDocSchema == {"TrustReq", "TrustRes", "Invoice"}

\* safeParse() of one schema
Fits(schema, doc) ==
    /\ ~doc.text
    /\ Required[schema] \subseteq doc.fields
    /\ schema = "Query" => doc.fields \cap QueryFields # {}
    /\ schema \in {"Mutation", "Create"} =>
          \E s \in BtpDocSchema : Required[s] \subseteq doc.inner

\* What a union makes of a document: the first schema that fits keeps the
\* fields it knows
Parsed(schemas, doc) ==
    LET fitting == {i \in DOMAIN schemas : Fits(schemas[i], doc)}
        first   == schemas[CHOOSE i \in fitting : \A k \in fitting : i <= k]
    IN  IF fitting = {} THEN None
        ELSE [doc EXCEPT !.fields =
                  @ \cap (Required[first] \cup Optional[first])]

\* processBtpDocSchema
SchemaOfType(type) ==
    CASE type = "TRUST_REQ" -> "TrustReq"
      [] type = "TRUST_RES" -> "TrustRes"
      [] type = "BTPS_DOC"  -> "Invoice"

\* processBtpDocSchemaForAgent
SchemaOfAction(action) ==
    CASE action = "trust.request" -> "TrustReq"
      [] action = "trust.respond" -> "TrustRes"
      [] action = "artifact.send" -> "Invoice"
      [] action \in {"trust.update", "draft.update"} -> "Mutation"
      [] action \in AUTH_ACTIONS -> "AuthReq"
      [] action = "draft.create" -> "Create"
      [] action \in {"inbox.fetch", "sentbox.fetch", "outbox.fetch",
                     "draft.fetch", "trash.fetch"} -> "Query"
      [] action \in {"trust.delete", "inbox.seen", "inbox.delete",
                     "sentbox.delete", "outbox.cancel", "draft.delete",
                     "trash.delete"} -> "Ids"
      [] OTHER -> None

validateAgentDocument(action, encryption, document) ==
    /\ action \in AGENT_ACTIONS_REQUIRING_DOCUMENT => document # None
    /\ encryption # None => /\ document # None
                            /\ document.text
                            /\ action # "auth.request"
    /\ document # None /\ SchemaOfAction(action) # None =>
          Fits(SchemaOfAction(action), document)

\* BtpsAgentCommandCallSchema: the parameters of command()
CommandFits(action, document) ==
    LET parsed == IF document = None THEN None
                  ELSE Parsed(<<"TrustReq", "TrustRes", "Invoice", "AuthReq",
                                "Query", "Mutation", "Ids", "Create">>,
                              document)
    IN  /\ action \in AGENT_ACTIONS
        /\ document # None => parsed # None
        /\ validateAgentDocument(action, None, parsed)

----------------------------------------------------------------------------
(* The artifact schemas.                                                   *)
Present(a, fields) == \A f \in fields : a[f] # None
Absent(a, fields)  == \A f \in fields : a[f] = None

BtpAgentArtifactSchema(a) ==
    LET parsed == IF a.document = None \/ a.document.text THEN a.document
                  ELSE Parsed(<<"Transporter", "AuthReq", "Query", "Mutation",
                                "Ids">>, a.document)
    IN  /\ Present(a, {"agentId", "to", "signature"})
        /\ a.action \in AGENT_ACTIONS
        /\ a.document # None => parsed # None
        /\ validateAgentDocument(a.action, a.encryption, parsed)

BtpTransporterArtifactSchema(a) ==
    /\ a.type \in TRANSPORTER_ACTIONS
    /\ Present(a, {"from", "to", "signature", "selector", "document"})
    /\ IF a.encryption # None THEN a.document.text
       ELSE Fits(SchemaOfType(a.type), a.document)

BtpControlArtifactSchema(a) == a.action \in CONTROL_ACTIONS

BtpIdentityLookupRequestSchema(a) ==
    Present(a, {"identity", "from", "hostSelector"})

BtpArtifactServerSchema(a) ==
    \/ BtpAgentArtifactSchema(a)
    \/ BtpTransporterArtifactSchema(a)
    \/ BtpControlArtifactSchema(a)
    \/ BtpIdentityLookupRequestSchema(a)

----------------------------------------------------------------------------
(* The server's reading of a line.                                         *)
isBtpsControlArtifact(a) ==
    /\ a.action # None
    /\ Absent(a, {"agentId", "document", "signature", "to"})

isBtpsTransportArtifact(a) ==
    Present(a, {"from", "type"}) /\ a.agentId = None

isBtpsIdentityRequest(a) ==
    /\ Present(a, {"identity", "hostSelector"})
    /\ Absent(a, {"signature", "document", "to"})

isBtpsAgentArtifact(a) ==
    Present(a, {"to", "action", "agentId", "signature"})

\* The type that _parseAndValidateArtifact gives an artifact, None when it
\* refuses it
ParsedType(a) ==
    IF ~BtpArtifactServerSchema(a) THEN None
    ELSE IF isBtpsControlArtifact(a)   THEN "control"
    ELSE IF isBtpsTransportArtifact(a) THEN "transporter"
    ELSE IF isBtpsIdentityRequest(a)   THEN "identityLookup"
    ELSE IF isBtpsAgentArtifact(a)     THEN "agent"
    ELSE None

----------------------------------------------------------------------------
\* BtpServerResponseSchema: what sendBtpsResponse lets out
BtpServerResponseSchema(r) ==
    /\ r.document # None =>
          \/ r.document.text
          \/ \E s \in {"AuthRes", "Result"} : Fits(s, r.document)
    /\ r.signature # None => Present(r, {"signedBy", "selector"})
    /\ r.encryption # None => r.document # None /\ r.document.text
=============================================================================
