---------------------------- MODULE MCBtpsAgent ----------------------------
(* Two commands of an agent, of the kinds that take different ways.        *)
EXTENDS BtpsAgent

Doc1(schema)    == Doc(Required[schema])
Of(action, document, encryption) ==
    [action |-> action, to |-> "bob$b.org", document |-> document,
     encryption |-> encryption]

MCPublishers == {"bob$b.org", "server$a.org"}

CONSTANTS c1, c2

Usual == {Of("trust.request", Doc1("TrustReq"), TRUE),
          Of("inbox.delete", Doc1("Ids"), TRUE)}

MCParams ==
    [c \in Commands |-> Usual \cup IF c = c1 THEN
        {Of("artifact.send", Doc1("Invoice"), FALSE),
         Of("artifact.send", None, TRUE),
         Of("draft.create",
            DocWith(Required["Create"], Required["Invoice"]), FALSE),
         Of("inbox.delete", Doc({"ids", "limit"}), FALSE),
         Of("sentbox.fetch", None, FALSE)}
        ELSE {}]

Cert(public, private) ==
    [publicKey |-> public, privateKey |-> private]

MCPemPairs == {Pair, Cert(Garbled, <<"agent", 1>>)}
=============================================================================
