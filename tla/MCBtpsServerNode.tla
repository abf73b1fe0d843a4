------------------------- MODULE MCBtpsServerNode -------------------------
(* A few lines of a sender, an agent and nobody over two connections.   *)
EXTENDS BtpsServerNode, TLC

A(kind, from, named) ==
    [kind |-> kind, from |-> from, identity |-> named]

MCLineSet == {A("transporter", "ann$a.org", TRUE),
              A("agent", "agent", FALSE),
              A("garbage", "nobody", FALSE)}

MCKeys == {<<"ipAddress", Ip>>} \cup
          ({"fromIdentity"} \X ({l.from : l \in MCLineSet} \cup {Ip, None}))

MCLimit == [k \in MCKeys |-> IF k[1] = "ipAddress" THEN 2 ELSE 1]

Def(stage, use, priority, valid, enabled) ==
    [stage |-> stage, use |-> use, priority |-> priority,
     valid |-> valid, enabled |-> enabled]

OfIp == Def("beforeParsing", "ipAddress", 1, TRUE, TRUE)
OfIdentity == Def("afterParsing", "fromIdentity", 1, TRUE, TRUE)

MCFiles ==
    {[format |-> "absent", definitions |-> <<>>],
     [format |-> "unusable", definitions |-> <<>>],
     [format |-> "module", definitions |-> <<OfIp, OfIdentity>>],
     [format |-> "array", definitions |->
        <<Def("afterParsing", "audit", None, TRUE, TRUE),
          OfIdentity,
          Def("beforeParsing", "ipAddress", 1, FALSE, TRUE),
          Def("beforeParsing", "ipAddress", 1, TRUE, FALSE)>>]}

\* No action tells the calls or the connections apart
Symmetry == Permutations(Starts) \cup Permutations(Conns)
=============================================================================
