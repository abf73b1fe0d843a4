---------------------- MODULE MCBtpsServerConnection ----------------------
(* Small instances of BtpsServerConnection for TLC.                        *)
EXTENDS BtpsServerConnection, TLC

SignedLine(kind) == [kind |-> kind, signed |-> TRUE]

\* a line of every kind, and one whose signature is wrong
MCEveryKind ==
    {SignedLine(kind) : kind \in Kinds} \cup {[kind |-> "transporter", signed |-> FALSE]}

\* no middleware, or some before any line is parsed, or on errors
MCInstallations == {{}, {"beforeParsing"}, {"failing"}}
=============================================================================
