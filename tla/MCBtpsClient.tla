--------------------------- MODULE MCBtpsClient ---------------------------
(* Small instances of BtpsClient for TLC.                                  *)
EXTENDS BtpsClient, TLC

CONSTANTS r1, r2, a, b

\* every call has an artifact of its own
MCDistinct == (r1 :> a) @@ (r2 :> b)

\* a call is made again with the same artifact
MCReused == (r1 :> a) @@ (r2 :> a)

MCOptions == {[maxRetries |-> 1, maxQueue |-> 2]}

\* update() moves the queue's limit
MCUpdates == {[maxRetries |-> 1, maxQueue |-> n] : n \in {1, 2}}
=============================================================================
