--------------------------- MODULE RequestReply ---------------------------
(***************************************************************************)
(* What a client promises to the callers of send(): a call is accepted or  *)
(* refused, and an accepted call settles at most once, with a response     *)
(* only when an artifact of its id was written.  After close() nothing is  *)
(* accepted and nothing is written.                                        *)
(***************************************************************************)
CONSTANTS Requests, IdOf

VARIABLES outcome, written, closed

vars == <<outcome, written, closed>>

Failures == {"error", "timeout"}

Init ==
    /\ outcome = [r \in Requests |-> "idle"]
    /\ written = {}
    /\ closed = FALSE

Refuse(r) ==
    /\ outcome[r] = "idle"
    /\ outcome' = [outcome EXCEPT ![r] = "error"]
    /\ UNCHANGED <<written, closed>>

Accept(r) ==
    /\ outcome[r] = "idle"
    /\ ~closed
    /\ outcome' = [outcome EXCEPT ![r] = "pending"]
    /\ UNCHANGED <<written, closed>>

\* Accepted artifacts may be written, even when the caller has given up
Write(r) ==
    /\ outcome[r] # "idle"
    /\ ~closed
    /\ written' = written \cup {r}
    /\ UNCHANGED <<outcome, closed>>

\* Any number of calls fail together
Fail(S, failure) ==
    /\ \A r \in S : outcome[r] = "pending"
    /\ outcome' = [r \in Requests |-> IF r \in S THEN failure ELSE outcome[r]]
    /\ UNCHANGED <<written, closed>>

\* A call is answered, and with the room that leaves another one is written
\* or found undeliverable
Answer(r, next) ==
    /\ outcome[r] = "pending"
    /\ \E w \in written : IdOf[w] = IdOf[r]
    /\ \/ /\ outcome' = [outcome EXCEPT ![r] = "response"]
          /\ written' = written
       \/ /\ \E verdict \in {"response", "error"} :
                outcome' = [outcome EXCEPT ![r] = verdict]
          /\ ~closed
          /\ next # r /\ outcome[next] = "pending"
          /\ written' = written \cup {next}
       \/ /\ \E verdict \in {"response", "error"} :
                outcome' = [outcome EXCEPT ![r] = verdict, ![next] = "error"]
          /\ next # r /\ outcome[next] = "pending"
          /\ written' = written
    /\ UNCHANGED closed

Close ==
    /\ closed' = TRUE
    /\ UNCHANGED <<outcome, written>>

Next ==
    \/ \E r \in Requests : Refuse(r) \/ Accept(r) \/ Write(r)
    \/ \E S \in SUBSET Requests, failure \in Failures : Fail(S, failure)
    \/ \E r, next \in Requests : Answer(r, next)
    \/ Close

Spec == Init /\ [][Next]_vars
=============================================================================
