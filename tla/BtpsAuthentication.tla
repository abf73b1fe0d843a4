------------------------ MODULE BtpsAuthentication ------------------------
(***************************************************************************)
(* BtpsAuthentication: a device turns an auth token into an agent with a   *)
(* trust record and a refresh token, and exchanges that one for a new one  *)
(* when it likes.  The server keeps tokens in a TokenStore and records in  *)
(* a trust store; any call of either may fail, other calls run while one   *)
(* is awaited, and an answer may not reach the device.                     *)
(*                                                                         *)
(* A step ends where a store is awaited.  The token store acts when it is  *)
(* called (InMemoryTokenStore), the trust store before its caller goes on  *)
(* (JsonTrustStore).  A record is its status, its key and the keys in its  *)
(* keyHistory; dates matter to nothing here but the expiry of tokens.      *)
(***************************************************************************)
EXTENDS Naturals, FiniteSets

CONSTANTS
    Agents,         \* the ids generateAgentId() may return
    AuthTokens,     \* the tokens generateAuthToken() may return
    RefreshTokens,  \* the tokens generateRefreshToken() may return
    Keys,           \* public keys of devices
    Calls,          \* requests of devices: bounds a behaviour
    None            \* JavaScript's undefined

ASSUME TokenAssumption == AuthTokens \cap RefreshTokens = {}
ASSUME NoneAssumption  == None \notin Agents \cup Keys \cup AuthTokens \cup RefreshTokens

Statuses == {"accepted", "revoked", "deleted"}
Records  == [status : Statuses, key : Keys, keyHistory : SUBSET Keys]

ASSUME RecordAssumption == None \notin Records

VARIABLES
    tokens,      \* the tokens in the token store
    owner,       \* the agent a refresh token was stored for
    expired,     \* the tokens whose time is over
    trust,       \* the trust record of each agent
    pc,          \* where each call waits, or what has become of it
    op,          \* its arguments: [agent, token, key]
    answer,      \* the refresh token it answers with
    session,     \* the refresh token the device of each agent holds
    validated,   \* how often each auth token was found valid (a history)
    keysOf,      \* the keys each agent has had (a history)
    overlapped   \* agents and auth tokens with two calls at a time (a history)

tokenVars == <<tokens, owner>>
device    == <<answer, session>>
ghosts    == <<validated, keysOf, overlapped>>
vars == <<tokenVars, expired, trust, pc, op, device, ghosts>>

Ends     == {"answered", "lost", "refused", "thrown", "unstored"}
Active   == {w \in Calls : pc[w] \notin {"idle"} \cup Ends}

\* a token of agent a was taken, and the new one has not come to its device
CutOff(a, place) == \E w \in Calls : pc[w] = place /\ op[w].agent = a

\* the trust store has a record of agent a
Exists(a) == trust[a] # None /\ trust[a].status # "deleted"

TokensOf(a) == {t \in RefreshTokens : t \in tokens /\ owner[t] = a}

Init ==
    /\ tokens = {}
    /\ owner = [t \in RefreshTokens |-> None]
    /\ expired = {}
    /\ trust = [a \in Agents |-> None]
    /\ pc = [w \in Calls |-> "idle"]
    /\ op = [w \in Calls |-> None]
    /\ answer = [w \in Calls |-> None]
    /\ session = [a \in Agents |-> None]
    /\ validated = [t \in AuthTokens |-> 0]
    /\ keysOf = [a \in Agents |-> {}]
    /\ overlapped = {}

----------------------------------------------------------------------------
(* Steps.                                                                  *)

At(w, place) == pc' = [pc EXCEPT ![w] = place]

\* Call w begins to work for x, an agent or an auth token
Begin(w, x, o) ==
    /\ pc[w] = "idle"
    /\ op' = [op EXCEPT ![w] = o]
    /\ overlapped' = overlapped \cup
          {y \in {x} : \E v \in Active : y \in {op[v].agent, op[v].token}}

\* TokenStore.store() and remove()
Store(t)  == tokens' = tokens \cup {t}
Remove(t) == tokens' = tokens \ {t}

\* TokenStore.get() finds t
Get(t) == t \in tokens /\ t \notin expired /\ UNCHANGED tokens

\* ... or does not: an expired token is removed
GetNothing(t) == (t \notin tokens \/ t \in expired) /\ Remove(t)

\* storeAuthToken(), when the store does not fail
StoreAuthToken(t) ==
    /\ t \notin tokens \cup expired /\ validated[t] = 0
    /\ Store(t)
    /\ UNCHANGED <<owner, expired, trust, pc, op, device, ghosts>>

\* validateAuthToken() up to the answer of the store; an error of the store
\* makes the token invalid
ValidateAuthToken(w, t) ==
    /\ Begin(w, t, [agent |-> None, token |-> t, key |-> None])
    /\ \/ Get(t) /\ At(w, "validating")
       \/ GetNothing(t) /\ At(w, "refused")
       \/ UNCHANGED tokens /\ At(w, "refused")
    /\ UNCHANGED <<owner, expired, trust, device, validated, keysOf>>

\* Mutant of Validated: the token is kept
ValidatedAndKept(w) ==
    /\ pc[w] = "validating"
    /\ validated' = [validated EXCEPT ![op[w].token] = @ + 1]
    /\ At(w, "valid")
    /\ UNCHANGED <<tokenVars, expired, trust, op, device, keysOf, overlapped>>

\* The token is removed, and is valid
Validated(w) ==
    /\ pc[w] = "validating"
    /\ Remove(op[w].token)
    /\ validated' = [validated EXCEPT ![op[w].token] = @ + 1]
    /\ At(w, "valid")
    /\ UNCHANGED <<owner, expired, trust, op, device, keysOf, overlapped>>

\* It cannot be removed, and is not
NotRemoved(w) ==
    /\ pc[w] = "validating"
    /\ At(w, "refused")
    /\ UNCHANGED <<tokenVars, expired, trust, op, device, ghosts>>

\* createAgent() for the device whose token was valid, up to the trust store's
\* answer: a new agent is accepted, or the call fails
CreateAgent(w, a, k) ==
    /\ pc[w] = "valid" /\ trust[a] = None
    /\ op' = [op EXCEPT ![w].agent = a, ![w].key = k]
    /\ \/ /\ trust' = [trust EXCEPT ![a] =
                        [status |-> "accepted", key |-> k, keyHistory |-> {}]]
          /\ keysOf' = [keysOf EXCEPT ![a] = {k}]
          /\ At(w, "storing")
       \/ /\ At(w, "thrown")
          /\ UNCHANGED <<trust, keysOf>>
    /\ UNCHANGED <<tokenVars, expired, device, validated, overlapped>>

\* The last await of createAgent() and of a reissue: a new token is stored
StoreRefreshToken(w) ==
    /\ pc[w] = "storing"
    /\ \E t \in RefreshTokens :
          /\ owner[t] = None
          /\ owner' = [owner EXCEPT ![t] = op[w].agent]
          /\ Store(t)
          /\ answer' = [answer EXCEPT ![w] = t]
    /\ At(w, "issued")
    /\ UNCHANGED <<expired, trust, op, session, ghosts>>

\* It cannot be stored: the agent is left as it is
NotStored(w) ==
    /\ pc[w] = "storing"
    /\ At(w, "unstored")
    /\ UNCHANGED <<tokenVars, expired, trust, op, device, ghosts>>

\* The device has the answer, and its session
Answered(w) ==
    /\ pc[w] = "issued"
    /\ session' = [session EXCEPT ![op[w].agent] = answer[w]]
    /\ At(w, "answered")
    /\ UNCHANGED <<tokenVars, expired, trust, op, answer, ghosts>>

\* Its connection or its patience has ended first
Unanswered(w) ==
    /\ pc[w] = "issued"
    /\ At(w, "lost")
    /\ UNCHANGED <<tokenVars, expired, trust, op, device, ghosts>>

----------------------------------------------------------------------------
(* validateAndReissueRefreshToken(), by a device with key k.               *)

\* validateRefreshToken(); an error of the store makes the token invalid
ValidateRefreshToken(w, a, t) ==
    \/ owner[t] = a /\ Get(t) /\ At(w, "reading")
    \/ owner[t] = a /\ GetNothing(t) /\ At(w, "refused")
    \/ UNCHANGED tokens /\ At(w, "refused")

\* The first await of the exchange
Reissue(w, a, t, k) ==
    /\ Begin(w, a, [agent |-> a, token |-> t, key |-> k])
    /\ ValidateRefreshToken(w, a, t)
    /\ UNCHANGED <<owner, expired, trust, device, validated, keysOf>>

\* Mutant of Traced: the new key is put into the history
TracedNew(record, k) == [record EXCEPT !.keyHistory = @ \cup {k}]

\* a record whose key is to become k: keyHistory is changed in place
Traced(record, k) ==
    [record EXCEPT !.keyHistory = IF record.key = k THEN @ ELSE @ \cup {record.key}]

\* The record is read, and the patch made
ReadRecord(w) ==
    /\ pc[w] = "reading"
    /\ LET a == op[w].agent IN
       IF Exists(a)
       THEN /\ trust' = [trust EXCEPT ![a] = Traced(@, op[w].key)]
            /\ At(w, "updating")
       ELSE /\ At(w, "refused")
            /\ UNCHANGED trust
    /\ UNCHANGED <<tokenVars, expired, op, device, ghosts>>

\* The trust store has updated the record with the patch
UpdateRecord(w) ==
    /\ pc[w] = "updating"
    /\ LET a == op[w].agent IN
       /\ Exists(a)
       /\ trust' = [trust EXCEPT ![a].status = "accepted", ![a].key = op[w].key]
       /\ keysOf' = [keysOf EXCEPT ![a] = @ \cup {op[w].key}]
    /\ At(w, "removing")
    /\ UNCHANGED <<tokenVars, expired, op, device, validated, overlapped>>

\* Mutant of NotUpdated: the token is removed before the update
NotUpdatedRemoved(w) ==
    /\ pc[w] = "updating"
    /\ Remove(op[w].token)
    /\ At(w, "refused")
    /\ UNCHANGED <<owner, expired, trust, op, device, ghosts>>

\* Mutant of NotUpdated: the error of the update is not returned
NotUpdatedGoesOn(w) ==
    /\ pc[w] = "updating"
    /\ At(w, "removing")
    /\ UNCHANGED <<tokenVars, expired, trust, op, device, ghosts>>

\* It has not, or has no such record any more
NotUpdated(w) ==
    /\ pc[w] = "updating"
    /\ At(w, "refused")
    /\ UNCHANGED <<tokenVars, expired, trust, op, device, ghosts>>

\* Mutant of RemoveToken: the old token stays
RemoveNothing(w) ==
    /\ pc[w] = "removing"
    /\ At(w, "storing")
    /\ UNCHANGED <<tokenVars, expired, trust, op, device, ghosts>>

\* The token is removed
RemoveToken(w) ==
    /\ pc[w] = "removing"
    /\ Remove(op[w].token)
    /\ At(w, "storing")
    /\ UNCHANGED <<owner, expired, trust, op, device, ghosts>>

\* The trust store or the token store fails, and the call with it
Throws(w) ==
    /\ pc[w] \in {"reading", "removing"}
    /\ At(w, "thrown")
    /\ UNCHANGED <<tokenVars, expired, trust, op, device, ghosts>>

----------------------------------------------------------------------------
(* The store's own and the application's steps.                            *)

\* Time passes
Expire(t) ==
    /\ t \in tokens
    /\ expired' = expired \cup {t}
    /\ UNCHANGED <<tokenVars, trust, pc, op, device, ghosts>>

\* cleanup()
Cleanup ==
    /\ tokens' = tokens \ expired
    /\ UNCHANGED <<owner, expired, trust, pc, op, device, ghosts>>

\* The application revokes an agent or deletes its record
Decide(a, status) ==
    /\ Exists(a)
    /\ trust' = [trust EXCEPT ![a].status = status]
    /\ UNCHANGED <<tokenVars, expired, pc, op, device, ghosts>>

Next ==
    \/ \E w \in Calls :
          \/ \E t \in AuthTokens : ValidateAuthToken(w, t)
          \/ \E a \in Agents, k \in Keys :
                \/ CreateAgent(w, a, k)
                \/ \E t \in RefreshTokens : Reissue(w, a, t, k)
          \/ Validated(w) \/ NotRemoved(w) \/ StoreRefreshToken(w) \/ NotStored(w)
          \/ Answered(w) \/ Unanswered(w)
          \/ ReadRecord(w) \/ UpdateRecord(w) \/ NotUpdated(w) \/ RemoveToken(w)
          \/ Throws(w)
    \/ \E t \in AuthTokens : StoreAuthToken(t)
    \/ \E t \in AuthTokens \cup RefreshTokens : Expire(t)
    \/ Cleanup
    \/ \E a \in Agents, status \in Statuses : Decide(a, status)

Spec == Init /\ [][Next]_vars

----------------------------------------------------------------------------
(* Properties.                                                             *)

\* No agent gets a refresh token before its trust record is there, and has
\* the key of its device, whichever call of the stores fails and whatever
\* runs at the same time.
IssuedMeansAccepted ==
    /\ \A t \in tokens \cap RefreshTokens : trust[owner[t]] # None
    /\ \A w \in Calls : pc[w] \in {"issued", "answered"} =>
          op[w].key \in keysOf[op[w].agent]

\* As long as an agent has one exchange at a time, it has one refresh token:
\* the old one works until the new one is there or the very call that stores
\* it fails; a failure of any other step locks nobody out and leaves no
\* second token.
OneTokenPerAgent ==
    \A a \in Agents :
        a \notin overlapped /\ (\A w \in Active : op[w].agent # a) =>
            /\ Cardinality(TokensOf(a)) <= 1
            /\ \/ TokensOf(a) # {} \/ trust[a] = None \/ CutOff(a, "unstored")
               \/ \E t \in expired \cap RefreshTokens : owner[t] = a

\* As long as an agent has one exchange at a time, its device can go on: the
\* token of its session is in the store, or its time was over, unless the
\* store has failed to keep a new one or the answer with it was lost; then,
\* the old one is gone.  No other failure half way takes it away.
SessionIsGood ==
    \A a \in Agents \ overlapped :
        session[a] # None /\ (\A w \in Active : op[w].agent # a) =>
            \/ session[a] \in TokensOf(a) \cup expired
            \/ CutOff(a, "unstored") \/ CutOff(a, "lost")

\* A record with keyHistory traces every key the agent has had ("rotate the
\* keys but keep the history to trace"), exchanges that failed half way
\* included, as long as the agent has one exchange at a time.
HistoryTraces ==
    \A a \in Agents \ overlapped : trust[a] # None =>
        keysOf[a] \subseteq {trust[a].key} \cup trust[a].keyHistory

\* An auth token is found valid once ("one-time use"), whichever call of the
\* store fails, as long as it is not validated twice at a time.
AuthTokenOnce == \A t \in AuthTokens \ overlapped : validated[t] <= 1
=============================================================================
