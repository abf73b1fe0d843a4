--------------------- MODULE BtpsAuthenticationProofs ---------------------
(***************************************************************************)
(* Proofs about BtpsAuthentication, for any agents, tokens, keys and       *)
(* requests.                                                               *)
(***************************************************************************)
EXTENDS BtpsAuthentication, TLAPS, FiniteSetTheorems

USE TokenAssumption, NoneAssumption, RecordAssumption

----------------------------------------------------------------------------
(* The shape of the state.                                                 *)

\* the places at which a call works for an auth token, or for an agent, and
\* those at which it has an agent at all
Validating == {"validating", "valid"}
Exchanging == {"reading", "updating", "removing", "storing", "issued"}
WithAgent  == Exchanging \cup {"answered", "lost", "unstored"}

\* A call that works has the arguments its place asks for
CallsShape ==
    /\ pc \in [Calls -> Validating \cup WithAgent \cup {"idle", "refused", "thrown"}]
    /\ DOMAIN op = Calls
    /\ \A w \in Calls :
          /\ pc[w] # "idle" => op[w] = [agent |-> op[w].agent,
                                        token |-> op[w].token, key |-> op[w].key]
          /\ pc[w] \in Validating => op[w].token \in AuthTokens /\ op[w].agent = None
          /\ pc[w] \in WithAgent => op[w].agent \in Agents /\ op[w].key \in Keys

\* The stores hold what they are for
StoresShape ==
    /\ tokens \subseteq AuthTokens \cup RefreshTokens
    /\ owner \in [RefreshTokens -> Agents \cup {None}]
    /\ trust \in [Agents -> Records \cup {None}]
    /\ keysOf \in [Agents -> SUBSET Keys]
    /\ validated \in [AuthTokens -> Nat]
    /\ answer \in [Calls -> RefreshTokens \cup {None}]
    /\ session \in [Agents -> RefreshTokens \cup {None}]

\* Every step leaves a call with the arguments of its place
LEMMA CallsShapeStep ==
    ASSUME CallsShape, [Next]_vars
    PROVE  CallsShape'
<1> USE DEF CallsShape, Validating, Exchanging, WithAgent, vars, tokenVars,
            device, ghosts
<1>1. ASSUME NEW t \in AuthTokens, StoreAuthToken(t)
      PROVE  CallsShape'
  BY <1>1, SMT DEF StoreAuthToken, Store
<1>2. ASSUME NEW w \in Calls, NEW t \in AuthTokens, ValidateAuthToken(w, t)
      PROVE  CallsShape'
  BY <1>2, SMT DEF ValidateAuthToken, Begin, Get, GetNothing, Remove, At
<1>3. ASSUME NEW w \in Calls, Validated(w)
      PROVE  CallsShape'
  BY <1>3, SMT DEF Validated, Remove, At
<1>4. ASSUME NEW w \in Calls, NotRemoved(w)
      PROVE  CallsShape'
  BY <1>4, SMT DEF NotRemoved, At
<1>5. ASSUME NEW w \in Calls, NEW a \in Agents, NEW k \in Keys,
             CreateAgent(w, a, k)
      PROVE  CallsShape'
  <2>1. /\ pc[w] = "valid" /\ op[w].token \in AuthTokens
        /\ op'[w] = [agent |-> a, token |-> op[w].token, key |-> k]
        /\ \A v \in Calls : v # w => op'[v] = op[v]
        /\ DOMAIN op' = Calls
    <3>1. /\ pc[w] = "valid" /\ op[w].token \in AuthTokens
          /\ op[w] = [agent |-> op[w].agent, token |-> op[w].token, key |-> op[w].key]
          /\ op' = [op EXCEPT ![w].agent = a, ![w].key = k]
      BY <1>5 DEF CreateAgent, CallsShape, Validating
    <3>2. op'[w] = [[op[w] EXCEPT !.agent = a] EXCEPT !.key = k]
      BY <3>1 DEF CallsShape
    <3> QED
      BY <3>1, <3>2 DEF CallsShape
  <2>2. \/ pc' = [pc EXCEPT ![w] = "storing"]
        \/ pc' = [pc EXCEPT ![w] = "thrown"]
    BY <1>5 DEF CreateAgent, At
  <2> QED
    BY <2>1, <2>2 DEF CallsShape, Validating, Exchanging, WithAgent
<1>6. ASSUME NEW w \in Calls, StoreRefreshToken(w)
      PROVE  CallsShape'
  BY <1>6, SMT DEF StoreRefreshToken, Store, At
<1>7. ASSUME NEW w \in Calls, NotStored(w)
      PROVE  CallsShape'
  BY <1>7, SMT DEF NotStored, At
<1>8. ASSUME NEW w \in Calls, Answered(w)
      PROVE  CallsShape'
  BY <1>8, SMT DEF Answered, At
<1>9. ASSUME NEW w \in Calls, Unanswered(w)
      PROVE  CallsShape'
  BY <1>9, SMT DEF Unanswered, At
<1>10. ASSUME NEW w \in Calls, NEW a \in Agents, NEW k \in Keys, NEW t \in
             RefreshTokens, Reissue(w, a, t, k)
      PROVE  CallsShape'
  BY <1>10, SMT
  DEF Reissue, Begin, ValidateRefreshToken, Get, GetNothing, Remove, At
<1>11. ASSUME NEW w \in Calls, ReadRecord(w)
      PROVE  CallsShape'
  BY <1>11, SMT DEF ReadRecord, Traced, Exists, At
<1>12. ASSUME NEW w \in Calls, UpdateRecord(w)
      PROVE  CallsShape'
  BY <1>12, SMT DEF UpdateRecord, Exists, At
<1>13. ASSUME NEW w \in Calls, NotUpdated(w)
      PROVE  CallsShape'
  BY <1>13, SMT DEF NotUpdated, At
<1>14. ASSUME NEW w \in Calls, RemoveToken(w)
      PROVE  CallsShape'
  BY <1>14, SMT DEF RemoveToken, Remove, At
<1>15. ASSUME NEW w \in Calls, Throws(w)
      PROVE  CallsShape'
  BY <1>15, SMT DEF Throws, At
<1>16. ASSUME NEW t \in AuthTokens \cup RefreshTokens, Expire(t)
      PROVE  CallsShape'
  BY <1>16, SMT DEF Expire
<1>17. ASSUME Cleanup
      PROVE  CallsShape'
  BY <1>17, SMT DEF Cleanup
<1>18. ASSUME NEW a \in Agents, NEW status \in Statuses, Decide(a, status)
      PROVE  CallsShape'
  BY <1>18, SMT DEF Decide, Exists
<1>19. CASE UNCHANGED vars
  BY <1>19, SMT
<1> QED
  BY <1>1, <1>2, <1>3, <1>4, <1>5, <1>6, <1>7, <1>8, <1>9, <1>10, <1>11,
     <1>12, <1>13, <1>14, <1>15, <1>16, <1>17, <1>18, <1>19 DEF Next

\* Every step leaves in the stores what they are for
LEMMA StoresShapeStep ==
    ASSUME CallsShape, StoresShape, [Next]_vars
    PROVE  StoresShape'
<1> USE DEF CallsShape, Validating, Exchanging, WithAgent, StoresShape,
            Records, Statuses, vars, tokenVars, device, ghosts
<1>1. ASSUME NEW t \in AuthTokens, StoreAuthToken(t)
      PROVE  StoresShape'
  BY <1>1, SMTT(30) DEF StoreAuthToken, Store
<1>2. ASSUME NEW w \in Calls, NEW t \in AuthTokens, ValidateAuthToken(w, t)
      PROVE  StoresShape'
  BY <1>2, SMTT(30)
  DEF ValidateAuthToken, Begin, Get, GetNothing, Remove, At
<1>3. ASSUME NEW w \in Calls, Validated(w)
      PROVE  StoresShape'
  BY <1>3, SMTT(30) DEF Validated, Remove, At
<1>4. ASSUME NEW w \in Calls, NotRemoved(w)
      PROVE  StoresShape'
  BY <1>4, SMTT(30) DEF NotRemoved, At
<1>5. ASSUME NEW w \in Calls, NEW a \in Agents, NEW k \in Keys,
             CreateAgent(w, a, k)
      PROVE  StoresShape'
  BY <1>5, SMTT(30) DEF CreateAgent, At
<1>6. ASSUME NEW w \in Calls, StoreRefreshToken(w)
      PROVE  StoresShape'
  BY <1>6, SMTT(30) DEF StoreRefreshToken, Store, At
<1>7. ASSUME NEW w \in Calls, NotStored(w)
      PROVE  StoresShape'
  BY <1>7, SMTT(30) DEF NotStored, At
<1>8. ASSUME NEW w \in Calls, Answered(w)
      PROVE  StoresShape'
  BY <1>8, SMTT(30) DEF Answered, At
<1>9. ASSUME NEW w \in Calls, Unanswered(w)
      PROVE  StoresShape'
  BY <1>9, SMTT(30) DEF Unanswered, At
<1>10. ASSUME NEW w \in Calls, NEW a \in Agents, NEW k \in Keys, NEW t \in
             RefreshTokens, Reissue(w, a, t, k)
      PROVE  StoresShape'
  BY <1>10, SMTT(30)
  DEF Reissue, Begin, ValidateRefreshToken, Get, GetNothing, Remove, At
<1>11. ASSUME NEW w \in Calls, ReadRecord(w)
      PROVE  StoresShape'
  BY <1>11, SMTT(30) DEF ReadRecord, Traced, Exists, At
<1>12. ASSUME NEW w \in Calls, UpdateRecord(w)
      PROVE  StoresShape'
  BY <1>12, SMTT(30) DEF UpdateRecord, Exists, At
<1>13. ASSUME NEW w \in Calls, NotUpdated(w)
      PROVE  StoresShape'
  BY <1>13, SMTT(30) DEF NotUpdated, At
<1>14. ASSUME NEW w \in Calls, RemoveToken(w)
      PROVE  StoresShape'
  BY <1>14, SMTT(30) DEF RemoveToken, Remove, At
<1>15. ASSUME NEW w \in Calls, Throws(w)
      PROVE  StoresShape'
  BY <1>15, SMTT(30) DEF Throws, At
<1>16. ASSUME NEW t \in AuthTokens \cup RefreshTokens, Expire(t)
      PROVE  StoresShape'
  BY <1>16, SMTT(30) DEF Expire
<1>17. ASSUME Cleanup
      PROVE  StoresShape'
  BY <1>17, SMTT(30) DEF Cleanup
<1>18. ASSUME NEW a \in Agents, NEW status \in Statuses, Decide(a, status)
      PROVE  StoresShape'
  BY <1>18, SMTT(30) DEF Decide, Exists
<1>19. CASE UNCHANGED vars
  BY <1>19, SMTT(30)
<1> QED
  BY <1>1, <1>2, <1>3, <1>4, <1>5, <1>6, <1>7, <1>8, <1>9, <1>10, <1>11,
     <1>12, <1>13, <1>14, <1>15, <1>16, <1>17, <1>18, <1>19 DEF Next

----------------------------------------------------------------------------
(* What a call has seen to before it goes on.                              *)

\* A call that exchanges a token has one of its agent
ExchangesOwn ==
    \A w \in Calls : pc[w] \in {"reading", "updating", "removing"} =>
        op[w].token \in RefreshTokens /\ owner[op[w].token] = op[w].agent

\* Tokens are kept, and calls go on, for agents that have a record only
RecordFirst ==
    /\ \A t \in tokens \cap RefreshTokens :
          owner[t] \in Agents /\ trust[owner[t]] # None
    /\ \A w \in Calls : pc[w] \in WithAgent => trust[op[w].agent] # None

\* A record has the key of the device before a token is issued
KeyFirst ==
    \A w \in Calls : pc[w] \in {"removing", "storing", "issued", "answered"} =>
        op[w].key \in keysOf[op[w].agent]

\* The token that is the answer to a device is one of its agent
AnswersOwn ==
    \A w \in Calls : pc[w] = "issued" =>
        answer[w] \in RefreshTokens /\ owner[answer[w]] = op[w].agent

\* A token keeps its owner
LEMMA ExchangesOwnStep ==
    ASSUME CallsShape, StoresShape, ExchangesOwn, [Next]_vars
    PROVE  ExchangesOwn'
<1> USE DEF CallsShape, Validating, Exchanging, WithAgent, StoresShape,
            Records, Statuses, ExchangesOwn, vars, tokenVars, device,
            ghosts
<1>1. ASSUME NEW t \in AuthTokens, StoreAuthToken(t)
      PROVE  ExchangesOwn'
  BY <1>1, SMTT(30) DEF StoreAuthToken, Store
<1>2. ASSUME NEW w \in Calls, NEW t \in AuthTokens, ValidateAuthToken(w, t)
      PROVE  ExchangesOwn'
  BY <1>2, SMTT(30)
  DEF ValidateAuthToken, Begin, Get, GetNothing, Remove, At
<1>3. ASSUME NEW w \in Calls, Validated(w)
      PROVE  ExchangesOwn'
  BY <1>3, SMTT(30) DEF Validated, Remove, At
<1>4. ASSUME NEW w \in Calls, NotRemoved(w)
      PROVE  ExchangesOwn'
  BY <1>4, SMTT(30) DEF NotRemoved, At
<1>5. ASSUME NEW w \in Calls, NEW a \in Agents, NEW k \in Keys,
             CreateAgent(w, a, k)
      PROVE  ExchangesOwn'
  BY <1>5, SMTT(30) DEF CreateAgent, At
<1>6. ASSUME NEW w \in Calls, StoreRefreshToken(w)
      PROVE  ExchangesOwn'
  BY <1>6, SMTT(30) DEF StoreRefreshToken, Store, At
<1>7. ASSUME NEW w \in Calls, NotStored(w)
      PROVE  ExchangesOwn'
  BY <1>7, SMTT(30) DEF NotStored, At
<1>8. ASSUME NEW w \in Calls, Answered(w)
      PROVE  ExchangesOwn'
  BY <1>8, SMTT(30) DEF Answered, At
<1>9. ASSUME NEW w \in Calls, Unanswered(w)
      PROVE  ExchangesOwn'
  BY <1>9, SMTT(30) DEF Unanswered, At
<1>10. ASSUME NEW w \in Calls, NEW a \in Agents, NEW k \in Keys, NEW t \in
             RefreshTokens, Reissue(w, a, t, k)
      PROVE  ExchangesOwn'
  BY <1>10, SMTT(30)
  DEF Reissue, Begin, ValidateRefreshToken, Get, GetNothing, Remove, At
<1>11. ASSUME NEW w \in Calls, ReadRecord(w)
      PROVE  ExchangesOwn'
  BY <1>11, SMTT(30) DEF ReadRecord, Traced, Exists, At
<1>12. ASSUME NEW w \in Calls, UpdateRecord(w)
      PROVE  ExchangesOwn'
  BY <1>12, SMTT(30) DEF UpdateRecord, Exists, At
<1>13. ASSUME NEW w \in Calls, NotUpdated(w)
      PROVE  ExchangesOwn'
  BY <1>13, SMTT(30) DEF NotUpdated, At
<1>14. ASSUME NEW w \in Calls, RemoveToken(w)
      PROVE  ExchangesOwn'
  BY <1>14, SMTT(30) DEF RemoveToken, Remove, At
<1>15. ASSUME NEW w \in Calls, Throws(w)
      PROVE  ExchangesOwn'
  BY <1>15, SMTT(30) DEF Throws, At
<1>16. ASSUME NEW t \in AuthTokens \cup RefreshTokens, Expire(t)
      PROVE  ExchangesOwn'
  BY <1>16, SMTT(30) DEF Expire
<1>17. ASSUME Cleanup
      PROVE  ExchangesOwn'
  BY <1>17, SMTT(30) DEF Cleanup
<1>18. ASSUME NEW a \in Agents, NEW status \in Statuses, Decide(a, status)
      PROVE  ExchangesOwn'
  BY <1>18, SMTT(30) DEF Decide, Exists
<1>19. CASE UNCHANGED vars
  BY <1>19, SMTT(30)
<1> QED
  BY <1>1, <1>2, <1>3, <1>4, <1>5, <1>6, <1>7, <1>8, <1>9, <1>10, <1>11,
     <1>12, <1>13, <1>14, <1>15, <1>16, <1>17, <1>18, <1>19 DEF Next

\* A record stays once it is there, if only as deleted
LEMMA RecordFirstStep ==
    ASSUME CallsShape, StoresShape, ExchangesOwn, RecordFirst, [Next]_vars
    PROVE  RecordFirst'
<1> USE DEF CallsShape, Validating, Exchanging, WithAgent, StoresShape,
            Records, Statuses, ExchangesOwn, RecordFirst, vars, tokenVars,
            device, ghosts
<1>1. ASSUME NEW t \in AuthTokens, StoreAuthToken(t)
      PROVE  RecordFirst'
  BY <1>1, SMTT(30) DEF StoreAuthToken, Store
<1>2. ASSUME NEW w \in Calls, NEW t \in AuthTokens, ValidateAuthToken(w, t)
      PROVE  RecordFirst'
  BY <1>2, SMTT(30)
  DEF ValidateAuthToken, Begin, Get, GetNothing, Remove, At
<1>3. ASSUME NEW w \in Calls, Validated(w)
      PROVE  RecordFirst'
  BY <1>3, SMTT(30) DEF Validated, Remove, At
<1>4. ASSUME NEW w \in Calls, NotRemoved(w)
      PROVE  RecordFirst'
  BY <1>4, SMTT(30) DEF NotRemoved, At
<1>5. ASSUME NEW w \in Calls, NEW a \in Agents, NEW k \in Keys,
             CreateAgent(w, a, k)
      PROVE  RecordFirst'
  BY <1>5, SMTT(30) DEF CreateAgent, At
<1>6. ASSUME NEW w \in Calls, StoreRefreshToken(w)
      PROVE  RecordFirst'
  BY <1>6, SMTT(30) DEF StoreRefreshToken, Store, At
<1>7. ASSUME NEW w \in Calls, NotStored(w)
      PROVE  RecordFirst'
  BY <1>7, SMTT(30) DEF NotStored, At
<1>8. ASSUME NEW w \in Calls, Answered(w)
      PROVE  RecordFirst'
  BY <1>8, SMTT(30) DEF Answered, At
<1>9. ASSUME NEW w \in Calls, Unanswered(w)
      PROVE  RecordFirst'
  BY <1>9, SMTT(30) DEF Unanswered, At
<1>10. ASSUME NEW w \in Calls, NEW a \in Agents, NEW k \in Keys, NEW t \in
             RefreshTokens, Reissue(w, a, t, k)
      PROVE  RecordFirst'
  BY <1>10, SMTT(30)
  DEF Reissue, Begin, ValidateRefreshToken, Get, GetNothing, Remove, At
<1>11. ASSUME NEW w \in Calls, ReadRecord(w)
      PROVE  RecordFirst'
  BY <1>11, SMTT(30) DEF ReadRecord, Traced, Exists, At
<1>12. ASSUME NEW w \in Calls, UpdateRecord(w)
      PROVE  RecordFirst'
  BY <1>12, SMTT(30) DEF UpdateRecord, Exists, At
<1>13. ASSUME NEW w \in Calls, NotUpdated(w)
      PROVE  RecordFirst'
  BY <1>13, SMTT(30) DEF NotUpdated, At
<1>14. ASSUME NEW w \in Calls, RemoveToken(w)
      PROVE  RecordFirst'
  BY <1>14, SMTT(30) DEF RemoveToken, Remove, At
<1>15. ASSUME NEW w \in Calls, Throws(w)
      PROVE  RecordFirst'
  BY <1>15, SMTT(30) DEF Throws, At
<1>16. ASSUME NEW t \in AuthTokens \cup RefreshTokens, Expire(t)
      PROVE  RecordFirst'
  BY <1>16, SMTT(30) DEF Expire
<1>17. ASSUME Cleanup
      PROVE  RecordFirst'
  BY <1>17, SMTT(30) DEF Cleanup
<1>18. ASSUME NEW a \in Agents, NEW status \in Statuses, Decide(a, status)
      PROVE  RecordFirst'
  BY <1>18, SMTT(30) DEF Decide, Exists
<1>19. CASE UNCHANGED vars
  BY <1>19, SMTT(30)
<1> QED
  BY <1>1, <1>2, <1>3, <1>4, <1>5, <1>6, <1>7, <1>8, <1>9, <1>10, <1>11,
     <1>12, <1>13, <1>14, <1>15, <1>16, <1>17, <1>18, <1>19 DEF Next

\* The key is in the record before the token is removed
LEMMA KeyFirstStep ==
    ASSUME CallsShape, StoresShape, RecordFirst, KeyFirst, [Next]_vars
    PROVE  KeyFirst'
<1> USE DEF CallsShape, Validating, Exchanging, WithAgent, StoresShape,
            Records, Statuses, RecordFirst, KeyFirst, vars, tokenVars,
            device, ghosts
<1>1. ASSUME NEW t \in AuthTokens, StoreAuthToken(t)
      PROVE  KeyFirst'
  BY <1>1, SMTT(30) DEF StoreAuthToken, Store
<1>2. ASSUME NEW w \in Calls, NEW t \in AuthTokens, ValidateAuthToken(w, t)
      PROVE  KeyFirst'
  BY <1>2, SMTT(30)
  DEF ValidateAuthToken, Begin, Get, GetNothing, Remove, At
<1>3. ASSUME NEW w \in Calls, Validated(w)
      PROVE  KeyFirst'
  BY <1>3, SMTT(30) DEF Validated, Remove, At
<1>4. ASSUME NEW w \in Calls, NotRemoved(w)
      PROVE  KeyFirst'
  BY <1>4, SMTT(30) DEF NotRemoved, At
<1>5. ASSUME NEW w \in Calls, NEW a \in Agents, NEW k \in Keys,
             CreateAgent(w, a, k)
      PROVE  KeyFirst'
  BY <1>5, SMTT(30) DEF CreateAgent, At
<1>6. ASSUME NEW w \in Calls, StoreRefreshToken(w)
      PROVE  KeyFirst'
  BY <1>6, SMTT(30) DEF StoreRefreshToken, Store, At
<1>7. ASSUME NEW w \in Calls, NotStored(w)
      PROVE  KeyFirst'
  BY <1>7, SMTT(30) DEF NotStored, At
<1>8. ASSUME NEW w \in Calls, Answered(w)
      PROVE  KeyFirst'
  BY <1>8, SMTT(30) DEF Answered, At
<1>9. ASSUME NEW w \in Calls, Unanswered(w)
      PROVE  KeyFirst'
  BY <1>9, SMTT(30) DEF Unanswered, At
<1>10. ASSUME NEW w \in Calls, NEW a \in Agents, NEW k \in Keys, NEW t \in
             RefreshTokens, Reissue(w, a, t, k)
      PROVE  KeyFirst'
  BY <1>10, SMTT(30)
  DEF Reissue, Begin, ValidateRefreshToken, Get, GetNothing, Remove, At
<1>11. ASSUME NEW w \in Calls, ReadRecord(w)
      PROVE  KeyFirst'
  BY <1>11, SMTT(30) DEF ReadRecord, Traced, Exists, At
<1>12. ASSUME NEW w \in Calls, UpdateRecord(w)
      PROVE  KeyFirst'
  BY <1>12, SMTT(30) DEF UpdateRecord, Exists, At
<1>13. ASSUME NEW w \in Calls, NotUpdated(w)
      PROVE  KeyFirst'
  BY <1>13, SMTT(30) DEF NotUpdated, At
<1>14. ASSUME NEW w \in Calls, RemoveToken(w)
      PROVE  KeyFirst'
  BY <1>14, SMTT(30) DEF RemoveToken, Remove, At
<1>15. ASSUME NEW w \in Calls, Throws(w)
      PROVE  KeyFirst'
  BY <1>15, SMTT(30) DEF Throws, At
<1>16. ASSUME NEW t \in AuthTokens \cup RefreshTokens, Expire(t)
      PROVE  KeyFirst'
  BY <1>16, SMTT(30) DEF Expire
<1>17. ASSUME Cleanup
      PROVE  KeyFirst'
  BY <1>17, SMTT(30) DEF Cleanup
<1>18. ASSUME NEW a \in Agents, NEW status \in Statuses, Decide(a, status)
      PROVE  KeyFirst'
  BY <1>18, SMTT(30) DEF Decide, Exists
<1>19. CASE UNCHANGED vars
  BY <1>19, SMTT(30)
<1> QED
  BY <1>1, <1>2, <1>3, <1>4, <1>5, <1>6, <1>7, <1>8, <1>9, <1>10, <1>11,
     <1>12, <1>13, <1>14, <1>15, <1>16, <1>17, <1>18, <1>19 DEF Next

\* The new token is stored for the agent of the call
LEMMA AnswersOwnStep ==
    ASSUME CallsShape, StoresShape, AnswersOwn, [Next]_vars
    PROVE  AnswersOwn'
<1> USE DEF CallsShape, Validating, Exchanging, WithAgent, StoresShape,
            Records, Statuses, AnswersOwn, vars, tokenVars, device, ghosts
<1>1. ASSUME NEW t \in AuthTokens, StoreAuthToken(t)
      PROVE  AnswersOwn'
  BY <1>1, SMTT(30) DEF StoreAuthToken, Store
<1>2. ASSUME NEW w \in Calls, NEW t \in AuthTokens, ValidateAuthToken(w, t)
      PROVE  AnswersOwn'
  BY <1>2, SMTT(30)
  DEF ValidateAuthToken, Begin, Get, GetNothing, Remove, At
<1>3. ASSUME NEW w \in Calls, Validated(w)
      PROVE  AnswersOwn'
  BY <1>3, SMTT(30) DEF Validated, Remove, At
<1>4. ASSUME NEW w \in Calls, NotRemoved(w)
      PROVE  AnswersOwn'
  BY <1>4, SMTT(30) DEF NotRemoved, At
<1>5. ASSUME NEW w \in Calls, NEW a \in Agents, NEW k \in Keys,
             CreateAgent(w, a, k)
      PROVE  AnswersOwn'
  BY <1>5, SMTT(30) DEF CreateAgent, At
<1>6. ASSUME NEW w \in Calls, StoreRefreshToken(w)
      PROVE  AnswersOwn'
  BY <1>6, SMTT(30) DEF StoreRefreshToken, Store, At
<1>7. ASSUME NEW w \in Calls, NotStored(w)
      PROVE  AnswersOwn'
  BY <1>7, SMTT(30) DEF NotStored, At
<1>8. ASSUME NEW w \in Calls, Answered(w)
      PROVE  AnswersOwn'
  BY <1>8, SMTT(30) DEF Answered, At
<1>9. ASSUME NEW w \in Calls, Unanswered(w)
      PROVE  AnswersOwn'
  BY <1>9, SMTT(30) DEF Unanswered, At
<1>10. ASSUME NEW w \in Calls, NEW a \in Agents, NEW k \in Keys, NEW t \in
             RefreshTokens, Reissue(w, a, t, k)
      PROVE  AnswersOwn'
  BY <1>10, SMTT(30)
  DEF Reissue, Begin, ValidateRefreshToken, Get, GetNothing, Remove, At
<1>11. ASSUME NEW w \in Calls, ReadRecord(w)
      PROVE  AnswersOwn'
  BY <1>11, SMTT(30) DEF ReadRecord, Traced, Exists, At
<1>12. ASSUME NEW w \in Calls, UpdateRecord(w)
      PROVE  AnswersOwn'
  BY <1>12, SMTT(30) DEF UpdateRecord, Exists, At
<1>13. ASSUME NEW w \in Calls, NotUpdated(w)
      PROVE  AnswersOwn'
  BY <1>13, SMTT(30) DEF NotUpdated, At
<1>14. ASSUME NEW w \in Calls, RemoveToken(w)
      PROVE  AnswersOwn'
  BY <1>14, SMTT(30) DEF RemoveToken, Remove, At
<1>15. ASSUME NEW w \in Calls, Throws(w)
      PROVE  AnswersOwn'
  BY <1>15, SMTT(30) DEF Throws, At
<1>16. ASSUME NEW t \in AuthTokens \cup RefreshTokens, Expire(t)
      PROVE  AnswersOwn'
  BY <1>16, SMTT(30) DEF Expire
<1>17. ASSUME Cleanup
      PROVE  AnswersOwn'
  BY <1>17, SMTT(30) DEF Cleanup
<1>18. ASSUME NEW a \in Agents, NEW status \in Statuses, Decide(a, status)
      PROVE  AnswersOwn'
  BY <1>18, SMTT(30) DEF Decide, Exists
<1>19. CASE UNCHANGED vars
  BY <1>19, SMTT(30)
<1> QED
  BY <1>1, <1>2, <1>3, <1>4, <1>5, <1>6, <1>7, <1>8, <1>9, <1>10, <1>11,
     <1>12, <1>13, <1>14, <1>15, <1>16, <1>17, <1>18, <1>19 DEF Next

----------------------------------------------------------------------------
(* One at a time.                                                          *)

\* Without an overlap an agent has one exchange at a time
OneExchange ==
    \A v, w \in Calls :
        /\ pc[v] \in Exchanging /\ pc[w] \in Exchanging
        /\ op[v].agent = op[w].agent /\ op[w].agent \notin overlapped
        => v = w

\* ... and an auth token is validated once at a time
OneValidation ==
    \A v, w \in Calls :
        /\ pc[v] = "validating" /\ pc[w] = "validating"
        /\ op[v].token = op[w].token /\ op[w].token \notin overlapped
        => v = w

\* ... and found valid once, after which it is in no one's hands
ValidOnce ==
    \A t \in AuthTokens : t \notin overlapped =>
        \/ validated[t] = 0
        \/ /\ validated[t] = 1 /\ t \notin tokens
           /\ \A w \in Calls : pc[w] = "validating" => op[w].token # t

\* An exchange beside another is noted as it begins; a new agent has none
LEMMA OneExchangeStep ==
    ASSUME CallsShape, StoresShape, RecordFirst, OneExchange, [Next]_vars
    PROVE  OneExchange'
<1> USE DEF CallsShape, Validating, Exchanging, WithAgent, StoresShape,
            Records, Statuses, RecordFirst, OneExchange, Active, Ends,
            vars, tokenVars, device, ghosts
<1>1. ASSUME NEW t \in AuthTokens, StoreAuthToken(t)
      PROVE  OneExchange'
  BY <1>1, SMTT(30) DEF StoreAuthToken, Store
<1>2. ASSUME NEW w \in Calls, NEW t \in AuthTokens, ValidateAuthToken(w, t)
      PROVE  OneExchange'
  BY <1>2, SMTT(30)
  DEF ValidateAuthToken, Begin, Get, GetNothing, Remove, At
<1>3. ASSUME NEW w \in Calls, Validated(w)
      PROVE  OneExchange'
  BY <1>3, SMTT(30) DEF Validated, Remove, At
<1>4. ASSUME NEW w \in Calls, NotRemoved(w)
      PROVE  OneExchange'
  BY <1>4, SMTT(30) DEF NotRemoved, At
<1>5. ASSUME NEW w \in Calls, NEW a \in Agents, NEW k \in Keys,
             CreateAgent(w, a, k)
      PROVE  OneExchange'
  BY <1>5, SMTT(30) DEF CreateAgent, At
<1>6. ASSUME NEW w \in Calls, StoreRefreshToken(w)
      PROVE  OneExchange'
  BY <1>6, SMTT(30) DEF StoreRefreshToken, Store, At
<1>7. ASSUME NEW w \in Calls, NotStored(w)
      PROVE  OneExchange'
  BY <1>7, SMTT(30) DEF NotStored, At
<1>8. ASSUME NEW w \in Calls, Answered(w)
      PROVE  OneExchange'
  BY <1>8, SMTT(30) DEF Answered, At
<1>9. ASSUME NEW w \in Calls, Unanswered(w)
      PROVE  OneExchange'
  BY <1>9, SMTT(30) DEF Unanswered, At
<1>10. ASSUME NEW w \in Calls, NEW a \in Agents, NEW k \in Keys, NEW t \in
             RefreshTokens, Reissue(w, a, t, k)
      PROVE  OneExchange'
  BY <1>10, SMTT(30)
  DEF Reissue, Begin, ValidateRefreshToken, Get, GetNothing, Remove, At
<1>11. ASSUME NEW w \in Calls, ReadRecord(w)
      PROVE  OneExchange'
  BY <1>11, SMTT(30) DEF ReadRecord, Traced, Exists, At
<1>12. ASSUME NEW w \in Calls, UpdateRecord(w)
      PROVE  OneExchange'
  BY <1>12, SMTT(30) DEF UpdateRecord, Exists, At
<1>13. ASSUME NEW w \in Calls, NotUpdated(w)
      PROVE  OneExchange'
  BY <1>13, SMTT(30) DEF NotUpdated, At
<1>14. ASSUME NEW w \in Calls, RemoveToken(w)
      PROVE  OneExchange'
  BY <1>14, SMTT(30) DEF RemoveToken, Remove, At
<1>15. ASSUME NEW w \in Calls, Throws(w)
      PROVE  OneExchange'
  BY <1>15, SMTT(30) DEF Throws, At
<1>16. ASSUME NEW t \in AuthTokens \cup RefreshTokens, Expire(t)
      PROVE  OneExchange'
  BY <1>16, SMTT(30) DEF Expire
<1>17. ASSUME Cleanup
      PROVE  OneExchange'
  BY <1>17, SMTT(30) DEF Cleanup
<1>18. ASSUME NEW a \in Agents, NEW status \in Statuses, Decide(a, status)
      PROVE  OneExchange'
  BY <1>18, SMTT(30) DEF Decide, Exists
<1>19. CASE UNCHANGED vars
  BY <1>19, SMTT(30)
<1> QED
  BY <1>1, <1>2, <1>3, <1>4, <1>5, <1>6, <1>7, <1>8, <1>9, <1>10, <1>11,
     <1>12, <1>13, <1>14, <1>15, <1>16, <1>17, <1>18, <1>19 DEF Next

\* A validation beside another is noted as it begins
LEMMA OneValidationStep ==
    ASSUME CallsShape, OneValidation, [Next]_vars
    PROVE  OneValidation'
<1> USE DEF CallsShape, Validating, Exchanging, WithAgent, OneValidation,
            Active, Ends, vars, tokenVars, device, ghosts
<1>1. ASSUME NEW t \in AuthTokens, StoreAuthToken(t)
      PROVE  OneValidation'
  BY <1>1, SMTT(30) DEF StoreAuthToken, Store
<1>2. ASSUME NEW w \in Calls, NEW t \in AuthTokens, ValidateAuthToken(w, t)
      PROVE  OneValidation'
  BY <1>2, SMTT(30)
  DEF ValidateAuthToken, Begin, Get, GetNothing, Remove, At
<1>3. ASSUME NEW w \in Calls, Validated(w)
      PROVE  OneValidation'
  BY <1>3, SMTT(30) DEF Validated, Remove, At
<1>4. ASSUME NEW w \in Calls, NotRemoved(w)
      PROVE  OneValidation'
  BY <1>4, SMTT(30) DEF NotRemoved, At
<1>5. ASSUME NEW w \in Calls, NEW a \in Agents, NEW k \in Keys,
             CreateAgent(w, a, k)
      PROVE  OneValidation'
  BY <1>5, SMTT(30) DEF CreateAgent, At
<1>6. ASSUME NEW w \in Calls, StoreRefreshToken(w)
      PROVE  OneValidation'
  BY <1>6, SMTT(30) DEF StoreRefreshToken, Store, At
<1>7. ASSUME NEW w \in Calls, NotStored(w)
      PROVE  OneValidation'
  BY <1>7, SMTT(30) DEF NotStored, At
<1>8. ASSUME NEW w \in Calls, Answered(w)
      PROVE  OneValidation'
  BY <1>8, SMTT(30) DEF Answered, At
<1>9. ASSUME NEW w \in Calls, Unanswered(w)
      PROVE  OneValidation'
  BY <1>9, SMTT(30) DEF Unanswered, At
<1>10. ASSUME NEW w \in Calls, NEW a \in Agents, NEW k \in Keys, NEW t \in
             RefreshTokens, Reissue(w, a, t, k)
      PROVE  OneValidation'
  BY <1>10, SMTT(30)
  DEF Reissue, Begin, ValidateRefreshToken, Get, GetNothing, Remove, At
<1>11. ASSUME NEW w \in Calls, ReadRecord(w)
      PROVE  OneValidation'
  BY <1>11, SMTT(30) DEF ReadRecord, Traced, Exists, At
<1>12. ASSUME NEW w \in Calls, UpdateRecord(w)
      PROVE  OneValidation'
  BY <1>12, SMTT(30) DEF UpdateRecord, Exists, At
<1>13. ASSUME NEW w \in Calls, NotUpdated(w)
      PROVE  OneValidation'
  BY <1>13, SMTT(30) DEF NotUpdated, At
<1>14. ASSUME NEW w \in Calls, RemoveToken(w)
      PROVE  OneValidation'
  BY <1>14, SMTT(30) DEF RemoveToken, Remove, At
<1>15. ASSUME NEW w \in Calls, Throws(w)
      PROVE  OneValidation'
  BY <1>15, SMTT(30) DEF Throws, At
<1>16. ASSUME NEW t \in AuthTokens \cup RefreshTokens, Expire(t)
      PROVE  OneValidation'
  BY <1>16, SMTT(30) DEF Expire
<1>17. ASSUME Cleanup
      PROVE  OneValidation'
  BY <1>17, SMTT(30) DEF Cleanup
<1>18. ASSUME NEW a \in Agents, NEW status \in Statuses, Decide(a, status)
      PROVE  OneValidation'
  BY <1>18, SMTT(30) DEF Decide, Exists
<1>19. CASE UNCHANGED vars
  BY <1>19, SMTT(30)
<1> QED
  BY <1>1, <1>2, <1>3, <1>4, <1>5, <1>6, <1>7, <1>8, <1>9, <1>10, <1>11,
     <1>12, <1>13, <1>14, <1>15, <1>16, <1>17, <1>18, <1>19 DEF Next

\* What is found valid is removed first, and is not generated again
LEMMA ValidOnceStep ==
    ASSUME CallsShape, StoresShape, ExchangesOwn, OneValidation, ValidOnce,
           [Next]_vars
    PROVE  ValidOnce'
<1> USE DEF CallsShape, Validating, Exchanging, WithAgent, StoresShape,
            ExchangesOwn, OneValidation, ValidOnce, vars, tokenVars,
            device, ghosts
<1>1. ASSUME NEW t \in AuthTokens, StoreAuthToken(t)
      PROVE  ValidOnce'
  BY <1>1, SMTT(30) DEF StoreAuthToken, Store
<1>2. ASSUME NEW w \in Calls, NEW t \in AuthTokens, ValidateAuthToken(w, t)
      PROVE  ValidOnce'
  BY <1>2, SMTT(30)
  DEF ValidateAuthToken, Begin, Get, GetNothing, Remove, At
<1>3. ASSUME NEW w \in Calls, Validated(w)
      PROVE  ValidOnce'
  BY <1>3, SMTT(30) DEF Validated, Remove, At
<1>4. ASSUME NEW w \in Calls, NotRemoved(w)
      PROVE  ValidOnce'
  BY <1>4, SMTT(30) DEF NotRemoved, At
<1>5. ASSUME NEW w \in Calls, NEW a \in Agents, NEW k \in Keys,
             CreateAgent(w, a, k)
      PROVE  ValidOnce'
  BY <1>5, SMTT(30) DEF CreateAgent, At
<1>6. ASSUME NEW w \in Calls, StoreRefreshToken(w)
      PROVE  ValidOnce'
  BY <1>6, SMTT(30) DEF StoreRefreshToken, Store, At
<1>7. ASSUME NEW w \in Calls, NotStored(w)
      PROVE  ValidOnce'
  BY <1>7, SMTT(30) DEF NotStored, At
<1>8. ASSUME NEW w \in Calls, Answered(w)
      PROVE  ValidOnce'
  BY <1>8, SMTT(30) DEF Answered, At
<1>9. ASSUME NEW w \in Calls, Unanswered(w)
      PROVE  ValidOnce'
  BY <1>9, SMTT(30) DEF Unanswered, At
<1>10. ASSUME NEW w \in Calls, NEW a \in Agents, NEW k \in Keys, NEW t \in
             RefreshTokens, Reissue(w, a, t, k)
      PROVE  ValidOnce'
  BY <1>10, SMTT(30)
  DEF Reissue, Begin, ValidateRefreshToken, Get, GetNothing, Remove, At
<1>11. ASSUME NEW w \in Calls, ReadRecord(w)
      PROVE  ValidOnce'
  BY <1>11, SMTT(30) DEF ReadRecord, Traced, Exists, At
<1>12. ASSUME NEW w \in Calls, UpdateRecord(w)
      PROVE  ValidOnce'
  BY <1>12, SMTT(30) DEF UpdateRecord, Exists, At
<1>13. ASSUME NEW w \in Calls, NotUpdated(w)
      PROVE  ValidOnce'
  BY <1>13, SMTT(30) DEF NotUpdated, At
<1>14. ASSUME NEW w \in Calls, RemoveToken(w)
      PROVE  ValidOnce'
  BY <1>14, SMTT(30) DEF RemoveToken, Remove, At
<1>15. ASSUME NEW w \in Calls, Throws(w)
      PROVE  ValidOnce'
  BY <1>15, SMTT(30) DEF Throws, At
<1>16. ASSUME NEW t \in AuthTokens \cup RefreshTokens, Expire(t)
      PROVE  ValidOnce'
  BY <1>16, SMTT(30) DEF Expire
<1>17. ASSUME Cleanup
      PROVE  ValidOnce'
  BY <1>17, SMTT(30) DEF Cleanup
<1>18. ASSUME NEW a \in Agents, NEW status \in Statuses, Decide(a, status)
      PROVE  ValidOnce'
  BY <1>18, SMTT(30) DEF Decide, Exists
<1>19. CASE UNCHANGED vars
  BY <1>19, SMTT(30)
<1> QED
  BY <1>1, <1>2, <1>3, <1>4, <1>5, <1>6, <1>7, <1>8, <1>9, <1>10, <1>11,
     <1>12, <1>13, <1>14, <1>15, <1>16, <1>17, <1>18, <1>19 DEF Next

----------------------------------------------------------------------------
(* The keys.                                                               *)

\* The patch of an exchange has put the old key into the history
PatchTraces ==
    \A w \in Calls : pc[w] = "updating" /\ op[w].agent \notin overlapped =>
        \/ trust[op[w].agent].key = op[w].key
        \/ trust[op[w].agent].key \in trust[op[w].agent].keyHistory

\* Nobody else changes the key between the patch and the update
LEMMA PatchTracesStep ==
    ASSUME CallsShape, StoresShape, RecordFirst, OneExchange, PatchTraces,
           [Next]_vars
    PROVE  PatchTraces'
<1> USE DEF CallsShape, Validating, Exchanging, WithAgent, StoresShape,
            Records, Statuses, RecordFirst, OneExchange, PatchTraces, vars,
            tokenVars, device, ghosts
<1>1. ASSUME NEW t \in AuthTokens, StoreAuthToken(t)
      PROVE  PatchTraces'
  BY <1>1, SMTT(30) DEF StoreAuthToken, Store
<1>2. ASSUME NEW w \in Calls, NEW t \in AuthTokens, ValidateAuthToken(w, t)
      PROVE  PatchTraces'
  BY <1>2, SMTT(30)
  DEF ValidateAuthToken, Begin, Get, GetNothing, Remove, At
<1>3. ASSUME NEW w \in Calls, Validated(w)
      PROVE  PatchTraces'
  BY <1>3, SMTT(30) DEF Validated, Remove, At
<1>4. ASSUME NEW w \in Calls, NotRemoved(w)
      PROVE  PatchTraces'
  BY <1>4, SMTT(30) DEF NotRemoved, At
<1>5. ASSUME NEW w \in Calls, NEW a \in Agents, NEW k \in Keys,
             CreateAgent(w, a, k)
      PROVE  PatchTraces'
  BY <1>5, SMTT(30) DEF CreateAgent, At
<1>6. ASSUME NEW w \in Calls, StoreRefreshToken(w)
      PROVE  PatchTraces'
  BY <1>6, SMTT(30) DEF StoreRefreshToken, Store, At
<1>7. ASSUME NEW w \in Calls, NotStored(w)
      PROVE  PatchTraces'
  BY <1>7, SMTT(30) DEF NotStored, At
<1>8. ASSUME NEW w \in Calls, Answered(w)
      PROVE  PatchTraces'
  BY <1>8, SMTT(30) DEF Answered, At
<1>9. ASSUME NEW w \in Calls, Unanswered(w)
      PROVE  PatchTraces'
  BY <1>9, SMTT(30) DEF Unanswered, At
<1>10. ASSUME NEW w \in Calls, NEW a \in Agents, NEW k \in Keys, NEW t \in
             RefreshTokens, Reissue(w, a, t, k)
      PROVE  PatchTraces'
  BY <1>10, SMTT(30)
  DEF Reissue, Begin, ValidateRefreshToken, Get, GetNothing, Remove, At
<1>11. ASSUME NEW w \in Calls, ReadRecord(w)
      PROVE  PatchTraces'
  BY <1>11, SMTT(30) DEF ReadRecord, Traced, Exists, At
<1>12. ASSUME NEW w \in Calls, UpdateRecord(w)
      PROVE  PatchTraces'
  BY <1>12, SMTT(30) DEF UpdateRecord, Exists, At
<1>13. ASSUME NEW w \in Calls, NotUpdated(w)
      PROVE  PatchTraces'
  BY <1>13, SMTT(30) DEF NotUpdated, At
<1>14. ASSUME NEW w \in Calls, RemoveToken(w)
      PROVE  PatchTraces'
  BY <1>14, SMTT(30) DEF RemoveToken, Remove, At
<1>15. ASSUME NEW w \in Calls, Throws(w)
      PROVE  PatchTraces'
  BY <1>15, SMTT(30) DEF Throws, At
<1>16. ASSUME NEW t \in AuthTokens \cup RefreshTokens, Expire(t)
      PROVE  PatchTraces'
  BY <1>16, SMTT(30) DEF Expire
<1>17. ASSUME Cleanup
      PROVE  PatchTraces'
  BY <1>17, SMTT(30) DEF Cleanup
<1>18. ASSUME NEW a \in Agents, NEW status \in Statuses, Decide(a, status)
      PROVE  PatchTraces'
  BY <1>18, SMTT(30) DEF Decide, Exists
<1>19. CASE UNCHANGED vars
  BY <1>19, SMTT(30)
<1> QED
  BY <1>1, <1>2, <1>3, <1>4, <1>5, <1>6, <1>7, <1>8, <1>9, <1>10, <1>11,
     <1>12, <1>13, <1>14, <1>15, <1>16, <1>17, <1>18, <1>19 DEF Next

\* The key that is replaced is in the history by then
LEMMA HistoryTracesStep ==
    ASSUME CallsShape, StoresShape, RecordFirst, PatchTraces,
           HistoryTraces, [Next]_vars
    PROVE  HistoryTraces'
<1> USE DEF CallsShape, Validating, Exchanging, WithAgent, StoresShape,
            Records, Statuses, RecordFirst, PatchTraces, HistoryTraces,
            vars, tokenVars, device, ghosts
<1>1. ASSUME NEW t \in AuthTokens, StoreAuthToken(t)
      PROVE  HistoryTraces'
  BY <1>1, SMTT(30) DEF StoreAuthToken, Store
<1>2. ASSUME NEW w \in Calls, NEW t \in AuthTokens, ValidateAuthToken(w, t)
      PROVE  HistoryTraces'
  BY <1>2, SMTT(30)
  DEF ValidateAuthToken, Begin, Get, GetNothing, Remove, At
<1>3. ASSUME NEW w \in Calls, Validated(w)
      PROVE  HistoryTraces'
  BY <1>3, SMTT(30) DEF Validated, Remove, At
<1>4. ASSUME NEW w \in Calls, NotRemoved(w)
      PROVE  HistoryTraces'
  BY <1>4, SMTT(30) DEF NotRemoved, At
<1>5. ASSUME NEW w \in Calls, NEW a \in Agents, NEW k \in Keys,
             CreateAgent(w, a, k)
      PROVE  HistoryTraces'
  BY <1>5, SMTT(30) DEF CreateAgent, At
<1>6. ASSUME NEW w \in Calls, StoreRefreshToken(w)
      PROVE  HistoryTraces'
  BY <1>6, SMTT(30) DEF StoreRefreshToken, Store, At
<1>7. ASSUME NEW w \in Calls, NotStored(w)
      PROVE  HistoryTraces'
  BY <1>7, SMTT(30) DEF NotStored, At
<1>8. ASSUME NEW w \in Calls, Answered(w)
      PROVE  HistoryTraces'
  BY <1>8, SMTT(30) DEF Answered, At
<1>9. ASSUME NEW w \in Calls, Unanswered(w)
      PROVE  HistoryTraces'
  BY <1>9, SMTT(30) DEF Unanswered, At
<1>10. ASSUME NEW w \in Calls, NEW a \in Agents, NEW k \in Keys, NEW t \in
             RefreshTokens, Reissue(w, a, t, k)
      PROVE  HistoryTraces'
  BY <1>10, SMTT(30)
  DEF Reissue, Begin, ValidateRefreshToken, Get, GetNothing, Remove, At
<1>11. ASSUME NEW w \in Calls, ReadRecord(w)
      PROVE  HistoryTraces'
  BY <1>11, SMTT(30) DEF ReadRecord, Traced, Exists, At
<1>12. ASSUME NEW w \in Calls, UpdateRecord(w)
      PROVE  HistoryTraces'
  BY <1>12, SMTT(30) DEF UpdateRecord, Exists, At
<1>13. ASSUME NEW w \in Calls, NotUpdated(w)
      PROVE  HistoryTraces'
  BY <1>13, SMTT(30) DEF NotUpdated, At
<1>14. ASSUME NEW w \in Calls, RemoveToken(w)
      PROVE  HistoryTraces'
  BY <1>14, SMTT(30) DEF RemoveToken, Remove, At
<1>15. ASSUME NEW w \in Calls, Throws(w)
      PROVE  HistoryTraces'
  BY <1>15, SMTT(30) DEF Throws, At
<1>16. ASSUME NEW t \in AuthTokens \cup RefreshTokens, Expire(t)
      PROVE  HistoryTraces'
  BY <1>16, SMTT(30) DEF Expire
<1>17. ASSUME Cleanup
      PROVE  HistoryTraces'
  BY <1>17, SMTT(30) DEF Cleanup
<1>18. ASSUME NEW a \in Agents, NEW status \in Statuses, Decide(a, status)
      PROVE  HistoryTraces'
  BY <1>18, SMTT(30) DEF Decide, Exists
<1>19. CASE UNCHANGED vars
  BY <1>19, SMTT(30)
<1> QED
  BY <1>1, <1>2, <1>3, <1>4, <1>5, <1>6, <1>7, <1>8, <1>9, <1>10, <1>11,
     <1>12, <1>13, <1>14, <1>15, <1>16, <1>17, <1>18, <1>19 DEF Next

----------------------------------------------------------------------------
(* The sessions.                                                           *)

\* The session of a device has a token of its agent
SessionsOwn ==
    \A a \in Agents : session[a] # None =>
        session[a] \in RefreshTokens /\ owner[session[a]] = a

\* The answer to a device is good when it arrives
AnswersGood ==
    \A w \in Calls : pc[w] = "issued" /\ op[w].agent \notin overlapped =>
        answer[w] \in tokens \cup expired

\* The session is good, or its token was taken by a call that has not brought
\* the new one yet or has failed to
SessionKept ==
    \A a \in Agents : a \notin overlapped /\ session[a] # None =>
        \/ session[a] \in tokens \cup expired
        \/ \E w \in Calls : /\ pc[w] \in {"storing", "issued", "unstored", "lost"}
                            /\ op[w].agent = a

\* A device gets what was stored for its agent
LEMMA SessionsOwnStep ==
    ASSUME CallsShape, StoresShape, AnswersOwn, SessionsOwn, [Next]_vars
    PROVE  SessionsOwn'
<1> USE DEF CallsShape, Validating, Exchanging, WithAgent, StoresShape,
            Records, Statuses, AnswersOwn, SessionsOwn, vars, tokenVars,
            device, ghosts
<1>1. ASSUME NEW t \in AuthTokens, StoreAuthToken(t)
      PROVE  SessionsOwn'
  BY <1>1, SMTT(30) DEF StoreAuthToken, Store
<1>2. ASSUME NEW w \in Calls, NEW t \in AuthTokens, ValidateAuthToken(w, t)
      PROVE  SessionsOwn'
  BY <1>2, SMTT(30)
  DEF ValidateAuthToken, Begin, Get, GetNothing, Remove, At
<1>3. ASSUME NEW w \in Calls, Validated(w)
      PROVE  SessionsOwn'
  BY <1>3, SMTT(30) DEF Validated, Remove, At
<1>4. ASSUME NEW w \in Calls, NotRemoved(w)
      PROVE  SessionsOwn'
  BY <1>4, SMTT(30) DEF NotRemoved, At
<1>5. ASSUME NEW w \in Calls, NEW a \in Agents, NEW k \in Keys,
             CreateAgent(w, a, k)
      PROVE  SessionsOwn'
  BY <1>5, SMTT(30) DEF CreateAgent, At
<1>6. ASSUME NEW w \in Calls, StoreRefreshToken(w)
      PROVE  SessionsOwn'
  BY <1>6, SMTT(30) DEF StoreRefreshToken, Store, At
<1>7. ASSUME NEW w \in Calls, NotStored(w)
      PROVE  SessionsOwn'
  BY <1>7, SMTT(30) DEF NotStored, At
<1>8. ASSUME NEW w \in Calls, Answered(w)
      PROVE  SessionsOwn'
  BY <1>8, SMTT(30) DEF Answered, At
<1>9. ASSUME NEW w \in Calls, Unanswered(w)
      PROVE  SessionsOwn'
  BY <1>9, SMTT(30) DEF Unanswered, At
<1>10. ASSUME NEW w \in Calls, NEW a \in Agents, NEW k \in Keys, NEW t \in
             RefreshTokens, Reissue(w, a, t, k)
      PROVE  SessionsOwn'
  BY <1>10, SMTT(30)
  DEF Reissue, Begin, ValidateRefreshToken, Get, GetNothing, Remove, At
<1>11. ASSUME NEW w \in Calls, ReadRecord(w)
      PROVE  SessionsOwn'
  BY <1>11, SMTT(30) DEF ReadRecord, Traced, Exists, At
<1>12. ASSUME NEW w \in Calls, UpdateRecord(w)
      PROVE  SessionsOwn'
  BY <1>12, SMTT(30) DEF UpdateRecord, Exists, At
<1>13. ASSUME NEW w \in Calls, NotUpdated(w)
      PROVE  SessionsOwn'
  BY <1>13, SMTT(30) DEF NotUpdated, At
<1>14. ASSUME NEW w \in Calls, RemoveToken(w)
      PROVE  SessionsOwn'
  BY <1>14, SMTT(30) DEF RemoveToken, Remove, At
<1>15. ASSUME NEW w \in Calls, Throws(w)
      PROVE  SessionsOwn'
  BY <1>15, SMTT(30) DEF Throws, At
<1>16. ASSUME NEW t \in AuthTokens \cup RefreshTokens, Expire(t)
      PROVE  SessionsOwn'
  BY <1>16, SMTT(30) DEF Expire
<1>17. ASSUME Cleanup
      PROVE  SessionsOwn'
  BY <1>17, SMTT(30) DEF Cleanup
<1>18. ASSUME NEW a \in Agents, NEW status \in Statuses, Decide(a, status)
      PROVE  SessionsOwn'
  BY <1>18, SMTT(30) DEF Decide, Exists
<1>19. CASE UNCHANGED vars
  BY <1>19, SMTT(30)
<1> QED
  BY <1>1, <1>2, <1>3, <1>4, <1>5, <1>6, <1>7, <1>8, <1>9, <1>10, <1>11,
     <1>12, <1>13, <1>14, <1>15, <1>16, <1>17, <1>18, <1>19 DEF Next

\* Nobody else takes the token while the answer is on its way
LEMMA AnswersGoodStep ==
    ASSUME CallsShape, StoresShape, ExchangesOwn, AnswersOwn, OneExchange,
           AnswersGood, [Next]_vars
    PROVE  AnswersGood'
<1> USE DEF CallsShape, Validating, Exchanging, WithAgent, StoresShape,
            ExchangesOwn, AnswersOwn, OneExchange, AnswersGood, vars,
            tokenVars, device, ghosts
<1>1. ASSUME NEW t \in AuthTokens, StoreAuthToken(t)
      PROVE  AnswersGood'
  BY <1>1, SMTT(30) DEF StoreAuthToken, Store
<1>2. ASSUME NEW w \in Calls, NEW t \in AuthTokens, ValidateAuthToken(w, t)
      PROVE  AnswersGood'
  BY <1>2, SMTT(30)
  DEF ValidateAuthToken, Begin, Get, GetNothing, Remove, At
<1>3. ASSUME NEW w \in Calls, Validated(w)
      PROVE  AnswersGood'
  BY <1>3, SMTT(30) DEF Validated, Remove, At
<1>4. ASSUME NEW w \in Calls, NotRemoved(w)
      PROVE  AnswersGood'
  BY <1>4, SMTT(30) DEF NotRemoved, At
<1>5. ASSUME NEW w \in Calls, NEW a \in Agents, NEW k \in Keys,
             CreateAgent(w, a, k)
      PROVE  AnswersGood'
  BY <1>5, SMTT(30) DEF CreateAgent, At
<1>6. ASSUME NEW w \in Calls, StoreRefreshToken(w)
      PROVE  AnswersGood'
  BY <1>6, SMTT(30) DEF StoreRefreshToken, Store, At
<1>7. ASSUME NEW w \in Calls, NotStored(w)
      PROVE  AnswersGood'
  BY <1>7, SMTT(30) DEF NotStored, At
<1>8. ASSUME NEW w \in Calls, Answered(w)
      PROVE  AnswersGood'
  BY <1>8, SMTT(30) DEF Answered, At
<1>9. ASSUME NEW w \in Calls, Unanswered(w)
      PROVE  AnswersGood'
  BY <1>9, SMTT(30) DEF Unanswered, At
<1>10. ASSUME NEW w \in Calls, NEW a \in Agents, NEW k \in Keys, NEW t \in
             RefreshTokens, Reissue(w, a, t, k)
      PROVE  AnswersGood'
  BY <1>10, SMTT(30)
  DEF Reissue, Begin, ValidateRefreshToken, Get, GetNothing, Remove, At
<1>11. ASSUME NEW w \in Calls, ReadRecord(w)
      PROVE  AnswersGood'
  BY <1>11, SMTT(30) DEF ReadRecord, Traced, Exists, At
<1>12. ASSUME NEW w \in Calls, UpdateRecord(w)
      PROVE  AnswersGood'
  BY <1>12, SMTT(30) DEF UpdateRecord, Exists, At
<1>13. ASSUME NEW w \in Calls, NotUpdated(w)
      PROVE  AnswersGood'
  BY <1>13, SMTT(30) DEF NotUpdated, At
<1>14. ASSUME NEW w \in Calls, RemoveToken(w)
      PROVE  AnswersGood'
  BY <1>14, SMTT(30) DEF RemoveToken, Remove, At
<1>15. ASSUME NEW w \in Calls, Throws(w)
      PROVE  AnswersGood'
  BY <1>15, SMTT(30) DEF Throws, At
<1>16. ASSUME NEW t \in AuthTokens \cup RefreshTokens, Expire(t)
      PROVE  AnswersGood'
  BY <1>16, SMTT(30) DEF Expire
<1>17. ASSUME Cleanup
      PROVE  AnswersGood'
  BY <1>17, SMTT(30) DEF Cleanup
<1>18. ASSUME NEW a \in Agents, NEW status \in Statuses, Decide(a, status)
      PROVE  AnswersGood'
  BY <1>18, SMTT(30) DEF Decide, Exists
<1>19. CASE UNCHANGED vars
  BY <1>19, SMTT(30)
<1> QED
  BY <1>1, <1>2, <1>3, <1>4, <1>5, <1>6, <1>7, <1>8, <1>9, <1>10, <1>11,
     <1>12, <1>13, <1>14, <1>15, <1>16, <1>17, <1>18, <1>19 DEF Next

\* The call that takes the token is the one that brings the new one
LEMMA SessionKeptStep ==
    ASSUME CallsShape, StoresShape, ExchangesOwn, SessionsOwn, AnswersGood,
           SessionKept, [Next]_vars
    PROVE  SessionKept'
<1> USE DEF CallsShape, Validating, Exchanging, WithAgent, StoresShape,
            ExchangesOwn, SessionsOwn, AnswersGood, SessionKept, vars,
            tokenVars, device, ghosts
<1>1. ASSUME NEW t \in AuthTokens, StoreAuthToken(t)
      PROVE  SessionKept'
  BY <1>1, SMTT(30) DEF StoreAuthToken, Store
<1>2. ASSUME NEW w \in Calls, NEW t \in AuthTokens, ValidateAuthToken(w, t)
      PROVE  SessionKept'
  BY <1>2, SMTT(30)
  DEF ValidateAuthToken, Begin, Get, GetNothing, Remove, At
<1>3. ASSUME NEW w \in Calls, Validated(w)
      PROVE  SessionKept'
  BY <1>3, SMTT(30) DEF Validated, Remove, At
<1>4. ASSUME NEW w \in Calls, NotRemoved(w)
      PROVE  SessionKept'
  BY <1>4, SMTT(30) DEF NotRemoved, At
<1>5. ASSUME NEW w \in Calls, NEW a \in Agents, NEW k \in Keys,
             CreateAgent(w, a, k)
      PROVE  SessionKept'
  BY <1>5, SMTT(30) DEF CreateAgent, At
<1>6. ASSUME NEW w \in Calls, StoreRefreshToken(w)
      PROVE  SessionKept'
  BY <1>6, SMTT(30) DEF StoreRefreshToken, Store, At
<1>7. ASSUME NEW w \in Calls, NotStored(w)
      PROVE  SessionKept'
  BY <1>7, SMTT(30) DEF NotStored, At
<1>8. ASSUME NEW w \in Calls, Answered(w)
      PROVE  SessionKept'
  BY <1>8, SMTT(30) DEF Answered, At
<1>9. ASSUME NEW w \in Calls, Unanswered(w)
      PROVE  SessionKept'
  BY <1>9, SMTT(30) DEF Unanswered, At
<1>10. ASSUME NEW w \in Calls, NEW a \in Agents, NEW k \in Keys, NEW t \in
             RefreshTokens, Reissue(w, a, t, k)
      PROVE  SessionKept'
  BY <1>10, SMTT(30)
  DEF Reissue, Begin, ValidateRefreshToken, Get, GetNothing, Remove, At
<1>11. ASSUME NEW w \in Calls, ReadRecord(w)
      PROVE  SessionKept'
  BY <1>11, SMTT(30) DEF ReadRecord, Traced, Exists, At
<1>12. ASSUME NEW w \in Calls, UpdateRecord(w)
      PROVE  SessionKept'
  BY <1>12, SMTT(30) DEF UpdateRecord, Exists, At
<1>13. ASSUME NEW w \in Calls, NotUpdated(w)
      PROVE  SessionKept'
  BY <1>13, SMTT(30) DEF NotUpdated, At
<1>14. ASSUME NEW w \in Calls, RemoveToken(w)
      PROVE  SessionKept'
  BY <1>14, SMTT(30) DEF RemoveToken, Remove, At
<1>15. ASSUME NEW w \in Calls, Throws(w)
      PROVE  SessionKept'
  BY <1>15, SMTT(30) DEF Throws, At
<1>16. ASSUME NEW t \in AuthTokens \cup RefreshTokens, Expire(t)
      PROVE  SessionKept'
  BY <1>16, SMTT(30) DEF Expire
<1>17. ASSUME Cleanup
      PROVE  SessionKept'
  BY <1>17, SMTT(30) DEF Cleanup
<1>18. ASSUME NEW a \in Agents, NEW status \in Statuses, Decide(a, status)
      PROVE  SessionKept'
  BY <1>18, SMTT(30) DEF Decide, Exists
<1>19. CASE UNCHANGED vars
  BY <1>19, SMTT(30)
<1> QED
  BY <1>1, <1>2, <1>3, <1>4, <1>5, <1>6, <1>7, <1>8, <1>9, <1>10, <1>11,
     <1>12, <1>13, <1>14, <1>15, <1>16, <1>17, <1>18, <1>19 DEF Next

----------------------------------------------------------------------------
(* The tokens.                                                             *)

\* An agent has one refresh token, the one that its exchange is about, and
\* none when the new one is stored
OneToken ==
    /\ \A s, t \in RefreshTokens :
          s \in tokens /\ t \in tokens /\ owner[s] = owner[t] /\ owner[t] \notin overlapped
          => s = t
    /\ \A w \in Calls : \A t \in RefreshTokens :
          /\ pc[w] \in {"reading", "updating", "removing", "storing"}
          /\ op[w].agent \notin overlapped
          /\ t \in tokens /\ owner[t] = op[w].agent
          => pc[w] # "storing" /\ t = op[w].token

\* An agent that has a record has had its token's time to live, or a call is
\* to store one, or has failed to
TokenLeft ==
    \A a \in Agents : a \notin overlapped /\ trust[a] # None =>
        \/ \E t \in RefreshTokens : owner[t] = a /\ t \in tokens \cup expired
        \/ \E w \in Calls : pc[w] \in {"storing", "unstored"} /\ op[w].agent = a

\* The only token is removed before the new one is stored
LEMMA OneTokenStep ==
    ASSUME CallsShape, StoresShape, ExchangesOwn, RecordFirst, OneExchange,
           OneToken, [Next]_vars
    PROVE  OneToken'
<1> USE DEF CallsShape, Validating, Exchanging, WithAgent, StoresShape,
            Records, ExchangesOwn, RecordFirst, OneExchange, OneToken,
            vars, tokenVars, device, ghosts
<1>1. ASSUME NEW t \in AuthTokens, StoreAuthToken(t)
      PROVE  OneToken'
  BY <1>1, SMTT(30) DEF StoreAuthToken, Store
<1>2. ASSUME NEW w \in Calls, NEW t \in AuthTokens, ValidateAuthToken(w, t)
      PROVE  OneToken'
  BY <1>2, SMTT(30)
  DEF ValidateAuthToken, Begin, Get, GetNothing, Remove, At
<1>3. ASSUME NEW w \in Calls, Validated(w)
      PROVE  OneToken'
  BY <1>3, SMTT(30) DEF Validated, Remove, At
<1>4. ASSUME NEW w \in Calls, NotRemoved(w)
      PROVE  OneToken'
  BY <1>4, SMTT(30) DEF NotRemoved, At
<1>5. ASSUME NEW w \in Calls, NEW a \in Agents, NEW k \in Keys,
             CreateAgent(w, a, k)
      PROVE  OneToken'
  BY <1>5, SMTT(30) DEF CreateAgent, At
<1>6. ASSUME NEW w \in Calls, StoreRefreshToken(w)
      PROVE  OneToken'
  BY <1>6, SMTT(30) DEF StoreRefreshToken, Store, At
<1>7. ASSUME NEW w \in Calls, NotStored(w)
      PROVE  OneToken'
  BY <1>7, SMTT(30) DEF NotStored, At
<1>8. ASSUME NEW w \in Calls, Answered(w)
      PROVE  OneToken'
  BY <1>8, SMTT(30) DEF Answered, At
<1>9. ASSUME NEW w \in Calls, Unanswered(w)
      PROVE  OneToken'
  BY <1>9, SMTT(30) DEF Unanswered, At
<1>10. ASSUME NEW w \in Calls, NEW a \in Agents, NEW k \in Keys, NEW t \in
             RefreshTokens, Reissue(w, a, t, k)
      PROVE  OneToken'
  BY <1>10, SMTT(30)
  DEF Reissue, Begin, ValidateRefreshToken, Get, GetNothing, Remove, At
<1>11. ASSUME NEW w \in Calls, ReadRecord(w)
      PROVE  OneToken'
  BY <1>11, SMTT(30) DEF ReadRecord, Traced, Exists, At
<1>12. ASSUME NEW w \in Calls, UpdateRecord(w)
      PROVE  OneToken'
  BY <1>12, SMTT(30) DEF UpdateRecord, Exists, At
<1>13. ASSUME NEW w \in Calls, NotUpdated(w)
      PROVE  OneToken'
  BY <1>13, SMTT(30) DEF NotUpdated, At
<1>14. ASSUME NEW w \in Calls, RemoveToken(w)
      PROVE  OneToken'
  BY <1>14, SMTT(30) DEF RemoveToken, Remove, At
<1>15. ASSUME NEW w \in Calls, Throws(w)
      PROVE  OneToken'
  BY <1>15, SMTT(30) DEF Throws, At
<1>16. ASSUME NEW t \in AuthTokens \cup RefreshTokens, Expire(t)
      PROVE  OneToken'
  BY <1>16, SMTT(30) DEF Expire
<1>17. ASSUME Cleanup
      PROVE  OneToken'
  BY <1>17, SMTT(30) DEF Cleanup
<1>18. ASSUME NEW a \in Agents, NEW status \in Statuses, Decide(a, status)
      PROVE  OneToken'
  BY <1>18, SMTT(30) DEF Decide, Exists
<1>19. CASE UNCHANGED vars
  BY <1>19, SMTT(30)
<1> QED
  BY <1>1, <1>2, <1>3, <1>4, <1>5, <1>6, <1>7, <1>8, <1>9, <1>10, <1>11,
     <1>12, <1>13, <1>14, <1>15, <1>16, <1>17, <1>18, <1>19 DEF Next

\* A token goes when its time is over, or with a call that stores the next
LEMMA TokenLeftStep ==
    ASSUME CallsShape, StoresShape, ExchangesOwn, TokenLeft, [Next]_vars
    PROVE  TokenLeft'
<1> USE DEF CallsShape, Validating, Exchanging, WithAgent, StoresShape,
            Records, Statuses, ExchangesOwn, TokenLeft, vars, tokenVars,
            device, ghosts
<1>1. ASSUME NEW t \in AuthTokens, StoreAuthToken(t)
      PROVE  TokenLeft'
  BY <1>1, SMTT(30) DEF StoreAuthToken, Store
<1>2. ASSUME NEW w \in Calls, NEW t \in AuthTokens, ValidateAuthToken(w, t)
      PROVE  TokenLeft'
  BY <1>2, SMTT(30)
  DEF ValidateAuthToken, Begin, Get, GetNothing, Remove, At
<1>3. ASSUME NEW w \in Calls, Validated(w)
      PROVE  TokenLeft'
  BY <1>3, SMTT(30) DEF Validated, Remove, At
<1>4. ASSUME NEW w \in Calls, NotRemoved(w)
      PROVE  TokenLeft'
  BY <1>4, SMTT(30) DEF NotRemoved, At
<1>5. ASSUME NEW w \in Calls, NEW a \in Agents, NEW k \in Keys,
             CreateAgent(w, a, k)
      PROVE  TokenLeft'
  BY <1>5, SMTT(30) DEF CreateAgent, At
<1>6. ASSUME NEW w \in Calls, StoreRefreshToken(w)
      PROVE  TokenLeft'
  BY <1>6, SMTT(30) DEF StoreRefreshToken, Store, At
<1>7. ASSUME NEW w \in Calls, NotStored(w)
      PROVE  TokenLeft'
  BY <1>7, SMTT(30) DEF NotStored, At
<1>8. ASSUME NEW w \in Calls, Answered(w)
      PROVE  TokenLeft'
  BY <1>8, SMTT(30) DEF Answered, At
<1>9. ASSUME NEW w \in Calls, Unanswered(w)
      PROVE  TokenLeft'
  BY <1>9, SMTT(30) DEF Unanswered, At
<1>10. ASSUME NEW w \in Calls, NEW a \in Agents, NEW k \in Keys, NEW t \in
             RefreshTokens, Reissue(w, a, t, k)
      PROVE  TokenLeft'
  BY <1>10, SMTT(30)
  DEF Reissue, Begin, ValidateRefreshToken, Get, GetNothing, Remove, At
<1>11. ASSUME NEW w \in Calls, ReadRecord(w)
      PROVE  TokenLeft'
  BY <1>11, SMTT(30) DEF ReadRecord, Traced, Exists, At
<1>12. ASSUME NEW w \in Calls, UpdateRecord(w)
      PROVE  TokenLeft'
  BY <1>12, SMTT(30) DEF UpdateRecord, Exists, At
<1>13. ASSUME NEW w \in Calls, NotUpdated(w)
      PROVE  TokenLeft'
  BY <1>13, SMTT(30) DEF NotUpdated, At
<1>14. ASSUME NEW w \in Calls, RemoveToken(w)
      PROVE  TokenLeft'
  BY <1>14, SMTT(30) DEF RemoveToken, Remove, At
<1>15. ASSUME NEW w \in Calls, Throws(w)
      PROVE  TokenLeft'
  BY <1>15, SMTT(30) DEF Throws, At
<1>16. ASSUME NEW t \in AuthTokens \cup RefreshTokens, Expire(t)
      PROVE  TokenLeft'
  BY <1>16, SMTT(30) DEF Expire
<1>17. ASSUME Cleanup
      PROVE  TokenLeft'
  BY <1>17, SMTT(30) DEF Cleanup
<1>18. ASSUME NEW a \in Agents, NEW status \in Statuses, Decide(a, status)
      PROVE  TokenLeft'
  BY <1>18, SMTT(30) DEF Decide, Exists
<1>19. CASE UNCHANGED vars
  BY <1>19, SMTT(30)
<1> QED
  BY <1>1, <1>2, <1>3, <1>4, <1>5, <1>6, <1>7, <1>8, <1>9, <1>10, <1>11,
     <1>12, <1>13, <1>14, <1>15, <1>16, <1>17, <1>18, <1>19 DEF Next

----------------------------------------------------------------------------
(* The theorems.                                                           *)

\* What holds of the calls, the stores and the devices in every state
AuthInv ==
    /\ CallsShape /\ StoresShape
    /\ ExchangesOwn /\ RecordFirst /\ KeyFirst /\ AnswersOwn
    /\ OneExchange /\ OneValidation /\ ValidOnce
    /\ PatchTraces /\ HistoryTraces
    /\ SessionsOwn /\ AnswersGood /\ SessionKept
    /\ OneToken /\ TokenLeft

\* Nothing is stored and nothing asked for in the beginning
LEMMA AuthInit == Init => AuthInv
<1> SUFFICES ASSUME Init
             PROVE  AuthInv
  OBVIOUS
<1>1. CallsShape /\ StoresShape
  BY DEF Init, CallsShape, StoresShape, Validating, Exchanging, WithAgent
<1>2. ExchangesOwn /\ RecordFirst /\ KeyFirst /\ AnswersOwn
  BY DEF Init, ExchangesOwn, RecordFirst, KeyFirst, AnswersOwn, WithAgent, Exchanging
<1>3. OneExchange /\ OneValidation /\ ValidOnce
  BY DEF Init, OneExchange, OneValidation, ValidOnce, Exchanging
<1>4. PatchTraces /\ HistoryTraces
  BY DEF Init, PatchTraces, HistoryTraces
<1>5. SessionsOwn /\ AnswersGood /\ SessionKept /\ OneToken /\ TokenLeft
  BY DEF Init, SessionsOwn, AnswersGood, SessionKept, OneToken, TokenLeft
<1> QED
  BY <1>1, <1>2, <1>3, <1>4, <1>5 DEF AuthInv

LEMMA AuthStep == AuthInv /\ [Next]_vars => AuthInv'
BY CallsShapeStep, StoresShapeStep, ExchangesOwnStep, RecordFirstStep,
   KeyFirstStep, AnswersOwnStep, OneExchangeStep, OneValidationStep,
   ValidOnceStep, PatchTracesStep, HistoryTracesStep, SessionsOwnStep,
   AnswersGoodStep, SessionKeptStep, OneTokenStep, TokenLeftStep DEF AuthInv

\* Whatever the devices ask, the stores refuse and the application decides,
\* the invariant holds (BtpsAuthentication).
THEOREM AuthCorrect == Spec => []AuthInv
BY AuthInit, AuthStep, PTL DEF Spec

\* A refresh token is stored for an agent with a record only, and is issued to
\* a device whose key the record has had (createAgent, reissueRefreshToken).
THEOREM RecordsComeFirst == Spec => []IssuedMeansAccepted
<1>1. AuthInv => IssuedMeansAccepted
  BY DEF AuthInv, RecordFirst, KeyFirst, IssuedMeansAccepted
<1> QED
  BY <1>1, AuthCorrect, PTL

\* With one exchange at a time an agent has one refresh token, and is without
\* one only when its time was over or the new one could not be stored
\* (createAgent, validateAndReissueRefreshToken).
THEOREM TokenIsSole == Spec => []OneTokenPerAgent
<1>1. AuthInv => OneTokenPerAgent
  <2> SUFFICES ASSUME AuthInv, NEW a \in Agents, a \notin overlapped,
                      \A w \in Active : op[w].agent # a
               PROVE  /\ Cardinality(TokensOf(a)) <= 1
                      /\ \/ TokensOf(a) # {} \/ trust[a] = None \/ CutOff(a, "unstored")
                         \/ \E t \in expired \cap RefreshTokens : owner[t] = a
    BY DEF OneTokenPerAgent
  <2>1. Cardinality(TokensOf(a)) <= 1
    <3>1. CASE TokensOf(a) = {}
      BY <3>1, FS_EmptySet
    <3>2. CASE TokensOf(a) # {}
      <4>1. PICK t : t \in TokensOf(a)
        BY <3>2
      <4>2. TokensOf(a) = {t}
        BY <4>1 DEF TokensOf, AuthInv, OneToken
      <4> QED
        BY <4>2, FS_Singleton
    <3> QED
      BY <3>1, <3>2
  <2>2. \A w \in Calls : pc[w] = "storing" => op[w].agent # a
    BY DEF Active, Ends
  <2>3. trust[a] # None =>
           \/ \E t \in RefreshTokens : owner[t] = a /\ t \in tokens \cup expired
           \/ \E w \in Calls : pc[w] = "unstored" /\ op[w].agent = a
    BY <2>2 DEF AuthInv, TokenLeft
  <2> QED
    BY <2>1, <2>3 DEF TokensOf, CutOff
<1> QED
  BY <1>1, AuthCorrect, PTL

\* With one exchange at a time the device can go on, unless a new token could
\* not be stored or did not arrive (validateAndReissueRefreshToken).
THEOREM SessionLasts == Spec => []SessionIsGood
<1>1. AuthInv => SessionIsGood
  <2> SUFFICES ASSUME AuthInv, NEW a \in Agents, a \notin overlapped, session[a] # None,
                      \A w \in Active : op[w].agent # a
               PROVE  \/ session[a] \in TokensOf(a) \cup expired
                      \/ CutOff(a, "unstored") \/ CutOff(a, "lost")
    BY DEF SessionIsGood
  <2>1. \A w \in Calls : pc[w] \in {"storing", "issued"} => op[w].agent # a
    BY DEF Active, Ends
  <2>2. \/ session[a] \in tokens \cup expired
        \/ \E w \in Calls : pc[w] \in {"unstored", "lost"} /\ op[w].agent = a
    BY <2>1 DEF AuthInv, SessionKept
  <2>3. session[a] \in RefreshTokens /\ owner[session[a]] = a
    BY DEF AuthInv, SessionsOwn
  <2> QED
    BY <2>2, <2>3 DEF TokensOf, CutOff
<1> QED
  BY <1>1, AuthCorrect, PTL

\* With one exchange at a time the record and its history have every key that
\* the agent has had (reissueRefreshToken).
THEOREM KeysAreTraced == Spec => []HistoryTraces
<1>1. AuthInv => HistoryTraces
  BY DEF AuthInv
<1> QED
  BY <1>1, AuthCorrect, PTL

\* An auth token is found valid once, unless two validations of it overlap
\* (validateAuthToken).
THEOREM TokensServeOnce == Spec => []AuthTokenOnce
<1>1. AuthInv => AuthTokenOnce
  BY DEF AuthInv, ValidOnce, AuthTokenOnce
<1> QED
  BY <1>1, AuthCorrect, PTL
=============================================================================
