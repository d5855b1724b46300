-------------------------- MODULE AuthCacheProofs --------------------------
(***************************************************************************)
(* What AuthCache promises about revoked, expired and valid keys, for any  *)
(* number of gateways and calls and any cache lifetimes.                   *)
(***************************************************************************)
EXTENDS AuthCache, TLAPS

\* A call that holds the query's answer saw the row recently, and before it changed.
AnswersRecent ==
    \A c \in Calls : pc[c] = "found" =>
        /\ readAt[c] <= clock /\ clock <= readAt[c] + MaxPause
        /\ readAt[c] < ExpiresAt
        /\ ~isActive => readAt[c] <= revokedAt

\* A positive entry lasts no longer than an answer from before the revocation can make it.
EntriesBounded ==
    \A g \in pos : IF isActive THEN posUntil[g] <= clock + CacheTTL
                               ELSE posUntil[g] <= revokedAt + MaxPause + CacheTTL

ClockAhead ==
    /\ ~isActive => revokedAt <= clock
    /\ \A c \in Calls : acceptedAt[c] <= clock

\* The negative cache and the calls about to fill it know only invalid keys.
NegativesTrue ==
    /\ neg # {} => ~isActive \/ Expired
    /\ \A c \in Calls : pc[c] \in {"missing", "rejected"} => ~isActive \/ Expired

\* What a completed revocation without a racing call leaves on its gateway.
RevokedHere ==
    /\ admin \in {"updated", "done"} => ~isActive
    /\ admin = "done" /\ racing = {} =>
         /\ AdminGateway \notin pos
         /\ \A c \in Calls : gw[c] = AdminGateway => pc[c] # "found"

AgeInv == TypeOK /\ AnswersRecent /\ EntriesBounded /\ ClockAhead /\ RevokedKeyAgesOut
          /\ ExpiryRespected

-----------------------------------------------------------------------------

\* The cases of a step.
LEMMA StepCases ==
    ASSUME [Next]_vars, NEW P,
           ASSUME NEW c \in Calls, PosHit(c) PROVE P,
           ASSUME NEW c \in Calls, PosHitExpired(c) PROVE P,
           ASSUME NEW c \in Calls, PosMiss(c) \/ NegGet(c) \/ GetByHashFails(c) PROVE P,
           ASSUME NEW c \in Calls, GetByHash(c) PROVE P,
           ASSUME NEW c \in Calls, AddMissing(c) PROVE P,
           ASSUME NEW c \in Calls, AddFound(c) PROVE P,
           ASSUME NEW g \in Gateways, Evict(g) PROVE P,
           RevokeLookup => P, Revoke => P, RevokeFails => P, Invalidate => P,
           Tick => P, UNCHANGED vars => P
    PROVE  P
BY DEF Next, Authenticate

\* Every variable keeps its type.
LEMMA TypeNext == TypeOK /\ [Next]_vars => TypeOK'
<1> SUFFICES ASSUME TypeOK, [Next]_vars PROVE TypeOK'
  OBVIOUS
<1> USE AuthAssumption DEF TypeOK, CallStates, rowVars, cacheVars, adminVars
<1>1. ASSUME NEW c \in Calls, PosHit(c) PROVE TypeOK'
  BY <1>1 DEF PosHit, Accept
<1>2. ASSUME NEW c \in Calls, PosHitExpired(c) PROVE TypeOK'
  BY <1>2 DEF PosHitExpired, NegAdd
<1>3. ASSUME NEW c \in Calls, PosMiss(c) \/ NegGet(c) \/ GetByHashFails(c) PROVE TypeOK'
  BY <1>3 DEF PosMiss, NegGet, GetByHashFails
<1>4. ASSUME NEW c \in Calls, GetByHash(c) PROVE TypeOK'
  BY <1>4 DEF GetByHash
<1>5. ASSUME NEW c \in Calls, AddMissing(c) PROVE TypeOK'
  BY <1>5 DEF AddMissing, NegAdd
<1>6. ASSUME NEW c \in Calls, AddFound(c) PROVE TypeOK'
  BY <1>6 DEF AddFound, PosAdd, Accept
<1>7. ASSUME NEW g \in Gateways, Evict(g) PROVE TypeOK'
  BY <1>7 DEF Evict
<1>8. RevokeLookup => TypeOK'
  BY DEF RevokeLookup
<1>9. Revoke => TypeOK'
  BY DEF Revoke, Deactivate
<1>10. RevokeFails => TypeOK'
  BY DEF RevokeFails, Deactivate
<1>11. Invalidate => TypeOK'
  BY DEF Invalidate
<1>12. Tick => TypeOK'
  BY DEF Tick
<1>13. UNCHANGED vars => TypeOK'
  BY DEF vars
<1> QED
  BY <1>1, <1>2, <1>3, <1>4, <1>5, <1>6, <1>7, <1>8, <1>9, <1>10, <1>11, <1>12, <1>13,
     StepCases

\* Answers, entries and acceptances stay within their ages.
LEMMA AgeNext == AgeInv /\ [Next]_vars => AgeInv'
<1> SUFFICES ASSUME AgeInv, [Next]_vars PROVE AgeInv'
  OBVIOUS
<1>0. TypeOK'
  BY TypeNext DEF AgeInv
<1> USE <1>0, AuthAssumption DEF AgeInv, TypeOK, AnswersRecent, EntriesBounded, ClockAhead,
       RevokedKeyAgesOut, ExpiryRespected, Holds, Expired, rowVars, cacheVars, adminVars
<1>1. ASSUME NEW c \in Calls, PosHit(c) PROVE AgeInv'
  BY <1>1 DEF PosHit, Accept
<1>2. ASSUME NEW c \in Calls, PosHitExpired(c) PROVE AgeInv'
  BY <1>2 DEF PosHitExpired, NegAdd
<1>3. ASSUME NEW c \in Calls, PosMiss(c) \/ NegGet(c) \/ GetByHashFails(c) PROVE AgeInv'
  BY <1>3 DEF PosMiss, NegGet, GetByHashFails
<1>4. ASSUME NEW c \in Calls, GetByHash(c) PROVE AgeInv'
  BY <1>4 DEF GetByHash
<1>5. ASSUME NEW c \in Calls, AddMissing(c) PROVE AgeInv'
  BY <1>5 DEF AddMissing, NegAdd
<1>6. ASSUME NEW c \in Calls, AddFound(c) PROVE AgeInv'
  BY <1>6 DEF AddFound, PosAdd, Accept
<1>7. ASSUME NEW g \in Gateways, Evict(g) PROVE AgeInv'
  BY <1>7 DEF Evict
<1>8. RevokeLookup => AgeInv'
  BY DEF RevokeLookup
<1>9. Revoke => AgeInv'
  BY DEF Revoke, Deactivate
<1>10. RevokeFails => AgeInv'
  BY DEF RevokeFails, Deactivate
<1>11. Invalidate => AgeInv'
  BY DEF Invalidate
<1>12. Tick => AgeInv'
  BY DEF Tick
<1>13. UNCHANGED vars => AgeInv'
  BY DEF vars
<1> HIDE DEF AgeInv, TypeOK, AnswersRecent, EntriesBounded, ClockAhead,
       RevokedKeyAgesOut, ExpiryRespected, Holds, Expired, rowVars, cacheVars, adminVars
<1> QED
  BY <1>1, <1>2, <1>3, <1>4, <1>5, <1>6, <1>7, <1>8, <1>9, <1>10, <1>11, <1>12, <1>13,
     StepCases

\* Negative knowledge stays true: revocation and expiry are for good.
LEMMA NegativesNext == TypeOK /\ NegativesTrue /\ [Next]_vars => NegativesTrue'
<1> SUFFICES ASSUME TypeOK, NegativesTrue, [Next]_vars PROVE NegativesTrue'
  OBVIOUS
<1>0. TypeOK'
  BY TypeNext
<1> USE <1>0, AuthAssumption DEF TypeOK, NegativesTrue, Holds, Expired, rowVars, cacheVars,
                                 adminVars
<1>1. ASSUME NEW c \in Calls, PosHit(c) PROVE NegativesTrue'
  BY <1>1 DEF PosHit, Accept
<1>2. ASSUME NEW c \in Calls, PosHitExpired(c) PROVE NegativesTrue'
  BY <1>2 DEF PosHitExpired, NegAdd
<1>3. ASSUME NEW c \in Calls, PosMiss(c) \/ NegGet(c) \/ GetByHashFails(c) PROVE NegativesTrue'
  BY <1>3 DEF PosMiss, NegGet, GetByHashFails
<1>4. ASSUME NEW c \in Calls, GetByHash(c) PROVE NegativesTrue'
  BY <1>4 DEF GetByHash
<1>5. ASSUME NEW c \in Calls, AddMissing(c) PROVE NegativesTrue'
  BY <1>5 DEF AddMissing, NegAdd
<1>6. ASSUME NEW c \in Calls, AddFound(c) PROVE NegativesTrue'
  BY <1>6 DEF AddFound, PosAdd, Accept
<1>7. ASSUME NEW g \in Gateways, Evict(g) PROVE NegativesTrue'
  BY <1>7 DEF Evict
<1>8. RevokeLookup => NegativesTrue'
  BY DEF RevokeLookup
<1>9. Revoke => NegativesTrue'
  BY DEF Revoke, Deactivate
<1>10. RevokeFails => NegativesTrue'
  BY DEF RevokeFails, Deactivate
<1>11. Invalidate => NegativesTrue'
  BY DEF Invalidate
<1>12. Tick => NegativesTrue'
  BY DEF Tick
<1>13. UNCHANGED vars => NegativesTrue'
  BY DEF vars
<1> HIDE DEF TypeOK, NegativesTrue, Holds, Expired, rowVars, cacheVars, adminVars
<1> QED
  BY <1>1, <1>2, <1>3, <1>4, <1>5, <1>6, <1>7, <1>8, <1>9, <1>10, <1>11, <1>12, <1>13,
     StepCases

\* The revocation's gateway stays clean.
LEMMA RevokedHereNext == TypeOK /\ RevokedHere /\ [Next]_vars => RevokedHere'
<1> SUFFICES ASSUME TypeOK, RevokedHere, [Next]_vars PROVE RevokedHere'
  OBVIOUS
<1>0. TypeOK'
  BY TypeNext
<1> USE <1>0, AuthAssumption DEF TypeOK, RevokedHere, Holds, Expired, rowVars, cacheVars, adminVars
<1>1. ASSUME NEW c \in Calls, PosHit(c) PROVE RevokedHere'
  BY <1>1 DEF PosHit, Accept
<1>2. ASSUME NEW c \in Calls, PosHitExpired(c) PROVE RevokedHere'
  BY <1>2 DEF PosHitExpired, NegAdd
<1>3. ASSUME NEW c \in Calls, PosMiss(c) \/ NegGet(c) \/ GetByHashFails(c) PROVE RevokedHere'
  BY <1>3 DEF PosMiss, NegGet, GetByHashFails
<1>4. ASSUME NEW c \in Calls, GetByHash(c) PROVE RevokedHere'
  BY <1>4 DEF GetByHash
<1>5. ASSUME NEW c \in Calls, AddMissing(c) PROVE RevokedHere'
  BY <1>5 DEF AddMissing, NegAdd
<1>6. ASSUME NEW c \in Calls, AddFound(c) PROVE RevokedHere'
  BY <1>6 DEF AddFound, PosAdd, Accept
<1>7. ASSUME NEW g \in Gateways, Evict(g) PROVE RevokedHere'
  BY <1>7 DEF Evict
<1>8. RevokeLookup => RevokedHere'
  BY DEF RevokeLookup
<1>9. Revoke => RevokedHere'
  BY DEF Revoke, Deactivate
<1>10. RevokeFails => RevokedHere'
  BY DEF RevokeFails, Deactivate
<1>11. Invalidate => RevokedHere'
  BY DEF Invalidate
<1>12. Tick => RevokedHere'
  BY DEF Tick
<1>13. UNCHANGED vars => RevokedHere'
  BY DEF vars
<1> HIDE DEF TypeOK, RevokedHere, Holds, Expired, rowVars, cacheVars, adminVars
<1> QED
  BY <1>1, <1>2, <1>3, <1>4, <1>5, <1>6, <1>7, <1>8, <1>9, <1>10, <1>11, <1>12, <1>13,
     StepCases

\* The initial state satisfies all of it.
LEMMA AuthInit == Init => AgeInv /\ NegativesTrue /\ RevokedHere
BY AuthAssumption
   DEF Init, AgeInv, TypeOK, CallStates, AnswersRecent, EntriesBounded, ClockAhead,
       RevokedKeyAgesOut, ExpiryRespected, NegativesTrue, RevokedHere

\* The age bounds are an invariant.
LEMMA AgeInvariant == Spec => []AgeInv
BY AuthInit, AgeNext, PTL DEF Spec

-----------------------------------------------------------------------------

\* Type correctness of the caches, the calls and the revocation.
THEOREM AuthTypeCorrect == Spec => []TypeOK
<1>1. AgeInv => TypeOK
  BY DEF AgeInv
<1> QED BY <1>1, AgeInvariant, PTL

\* A revoked key ages out of every gateway within the cache TTL and one pause, for any
\* number of gateways and concurrent calls.
THEOREM RevocationBounded == Spec => []RevokedKeyAgesOut
<1>1. AgeInv => RevokedKeyAgesOut
  BY DEF AgeInv
<1> QED BY <1>1, AgeInvariant, PTL

\* No call lets an expired key in, beyond the pause of one that found it before.
THEOREM ExpiryCorrect == Spec => []ExpiryRespected
<1>1. AgeInv => ExpiryRespected
  BY DEF AgeInv
<1> QED BY <1>1, AgeInvariant, PTL

\* A valid key is never answered "invalid".
THEOREM RejectionsCorrect == Spec => []NoFalseRejection
<1>1. NegativesTrue => NoFalseRejection
  BY DEF NegativesTrue, NoFalseRejection
<1>2. Spec => []NegativesTrue
  BY AuthInit, NegativesNext, AuthTypeCorrect, PTL DEF Spec
<1> QED BY <1>1, <1>2, PTL

\* A revocation that raced no lookup is final on its gateway.
THEOREM RevocationFinal == Spec => RevocationSticks
<1>1. ASSUME TypeOK, RevokedHere, [Next]_vars, NEW c \in Calls,
             admin = "done", racing = {}, gw[c] = AdminGateway
      PROVE  acceptedAt'[c] = acceptedAt[c]
  <2>1. \A d \in Calls : PosHit(d) \/ AddFound(d) => d # c
    BY <1>1 DEF RevokedHere, PosHit, AddFound, Holds
  <2>2. \A d \in Calls : PosHit(d) \/ AddFound(d) =>
          acceptedAt' = [acceptedAt EXCEPT ![d] = clock]
    BY DEF PosHit, AddFound, Accept
  <2>3. (\E d \in Calls : PosHit(d) \/ AddFound(d)) \/ acceptedAt' = acceptedAt
    BY <1>1 DEF Next, Authenticate, vars, PosHitExpired, PosMiss, NegGet, GetByHash,
       GetByHashFails, AddMissing, Evict, RevokeLookup, Revoke, RevokeFails, Invalidate, Tick
  <2> QED BY <2>1, <2>2, <2>3, <1>1 DEF TypeOK
<1>2. TypeOK /\ RevokedHere /\ [Next]_vars =>
        [\A c \in Calls : admin = "done" /\ racing = {} /\ gw[c] = AdminGateway =>
             acceptedAt'[c] = acceptedAt[c]]_vars
  BY <1>1
<1>3. Spec => []RevokedHere
  BY AuthInit, RevokedHereNext, AuthTypeCorrect, PTL DEF Spec
<1> QED BY <1>2, <1>3, AuthTypeCorrect, PTL DEF Spec, RevocationSticks
============================================================================
