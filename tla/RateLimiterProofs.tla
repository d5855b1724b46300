-------------------------- MODULE RateLimiterProofs --------------------------
(***************************************************************************)
(* The RPM limit of RateLimiter holds, and is not applied too early, for   *)
(* every limit, window, lag and set of requests.                           *)
(***************************************************************************)
EXTENDS RateLimiter, FiniteSetTheorems, TLAPS

\* The span over which the limit is exact, and the time a grant stays counted.
Guaranteed == Window - Lag - Lead

RpmTypeOK ==
    /\ clock \in Nat
    /\ pc \in [Requests -> {"new", "allowed", "rejected", "failopen", "done"}]
    /\ stamp \in [Requests -> Int]
    /\ rpmSet \in SUBSET Requests /\ rpmExpire \in Nat
    /\ granted \in SUBSET Requests
    /\ grantAt \in [Requests -> Nat]
    /\ lost \in SUBSET Requests
    /\ res = [r \in Requests |-> res[r]]

\* A grant is as old as its stamp says, up to the lag; a request that is still
\* undecided after a grant has lost a reply, so its stamp is fixed.
StampsClose ==
    \A r \in granted :
        /\ grantAt[r] <= clock
        /\ grantAt[r] - Lag <= stamp[r] /\ stamp[r] <= grantAt[r] + Lead
        /\ pc[r] = "new" => r \in lost

\* A grant leaves the sorted set only once it is older than the guaranteed span, and the
\* key outlives every grant by two windows.
GrantsCounted ==
    /\ rpmSet \in SUBSET granted
    /\ effectiveRPM > 0 =>
         \A r \in granted : /\ r \in rpmSet \/ grantAt[r] <= clock - Guaranteed
                            /\ grantAt[r] + 2 * Window <= rpmExpire

SetWithinLimit == effectiveRPM > 0 => Cardinality(rpmSet) <= effectiveRPM

\* Who may be in the set without having been admitted.
SlotOwners == \A r \in rpmSet : pc[r] \in {"new", "rejected"} => r \in lost

RpmInv == RpmTypeOK /\ StampsClose /\ GrantsCounted /\ SetWithinLimit /\ SlotOwners

-----------------------------------------------------------------------------

\* A limit is an integer, whichever of the two settings it comes from.
LEMMA LimitIsInt == effectiveRPM \in Int /\ effectiveTPM \in Int
BY LimitAssumption DEF effectiveRPM, effectiveTPM

\* The expiry check.lua sets is rounded up, never down: at least two windows.
LEMMA TtlCoversTwoWindows == ttl \in Nat /\ ttl >= 2 * Window
<1> DEFINE a == 2 * Window + TicksPerSecond - 1
           q == a \div TicksPerSecond
<1>1. a \in Nat /\ TicksPerSecond \in Nat \ {0} /\ Window \in Nat
  BY TimeAssumption
<1>2. q \in Nat /\ a = TicksPerSecond * q + (a % TicksPerSecond)
      /\ a % TicksPerSecond \in 0 .. TicksPerSecond - 1
  <2> HIDE DEF a
  <2> QED BY <1>1
<1>3. TicksPerSecond * q \in Nat
  BY <1>1, <1>2
<1>4. ttl = TicksPerSecond * q
  BY DEF ttl
<1> HIDE DEF q
<1> QED BY <1>1, <1>2, <1>3, <1>4

\* The invariant holds before any request.
LEMMA RpmInvInit == Init => RpmInv
<1> SUFFICES ASSUME Init PROVE RpmInv
  OBVIOUS
<1>1. Cardinality({}) = 0
  BY FS_EmptySet
<1> QED
  BY <1>1, LimitIsInt, TimeAssumption
     DEF Init, RpmInv, RpmTypeOK, StampsClose, GrantsCounted, SetWithinLimit, SlotOwners

\* Pruning: what is dropped at "now" was granted longer ago than the guaranteed span, and
\* what stays was granted at most a window and the lag ago.
LEMMA PruneIsSafe ==
    ASSUME RpmInv, NEW r \in Requests, NEW now \in Stamps(r)
    PROVE  /\ now \in Int /\ clock - Lag <= now /\ now <= clock + Lead
           /\ \A x \in rpmSet \ Live(rpmSet, stamp, now) : grantAt[x] <= clock - Guaranteed
           /\ \A x \in Live(rpmSet, stamp, now) : grantAt[x] > clock - (Window + Lag + Lead)
           /\ Live(rpmSet, stamp, now) \in SUBSET rpmSet
<1>1. now \in Int /\ clock - Lag <= now /\ now <= clock + Lead
  BY TimeAssumption DEF RpmInv, RpmTypeOK, Stamps
<1>2. ASSUME NEW x \in rpmSet
      PROVE  /\ x \in granted /\ x \in Requests
             /\ stamp[x] \in Int /\ grantAt[x] \in Nat
             /\ grantAt[x] - Lag <= stamp[x] /\ stamp[x] <= grantAt[x] + Lead
  BY DEF RpmInv, RpmTypeOK, StampsClose, GrantsCounted
<1>3. clock \in Nat
  BY DEF RpmInv, RpmTypeOK
<1> QED BY <1>1, <1>2, <1>3, TimeAssumption DEF Live, Guaranteed

\* One run of check.lua for r, whatever becomes of its reply.
LEMMA CheckKeepsInv ==
    ASSUME RpmInv, NEW r \in Requests, NEW now \in Stamps(r),
           pc[r] = "new", check(r, now), clock' = clock,
           pc' \in [Requests -> {"new", "allowed", "rejected", "failopen", "done"}],
           \A x \in Requests \ {r} : pc'[x] = pc[x],
           lost' \in SUBSET Requests, lost \in SUBSET lost',
           pc'[r] = "new" => r \in lost',
           reject_code(now) = "ok" /\ pc'[r] = "rejected" => r \in lost',
           res' = [x \in Requests |-> res'[x]]
    PROVE  RpmInv'
<1> DEFINE L == Live(rpmSet, stamp, now)
           ok == reject_code(now) = "ok"
<1>1. /\ now \in Int /\ clock - Lag <= now /\ now <= clock + Lead
      /\ \A x \in rpmSet \ L : grantAt[x] <= clock - Guaranteed
      /\ L \in SUBSET rpmSet
  BY PruneIsSafe
<1>2. /\ rpmSet' = L \cup (IF ok /\ effectiveRPM > 0 THEN {r} ELSE {})
      /\ rpmExpire' = IF ok /\ effectiveRPM > 0 THEN clock + ttl ELSE rpmExpire
      /\ stamp' = [stamp EXCEPT ![r] = now]
      /\ granted' = IF ok THEN granted \cup {r} ELSE granted
      /\ grantAt' = IF ok THEN [grantAt EXCEPT ![r] = clock] ELSE grantAt
  BY DEF check
<1>3. RpmTypeOK
  BY DEF RpmInv
<1>4. r \in lost => stamp' = stamp
  BY <1>2, <1>3 DEF Stamps, RpmTypeOK
<1>5. ok /\ effectiveRPM > 0 => Cardinality(L) < effectiveRPM
  <2>1. SUFFICES ASSUME ok, effectiveRPM > 0, ~(Cardinality(L) < effectiveRPM) PROVE FALSE
    OBVIOUS
  <2>2. IsFiniteSet(L)
    BY <1>1, <1>3, RequestsAssumption, FS_Subset DEF RpmTypeOK
  <2>3. Cardinality(L) \in Nat
    BY <2>2, FS_CardinalityType
  <2>4. Cardinality(L) >= effectiveRPM
    BY <2>1, <2>3, LimitIsInt
  <2>5. reject_code(now) = "rpm"
    BY <2>1, <2>4 DEF reject_code
  <2> QED BY <2>1, <2>5
<1> HIDE DEF L, ok
<1>6. RpmTypeOK'
  BY <1>1, <1>2, <1>3, TtlCoversTwoWindows DEF RpmTypeOK
<1>7. StampsClose'
  <2> SUFFICES ASSUME NEW x \in granted'
               PROVE  /\ grantAt'[x] <= clock'
                      /\ grantAt'[x] - Lag <= stamp'[x] /\ stamp'[x] <= grantAt'[x] + Lead
                      /\ pc'[x] = "new" => x \in lost'
    BY DEF StampsClose
  <2>1. CASE x # r
    BY <2>1, <1>2, <1>3 DEF RpmInv, StampsClose, RpmTypeOK
  <2>2. CASE x = r /\ ok
    BY <2>2, <1>1, <1>2, <1>3, TimeAssumption DEF RpmTypeOK
  <2>3. CASE x = r /\ ~ok
    <3>1. r \in granted /\ r \in lost
      BY <2>3, <1>2 DEF RpmInv, StampsClose
    <3> QED BY <2>3, <3>1, <1>2, <1>4 DEF RpmInv, StampsClose
  <2> QED BY <2>1, <2>2, <2>3
<1>8. GrantsCounted'
  <2>1. rpmSet' \in SUBSET granted'
    BY <1>1, <1>2 DEF RpmInv, GrantsCounted
  <2>2. ASSUME effectiveRPM > 0, NEW x \in granted'
        PROVE  /\ x \in rpmSet' \/ grantAt'[x] <= clock' - Guaranteed
               /\ grantAt'[x] + 2 * Window <= rpmExpire'
    <3>1. CASE x = r /\ ok
      BY <3>1, <2>2, <1>2, <1>3, TtlCoversTwoWindows, TimeAssumption DEF RpmTypeOK
    <3>2. CASE ~(x = r /\ ok)
      <4>1. x \in granted /\ x \in Requests /\ grantAt'[x] = grantAt[x]
        BY <3>2, <2>2, <1>2, <1>3 DEF RpmTypeOK
      <4>2. /\ x \in rpmSet \/ grantAt[x] <= clock - Guaranteed
            /\ grantAt[x] + 2 * Window <= rpmExpire
            /\ grantAt[x] <= clock
        BY <4>1, <2>2 DEF RpmInv, GrantsCounted, StampsClose
      <4>3. x \in rpmSet' \/ grantAt[x] <= clock - Guaranteed
        BY <4>2, <1>1, <1>2
      <4>4. grantAt[x] + 2 * Window <= rpmExpire'
        BY <4>1, <4>2, <1>2, <1>3, TtlCoversTwoWindows, TimeAssumption DEF RpmTypeOK
      <4> QED BY <4>1, <4>3, <4>4
    <3> QED BY <3>1, <3>2
  <2> QED BY <2>1, <2>2 DEF GrantsCounted
<1>9. SetWithinLimit'
  <2> SUFFICES ASSUME effectiveRPM > 0 PROVE Cardinality(rpmSet') <= effectiveRPM
    BY DEF SetWithinLimit
  <2>1. IsFiniteSet(rpmSet) /\ IsFiniteSet(L)
    BY <1>1, <1>3, RequestsAssumption, FS_Subset DEF RpmTypeOK
  <2>2. Cardinality(L) <= Cardinality(rpmSet) /\ Cardinality(L) \in Nat
        /\ Cardinality(rpmSet) \in Nat
    BY <1>1, <2>1, FS_Subset, FS_CardinalityType
  <2>3. Cardinality(L \cup {r}) \in {Cardinality(L), Cardinality(L) + 1}
    <3>1. CASE r \in L
      <4>1. L \cup {r} = L
        BY <3>1
      <4> QED BY <4>1
    <3>2. CASE r \notin L
      BY <3>2, <2>1, FS_AddElement
    <3> QED BY <3>1, <3>2
  <2>4. CASE ok
    <3>1. rpmSet' = L \cup {r}
      BY <2>4, <1>2
    <3> QED BY <3>1, <2>2, <2>3, <1>5, <2>4, LimitIsInt
  <2>5. CASE ~ok
    <3>1. rpmSet' = L
      BY <2>5, <1>2
    <3> QED BY <3>1, <2>2, LimitIsInt DEF RpmInv, SetWithinLimit
  <2> QED BY <2>4, <2>5
<1>10. SlotOwners'
  <2> SUFFICES ASSUME NEW x \in rpmSet', pc'[x] \in {"new", "rejected"} PROVE x \in lost'
    BY DEF SlotOwners
  <2>1. CASE x # r
    BY <2>1, <1>1, <1>2, <1>3 DEF RpmInv, SlotOwners, RpmTypeOK
  <2>2. CASE x = r /\ r \in rpmSet
    BY <2>2 DEF RpmInv, SlotOwners
  <2>3. CASE x = r /\ r \notin rpmSet
    BY <2>3, <1>1, <1>2 DEF ok
  <2> QED BY <2>1, <2>2, <2>3
<1> QED BY <1>6, <1>7, <1>8, <1>9, <1>10 DEF RpmInv

\* Every step keeps the invariant: a check as above, Redis's expiry because the key
\* outlives its grants, the rest because it touches neither the set nor the grants.
LEMMA RpmInvNext == RpmInv /\ [Next]_vars => RpmInv'
<1> SUFFICES ASSUME RpmInv, [Next]_vars PROVE RpmInv'
  OBVIOUS
<1> USE DEF RpmInv
<1>1. ASSUME NEW r \in Requests, NEW now \in clock - Lag .. clock + Lead, Reserve(r, now)
      PROVE  RpmInv'
  <2>1. /\ pc[r] = "new" /\ now \in Stamps(r) /\ check(r, now)
        /\ clock' = clock /\ lost' = lost
        /\ res' = [res EXCEPT ![r] = Reservation(reject_code(now), now)]
        /\ IF reject_code(now) = "ok" THEN pc' = [pc EXCEPT ![r] = "allowed"]
                                      ELSE pc' = [pc EXCEPT ![r] = "rejected"]
    BY <1>1 DEF Reserve
  <2>2. /\ pc' \in [Requests -> {"new", "allowed", "rejected", "failopen", "done"}]
        /\ \A x \in Requests \ {r} : pc'[x] = pc[x]
        /\ pc'[r] # "new"
        /\ reject_code(now) = "ok" => pc'[r] # "rejected"
    BY <2>1 DEF RpmTypeOK
  <2>3. res' = [x \in Requests |-> res'[x]]
    BY <2>1 DEF RpmTypeOK
  <2> QED BY <2>1, <2>2, <2>3, CheckKeepsInv DEF RpmTypeOK
<1>2. ASSUME NEW r \in Requests, NEW now \in clock - Lag .. clock + Lead, ReplyLost(r, now)
      PROVE  RpmInv'
  <2>1. /\ pc[r] = "new" /\ now \in Stamps(r) /\ check(r, now)
        /\ clock' = clock /\ lost' = lost \cup {r} /\ res' = res /\ pc' = pc
    BY <1>2 DEF ReplyLost
  <2> QED BY <2>1, CheckKeepsInv DEF RpmTypeOK
<1>3. ASSUME clock' = clock, rpmSet' = rpmSet, rpmExpire' = rpmExpire, stamp' = stamp,
             granted' = granted, grantAt' = grantAt, lost' = lost, res' = res,
             pc' \in [Requests -> {"new", "allowed", "rejected", "failopen", "done"}],
             \A x \in Requests : pc'[x] = pc[x] \/ pc'[x] \notin {"new", "rejected"}
      PROVE  RpmInv'
  BY <1>3 DEF RpmTypeOK, StampsClose, GrantsCounted, SetWithinLimit, SlotOwners
<1>4. ASSUME NEW r \in Requests, FailOpen(r) \/ FinishUnrecorded(r)
      PROVE  RpmInv'
  BY <1>3, <1>4 DEF FailOpen, FinishUnrecorded, windowVars, ghostVars, RpmTypeOK
<1>5. ASSUME NEW r \in Requests, NEW n \in TokenCounts, NEW now \in clock - Lag .. clock + Lead,
             RecordTokens(r, n, now)
      PROVE  RpmInv'
  BY <1>3, <1>5 DEF RecordTokens, ghostVars, RpmTypeOK
<1>6. CASE Tick
  <2>1. /\ clock' = clock + 1
        /\ rpmSet' = IF clock' >= rpmExpire THEN {} ELSE rpmSet
        /\ rpmExpire' = rpmExpire /\ stamp' = stamp /\ granted' = granted
        /\ grantAt' = grantAt /\ pc' = pc /\ lost' = lost /\ res' = res
    BY <1>6 DEF Tick, ghostVars
  <2>2. RpmTypeOK' /\ StampsClose' /\ SlotOwners'
    BY <2>1 DEF RpmTypeOK, StampsClose, SlotOwners
  <2>3. GrantsCounted'
    BY <2>1, TimeAssumption DEF GrantsCounted, RpmTypeOK, Guaranteed
  <2>4. SetWithinLimit'
    BY <2>1, FS_EmptySet, LimitIsInt DEF SetWithinLimit
  <2> QED BY <2>2, <2>3, <2>4
<1>7. CASE UNCHANGED vars
  BY <1>3, <1>7 DEF vars, windowVars, ghostVars, RpmTypeOK
<1> QED BY <1>1, <1>2, <1>4, <1>5, <1>6, <1>7 DEF Next

\* RpmInv is an invariant of the limiter.
LEMMA RpmInvariant == Spec => []RpmInv
BY RpmInvInit, RpmInvNext, PTL DEF Spec

\* The RPM limit holds over every stretch of the guaranteed length, for every limit,
\* window and clock error: what RateLimiter's run checks for two requests a window.
THEOREM RpmLimitCorrect == Spec => []RpmHolds
<1>1. RpmInv => RpmHolds
  <2> SUFFICES ASSUME RpmInv, effectiveRPM > 0
               PROVE  Cardinality(GrantedSince(clock - Guaranteed)) <= effectiveRPM
    BY DEF RpmHolds, Guaranteed
  <2>1. GrantedSince(clock - Guaranteed) \in SUBSET rpmSet
    BY TimeAssumption DEF RpmInv, GrantsCounted, GrantedSince, RpmTypeOK, Guaranteed
  <2>2. IsFiniteSet(rpmSet)
    BY RequestsAssumption, FS_Subset DEF RpmInv, RpmTypeOK
  <2>3. Cardinality(GrantedSince(clock - Guaranteed)) <= Cardinality(rpmSet)
    BY <2>1, <2>2, FS_Subset
  <2>4. IsFiniteSet(GrantedSince(clock - Guaranteed))
    BY <2>1, <2>2, FS_Subset
  <2> QED BY <2>2, <2>3, <2>4, FS_CardinalityType, LimitIsInt DEF RpmInv, SetWithinLimit
<1> QED BY <1>1, RpmInvariant, PTL

\* check.lua turns a request away for RPM only when the limit really was used up within
\* the window and the clock error.
THEOREM RpmRejectionCorrect == Spec => RpmRejectsOnlyAtLimit
<1>1. ASSUME RpmInv, [Next]_vars, NEW q \in Requests, res'[q].code = "rpm", res[q].code # "rpm"
      PROVE  Cardinality(GrantedSince(clock - (Window + Lag + Lead))) >= effectiveRPM
  <2>1. PICK r \in Requests, now \in clock - Lag .. clock + Lead : Reserve(r, now)
    BY <1>1 DEF Next, vars, ReplyLost, FailOpen, FinishUnrecorded, RecordTokens, Tick
  <2>2. /\ now \in Stamps(r)
        /\ res' = [res EXCEPT ![r] = Reservation(reject_code(now), now)]
    BY <2>1 DEF Reserve
  <2>3. q = r /\ reject_code(now) = "rpm"
    BY <1>1, <2>2 DEF Reservation, RpmInv, RpmTypeOK
  <2> DEFINE L == Live(rpmSet, stamp, now)
             G == GrantedSince(clock - (Window + Lag + Lead))
  <2>4. Cardinality(L) >= effectiveRPM
    BY <2>3 DEF reject_code
  <2>5. L \in SUBSET G /\ G \in SUBSET Requests
    BY <1>1, <2>2, PruneIsSafe DEF GrantedSince, RpmInv, GrantsCounted, RpmTypeOK
  <2> HIDE DEF L, G
  <2>6. IsFiniteSet(G) /\ IsFiniteSet(L)
    BY <2>5, RequestsAssumption, FS_Subset
  <2>7. Cardinality(L) <= Cardinality(G)
    BY <2>5, <2>6, FS_Subset
  <2>8. Cardinality(L) \in Nat /\ Cardinality(G) \in Nat
    BY <2>6, FS_CardinalityType
  <2> QED BY <2>4, <2>7, <2>8, LimitIsInt DEF G
<1>2. RpmInv /\ [Next]_vars =>
        [\A r \in Requests : res'[r].code = "rpm" /\ res[r].code # "rpm" =>
           Cardinality(GrantedSince(clock - (Window + Lag + Lead))) >= effectiveRPM]_vars
  BY <1>1
<1> QED BY <1>2, RpmInvariant, PTL DEF Spec, RpmRejectsOnlyAtLimit

\* No request that was turned away holds an RPM slot, unless its check ran twice.
THEOREM SlotsCorrect == Spec => []RejectedHoldsNoSlot
<1>1. RpmInv => RejectedHoldsNoSlot
  BY DEF RpmInv, SlotOwners, RejectedHoldsNoSlot
<1> QED BY <1>1, RpmInvariant, PTL
=============================================================================
