---------------------------- MODULE RateLimiter ----------------------------
(***************************************************************************)
(* The Redis sliding windows of one API key: internal/ratelimit/limiter.go *)
(* with its scripts check.lua and tpm_record.lua, driven the way the       *)
(* RateLimit middleware drives it (internal/middleware/ratelimit.go).      *)
(*                                                                         *)
(* Redis runs a script atomically, but its "now" argument is a gateway's   *)
(* clock, read before the script was sent.  When the script runs, that     *)
(* reading may be up to Lag ticks behind Redis's own time (the command was *)
(* on its way, or the gateway's clock is slow) and up to Lead ahead of it. *)
(* A tick is one millisecond of the code, scaled down; TicksPerSecond      *)
(* keeps the two units the scripts mix apart.                              *)
(*                                                                         *)
(* A request's member of the RPM sorted set is its unique request id and   *)
(* its score the stamp of the request, so the set is kept as the ids with  *)
(* stamp as the score; the TPM set likewise.  A key with no limit at all   *)
(* never reaches Redis (Reserve's early return) and is left out.           *)
(***************************************************************************)
EXTENDS Integers, FiniteSets, FiniteSetsExt

CONSTANTS Requests,               \* the requests made with the key
          KeyRPM, DefaultRPM,     \* the key's own limit and the configured default
          KeyTPM, DefaultTPM,
          Window,                 \* redisLimiter.window, in ticks
          TicksPerSecond,         \* ticks in one second of an EXPIRE
          Lag, Lead,              \* how far "now" may be off when a script runs
          TokenCounts,            \* what a response may report as total_tokens
          MaxTime                 \* bound on the clock, for TLC

ASSUME LimitAssumption ==
    /\ KeyRPM \in Int /\ DefaultRPM \in Int
    /\ KeyTPM \in Int /\ DefaultTPM \in Int
    /\ \E limit \in {KeyRPM, DefaultRPM, KeyTPM, DefaultTPM} : limit > 0
    /\ TokenCounts \in SUBSET Int
    /\ MaxTime \in Nat

ASSUME TimeAssumption ==
    /\ Window \in Nat \ {0} /\ TicksPerSecond \in Nat \ {0}
    /\ Lag \in Nat /\ Lead \in Nat /\ Lead <= Window

ASSUME RequestsAssumption == IsFiniteSet(Requests)

VARIABLES clock,      \* Redis's time
          pc,         \* where the middleware is with each request
          stamp,      \* nowMs of the request's Reserve
          lost,       \* a reply to the request's check was lost
          rpmSet,     \* members of ratelimit:<org>:<key>:rpm
          rpmExpire,  \* when that key expires
          tpmSet,     \* members of ratelimit:<org>:<key>:tpm
          tpmExpire,
          tokens,     \* the ":N" suffix of a request's TPM member
          tokStamp,   \* and its score
          res,        \* the Reservation of a request
          granted,    \* the requests whose check passed, at least once
          grantAt,    \* when it last did
          burst       \* how many requests were in flight after the last admission

windowVars == <<rpmSet, rpmExpire, tpmSet, tpmExpire>>
tokenVars == <<tokens, tokStamp>>
ghostVars == <<granted, grantAt, burst>>
vars == <<clock, pc, stamp, lost, windowVars, tokenVars, res, ghostVars>>

effectiveRPM == IF KeyRPM > 0 THEN KeyRPM ELSE DefaultRPM
effectiveTPM == IF KeyTPM > 0 THEN KeyTPM ELSE DefaultTPM

NoReservation == [code |-> "none", now |-> 0, retryAfter |-> 0, tpmRemaining |-> 0]

InFlight == {r \in Requests : pc[r] = "allowed"}

\* Types; what a Reservation reports as remaining or to wait for is never negative.
TypeOK ==
    /\ clock \in Nat
    /\ pc \in [Requests -> {"new", "allowed", "rejected", "failopen", "done"}]
    /\ stamp \in [Requests -> Int]
    /\ lost \in SUBSET Requests
    /\ rpmSet \in SUBSET Requests /\ rpmExpire \in Nat
    /\ tpmSet \in SUBSET Requests /\ tpmExpire \in Nat
    /\ tokens \in [Requests -> Int]
    /\ tokStamp \in [Requests -> Int]
    /\ res \in [Requests -> [code : {"none", "ok", "rpm", "tpm"}, now : Int,
                             retryAfter : Nat, tpmRemaining : Nat]]
    /\ granted \in SUBSET Requests
    /\ grantAt \in [Requests -> Nat]
    /\ burst \in Nat

Init ==
    /\ clock = 0
    /\ pc = [r \in Requests |-> "new"]
    /\ stamp = [r \in Requests |-> 0]
    /\ lost = {}
    /\ rpmSet = {} /\ rpmExpire = 0
    /\ tpmSet = {} /\ tpmExpire = 0
    /\ tokens = [r \in Requests |-> 0]
    /\ tokStamp = [r \in Requests |-> 0]
    /\ res = [r \in Requests |-> NoReservation]
    /\ granted = {}
    /\ grantAt = [r \in Requests |-> 0]
    /\ burst = 0

-----------------------------------------------------------------------------
(* check.lua.                                                              *)

\* Mutant: an entry outlives the window by a tick.
LiveLong(S, score, now) == {x \in S : score[x] >= now - Window}

\* What ZREMRANGEBYSCORE key -inf (now - window) leaves.
Live(S, score, now) == {x \in S : score[x] > now - Window}

oldest_score(S, score, now) == IF S = {} THEN now ELSE Min({score[x] : x \in S})

tpm_total(now) == MapThenSumSet(LAMBDA x : tokens[x], Live(tpmSet, tokStamp, now))

\* Mutant: the RPM limit itself is still let through.
reject_codeOffByOne(now) ==
    IF effectiveRPM > 0 /\ Cardinality(Live(rpmSet, stamp, now)) > effectiveRPM THEN "rpm"
    ELSE IF effectiveTPM > 0 /\ tpm_total(now) >= effectiveTPM THEN "tpm"
    ELSE "ok"

\* Mutant: TPM is not checked.
reject_codeRpmOnly(now) ==
    IF effectiveRPM > 0 /\ Cardinality(Live(rpmSet, stamp, now)) >= effectiveRPM THEN "rpm"
    ELSE "ok"

reject_code(now) ==
    IF effectiveRPM > 0 /\ Cardinality(Live(rpmSet, stamp, now)) >= effectiveRPM THEN "rpm"
    ELSE IF effectiveTPM > 0 /\ tpm_total(now) >= effectiveTPM THEN "tpm"
    ELSE "ok"

\* ttl = ceil(window * 2 / 1000), in seconds.
ttl == TicksPerSecond * ((2 * Window + TicksPerSecond - 1) \div TicksPerSecond)

\* The script's effect on Redis.  An RPM rejection returns before the TPM set is
\* touched; only a passing check adds the tick and renews the key's expiry.
check(r, now) ==
    LET code == reject_code(now) IN
    /\ rpmSet' = Live(rpmSet, stamp, now)
                    \cup (IF code = "ok" /\ effectiveRPM > 0 THEN {r} ELSE {})
    /\ rpmExpire' = IF code = "ok" /\ effectiveRPM > 0 THEN clock + ttl ELSE rpmExpire
    /\ tpmSet' = IF code # "rpm" /\ effectiveTPM > 0 THEN Live(tpmSet, tokStamp, now)
                 ELSE tpmSet
    /\ stamp' = [stamp EXCEPT ![r] = now]
    /\ granted' = IF code = "ok" THEN granted \cup {r} ELSE granted
    /\ grantAt' = IF code = "ok" THEN [grantAt EXCEPT ![r] = clock] ELSE grantAt
    /\ UNCHANGED <<tpmExpire, tokenVars>>

-----------------------------------------------------------------------------
(* limiter.go and the middleware.                                          *)

clampRemaining(limit, used) == IF limit <= 0 \/ used >= limit THEN 0 ELSE limit - used

computeReset(now, oldest) == IF Window - (now - oldest) < 0 THEN 0 ELSE Window - (now - oldest)

\* Mutant: Retry-After ignores how long the oldest entry has been in the window.
RetryAfterWindow(code, now) == Window

RetryAfter(code, now) ==
    LET oldest == IF code = "rpm" THEN oldest_score(Live(rpmSet, stamp, now), stamp, now)
                  ELSE oldest_score(Live(tpmSet, tokStamp, now), tokStamp, now)
    IN  IF computeReset(now, oldest) <= 0 THEN Window ELSE computeReset(now, oldest)

\* The fields of a Reservation that a later property speaks of.  An RPM rejection
\* answers tpm_used = 0 without having looked at the TPM set.
Reservation(code, now) ==
    [code |-> code, now |-> now,
     retryAfter |-> IF code = "ok" THEN 0 ELSE RetryAfter(code, now),
     tpmRemaining |-> clampRemaining(effectiveTPM,
        IF code = "rpm" \/ effectiveTPM <= 0 THEN 0 ELSE tpm_total(now))]

\* The values "now" may have when the script of r runs.  A command that is sent
\* again after a lost reply carries the arguments of the first attempt.
Stamps(r) == {now \in clock - Lag .. clock + Lead : r \in lost => now = stamp[r]}

\* Reserve returned without an error: the middleware answers 429 or serves the request.
Reserve(r, now) ==
    /\ pc[r] = "new"
    /\ now \in Stamps(r)
    /\ check(r, now)
    /\ res' = [res EXCEPT ![r] = Reservation(reject_code(now), now)]
    /\ IF reject_code(now) = "ok"
       THEN /\ pc' = [pc EXCEPT ![r] = "allowed"]
            /\ burst' = Cardinality(InFlight \cup {r})
       ELSE /\ pc' = [pc EXCEPT ![r] = "rejected"]
            /\ burst' = burst
    /\ UNCHANGED <<clock, lost>>

\* The script ran but its reply was lost: the Redis client, left with its default
\* retries by NewRedis, sends the command again (pc stays "new").
ReplyLost(r, now) ==
    /\ pc[r] = "new"
    /\ now \in Stamps(r)
    /\ check(r, now)
    /\ lost' = lost \cup {r}
    /\ UNCHANGED <<clock, pc, res, burst>>

\* Reserve returned an error, whatever the script did before: the request is served,
\* without headers and without counting its tokens.
FailOpen(r) ==
    /\ pc[r] = "new"
    /\ pc' = [pc EXCEPT ![r] = "failopen"]
    /\ UNCHANGED <<clock, stamp, lost, windowVars, tokenVars, res, ghostVars>>

\* The response of an admitted request is complete and reports n tokens.
\* tpm_record.lua's expiry is twice the window too, but the window it is given is in
\* milliseconds and EXPIRE counts seconds.
RecordTokens(r, n, now) ==
    /\ pc[r] = "allowed"
    /\ n > 0 /\ effectiveTPM > 0
    /\ now \in clock - Lag .. clock + Lead
    /\ tpmSet' = tpmSet \cup {r}
    /\ tokens' = [tokens EXCEPT ![r] = n]
    /\ tokStamp' = [tokStamp EXCEPT ![r] = now]
    /\ tpmExpire' = clock + 2 * Window * TicksPerSecond
    /\ pc' = [pc EXCEPT ![r] = "done"]
    /\ UNCHANGED <<clock, stamp, lost, rpmSet, rpmExpire, res, ghostVars>>

\* finish records nothing: a stream, an error status, a body over the capture limit or
\* without usage, a key without TPM limit, or RecordTokens failed.
FinishUnrecorded(r) ==
    /\ pc[r] = "allowed"
    /\ pc' = [pc EXCEPT ![r] = "done"]
    /\ UNCHANGED <<clock, stamp, lost, windowVars, tokenVars, res, ghostVars>>

\* Time passes; Redis drops a key that has reached its expiry.
Tick ==
    /\ clock < MaxTime
    /\ clock' = clock + 1
    /\ rpmSet' = IF clock' >= rpmExpire THEN {} ELSE rpmSet
    /\ tpmSet' = IF clock' >= tpmExpire THEN {} ELSE tpmSet
    /\ UNCHANGED <<pc, stamp, lost, rpmExpire, tpmExpire, tokenVars, res, ghostVars>>

Next ==
    \/ \E r \in Requests, now \in clock - Lag .. clock + Lead :
           Reserve(r, now) \/ ReplyLost(r, now)
    \/ \E r \in Requests : FailOpen(r) \/ FinishUnrecorded(r)
    \/ \E r \in Requests, n \in TokenCounts, now \in clock - Lag .. clock + Lead :
           RecordTokens(r, n, now)
    \/ Tick

Spec == Init /\ [][Next]_vars

-----------------------------------------------------------------------------
(* Properties.                                                             *)

GrantedSince(t) == {r \in granted : grantAt[r] > t}

\* However the scripts of concurrent requests interleave, whatever their stamps are
\* worth and wherever Redis expires the key, the checks that passed in any stretch of
\* Window - Lag - Lead ticks are at most the key's RPM limit.
RpmHolds ==
    effectiveRPM > 0 =>
        Cardinality(GrantedSince(clock - (Window - Lag - Lead))) <= effectiveRPM

\* The converse: check.lua answers "rpm rejected" only after as many checks as the
\* limit allows passed in the last Window + Lag + Lead ticks; no slot is kept past its
\* window.  A check that Redis ran twice, as its first reply was lost, counts here as
\* passed if either run passed.
RpmRejectsOnlyAtLimit ==
    [][\A r \in Requests :
          res'[r].code = "rpm" /\ res[r].code # "rpm" =>
             Cardinality(GrantedSince(clock - (Window + Lag + Lead))) >= effectiveRPM]_vars

\* Retry-After is "the earliest moment a retry could succeed" (Reserve): no check of
\* the key passes between a rejection and the moment it named, short of Lead.
RetryAfterIsEarliest ==
    [][\A r \in Requests, q \in Requests :
          /\ pc[q] = "rejected"
          /\ r \in granted' /\ (r \notin granted \/ grantAt'[r] # grantAt[r])
          => clock + Lead >= res[q].now + res[q].retryAfter]_vars

TokensHeld == MapThenSumSet(LAMBDA x : tokens[x], tpmSet)

\* The TPM limit is checked before the tokens of a request are known.  The overshoot is
\* bounded by the requests that were in flight when the last one was let in: each of
\* them, and none after it, may still add its tokens to a window below the limit.
TpmOvershootBounded ==
    effectiveTPM > 0 =>
        TokensHeld + Max(TokenCounts) * Cardinality(InFlight)
            <= effectiveTPM - 1 + Max(TokenCounts) * burst

\* A request that was turned away holds no slot, unless a reply to its check was lost
\* and the script ran twice.
RejectedHoldsNoSlot ==
    \A r \in rpmSet : pc[r] = "rejected" => r \in lost

-----------------------------------------------------------------------------
(* Statements of comments and documents that the code does not keep.       *)

\* limiter.go:10-12: "a TPM-rejected request never consumes an RPM slot".
TpmRejectedTakesNoSlot ==
    \A r \in Requests : pc[r] = "rejected" /\ res[r].code = "tpm" => r \notin rpmSet

\* data-model.md: the TTL of the TPM set is two windows ("2 min").
TpmKeyExpires ==
    \A r \in tpmSet : clock <= 2 * Window + Lag + Max({tokStamp[x] : x \in tpmSet})

\* limiter.go: TpmRemaining is "max(0, TpmLimit - tpm_used)", where check.lua defines
\* tpm_used as the "sum of tokens in the live TPM window".
TpmRemainingIsTrue ==
    [][\A r \in Requests :
          pc[r] = "new" /\ res'[r].code \in {"ok", "rpm", "tpm"} =>
             res'[r].tpmRemaining = clampRemaining(effectiveTPM, tpm_total(res'[r].now))]_vars
=============================================================================
