----------------------------- MODULE AuthCache -----------------------------
(***************************************************************************)
(* The cached authenticator (internal/auth/cached.go) over the api_keys    *)
(* row of one API key (internal/store/api_keys.go), and the admin handler  *)
(* that revokes it (internal/handler/admin_keys.go).                       *)
(*                                                                         *)
(* Every gateway process has its own caches.  Authenticate is split where  *)
(* another goroutine may run: between the two cache lookups, at the query, *)
(* and between its answer and the entry it adds (maybeTouch is the module  *)
(* LastUsed).  The caches are expirable LRUs: an entry is valid up to its  *)
(* expiry and may be evicted earlier by other keys.                        *)
(***************************************************************************)
EXTENDS Integers, FiniteSets

CONSTANTS Calls,           \* the calls of Authenticate with the key
          Gateways,        \* the gateway processes
          AdminGateway,    \* the one that serves the revocation
          CacheTTL,        \* cfg.Auth.CacheTTL, in ticks
          NegativeTTL,     \* negativeCacheTTL
          ExpiresAt,       \* the row's expires_at
          MaxPause,        \* bound on the time between a query's answer and its use
          MaxTime          \* bound on the clock, for TLC

ASSUME AuthAssumption ==
    /\ AdminGateway \in Gateways
    /\ CacheTTL \in Nat /\ NegativeTTL \in Nat
    /\ ExpiresAt \in Nat /\ MaxPause \in Nat /\ MaxTime \in Nat

VARIABLES clock,
          isActive,       \* api_keys.is_active
          revokedAt,      \* when it became FALSE
          pos, posUntil,  \* the gateways with a positive entry, and its expiry
          neg, negUntil,  \* the same for the negative cache
          pc, gw,         \* where a call is, and on which gateway
          readAt,         \* when its query saw the row
          acceptedAt,     \* when it was let in
          admin,          \* where the Revoke handler is
          racing          \* calls holding an answer when Invalidate ran

rowVars == <<isActive, revokedAt>>
cacheVars == <<pos, posUntil, neg, negUntil>>
adminVars == <<admin, racing>>
vars == <<clock, rowVars, cacheVars, pc, gw, readAt, acceptedAt, adminVars>>

CallStates == {"start", "neg", "lookup", "found", "missing",
               "accepted", "rejected", "unavailable"}

\* Types; entries, reads and admissions are dated by the clock, never before it starts.
TypeOK ==
    /\ clock \in Nat
    /\ isActive \in BOOLEAN /\ revokedAt \in Nat
    /\ pos \in SUBSET Gateways /\ posUntil \in [Gateways -> Nat]
    /\ neg \in SUBSET Gateways /\ negUntil \in [Gateways -> Nat]
    /\ pc \in [Calls -> CallStates]
    /\ gw \in [Calls -> Gateways]
    /\ readAt \in [Calls -> Nat]
    /\ acceptedAt \in [Calls -> Nat \cup {-1}]
    /\ admin \in {"idle", "looked", "updated", "done"}
    /\ racing \in SUBSET Calls

Init ==
    /\ clock = 0
    /\ isActive = TRUE /\ revokedAt = 0
    /\ pos = {} /\ posUntil = [g \in Gateways |-> 0]
    /\ neg = {} /\ negUntil = [g \in Gateways |-> 0]
    /\ pc = [c \in Calls |-> "start"]
    /\ gw \in [Calls -> Gateways]
    /\ readAt = [c \in Calls |-> 0]
    /\ acceptedAt = [c \in Calls |-> -1]
    /\ admin = "idle" /\ racing = {}

-----------------------------------------------------------------------------
(* The expirable LRU.                                                      *)

Holds(present, until, g) == g \in present /\ clock <= until[g]

PosAdd(g) == /\ pos' = pos \cup {g}
             /\ posUntil' = [posUntil EXCEPT ![g] = clock + CacheTTL]

NegAdd(g) == /\ neg' = neg \cup {g}
             /\ negUntil' = [negUntil EXCEPT ![g] = clock + NegativeTTL]

\* Other keys fill the cache of g and push the entry out.
Evict(g) ==
    /\ \/ g \in pos /\ pos' = pos \ {g} /\ UNCHANGED neg
       \/ g \in neg /\ neg' = neg \ {g} /\ UNCHANGED pos
    /\ UNCHANGED <<clock, rowVars, posUntil, negUntil, pc, gw, readAt,
                   acceptedAt, adminVars>>

-----------------------------------------------------------------------------
(* Cached.Authenticate.                                                    *)

Expired == clock >= ExpiresAt

Accept(c) == /\ pc' = [pc EXCEPT ![c] = "accepted"]
             /\ acceptedAt' = [acceptedAt EXCEPT ![c] = clock]

\* pos.Get hits and the key has not expired.
PosHit(c) ==
    /\ pc[c] = "start" /\ Holds(pos, posUntil, gw[c]) /\ ~Expired
    /\ Accept(c)
    /\ UNCHANGED <<clock, rowVars, cacheVars, gw, readAt, adminVars>>

\* pos.Get hits an entry whose key has expired: it becomes a negative one.
PosHitExpired(c) ==
    /\ pc[c] = "start" /\ Holds(pos, posUntil, gw[c]) /\ Expired
    /\ pos' = pos \ {gw[c]}
    /\ NegAdd(gw[c])
    /\ pc' = [pc EXCEPT ![c] = "rejected"]
    /\ UNCHANGED <<clock, rowVars, posUntil, gw, readAt, acceptedAt, adminVars>>

PosMiss(c) ==
    /\ pc[c] = "start" /\ ~Holds(pos, posUntil, gw[c])
    /\ pc' = [pc EXCEPT ![c] = "neg"]
    /\ UNCHANGED <<clock, rowVars, cacheVars, gw, readAt, acceptedAt, adminVars>>

NegGet(c) ==
    /\ pc[c] = "neg"
    /\ pc' = [pc EXCEPT ![c] = IF Holds(neg, negUntil, gw[c]) THEN "rejected" ELSE "lookup"]
    /\ UNCHANGED <<clock, rowVars, cacheVars, gw, readAt, acceptedAt, adminVars>>

\* Mutant: a revoked row is still returned.
GetByHashAnyRow(c) ==
    /\ pc[c] = "lookup"
    /\ pc' = [pc EXCEPT ![c] = IF ~Expired THEN "found" ELSE "missing"]
    /\ readAt' = [readAt EXCEPT ![c] = clock]
    /\ UNCHANGED <<clock, rowVars, cacheVars, gw, acceptedAt, adminVars>>

\* The query answers: only an active row that has not expired is found.
GetByHash(c) ==
    /\ pc[c] = "lookup"
    /\ pc' = [pc EXCEPT ![c] = IF isActive /\ ~Expired THEN "found" ELSE "missing"]
    /\ readAt' = [readAt EXCEPT ![c] = clock]
    /\ UNCHANGED <<clock, rowVars, cacheVars, gw, acceptedAt, adminVars>>

\* Mutant: a failed query is cached as an unknown key.
GetByHashFailsCached(c) ==
    /\ pc[c] = "lookup"
    /\ pc' = [pc EXCEPT ![c] = "unavailable"]
    /\ NegAdd(gw[c])
    /\ UNCHANGED <<clock, rowVars, pos, posUntil, gw, readAt, acceptedAt, adminVars>>

\* The query fails: 503, and nothing is cached.
GetByHashFails(c) ==
    /\ pc[c] = "lookup"
    /\ pc' = [pc EXCEPT ![c] = "unavailable"]
    /\ UNCHANGED <<clock, rowVars, cacheVars, gw, readAt, acceptedAt, adminVars>>

AddMissing(c) ==
    /\ pc[c] = "missing"
    /\ NegAdd(gw[c])
    /\ pc' = [pc EXCEPT ![c] = "rejected"]
    /\ UNCHANGED <<clock, rowVars, pos, posUntil, gw, readAt, acceptedAt, adminVars>>

\* The row is cached as it was when the query saw it.
AddFound(c) ==
    /\ pc[c] = "found"
    /\ PosAdd(gw[c])
    /\ Accept(c)
    /\ UNCHANGED <<clock, rowVars, neg, negUntil, gw, readAt, adminVars>>

-----------------------------------------------------------------------------
(* AdminKeysHandler.Revoke, on AdminGateway.                               *)

\* GetByID found the row, so its hash is known.
RevokeLookup ==
    /\ admin = "idle"
    /\ admin' = "looked"
    /\ UNCHANGED <<clock, rowVars, cacheVars, pc, gw, readAt, acceptedAt, racing>>

Deactivate ==
    /\ isActive' = FALSE
    /\ revokedAt' = IF isActive THEN clock ELSE revokedAt

Revoke ==
    /\ admin = "looked"
    /\ Deactivate
    /\ admin' = "updated"
    /\ UNCHANGED <<clock, cacheVars, pc, gw, readAt, acceptedAt, racing>>

\* The update returns an error, applied or not: 500 without Invalidate.  The
\* administrator may try again.
RevokeFails ==
    /\ admin = "looked"
    /\ Deactivate \/ UNCHANGED rowVars
    /\ admin' = "idle"
    /\ UNCHANGED <<clock, cacheVars, pc, gw, readAt, acceptedAt, racing>>

\* Mutant: only the negative entry is dropped.
InvalidateNegOnly ==
    /\ admin = "updated"
    /\ neg' = neg \ {AdminGateway}
    /\ racing' = {c \in Calls : gw[c] = AdminGateway /\ pc[c] = "found"}
    /\ admin' = "done"
    /\ UNCHANGED <<clock, rowVars, pos, posUntil, negUntil, pc, gw, readAt,
                   acceptedAt>>

\* Invalidate, then 204.
Invalidate ==
    /\ admin = "updated"
    /\ pos' = pos \ {AdminGateway}
    /\ neg' = neg \ {AdminGateway}
    /\ racing' = {c \in Calls : gw[c] = AdminGateway /\ pc[c] = "found"}
    /\ admin' = "done"
    /\ UNCHANGED <<clock, rowVars, posUntil, negUntil, pc, gw, readAt, acceptedAt>>

-----------------------------------------------------------------------------

\* Time passes, but a call uses the answer of its query within MaxPause.
Tick ==
    /\ clock < MaxTime
    /\ \A c \in Calls : pc[c] = "found" => clock < readAt[c] + MaxPause
    /\ clock' = clock + 1
    /\ UNCHANGED <<rowVars, cacheVars, pc, gw, readAt, acceptedAt, adminVars>>

Authenticate(c) ==
    \/ PosHit(c) \/ PosHitExpired(c) \/ PosMiss(c) \/ NegGet(c)
    \/ GetByHash(c) \/ GetByHashFails(c) \/ AddMissing(c) \/ AddFound(c)

Next ==
    \/ \E c \in Calls : Authenticate(c)
    \/ \E g \in Gateways : Evict(g)
    \/ RevokeLookup \/ Revoke \/ RevokeFails \/ Invalidate
    \/ Tick

Spec == Init /\ [][Next]_vars

-----------------------------------------------------------------------------
(* Properties.                                                             *)

\* On every gateway, the one that was not told of the revocation included, and however
\* lookups, cache entries and failed revocations interleave, a revoked key is let in for
\* at most the cache TTL and one pause after the row changed.
RevokedKeyAgesOut ==
    \A c \in Calls :
        acceptedAt[c] # -1 /\ ~isActive => acceptedAt[c] <= revokedAt + MaxPause + CacheTTL

\* Once the revocation was answered with 204, the gateway that served it lets the key in
\* no more, unless a call there held the query's answer while Invalidate ran.
RevocationSticks ==
    [][\A c \in Calls :
          admin = "done" /\ racing = {} /\ gw[c] = AdminGateway =>
             acceptedAt'[c] = acceptedAt[c]]_vars

\* A key is answered "invalid" only if it is: neither a failed query nor an entry of
\* the negative cache turns a valid key away.
NoFalseRejection ==
    \A c \in Calls : pc[c] = "rejected" => ~isActive \/ Expired

\* A key is let in past its expiry only within the pause of a call that found it before,
\* never from the cache.
ExpiryRespected ==
    \A c \in Calls : acceptedAt[c] # -1 => acceptedAt[c] < ExpiresAt + MaxPause

-----------------------------------------------------------------------------
(* Statements of comments that the code does not keep.                     *)

\* admin_keys.go:46-48: Invalidate is passed in "so revoked keys take effect immediately".
RevokedImmediately ==
    [][admin = "done" => acceptedAt' = acceptedAt]_vars
=============================================================================
