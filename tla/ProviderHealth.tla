--------------------------- MODULE ProviderHealth ---------------------------
(***************************************************************************)
(* The circuit breaker of one provider: internal/provider/health.go.       *)
(*                                                                         *)
(* Every method of ProviderHealth runs under h.mu, so each is one atomic   *)
(* step.  lastFailure is kept as its age: IsHealthy and Status, its only   *)
(* readers, compare now() - lastFailure with cooldownPeriod, so an age     *)
(* that stops counting at cooldownPeriod tells them everything.            *)
(* lastSuccess and lastError are only reported, never read back, and are   *)
(* left out.                                                               *)
(***************************************************************************)
EXTENDS Integers

CONSTANTS FailureThreshold,  \* health.failure_threshold, as configured
          CooldownPeriod     \* health.cooldown_period, in ticks, as configured

ASSUME HealthConfigAssumption ==
    /\ FailureThreshold \in Int
    /\ CooldownPeriod \in Int

VARIABLES consecutiveFails,  \* h.consecutiveFails
          healthy,           \* h.healthy, the strict flag
          sinceFailure       \* now() - h.lastFailure, up to cooldownPeriod

healthVars == <<consecutiveFails, healthy, sinceFailure>>

\* NewProviderHealth replaces a non-positive setting by its default.
failureThreshold == IF FailureThreshold <= 0 THEN 5 ELSE FailureThreshold
cooldownPeriod   == IF CooldownPeriod <= 0 THEN 30 ELSE CooldownPeriod

\* lastFailure starts as the zero time, so its age is beyond any cooldown.
NewProviderHealth ==
    /\ consecutiveFails = 0
    /\ healthy = TRUE
    /\ sinceFailure = cooldownPeriod

-----------------------------------------------------------------------------
\* Mutant: the success forgets to close the breaker.
RecordSuccessKeepsOpen ==
    /\ consecutiveFails' = 0
    /\ UNCHANGED <<healthy, sinceFailure>>

RecordSuccess ==
    /\ consecutiveFails' = 0
    /\ healthy' = TRUE
    /\ UNCHANGED sinceFailure

RecordFailure ==
    /\ consecutiveFails' = consecutiveFails + 1
    /\ sinceFailure' = 0
    /\ healthy' = (healthy /\ consecutiveFails + 1 < failureThreshold)

\* Mutant: a tripped breaker never lets a retry through.
IsHealthyStrictly == healthy

IsHealthy == healthy \/ sinceFailure >= cooldownPeriod

\* One tick of time.now passes.
Elapse ==
    /\ sinceFailure < cooldownPeriod
    /\ sinceFailure' = sinceFailure + 1
    /\ UNCHANGED <<consecutiveFails, healthy>>

\* Types of the breaker's fields (part of TypeOK in HealthTracking).
HealthTypeOK ==
    /\ consecutiveFails \in Nat
    /\ healthy \in BOOLEAN
    /\ sinceFailure \in 0 .. cooldownPeriod
=============================================================================
