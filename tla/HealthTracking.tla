--------------------------- MODULE HealthTracking ---------------------------
(***************************************************************************)
(* Concurrent calls to one provider: the router's health filter            *)
(* (internal/router/candidates.go), the retry loop and the stream tracker  *)
(* of HealthTrackingProvider (internal/provider/health_decorator.go), the  *)
(* outcomes an adapter can report, and the provider health gauge of        *)
(* internal/metrics.                                                       *)
(*                                                                         *)
(* A call is one request: it runs once.  A step that returns from the      *)
(* wrapped provider includes the health record that follows it in the same *)
(* goroutine, since nothing is shared between the two; the gauge is        *)
(* written after the health lock is released and is a step of its own.     *)
(***************************************************************************)
EXTENDS ProviderHealth, Sequences

CONSTANTS Calls,      \* the requests routed to the provider
          MaxRetries  \* providers.<name>.max_retries

ASSUME RetryConfigAssumption == MaxRetries \in Nat

VARIABLES pc,         \* where the goroutine of each call is
          stream,     \* the request asked for a stream
          attempt,    \* the loop variable of the retry loop
          result,     \* what the wrapped provider last answered
          cancelled,  \* the request's context is done
          reported,   \* the healthy flag on its way to the gauge
          gauge,      \* gateway_provider_health of the provider
          history,    \* the health records, in the order the lock took them
          probes      \* the calls admitted while the strict flag was down

callVars == <<pc, stream, attempt, result, cancelled, reported>>
vars == <<healthVars, callVars, gauge, history, probes>>

\* What the wrapped provider may answer.  "429/5xx" is a ProviderError an adapter's
\* handleErrorResponse marks Retryable and "4xx" one it does not (every other status
\* but 200); "network" is an error that is no ProviderError (the adapter's own
\* timeout included) and "ctxDone" the one that a done context causes.
Results == {"200", "429/5xx", "4xx", "network", "ctxDone"}

isRetryable(r) == r = "429/5xx"

InProgress(c) == pc[c] \in {"calling", "backoff", "streaming"}

\* The types; the retry loop's variable never passes MaxRetries.
TypeOK ==
    /\ HealthTypeOK
    /\ pc \in [Calls -> {"new", "calling", "backoff", "streaming", "setGauge",
                         "done", "unavailable"}]
    /\ stream \in [Calls -> BOOLEAN]
    /\ attempt \in [Calls -> 0 .. MaxRetries]
    /\ result \in [Calls -> Results \cup {"none", "streamErr"}]
    /\ cancelled \in [Calls -> BOOLEAN]
    /\ reported \in [Calls -> BOOLEAN]
    /\ gauge \in BOOLEAN
    /\ history \in Seq([call : Calls, success : BOOLEAN])
    /\ probes \in SUBSET Calls

\* buildProviders sets the gauge to healthy when it registers the provider.
Init ==
    /\ NewProviderHealth
    /\ pc = [c \in Calls |-> "new"]
    /\ stream \in [Calls -> BOOLEAN]
    /\ attempt = [c \in Calls |-> 0]
    /\ result = [c \in Calls |-> "none"]
    /\ cancelled = [c \in Calls |-> FALSE]
    /\ reported = [c \in Calls |-> TRUE]
    /\ gauge = TRUE
    /\ history = <<>>
    /\ probes = {}

-----------------------------------------------------------------------------
(* The router's filter.                                                    *)

\* Mutant: the filter is skipped.
RouteUnfiltered(c) ==
    /\ pc[c] = "new"
    /\ pc' = [pc EXCEPT ![c] = "calling"]
    /\ probes' = IF healthy THEN probes ELSE probes \cup {c}
    /\ UNCHANGED <<healthVars, stream, attempt, result, cancelled, reported, gauge, history>>

\* Route keeps the candidate: the retry loop makes its first call.
Route(c) ==
    /\ pc[c] = "new"
    /\ IsHealthy
    /\ pc' = [pc EXCEPT ![c] = "calling"]
    /\ probes' = IF healthy THEN probes ELSE probes \cup {c}
    /\ UNCHANGED <<healthVars, stream, attempt, result, cancelled, reported, gauge, history>>

\* filterHealthy drops the only candidate: ErrNoHealthyProviders.
RouteRefused(c) ==
    /\ pc[c] = "new"
    /\ ~ IsHealthy
    /\ pc' = [pc EXCEPT ![c] = "unavailable"]
    /\ UNCHANGED <<healthVars, stream, attempt, result, cancelled, reported, gauge, history,
                   probes>>

\* The client goes away, or the server stops: the request's context is done.
Cancel(c) ==
    /\ InProgress(c)
    /\ ~ cancelled[c]
    /\ cancelled' = [cancelled EXCEPT ![c] = TRUE]
    /\ UNCHANGED <<healthVars, pc, stream, attempt, result, reported, gauge, history, probes>>

-----------------------------------------------------------------------------
(* The records: the health lock first, the gauge afterwards.               *)

\* recordHealthSuccess up to the gauge.
recordHealthSuccess(c) ==
    /\ RecordSuccess
    /\ history' = Append(history, [call |-> c, success |-> TRUE])
    /\ reported' = [reported EXCEPT ![c] = TRUE]
    /\ pc' = [pc EXCEPT ![c] = "setGauge"]

\* recordHealthFailure up to the gauge: RecordFailure returns the flag it left.
recordHealthFailure(c) ==
    /\ RecordFailure
    /\ history' = Append(history, [call |-> c, success |-> FALSE])
    /\ reported' = [reported EXCEPT ![c] = healthy']
    /\ pc' = [pc EXCEPT ![c] = "setGauge"]

\* metrics.SetProviderHealth, the rest of either record.
SetProviderHealth(c) ==
    /\ pc[c] = "setGauge"
    /\ gauge' = reported[c]
    /\ pc' = [pc EXCEPT ![c] = "done"]
    /\ UNCHANGED <<healthVars, stream, attempt, result, cancelled, reported, history, probes>>

-----------------------------------------------------------------------------
(* The retry loop of ChatCompletion and ChatCompletionStream.              *)

\* An error ends the loop unless it is retryable and attempts are left.
RetryOrGiveUp(c, r) ==
    IF isRetryable(r) /\ attempt[c] < MaxRetries
    THEN /\ pc' = [pc EXCEPT ![c] = "backoff"]
         /\ UNCHANGED <<healthVars, reported, history>>
    ELSE recordHealthFailure(c)

\* The wrapped provider answers.  A context error needs a done context.
WrappedReturns(c, r) ==
    /\ pc[c] = "calling"
    /\ r = "ctxDone" => cancelled[c]
    /\ result' = [result EXCEPT ![c] = r]
    /\ IF r # "200" THEN RetryOrGiveUp(c, r)
       ELSE IF stream[c]
       THEN /\ pc' = [pc EXCEPT ![c] = "streaming"]
            /\ UNCHANGED <<healthVars, reported, history>>
       ELSE recordHealthSuccess(c)
    /\ UNCHANGED <<stream, attempt, cancelled, gauge, probes>>

\* The backoff timer wins the select: the next attempt.
BackoffElapsed(c) ==
    /\ pc[c] = "backoff"
    /\ attempt' = [attempt EXCEPT ![c] = @ + 1]
    /\ pc' = [pc EXCEPT ![c] = "calling"]
    /\ UNCHANGED <<healthVars, stream, result, cancelled, reported, gauge, history, probes>>

\* Mutant: the context is checked once the loop is over, not in the select.
BackoffCancelledLate(c) ==
    /\ pc[c] = "backoff"
    /\ cancelled[c] /\ attempt[c] = MaxRetries
    /\ result' = [result EXCEPT ![c] = "ctxDone"]
    /\ pc' = [pc EXCEPT ![c] = "done"]
    /\ UNCHANGED <<healthVars, stream, attempt, cancelled, reported, gauge, history, probes>>

\* The context wins the select: return ctx.Err(), nothing is recorded.
BackoffCancelled(c) ==
    /\ pc[c] = "backoff"
    /\ cancelled[c]
    /\ result' = [result EXCEPT ![c] = "ctxDone"]
    /\ pc' = [pc EXCEPT ![c] = "done"]
    /\ UNCHANGED <<healthVars, stream, attempt, cancelled, reported, gauge, history, probes>>

-----------------------------------------------------------------------------
(* trackStreamHealth.  Chunks are not kept: one that is forwarded changes  *)
(* nothing here.  An adapter sends at most one error event, and closes its *)
(* channel after it, after the stream's end, and when the context is done. *)

\* An error event is forwarded.
StreamError(c) ==
    /\ pc[c] = "streaming"
    /\ result[c] = "200"
    /\ result' = [result EXCEPT ![c] = "streamErr"]
    /\ UNCHANGED <<healthVars, pc, stream, attempt, cancelled, reported, gauge, history, probes>>

\* With an event in hand the context wins the select: leave without a record.
StreamAbandoned(c) ==
    /\ pc[c] = "streaming"
    /\ cancelled[c]
    /\ result[c] = "200"
    /\ result' = [result EXCEPT ![c] = "ctxDone"]
    /\ pc' = [pc EXCEPT ![c] = "done"]
    /\ UNCHANGED <<healthVars, stream, attempt, cancelled, reported, gauge, history, probes>>

\* Mutant: sawError is not consulted.
StreamClosedAlwaysOK(c) ==
    /\ pc[c] = "streaming"
    /\ recordHealthSuccess(c)
    /\ UNCHANGED <<stream, attempt, result, cancelled, gauge, probes>>

\* The adapter's channel is closed: the verdict follows sawError.
StreamClosed(c) ==
    /\ pc[c] = "streaming"
    /\ IF result[c] = "streamErr" THEN recordHealthFailure(c) ELSE recordHealthSuccess(c)
    /\ UNCHANGED <<stream, attempt, result, cancelled, gauge, probes>>

-----------------------------------------------------------------------------
Tick == Elapse /\ UNCHANGED <<callVars, gauge, history, probes>>

Returns(c) == \E r \in Results : WrappedReturns(c, r)

TrackStream(c) == StreamError(c) \/ StreamAbandoned(c) \/ StreamClosed(c)

Backoff(c) == BackoffElapsed(c) \/ BackoffCancelled(c)

Step(c) ==
    \/ Route(c) \/ RouteRefused(c) \/ Cancel(c)
    \/ Returns(c) \/ Backoff(c) \/ TrackStream(c) \/ SetProviderHealth(c)

Next == Tick \/ \E c \in Calls : Step(c)

Spec == Init /\ [][Next]_vars

\* What the code's scheduling guarantees.  Runnable goroutines run.  A non-streaming
\* call always comes back: ChatCompletion of every adapter bounds it with
\* context.WithTimeout.  A streaming call has no deadline of its own, so it is sure to
\* come back only once its context is done.  Of the backoff timer nothing is assumed: a
\* 429 sets it with a Retry-After of any length, which no maximum bounds.
Fairness ==
    /\ WF_vars(Tick)
    /\ \A c \in Calls :
          /\ WF_vars(SetProviderHealth(c))
          /\ WF_vars(cancelled[c] /\ BackoffCancelled(c))
          /\ WF_vars(~ stream[c] /\ Returns(c))
          /\ WF_vars(cancelled[c] /\ (Returns(c) \/ TrackStream(c)))

FairSpec == Spec /\ Fairness

-----------------------------------------------------------------------------
(* Properties.                                                             *)

\* The breaker is a function of the verdicts in lock order: consecutiveFails is
\* the length of the run of failures the history ends with, and the strict flag
\* is down exactly when that run has reached the threshold.  (RecordSuccess and
\* RecordFailure, called from any number of goroutines.)
BreakerMatchesHistory ==
    LET n == Len(history) IN
    /\ consecutiveFails <= n
    /\ \A i \in (n - consecutiveFails + 1) .. n : ~ history[i].success
    /\ consecutiveFails < n => history[n - consecutiveFails].success
    /\ healthy <=> consecutiveFails < failureThreshold

\* Retries and stream tracking give a call one verdict at most, whatever the
\* number of attempts; it is a success only for a call that ended well; and a call
\* that nobody cancelled has one by the time it is over.
OneVerdictPerCall ==
    /\ \A i, j \in DOMAIN history : history[i].call = history[j].call => i = j
    /\ \A i \in DOMAIN history :
          history[i].success <=> result[history[i].call] = "200"
    /\ \A c \in Calls : pc[c] = "done" /\ ~ cancelled[c] =>
          \E i \in DOMAIN history : history[i].call = c

\* A retryable error is final only when MaxRetries retries were made, and an error
\* that is not retryable is never retried (isRetryable in the loops).
RetriesUsedUp ==
    \A c \in Calls :
        /\ pc[c] \in {"setGauge", "done"} /\ result[c] = "429/5xx"
              => attempt[c] = MaxRetries
        /\ pc[c] = "backoff" => result[c] = "429/5xx" /\ attempt[c] < MaxRetries

\* filterHealthy turns a call away only if the last failureThreshold verdicts were
\* all failures, and while it does no call at all reaches the provider anew.
RefusedOnlyWhenTripped ==
    [][LET n == Len(history) IN
       \A c \in Calls : pc[c] = "new" /\ pc'[c] # "new" =>
          IF pc'[c] = "unavailable"
          THEN /\ n >= failureThreshold
               /\ \A i \in (n - failureThreshold + 1) .. n : ~ history[i].success
          ELSE healthy \/ sinceFailure = cooldownPeriod]_vars

\* When its client has gone a call comes to an end, wherever it is: in the wrapped
\* provider, in the tracker goroutine, or in a backoff of any length, as the select
\* does not wait for the timer.
CancelledCallEnds ==
    \A c \in Calls : InProgress(c) /\ cancelled[c] ~> pc[c] = "done"

\* A tripped breaker always lets a call through again: late failures of calls that
\* were admitted earlier may restart the cooldown, but not for ever.
BreakerReadmits == ~ IsHealthy ~> IsHealthy

-----------------------------------------------------------------------------
(* What the documentation says of the breaker and the code does not do.    *)

\* health.go and health_decorator.go: passing RecordFailure's own result to the
\* gauge avoids a race with a concurrent RecordSuccess, so that between records
\* the gauge shows the strict flag.
GaugeReflectsHealth == (\A c \in Calls : pc[c] # "setGauge") => gauge = healthy

\* ADR 006: half-open is one call, "allow one probe after cooldown".
OneProbe ==
    \A c, d \in probes : InProgress(c) /\ InProgress(d) => c = d

\* routing-strategies.md: the classic three-state machine; an open breaker leaves
\* Open through Half-Open, after the cooldown.
OpenUntilCooldown ==
    [][~ healthy /\ healthy' => sinceFailure = cooldownPeriod]_vars

\* routing-strategies.md: network errors are retryable, like 429 and 5xx.
NetworkErrorsRetried ==
    \A c \in Calls : pc[c] = "setGauge" /\ result[c] = "network" => attempt[c] = MaxRetries
=============================================================================
