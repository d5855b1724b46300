------------------------- MODULE HealthTrackingProofs -------------------------
(***************************************************************************)
(* Proofs about HealthTracking, for any set of calls, any retry count and  *)
(* any health configuration.                                               *)
(***************************************************************************)
EXTENDS HealthTracking, TLAPS

\* Defaulting leaves both settings of NewProviderHealth positive.
LEMMA ConfigPositive ==
    /\ failureThreshold \in Nat \ {0}
    /\ cooldownPeriod \in Nat \ {0}
  BY HealthConfigAssumption DEF failureThreshold, cooldownPeriod

\* What a step of one call amounts to: a verdict is recorded, with or without an
\* answer of the wrapped provider, or the breaker is left alone.
LEMMA StepCases ==
    ASSUME NEW c \in Calls, Step(c)
    PROVE  \/ recordHealthSuccess(c) /\ InProgress(c)
           \/ recordHealthFailure(c) /\ InProgress(c)
           \/ UNCHANGED <<healthVars, history>>
  BY DEF Step, Route, RouteRefused, Cancel, Returns, WrappedReturns, RetryOrGiveUp,
         Backoff, BackoffElapsed, BackoffCancelled, TrackStream, StreamError,
         StreamAbandoned, StreamClosed, SetProviderHealth, InProgress

-----------------------------------------------------------------------------
\* TypeOK is not inductive alone: the attempt counter stays within MaxRetries only
\* because a call backs off with attempts left, and a stream's verdict is no
\* retryable answer only because a stream begins with a 200.
LoopInv ==
    /\ TypeOK
    /\ RetriesUsedUp
    /\ \A c \in Calls : pc[c] = "streaming" => result[c] \in {"200", "streamErr"}

\* Before the first call no loop has started.
LEMMA LoopInvInit == Init => LoopInv
  BY ConfigPositive, RetryConfigAssumption
  DEF Init, LoopInv, TypeOK, NewProviderHealth, HealthTypeOK, RetriesUsedUp

\* Every step of a call and of time keeps the retry loop's invariant.
LEMMA LoopInvNext == LoopInv /\ [Next]_vars => LoopInv'
<1> SUFFICES ASSUME LoopInv, [Next]_vars PROVE LoopInv'
  OBVIOUS
<1> USE ConfigPositive, RetryConfigAssumption
    DEF LoopInv, TypeOK, HealthTypeOK, healthVars, RetriesUsedUp
<1>1. CASE UNCHANGED vars
  BY <1>1 DEF vars, callVars
<1>2. CASE Tick
  BY <1>2 DEF Tick, Elapse, callVars
<1>3. ASSUME NEW c \in Calls, Step(c) PROVE LoopInv'
  <2>1. CASE Route(c)
    BY <2>1 DEF Route
  <2>2. CASE RouteRefused(c)
    BY <2>2 DEF RouteRefused
  <2>3. CASE Cancel(c)
    BY <2>3 DEF Cancel
  <2>4. CASE Returns(c)
    <3>1. PICK r \in Results : WrappedReturns(c, r)
      BY <2>4 DEF Returns
    <3>2. CASE r = "200" /\ ~ stream[c]
      <4>1. recordHealthSuccess(c)
        BY <3>1, <3>2 DEF WrappedReturns
      <4>2. history' \in Seq([call : Calls, success : BOOLEAN])
        BY <4>1 DEF recordHealthSuccess
      <4> QED BY <3>1, <3>2, <4>1, <4>2 DEF WrappedReturns, recordHealthSuccess, RecordSuccess
    <3>3. CASE r = "200" /\ stream[c]
      BY <3>1, <3>3 DEF WrappedReturns
    <3>4. CASE r # "200" /\ isRetryable(r) /\ attempt[c] < MaxRetries
      BY <3>1, <3>4 DEF WrappedReturns, RetryOrGiveUp, isRetryable
    <3>5. CASE r # "200" /\ ~ (isRetryable(r) /\ attempt[c] < MaxRetries)
      <4>1. recordHealthFailure(c)
        BY <3>1, <3>5 DEF WrappedReturns, RetryOrGiveUp
      <4>2. history' \in Seq([call : Calls, success : BOOLEAN])
        BY <4>1 DEF recordHealthFailure
      <4>3. r = "429/5xx" => attempt[c] = MaxRetries
        BY <3>5 DEF isRetryable
      <4> QED BY <3>1, <4>1, <4>2, <4>3 DEF WrappedReturns, recordHealthFailure, RecordFailure
    <3> QED BY <3>1, <3>2, <3>3, <3>4, <3>5
  <2>5. CASE BackoffElapsed(c)
    BY <2>5 DEF BackoffElapsed
  <2>6. CASE BackoffCancelled(c)
    BY <2>6 DEF BackoffCancelled, Results
  <2>7. CASE StreamError(c)
    BY <2>7 DEF StreamError
  <2>8. CASE StreamAbandoned(c)
    BY <2>8 DEF StreamAbandoned, Results
  <2>9. CASE StreamClosed(c)
    <3>1. CASE recordHealthSuccess(c)
      BY <2>9, <3>1 DEF StreamClosed, recordHealthSuccess, RecordSuccess
    <3>2. CASE recordHealthFailure(c)
      BY <2>9, <3>2 DEF StreamClosed, recordHealthFailure, RecordFailure
    <3> QED BY <2>9, <3>1, <3>2 DEF StreamClosed
  <2>10. CASE SetProviderHealth(c)
    BY <2>10 DEF SetProviderHealth
  <2> QED BY <1>3, <2>1, <2>2, <2>3, <2>4, <2>5, <2>6, <2>7, <2>8, <2>9, <2>10
          DEF Step, Backoff, TrackStream
<1> QED BY <1>1, <1>2, <1>3 DEF Next

\* The retry loop's invariant holds throughout.
LEMMA LoopInvariant == Spec => []LoopInv
  BY LoopInvInit, LoopInvNext, PTL DEF Spec

\* The variables of the breaker, the retry loop, the tracker and the gauge keep
\* their types, however the calls interleave.
THEOREM TypeCorrect == Spec => []TypeOK
  BY LoopInvariant, PTL DEF LoopInv

\* The retry loops of ChatCompletion and ChatCompletionStream give up on a
\* retryable error only after MaxRetries retries, and retry nothing else.
THEOREM RetryLoopCorrect == Spec => []RetriesUsedUp
  BY LoopInvariant, PTL DEF LoopInv

-----------------------------------------------------------------------------
\* Appending a verdict changes no earlier one.
LEMMA HistoryGrows ==
    ASSUME NEW H, NEW h \in Seq(H), NEW x \in H
    PROVE  /\ Append(h, x) \in Seq(H)
           /\ Len(h) \in Nat
           /\ Len(Append(h, x)) = Len(h) + 1
           /\ DOMAIN Append(h, x) = DOMAIN h \cup {Len(h) + 1}
           /\ \A i \in 1 .. Len(h) : Append(h, x)[i] = h[i]
           /\ Append(h, x)[Len(h) + 1] = x
  OBVIOUS

\* Every verdict of a history is one.
LEMMA HistoryElements ==
    ASSUME NEW H, NEW h \in Seq(H)
    PROVE  \A i \in DOMAIN h : h[i] \in H
  OBVIOUS

\* NewProviderHealth starts closed, with an empty history.
LEMMA BreakerInit == Init => BreakerMatchesHistory
  BY ConfigPositive DEF Init, NewProviderHealth, BreakerMatchesHistory

\* RecordSuccess and RecordFailure keep the breaker in step with the history.
LEMMA BreakerNext ==
    TypeOK /\ BreakerMatchesHistory /\ [Next]_vars => BreakerMatchesHistory'
<1> SUFFICES ASSUME TypeOK, BreakerMatchesHistory, [Next]_vars
             PROVE  BreakerMatchesHistory'
  OBVIOUS
<1> DEFINE H == [call : Calls, success : BOOLEAN]
<1>0. history \in Seq(H) /\ consecutiveFails \in Nat /\ healthy \in BOOLEAN
  BY DEF TypeOK, HealthTypeOK
<1>1. CASE UNCHANGED <<healthVars, history>>
  BY <1>1 DEF healthVars, BreakerMatchesHistory, failureThreshold
<1>2. CASE Tick
  BY <1>2 DEF Tick, Elapse, BreakerMatchesHistory, failureThreshold
<1>3. ASSUME NEW c \in Calls, recordHealthSuccess(c) PROVE BreakerMatchesHistory'
  <2>1. /\ consecutiveFails' = 0 /\ healthy' = TRUE
        /\ history' = Append(history, [call |-> c, success |-> TRUE])
    BY <1>3 DEF recordHealthSuccess, RecordSuccess
  <2>2. /\ Len(history') \in Nat /\ Len(history') > 0
        /\ history'[Len(history')].success = TRUE
    BY <1>0, <2>1, HistoryGrows
  <2> QED BY <2>1, <2>2, ConfigPositive DEF BreakerMatchesHistory, failureThreshold
<1>4. ASSUME NEW c \in Calls, recordHealthFailure(c) PROVE BreakerMatchesHistory'
  <2> DEFINE v == [call |-> c, success |-> FALSE]
             n == Len(history)
             k == consecutiveFails
  <2>1. /\ consecutiveFails' = k + 1
        /\ healthy' = (healthy /\ k + 1 < failureThreshold)
        /\ history' = Append(history, v)
    BY <1>4 DEF recordHealthFailure, RecordFailure
  <2>2. /\ n \in Nat /\ Len(history') = n + 1
        /\ \A i \in 1 .. n : history'[i] = history[i]
        /\ history'[n + 1] = v
    BY <1>0, <2>1, HistoryGrows
  <2>3. /\ k <= n
        /\ \A i \in (n - k + 1) .. n : ~ history[i].success
        /\ k < n => history[n - k].success
        /\ healthy <=> k < failureThreshold
    BY DEF BreakerMatchesHistory
  <2>4. \A i \in (n - k + 1) .. (n + 1) : ~ history'[i].success
    BY <1>0, <2>2, <2>3
  <2>5. k + 1 < n + 1 => history'[n - k].success
    BY <1>0, <2>2, <2>3
  <2>6. healthy' <=> k + 1 < failureThreshold
    <3>1. k + 1 < failureThreshold => k < failureThreshold
      BY <1>0, ConfigPositive
    <3>2. healthy' = (healthy /\ k + 1 < failureThreshold)
      BY <2>1
    <3>3. healthy <=> k < failureThreshold
      BY <2>3
    <3> HIDE DEF k
    <3> QED BY <3>1, <3>2, <3>3, Zenon
  <2>7. /\ consecutiveFails' <= Len(history')
        /\ Len(history') - consecutiveFails' = n - k
    BY <1>0, <2>1, <2>2, <2>3
  <2> HIDE DEF n, k, v
  <2>8. failureThreshold' = failureThreshold
    BY DEF failureThreshold
  <2> QED BY <2>1, <2>2, <2>4, <2>5, <2>6, <2>7, <2>8 DEF BreakerMatchesHistory
<1> QED BY <1>1, <1>2, <1>3, <1>4, StepCases DEF Next, vars

\* The circuit breaker's flag and counter are determined by the verdicts recorded
\* so far, in the order RecordSuccess and RecordFailure took the lock.
THEOREM BreakerCorrect == Spec => []BreakerMatchesHistory
  BY BreakerInit, BreakerNext, TypeCorrect, PTL DEF Spec

-----------------------------------------------------------------------------
\* filterHealthy turns a call away only after failureThreshold failures in a row,
\* and lets one through only with a closed breaker or after the cooldown.
THEOREM RefusalCorrect == Spec => RefusedOnlyWhenTripped
<1> DEFINE A == LET n == Len(history) IN
       \A c \in Calls : pc[c] = "new" /\ pc'[c] # "new" =>
          IF pc'[c] = "unavailable"
          THEN /\ n >= failureThreshold
               /\ \A i \in (n - failureThreshold + 1) .. n : ~ history[i].success
          ELSE healthy \/ sinceFailure = cooldownPeriod
<1>1. TypeOK /\ BreakerMatchesHistory /\ [Next]_vars => [A]_vars
  <2> SUFFICES ASSUME TypeOK, BreakerMatchesHistory, [Next]_vars,
                      NEW c \in Calls, pc[c] = "new", pc'[c] # "new"
               PROVE  IF pc'[c] = "unavailable"
                      THEN /\ Len(history) >= failureThreshold
                           /\ \A i \in (Len(history) - failureThreshold + 1) .. Len(history) :
                                 ~ history[i].success
                      ELSE healthy \/ sinceFailure = cooldownPeriod
    BY DEF vars
  <2>1. Route(c) \/ RouteRefused(c)
    <3>1. ~ (UNCHANGED vars \/ Tick)
      BY DEF vars, callVars, Tick
    <3>2. PICK d \in Calls : Step(d)
      BY <3>1 DEF Next
    <3>3. c = d
      BY <3>2 DEF TypeOK, Step, Route, RouteRefused, Cancel, Returns, WrappedReturns,
             RetryOrGiveUp, Backoff, BackoffElapsed, BackoffCancelled, TrackStream,
             StreamError, StreamAbandoned, StreamClosed, SetProviderHealth,
             recordHealthSuccess, recordHealthFailure
    <3> QED
      BY <3>2, <3>3 DEF TypeOK, Step, Cancel, Returns, WrappedReturns, Backoff,
             BackoffElapsed, BackoffCancelled, TrackStream, StreamError,
             StreamAbandoned, StreamClosed, SetProviderHealth, InProgress
  <2>2. CASE Route(c)
    <3>1. pc'[c] = "calling" /\ IsHealthy
      BY <2>2 DEF Route, TypeOK
    <3> QED BY <3>1, ConfigPositive DEF IsHealthy, TypeOK, HealthTypeOK
  <2>3. CASE RouteRefused(c)
    <3>1. pc'[c] = "unavailable" /\ ~ healthy
      BY <2>3 DEF RouteRefused, TypeOK, IsHealthy
    <3>2. /\ consecutiveFails \in Nat /\ Len(history) \in Nat
          /\ consecutiveFails >= failureThreshold
          /\ consecutiveFails <= Len(history)
          /\ \A i \in (Len(history) - consecutiveFails + 1) .. Len(history) :
                ~ history[i].success
      BY <3>1, ConfigPositive DEF TypeOK, HealthTypeOK, BreakerMatchesHistory
    <3> QED BY <3>1, <3>2, ConfigPositive
  <2> QED BY <2>1, <2>2, <2>3
<1>2. Spec => [][A]_vars
  BY <1>1, TypeCorrect, BreakerCorrect, PTL DEF Spec
<1> QED BY <1>2 DEF RefusedOnlyWhenTripped

-----------------------------------------------------------------------------
\* OneVerdictPerCall made inductive: the calls with a verdict are those whose
\* goroutine has passed its record, and nothing else is left of it to run.
VerdictInv ==
    /\ OneVerdictPerCall
    /\ \A i \in DOMAIN history : pc[history[i].call] \in {"setGauge", "done"}
    /\ \A c \in Calls : pc[c] = "setGauge" => \E i \in DOMAIN history : history[i].call = c

\* Every step keeps the verdicts one per call and true.
LEMMA VerdictNext == LoopInv /\ VerdictInv /\ [Next]_vars => VerdictInv'
<1> SUFFICES ASSUME LoopInv, VerdictInv, [Next]_vars PROVE VerdictInv'
  OBVIOUS
<1> DEFINE H == [call : Calls, success : BOOLEAN]
<1>0. /\ history \in Seq(H)
      /\ pc \in [Calls -> {"new", "calling", "backoff", "streaming", "setGauge",
                           "done", "unavailable"}]
      /\ result \in [Calls -> Results \cup {"none", "streamErr"}]
      /\ cancelled \in [Calls -> BOOLEAN]
  BY DEF LoopInv, TypeOK
<1>00. \A i \in DOMAIN history : history[i] \in H
  BY <1>0, HistoryElements
<1>1. CASE UNCHANGED <<pc, result, cancelled, history>>
  BY <1>1 DEF VerdictInv, OneVerdictPerCall
<1>2. ASSUME NEW c \in Calls, InProgress(c), pc'[c] \notin {"setGauge", "done"},
             UNCHANGED history,
             \A d \in Calls \ {c} : /\ pc'[d] = pc[d] /\ result'[d] = result[d]
                                   /\ cancelled'[d] = cancelled[d]
      PROVE  VerdictInv'
  BY <1>0, <1>00, <1>2 DEF VerdictInv, OneVerdictPerCall, InProgress
<1>3. ASSUME NEW c \in Calls, pc[c] = "new", pc'[c] \notin {"setGauge", "done"},
             UNCHANGED <<history, result, cancelled>>,
             \A d \in Calls \ {c} : pc'[d] = pc[d]
      PROVE  VerdictInv'
  BY <1>0, <1>00, <1>3 DEF VerdictInv, OneVerdictPerCall
<1>4. ASSUME NEW c \in Calls, InProgress(c), pc'[c] = "done", cancelled'[c],
             UNCHANGED history,
             \A d \in Calls \ {c} : /\ pc'[d] = pc[d] /\ result'[d] = result[d]
                                   /\ cancelled'[d] = cancelled[d]
      PROVE  VerdictInv'
  BY <1>0, <1>00, <1>4 DEF VerdictInv, OneVerdictPerCall, InProgress
<1>5. ASSUME NEW c \in Calls, NEW b \in BOOLEAN, InProgress(c),
             pc' = [pc EXCEPT ![c] = "setGauge"], b <=> result'[c] = "200",
             history' = Append(history, [call |-> c, success |-> b]),
             UNCHANGED cancelled, \A d \in Calls \ {c} : result'[d] = result[d]
      PROVE  VerdictInv'
  <2> DEFINE v == [call |-> c, success |-> b]
             n == Len(history)
  <2>1. /\ n \in Nat /\ DOMAIN history = 1 .. n
        /\ DOMAIN history' = DOMAIN history \cup {n + 1}
        /\ \A i \in DOMAIN history : history'[i] = history[i]
        /\ history'[n + 1] = v
        /\ n + 1 \notin DOMAIN history
    BY <1>0, <1>5, HistoryGrows
  <2>2. \A i \in DOMAIN history : history[i].call \in Calls \ {c}
    BY <1>00, <1>5 DEF VerdictInv, InProgress
  <2>3. v.call = c /\ v.success = b
    OBVIOUS
  <2> HIDE DEF n, v
  <2>4. OneVerdictPerCall'
    BY <1>0, <1>5, <2>1, <2>2, <2>3 DEF VerdictInv, OneVerdictPerCall
  <2> QED BY <1>0, <1>5, <2>1, <2>2, <2>3, <2>4 DEF VerdictInv
<1>6. CASE Tick
  BY <1>1, <1>6 DEF Tick, callVars
<1>7. ASSUME NEW c \in Calls, Step(c) PROVE VerdictInv'
  <2>1. CASE Route(c) \/ RouteRefused(c)
    BY <1>0, <1>3, <2>1 DEF Route, RouteRefused
  <2>2. CASE Cancel(c)
    BY <1>0, <1>2, <2>2 DEF Cancel, InProgress
  <2>3. CASE Returns(c)
    <3>1. PICK r \in Results : WrappedReturns(c, r)
      BY <2>3 DEF Returns
    <3>2. result'[c] = r /\ UNCHANGED cancelled /\ InProgress(c)
          /\ \A d \in Calls \ {c} : result'[d] = result[d]
      BY <1>0, <3>1 DEF WrappedReturns, InProgress
    <3>3. CASE r = "200" /\ ~ stream[c]
      BY <1>5, <3>1, <3>2, <3>3 DEF WrappedReturns, recordHealthSuccess
    <3>4. CASE r # "200" /\ ~ (isRetryable(r) /\ attempt[c] < MaxRetries)
      BY <1>5, <3>1, <3>2, <3>4 DEF WrappedReturns, RetryOrGiveUp, recordHealthFailure
    <3>5. CASE (r = "200" /\ stream[c])
               \/ (r # "200" /\ isRetryable(r) /\ attempt[c] < MaxRetries)
      BY <1>0, <1>2, <3>1, <3>2, <3>5 DEF WrappedReturns, RetryOrGiveUp
    <3> QED BY <3>3, <3>4, <3>5
  <2>4. CASE BackoffElapsed(c)
    BY <1>0, <1>2, <2>4 DEF BackoffElapsed, InProgress
  <2>5. CASE BackoffCancelled(c) \/ StreamAbandoned(c)
    BY <1>0, <1>4, <2>5 DEF BackoffCancelled, StreamAbandoned, InProgress
  <2>6. CASE StreamError(c)
    BY <1>0, <1>2, <2>6 DEF StreamError, InProgress
  <2>7. CASE StreamClosed(c)
    <3>1. InProgress(c) /\ UNCHANGED <<cancelled, result>>
      BY <2>7 DEF StreamClosed, InProgress
    <3>2. CASE result[c] = "streamErr"
      BY <1>5, <2>7, <3>1, <3>2 DEF StreamClosed, recordHealthFailure
    <3>3. CASE result[c] = "200"
      BY <1>5, <2>7, <3>1, <3>3 DEF StreamClosed, recordHealthSuccess
    <3> QED BY <2>7, <3>2, <3>3 DEF StreamClosed, LoopInv
  <2>8. CASE SetProviderHealth(c)
    <3>1. /\ pc[c] = "setGauge" /\ pc' = [pc EXCEPT ![c] = "done"]
          /\ UNCHANGED <<result, cancelled, history>>
      BY <2>8 DEF SetProviderHealth
    <3> QED BY <1>0, <1>00, <3>1 DEF VerdictInv, OneVerdictPerCall
  <2> QED BY <1>7, <2>1, <2>2, <2>3, <2>4, <2>5, <2>6, <2>7, <2>8
          DEF Step, Backoff, TrackStream
<1> QED BY <1>1, <1>6, <1>7 DEF Next, vars, callVars

\* Retries and stream tracking record one verdict per call at most, the right one,
\* and exactly one for a call that was never cancelled.
THEOREM VerdictsCorrect == Spec => []OneVerdictPerCall
<1>1. Init => VerdictInv
  BY DEF Init, VerdictInv, OneVerdictPerCall
<1> QED BY <1>1, VerdictNext, LoopInvariant, PTL DEF Spec, VerdictInv
=============================================================================
