---------------------------- MODULE LatencyPoller ---------------------------
(***************************************************************************)
(* The poller of LatencyOptimized (internal/router/strategy/latency.go):   *)
(* a goroutine that reads the cumulative latency histograms, takes the     *)
(* difference to its previous read and folds the average into an EWMA per  *)
(* provider; the calls that fill the histograms meanwhile; the callers of  *)
(* Stop.                                                                   *)
(*                                                                         *)
(* An estimate is kept as what decides its value up to the weights of the  *)
(* fold: the least and the greatest average folded into it.  With 0 <      *)
(* alpha <= 1 the EWMA lies between the two.  Averages are compared as     *)
(* fractions: the average sum/count is the pair <<sum, count>>.            *)
(***************************************************************************)
EXTENDS Naturals

CONSTANTS Providers,
          Durations,    \* the durations of provider calls
          MaxSamples,   \* bound: calls recorded per provider
          MaxResets,    \* bound: replacements of a histogram
          Stoppers      \* the goroutines that call Stop

ASSUME PollerAssumption ==
    /\ Durations \subseteq Nat \ {0}
    /\ MaxSamples \in Nat
    /\ MaxResets \in Nat

VARIABLES hist,      \* each provider's histogram: sum and count since it was made
          samples,   \* all calls recorded for it: count, and least and greatest duration
          resets,
          prev, curr,   \* the poller's two reads
          todo,      \* the providers of curr the loop has not come to
          ewmas,     \* what is folded into each estimate: reads, low, high
          poller,    \* where the goroutine is
          stopped,   \* s.stop is closed
          stopper    \* where each caller of Stop is

histVars == <<hist, samples, resets>>
pollVars == <<prev, curr, todo, ewmas, poller>>
vars == <<histVars, pollVars, stopped, stopper>>

Zero == [sum |-> 0, count |-> 0]
Unmeasured == [counted |-> 0, low |-> <<0, 0>>, high |-> <<0, 0>>]

\* The order of averages, as fractions.
Leq(a, b) == a[1] * b[2] <= b[1] * a[2]

\* The types; a provider has an estimate only if something was counted for it.
TypeOK ==
    /\ \A p \in Providers :
          /\ \A h \in {hist[p], prev[p], curr[p]} : h.sum \in Nat /\ h.count \in 0 .. MaxSamples
          /\ ewmas[p].counted \in Nat
          /\ ewmas[p].counted > 0 <=> ewmas[p] # Unmeasured
    /\ resets \in 0 .. MaxResets
    /\ todo \subseteq Providers
    /\ poller \in {"start", "select", "fold", "returned"}
    /\ stopped \in BOOLEAN
    /\ stopper \in [Stoppers -> {"new", "closing", "waiting", "back", "panicked"}]

Init ==
    /\ hist = [p \in Providers |-> Zero]
    /\ samples = [p \in Providers |-> 0]
    /\ resets = 0
    /\ prev = [p \in Providers |-> Zero]
    /\ curr = [p \in Providers |-> Zero]
    /\ todo = {}
    /\ ewmas = [p \in Providers |-> Unmeasured]
    /\ poller = "start"
    /\ stopped = FALSE
    /\ stopper = [s \in Stoppers |-> "new"]

-----------------------------------------------------------------------------
(* internal/metrics: the histogram of a provider.                          *)

\* RecordProviderRequest: one observation.
RecordProviderRequest(p, d) ==
    /\ samples[p] < MaxSamples
    /\ hist' = [hist EXCEPT ![p] = [sum |-> @.sum + d, count |-> @.count + 1]]
    /\ samples' = [samples EXCEPT ![p] = @ + 1]
    /\ UNCHANGED <<resets, pollVars, stopped, stopper>>

\* The histogram is replaced by an empty one, which the code allows for.
Reset(p) ==
    /\ resets < MaxResets
    /\ hist' = [hist EXCEPT ![p] = Zero]
    /\ resets' = resets + 1
    /\ UNCHANGED <<samples, pollVars, stopped, stopper>>

-----------------------------------------------------------------------------
(* run.                                                                    *)

\* The first read is the baseline; NewLatencyOptimized does not wait for it.
Baseline ==
    /\ poller = "start"
    /\ prev' = hist
    /\ poller' = "select"
    /\ UNCHANGED <<histVars, curr, todo, ewmas, stopped, stopper>>

\* The ticker wins the select.  A provider without an observation is not in the map.
Poll ==
    /\ poller = "select"
    /\ curr' = hist
    /\ todo' = {p \in Providers : hist[p].count > 0}
    /\ poller' = "fold"
    /\ UNCHANGED <<histVars, prev, ewmas, stopped, stopper>>

\* The new observations.  The sum may only have shrunk if the histogram was
\* replaced, and counts as zero then.
Delta(p) ==
    [sum |-> IF curr[p].sum < prev[p].sum THEN 0 ELSE curr[p].sum - prev[p].sum,
     count |-> curr[p].count - prev[p].count]

\* Observe: folds an average into the estimate, or starts it.
Observe(e, avg) ==
    [counted |-> e.counted + avg[2],
     low  |-> IF e = Unmeasured \/ Leq(avg, e.low) THEN avg ELSE e.low,
     high |-> IF e = Unmeasured \/ Leq(e.high, avg) THEN avg ELSE e.high]

\* The loop's two early continues: a replaced histogram, and no new observation.
HasNew(p) == curr[p].count > prev[p].count

\* One turn of the loop over the map, in any order.
Fold(p) ==
    /\ poller = "fold"
    /\ p \in todo
    /\ todo' = todo \ {p}
    /\ ewmas' = IF HasNew(p)
                THEN [ewmas EXCEPT ![p] = Observe(@, <<Delta(p).sum, Delta(p).count>>)]
                ELSE ewmas
    /\ UNCHANGED <<histVars, prev, curr, poller, stopped, stopper>>

\* Mutant: the old baseline is kept.
NextTickKeepsPrev ==
    /\ poller = "fold"
    /\ todo = {}
    /\ poller' = "select"
    /\ UNCHANGED <<histVars, prev, curr, todo, ewmas, stopped, stopper>>

NextTick ==
    /\ poller = "fold"
    /\ todo = {}
    /\ prev' = curr
    /\ poller' = "select"
    /\ UNCHANGED <<histVars, curr, todo, ewmas, stopped, stopper>>

\* Mutant: a break that leaves the select but not the loop.
PollerReturnsBreak ==
    /\ poller = "select" /\ stopped
    /\ UNCHANGED vars

\* The closed stop channel wins the select; close(s.done).
PollerReturns ==
    /\ poller = "select" /\ stopped
    /\ poller' = "returned"
    /\ UNCHANGED <<histVars, prev, curr, todo, ewmas, stopped, stopper>>

-----------------------------------------------------------------------------
(* Stop: the select on s.stop and the close are two steps.                 *)

StopCheck(s) ==
    /\ stopper[s] = "new"
    /\ stopper' = [stopper EXCEPT ![s] = IF stopped THEN "waiting" ELSE "closing"]
    /\ UNCHANGED <<histVars, pollVars, stopped>>

\* Closing a closed channel panics.
StopClose(s) ==
    /\ stopper[s] = "closing"
    /\ stopped' = TRUE
    /\ stopper' = [stopper EXCEPT ![s] = IF stopped THEN "panicked" ELSE "waiting"]
    /\ UNCHANGED <<histVars, pollVars>>

\* <-s.done.
StopBack(s) ==
    /\ stopper[s] = "waiting"
    /\ poller = "returned"
    /\ stopper' = [stopper EXCEPT ![s] = "back"]
    /\ UNCHANGED <<histVars, pollVars, stopped>>

-----------------------------------------------------------------------------
PollerStep == Baseline \/ (\E p \in Providers : Fold(p)) \/ NextTick

Stop(s) == StopCheck(s) \/ StopClose(s) \/ StopBack(s)

Next ==
    \/ \E p \in Providers : Reset(p) \/ \E d \in Durations : RecordProviderRequest(p, d)
    \/ PollerStep \/ Poll \/ PollerReturns
    \/ \E s \in Stoppers : Stop(s)

Spec == Init /\ [][Next]_vars

\* Goroutines that can run do.  The ticker and the stop channel compete in one
\* select; Go chooses among ready cases at random, so the stop channel is taken
\* in the end however often the ticker fires.
FairSpec ==
    /\ Spec
    /\ WF_vars(PollerStep) /\ SF_vars(PollerReturns)
    /\ \A s \in Stoppers : WF_vars(StopClose(s)) /\ WF_vars(StopBack(s))

-----------------------------------------------------------------------------
(* Properties.                                                             *)

\* The differences of successive reads count a provider call at most once, also across a
\* replaced histogram, whatever is recorded while the loop runs; and while none is
\* replaced an estimate stays within the durations of the calls: quiet intervals pull it
\* neither towards zero nor beyond the slowest call.
EstimateFaithful ==
    \A p \in Providers :
        /\ ewmas[p].counted <= samples[p]
        /\ resets = 0 /\ ewmas[p] # Unmeasured =>
              /\ \E d \in Durations : Leq(<<d, 1>>, ewmas[p].low)
              /\ \E d \in Durations : Leq(ewmas[p].high, <<d, 1>>)

\* A caller that has begun to stop the poller comes back (or has panicked).
StopReturns ==
    \A s \in Stoppers : stopper[s] = "closing" ~> stopper[s] \in {"back", "panicked"}

-----------------------------------------------------------------------------
(* What a comment says of Stop and the code does not do.                   *)

\* Stop: "Idempotent; safe to call multiple times."
StopIsSafe == \A s \in Stoppers : stopper[s] # "panicked"
=============================================================================
