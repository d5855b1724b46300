# Verification of llm-gateway

TLA+ models of the gateway's concurrent and stateful parts, model-checked with
TLC on small instances; for some of them the main invariants are proved with
TLAPS for every value of the constants. `PROJECT.json` maps each definition to
the lines it models and lists runs, mutants, findings, hazards and theorems.

## The system

A request enters the chain that `internal/server` mounts: request counter, panic
recovery and access log around everything, and for `/v1` then authentication (`internal/auth`,
`internal/middleware/auth.go`), the rate limit (`internal/ratelimit`,
`internal/middleware/ratelimit.go`), the debug body logger if it is switched on,
and the handler (`internal/handler/chat.go`). The chat handler asks the router
(`internal/router`) for a provider and calls it through the retry and health
decorator (`internal/provider/health_decorator.go`) around one of three adapters.
Postgres holds the API keys, Redis the rate limit windows. Several gateway
processes share both.

| Part | State | Operations | What is hard |
|---|---|---|---|
| breaker | failure count, flag, time of last failure | RecordSuccess, RecordFailure, IsHealthy | verdicts in any order, late ones, cooldown |
| retry decorator | attempt, context | two retry loops, stream tracker | timer against context, one verdict per call |
| stream | two bounded channels | adapter, tracker and handler goroutines | disconnects, full channels, goroutine leaks |
| router, registry | model and alias maps, round robin counters | Register, RegisterAlias, Route | random registration order, breakers that flip during the filter |
| latency poller | previous read, EWMAs, stop channel | run, Observe, Stop | replaced histograms, concurrent Stop |
| rate limiter | RPM and TPM sorted sets | check.lua, tpm_record.lua | clock skew, lost replies, tokens known late |
| capture writer | mode, buffer | WriteHeader, Write, Flush, finish | buffer limit, order of record and response |
| auth cache | positive and negative LRU, database row | Authenticate, Revoke, Invalidate | lookup against revocation, several gateways |
| last-used debounce | touched LRU, last_used_at | maybeTouch | check-then-act, failing writes |
| adapters | remembered event type, message id, input tokens | request, response, chunk and error translation; line readers | usage split over events, missing end markers, damaged lines |
| fail-open warning | an atomic time stamp | load, compare-and-swap | racing goroutines, lost warnings |
| middleware chain | RequestInfo, counters, log lines | server.New, each middleware, the handlers | early returns, panics, bodies read ahead |
| process | servers, pool, client, exit code | main, shutdownAll | competing select cases, drain timeout, os.Exit |

## Modules

| Module | Models | Correspondence |
|---|---|---|
| `ProviderHealth` | `health.go` | one operator per method; time is the ticks since the last failure |
| `HealthTracking` | `health_decorator.go`, the filter, the gauge | one `pc` per call; the health record and the gauge write are two steps |
| `StreamContract` | what a client may see of a stream | abstract: chunks in order, then complete or cut |
| `StreamPipeline` | adapter goroutine, `trackStreamHealth`, `handleStream` | implements `StreamContract` (`ImplementsContract`) |
| `Adapters`, `ProviderCall` | the three adapters, `backoffDuration` | translations are operators; a reader takes one line per step; the providers' encodings are external |
| `Strategies`, `StrategyCheck` | the five `Select` methods | operators, compared with reference definitions |
| `Routing` | registry, candidates, router, start-up order | one breaker read per step of `filterHealthy` |
| `LatencyPoller` | `latency.go`, the histograms | an EWMA is kept as the least and greatest average folded in |
| `RateLimiter` | both scripts, `limiter.go`, `serve` | a script is one step; the stamp it carries may lag or lead |
| `UsageCapture` | `usageCaptureWriter` | compared with what the client gets without it |
| `AuthCache` | `cached.go`, key store, admin revoke | one step per cache access and per query |
| `LastUsed` | `maybeTouch` | lookup, add and write are three steps |
| `FailOpenWarn` | `warnFailOpen` | clock read, load and compare-and-swap are three steps |
| `RequestPath` | `server.go`, all middleware, the handlers | one `pc` per request that follows the chain down and back; extends `FailOpenWarn`; what auth, limiter, router and provider answer is open |
| `Lifecycle` | `cmd/gateway/main.go`, `config/load.go` | configuration, main, the server goroutines and requests as processes |

`MC*` modules give the constants small values. `MCSequential` takes three modules
whose code shares no state between requests, `ProviderCall`, `StrategyCheck` and
`UsageCapture`, and lets one of them run in each behaviour. `*Proofs` modules hold theorems.
Definitions commented "Mutant" are faulty variants that show each property can
fail; no specification uses them.

## Runs that pass

| Run | Bounds | Shows |
|---|---|---|
| breaker | 3 calls, threshold 2, 1 retry | breaker follows verdicts in lock order; one true verdict per call; refusals only when tripped |
| breaker_live | 2 calls, threshold 1, fairness | a call whose client has gone ends, whatever its backoff; a tripped breaker admits again |
| rate_limit | 3 requests, RPM 2, TPM 3, window 2, stamps ahead by 1 | both limits hold up to the named slack; rejections need a full window; Retry-After |
| sequential | adapters: up to 3 messages, 3 pieces and 2 choices; strategies: all lists up to length 3; writer: buffer of 3 | a stream closed cleanly is the whole answer, a broken one a beginning of it; the conversation and the backoff arrive as meant; each ranking against its definition; the writer is invisible, and tokens are counted iff the body fits, before it leaves |
| latency | 1 provider, 4 calls, 1 replaced histogram, 2 stoppers, fairness | nothing counted twice; estimates within durations; Stop returns |
| auth_cache | 3 calls, 2 gateways, TTL 2 | revoked keys age out; no valid key refused |
| last_used | 3 calls, debounce 2 | last_used_at lags at most the period |
| stream | channels of 2, 6 chunks, fairness | chunks intact, verdict true, contract implemented; everyone returns |
| routing | 3 requests, 2 groups, 4 aliases (one of an alias, one listed by a group), 2 breaker flips | aliases follow their targets, round robin is even; the model sent is one the provider lists or an alias that the configuration itself writes there; 400 and 503 for their reasons |
| lifecycle | 2 requests, every configuration, fairness | stores closed only after drain or timeout; nothing served without a check that is switched on; the process stops |
| request_path | 2 requests (one of every kind, one GET /v1/models), 4 configurations, interval 2, clock to 3, fairness | counters, access line and debug log are true of the answers; warnings are spaced and not lost; every request ends, except a stream whose client waits for the provider, and one that max_retries below zero leaves at a nil channel |

Type invariants are proved for `HealthTracking`, `AuthCache` and `LastUsed`; those
of the other modules can be added to their configurations. `RetriesUsedUp`,
`RejectedHoldsNoSlot`, `ExpiryRespected` and `SecondTouchOverlaps` are proved and
in no run.

The routing run selects by round robin and cost; priority, weighted and latency
selection are covered by the sequential run alone.

In request_path two chat requests at once are out of reach of a short run; the
second request passes the same chain, counters and warning, and only its handler
is simpler. Bodies (whole, cut short, invalid, oversized, with bytes behind the
JSON value, at which the decoder stops) vary in the configurations without a
limiter, which does not look at them.

In sequential a time.Duration ends at a small number, so that the doubled backoff
meets the end of the type. `ConversationKept` names the parameters that adapters
drop (Anthropic's: n, the penalties and user; Google's: the penalties and user)
and the one Anthropic's adds, max_tokens. A message's name, which both drop, is
left out.

The bounds are the smallest at which the cases meet: one more call than a
threshold or limit, one more time unit than a window or TTL, one chunk more than
both channels hold. Requests run once, so the systems come to rest and deadlock
is not checked; that nobody waits for ever is stated by the liveness properties.

## Disagreements between documents and code

The run revoke_race expects a violation: `admin_keys.go` says revoked keys take
effect immediately, and a lookup in progress puts one back into the cache. How long
it lives there, and in other gateways' caches, is bounded by `RevokedKeyAgesOut`.

The other statements below are not runs of `PROJECT.json`. TLC finds each of them
violated (`tlc -config X.cfg Module`): with a configuration of its own or, where a
definition is named in brackets, with the run's configuration and that definition
as its only invariant or property.

| Configuration, module | Statement | Code |
|---|---|---|
| GaugeRace, MCHealthTracking | `health.go:69-70` the gauge avoids the race with RecordSuccess | it is written after the unlock |
| HalfOpenProbes, MCHealthTracking | ADR 006:55-57 one probe after the cooldown | every call is admitted |
| LateSuccess, MCHealthTracking | `routing-strategies.md:182-185` Open is left through Half-Open | a late success closes it |
| NetworkRetry, MCHealthTracking | `routing-strategies.md:165-166` network errors are retryable | only a ProviderError is |
| RetriedCheck, MCRateLimiter | `limiter.go:10-12` a TPM-rejected request takes no RPM slot | a check sent again may |
| TpmExpiry, MCRateLimiter | `data-model.md:160` TTL 2 min | EXPIRE is given milliseconds |
| TpmRemaining, MCRateLimiter | `limiter.go:82` TpmLimit - tpm_used | an RPM rejection reports 0 used |
| LastUsed [TouchDebounced], MCLastUsed | `cached.go:18-19` caps the writes for a key | concurrent requests both write |
| StreamDisconnect, StreamPipeline | `health_decorator.go:152-153` a disconnect is not recorded | it is if the adapter closes first |
| StopTwice, MCLatencyPoller | `latency.go:116-117` Stop is safe to call multiple times | concurrent calls may panic; production makes none |
| Lifecycle [ClosedOnSignal], MCLifecycle | `architecture.md:184-191` stores are closed on a signal | not if a server fails at that moment |
| AliasChain, MCRouting | `registry.go:58` the upstream-recognised name | one link is followed |
| GroupAlias, MCRouting | `routing-strategies.md:83` canonical model name | group entries stay as configured |
| GroupProvider, MCRouting | `routing-strategies.md:123-124` candidates name a provider | the registry's provider is used |
| Sequential [BackoffJittered], MCSequential | `health_decorator.go:193-194` computed backoffs are jittered within half of the base | a doubled backoff beyond a time.Duration may become negative, and the retry does not wait |
| RequestPath [DevAcceptsAll], MCRequestPath | `allow_all.go:8` accepts every request | the middleware wants a bearer token first |
| RequestPath [DevUnthrottled], MCRequestPath | `ratelimit.go:67-69` in AllowAll mode there is nothing to throttle | AllowAll gives a key, which is throttled |
| RequestPath [EveryRequestLogged], MCRequestPath | `logging.go:12` logs every request | not one that panics |
| RequestPath [SameErrorSeen], MCRequestPath | `debug_bodies.go:62-64` the handler sees the same read error on its own read | it finds an empty body, or one that ends cleanly |
| FilterRace, MCRouting | `api-spec.md:165` all breakers open | they are read one after the other |

## Fairness

Runnable goroutines run and tickers fire (weak fairness); the backoff timer is not
assumed to, as Retry-After is not capped. A non-streaming call comes back because
every adapter sets a timeout; a streaming call has none, so it is fair only once
its context is done, in `RequestPath` once the client has left. The poller's stop case is strongly
fair because Go chooses among ready select cases at random. Lookups of Postgres
are assumed to come back, and in `RequestPath` whatever else a request's goroutine
calls. Nothing is assumed of clients or of streams in progress.

## Proofs

- `HealthTrackingProofs`: types, retry loop, breaker, verdicts, refusals. The
  loop invariant ties `attempt` and `result` to `pc`; the breaker's invariant is
  `BreakerMatchesHistory` itself; verdicts need that a call in progress is not yet
  in the history.
- `RateLimiterProofs`: RPM limit, RPM rejections, slots. The invariant bounds each
  stamp by the clock, counts every grant still in the window in the set, keeps the
  set within the limit and says who owns a slot.
- `AuthCacheProofs`: types, revocation, expiry, false rejections. The invariant
  dates cache entries and answers in hand against the row's change.
- `LastUsedProofs`: types, overlap, lag of last_used_at. The invariant says that
  an entry covers a recorded or pending write and explains every miss.
- `FailOpenWarnProofs`: warnings are an interval apart, and a silent request has
  one to show for it. The invariant says that the stamp is the latest warning's,
  that a loaded stamp is not ahead of it, and that a goroutine about to swap was
  stamped an interval after what it loaded.

- `StreamPipelineProofs`: `Intact`, `VerdictTrue` and the refinement of
  `StreamContract`, for every capacity and number of chunks. `Intact` alone is not
  inductive: the invariant also numbers the events in both channels and in both
  goroutines' hands by their distance from the chunks written (`InOrder`), says
  that nothing is missing while the client is there (`NothingLost`), and where an
  error event is until the tracker has seen it (`ErrorsSeen`). A chunk read maps
  to Emit, a chunk written to Deliver, the handler's return to Complete or Cut, and
  every other step to a stutter.
- `LifecycleProofs`: `DrainedBeforeClosed` and `GuardedOrNotServing`, for every set
  of requests and configurations. The invariant says that a drained server is shut
  and quiet, that the closers are behind it (`Ordered`), and which guards are built
  at each point of main (`Guarded`).

Assumptions are the named ASSUMEs on constants. Only model-checked: liveness,
`RetryAfterIsEarliest` and the token sums (minimum and fold over sets), and all of
`Strategies`, `Routing`, `LatencyPoller`, `UsageCapture`, `Adapters`,
`ProviderCall` and `RequestPath`.

## Not modelled

JSON, URLs and the text of headers, error messages and log lines; the defaults of
the configuration; the row that key creation inserts; migrations (a library) and
organizations (no request uses them); the lists that `/v1/models` and
`/internal/health` show, which are views of state modelled elsewhere; the
generator of the weighted strategy. The directories for budget, cache, pipeline,
streaming and token hold no code.
