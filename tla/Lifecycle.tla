----------------------------- MODULE Lifecycle ------------------------------
(***************************************************************************)
(* The life of a gateway process, cmd/gateway/main.go: the settings it     *)
(* loads (internal/config), what main builds and in which order, the       *)
(* goroutines of the two HTTP servers, the select that ends their service, *)
(* the drain of shutdownAll under its timeout, and the deferred closers of *)
(* the Postgres pool and the Redis client.                                 *)
(* Requests are in it as far as they need the pool, the client and the     *)
(* process.  net/http and pgxpool are external: Shutdown closes the        *)
(* listener and waits for the requests, and cancels none of them; Close    *)
(* lets nobody acquire a connection and waits for the ones in use.         *)
(***************************************************************************)
EXTENDS Naturals

CONSTANTS Requests,   \* the requests the gateway's server may accept
          Sources     \* configuration sources: what the file sets, and what the
                      \* environment sets and clears

VARIABLES enabled,      \* the settings in effect; they never change
          main,         \* where the main goroutine is
          exitCode,
          pool, redis,  \* "none", "open", "closing" or "closed"
          server,       \* each server's goroutine
          errs,         \* its channel: "empty", "err" (an error, then closed), "closed"
          shut,         \* Shutdown was called on the server
          drained,      \* its Shutdown has returned
          signalled,    \* SIGINT or SIGTERM has arrived
          timedOut,     \* shutdownCtx is done
          request,      \* where each request is
          unchecked     \* requests whose rate limit check found the client closed

storeVars == <<pool, redis>>
serverVars == <<server, errs, shut, drained>>
requestVars == <<request, unchecked>>
vars == <<enabled, main, exitCode, storeVars, serverVars, signalled, timedOut, requestVars>>

Servers == IF "metrics" \in enabled THEN {"http", "metrics"} ELSE {"http"}

\* Three switches, and whether there is a Postgres DSN, an admin token, a Redis DSN and a
\* provider with an API key.
Settings == {"auth", "limiter", "metrics", "postgres", "adminToken", "redis", "provider"}

\* The environment overrides the file.
Effective(src) == (src.file \ src.envClears) \cup src.envSets

Exited == main = "exited"
Active == {r \in Requests : request[r] \in {"accepted", "inDB", "checking", "serving"}}

\* The types; a server's channel is closed without an error only after Shutdown.
TypeOK ==
    /\ enabled \subseteq Settings
    /\ main \in {"load", "buildAuth", "buildLimiter", "buildRouter", "select", "shutdown",
                 "closeRedis", "closePool", "poolWait", "exited"}
    /\ exitCode \in {0, 1}
    /\ pool \in {"none", "open", "closing", "closed"}
    /\ redis \in {"none", "open", "closed"}
    /\ server \in [Servers -> {"new", "started", "listening", "returned"}]
    /\ errs \in [Servers -> {"empty", "err", "closed"}]
    /\ \A s \in Servers : errs[s] = "closed" => shut[s]
    /\ shut \in [Servers -> BOOLEAN] /\ drained \in [Servers -> BOOLEAN]
    /\ signalled \in BOOLEAN /\ timedOut \in BOOLEAN
    /\ request \in [Requests -> {"none", "accepted", "inDB", "checking", "serving", "done"}]
    /\ unchecked \subseteq Requests

Init ==
    /\ \E src \in Sources : enabled = Effective(src)
    /\ main = "load" /\ exitCode = 0
    /\ pool = "none" /\ redis = "none"
    /\ server = [s \in Servers |-> "new"]
    /\ errs = [s \in Servers |-> "empty"]
    /\ shut = [s \in Servers |-> FALSE]
    /\ drained = [s \in Servers |-> FALSE]
    /\ signalled = FALSE /\ timedOut = FALSE
    /\ request = [r \in Requests |-> "none"]
    /\ unchecked = {}

-----------------------------------------------------------------------------
(* Construction.  Every failure is a log.Fatalf, which runs no closer.     *)

Fatal ==
    /\ main' = "exited" /\ exitCode' = 1
    /\ UNCHANGED <<storeVars, serverVars, signalled, timedOut, requestVars, enabled>>

validate ==
    /\ "provider" \in enabled
    /\ "auth" \in enabled => {"postgres", "adminToken"} \subseteq enabled
    /\ "limiter" \in enabled => "redis" \in enabled

Load ==
    /\ main = "load"
    /\ validate
    /\ main' = "buildAuth"
    /\ UNCHANGED <<exitCode, storeVars, serverVars, signalled, timedOut, requestVars, enabled>>

\* The file cannot be parsed, or the settings do not go together.
LoadFails == main = "load" /\ Fatal

\* buildAuth: the pool, and the migrations, whose failure closes it again.
buildAuth ==
    /\ main = "buildAuth"
    /\ main' = "buildLimiter"
    /\ pool' = IF "auth" \in enabled THEN "open" ELSE "none"
    /\ UNCHANGED <<exitCode, redis, serverVars, signalled, timedOut, requestVars, enabled>>

buildAuthFails == main = "buildAuth" /\ "auth" \in enabled /\ Fatal

buildRateLimiter ==
    /\ main = "buildLimiter"
    /\ main' = "buildRouter"
    /\ redis' = IF "limiter" \in enabled THEN "open" ELSE "none"
    /\ UNCHANGED <<exitCode, pool, serverVars, signalled, timedOut, requestVars, enabled>>

\* Mutant: without Redis the gateway starts without limits.
buildRateLimiterFailsOpen ==
    /\ main = "buildLimiter" /\ "limiter" \in enabled
    /\ main' = "buildRouter"
    /\ UNCHANGED <<exitCode, storeVars, serverVars, signalled, timedOut, requestVars, enabled>>

buildRateLimiterFails == main = "buildLimiter" /\ "limiter" \in enabled /\ Fatal

\* NewRouter, then the server goroutines; from here on signals are caught.
StartServers ==
    /\ main = "buildRouter"
    /\ main' = "select"
    /\ server' = [s \in Servers |-> "started"]
    /\ UNCHANGED <<exitCode, storeVars, errs, shut, drained, signalled, timedOut,
                   requestVars, enabled>>

NewRouterFails == main = "buildRouter" /\ Fatal

-----------------------------------------------------------------------------
(* The servers' goroutines.                                                *)

ServerReturns(s, outcome) ==
    /\ server' = [server EXCEPT ![s] = "returned"]
    /\ errs' = [errs EXCEPT ![s] = outcome]
    /\ UNCHANGED <<main, exitCode, storeVars, shut, drained, signalled, timedOut,
                   requestVars, enabled>>

\* ListenAndServe begins to listen, unless Shutdown came first.
Listen(s) ==
    /\ ~ Exited
    /\ server[s] = "started" /\ ~ shut[s]
    /\ server' = [server EXCEPT ![s] = "listening"]
    /\ UNCHANGED <<main, exitCode, storeVars, errs, shut, drained, signalled, timedOut,
                   requestVars, enabled>>

\* It cannot bind, or accept: the error goes into the buffered channel.
ServeFails(s) ==
    /\ ~ Exited
    /\ server[s] \in {"started", "listening"} /\ ~ shut[s]
    /\ ServerReturns(s, "err")

\* ErrServerClosed: the channel is closed without an error.
ServerClosed(s) ==
    /\ ~ Exited
    /\ server[s] \in {"started", "listening"} /\ shut[s]
    /\ ServerReturns(s, "closed")

-----------------------------------------------------------------------------
(* main's select.                                                          *)

Signal ==
    /\ ~ Exited /\ ~ signalled
    /\ main \notin {"load", "buildAuth", "buildLimiter", "buildRouter"}
    /\ signalled' = TRUE
    /\ UNCHANGED <<main, exitCode, storeVars, serverVars, timedOut, requestVars, enabled>>

\* A receive from the server's channel is ready; metricsErr is nil, and never is,
\* when there is no metrics server.
Ready(s) == s \in Servers /\ errs[s] # "empty"

\* A server has stopped: an error makes the exit code 1.
ServerStopped(s) ==
    /\ main = "select"
    /\ Ready(s)
    /\ exitCode' = IF s \in Servers /\ errs[s] = "err" THEN 1 ELSE 0
    /\ main' = "shutdown"
    /\ shut' = [t \in Servers |-> TRUE]
    /\ UNCHANGED <<storeVars, server, errs, drained, signalled, timedOut, requestVars, enabled>>

\* The signal's context is done.
SignalReceived ==
    /\ main = "select"
    /\ signalled
    /\ main' = "shutdown"
    /\ shut' = [t \in Servers |-> TRUE]
    /\ UNCHANGED <<exitCode, storeVars, server, errs, drained, signalled, timedOut,
                   requestVars, enabled>>

-----------------------------------------------------------------------------
(* shutdownAll and the deferred closers.                                   *)

\* Mutant: Shutdown is given a context that is never done.
ShutdownUnbounded(s) ==
    /\ main = "shutdown"
    /\ ~ drained[s]
    /\ s = "metrics" \/ Active = {}
    /\ drained' = [drained EXCEPT ![s] = TRUE]
    /\ UNCHANGED <<main, exitCode, storeVars, server, errs, shut, signalled, timedOut,
                   requestVars, enabled>>

\* Shutdown of one server returns when it has no request left, or with the
\* context's error.  Scrapes of the metrics server are not modelled.
Shutdown(s) ==
    /\ main = "shutdown"
    /\ ~ drained[s]
    /\ timedOut \/ s = "metrics" \/ Active = {}
    /\ drained' = [drained EXCEPT ![s] = TRUE]
    /\ UNCHANGED <<main, exitCode, storeVars, server, errs, shut, signalled, timedOut,
                   requestVars, enabled>>

ShutdownTimeout ==
    /\ main = "shutdown"
    /\ ~ timedOut
    /\ timedOut' = TRUE
    /\ UNCHANGED <<main, exitCode, storeVars, serverVars, signalled, requestVars, enabled>>

\* Mutant: the first server that is done ends the wait.
AllDrainedAny == \E s \in Servers : drained[s]

\* wg.Wait().
AllDrained == \A s \in Servers : drained[s]

\* After the wait: os.Exit, which runs no deferred call, or the deferred calls.
ShutdownDone ==
    /\ main = "shutdown"
    /\ AllDrained
    /\ main' = IF exitCode # 0 THEN "exited" ELSE "closeRedis"
    /\ UNCHANGED <<exitCode, storeVars, serverVars, signalled, timedOut, requestVars, enabled>>

\* limiterCloser, the later of the two closers deferred, runs first.
CloseRedis ==
    /\ main = "closeRedis"
    /\ redis' = IF redis = "open" THEN "closed" ELSE redis
    /\ main' = "closePool"
    /\ UNCHANGED <<exitCode, pool, serverVars, signalled, timedOut, requestVars, enabled>>

\* pool.Close refuses new acquisitions at once ...
ClosePool ==
    /\ main = "closePool"
    /\ pool' = IF pool = "open" THEN "closing" ELSE pool
    /\ main' = "poolWait"
    /\ UNCHANGED <<exitCode, redis, serverVars, signalled, timedOut, requestVars, enabled>>

PoolIdle == \A r \in Requests : request[r] # "inDB"

\* ... and returns when none is left; then main returns.
PoolClosed ==
    /\ main = "poolWait"
    /\ PoolIdle
    /\ pool' = IF pool = "closing" THEN "closed" ELSE pool
    /\ main' = "exited"
    /\ UNCHANGED <<exitCode, redis, serverVars, signalled, timedOut, requestVars, enabled>>

-----------------------------------------------------------------------------
(* Requests.  They stop where they are when the process exits.             *)

RequestStep(r, to) ==
    /\ request' = [request EXCEPT ![r] = to]
    /\ UNCHANGED <<main, exitCode, storeVars, serverVars, signalled, timedOut, enabled>>

Accept(r) ==
    /\ ~ Exited
    /\ request[r] = "none"
    /\ server["http"] = "listening" /\ ~ shut["http"]
    /\ RequestStep(r, "accepted")
    /\ UNCHANGED unchecked

\* The authenticator has the key in its cache, or there is none (AllowAll).
AuthenticateCached(r) ==
    /\ ~ Exited
    /\ request[r] = "accepted"
    /\ RequestStep(r, "checking")
    /\ UNCHANGED unchecked

\* It asks the database; from a closed pool it gets an error, the request its 503.
Authenticate(r) ==
    /\ ~ Exited
    /\ request[r] = "accepted"
    /\ pool # "none"
    /\ RequestStep(r, IF pool = "open" THEN "inDB" ELSE "done")
    /\ UNCHANGED unchecked

\* The lookup comes back, with a key or without one.
LookupAnswered(r) ==
    /\ ~ Exited
    /\ request[r] = "inDB"
    /\ \E to \in {"checking", "done"} : RequestStep(r, to)
    /\ UNCHANGED unchecked

\* The rate limit check; with a closed client it fails, and lets the request pass.
CheckLimit(r) ==
    /\ ~ Exited
    /\ request[r] = "checking"
    /\ RequestStep(r, "serving")
    /\ unchecked' = IF redis = "closed" THEN unchecked \cup {r} ELSE unchecked

Finish(r) ==
    /\ ~ Exited
    /\ request[r] = "serving"
    /\ RequestStep(r, "done")
    /\ UNCHANGED unchecked

-----------------------------------------------------------------------------
Build ==
    \/ Load \/ LoadFails
    \/ buildAuth \/ buildAuthFails
    \/ buildRateLimiter \/ buildRateLimiterFails
    \/ StartServers \/ NewRouterFails

MainStep ==
    \/ SignalReceived \/ (\E s \in {"http", "metrics"} : ServerStopped(s))
    \/ (\E s \in Servers : Shutdown(s))
    \/ ShutdownTimeout \/ ShutdownDone \/ CloseRedis \/ ClosePool \/ PoolClosed

ServerStep(s) == Listen(s) \/ ServeFails(s) \/ ServerClosed(s)

RequestNext(r) ==
    \/ Accept(r) \/ AuthenticateCached(r) \/ Authenticate(r) \/ LookupAnswered(r)
    \/ CheckLimit(r) \/ Finish(r)

Next ==
    \/ Build \/ Signal \/ MainStep
    \/ \E s \in Servers : ServerStep(s)
    \/ \E r \in Requests : RequestNext(r)

Spec == Init /\ [][Next]_vars

\* main runs when it can, the timer of shutdownCtx fires, and Postgres answers or
\* fails a lookup.  Nothing is assumed of a request that is being served: it may
\* stream for ever.
Fairness ==
    /\ WF_vars(Build) /\ WF_vars(MainStep)
    /\ \A r \in Requests : WF_vars(LookupAnswered(r))

FairSpec == Spec /\ Fairness

-----------------------------------------------------------------------------
(* Properties.                                                             *)

\* The closers run behind shutdownAll's wait: no request in progress sees its pool
\* or its Redis client closed, and none goes unchecked because of it, unless the
\* drain has used up shutdownTimeout.
DrainedBeforeClosed ==
    /\ pool \in {"closing", "closed"} \/ redis = "closed" => Active = {} \/ timedOut
    /\ unchecked # {} => timedOut

\* A gateway that serves has the guards its settings ask for: the key store behind
\* authentication, with an admin token, and the Redis client behind the rate limiter, each
\* opened on a DSN that was configured.  Whatever fails at start-up, it does not serve
\* with one of them missing.
GuardedOrNotServing ==
    server["http"] # "new" =>
        /\ "auth" \in enabled => pool # "none" /\ {"postgres", "adminToken"} \subseteq enabled
        /\ "limiter" \in enabled => redis # "none" /\ "redis" \in enabled

\* Once told to stop the process exits, whatever the requests do: the drain is
\* bounded by shutdownTimeout and the pool's wait by the lookups under way.
StopsWhenAsked == signalled ~> Exited

-----------------------------------------------------------------------------
(* What the documentation says of a shutdown and the code does not do.     *)

\* architecture.md: on SIGTERM or SIGINT the database and Redis connections are
\* closed before the process exits.
ClosedOnSignal ==
    signalled /\ Exited => pool \in {"none", "closed"} /\ redis \in {"none", "closed"}
=============================================================================
