-------------------------- MODULE LifecycleProofs ---------------------------
(***************************************************************************)
(* DrainedBeforeClosed and GuardedOrNotServing for every set of requests   *)
(* and every configuration.  The first needs what the order of the code    *)
(* establishes: a drained server takes no request any more, and the        *)
(* closers run only behind a drained one.  The second needs that validate  *)
(* and the constructors are behind main when it starts the servers.        *)
(***************************************************************************)
EXTENDS Lifecycle, TLAPS

Shape ==
    /\ server \in [Servers -> {"new", "started", "listening", "returned"}]
    /\ shut \in [Servers -> BOOLEAN] /\ drained \in [Servers -> BOOLEAN]
    /\ request \in [Requests -> {"none", "accepted", "inDB", "checking", "serving", "done"}]

Quiet == Active = {} \/ timedOut

Ordered ==
    /\ main = "shutdown" => shut["http"]
    /\ drained["http"] => shut["http"] /\ Quiet
    /\ main \in {"closeRedis", "closePool", "poolWait"} => drained["http"]
    /\ pool \in {"closing", "closed"} \/ redis = "closed" => drained["http"]
    /\ unchecked # {} => timedOut

Serving == server["http"] # "new"

Guarded ==
    /\ main \in {"buildAuth", "buildLimiter", "buildRouter"} \/ Serving => validate
    /\ main \in {"buildLimiter", "buildRouter"} \/ Serving => ("auth" \in enabled => pool # "none")
    /\ main = "buildRouter" \/ Serving => ("limiter" \in enabled => redis # "none")

Inv == Shape /\ Ordered /\ Guarded

-----------------------------------------------------------------------------

\* The gateway's own server is there in every configuration.
LEMMA HttpServer == "http" \in Servers
  BY DEF Servers

\* Nothing is started, accepted or closed when the process begins.
LEMMA InitInv == Init => Inv
  BY HttpServer DEF Init, Inv, Shape, Ordered, Quiet, Active, Guarded, Serving

\* Construction: each constructor leaves its guard behind, or main exits.
LEMMA BuildInv == Inv /\ Build => Inv'
  <1> SUFFICES ASSUME Inv, Build PROVE Inv' OBVIOUS
  <1> USE HttpServer DEF Inv, storeVars, serverVars, requestVars
  <1>1. CASE Load
        BY <1>1 DEF Load, Shape, Ordered, Quiet, Active, Guarded, Serving, validate, Servers
  <1>2. CASE buildAuth
        BY <1>2 DEF buildAuth, Shape, Ordered, Quiet, Active, Guarded, Serving, validate, Servers
  <1>3. CASE buildRateLimiter
        BY <1>3
        DEF buildRateLimiter, Shape, Ordered, Quiet, Active, Guarded, Serving, validate, Servers
  <1>4. CASE StartServers
        BY <1>4
        DEF StartServers, Shape, Ordered, Quiet, Active, Guarded, Serving, validate, Servers
  <1>5. CASE Fatal
        BY <1>5 DEF Fatal, Shape, Ordered, Quiet, Active, Guarded, Serving, validate, Servers
  <1> QED BY <1>1, <1>2, <1>3, <1>4, <1>5
          DEF Build, LoadFails, buildAuthFails, buildRateLimiterFails, NewRouterFails

\* A server's goroutine that listens or returns opens no guard and closes nothing.
LEMMA ServerStepInv == ASSUME NEW s \in Servers, Inv, ServerStep(s) PROVE Inv'
  <1> USE HttpServer DEF Inv, storeVars, serverVars, requestVars
  <1>1. CASE Listen(s)
        BY <1>1 DEF Listen, Shape, Ordered, Quiet, Active, Guarded, Serving, validate, Servers
  <1>2. CASE \E outcome \in {"err", "closed"} :
                server[s] # "new" /\ ServerReturns(s, outcome)
        BY <1>2
        DEF ServerReturns, Shape, Ordered, Quiet, Active, Guarded, Serving, validate, Servers
  <1> QED BY <1>1, <1>2 DEF ServerStep, ServeFails, ServerClosed

\* main, from its select to its exit: a server counts as drained only when it is quiet.
LEMMA MainStepInv == Inv /\ (Signal \/ MainStep) => Inv'
  <1> SUFFICES ASSUME Inv, Signal \/ MainStep PROVE Inv' OBVIOUS
  <1> USE HttpServer DEF Inv, storeVars, serverVars, requestVars, Serving, validate
  <1>1. CASE Signal BY <1>1 DEF Signal, Shape, Ordered, Quiet, Active, Guarded, Servers
  <1>2. CASE SignalReceived
        BY <1>2 DEF SignalReceived, Shape, Ordered, Quiet, Active, Guarded, Servers
  <1>3. ASSUME NEW s, ServerStopped(s) PROVE Inv'
        BY <1>3 DEF ServerStopped, Shape, Ordered, Quiet, Active, Guarded, Servers
  <1>4. ASSUME NEW s \in Servers, Shutdown(s) PROVE Inv'
    <2>1. Shape' BY <1>4 DEF Shutdown, Shape, Servers
    <2>2. drained'["http"] => drained["http"] \/ (shut["http"] /\ Quiet)
          BY <1>4 DEF Shutdown, Shape, Ordered, Quiet
    <2>3. drained["http"] => drained'["http"] BY <1>4 DEF Shutdown, Shape
    <2>4. Quiet' = Quiet BY <1>4 DEF Shutdown, Quiet, Active
    <2>5. Ordered' BY <1>4, <2>2, <2>3, <2>4 DEF Shutdown, Ordered
    <2>6. Guarded' BY <1>4 DEF Shutdown, Guarded
    <2> QED BY <2>1, <2>5, <2>6
  <1>5. CASE ShutdownTimeout
        BY <1>5 DEF ShutdownTimeout, Shape, Ordered, Quiet, Active, Guarded, Servers
  <1>6. CASE ShutdownDone
        BY <1>6 DEF ShutdownDone, AllDrained, Shape, Ordered, Quiet, Active, Guarded, Servers
  <1>7. CASE CloseRedis
        BY <1>7 DEF CloseRedis, Shape, Ordered, Quiet, Active, Guarded, Servers
  <1>8. CASE ClosePool
        BY <1>8 DEF ClosePool, Shape, Ordered, Quiet, Active, Guarded, Servers
  <1>9. CASE PoolClosed
        BY <1>9 DEF PoolClosed, Shape, Ordered, Quiet, Active, Guarded, Servers
  <1> QED BY <1>1, <1>2, <1>3, <1>4, <1>5, <1>6, <1>7, <1>8, <1>9 DEF MainStep

\* Requests: none begins once the server is shut, and one that is checked against
\* a closed client is in progress.
LEMMA RequestInv == ASSUME NEW r \in Requests, Inv, RequestNext(r) PROVE Inv'
  <1> USE HttpServer DEF Inv
  <1>1. PICK to \in {"accepted", "inDB", "checking", "serving", "done"} : RequestStep(r, to)
        BY DEF RequestNext, Accept, AuthenticateCached, Authenticate, LookupAnswered,
               CheckLimit, Finish
  <1> USE <1>1 DEF RequestStep, storeVars, serverVars
  <1>2. Shape' BY DEF Shape, Servers
  <1>3. request[r] = "none" => ~ shut["http"]
        BY DEF RequestNext, Accept, AuthenticateCached, Authenticate, LookupAnswered,
               CheckLimit, Finish
  <1>4. request[r] \in {"none", "accepted", "inDB", "checking", "serving"}
        BY DEF RequestNext, Accept, AuthenticateCached, Authenticate, LookupAnswered,
               CheckLimit, Finish
  <1>5. shut["http"] /\ Quiet => r \in Active /\ timedOut
        BY <1>3, <1>4 DEF Quiet, Active
  <1>6. drained'["http"] => shut'["http"] /\ Quiet'
        BY <1>5 DEF Ordered, Quiet
  <1>7. unchecked' # {} => timedOut'
        BY <1>5, <1>6 DEF Ordered, RequestNext, Accept, AuthenticateCached, Authenticate,
                     LookupAnswered, CheckLimit, Finish
  <1>8. Ordered' BY <1>6, <1>7 DEF Ordered
  <1>9. Guarded' BY DEF Guarded, Serving, validate
  <1> QED BY <1>2, <1>8, <1>9

\* The invariant holds of every gateway process, whatever its requests do.
THEOREM Invariance == Spec => []Inv
  <1>1. Inv /\ UNCHANGED vars => Inv'
        BY DEF vars, storeVars, serverVars, requestVars, Inv, Shape, Ordered, Quiet, Active,
               Guarded, Serving, validate, Servers
  <1>2. Inv /\ [Next]_vars => Inv'
        BY <1>1, BuildInv, ServerStepInv, MainStepInv, RequestInv DEF Next
  <1> QED BY InitInv, <1>2, PTL DEF Spec

\* main's closers run behind shutdownAll: a request in progress meets a closed pool or
\* a closed Redis client only when shutdownTimeout has run out.
THEOREM ClosersBehindDrain == Spec => []DrainedBeforeClosed
  <1>1. Inv => DrainedBeforeClosed BY DEF Inv, Ordered, Quiet, DrainedBeforeClosed
  <1> QED BY Invariance, <1>1, PTL

\* A gateway that serves has the guards that its settings ask for, for every
\* configuration that config.Load may return.
THEOREM NeverServesUnguarded == Spec => []GuardedOrNotServing
  <1>1. Inv => GuardedOrNotServing
        BY DEF Inv, Guarded, Serving, validate, GuardedOrNotServing
  <1> QED BY Invariance, <1>1, PTL
=============================================================================
