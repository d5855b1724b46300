---------------------------- MODULE FailOpenWarn ----------------------------
(***************************************************************************)
(* warnFailOpen (internal/middleware/ratelimit.go): the throttled warning  *)
(* of requests that the rate limiter lets through because Redis fails.     *)
(* The goroutines share one atomic stamp, which they load and then try to  *)
(* replace; a request is stamped before the load, so the stamps that reach *)
(* the compare-and-swap may be old.                                        *)
(***************************************************************************)
EXTENDS Integers

CONSTANTS Requests,
          failOpenWarnInterval,
          MaxTime   \* bound on the clock, for TLC

ASSUME WarnAssumption == failOpenWarnInterval \in Nat \ {0} /\ MaxTime \in Nat

VARIABLES clock,
          lastWarn,   \* lastWarnUnixNs; 0: nothing was logged yet
          wpc,        \* where each request is in warnFailOpen
          now, prev,  \* its two local variables
          warned,     \* the requests that logged the warning
          wonAt       \* history: the clock at their compare-and-swap

warnVars == <<clock, lastWarn, wpc, now, prev, warned, wonAt>>

WarnInit ==
    /\ clock = 1 /\ lastWarn = 0
    /\ wpc = [r \in Requests |-> "idle"]
    /\ now = [r \in Requests |-> 0] /\ prev = [r \in Requests |-> 0]
    /\ warned = {} /\ wonAt = [r \in Requests |-> 0]

-----------------------------------------------------------------------------

\* now := time.Now().UnixNano()
Stamp(r) ==
    /\ wpc[r] = "idle"
    /\ wpc' = [wpc EXCEPT ![r] = "stamped"]
    /\ now' = [now EXCEPT ![r] = clock]
    /\ UNCHANGED <<clock, lastWarn, prev, warned, wonAt>>

\* Load, and the return when a warning is recent.
Load(r) ==
    /\ wpc[r] = "stamped"
    /\ prev' = [prev EXCEPT ![r] = lastWarn]
    /\ wpc' = [wpc EXCEPT ![r] =
                 IF lastWarn # 0 /\ now[r] - lastWarn < failOpenWarnInterval
                 THEN "done" ELSE "loaded"]
    /\ UNCHANGED <<clock, lastWarn, now, warned, wonAt>>

\* Mutant: a plain store; every goroutine that loaded the old stamp logs.
CompareAndSwapStore(r) ==
    /\ wpc[r] = "loaded"
    /\ wpc' = [wpc EXCEPT ![r] = "done"]
    /\ lastWarn' = now[r]
    /\ warned' = warned \cup {r}
    /\ wonAt' = [wonAt EXCEPT ![r] = clock]
    /\ UNCHANGED <<clock, now, prev>>

\* Mutant: the first failure only sets the stamp.
CompareAndSwapFirstSilent(r) ==
    /\ wpc[r] = "loaded"
    /\ wpc' = [wpc EXCEPT ![r] = "done"]
    /\ lastWarn' = IF lastWarn = prev[r] THEN now[r] ELSE lastWarn
    /\ warned' = IF lastWarn = prev[r] /\ prev[r] # 0 THEN warned \cup {r} ELSE warned
    /\ wonAt' = [wonAt EXCEPT ![r] = clock]
    /\ UNCHANGED <<clock, now, prev>>

\* CompareAndSwap(prev, now); the loser returns, the winner logs.
CompareAndSwap(r) ==
    /\ wpc[r] = "loaded"
    /\ wpc' = [wpc EXCEPT ![r] = "done"]
    /\ \/ /\ lastWarn = prev[r]
          /\ lastWarn' = now[r]
          /\ warned' = warned \cup {r}
          /\ wonAt' = [wonAt EXCEPT ![r] = clock]
       \/ /\ lastWarn # prev[r]
          /\ UNCHANGED <<lastWarn, warned, wonAt>>
    /\ UNCHANGED <<clock, now, prev>>

Tick ==
    /\ clock < MaxTime
    /\ clock' = clock + 1
    /\ UNCHANGED <<lastWarn, wpc, now, prev, warned, wonAt>>

WarnNext == Tick \/ \E r \in Requests : Stamp(r) \/ Load(r) \/ CompareAndSwap(r)

WarnSpec == WarnInit /\ [][WarnNext]_warnVars

-----------------------------------------------------------------------------
(* Properties.                                                             *)

\* However the goroutines race, two requests that log the warning were stamped at least
\* failOpenWarnInterval apart: an outage does not flood the log.
WarningsSpaced ==
    \A a, b \in warned :
        \/ a = b
        \/ now[a] >= now[b] + failOpenWarnInterval
        \/ now[b] >= now[a] + failOpenWarnInterval

\* A request that fails open without a warning leaves it to another one that logged it
\* less than failOpenWarnInterval before this one was stamped, or since: the races never
\* lose the warning altogether.
OutageWarned ==
    \A r \in Requests : wpc[r] = "done" /\ r \notin warned =>
        \E w \in warned : wonAt[w] > now[r] - failOpenWarnInterval
=============================================================================
