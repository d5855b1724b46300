---------------------------- MODULE RequestPath -----------------------------
(***************************************************************************)
(* A request's way through the gateway: the middleware chain that          *)
(* server.New mounts, the handlers at its end, and the way back, with the  *)
(* answer the client gets, the access line, the logged body and the        *)
(* Prometheus counters.  Requests run concurrently; what they share are    *)
(* the counters and the stamp of the fail-open warning.                    *)
(*                                                                         *)
(* What the authenticator, the limiter, the router and the provider answer *)
(* is open here: AuthCache, RateLimiter, Routing, HealthTracking and       *)
(* StreamPipeline are about that.                                          *)
(***************************************************************************)
EXTENDS FailOpenWarn, Sequences, SequencesExt, FiniteSets

CONSTANTS Configs,          \* configurations: devAuth, limiter, debugBodies, retries
          Arrivals(_, _),   \* requests that may arrive: route, header, stream, body
          ProviderErrors,   \* statuses of provider errors; 0: no ProviderError
          debugBodyLimit,   \* what the debug logger logs of a body
          maxRequestBodySize, adminBodyLimit   \* what the handlers read of one

ASSUME PathAssumption ==
    debugBodyLimit \in Nat \ {0} /\ maxRequestBodySize \in Nat /\ adminBodyLimit \in Nat
    /\ debugBodyLimit < maxRequestBodySize

VARIABLES cfg,       \* the configuration
          pc,        \* where each request is: a stage, "returning", "panicking", "observe",
                     \* "done", or "hung"
          req,       \* the request as the client sent it
          gone,      \* the client of a stream has left
          body,      \* what r.Body will still deliver
          info,      \* its RequestInfo
          written,   \* status and error code the client gets; status 0: nothing written
          line,      \* the access line
          bodyLine,  \* the "http body" line of the debug logger
          requestsTotal, rateLimitHits, authFailures   \* the counters

counters == <<requestsTotal, rateLimitHits, authFailures>>
pathVars == <<cfg, pc, req, gone, body, info, written, line, bodyLine, counters>>

NoInfo == [org |-> FALSE, decision |-> FALSE, tokens |-> FALSE, rateLimited |-> FALSE]
Nothing == [status |-> 0, code |-> ""]
NoLine == [status |-> -1, info |-> NoInfo]
NoBody == [bytes |-> <<>>, fails |-> FALSE]
NoBodyLine == [bytes |-> <<>>, truncated |-> FALSE, logged |-> FALSE]
NoRequest == [route |-> "none", header |-> "", stream |-> FALSE,
              body |-> [size |-> 0, fails |-> FALSE, end |-> 0, valid |-> FALSE]]

PathInit ==
    /\ WarnInit
    /\ cfg \in Configs
    /\ pc = [r \in Requests |-> "new"]
    /\ req = [r \in Requests |-> NoRequest]
    /\ gone = [r \in Requests |-> FALSE]
    /\ body = [r \in Requests |-> NoBody]
    /\ info = [r \in Requests |-> NoInfo]
    /\ written = [r \in Requests |-> Nothing]
    /\ line = [r \in Requests |-> NoLine]
    /\ bodyLine = [r \in Requests |-> NoBodyLine]
    /\ requestsTotal = [c \in {"2xx", "3xx", "4xx", "5xx", "other"} |-> 0]
    /\ rateLimitHits = [o \in {"allowed", "throttled", "failopen"} |-> 0]
    /\ authFailures = [c \in {"missing", "malformed", "unknown"} |-> 0]

-----------------------------------------------------------------------------
(* The chain.                                                              *)

Mounted(stage) ==
    CASE stage = "limit" -> cfg.limiter
      [] stage = "debug" -> cfg.debugBodies
      [] OTHER -> TRUE

\* Mutant: the debug logger is mounted before the rate limiter.
apiChainDebugFirst == SelectSeq(<<"auth", "debug", "limit", "handle">>, Mounted)

\* What /v1 requests pass, in order.
apiChain == SelectSeq(<<"auth", "limit", "debug", "handle">>, Mounted)

\* next.ServeHTTP of the given stage.
After(stage) == apiChain[SelectInSeq(apiChain, LAMBDA s : s = stage) + 1]

Write(r, status, code) == written' = [written EXCEPT ![r] = [status |-> status, code |-> code]]

Goto(r, stage) == pc' = [pc EXCEPT ![r] = stage]

Answer(r, status, code) == Write(r, status, code) /\ Goto(r, "returning")

Inc(counter, label) == [counter EXCEPT ![label] = @ + 1]

AdminRoutes == {"createKey", "revokeKey"}

\* RequestID, Observe, Recoverer and RequestLogger have nothing to refuse; chi finds the
\* route, and answers 404 itself if there is none.  Without authentication there are no
\* admin routes.
Arrive(r) ==
    /\ pc[r] = "new"
    /\ \E q \in Arrivals(r, cfg) :
          /\ req' = [req EXCEPT ![r] = q]
          /\ body' = [body EXCEPT ![r] = [bytes |-> [i \in 1 .. q.body.size |-> i],
                                          fails |-> q.body.fails]]
          /\ CASE q.route \in {"chat", "models"} ->
                    Goto(r, Head(apiChain)) /\ UNCHANGED written
               [] q.route \in AdminRoutes /\ ~cfg.devAuth ->
                    Goto(r, "adminToken") /\ UNCHANGED written
               [] q.route = "health" -> Answer(r, 200, "")
               [] OTHER -> Answer(r, 404, "not_found")
    /\ UNCHANGED <<warnVars, cfg, gone, info, line, bodyLine, counters>>

\* The Authorization header, up to what the authenticator or the admin token's comparison
\* says of the token; devAuth is AllowAll.
Reason(header) == IF header \in {"missing", "malformed"} THEN header ELSE "unknown"

Rejected(r) ==
    /\ Answer(r, 401, "invalid_api_key")
    /\ authFailures' = Inc(authFailures, Reason(req[r].header))
    /\ UNCHANGED info

RequireAPIKey(r) ==
    /\ pc[r] = "auth"
    /\ LET header == req[r].header
           wellFormed == header \notin {"missing", "malformed"}
       IN  \/ (~wellFormed \/ (header = "unknown" /\ ~cfg.devAuth)) /\ Rejected(r)
           \/ /\ wellFormed /\ ~cfg.devAuth   \* the database cannot be asked
              /\ Answer(r, 503, "internal_error")
              /\ UNCHANGED <<authFailures, info>>
           \/ /\ wellFormed /\ (header = "valid" \/ cfg.devAuth)
              /\ info' = [info EXCEPT ![r].org = TRUE]
              /\ Goto(r, After("auth"))
              /\ UNCHANGED <<authFailures, written>>
    /\ UNCHANGED <<warnVars, cfg, req, gone, body, line, bodyLine, requestsTotal, rateLimitHits>>

RequireAdminToken(r) ==
    /\ pc[r] = "adminToken"
    /\ \/ req[r].header # "valid" /\ Rejected(r)
       \/ /\ req[r].header = "valid"
          /\ Goto(r, "admin")
          /\ UNCHANGED <<authFailures, info, written>>
    /\ UNCHANGED <<warnVars, cfg, req, gone, body, line, bodyLine, requestsTotal, rateLimitHits>>

-----------------------------------------------------------------------------
(* RateLimit.                                                              *)

\* Mutant: a request that fails open is marked, too.
ReserveFailsMarked(r) ==
    /\ rateLimitHits' = Inc(rateLimitHits, "failopen")
    /\ info' = [info EXCEPT ![r].rateLimited = TRUE]
    /\ Goto(r, "warn")
    /\ UNCHANGED written

\* Redis fails: counted, warned about, and let through.
ReserveFails(r) ==
    /\ rateLimitHits' = Inc(rateLimitHits, "failopen")
    /\ Goto(r, "warn")
    /\ UNCHANGED <<info, written>>

Throttled(r) ==
    /\ rateLimitHits' = Inc(rateLimitHits, "throttled")
    /\ info' = [info EXCEPT ![r].rateLimited = TRUE]
    /\ Answer(r, 429, "rate_limit_exceeded")

Allowed(r) ==
    /\ rateLimitHits' = Inc(rateLimitHits, "allowed")
    /\ Goto(r, After("limit"))
    /\ UNCHANGED <<info, written>>

RateLimit(r) ==
    /\ pc[r] = "limit"
    /\ ReserveFails(r) \/ Throttled(r) \/ Allowed(r)
    /\ UNCHANGED <<warnVars, cfg, req, gone, body, line, bodyLine, requestsTotal, authFailures>>

\* warnFailOpen, and then the rest of the chain.
warnFailOpen(r) ==
    /\ pc[r] = "warn"
    /\ \/ (Stamp(r) \/ Load(r) \/ CompareAndSwap(r)) /\ UNCHANGED pc
       \/ wpc[r] = "done" /\ Goto(r, After("limit")) /\ UNCHANGED warnVars
    /\ UNCHANGED <<cfg, req, gone, body, info, written, line, bodyLine, counters>>

-----------------------------------------------------------------------------
(* DebugRequestBodies and the handlers.                                    *)

\* The first n bytes, or all if there are fewer.
Prefix(bytes, n) == SubSeq(bytes, 1, IF n < Len(bytes) THEN n ELSE Len(bytes))

\* The limit and one byte are read and put back, before what is left on the wire.
Restored(bytes) ==
    Prefix(bytes, debugBodyLimit + 1) \o SubSeq(bytes, debugBodyLimit + 2, Len(bytes))

\* The line, and the body put back.
LogBody(r, truncated) ==
    /\ bodyLine' = [bodyLine EXCEPT ![r] =
          [bytes |-> Prefix(body[r].bytes, debugBodyLimit), truncated |-> truncated,
           logged |-> TRUE]]
    /\ body' = [body EXCEPT ![r] = [bytes |-> Restored(@.bytes), fails |-> @.fails /\ truncated]]

\* Without a body there is no line.  A read that fails leaves the handler an empty body;
\* but a connection that ends early is io.ErrUnexpectedEOF, as a short body is, and the
\* handler finds a body that ends there.  A read that would fail behind the limit fails
\* when the handler reads on.
DebugRequestBodies(r) ==
    /\ pc[r] = "debug"
    /\ LET truncated == Len(body[r].bytes) > debugBodyLimit
       IN  \/ body[r] = NoBody /\ UNCHANGED <<body, bodyLine>>
           \/ /\ body[r].fails /\ ~truncated
              /\ body' = [body EXCEPT ![r] = NoBody] /\ UNCHANGED bodyLine
           \/ body[r] # NoBody /\ LogBody(r, truncated)
    /\ Goto(r, After("debug"))
    /\ UNCHANGED <<warnVars, cfg, req, gone, info, written, line, counters>>

\* What a handler makes of a body.  json.Decoder reads up to the end of the first value,
\* or to the byte that shows there is none: sent.end.  If that byte arrives within the
\* limit, what follows it does not matter, be it more bytes, a failing read or a body
\* larger than the limit; the value must then have the required fields.
Decode(b, sent, limit) ==
    CASE /\ sent.end \in 1 .. limit /\ sent.end <= Len(b.bytes)
         /\ Prefix(b.bytes, sent.end) = [i \in 1 .. sent.end |-> i] ->
           IF sent.valid THEN "" ELSE "invalid_request"
      [] OTHER -> IF Len(b.bytes) > limit THEN "request_too_large" ELSE "invalid_request"

HandleListModels(r) ==
    /\ pc[r] = "handle" /\ req[r].route = "models"
    /\ Answer(r, 200, "")
    /\ UNCHANGED <<warnVars, cfg, req, gone, body, info, line, bodyLine, counters>>

\* A body that is too large, is no JSON or lacks a field; a failing generator or store.
Create(r) ==
    /\ pc[r] = "admin" /\ req[r].route = "createKey"
    /\ LET refused == Decode(body[r], req[r].body, adminBodyLimit) # ""
       IN  \/ refused /\ Answer(r, 400, "invalid_request")
           \/ ~refused /\ Answer(r, 500, "internal_error")
           \/ ~refused /\ Answer(r, 201, "")
    /\ UNCHANGED <<warnVars, cfg, req, gone, body, info, line, bodyLine, counters>>

\* What it does to the row and to the cache is in AuthCache.
Revoke(r) ==
    /\ pc[r] = "admin" /\ req[r].route = "revokeKey"
    /\ Answer(r, 500, "internal_error") \/ Answer(r, 204, "")
    /\ UNCHANGED <<warnVars, cfg, req, gone, body, info, line, bodyLine, counters>>

\* The checks of HandleChatCompletion, and the router's two errors.
HandlerRefuses(r) ==
    LET code == Decode(body[r], req[r].body, maxRequestBodySize)
    IN  /\ \/ code = "request_too_large" /\ Answer(r, 413, code)
           \/ code = "invalid_request" /\ Answer(r, 400, code)
           \/ code = "" /\ Answer(r, 400, "invalid_model")
           \/ code = "" /\ Answer(r, 503, "all_providers_down")
        /\ UNCHANGED info

HandleChatCompletion(r) ==
    /\ pc[r] = "handle" /\ req[r].route = "chat"
    /\ \/ HandlerRefuses(r)
       \/ /\ Decode(body[r], req[r].body, maxRequestBodySize) = ""
          /\ info' = [info EXCEPT ![r].decision = TRUE]
          /\ Goto(r, "provider")
          /\ UNCHANGED written
    /\ UNCHANGED <<warnVars, cfg, req, gone, body, line, bodyLine, counters>>

\* Mutant: max_retries is the number of attempts.
attemptsNoFirst == cfg.retries

\* The decorator's loop runs from 0 to max_retries.
attempts == cfg.retries + 1

handleProviderError(r, status) ==
    Answer(r, IF status = 0 \/ status >= 500 THEN 502 ELSE status, "provider_error")

\* A loop that never runs returns neither a response nor an error: the handler panics.
handleNonStream(r) ==
    /\ pc[r] = "provider" /\ ~req[r].stream
    /\ \/ attempts > 0 /\ info' = [info EXCEPT ![r].tokens = TRUE] /\ Answer(r, 200, "")
       \/ /\ attempts > 0 /\ UNCHANGED info
          /\ \E status \in ProviderErrors : handleProviderError(r, status)
       \/ attempts <= 0 /\ Goto(r, "panicking") /\ UNCHANGED <<info, written>>
    /\ UNCHANGED <<warnVars, cfg, req, gone, body, line, bodyLine, counters>>

\* The client of a stream disconnects: the context of the provider's call is done.
ClientLeaves(r) ==
    /\ pc[r] \in {"provider", "hung"} /\ req[r].stream /\ ~gone[r]
    /\ gone' = [gone EXCEPT ![r] = TRUE]
    /\ UNCHANGED <<warnVars, cfg, pc, req, body, info, written, line, bodyLine, counters>>

\* With events or, if the client is still there, [DONE], the answer is a 200; a client
\* that leaves before the first event gets nothing.  A loop that never runs returns a nil
\* channel: the handler waits for it, whether or not the client is there.
handleStream(r) ==
    /\ pc[r] = "provider" /\ req[r].stream
    /\ \/ attempts > 0 /\ Answer(r, 200, "")
       \/ attempts > 0 /\ gone[r] /\ Goto(r, "returning") /\ UNCHANGED written
       \/ attempts > 0 /\ \E status \in ProviderErrors : handleProviderError(r, status)
       \/ attempts <= 0 /\ Goto(r, "hung") /\ UNCHANGED written
    /\ UNCHANGED <<warnVars, cfg, req, gone, body, info, line, bodyLine, counters>>

-----------------------------------------------------------------------------
(* The way back: RequestLogger, Recoverer, Observe.                        *)

\* The line is written behind next.ServeHTTP, so a panic passes it.
RequestLogger(r) ==
    /\ pc[r] = "returning"
    /\ line' = [line EXCEPT ![r] = [status |-> written[r].status, info |-> info[r]]]
    /\ Goto(r, "observe")
    /\ UNCHANGED <<warnVars, cfg, req, gone, body, info, written, bodyLine, counters>>

\* Mutant: Recoverer is mounted before Observe, which the panic then passes, too.
RecovererOutside(r) ==
    /\ pc[r] = "panicking"
    /\ Write(r, 500, "")
    /\ Goto(r, "done")
    /\ UNCHANGED <<warnVars, cfg, req, gone, body, info, line, bodyLine, counters>>

\* Nothing is written yet when the handler panics.
Recoverer(r) ==
    /\ pc[r] = "panicking"
    /\ Write(r, 500, "")
    /\ Goto(r, "observe")
    /\ UNCHANGED <<warnVars, cfg, req, gone, body, info, line, bodyLine, counters>>

statusClass(status) ==
    CASE status \in 200 .. 299 -> "2xx"
      [] status \in 300 .. 399 -> "3xx"
      [] status \in 400 .. 499 -> "4xx"
      [] status \in 500 .. 599 -> "5xx"
      [] OTHER -> "other"

\* net/http makes a 200 of an answer that was never begun.
Sent(r) == IF written[r].status = 0 THEN 200 ELSE written[r].status

Observe(r) ==
    /\ pc[r] = "observe"
    /\ requestsTotal' = Inc(requestsTotal, statusClass(Sent(r)))
    /\ Goto(r, "done")
    /\ UNCHANGED <<warnVars, cfg, req, gone, body, info, written, line, bodyLine, rateLimitHits,
                   authFailures>>

\* Every step of a request's goroutine but the wait for a stream.
RequestStep(r) ==
    \/ RequireAPIKey(r) \/ RequireAdminToken(r) \/ RateLimit(r) \/ warnFailOpen(r)
    \/ DebugRequestBodies(r) \/ HandleListModels(r) \/ Create(r) \/ Revoke(r)
    \/ HandleChatCompletion(r) \/ handleNonStream(r)
    \/ RequestLogger(r) \/ Recoverer(r) \/ Observe(r)

PathNext ==
    \/ Tick /\ UNCHANGED pathVars
    \/ \E r \in Requests : Arrive(r) \/ RequestStep(r) \/ handleStream(r) \/ ClientLeaves(r)

\* A request's goroutine runs, and what it calls comes back: Redis and Postgres answer or
\* time out, and a call without stream has a deadline.  A stream has none: a provider may
\* say nothing for ever, and the handler is sure to go on only once the client has left.
PathSpec ==
    /\ PathInit /\ [][PathNext]_<<warnVars, pathVars>>
    /\ \A r \in Requests : /\ WF_<<warnVars, pathVars>>(RequestStep(r))
                          /\ WF_<<warnVars, pathVars>>(gone[r] /\ handleStream(r))

-----------------------------------------------------------------------------
(* Properties.                                                             *)

Done == {r \in Requests : pc[r] = "done"}
WithCode(S, code) == {r \in S : written[r].code = code}

\* When no request is in flight the counters say what the clients got: each request
\* counts once in the class of its status, be it refused, answered, relayed, recovered
\* from a panic or abandoned; an auth failure is a 401 of the gateway and not one it
\* relays from a provider; throttled ones are the gateway's 429s.
CountersMatchAnswers ==
    (\A r \in Requests : pc[r] \in {"new", "done"}) =>
        /\ \A c \in DOMAIN requestsTotal :
              requestsTotal[c] = Cardinality({r \in Done : statusClass(Sent(r)) = c})
        /\ authFailures["missing"] + authFailures["malformed"] + authFailures["unknown"]
             = Cardinality(WithCode(Done, "invalid_api_key"))
        /\ rateLimitHits["throttled"] = Cardinality(WithCode(Done, "rate_limit_exceeded"))
        /\ rateLimitHits["failopen"] = Cardinality({r \in Done : wpc[r] = "done"})

\* A request that is over has an access line, unless it panicked, and the line is true of
\* the answer: the status, rate_limited for the limiter's 429s only, the routing decision
\* for the requests a provider was called for, the identity exactly for those that
\* passed authentication.
AccessLineTrue ==
    \A r \in Done :
        LET code == written[r].code
            i == line[r].info
            panicked == line[r] = NoLine
        IN  /\ panicked => written[r].status = 500 /\ attempts <= 0
            /\ ~panicked =>
                 /\ line[r].status = written[r].status
                 /\ i.rateLimited <=> code = "rate_limit_exceeded"
                 /\ i.decision <=> req[r].route = "chat" /\ code \in {"", "provider_error"}
                 /\ i.tokens => i.decision /\ written[r].status = 200
                 /\ i.org <=> /\ req[r].route \in {"chat", "models"}
                              /\ code \notin {"invalid_api_key", "internal_error"}

\* The debug logger logs no body of a request that authentication or the rate limiter
\* refuses, and of the others no more than its limit, marked when cut; and it does not
\* change what the handler makes of the body, around its own limit, around the handler's,
\* and with bytes behind the first JSON value.  The one exception is a read that fails
\* within the log's limit, behind a complete request: the handler would have served it,
\* and finds an empty body.
DebugLoggerHarmless ==
    \A r \in Requests :
        LET sent == req[r].body
            whole == [bytes |-> [i \in 1 .. sent.size |-> i], fails |-> sent.fails]
            verdict(b) == Decode(b, sent, maxRequestBodySize)
            lost == /\ cfg.debugBodies /\ sent.fails /\ sent.size <= debugBodyLimit
                    /\ body[r] = NoBody
        IN  /\ bodyLine[r].logged =>
                 /\ written[r].code \notin {"invalid_api_key", "rate_limit_exceeded",
                                            "internal_error"}
                 /\ Len(bodyLine[r].bytes) <= debugBodyLimit
                 /\ bodyLine[r].truncated <=> sent.size > Len(bodyLine[r].bytes)
            /\ pc[r] = "handle" => lost \/ verdict(body[r]) = verdict(whole)

\* Every request is answered and counted, a panic of the handler included; a stream at
\* the latest when its client has left.  Only a stream under a negative max_retries is
\* not: its handler waits for a nil channel, and the client's leaving does not end that.
EveryRequestEnds ==
    \A r \in Requests :
        pc[r] # "new" ~> \/ pc[r] = "done"
                         \/ req[r].stream /\ pc[r] = "provider" /\ ~gone[r]
                         \/ req[r].stream /\ pc[r] = "hung" /\ cfg.retries < 0

-----------------------------------------------------------------------------
(* What comments say and the code does not do.                             *)

\* allow_all.go:8: AllowAll "accepts every request"; but RequireAPIKey wants a header.
DevAcceptsAll ==
    \A r \in Requests : cfg.devAuth =>
        written[r].code # "invalid_api_key" \/ req[r].route \in AdminRoutes

\* ratelimit.go:67-69: in AllowAll mode "there's nothing to throttle against".
DevUnthrottled == \A r \in Requests : cfg.devAuth => ~info[r].rateLimited

\* debug_bodies.go:62-64: after a failing read "the downstream handler will see the same
\* error on its own read".
SameErrorSeen == \A r \in Requests : pc[r] = "handle" => body[r].fails = req[r].body.fails

\* logging.go:12: RequestLogger "logs every request".
EveryRequestLogged == \A r \in Done : line[r] # NoLine
=============================================================================
