--------------------------- MODULE MCRequestPath ----------------------------
(***************************************************************************)
(* RequestPath for TLC: one request of every kind, and beside it a         *)
(* GET /v1/models, which passes the same chain.                            *)
(***************************************************************************)
EXTENDS RequestPath

CONSTANTS r1, r2
MCRequests == {r1, r2}

config(dev, limiter, debug, retries) ==
    [devAuth |-> dev, limiter |-> limiter, debugBodies |-> debug, retries |-> retries]

MCConfigs == {config(FALSE, TRUE, TRUE, 0), config(FALSE, TRUE, TRUE, -1),
              config(TRUE, TRUE, FALSE, 0), config(TRUE, FALSE, TRUE, 1)}

plain == [size |-> 2, fails |-> FALSE, end |-> 2, valid |-> TRUE]

\* Requests that end around the two limits, with and without more bytes behind them, and
\* reads that fail before, at and behind their end; and bodies that are no request.
MCBodies ==
    [size : 1 .. 5, fails : BOOLEAN, end : {2, 4, 5}, valid : {TRUE}]
        \cup [size : {0, 5}, fails : {FALSE}, end : {1, 3}, valid : {FALSE}]

\* The rate limiter does not look at the body, so bodies vary where there is none.
MCArrivals(r, c) ==
    LET headers == {"missing", "malformed", "unknown", "valid"}
        empty == [plain EXCEPT !.size = 0]
        get(routes, header) ==
            [route : routes, header : header, stream : {FALSE}, body : {empty}]
        chat(header, streams, bodies) ==
            [route : {"chat"}, header : header, stream : streams, body : bodies]
    IN  IF r = r1
        THEN chat(headers, {FALSE}, {plain}) \cup chat({"valid"}, {TRUE}, {plain})
               \cup chat({"valid"}, {FALSE}, IF c.limiter THEN {} ELSE MCBodies)
               \cup get({"revokeKey"}, {"missing", "unknown", "valid"})
               \cup [route : {"createKey"}, header : {"valid"}, stream : {FALSE},
                     body : {[plain EXCEPT !.size = 3], [plain EXCEPT !.size = 3, !.end = 3]}]
               \cup get({"health", "unknown"}, {"missing"})
        ELSE get({"models"}, {"valid"})
=============================================================================
