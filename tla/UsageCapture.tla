---------------------------- MODULE UsageCapture ----------------------------
(***************************************************************************)
(* usageCaptureWriter of internal/middleware/ratelimit.go: the             *)
(* ResponseWriter that RateLimit puts around the handler of one request.   *)
(* A JSON body is held back until finish has recorded its tokens, unless   *)
(* it outgrows captureBodyLimit; everything else goes straight through.    *)
(*                                                                         *)
(* The handler is any http.Handler: it may set a status, write pieces of   *)
(* the sizes in Sizes and flush, in any order.  Pieces are told apart by   *)
(* their number.  `direct' is what the client would have been sent had the *)
(* handler written to the connection itself.                               *)
(***************************************************************************)
EXTENDS Naturals, Sequences, SequencesExt

CONSTANTS captureBodyLimit,  \* in the unit of Sizes
          Sizes,             \* the sizes of the handler's writes (an empty one only sets 200)
          Statuses,          \* the statuses a handler sets
          MaxWrites          \* bound: the writes of the handler

ASSUME CaptureAssumption ==
    /\ captureBodyLimit \in Nat
    /\ Sizes \subseteq Nat \ {0}
    /\ Statuses \subseteq 100 .. 599
    /\ MaxWrites \in Nat

VARIABLES ct,        \* the Content-Type the handler sets
          usage,     \* the body the handler writes parses and has total_tokens > 0
          size,      \* the sizes of the pieces written so far
          status, wroteHeader, mode, buf, exceededLimit,  \* the writer's fields
          toClient,       \* what went to the underlying writer: status (0 = none), pieces
          direct,    \* what would have gone there without the wrapper
          broken,    \* the client is gone: the connection takes no more bytes
          recorded,  \* what became of RecordTokens
          pc

cwVars == <<status, wroteHeader, mode, buf, exceededLimit>>
captureVars == <<ct, usage, size, cwVars, toClient, direct, broken, recorded, pc>>

Modes == {"undecided", "buffer", "stream", "passthrough"}

\* The number of bytes in a sequence of pieces.
Bytes(pieces) == FoldSeq(LAMBDA p, n : n + size[p], 0, pieces)

\* The types; the buffer never outgrows captureBodyLimit.
TypeOK ==
    /\ ct \in {"event-stream", "json", "other"}
    /\ usage \in BOOLEAN
    /\ size \in Seq(Sizes) /\ Len(size) <= MaxWrites
    /\ status \in Statuses \cup {0, 200}
    /\ wroteHeader \in BOOLEAN /\ exceededLimit \in BOOLEAN /\ broken \in BOOLEAN
    /\ mode \in Modes
    /\ buf \in Seq(DOMAIN size) /\ Bytes(buf) <= captureBodyLimit
    /\ toClient.status \in Statuses \cup {0, 200} /\ toClient.body \in Seq(DOMAIN size)
    /\ recorded \in {"no", "yes", "failed"}
    /\ pc \in {"handling", "finish", "flush", "done"}

CaptureInit ==
    /\ ct \in {"event-stream", "json", "other"}
    /\ usage \in BOOLEAN
    /\ size = <<>>
    /\ status = 0 /\ wroteHeader = FALSE /\ mode = "undecided"
    /\ buf = <<>> /\ exceededLimit = FALSE
    /\ toClient = [status |-> 0, body |-> <<>>]
    /\ direct = [status |-> 0, body |-> <<>>]
    /\ broken = FALSE
    /\ recorded = "no"
    /\ pc = "handling"

-----------------------------------------------------------------------------
(* net/http's own writer: the first status counts, a write or a flush      *)
(* without one means 200, and a broken connection takes nothing.           *)

NetHeader(w, s) == [w EXCEPT !.status = IF @ = 0 THEN s ELSE @]

NetWrite(w, pieces) ==
    [NetHeader(w, 200) EXCEPT !.body = IF broken THEN @ ELSE @ \o pieces]

-----------------------------------------------------------------------------
(* The writer's methods.                                                   *)

decideMode ==
    CASE ct = "event-stream" -> "stream"
      [] ct = "json"         -> "buffer"
      [] OTHER               -> "passthrough"

\* What the underlying writer has after a first WriteHeader.
HeaderOut(s) == IF decideMode = "buffer" THEN toClient ELSE NetHeader(toClient, s)

\* The first status counts; a JSON response's header is held back with its body.
WriteHeader(s) ==
    /\ pc = "handling"
    /\ IF wroteHeader
       THEN UNCHANGED <<status, wroteHeader, mode, toClient>>
       ELSE /\ status' = s /\ wroteHeader' = TRUE /\ mode' = decideMode
            /\ toClient' = HeaderOut(s)
    /\ direct' = NetHeader(direct, s)
    /\ UNCHANGED <<ct, usage, size, buf, exceededLimit, broken, recorded, pc>>

\* Mutant: the buffered prefix is dropped when the limit is passed.
OverLimitDropsPrefix(w, s, p) == NetWrite(NetHeader(w, s), <<p>>)

\* The body has outgrown the buffer: header, buffered prefix, then this piece.
OverLimit(w, s, p) == NetWrite(NetWrite(NetHeader(w, s), buf), <<p>>)

\* Mutant: a body of exactly captureBodyLimit bytes is not captured.
FitsBelow(n) == Bytes(buf) + n < captureBodyLimit

Fits(n) == Bytes(buf) + n <= captureBodyLimit

\* The switch of Write, with the header's effects (s, m, w) behind it.  A replay
\* that fails leaves the buffer as it is; nothing reads it any more.
WriteSwitch(s, m, w, n, p) ==
    IF m # "buffer" \/ exceededLimit
    THEN toClient' = NetWrite(w, <<p>>) /\ UNCHANGED <<buf, exceededLimit>>
    ELSE IF Fits(n)
    THEN buf' = Append(buf, p) /\ toClient' = w /\ UNCHANGED exceededLimit
    ELSE /\ exceededLimit' = TRUE
         /\ toClient' = OverLimit(w, s, p)
         /\ buf' = IF broken THEN buf ELSE <<>>

Write(n) ==
    /\ pc = "handling"
    /\ Len(size) < MaxWrites
    /\ size' = Append(size, n)
    /\ wroteHeader' = TRUE
    /\ IF wroteHeader
       THEN WriteSwitch(status, mode, toClient, n, Len(size) + 1) /\ UNCHANGED <<status, mode>>
       ELSE /\ status' = 200 /\ mode' = decideMode
            /\ WriteSwitch(200, decideMode, HeaderOut(200), n, Len(size) + 1)
    /\ direct' = NetWrite(direct, <<Len(size) + 1>>)
    /\ UNCHANGED <<ct, usage, broken, recorded, pc>>

\* Flush is forwarded unless the body is being held back.
Flush ==
    /\ pc = "handling"
    /\ toClient' = IF mode = "buffer" THEN toClient ELSE NetHeader(toClient, 200)
    /\ direct' = NetHeader(direct, 200)
    /\ UNCHANGED <<ct, usage, size, cwVars, broken, recorded, pc>>

\* The client disconnects.
Disconnect ==
    /\ pc # "done" /\ ~ broken
    /\ broken' = TRUE
    /\ UNCHANGED <<ct, usage, size, cwVars, toClient, direct, recorded, pc>>

-----------------------------------------------------------------------------
(* serve, once the handler has returned.                                   *)

HandlerReturns ==
    /\ pc = "handling"
    /\ pc' = IF wroteHeader /\ mode = "buffer" THEN "finish" ELSE "done"
    /\ UNCHANGED <<ct, usage, size, cwVars, toClient, direct, broken, recorded>>

\* The condition under which finish calls RecordTokens.
Recordable ==
    /\ status >= 200 /\ status < 300
    /\ ~ exceededLimit
    /\ buf # <<>>
    /\ usage

\* The first half of finish.  RecordTokens may fail, which is only logged.
Record ==
    /\ pc = "finish"
    /\ recorded' \in IF Recordable THEN {"yes", "failed"} ELSE {"no"}
    /\ pc' = "flush"
    /\ UNCHANGED <<ct, usage, size, cwVars, toClient, direct, broken>>

\* The second half: the held-back header and body.
FlushBody ==
    /\ pc = "flush"
    /\ toClient' = IF exceededLimit THEN toClient
              ELSE IF buf # <<>> THEN NetWrite(NetHeader(toClient, status), buf)
              ELSE NetHeader(toClient, status)
    /\ buf' = <<>>
    /\ pc' = "done"
    /\ UNCHANGED <<ct, usage, size, status, wroteHeader, mode, exceededLimit, direct, broken,
                   recorded>>

CaptureNext ==
    \/ \E s \in Statuses : WriteHeader(s)
    \/ \E n \in Sizes : Write(n)
    \/ Flush \/ Disconnect \/ HandlerReturns \/ Record \/ FlushBody

CaptureSpec == CaptureInit /\ [][CaptureNext]_captureVars

-----------------------------------------------------------------------------
(* Properties.                                                             *)

\* The wrapper is invisible to the client: bytes arrive in the order the handler
\* wrote them, none twice, and a client that stays gets the status and the body it
\* would have been sent without the wrapper, held back or not.
Transparent ==
    /\ IsPrefix(toClient.body, direct.body)
    /\ pc = "done" /\ ~ broken => toClient = direct

\* finish records the tokens of every successful JSON response that fits the buffer, also
\* of one that fills it, and of no other response; and it does so before any of the body
\* leaves, so that a client that has seen some of it cannot send a request that is
\* checked without them.
CountedIfItFits ==
    LET counts == /\ ct = "json" /\ usage /\ status \in 200 .. 299
                  /\ Bytes([i \in DOMAIN size |-> i]) \in 1 .. captureBodyLimit
    IN  /\ pc = "done" => (recorded # "no" <=> counts)
        /\ counts /\ toClient.body # <<>> => recorded # "no"
=============================================================================
