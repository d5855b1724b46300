---------------------------- MODULE ProviderCall ----------------------------
(***************************************************************************)
(* One attempt of a provider call: ChatCompletion and ChatCompletionStream *)
(* of the openai, anthropic and google adapters, from the request they     *)
(* send to the answer, the events or the error they return.                *)
(*                                                                         *)
(* The provider's completion is chosen first and then encoded the way the  *)
(* provider's API does, as one body or as the lines of an event stream.    *)
(* The connection may end, fail, damage a line or carry lines that mean    *)
(* nothing to the adapter; the caller may leave at any time.  What the     *)
(* channel and its readers do with the events is the module                *)
(* StreamPipeline.                                                         *)
(***************************************************************************)
EXTENDS Adapters

CONSTANTS ChatRequests,    \* the requests
          Completions(_),  \* what the provider of an adapter may answer with
          ErrorStatuses,   \* statuses other than 200
          RetryAfters,     \* Retry-After headers
          MaxAttempt,      \* the attempts a retry may be
          MaxNoise         \* bound on the meaningless lines

ASSUME CallAssumption == MaxAttempt \in Nat \ {0} /\ MaxNoise \in Nat

VARIABLES adapter,
          req,          \* the caller's request
          sent,         \* the request the provider gets
          completion,   \* what the provider answers with
          phase,        \* "new", "sent", "reading", and at the end "answered",
                        \* "failed" or "closed"
          rest,         \* lines of the stream still to come
          cut,          \* the stream was cut short or damaged
          noise,
          left,         \* the caller's context is done
          eventType, inputTokens, msgID,  \* what anthropic's reader remembers
          out,          \* events sent to the channel
          answer,       \* the translated response
          failure       \* the error and the wait it leads to

readerVars == <<eventType, inputTokens, msgID, out>>
callVars == <<adapter, req, sent, completion, phase, rest, cut, noise, left, readerVars,
              answer, failure>>

NoAnswer == [texts |-> <<>>, finish |-> <<>>, usage |-> <<>>]
NoFailure == [pe |-> OtherError, attempt |-> 0, wait |-> 0]
NoCompletion == [candidates |-> <<>>, reason |-> "", input |-> 0, output |-> 0]
Err == [id |-> "error", texts |-> <<>>, finish |-> <<>>, usage |-> <<>>]

CallInit ==
    /\ adapter \in {"openai", "anthropic", "google"}
    /\ req \in ChatRequests
    /\ sent = SendAsIs(req)
    /\ completion = NoCompletion
    /\ phase = "new" /\ rest = <<>> /\ cut = FALSE /\ noise = 0 /\ left = FALSE
    /\ eventType = "" /\ inputTokens = 0 /\ msgID = "" /\ out = <<>>
    /\ answer = NoAnswer /\ failure = NoFailure

-----------------------------------------------------------------------------
(* The provider's encodings.                                               *)

event(t) == [tag |-> "event", type |-> t]
data(body) == [tag |-> "data", body |-> body]

Total(c) == <<c.input, c.output, c.input + c.output>>

\* One chunk per piece, one with the finish reason, one with the usage, [DONE].
OpenAILines(c) ==
    LET chunk(texts, finish, usage) ==
            data([id |-> "msg", texts |-> texts, finish |-> finish, usage |-> usage])
        parts == c.candidates[1]
    IN  [i \in DOMAIN parts |-> chunk(<<Text(<<parts[i]>>)>>, <<"">>, <<>>)]
          \o <<chunk(<<<<>>>>, <<c.reason>>, <<>>), chunk(<<>>, <<>>, Total(c)),
               [tag |-> "done"]>>

\* message_start, a delta of its kind per piece, message_delta, message_stop: each is an
\* event line and a data line.
AnthropicLines(c) ==
    LET delta(p) == <<event("content_block_delta"), data([delta |-> p])>>
        parts == c.candidates[1]
    IN  <<event("message_start"), data([id |-> "msg", input |-> c.input]),
          event("content_block_start"), data([id |-> "block"])>>
          \o FlattenSeq([i \in DOMAIN parts |-> delta(parts[i])])
          \o <<event("message_delta"), data([reason |-> c.reason, output |-> c.output]),
               event("message_stop"), data([id |-> "stop"])>>

\* Chunks that list every candidate, with the usage so far; the last has the reason.
GoogleLines(c) ==
    LET n == Max({1} \cup {Len(c.candidates[i]) : i \in DOMAIN c.candidates})
        parts(i, k) == IF k <= Len(c.candidates[i]) THEN <<c.candidates[i][k]>> ELSE <<>>
        chunk(k) ==
            [candidates |-> [i \in DOMAIN c.candidates |->
                               [parts |-> parts(i, k),
                                reason |-> IF k = n THEN c.reason ELSE ""]],
             usage |-> IF k = n THEN Total(c) ELSE <<c.input, k, c.input + k>>]
    IN  [k \in 1 .. n |-> data(chunk(k))]

Lines(c) ==
    CASE adapter = "openai" -> OpenAILines(c)
      [] adapter = "anthropic" -> AnthropicLines(c)
      [] adapter = "google" -> GoogleLines(c)

\* The response to the same request without stream, translated.
Unary(c) ==
    CASE adapter = "openai" ->
           [texts |-> <<Text(c.candidates[1])>>, finish |-> <<c.reason>>, usage |-> Total(c)]
      [] adapter = "anthropic" ->
           translateResponseAnthropic([content |-> c.candidates[1], reason |-> c.reason,
                                       input |-> c.input, output |-> c.output])
      [] adapter = "google" ->
           translateResponseGoogle(
             [candidates |-> [i \in DOMAIN c.candidates |->
                                [parts |-> c.candidates[i], reason |-> c.reason]],
              usage |-> Total(c)])

-----------------------------------------------------------------------------
(* The call.                                                               *)

\* The caller disconnects, or the deadline of a call without stream passes.
Leave ==
    /\ phase \in {"sent", "reading"} /\ ~left
    /\ left' = TRUE
    /\ UNCHANGED <<adapter, req, sent, completion, phase, rest, cut, noise, readerVars,
                   answer, failure>>

Send ==
    /\ phase = "new"
    /\ sent' = CASE adapter = "openai" -> SendAsIs(req)
                 [] adapter = "anthropic" -> translateRequestAnthropic(req)
                 [] adapter = "google" -> translateRequestGoogle(req)
    /\ phase' = "sent"
    /\ UNCHANGED <<adapter, req, completion, rest, cut, noise, left, readerVars,
                   answer, failure>>

\* The attempt fails; if the error is retryable the decorator waits before the next.
Fail(pe) ==
    /\ phase' = "failed"
    /\ \E attempt \in 1 .. MaxAttempt : \E wait \in backoffDuration(attempt, pe) :
          failure' = [pe |-> pe, attempt |-> attempt,
                      wait |-> IF pe.retryable THEN wait ELSE 0]
    /\ UNCHANGED <<adapter, req, sent, completion, rest, cut, noise, left, readerVars,
                   answer>>

\* Do fails, or the body of a 200 does not decode.
CallFails == phase = "sent" /\ Fail(OtherError)

Refused(status, bodyType, header) ==
    /\ phase = "sent" /\ ~left
    /\ Fail(handleErrorResponse(adapter, status, bodyType, header))

ChatCompletion ==
    /\ phase = "sent" /\ ~req.stream /\ ~left
    /\ completion' \in Completions(adapter)
    /\ answer' = Unary(completion')
    /\ phase' = "answered"
    /\ UNCHANGED <<adapter, req, sent, rest, cut, noise, left, readerVars,
                   failure>>

ChatCompletionStream ==
    /\ phase = "sent" /\ req.stream /\ ~left
    /\ completion' \in Completions(adapter)
    /\ rest' = Lines(completion')
    /\ msgID' = IF adapter = "google" THEN "msg" ELSE ""
    /\ phase' = "reading"
    /\ UNCHANGED <<adapter, req, sent, cut, noise, left, eventType,
                   inputTokens, out, answer, failure>>

-----------------------------------------------------------------------------
(* The stream readers, one line at a time.                                 *)

Reading == phase = "reading" /\ ~left

Emit(chunk) == out' = Append(out, chunk) /\ UNCHANGED phase
Stop == phase' = "closed" /\ UNCHANGED out
SendErr == out' = Append(out, Err) /\ phase' = "closed"
Skip == UNCHANGED <<out, phase>>

\* A data line that does not decode ends the stream with an error.
ReadOpenAI(line, ok) ==
    /\ \/ line.tag = "done" /\ Stop
       \/ line.tag = "data" /\ ok /\ Emit(line.body)
       \/ line.tag = "data" /\ ~ok /\ SendErr
    /\ UNCHANGED <<eventType, inputTokens, msgID>>

\* The switch on the last "event:" line.
ReadAnthropicData(body) ==
    \/ /\ eventType = "message_start" /\ Skip
       /\ msgID' = body.id
       /\ inputTokens' = body.input
    \/ /\ eventType = "content_block_delta"
       /\ IF body.delta.type = "text"
          THEN Emit([id |-> msgID, texts |-> <<Text(<<body.delta>>)>>, finish |-> <<"">>,
                     usage |-> <<>>])
          ELSE Skip
       /\ UNCHANGED <<inputTokens, msgID>>
    \/ /\ eventType = "message_delta"
       /\ Emit([id |-> msgID, texts |-> <<<<>>>>, finish |-> <<mapStopReason(body.reason)>>,
                usage |-> <<inputTokens, body.output, inputTokens + body.output>>])
       /\ UNCHANGED <<inputTokens, msgID>>
    \/ eventType = "message_stop" /\ Stop /\ UNCHANGED <<inputTokens, msgID>>
    \/ eventType = "content_block_start" /\ Skip /\ UNCHANGED <<inputTokens, msgID>>

\* Only three event types are decoded.
ReadAnthropic(line, ok) ==
    \/ line.tag = "event" /\ eventType' = line.type /\ Skip /\ UNCHANGED <<inputTokens, msgID>>
    \/ /\ line.tag = "data" /\ UNCHANGED eventType
       /\ IF ok \/ eventType \notin {"message_start", "content_block_delta", "message_delta"}
          THEN ReadAnthropicData(line.body)
          ELSE SendErr /\ UNCHANGED <<inputTokens, msgID>>

ReadGoogle(line, ok) ==
    /\ IF ok THEN Emit(translateChunk(line.body, msgID)) ELSE SendErr
    /\ UNCHANGED <<eventType, inputTokens, msgID>>

Read(line, ok) ==
    \/ adapter = "openai" /\ ReadOpenAI(line, ok)
    \/ adapter = "anthropic" /\ ReadAnthropic(line, ok)
    \/ adapter = "google" /\ ReadGoogle(line, ok)

\* The next line of the stream, as it was sent or, if it carries data, damaged.
ReadLine(ok) ==
    /\ Reading /\ rest # <<>>
    /\ ok \/ Head(rest).tag = "data"
    /\ Read(Head(rest), ok)
    /\ rest' = Tail(rest)
    /\ cut' = (cut \/ ~ok)
    /\ UNCHANGED <<adapter, req, sent, completion, noise, left, answer, failure>>

\* A blank line, a comment, or for anthropic a whole event that is not in the switch.
ReadNoise ==
    /\ Reading /\ noise < MaxNoise
    /\ noise' = noise + 1
    /\ \/ UNCHANGED eventType
       \/ /\ adapter = "anthropic" /\ rest # <<>> /\ Head(rest).tag = "event"
          /\ eventType' = "ping"
    /\ UNCHANGED <<adapter, req, sent, completion, phase, rest, cut, left, inputTokens,
                   msgID, out, answer, failure>>

\* Mutant: anthropic's reader takes any end of the body for the end of the message.
BodyEndsAnywhere(kind) ==
    /\ Reading
    /\ IF kind = "eof" /\ adapter # "openai" THEN Stop ELSE SendErr
    /\ cut' = (cut \/ rest # <<>>)
    /\ rest' = <<>>
    /\ UNCHANGED <<adapter, req, sent, completion, noise, left, eventType, inputTokens,
                   msgID, answer, failure>>

\* The body ends, or reading it fails.  openai and anthropic have returned on their end
\* marker if there was one; google has none, and takes a clean end for the end.
BodyEnds(kind) ==
    /\ Reading
    /\ IF kind = "eof" /\ adapter = "google" THEN Stop ELSE SendErr
    /\ cut' = (cut \/ rest # <<>>)
    /\ rest' = <<>>
    /\ UNCHANGED <<adapter, req, sent, completion, noise, left, eventType, inputTokens,
                   msgID, answer, failure>>

\* case <-ctx.Done(), before the next line or while sending an event; or the body of the
\* cancelled request fails, and select has the choice of sending that error.
ReaderGivesUp ==
    /\ phase = "reading" /\ left
    /\ Stop \/ SendErr
    /\ UNCHANGED <<adapter, req, sent, completion, rest, cut, noise, left, eventType,
                   inputTokens, msgID, answer, failure>>

CallNext ==
    \/ Send \/ CallFails \/ ChatCompletion \/ ChatCompletionStream
    \/ \E status \in ErrorStatuses, type \in {"none", "own_type"}, header \in RetryAfters :
          Refused(status, type, header)
    \/ Leave \/ ReadNoise \/ ReaderGivesUp
    \/ \E ok \in BOOLEAN : ReadLine(ok)
    \/ \E kind \in {"eof", "error"} : BodyEnds(kind)

CallSpec == CallInit /\ [][CallNext]_callVars

-----------------------------------------------------------------------------
(* Properties.                                                             *)

\* What a client makes of the events: texts are concatenated, the last finish reason
\* and the last usage count.
Assembled ==
    LET chunks == SelectSeq(out, LAMBDA e : e # Err)
        textOf(i) == FlattenSeq([k \in DOMAIN chunks |->
                        IF i \in DOMAIN chunks[k].texts THEN chunks[k].texts[i] ELSE <<>>])
        last(values, none) == IF values = <<>> THEN none ELSE Last(values)
        finishOf(i) == last(SelectSeq([k \in DOMAIN chunks |->
                              IF i \in DOMAIN chunks[k].finish THEN chunks[k].finish[i] ELSE ""],
                            LAMBDA f : f # ""), "")
    IN  [texts |-> [i \in DOMAIN completion.candidates |-> textOf(i)],
         finish |-> [i \in DOMAIN completion.candidates |-> finishOf(i)],
         usage |-> last(SelectSeq([k \in DOMAIN chunks |-> chunks[k].usage],
                        LAMBDA u : u # <<>>), <<>>)]

\* A stream that an adapter closes without an error event gives the client the answer it
\* would have had without stream: text of every choice, finish reason and usage, whatever
\* other lines came in between and wherever the body ended.  The exceptions are a caller
\* that left, and google's stream cut at a clean end of the body.
CleanCloseIsWhole ==
    phase = "closed" /\ ~left /\ (adapter = "google" => ~cut) /\ Err \notin Range(out) =>
        Assembled = Unary(completion)

\* However a stream breaks, what was sent before it did is a beginning of the answer, all
\* of it under one message id, and the finish reason is not sent before the whole text.
BrokenStreamIsPrefix ==
    /\ \A i \in DOMAIN completion.candidates :
          /\ IsPrefix(Assembled.texts[i], Text(completion.candidates[i]))
          /\ Assembled.finish[i] # "" => Assembled.texts[i] = Text(completion.candidates[i])
    /\ \A k \in DOMAIN out : out[k] = Err \/ out[k].id = "msg"

\* The k-th turn the provider reads is the caller's k-th message that is not a system
\* message, in the provider's name for the role; the system messages all arrive, in
\* order.  No parameter is made up but anthropic's max_tokens, and none is lost but those
\* an adapter has no field for: n for anthropic, and for anthropic and google the two
\* penalties and the user.
ConversationKept ==
    phase # "new" =>
        LET others(i) == Cardinality({j \in 1 .. i : req.messages[j].role # "system"})
            systems(i) == i - others(i)
            role(r) == IF r = "assistant" /\ adapter = "google" THEN "model" ELSE r
            unsupported ==
                (IF adapter = "anthropic" THEN {"n"} ELSE {}) \cup
                (IF adapter = "openai" THEN {}
                 ELSE {"presence_penalty", "frequency_penalty", "user"})
        IN  /\ IF adapter = "openai" THEN sent.messages = req.messages
               ELSE \A i \in DOMAIN req.messages :
                       LET m == req.messages[i] IN
                       IF m.role = "system" THEN sent.system[systems(i)] = m.content
                       ELSE sent.messages[others(i)] =
                                [role |-> role(m.role), content |-> m.content]
            /\ req.params \ sent.params \subseteq unsupported
            /\ sent.params \ req.params \subseteq
                  (IF adapter = "anthropic" THEN {"max_tokens"} ELSE {})

\* Before a retry the decorator waits as long as a 429 asks for, and otherwise between
\* half of and the whole backoff: doubled per attempt, at most maxBackoff.  This holds as
\* long as the doubled backoff is a time.Duration.
BackoffHonest ==
    LET base == IF RetryBackoff <= 0 THEN DefaultBackoff ELSE RetryBackoff
        full == base * 2 ^ (failure.attempt - 1)
        d == IF full > maxBackoff THEN maxBackoff ELSE full
    IN  phase = "failed" /\ failure.pe.retryable =>
            IF failure.pe.status = 429 /\ failure.pe.retryAfter > 0
            THEN failure.wait >= failure.pe.retryAfter
            ELSE full < MaxDuration => failure.wait >= d \div 2 /\ failure.wait <= d

-----------------------------------------------------------------------------
(* A statement of a comment that the code does not keep.                   *)

\* health_decorator.go:193-194: "For computed backoffs it applies random jitter in
\* [0.5, 1.0) of the base duration".
BackoffJittered ==
    phase = "failed" /\ failure.pe.retryable /\ failure.pe.retryAfter <= 0 =>
        failure.wait > 0
=============================================================================
