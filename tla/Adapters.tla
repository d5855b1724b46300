------------------------------ MODULE Adapters ------------------------------
(***************************************************************************)
(* What the openai, anthropic and google adapters translate: requests,     *)
(* responses, stream chunks and error answers; and how long the retry      *)
(* decorator waits after an error.                                         *)
(*                                                                         *)
(* A text is a sequence of pieces, so that concatenation is visible.  An   *)
(* answer, and a chunk of one, lists the text and the finish reason of     *)
(* each choice by its index, and the usage as prompt, completion and total *)
(* tokens; "" and <<>> are a reason and a usage that are absent.           *)
(***************************************************************************)
EXTENDS Integers, Sequences, SequencesExt

CONSTANTS RetryBackoff,   \* retry_backoff, in ticks
          DefaultBackoff, \* one second
          maxBackoff,     \* thirty seconds
          MaxDuration,    \* one more than the longest time.Duration
          JitterSteps     \* how finely rand is sampled

ASSUME BackoffAssumption ==
    /\ RetryBackoff \in Int /\ DefaultBackoff \in Nat \ {0}
    /\ maxBackoff \in Nat \ {0} /\ MaxDuration \in Nat /\ MaxDuration > maxBackoff
    /\ JitterSteps \in Nat \ {0}

-----------------------------------------------------------------------------
(* Requests.                                                               *)

Contents(messages) == [i \in DOMAIN messages |-> messages[i].content]

systemParts(messages) == Contents(SelectSeq(messages, LAMBDA m : m.role = "system"))

turns(messages) == SelectSeq(messages, LAMBDA m : m.role # "system")

\* openai: the request as it is.
SendAsIs(req) == [system |-> <<>>, messages |-> req.messages, params |-> req.params]

\* Mutant: a later system message replaces the earlier ones.
translateRequestAnthropicLastSystem(req) ==
    [system |-> IF systemParts(req.messages) = <<>> THEN <<>>
                ELSE <<Last(systemParts(req.messages))>>,
     messages |-> turns(req.messages),
     params |-> (req.params \cap {"temperature", "top_p", "stop"}) \cup {"max_tokens"}]

\* anthropic: system messages become the system field; max_tokens is always sent, and of
\* the other parameters three.
translateRequestAnthropic(req) ==
    [system |-> systemParts(req.messages),
     messages |-> turns(req.messages),
     params |-> (req.params \cap {"temperature", "top_p", "stop"}) \cup {"max_tokens"}]

\* google: the assistant is called "model"; a generationConfig carries five parameters.
translateRequestGoogle(req) ==
    [system |-> systemParts(req.messages),
     messages |-> [i \in DOMAIN turns(req.messages) |->
                     [turns(req.messages)[i] EXCEPT
                        !.role = IF @ = "assistant" THEN "model" ELSE @]],
     params |-> req.params \cap {"temperature", "top_p", "max_tokens", "stop", "n"}]

-----------------------------------------------------------------------------
(* Responses.                                                              *)

mapStopReason(reason) ==
    CASE reason \in {"end_turn", "stop_sequence"} -> "stop"
      [] reason = "max_tokens" -> "length"
      [] OTHER -> reason

mapFinishReason(reason) ==
    CASE reason = "MAX_TOKENS" -> "length"
      [] reason \in {"SAFETY", "RECITATION"} -> "content_filter"
      [] OTHER -> "stop"

\* The text of anthropic's content blocks, of which only some are text, or of google's
\* parts, whose text field is empty in the others.
Text(parts) ==
    LET texts == SelectSeq(parts, LAMBDA p : p.type = "text")
    IN  [i \in DOMAIN texts |-> texts[i].text]

translateResponseAnthropic(resp) ==
    [texts |-> <<Text(resp.content)>>,
     finish |-> <<mapStopReason(resp.reason)>>,
     usage |-> <<resp.input, resp.output, resp.input + resp.output>>]

translateResponseGoogle(resp) ==
    [texts |-> [i \in DOMAIN resp.candidates |-> Text(resp.candidates[i].parts)],
     finish |-> [i \in DOMAIN resp.candidates |->
                   mapFinishReason(resp.candidates[i].reason)],
     usage |-> IF resp.usage = <<>> THEN <<0, 0, 0>> ELSE resp.usage]

\* Mutant: a chunk without a finish reason is given the default one.
translateChunkAlwaysFinishes(resp, id) ==
    [id |-> id,
     texts |-> [i \in DOMAIN resp.candidates |-> Text(resp.candidates[i].parts)],
     finish |-> [i \in DOMAIN resp.candidates |->
                   mapFinishReason(resp.candidates[i].reason)],
     usage |-> resp.usage]

translateChunk(resp, id) ==
    [id |-> id,
     texts |-> [i \in DOMAIN resp.candidates |-> Text(resp.candidates[i].parts)],
     finish |-> [i \in DOMAIN resp.candidates |->
                   IF resp.candidates[i].reason = "" THEN ""
                   ELSE mapFinishReason(resp.candidates[i].reason)],
     usage |-> resp.usage]

-----------------------------------------------------------------------------
(* Errors.                                                                 *)

\* A Retry-After header is absent, a number of seconds, a date that many ticks away, or
\* something else.
ParseRetryAfter(header) ==
    CASE header.form = "seconds" -> header.value
      [] header.form = "date" /\ header.value > 0 -> header.value
      [] OTHER -> 0

\* google's adapter also knows 403.
errorTypeFromStatus(adapter, status) ==
    CASE status = 401 \/ (status = 403 /\ adapter = "google") -> "authentication_error"
      [] status = 429 -> "rate_limit_error"
      [] status = 400 -> "invalid_request_error"
      [] OTHER -> "upstream_error"

\* A status other than 200; with the type of the error in the body, if it decodes
\* to one ("none").
handleErrorResponse(adapter, status, bodyType, header) ==
    [status |-> status,
     retryable |-> status = 429 \/ status >= 500,
     retryAfter |-> ParseRetryAfter(header),
     type |-> IF bodyType # "none" THEN bodyType ELSE errorTypeFromStatus(adapter, status)]

\* Any other error: no ProviderError.
OtherError == [status |-> 0, retryable |-> FALSE, retryAfter |-> 0, type |-> "upstream_error"]

\* The conversion of a float64: out of range it is what the platform makes of it.
ToDuration(ticks) == IF ticks < MaxDuration THEN {ticks} ELSE {MaxDuration - 1, -MaxDuration}

\* Mutant: the cap is applied to the base only.
backoffDurationUncapped(attempt, pe) ==
    IF pe.status = 429 /\ pe.retryAfter > 0 THEN {pe.retryAfter}
    ELSE LET base == IF RetryBackoff <= 0 THEN DefaultBackoff ELSE RetryBackoff
         IN  {(d * (JitterSteps + j)) \div (2 * JitterSteps) :
                d \in ToDuration(base * 2 ^ (attempt - 1)), j \in 0 .. JitterSteps - 1}

\* The waits that may precede the given attempt after pe.
backoffDuration(attempt, pe) ==
    IF pe.status = 429 /\ pe.retryAfter > 0 THEN {pe.retryAfter}
    ELSE LET base == IF RetryBackoff <= 0 THEN DefaultBackoff ELSE RetryBackoff
             capped(d) == IF d > maxBackoff THEN maxBackoff ELSE d
         IN  {(capped(d) * (JitterSteps + j)) \div (2 * JitterSteps) :
                d \in ToDuration(base * 2 ^ (attempt - 1)), j \in 0 .. JitterSteps - 1}
=============================================================================
