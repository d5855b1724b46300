---------------------------- MODULE MCSequential ----------------------------
(***************************************************************************)
(* The parts that run in one goroutine, for TLC: a behaviour is one call   *)
(* of an adapter (ProviderCall), one pick of a strategy (StrategyCheck) or *)
(* one response through the capturing writer (UsageCapture).               *)
(***************************************************************************)
EXTENDS ProviderCall, StrategyCheck, UsageCapture

VARIABLE part   \* which of the three; never changes

MCWeights == -1 .. 3
MCSizes == 1 .. 2
MCStatuses == {201, 400}

message(r, c) == [role |-> r, content |-> c]

MCParams == {"temperature", "top_p", "n", "stop", "max_tokens", "presence_penalty",
             "frequency_penalty", "user"}

MCRequests ==
    LET roles == {"system", "user", "assistant"}
        lists == UNION {[1 .. n -> roles] : n \in {1, 3}}
        numbered(l) == [i \in DOMAIN l |-> message(l[i], i)]
    IN  [messages : {numbered(l) : l \in lists}, params : {{}, {"n", "stop"}, MCParams},
         stream : {FALSE}]
          \cup [messages : {<<message("user", 1)>>}, params : {{}}, stream : {TRUE}]

MCReasons(a) ==
    CASE a = "openai" -> {"stop", "length"}
      [] a = "anthropic" -> {"end_turn", "max_tokens", "tool_use"}
      [] a = "google" -> {"STOP", "MAX_TOKENS", "SAFETY", "OTHER"}

MCCompletions(a) ==
    LET parts == UNION {[1 .. n -> {"text", "other"}] : n \in 0 .. 3}
        numbered(l) == [i \in DOMAIN l |-> [type |-> l[i], text |-> i]]
        texts == {numbered(l) : l \in parts}
        choices == {<<t>> : t \in texts} \cup
                   (IF a = "google" THEN {<<t, u>> : t \in texts, u \in texts} ELSE {})
    IN  [candidates : choices, reason : MCReasons(a), input : {2}, output : {3}]

MCRetryAfters ==
    [form : {"seconds"}, value : {-1, 0, 9}] \cup [form : {"date"}, value : {-1, 5}]
        \cup [form : {"none"}, value : {0}]

\* The other two parts stay at one of their initial states.
NoCall == adapter = "openai" /\ (req = CHOOSE r \in ChatRequests : TRUE) /\ CallInit

NoPick ==
    /\ strategy = "priority"
    /\ cands = <<CHOOSE c \in Candidate("priority") : TRUE>>
    /\ StrategyInit

NoCapture == ct = "json" /\ usage = TRUE /\ CaptureInit

MCInit ==
    \/ part = "call" /\ CallInit /\ NoPick /\ NoCapture
    \/ part = "pick" /\ NoCall /\ StrategyInit /\ NoCapture
    \/ part = "capture" /\ NoCall /\ NoPick /\ CaptureInit

MCNext ==
    \/ part = "call" /\ CallNext /\ UNCHANGED <<part, strategyVars, captureVars>>
    \/ part = "pick" /\ Select /\ UNCHANGED <<part, callVars, captureVars>>
    \/ part = "capture" /\ CaptureNext /\ UNCHANGED <<part, callVars, strategyVars>>

MCSpec == MCInit /\ [][MCNext]_<<part, callVars, strategyVars, captureVars>>
=============================================================================
