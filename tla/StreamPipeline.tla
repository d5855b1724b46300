--------------------------- MODULE StreamPipeline ---------------------------
(***************************************************************************)
(* One streamed chat completion: the provider adapter's goroutine (openai, *)
(* anthropic and google ChatCompletionStream), the health tracker's        *)
(* goroutine (trackStreamHealth) and the handler (handleStream), joined by *)
(* two buffered channels and the request's context.                        *)
(*                                                                         *)
(* An event is the number of a chunk, or Err.  Lines that produce no event *)
(* (comments, pings, other event types) are stuttering steps.  Where a     *)
(* select has several ready cases Go picks any of them, and so does the    *)
(* model.                                                                  *)
(***************************************************************************)
EXTENDS Integers, Sequences

CONSTANTS Cap,        \* the capacity of both channels (8 in the code)
          MaxChunks   \* bound on the chunks the provider sends

ASSUME PipelineAssumption == Cap \in Nat \ {0} /\ MaxChunks \in Nat

VARIABLES ctx,        \* the request's context: "live", done since the client "left",
                      \* or done since the handler "returned"
          upstream,   \* the provider's side: "open", "ended", "broken"
          emitted,    \* chunks read from it
          adapter,    \* the adapter's goroutine
          held,       \* the event it is sending
          in,         \* its channel
          tracker,    \* the tracker's goroutine
          passing,    \* the event it is forwarding
          sawError,
          health,     \* what it recorded: "none", "success", "failure"
          out,        \* its channel
          handler,    \* handleStream
          written,    \* the chunks written to the client
          drained,    \* the handler stopped writing and drained its channel
          sentDone    \* the [DONE] sentinel was written

upstreamVars == <<upstream, emitted>>
adapterVars == <<adapter, held, in>>
trackerVars == <<tracker, passing, sawError, health, out>>
handlerVars == <<handler, written, drained, sentDone>>
vars == <<ctx, upstreamVars, adapterVars, trackerVars, handlerVars>>

Done == ctx # "live"

Err == 0
Events == 0 .. MaxChunks

\* Types; neither channel ever holds more than its capacity.
TypeOK ==
    /\ ctx \in {"live", "left", "returned"}
    /\ upstream \in {"open", "ended", "broken"}
    /\ emitted \in 0 .. MaxChunks
    /\ adapter \in {"scan", "send", "sendLast", "closed"}
    /\ held \in Events
    /\ in \in Seq(Events) /\ Len(in) <= Cap
    /\ tracker \in {"recv", "send", "closed"}
    /\ passing \in Events
    /\ sawError \in BOOLEAN
    /\ health \in {"none", "success", "failure"}
    /\ out \in Seq(Events) /\ Len(out) <= Cap
    /\ handler \in {"recv", "drain", "refuse", "done"}
    /\ written \in Seq(1 .. MaxChunks)
    /\ drained \in BOOLEAN /\ sentDone \in BOOLEAN

\* The adapter has answered 200 and both goroutines are started.  The handler refuses
\* a writer that cannot flush, but drains the stream all the same.
Init ==
    /\ ctx = "live"
    /\ upstream = "open" /\ emitted = 0
    /\ adapter = "scan" /\ held = Err /\ in = <<>>
    /\ tracker = "recv" /\ passing = Err /\ sawError = FALSE /\ health = "none" /\ out = <<>>
    /\ handler \in {"recv", "refuse"} /\ written = <<>>
    /\ drained = (handler = "refuse") /\ sentDone = FALSE

\* The client disconnects.
Cancel ==
    /\ ctx = "live"
    /\ ctx' = "left"
    /\ UNCHANGED <<upstreamVars, adapterVars, trackerVars, handlerVars>>

-----------------------------------------------------------------------------
(* The adapter.                                                            *)

\* Scan returned a chunk and the context is not done.
ScanChunk ==
    /\ adapter = "scan" /\ upstream = "open" /\ ~Done
    /\ emitted < MaxChunks
    /\ emitted' = emitted + 1
    /\ held' = emitted + 1
    /\ adapter' = "send"
    /\ UNCHANGED <<ctx, upstream, in, trackerVars, handlerVars>>

\* The end marker, or for google the end of the body: the stream is complete.
ScanEnd ==
    /\ adapter = "scan" /\ upstream = "open" /\ ~Done
    /\ upstream' = "ended"
    /\ adapter' = "closed"
    /\ UNCHANGED <<ctx, emitted, held, in, trackerVars, handlerVars>>

\* A line that does not decode, a read error, or an end of the body where an end
\* marker was due: the error is the last event.
ScanBroken ==
    /\ adapter = "scan" /\ upstream = "open" /\ ~Done
    /\ upstream' = "broken"
    /\ adapter' = "sendLast" /\ held' = Err
    /\ UNCHANGED <<ctx, emitted, in, trackerVars, handlerVars>>

\* The context is done: a line already read is dropped and the goroutine returns, or
\* the read itself fails and the error is offered to the channel.
ScanCancelled ==
    /\ adapter = "scan" /\ Done
    /\ \/ adapter' = "closed" /\ UNCHANGED held
       \/ adapter' = "sendLast" /\ held' = Err
    /\ UNCHANGED <<ctx, upstreamVars, in, trackerVars, handlerVars>>

\* case ch <- event
AdapterSend ==
    /\ adapter \in {"send", "sendLast"}
    /\ Len(in) < Cap
    /\ in' = Append(in, held)
    /\ adapter' = IF adapter = "send" THEN "scan" ELSE "closed"
    /\ UNCHANGED <<ctx, upstreamVars, held, trackerVars, handlerVars>>

\* Mutant: the send does not select on the context.
AdapterGivesUpNever ==
    /\ adapter \in {"send", "sendLast"} /\ Done /\ Len(in) < Cap
    /\ adapter' = "closed"
    /\ UNCHANGED <<ctx, upstreamVars, held, in, trackerVars, handlerVars>>

\* case <-ctx.Done()
AdapterGivesUp ==
    /\ adapter \in {"send", "sendLast"} /\ Done
    /\ adapter' = "closed"
    /\ UNCHANGED <<ctx, upstreamVars, held, in, trackerVars, handlerVars>>

-----------------------------------------------------------------------------
(* trackStreamHealth.                                                      *)

\* Mutant: an error event does not count against the provider.
TrackerRecvBlind ==
    /\ tracker = "recv" /\ in # <<>>
    /\ passing' = Head(in)
    /\ in' = Tail(in)
    /\ tracker' = "send"
    /\ UNCHANGED <<ctx, upstreamVars, adapter, held, sawError, health, out, handlerVars>>

TrackerRecv ==
    /\ tracker = "recv" /\ in # <<>>
    /\ passing' = Head(in)
    /\ in' = Tail(in)
    /\ sawError' = (sawError \/ Head(in) = Err)
    /\ tracker' = "send"
    /\ UNCHANGED <<ctx, upstreamVars, adapter, held, health, out, handlerVars>>

\* Mutant: an event that finds the channel full is dropped.
TrackerSendLossy ==
    /\ tracker = "send"
    /\ out' = IF Len(out) < Cap THEN Append(out, passing) ELSE out
    /\ tracker' = "recv"
    /\ UNCHANGED <<ctx, upstreamVars, adapterVars, passing, sawError, health, handlerVars>>

\* case out <- evt
TrackerSend ==
    /\ tracker = "send" /\ Len(out) < Cap
    /\ out' = Append(out, passing)
    /\ tracker' = "recv"
    /\ UNCHANGED <<ctx, upstreamVars, adapterVars, passing, sawError, health, handlerVars>>

\* case <-ctx.Done(): nothing is recorded, and the adapter's channel is abandoned.
TrackerGivesUp ==
    /\ tracker = "send" /\ Done
    /\ tracker' = "closed"
    /\ UNCHANGED <<ctx, upstreamVars, adapterVars, passing, sawError, health, out,
                   handlerVars>>

\* The adapter's channel is closed and empty: record the verdict, then close out.
TrackerCloses ==
    /\ tracker = "recv" /\ in = <<>> /\ adapter = "closed"
    /\ health' = IF sawError THEN "failure" ELSE "success"
    /\ tracker' = "closed"
    /\ UNCHANGED <<ctx, upstreamVars, adapterVars, passing, sawError, out, handlerVars>>

-----------------------------------------------------------------------------
(* handleStream.                                                           *)

Receive == out # <<>> /\ out' = Tail(out)

\* A chunk is written to the client and flushed.
WriteChunk ==
    /\ handler = "recv" /\ Receive /\ Head(out) # Err
    /\ written' = Append(written, Head(out))
    /\ UNCHANGED <<ctx, upstreamVars, adapterVars, tracker, passing, sawError, health,
                   handler, drained, sentDone>>

\* An error event, or a chunk that cannot be marshalled: the rest is drained.
StopWriting ==
    /\ handler = "recv" /\ Receive
    /\ handler' = "drain" /\ drained' = TRUE
    /\ UNCHANGED <<ctx, upstreamVars, adapterVars, tracker, passing, sawError, health,
                   written, sentDone>>

DrainOne ==
    /\ handler \in {"drain", "refuse"} /\ Receive
    /\ UNCHANGED <<ctx, upstreamVars, adapterVars, tracker, passing, sawError, health,
                   handlerVars>>

\* Mutant: the handler returns with events still in its channel.
ReturnEarly ==
    /\ handler # "done" /\ tracker = "closed"
    /\ sentDone' = (handler # "refuse" /\ ~Done)
    /\ handler' = "done"
    /\ ctx' = IF Done THEN ctx ELSE "returned"
    /\ UNCHANGED <<upstreamVars, adapterVars, trackerVars, written, drained>>

\* The channel is closed and empty: [DONE] unless the client left or was refused.  The
\* server ends the request's context when the handler returns.
Return ==
    /\ handler # "done" /\ out = <<>> /\ tracker = "closed"
    /\ sentDone' = (handler # "refuse" /\ ~Done)
    /\ handler' = "done"
    /\ ctx' = IF Done THEN ctx ELSE "returned"
    /\ UNCHANGED <<upstreamVars, adapterVars, trackerVars, written, drained>>

-----------------------------------------------------------------------------

Adapter == ScanCancelled \/ AdapterSend \/ AdapterGivesUp
Tracker == TrackerRecv \/ TrackerSend \/ TrackerGivesUp \/ TrackerCloses
Handler == WriteChunk \/ StopWriting \/ DrainOne \/ Return

Next == Cancel \/ ScanChunk \/ ScanEnd \/ ScanBroken \/ Adapter \/ Tracker \/ Handler

Spec == Init /\ [][Next]_vars

\* The three goroutines are scheduled.  Nothing makes the provider send, nor the client
\* leave: the adapter's read has no deadline of its own.
Fairness == WF_vars(Adapter) /\ WF_vars(Tracker) /\ WF_vars(Handler)

FairSpec == Spec /\ Fairness

-----------------------------------------------------------------------------
(* Properties.                                                             *)

\* Through both channels and for every speed of the three goroutines, the client is sent
\* the provider's chunks in order, without gap or repetition; and all of them, with the
\* [DONE] sentinel, if the provider ended the stream and nobody gave up on it.
Intact ==
    /\ \A i \in DOMAIN written : written[i] = i
    /\ handler = "done" /\ ctx = "returned" /\ upstream = "ended" /\ ~drained =>
          Len(written) = emitted /\ sentDone

\* A stream whose client stayed is recorded by trackStreamHealth, before its channel
\* closes, as a success exactly if the provider ended it.
VerdictTrue ==
    tracker = "closed" /\ ctx # "left" =>
        health = IF upstream = "ended" THEN "success" ELSE "failure"

\* Whatever is in the channels, the end of the stream on either side, the client's or
\* the provider's, ends both goroutines and the handler: nobody is left waiting on
\* a channel that no one reads or writes any more.
AllReturn ==
    Done \/ upstream # "open" ~>
        adapter = "closed" /\ tracker = "closed" /\ handler = "done"

Contract == INSTANCE StreamContract WITH
    delivered <- Len(written),
    end <- IF handler # "done" THEN "open"
           ELSE IF ctx = "returned" /\ upstream = "ended" /\ ~drained THEN "complete"
           ELSE "cut"

\* The pipeline implements the contract of a streamed completion.
ImplementsContract == Contract!ContractSpec

-----------------------------------------------------------------------------
(* A statement of a comment that the code does not keep.                   *)

\* health_decorator.go:152-153: "Context cancellation (e.g. client disconnect) is not a
\* provider fault, so we intentionally skip recording health."
DisconnectNotRecorded ==
    [][ctx = "left" /\ upstream = "open" => health' = health]_vars
=============================================================================
