------------------------ MODULE StreamPipelineProofs ------------------------
(***************************************************************************)
(* Intact and VerdictTrue, and that the pipeline implements                *)
(* StreamContract, for every capacity of the channels and every number of  *)
(* chunks.                                                                 *)
(*                                                                         *)
(* The events between provider and client are in four places: the channel  *)
(* out, the tracker's hand, the channel in and the adapter's hand.  Until  *)
(* the handler begins to drain, an event's number is its distance from the *)
(* chunks written, or it is Err.                                           *)
(***************************************************************************)
EXTENDS StreamPipeline, TLAPS

Forwarded == Len(written) + Len(out)
Taken == Forwarded + (IF tracker = "send" THEN 1 ELSE 0)
Sent == Taken + Len(in)

\* The events of s follow the n-th.
Follow(s, n) == \A i \in DOMAIN s : (s[i] = n + i \/ s[i] = Err) /\ s[i] <= emitted

\* Who may be where; with a live context nobody has given up.
Control ==
    /\ ctx = "returned" => handler = "done"
    /\ handler = "done" => ctx # "live" /\ tracker = "closed" /\ out = <<>>
    /\ handler = "recv" => ~drained
    /\ handler \in {"drain", "refuse"} => drained
    /\ upstream = "ended" => adapter = "closed"
    /\ upstream = "broken" => adapter \in {"sendLast", "closed"}
    /\ adapter = "sendLast" => held = Err
    /\ adapter = "send" => held # Err
    /\ ctx = "live" /\ adapter = "sendLast" => upstream = "broken"
    /\ ctx = "live" /\ adapter = "closed" => upstream # "open"
    /\ ctx = "live" /\ tracker = "closed" => adapter = "closed" /\ in = <<>>

InOrder ==
    /\ \A i \in DOMAIN written : written[i] = i
    /\ ~drained => Follow(out, Len(written))
    /\ ~drained /\ tracker = "send" =>
          (passing = Forwarded + 1 \/ passing = Err) /\ passing <= emitted
    /\ ~drained /\ tracker # "closed" => Follow(in, Taken)
    /\ ~drained /\ tracker # "closed" /\ adapter = "scan" => emitted = Sent
    /\ ~drained /\ tracker # "closed" /\ adapter = "send" => emitted = Sent + 1 /\ held = emitted

NothingLost == ctx = "live" /\ ~drained /\ upstream = "ended" => emitted = Sent

Whole ==
    handler = "done" /\ ctx = "returned" /\ upstream = "ended" /\ ~drained =>
        Len(written) = emitted /\ sentDone

\* An error event is in the pipeline or was seen exactly if the provider's side broke.
ErrorsSeen ==
    /\ ctx = "live" /\ upstream # "broken" => ~sawError /\ \A i \in DOMAIN in : in[i] # Err
    /\ ctx = "live" /\ upstream = "broken" =>
          adapter = "sendLast" \/ sawError \/ \E i \in DOMAIN in : in[i] = Err

Inv == TypeOK /\ Control /\ InOrder /\ NothingLost /\ Whole /\ ErrorsSeen /\ VerdictTrue

-----------------------------------------------------------------------------
(* Sequences.                                                              *)

\* A channel send.
LEMMA AppendFacts ==
    ASSUME NEW S, NEW s \in Seq(S), NEW e \in S
    PROVE  /\ Append(s, e) \in Seq(S) /\ Len(Append(s, e)) = Len(s) + 1
           /\ DOMAIN Append(s, e) = 1 .. Len(s) + 1 /\ DOMAIN s = 1 .. Len(s)
           /\ \A i \in 1 .. Len(s) : Append(s, e)[i] = s[i]
           /\ Append(s, e)[Len(s) + 1] = e
  OBVIOUS

\* A channel receive.
LEMMA TailFacts ==
    ASSUME NEW S, NEW s \in Seq(S), s # <<>>
    PROVE  /\ Tail(s) \in Seq(S) /\ Len(Tail(s)) = Len(s) - 1 /\ Len(s) \in Nat \ {0}
           /\ DOMAIN Tail(s) = 1 .. Len(s) - 1 /\ DOMAIN s = 1 .. Len(s)
           /\ \A i \in 1 .. Len(s) - 1 : Tail(s)[i] = s[i + 1]
           /\ Head(s) = s[1] /\ Head(s) \in S
  OBVIOUS

-----------------------------------------------------------------------------
(* The invariant.                                                          *)

\* The channels are empty at the start.
LEMMA InitInv == Init => Inv
  <1> SUFFICES ASSUME Init PROVE Inv OBVIOUS
  <1> USE PipelineAssumption DEF Init
  <1>1. /\ Len(in) = 0 /\ Len(out) = 0 /\ Len(written) = 0
        /\ DOMAIN in = {} /\ DOMAIN out = {} /\ DOMAIN written = {}
        OBVIOUS
  <1>2. TypeOK
    <2>1. drained \in BOOLEAN OBVIOUS
    <2>2. in \in Seq(Events) /\ out \in Seq(Events) /\ written \in Seq(1 .. MaxChunks) OBVIOUS
    <2>3. /\ emitted \in 0 .. MaxChunks /\ held \in Events /\ passing \in Events
          /\ Len(in) <= Cap /\ Len(out) <= Cap
          BY <1>1 DEF Events, Err
    <2> QED BY <2>1, <2>2, <2>3, Zenon DEF TypeOK
  <1>3. Control BY DEF Control, Err
  <1>4. InOrder BY <1>1 DEF InOrder, Follow, Forwarded, Taken, Sent
  <1>5. NothingLost /\ Whole BY DEF NothingLost, Whole
  <1>6. ErrorsSeen /\ VerdictTrue BY <1>1 DEF ErrorsSeen, VerdictTrue
  <1> QED BY <1>2, <1>3, <1>4, <1>5, <1>6 DEF Inv

\* A client that leaves changes no event.
LEMMA CancelInv == Inv /\ Cancel => Inv'
  <1> SUFFICES ASSUME Inv, Cancel PROVE Inv' OBVIOUS
  <1> USE PipelineAssumption DEF Inv, Cancel, upstreamVars, adapterVars, trackerVars, handlerVars
  <1>1. TypeOK' BY DEF TypeOK, Events, Err
  <1>2. Control' BY DEF TypeOK, Control, Events, Err
  <1>3. InOrder' BY DEF TypeOK, Control, InOrder, Follow, Forwarded, Taken, Sent, Events, Err
  <1>4. NothingLost'
        BY DEF TypeOK, Control, InOrder, NothingLost, Forwarded, Taken, Sent
  <1>5. Whole' BY DEF TypeOK, Control, Whole
  <1>6. ErrorsSeen' BY DEF TypeOK, Control, ErrorsSeen, Events, Err
  <1>7. VerdictTrue' BY DEF TypeOK, Control, ErrorsSeen, VerdictTrue
  <1> QED BY <1>1, <1>2, <1>3, <1>4, <1>5, <1>6, <1>7

\* A chunk takes the next number.
LEMMA ScanChunkInv == Inv /\ ScanChunk => Inv'
  <1> SUFFICES ASSUME Inv, ScanChunk PROVE Inv' OBVIOUS
  <1> USE PipelineAssumption DEF Inv, ScanChunk, trackerVars, handlerVars, Done
  <1>1. TypeOK' BY DEF TypeOK, Events, Err
  <1>2. Control' BY DEF TypeOK, Control, Events, Err
  <1>3. InOrder'
    <2>1. (\A i \in DOMAIN in : in[i] \in Nat) /\ (\A i \in DOMAIN out : out[i] \in Nat)
      <3>1. in \in Seq(Nat) /\ out \in Seq(Nat) BY DEF TypeOK, Events
      <3> QED BY <3>1
    <2>2. emitted' = emitted + 1 /\ emitted \in Nat BY DEF TypeOK
    <2>3. Forwarded' = Forwarded /\ Taken' = Taken /\ Sent' = Sent BY DEF Sent, Taken, Forwarded
    <2>4. ~drained => Follow(out, Len(written))' BY <2>1, <2>2 DEF InOrder, Follow
    <2>5. ~drained /\ tracker # "closed" => Follow(in, Taken)'
          BY <2>1, <2>2, <2>3 DEF InOrder, Follow
    <2> QED BY <2>2, <2>3, <2>4, <2>5 DEF TypeOK, InOrder, Events
  <1>4. NothingLost'
        BY DEF TypeOK, Control, InOrder, NothingLost, Forwarded, Taken, Sent
  <1>5. Whole' BY DEF TypeOK, Control, Whole
  <1>6. ErrorsSeen' BY DEF TypeOK, Control, ErrorsSeen, Events, Err
  <1>7. VerdictTrue' BY DEF TypeOK, Control, ErrorsSeen, VerdictTrue
  <1> QED BY <1>1, <1>2, <1>3, <1>4, <1>5, <1>6, <1>7

\* At the provider's end every chunk is in the pipeline.
LEMMA ScanEndInv == Inv /\ ScanEnd => Inv'
  <1> SUFFICES ASSUME Inv, ScanEnd PROVE Inv' OBVIOUS
  <1> USE PipelineAssumption DEF Inv, ScanEnd, trackerVars, handlerVars, Done
  <1>1. TypeOK' BY DEF TypeOK, Events, Err
  <1>2. Control' BY DEF TypeOK, Control, Events, Err
  <1>3. InOrder' BY DEF TypeOK, Control, InOrder, Follow, Forwarded, Taken, Sent, Events, Err
  <1>4. NothingLost'
        BY DEF TypeOK, Control, InOrder, NothingLost, Forwarded, Taken, Sent
  <1>5. Whole' BY DEF TypeOK, Control, Whole
  <1>6. ErrorsSeen' BY DEF TypeOK, Control, ErrorsSeen, Events, Err
  <1>7. VerdictTrue' BY DEF TypeOK, Control, ErrorsSeen, VerdictTrue
  <1> QED BY <1>1, <1>2, <1>3, <1>4, <1>5, <1>6, <1>7

\* The error becomes the adapter's last event.
LEMMA ScanBrokenInv == Inv /\ ScanBroken => Inv'
  <1> SUFFICES ASSUME Inv, ScanBroken PROVE Inv' OBVIOUS
  <1> USE PipelineAssumption DEF Inv, ScanBroken, trackerVars, handlerVars, Done
  <1>1. TypeOK' BY DEF TypeOK, Events, Err
  <1>2. Control' BY DEF TypeOK, Control, Events, Err
  <1>3. InOrder' BY DEF TypeOK, Control, InOrder, Follow, Forwarded, Taken, Sent, Events, Err
  <1>4. NothingLost'
        BY DEF TypeOK, Control, InOrder, NothingLost, Forwarded, Taken, Sent
  <1>5. Whole' BY DEF TypeOK, Control, Whole
  <1>6. ErrorsSeen' BY DEF TypeOK, Control, ErrorsSeen, Events, Err
  <1>7. VerdictTrue' BY DEF TypeOK, Control, ErrorsSeen, VerdictTrue
  <1> QED BY <1>1, <1>2, <1>3, <1>4, <1>5, <1>6, <1>7

\* A scan that is cancelled sends no further chunk.
LEMMA ScanCancelledInv == Inv /\ ScanCancelled => Inv'
  <1> SUFFICES ASSUME Inv, ScanCancelled PROVE Inv' OBVIOUS
  <1> USE PipelineAssumption DEF Inv, ScanCancelled, upstreamVars, trackerVars, handlerVars, Done
  <1>1. TypeOK' BY DEF TypeOK, Events, Err
  <1>2. Control' BY DEF TypeOK, Control, Events, Err
  <1>3. InOrder' BY DEF TypeOK, Control, InOrder, Follow, Forwarded, Taken, Sent, Events, Err
  <1>4. NothingLost'
        BY DEF TypeOK, Control, InOrder, NothingLost, Forwarded, Taken, Sent
  <1>5. Whole' BY DEF TypeOK, Control, Whole
  <1>6. ErrorsSeen' BY DEF TypeOK, Control, ErrorsSeen, Events, Err
  <1>7. VerdictTrue' BY DEF TypeOK, Control, ErrorsSeen, VerdictTrue
  <1> QED BY <1>1, <1>2, <1>3, <1>4, <1>5, <1>6, <1>7

\* A send moves the event in the adapter's hand to the end of its channel.
LEMMA AdapterSendInv == Inv /\ AdapterSend => Inv'
  <1> SUFFICES ASSUME Inv, AdapterSend PROVE Inv' OBVIOUS
  <1> USE PipelineAssumption DEF Inv, AdapterSend, upstreamVars, trackerVars, handlerVars
  <1>0. /\ Append(in, held) \in Seq(Events) /\ Len(Append(in, held)) = Len(in) + 1
        /\ DOMAIN Append(in, held) = 1 .. Len(in) + 1 /\ DOMAIN in = 1 .. Len(in)
        /\ \A i \in 1 .. Len(in) : Append(in, held)[i] = in[i]
        /\ Append(in, held)[Len(in) + 1] = held /\ Len(in) \in Nat
        BY AppendFacts DEF TypeOK, Events
  <1>1. TypeOK' BY <1>0 DEF TypeOK, Events, Err
  <1>2. Control' BY <1>0 DEF TypeOK, Control, Events, Err
  <1>3. InOrder'
    <2>1. \A i \in DOMAIN written' : written'[i] = i BY DEF InOrder
    <2>2. ~drained' => Follow(out, Len(written))'
          BY <1>0 DEF TypeOK, Control, InOrder, Follow, Forwarded, Taken, Sent, Events, Err
    <2>3. ~drained' /\ tracker' = "send" =>
            (passing' = Forwarded' + 1 \/ passing' = Err) /\ passing' <= emitted'
          BY <1>0 DEF TypeOK, Control, InOrder, Follow, Forwarded, Taken, Sent, Events, Err
    <2>4. ~drained' /\ tracker' # "closed" => Follow(in, Taken)'
      <3> SUFFICES ASSUME ~drained, tracker # "closed", NEW i \in DOMAIN in'
                   PROVE  (in'[i] = Taken' + i \/ in'[i] = Err) /\ in'[i] <= emitted'
          BY DEF Follow
      <3>1. Taken' = Taken /\ Taken \in Nat BY DEF TypeOK, Taken, Forwarded
      <3>2. CASE i \in 1 .. Len(in)
            BY <1>0, <3>1, <3>2 DEF InOrder, Follow
      <3>3. CASE i = Len(in) + 1
            BY <1>0, <3>1, <3>3 DEF TypeOK, Control, InOrder, Sent, Events, Err
      <3> QED BY <1>0, <3>2, <3>3
    <2>5. ~drained' /\ tracker' # "closed" /\ adapter' = "scan" => emitted' = Sent'
          BY <1>0 DEF TypeOK, Control, InOrder, Follow, Forwarded, Taken, Sent, Events, Err
    <2>6. ~drained' /\ tracker' # "closed" /\ adapter' = "send" =>
            emitted' = Sent' + 1 /\ held' = emitted'
          BY <1>0 DEF TypeOK, Control, InOrder, Follow, Forwarded, Taken, Sent, Events, Err
    <2> QED BY <2>1, <2>2, <2>3, <2>4, <2>5, <2>6 DEF InOrder
  <1>4. NothingLost'
        BY <1>0 DEF TypeOK, Control, InOrder, NothingLost, Forwarded, Taken, Sent
  <1>5. Whole' BY <1>0 DEF TypeOK, Control, Whole
  <1>6. ErrorsSeen'
    <2>1. \A i \in 1 .. Len(in) + 1 : i \in 1 .. Len(in) \/ i = Len(in) + 1 BY <1>0
    <2>2. ctx' = "live" /\ upstream' # "broken" =>
            ~sawError' /\ \A i \in DOMAIN in' : in'[i] # Err
          BY <1>0, <2>1 DEF Control, ErrorsSeen
    <2>3. ctx = "live" /\ upstream = "broken" /\ adapter = "sendLast" =>
            \E i \in DOMAIN in' : in'[i] = Err
          BY <1>0 DEF Control
    <2>4. (\E i \in DOMAIN in : in[i] = Err) => \E i \in DOMAIN in' : in'[i] = Err
          BY <1>0
    <2> QED BY <2>2, <2>3, <2>4 DEF ErrorsSeen
  <1>7. VerdictTrue' BY DEF TypeOK, Control, ErrorsSeen, VerdictTrue
  <1> QED BY <1>1, <1>2, <1>3, <1>4, <1>5, <1>6, <1>7

\* An adapter gives up only when the context is done, and sends no more.
LEMMA AdapterGivesUpInv == Inv /\ AdapterGivesUp => Inv'
  <1> SUFFICES ASSUME Inv, AdapterGivesUp PROVE Inv' OBVIOUS
  <1> USE PipelineAssumption DEF Inv, AdapterGivesUp, upstreamVars, trackerVars, handlerVars, Done
  <1>1. TypeOK' BY DEF TypeOK, Events, Err
  <1>2. Control' BY DEF TypeOK, Control, Events, Err
  <1>3. InOrder' BY DEF TypeOK, Control, InOrder, Follow, Forwarded, Taken, Sent, Events, Err
  <1>4. NothingLost'
        BY DEF TypeOK, Control, InOrder, NothingLost, Forwarded, Taken, Sent
  <1>5. Whole' BY DEF TypeOK, Control, Whole
  <1>6. ErrorsSeen' BY DEF TypeOK, Control, ErrorsSeen, Events, Err
  <1>7. VerdictTrue' BY DEF TypeOK, Control, ErrorsSeen, VerdictTrue
  <1> QED BY <1>1, <1>2, <1>3, <1>4, <1>5, <1>6, <1>7

\* A receive moves the first event of the channel to the tracker's hand.
LEMMA TrackerRecvInv == Inv /\ TrackerRecv => Inv'
  <1> SUFFICES ASSUME Inv, TrackerRecv PROVE Inv' OBVIOUS
  <1> USE PipelineAssumption DEF Inv, TrackerRecv, upstreamVars, handlerVars
  <1>0. /\ Tail(in) \in Seq(Events) /\ Len(Tail(in)) = Len(in) - 1 /\ Len(in) \in Nat \ {0}
        /\ DOMAIN Tail(in) = 1 .. Len(in) - 1 /\ DOMAIN in = 1 .. Len(in)
        /\ \A i \in 1 .. Len(in) - 1 : Tail(in)[i] = in[i + 1]
        /\ Head(in) = in[1] /\ Head(in) \in Events
        BY TailFacts DEF TypeOK, Events
  <1>1. TypeOK' BY <1>0 DEF TypeOK, Events, Err
  <1>2. Control' BY <1>0 DEF TypeOK, Control, Events, Err
  <1>3. InOrder'
    <2>1. \A i \in DOMAIN written' : written'[i] = i BY DEF InOrder
    <2>2. ~drained' => Follow(out, Len(written))'
          BY <1>0 DEF TypeOK, Control, InOrder, Follow, Forwarded, Taken, Sent, Events, Err
    <2>3. ~drained' /\ tracker' = "send" =>
            (passing' = Forwarded' + 1 \/ passing' = Err) /\ passing' <= emitted'
      <3>1. 1 \in DOMAIN in /\ Taken = Forwarded /\ Forwarded' = Forwarded
            BY <1>0 DEF Taken, Forwarded
      <3> QED BY <1>0, <3>1 DEF InOrder, Follow
    <2>4. ~drained' /\ tracker' # "closed" => Follow(in, Taken)'
      <3> SUFFICES ASSUME ~drained, NEW i \in DOMAIN in'
                   PROVE  (in'[i] = Taken' + i \/ in'[i] = Err) /\ in'[i] <= emitted'
          BY DEF Follow
      <3>1. Taken' = Taken + 1 /\ Taken \in Nat BY DEF TypeOK, Taken, Forwarded
      <3>2. i + 1 \in DOMAIN in /\ in'[i] = in[i + 1] /\ i \in Nat BY <1>0
      <3>3. (in[i + 1] = Taken + (i + 1) \/ in[i + 1] = Err) /\ in[i + 1] <= emitted
            BY <3>2 DEF InOrder, Follow
      <3> QED BY <3>1, <3>2, <3>3
    <2>5. ~drained' /\ tracker' # "closed" /\ adapter' = "scan" => emitted' = Sent'
          BY <1>0 DEF TypeOK, Control, InOrder, Follow, Forwarded, Taken, Sent, Events, Err
    <2>6. ~drained' /\ tracker' # "closed" /\ adapter' = "send" =>
            emitted' = Sent' + 1 /\ held' = emitted'
          BY <1>0 DEF TypeOK, Control, InOrder, Follow, Forwarded, Taken, Sent, Events, Err
    <2> QED BY <2>1, <2>2, <2>3, <2>4, <2>5, <2>6 DEF InOrder
  <1>4. NothingLost'
        BY <1>0 DEF TypeOK, Control, InOrder, NothingLost, Forwarded, Taken, Sent
  <1>5. Whole' BY <1>0 DEF TypeOK, Control, Whole
  <1>6. ErrorsSeen'
    <2>1. ctx' = "live" /\ upstream' # "broken" =>
            ~sawError' /\ \A i \in DOMAIN in' : in'[i] # Err
      <3> SUFFICES ASSUME ctx = "live", upstream # "broken"
                   PROVE  ~sawError' /\ \A i \in DOMAIN in' : in'[i] # Err
          OBVIOUS
      <3>1. ~sawError /\ \A i \in DOMAIN in : in[i] # Err BY DEF ErrorsSeen
      <3>2. 1 \in DOMAIN in /\ \A i \in DOMAIN in' : i + 1 \in DOMAIN in BY <1>0
      <3>3. Head(in) # Err BY <1>0, <3>1, <3>2
      <3> QED BY <1>0, <3>1, <3>2, <3>3
    <2>2. ASSUME ctx = "live", upstream = "broken"
          PROVE  adapter' = "sendLast" \/ sawError' \/ \E i \in DOMAIN in' : in'[i] = Err
      <3>1. CASE adapter = "sendLast" BY <3>1
      <3>2. CASE sawError BY <3>2
      <3>3. CASE \E i \in DOMAIN in : in[i] = Err
        <4>1. PICK i \in DOMAIN in : in[i] = Err BY <3>3
        <4>2. CASE i = 1 BY <1>0, <4>1, <4>2
        <4>3. CASE i # 1
          <5>1. i - 1 \in DOMAIN in' /\ in'[i - 1] = in[(i - 1) + 1] /\ (i - 1) + 1 = i
                BY <1>0, <4>3
          <5> QED BY <4>1, <5>1
        <4> QED BY <4>2, <4>3
      <3> QED BY <2>2, <3>1, <3>2, <3>3 DEF ErrorsSeen
    <2> QED BY <2>1, <2>2 DEF ErrorsSeen
  <1>7. VerdictTrue' BY DEF TypeOK, Control, ErrorsSeen, VerdictTrue
  <1> QED BY <1>1, <1>2, <1>3, <1>4, <1>5, <1>6, <1>7

\* A send moves that event to the end of the handler's channel.
LEMMA TrackerSendInv == Inv /\ TrackerSend => Inv'
  <1> SUFFICES ASSUME Inv, TrackerSend PROVE Inv' OBVIOUS
  <1> USE PipelineAssumption DEF Inv, TrackerSend, upstreamVars, adapterVars, handlerVars
  <1>0. /\ Append(out, passing) \in Seq(Events) /\ Len(Append(out, passing)) = Len(out) + 1
        /\ DOMAIN Append(out, passing) = 1 .. Len(out) + 1 /\ DOMAIN out = 1 .. Len(out)
        /\ \A i \in 1 .. Len(out) : Append(out, passing)[i] = out[i]
        /\ Append(out, passing)[Len(out) + 1] = passing /\ Len(out) \in Nat
        BY AppendFacts DEF TypeOK, Events
  <1>1. TypeOK' BY <1>0 DEF TypeOK, Events, Err
  <1>2. Control' BY <1>0 DEF TypeOK, Control, Events, Err
  <1>3. InOrder'
    <2>1. \A i \in DOMAIN written' : written'[i] = i BY DEF InOrder
    <2>2. ~drained' => Follow(out, Len(written))'
      <3> SUFFICES ASSUME ~drained, NEW i \in DOMAIN out'
                   PROVE  (out'[i] = Len(written)' + i \/ out'[i] = Err) /\ out'[i] <= emitted'
          BY DEF Follow
      <3>1. CASE i \in 1 .. Len(out) BY <1>0, <3>1 DEF InOrder, Follow
      <3>2. CASE i = Len(out) + 1
            BY <1>0, <3>2 DEF TypeOK, InOrder, Forwarded, Events, Err
      <3> QED BY <1>0, <3>1, <3>2
    <2>3. ~drained' /\ tracker' = "send" =>
            (passing' = Forwarded' + 1 \/ passing' = Err) /\ passing' <= emitted'
          BY <1>0 DEF TypeOK, Control, InOrder, Follow, Forwarded, Taken, Sent, Events, Err
    <2>4. ~drained' /\ tracker' # "closed" => Follow(in, Taken)'
          BY <1>0 DEF TypeOK, Control, InOrder, Follow, Forwarded, Taken, Sent, Events, Err
    <2>5. ~drained' /\ tracker' # "closed" /\ adapter' = "scan" => emitted' = Sent'
          BY <1>0 DEF TypeOK, Control, InOrder, Follow, Forwarded, Taken, Sent, Events, Err
    <2>6. ~drained' /\ tracker' # "closed" /\ adapter' = "send" =>
            emitted' = Sent' + 1 /\ held' = emitted'
          BY <1>0 DEF TypeOK, Control, InOrder, Follow, Forwarded, Taken, Sent, Events, Err
    <2> QED BY <2>1, <2>2, <2>3, <2>4, <2>5, <2>6 DEF InOrder
  <1>4. NothingLost'
        BY <1>0 DEF TypeOK, Control, InOrder, NothingLost, Forwarded, Taken, Sent
  <1>5. Whole' BY <1>0 DEF TypeOK, Control, Whole
  <1>6. ErrorsSeen' BY <1>0 DEF TypeOK, Control, ErrorsSeen, Events, Err
  <1>7. VerdictTrue' BY DEF TypeOK, Control, ErrorsSeen, VerdictTrue
  <1> QED BY <1>1, <1>2, <1>3, <1>4, <1>5, <1>6, <1>7

\* A tracker gives up only when the context is done.
LEMMA TrackerGivesUpInv == Inv /\ TrackerGivesUp => Inv'
  <1> SUFFICES ASSUME Inv, TrackerGivesUp PROVE Inv' OBVIOUS
  <1> USE PipelineAssumption DEF Inv, TrackerGivesUp, upstreamVars, adapterVars, handlerVars, Done
  <1>1. TypeOK' BY DEF TypeOK, Events, Err
  <1>2. Control' BY DEF TypeOK, Control, Events, Err
  <1>3. InOrder' BY DEF TypeOK, Control, InOrder, Follow, Forwarded, Taken, Sent, Events, Err
  <1>4. NothingLost'
        BY DEF TypeOK, Control, InOrder, NothingLost, Forwarded, Taken, Sent
  <1>5. Whole' BY DEF TypeOK, Control, Whole
  <1>6. ErrorsSeen' BY DEF TypeOK, Control, ErrorsSeen, Events, Err
  <1>7. VerdictTrue' BY DEF TypeOK, Control, ErrorsSeen, VerdictTrue
  <1> QED BY <1>1, <1>2, <1>3, <1>4, <1>5, <1>6, <1>7

\* The verdict is taken when the adapter's channel is closed and empty.
LEMMA TrackerClosesInv == Inv /\ TrackerCloses => Inv'
  <1> SUFFICES ASSUME Inv, TrackerCloses PROVE Inv' OBVIOUS
  <1> USE PipelineAssumption DEF Inv, TrackerCloses, upstreamVars, adapterVars, handlerVars
  <1>1. TypeOK' BY DEF TypeOK, Events, Err
  <1>2. Control' BY DEF TypeOK, Control, Events, Err
  <1>3. InOrder' BY DEF TypeOK, Control, InOrder, Follow, Forwarded, Taken, Sent, Events, Err
  <1>4. NothingLost'
        BY DEF TypeOK, Control, InOrder, NothingLost, Forwarded, Taken, Sent
  <1>5. Whole' BY DEF TypeOK, Control, Whole
  <1>6. ErrorsSeen' BY DEF TypeOK, Control, ErrorsSeen, Events, Err
  <1>7. VerdictTrue' BY DEF TypeOK, Control, ErrorsSeen, VerdictTrue
  <1> QED BY <1>1, <1>2, <1>3, <1>4, <1>5, <1>6, <1>7

\* The chunk written is the one after the last.
LEMMA WriteChunkInv == Inv /\ WriteChunk => Inv'
  <1> SUFFICES ASSUME Inv, WriteChunk PROVE Inv' OBVIOUS
  <1> USE PipelineAssumption DEF Inv, WriteChunk, upstreamVars, adapterVars, Receive
  <1>0. /\ Tail(out) \in Seq(Events) /\ Len(Tail(out)) = Len(out) - 1 /\ Len(out) \in Nat \ {0}
        /\ DOMAIN Tail(out) = 1 .. Len(out) - 1 /\ DOMAIN out = 1 .. Len(out)
        /\ \A i \in 1 .. Len(out) - 1 : Tail(out)[i] = out[i + 1]
        /\ Head(out) = out[1] /\ Head(out) \in Events
        BY TailFacts DEF TypeOK, Events
  <1>a. ~drained /\ Head(out) = Len(written) + 1 /\ Head(out) <= emitted
    <2>1. 1 \in DOMAIN out BY <1>0
    <2>2. ~drained BY DEF Control
    <2> QED BY <1>0, <2>1, <2>2 DEF InOrder, Follow
  <1>b. Head(out) \in 1 .. MaxChunks BY <1>0 DEF TypeOK, Events, Err
  <1>c. /\ Append(written, Head(out)) \in Seq(1 .. MaxChunks)
        /\ Len(Append(written, Head(out))) = Len(written) + 1
        /\ DOMAIN Append(written, Head(out)) = 1 .. Len(written) + 1
        /\ DOMAIN written = 1 .. Len(written)
        /\ \A i \in 1 .. Len(written) : Append(written, Head(out))[i] = written[i]
        /\ Append(written, Head(out))[Len(written) + 1] = Head(out) /\ Len(written) \in Nat
        BY AppendFacts, <1>b DEF TypeOK, Events
  <1>1. TypeOK' BY <1>0, <1>c DEF TypeOK
  <1>2. Control' BY DEF Control
  <1>3. InOrder'
    <2>1. \A i \in DOMAIN written' : written'[i] = i BY <1>a, <1>c DEF InOrder, TypeOK
    <2>2. ~drained' => Follow(out, Len(written))'
      <3> SUFFICES ASSUME ~drained, NEW i \in DOMAIN out'
                   PROVE  (out'[i] = Len(written)' + i \/ out'[i] = Err) /\ out'[i] <= emitted'
          BY DEF Follow
      <3>1. i + 1 \in DOMAIN out /\ out'[i] = out[i + 1] /\ i \in Nat BY <1>0
      <3>2. (out[i + 1] = Len(written) + (i + 1) \/ out[i + 1] = Err) /\ out[i + 1] <= emitted
            BY <3>1 DEF InOrder, Follow
      <3> QED BY <1>c, <3>1, <3>2
    <2>3. ~drained' /\ tracker' = "send" =>
            (passing' = Forwarded' + 1 \/ passing' = Err) /\ passing' <= emitted'
          BY <1>0, <1>a, <1>c
          DEF TypeOK, Control, InOrder, Follow, Forwarded, Taken, Sent, Events, Err
    <2>4. ~drained' /\ tracker' # "closed" => Follow(in, Taken)'
          BY <1>0, <1>a, <1>c
          DEF TypeOK, Control, InOrder, Follow, Forwarded, Taken, Sent, Events, Err
    <2>5. ~drained' /\ tracker' # "closed" /\ adapter' = "scan" => emitted' = Sent'
          BY <1>0, <1>a, <1>c
          DEF TypeOK, Control, InOrder, Follow, Forwarded, Taken, Sent, Events, Err
    <2>6. ~drained' /\ tracker' # "closed" /\ adapter' = "send" =>
            emitted' = Sent' + 1 /\ held' = emitted'
          BY <1>0, <1>a, <1>c
          DEF TypeOK, Control, InOrder, Follow, Forwarded, Taken, Sent, Events, Err
    <2> QED BY <2>1, <2>2, <2>3, <2>4, <2>5, <2>6 DEF InOrder
  <1>4. NothingLost' BY <1>0, <1>c DEF TypeOK, NothingLost, Forwarded, Taken, Sent
  <1>5. Whole' BY DEF Control, Whole
  <1>6. ErrorsSeen' BY DEF ErrorsSeen
  <1>7. VerdictTrue' BY DEF VerdictTrue
  <1> QED BY <1>1, <1>2, <1>3, <1>4, <1>5, <1>6, <1>7

\* A handler that stops writing claims nothing of the rest.
LEMMA StopWritingInv == Inv /\ StopWriting => Inv'
  <1> SUFFICES ASSUME Inv, StopWriting PROVE Inv' OBVIOUS
  <1> USE PipelineAssumption DEF Inv, StopWriting, upstreamVars, adapterVars, Receive
  <1>0. /\ Tail(out) \in Seq(Events) /\ Len(Tail(out)) = Len(out) - 1 /\ Len(out) \in Nat \ {0}
        /\ DOMAIN Tail(out) = 1 .. Len(out) - 1 /\ DOMAIN out = 1 .. Len(out)
        /\ \A i \in 1 .. Len(out) - 1 : Tail(out)[i] = out[i + 1]
        /\ Head(out) = out[1] /\ Head(out) \in Events
        BY TailFacts DEF TypeOK, Events
  <1>1. TypeOK' BY <1>0 DEF TypeOK, Events, Err
  <1>2. Control' BY <1>0 DEF TypeOK, Control, Events, Err
  <1>3. InOrder'
        BY <1>0 DEF TypeOK, Control, InOrder, Follow, Forwarded, Taken, Sent, Events, Err
  <1>4. NothingLost'
        BY <1>0 DEF TypeOK, Control, InOrder, NothingLost, Forwarded, Taken, Sent
  <1>5. Whole' BY <1>0 DEF TypeOK, Control, Whole
  <1>6. ErrorsSeen' BY <1>0 DEF TypeOK, Control, ErrorsSeen, Events, Err
  <1>7. VerdictTrue' BY DEF TypeOK, Control, ErrorsSeen, VerdictTrue
  <1> QED BY <1>1, <1>2, <1>3, <1>4, <1>5, <1>6, <1>7

\* Draining is not writing.
LEMMA DrainOneInv == Inv /\ DrainOne => Inv'
  <1> SUFFICES ASSUME Inv, DrainOne PROVE Inv' OBVIOUS
  <1> USE PipelineAssumption DEF Inv, DrainOne, upstreamVars, adapterVars, handlerVars, Receive
  <1>0. /\ Tail(out) \in Seq(Events) /\ Len(Tail(out)) = Len(out) - 1 /\ Len(out) \in Nat \ {0}
        /\ DOMAIN Tail(out) = 1 .. Len(out) - 1 /\ DOMAIN out = 1 .. Len(out)
        /\ \A i \in 1 .. Len(out) - 1 : Tail(out)[i] = out[i + 1]
        /\ Head(out) = out[1] /\ Head(out) \in Events
        BY TailFacts DEF TypeOK, Events
  <1>1. TypeOK' BY <1>0 DEF TypeOK, Events, Err
  <1>2. Control' BY <1>0 DEF TypeOK, Control, Events, Err
  <1>3. InOrder'
        BY <1>0 DEF TypeOK, Control, InOrder, Follow, Forwarded, Taken, Sent, Events, Err
  <1>4. NothingLost'
        BY <1>0 DEF TypeOK, Control, InOrder, NothingLost, Forwarded, Taken, Sent
  <1>5. Whole' BY <1>0 DEF TypeOK, Control, Whole
  <1>6. ErrorsSeen' BY <1>0 DEF TypeOK, Control, ErrorsSeen, Events, Err
  <1>7. VerdictTrue' BY DEF TypeOK, Control, ErrorsSeen, VerdictTrue
  <1> QED BY <1>1, <1>2, <1>3, <1>4, <1>5, <1>6, <1>7

\* A handler that returns before the client leaves has seen everything.
LEMMA ReturnInv == Inv /\ Return => Inv'
  <1> SUFFICES ASSUME Inv, Return PROVE Inv' OBVIOUS
  <1> USE PipelineAssumption DEF Inv, Return, upstreamVars, adapterVars, trackerVars, Done
  <1>1. TypeOK' BY DEF TypeOK, Events, Err
  <1>2. Control' BY DEF TypeOK, Control, Events, Err
  <1>3. InOrder' BY DEF TypeOK, Control, InOrder, Follow, Forwarded, Taken, Sent, Events, Err
  <1>4. NothingLost'
        BY DEF TypeOK, Control, InOrder, NothingLost, Forwarded, Taken, Sent
  <1>5. Whole'
    <2> SUFFICES ASSUME ctx' = "returned", upstream' = "ended", ~drained'
                 PROVE  Len(written') = emitted' /\ sentDone'
        BY DEF Whole
    <2>1. ctx = "live" /\ handler # "refuse" BY DEF TypeOK, Control
    <2>2. in = <<>> /\ Len(in) = 0 /\ Len(out) = 0 BY <2>1 DEF Control
    <2>3. emitted = Len(written) BY <2>1, <2>2 DEF TypeOK, NothingLost, Sent, Taken, Forwarded
    <2>4. sentDone' BY <2>1
    <2> QED BY <2>3, <2>4
  <1>6. ErrorsSeen' BY DEF TypeOK, Control, ErrorsSeen, Events, Err
  <1>7. VerdictTrue' BY DEF TypeOK, Control, ErrorsSeen, VerdictTrue
  <1> QED BY <1>1, <1>2, <1>3, <1>4, <1>5, <1>6, <1>7

\* A stuttering step keeps every part.
LEMMA StutterInv == Inv /\ UNCHANGED vars => Inv'
  BY DEF Inv, vars, upstreamVars, adapterVars, trackerVars, handlerVars, TypeOK, Control, InOrder,
         Follow, Forwarded, Taken, Sent, NothingLost, Whole, ErrorsSeen, VerdictTrue, Events, Err

\* Inv is inductive: no step of the adapter, the tracker, the handler or the client
\* loses, repeats or reorders an event, or hides an error.
THEOREM Invariance == Spec => []Inv
  <1>1. Inv /\ [Next]_vars => Inv'
        BY CancelInv, ScanChunkInv, ScanEndInv, ScanBrokenInv, ScanCancelledInv,
           AdapterSendInv, AdapterGivesUpInv, TrackerRecvInv, TrackerSendInv, TrackerGivesUpInv,
           TrackerClosesInv, WriteChunkInv, StopWritingInv, DrainOneInv, ReturnInv, StutterInv
        DEF Next, Adapter, Tracker, Handler
  <1> QED BY InitInv, <1>1, PTL DEF Spec

\* handleStream writes the provider's chunks in order without gap or repetition, and
\* all of them before a [DONE] that nobody cut short, for every capacity of the
\* channels and every number of chunks.
THEOREM StreamIntact == Spec => []Intact
  <1>1. Inv => Intact BY DEF Inv, InOrder, Whole, Intact
  <1> QED BY Invariance, <1>1, PTL

\* trackStreamHealth's verdict on a stream whose client stayed is the provider's.
THEOREM StreamVerdict == Spec => []VerdictTrue
  <1>1. Inv => VerdictTrue BY DEF Inv
  <1> QED BY Invariance, <1>1, PTL

-----------------------------------------------------------------------------
(* The refinement of StreamContract.                                       *)

\* A chunk read from the provider is an Emit of the contract.
LEMMA ScanChunkEmits == Inv /\ ScanChunk => Contract!Emit
  BY DEF Inv, TypeOK, Control, ScanChunk, Done, trackerVars, handlerVars, Contract!Emit

\* A chunk written to the client is a Deliver: the provider has sent it.
LEMMA WriteChunkDelivers == Inv /\ WriteChunk => Contract!Deliver
  <1> SUFFICES ASSUME Inv, WriteChunk PROVE Contract!Deliver OBVIOUS
  <1> USE PipelineAssumption DEF Inv, WriteChunk, Receive
  <1>1. ~drained BY DEF Control
  <1>2. 1 \in DOMAIN out /\ Head(out) = out[1] BY TailFacts DEF TypeOK
  <1>3. Len(written) + 1 <= emitted BY <1>1, <1>2 DEF InOrder, Follow
  <1>4. Head(out) \in 1 .. MaxChunks BY TailFacts DEF TypeOK, Events, Err
  <1>5. Len(written') = Len(written) + 1 /\ Len(written) \in Nat BY AppendFacts, <1>4 DEF TypeOK
  <1> QED BY <1>3, <1>5 DEF TypeOK, upstreamVars, Contract!Deliver

\* A return is a Complete if the provider ended and everything was written, else a Cut.
LEMMA ReturnEnds == Inv /\ Return => Contract!Complete \/ Contract!Cut
  <1> SUFFICES ASSUME Inv, Return PROVE Contract!Complete \/ Contract!Cut OBVIOUS
  <1> USE DEF Return, upstreamVars
  <1>1. CASE ctx' = "returned" /\ upstream' = "ended" /\ ~drained'
    <2>1. Len(written') = emitted' BY ReturnInv, <1>1 DEF Inv, Whole
    <2> QED BY <1>1, <2>1 DEF Contract!Complete
  <1>2. CASE ~(ctx' = "returned" /\ upstream' = "ended" /\ ~drained')
        BY <1>2 DEF Contract!Cut
  <1> QED BY <1>1, <1>2

\* A handler that has returned is not moved by the goroutines it leaves behind: the end
\* it gave the stream is final.
LEMMA OtherwiseStutters ==
    ASSUME Inv,
           \/ Cancel \/ ScanEnd \/ ScanBroken \/ Adapter \/ Tracker
           \/ StopWriting \/ DrainOne \/ UNCHANGED vars
    PROVE  UNCHANGED <<emitted, Len(written),
                       IF handler # "done" THEN "open"
                       ELSE IF ctx = "returned" /\ upstream = "ended" /\ ~drained THEN "complete"
                       ELSE "cut">>
  <1> USE DEF upstreamVars, adapterVars, trackerVars, handlerVars
  <1>1. handler = "done" => Done BY DEF Inv, Control, Done
  <1>2. CASE Cancel \/ ScanEnd \/ ScanBroken
        BY <1>1, <1>2 DEF Cancel, ScanEnd, ScanBroken, Done
  <1>3. CASE Adapter BY <1>3 DEF Adapter, ScanCancelled, AdapterSend, AdapterGivesUp
  <1>4. CASE Tracker
        BY <1>4 DEF Tracker, TrackerRecv, TrackerSend, TrackerGivesUp, TrackerCloses
  <1>5. CASE StopWriting \/ DrainOne BY <1>5 DEF StopWriting, DrainOne
  <1>6. CASE UNCHANGED vars BY <1>6 DEF vars
  <1> QED BY <1>2, <1>3, <1>4, <1>5, <1>6

\* The adapter, the tracker and the handler together implement the contract of a
\* streamed completion.
THEOREM ContractImplemented == Spec => ImplementsContract
  <1>1. Init => Contract!ContractInit BY DEF Init, Contract!ContractInit
  <1>2. Inv /\ [Next]_vars => [Contract!ContractNext]_(Contract!contractVars)
        BY ScanChunkEmits, WriteChunkDelivers, ReturnEnds, OtherwiseStutters
        DEF Next, Handler, Contract!contractVars, Contract!ContractNext
  <1> QED BY <1>1, <1>2, Invariance, PTL DEF Spec, ImplementsContract, Contract!ContractSpec
=============================================================================
