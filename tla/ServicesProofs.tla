--------------------------- MODULE ServicesProofs ---------------------------
(***************************************************************************)
(* Proofs about the services, all three running at once, for any limits,   *)
(* lifetimes, numbers of tries, of calls and of events: types; that a      *)
(* stream delivers its events complete and in order, and nothing once it   *)
(* is closed; that VERIFIED means that all was read and agreed; that       *)
(* quotes keep their age, their circuits and their rates.                  *)
(***************************************************************************)
EXTENDS Services, SequenceTheorems, SumTheorems, TLAPS

(***************************************************************************)
(* The stream.                                                             *)
(***************************************************************************)

\* Attempts are left while the reader goes on.
TriesLeft == reader # "over" => streamAttempt <= GiveUpAfter

\* What is half received is received now, of an event that was emitted.
BufferSound ==
    /\ buffer # "none" => reader = "reading" /\ cursor < emitted
    /\ reader = "reading" => proxy # "handshake"
    /\ cursor <= emitted /\ lastEventId <= emitted

StreamInv == Stream!StreamTypeOK /\ TriesLeft /\ BufferSound

\* Where no body ends inside an event: what was delivered is consecutive, up to the
\* last id, and the connection carries what follows.
Consecutive ==
    /\ buffer # "none" => reader = "reading"
    /\ \A i \in 1 .. Len(delivered) :
          /\ delivered[i].whole
          /\ delivered[i].event = delivered[1].event + (i - 1)
    /\ delivered = <<>> => lastEventId = Stream!NoId
    /\ delivered # <<>> => lastEventId = delivered[Len(delivered)].event
    /\ proxy = "piping" /\ lastEventId # Stream!NoId => cursor = lastEventId

\* A function on the first n numbers is a sequence.
LEMMA FunctionIsSeq ==
    ASSUME NEW S, NEW n \in Nat, NEW f \in [1 .. n -> S]
    PROVE  f \in Seq(S) /\ Len(f) = n
OBVIOUS

\* The numbers of the stream are numbers.
LEMMA StreamNumbers ==
    ASSUME ServicesAssumption
    PROVE  /\ MaxEvents \in Nat /\ MaxFailures \in Nat /\ GiveUpAfter \in Nat
           /\ Stream!Ids \cup {Stream!NoId} = 0 .. MaxEvents
           /\ Stream!Message =
                 [id : 0 .. MaxEvents, event : 1 .. MaxEvents, whole : BOOLEAN]
<1>1. MaxEvents \in Nat /\ MaxFailures \in Nat /\ GiveUpAfter \in Nat
  BY DEF ServicesAssumption
<1>2. Stream!Ids \cup {Stream!NoId} = 0 .. MaxEvents
  BY <1>1 DEF Stream!Ids, Stream!NoId
<1> QED  BY <1>1, <1>2 DEF Stream!Message, Stream!Ids

\* A message and its numbers.
LEMMA MessageIsTyped ==
    ASSUME ServicesAssumption
    PROVE  /\ \A m \in Stream!Message : m.event \in 1 .. MaxEvents /\ m.event \in Nat
           /\ \A i \in 0 .. MaxEvents, e \in 1 .. MaxEvents, w \in BOOLEAN :
                 [id |-> i, event |-> e, whole |-> w] \in Stream!Message
<1>1. MaxEvents \in Nat /\ \A e \in 1 .. MaxEvents : e \in Nat
  BY StreamNumbers
<1>2. Stream!Message = [id : 0 .. MaxEvents, event : 1 .. MaxEvents, whole : BOOLEAN]
  BY StreamNumbers
<1>3. \A m \in Stream!Message : m.event \in 1 .. MaxEvents
  BY <1>2
<1> QED  BY <1>1, <1>2, <1>3

\* Another try, or the end.
LEMMA Reconnecting ==
    ASSUME ServicesAssumption, streamAttempt \in Nat, streamAttempt <= GiveUpAfter,
           NEW st, Stream!ScheduleReconnect(st)
    PROVE  /\ streamAttempt' \in 0 .. (GiveUpAfter + 1)
           /\ reader' \in {"backoff", "over"} /\ status' \in {"error", st}
           /\ reader' # "over" => streamAttempt' <= GiveUpAfter
BY StreamNumbers DEF Stream!ScheduleReconnect

\* When a connection is over, the reader tries again or ends.
LEMMA ConnectionOver ==
    ASSUME ServicesAssumption, StreamInv,
           streamAttempt' \in 0 .. (GiveUpAfter + 1), buffer' = "none",
           reader' \in {"backoff", "over"}, status' \in {"error", status},
           reader' # "over" => streamAttempt' <= GiveUpAfter,
           UNCHANGED <<closed, cursor, emitted>>, delivered' \in Seq(Stream!Message),
           lastEventId' \in 0 .. MaxEvents, lastEventId' <= emitted,
           proxy' \in {"idle", proxy}, upstream' \in BOOLEAN, failures' \in 0 .. MaxFailures
    PROVE  StreamInv'
<1>1. TriesLeft' /\ BufferSound'
  BY DEF StreamInv, TriesLeft, BufferSound
<1>2. lastEventId' \in Stream!Ids \cup {Stream!NoId}
  BY StreamNumbers
<1>3. /\ status' \in {"connecting", "live", "error", "disconnected"}
      /\ reader' \in {"fetching", "reading", "backoff", "over"}
      /\ proxy' \in {"idle", "handshake", "piping"}
  BY DEF StreamInv, Stream!StreamTypeOK
<1> QED  BY <1>1, <1>2, <1>3 DEF StreamInv, Stream!StreamTypeOK, Stream!Partial

\* A chunk's events arrive whole and one after the other.
LEMMA BlocksAreWhole ==
    ASSUME ServicesAssumption, NEW c \in Nat, NEW last \in c .. MaxEvents
    PROVE  /\ Stream!Blocks(c + 1, last) \in Seq(Stream!Message)
           /\ Len(Stream!Blocks(c + 1, last)) = last - c
           /\ \A i \in 1 .. (last - c) :
                 /\ Stream!Blocks(c + 1, last)[i].whole
                 /\ Stream!Blocks(c + 1, last)[i].event = c + i
<1> DEFINE b == Stream!Blocks(c + 1, last)
<1>1. b = [i \in 1 .. (last - c) |-> [id |-> c + i, event |-> c + i, whole |-> TRUE]]
  <2>1. last + 1 - (c + 1) = last - c /\ \A i \in 1 .. (last - c) : c + 1 + i - 1 = c + i
    OBVIOUS
  <2> QED  BY <2>1 DEF Stream!Blocks
<1>2. \A i \in 1 .. (last - c) :
         [id |-> c + i, event |-> c + i, whole |-> TRUE] \in Stream!Message
  <2>1. \A i \in 1 .. (last - c) : c + i \in 1 .. MaxEvents /\ c + i \in 0 .. MaxEvents
    BY StreamNumbers
  <2> QED  BY <2>1, MessageIsTyped
<1>3. last - c \in Nat
  BY StreamNumbers
<1> HIDE DEF b
<1>4. b \in Seq(Stream!Message) /\ Len(b) = last - c
  <2>1. b \in [1 .. (last - c) -> Stream!Message]
    BY <1>1, <1>2
  <2> QED  BY <1>3, <2>1, FunctionIsSeq
<1>5. \A i \in 1 .. (last - c) : b[i].whole /\ b[i].event = c + i
  BY <1>1
<1> QED  BY <1>4, <1>5 DEF b

\* The stream keeps its types, whatever fails.
LEMMA StreamStepKeeps ==
    ASSUME ServicesAssumption, StreamInv, Stream!Next
    PROVE  StreamInv'
<1>1. /\ MaxEvents \in Nat /\ MaxFailures \in Nat /\ GiveUpAfter \in Nat
      /\ Stream!Ids \cup {Stream!NoId} = 0 .. MaxEvents
  BY StreamNumbers
<1> USE DEF StreamInv, TriesLeft, BufferSound, Stream!StreamTypeOK, Stream!Partial
<1>2. CASE Stream!Emit
  BY <1>1, <1>2 DEF Stream!Emit, Stream!clientVars
<1>3. CASE Stream!ProxyRequest
  BY <1>1, <1>3 DEF Stream!ProxyRequest, Stream!clientVars
<1>4. CASE Stream!ProxyPipes
  BY <1>1, <1>4 DEF Stream!ProxyPipes, Stream!clientVars
<1>5. CASE Stream!ClientGoes
  BY <1>1, <1>5 DEF Stream!ClientGoes, Stream!clientVars
<1>6. CASE Stream!FetchFails
  <2>1. /\ streamAttempt' \in 0 .. (GiveUpAfter + 1) /\ buffer' = "none"
        /\ reader' \in {"backoff", "over"} /\ status' \in {"error", status}
        /\ reader' # "over" => streamAttempt' <= GiveUpAfter
    <3>1. CASE closed
      <4>1. /\ UNCHANGED <<streamAttempt, status>> /\ buffer' = "none" /\ reader' = "over"
            /\ reader # "over"
        BY <1>6, <3>1 DEF Stream!FetchFails, Stream!Catch
      <4> QED  BY <1>1, <4>1
    <3>2. CASE ~ closed
      <4>1. Stream!ScheduleReconnect("error") /\ buffer' = "none" /\ reader = "fetching"
        BY <1>6, <3>2 DEF Stream!FetchFails, Stream!Catch
      <4> QED  BY <1>1, <4>1, Reconnecting
    <3> QED  BY <3>1, <3>2
  <2>2. /\ UNCHANGED <<closed, lastEventId, delivered, cursor, emitted>>
        /\ proxy' \in {"idle", proxy} /\ upstream' \in BOOLEAN
        /\ failures' \in 0 .. MaxFailures
    <3>1. failures' = failures \/ (failures < MaxFailures /\ failures' = failures + 1)
      BY <1>6 DEF Stream!FetchFails
    <3>2. failures' \in 0 .. MaxFailures
      BY <1>1, <3>1
    <3>3. proxy' \in {"idle", proxy} /\ upstream' \in {FALSE, upstream}
      BY <1>6 DEF Stream!FetchFails
    <3>4. upstream' \in BOOLEAN
      BY <3>3
    <3> QED  BY <1>6, <3>2, <3>3, <3>4 DEF Stream!FetchFails
  <2>3. lastEventId' \in 0 .. MaxEvents /\ lastEventId' <= emitted
    BY <1>1, <2>2
  <2> QED  BY <2>1, <2>2, <2>3, ConnectionOver
<1>7. CASE Stream!Connected
  BY <1>1, <1>7 DEF Stream!Connected, Stream!serverVars
<1>8. CASE Stream!ReadChunk
  <2>1. PICK last \in cursor .. emitted, part \in Stream!Partial :
           /\ part # "none" => last < emitted
           /\ delivered' = delivered \o Stream!Blocks(cursor + 1, last)
           /\ lastEventId' = (IF last > cursor THEN last ELSE lastEventId)
           /\ buffer' = part
           /\ cursor' = last
    BY <1>8 DEF Stream!ReadChunk
  <2>2. /\ reader = "reading"
        /\ UNCHANGED <<closed, streamAttempt, reader, status, proxy, upstream, emitted, failures>>
    BY <1>8 DEF Stream!ReadChunk
  <2>3. Stream!Blocks(cursor + 1, last) \in Seq(Stream!Message)
    BY <1>1, BlocksAreWhole
  <2>4. delivered' \in Seq(Stream!Message)
    BY <2>1, <2>3
  <2> QED  BY <1>1, <2>1, <2>2, <2>4
<1>9. CASE Stream!BodyEnds
  <2>1. Stream!Flushed \in Seq(Stream!Message)
    <3>1. CASE buffer = "none"
      <4>1. Stream!Flushed = <<>>
        BY <3>1 DEF Stream!Flushed
      <4> QED  BY <4>1
    <3>2. CASE buffer # "none"
      <4>1. cursor + 1 \in 1 .. MaxEvents
        BY <1>1, <3>2
      <4>2. [id |-> IF buffer = "id" THEN cursor + 1 ELSE Stream!NoId,
             event |-> cursor + 1, whole |-> FALSE] \in Stream!Message
        <5>1. cursor + 1 \in 0 .. MaxEvents /\ 0 \in 0 .. MaxEvents
          BY <1>1, <4>1
        <5> QED  BY <4>1, <5>1, MessageIsTyped DEF Stream!NoId
      <4>3. Stream!Flushed =
              << [id |-> IF buffer = "id" THEN cursor + 1 ELSE Stream!NoId,
                  event |-> cursor + 1, whole |-> FALSE] >>
        BY <3>2 DEF Stream!Flushed
      <4> QED  BY <4>2, <4>3
    <3> QED  BY ONLY <3>1, <3>2
  <2>2. delivered' = delivered \o Stream!Flushed
    BY <1>9 DEF Stream!BodyEnds
  <2>3. delivered' \in Seq(Stream!Message)
    BY <2>1, <2>2
  <2>4. /\ streamAttempt' \in 0 .. (GiveUpAfter + 1)
        /\ reader' \in {"backoff", "over"} /\ status' \in {"error", status}
        /\ reader' # "over" => streamAttempt' <= GiveUpAfter
    <3>1. Stream!ScheduleReconnect(status) /\ reader = "reading"
      BY <1>9 DEF Stream!BodyEnds
    <3> QED  BY <1>1, <3>1, Reconnecting
  <2>5. /\ UNCHANGED <<closed, cursor, emitted>> /\ proxy' = "idle" /\ upstream' = FALSE
        /\ failures' \in 0 .. MaxFailures /\ buffer' = "none"
        /\ lastEventId' = (IF buffer = "id" THEN cursor + 1 ELSE lastEventId)
    BY <1>1, <1>9 DEF Stream!BodyEnds
  <2>6. lastEventId' \in 0 .. MaxEvents /\ lastEventId' <= emitted
    BY <1>1, <2>5
  <2> QED  BY <2>3, <2>4, <2>5, <2>6, ConnectionOver
<1>10. CASE Stream!ReadFails
  <2>1. /\ streamAttempt' \in 0 .. (GiveUpAfter + 1) /\ buffer' = "none"
        /\ reader' \in {"backoff", "over"} /\ status' \in {"error", status}
        /\ reader' # "over" => streamAttempt' <= GiveUpAfter
    <3>1. CASE closed
      <4>1. /\ UNCHANGED <<streamAttempt, status>> /\ buffer' = "none" /\ reader' = "over"
            /\ reader # "over"
        BY <1>10, <3>1 DEF Stream!ReadFails, Stream!Catch
      <4> QED  BY <1>1, <4>1
    <3>2. CASE ~ closed
      <4>1. Stream!ScheduleReconnect("error") /\ buffer' = "none" /\ reader = "reading"
        BY <1>10, <3>2 DEF Stream!ReadFails, Stream!Catch
      <4> QED  BY <1>1, <4>1, Reconnecting
    <3> QED  BY <3>1, <3>2
  <2>2. /\ UNCHANGED <<closed, lastEventId, delivered, cursor, emitted>>
        /\ proxy' \in {"idle", proxy} /\ upstream' \in BOOLEAN
        /\ failures' \in 0 .. MaxFailures
    <3>1. failures' = failures \/ (failures < MaxFailures /\ failures' = failures + 1)
      BY <1>10 DEF Stream!ReadFails
    <3>2. failures' \in 0 .. MaxFailures
      BY <1>1, <3>1
    <3>3. proxy' \in {"idle", proxy} /\ upstream' \in {FALSE, upstream}
      BY <1>10 DEF Stream!ReadFails
    <3>4. upstream' \in BOOLEAN
      BY <3>3
    <3> QED  BY <1>10, <3>2, <3>3, <3>4 DEF Stream!ReadFails
  <2>3. lastEventId' \in 0 .. MaxEvents /\ lastEventId' <= emitted
    BY <1>1, <2>2
  <2> QED  BY <2>1, <2>2, <2>3, ConnectionOver
<1>11. CASE Stream!Retry
  BY <1>1, <1>11 DEF Stream!Retry, Stream!serverVars
<1>12. CASE Stream!Close
  BY <1>1, <1>12 DEF Stream!Close, Stream!serverVars
<1> QED
  BY <1>2, <1>3, <1>4, <1>5, <1>6, <1>7, <1>8, <1>9, <1>10, <1>11, <1>12 DEF Stream!Next

\* Nothing is left out and nothing comes twice, over any number of connections.
LEMMA ConsecutiveStepKeeps ==
    ASSUME ServicesAssumption, CutsBlocks = FALSE, StreamInv, Consecutive, Stream!Next
    PROVE  Consecutive'
<1>1. /\ MaxEvents \in Nat /\ cursor \in Nat /\ emitted \in 0 .. MaxEvents
      /\ delivered \in Seq(Stream!Message)
      /\ lastEventId \in Nat
  BY StreamNumbers DEF StreamInv, Stream!StreamTypeOK
<1>2. CASE UNCHANGED <<delivered, lastEventId>> /\ ~ Stream!ProxyPipes
  <2>1. buffer' # "none" => reader' = "reading"
    <3>1. CASE Stream!FetchFails \/ Stream!ReadFails \/ Stream!BodyEnds
      BY <3>1 DEF Stream!FetchFails, Stream!ReadFails, Stream!BodyEnds, Stream!Catch
    <3>2. CASE Stream!Emit \/ Stream!ProxyRequest \/ Stream!ClientGoes
      BY <3>2 DEF Consecutive, Stream!Emit, Stream!ProxyRequest, Stream!ClientGoes,
                  Stream!clientVars
    <3>3. CASE Stream!Connected \/ Stream!ReadChunk
      BY <3>3 DEF Stream!Connected, Stream!ReadChunk
    <3>4. CASE Stream!Retry \/ Stream!Close
      BY <3>4 DEF Consecutive, Stream!Retry, Stream!Close
    <3> QED  BY <1>2, <3>1, <3>2, <3>3, <3>4 DEF Stream!Next
  <2>2. proxy' = "piping" /\ lastEventId' # Stream!NoId => cursor' = lastEventId'
    <3>1. CASE Stream!FetchFails \/ Stream!ReadFails
      BY <1>2, <3>1 DEF Consecutive, Stream!FetchFails, Stream!ReadFails
    <3>2. CASE Stream!ProxyRequest \/ Stream!ClientGoes \/ Stream!BodyEnds
      BY <3>2 DEF Stream!ProxyRequest, Stream!ClientGoes, Stream!BodyEnds
    <3>3. CASE Stream!Emit \/ Stream!Connected \/ Stream!Retry \/ Stream!Close
      BY <1>2, <3>3 DEF Consecutive, Stream!Emit, Stream!Connected, Stream!Retry, Stream!Close,
                        Stream!clientVars, Stream!serverVars
    <3>4. CASE Stream!ReadChunk
      <4>1. /\ proxy = "piping"
            /\ \E last \in cursor .. emitted :
                  /\ lastEventId' = (IF last > cursor THEN last ELSE lastEventId)
                  /\ cursor' = last
        BY <3>4 DEF Stream!ReadChunk
      <4> QED  BY <1>1, <1>2, <4>1 DEF Consecutive
    <3> QED  BY <1>2, <3>1, <3>2, <3>3, <3>4 DEF Stream!Next
  <2> QED  BY <1>2, <2>1, <2>2 DEF Consecutive
<1>3. CASE Stream!ProxyPipes
  BY <1>3 DEF Stream!ProxyPipes, Consecutive, Stream!clientVars
<1>4. CASE Stream!ReadChunk
  <2>1. PICK last \in cursor .. emitted, part \in Stream!Partial :
           /\ delivered' = delivered \o Stream!Blocks(cursor + 1, last)
           /\ lastEventId' = (IF last > cursor THEN last ELSE lastEventId)
           /\ cursor' = last
    BY <1>4 DEF Stream!ReadChunk
  <2>2. reader' = "reading" /\ proxy = "piping"
    BY <1>4 DEF Stream!ReadChunk
  <2> DEFINE b == Stream!Blocks(cursor + 1, last)
             n == Len(delivered)
  <2>3. /\ b \in Seq(Stream!Message) /\ Len(b) = last - cursor
        /\ \A i \in 1 .. (last - cursor) : b[i].whole /\ b[i].event = cursor + i
    <3>1. last \in cursor .. MaxEvents
      BY <1>1
    <3> QED  BY <1>1, <3>1, BlocksAreWhole
  <2> HIDE DEF b
  <2>4. /\ Len(delivered') = n + (last - cursor) /\ n \in Nat
        /\ \A i \in 1 .. n : delivered'[i] = delivered[i]
        /\ \A i \in (n + 1) .. (n + (last - cursor)) : delivered'[i] = b[i - n]
        /\ delivered' \in Seq(Stream!Message)
    <3>1. n \in Nat /\ last - cursor \in Nat /\ delivered \in Seq(Stream!Message)
      BY <1>1, <2>1
    <3>2. delivered' = delivered \o b
      BY <2>1 DEF b
    <3>3. Len(delivered') = n + (last - cursor) /\ delivered' \in Seq(Stream!Message)
      BY <2>3, <3>1, <3>2
    <3>4. \A i \in 1 .. n : delivered'[i] = delivered[i]
      BY <2>3, <3>1, <3>2
    <3>5. \A i \in (n + 1) .. (n + (last - cursor)) : delivered'[i] = b[i - n]
      BY <2>3, <3>1, <3>2
    <3> QED  BY <3>1, <3>3, <3>4, <3>5
  <2>5. CASE last = cursor
    <3>1. delivered' = delivered /\ lastEventId' = lastEventId
      BY <1>1, <2>1, <2>3, <2>5 DEF b
    <3> QED  BY <1>1, <2>1, <2>2, <2>5, <3>1 DEF Consecutive
  <2>6. CASE last > cursor
    <3>1. n > 0 => delivered[n].event = cursor /\ delivered[n].event = delivered[1].event + (n - 1)
      <4>1. ASSUME n > 0
            PROVE  /\ lastEventId = delivered[n].event /\ n \in 1 .. n
                   /\ delivered[n] \in Stream!Message
        BY <1>1, <2>4, <4>1 DEF Consecutive
      <4>2. ASSUME n > 0
            PROVE  delivered[n].event # Stream!NoId
        BY <4>1, <4>2, MessageIsTyped, StreamNumbers DEF Stream!NoId
      <4> QED  BY <2>2, <4>1, <4>2 DEF Consecutive
    <3>2. delivered'[1].event \in Nat
      <4>1. 1 \in 1 .. Len(delivered')
        BY <1>1, <2>4, <2>6
      <4>2. delivered'[1] \in Stream!Message
        BY <2>4, <4>1
      <4> QED  BY <4>2, MessageIsTyped
    <3>3. \A i \in 1 .. (n + (last - cursor)) :
             delivered'[i].whole /\ delivered'[i].event = delivered'[1].event + (i - 1)
      <4>1. CASE n = 0
        BY <1>1, <2>3, <2>4, <2>6, <4>1
      <4>2. CASE n > 0
        <5>1. delivered'[1] = delivered[1]
          BY <2>4, <4>2
        <5>2. \A i \in 1 .. n :
                 delivered[i].whole /\ delivered[i].event = delivered[1].event + (i - 1)
          BY DEF Consecutive
        <5>3. ASSUME NEW i \in (n + 1) .. (n + (last - cursor))
              PROVE  /\ delivered'[i].whole
                     /\ delivered'[i].event = delivered'[1].event + (i - 1)
          <6>1. i - n \in 1 .. (last - cursor) /\ delivered'[i] = b[i - n]
            <7>1. delivered'[i] = b[i - n]
              BY <2>4
            <7>2. n \in Nat /\ last \in Nat /\ cursor \in Nat /\ i \in Int
              BY <1>1, <2>1, <2>4
            <7> QED  BY ONLY <7>1, <7>2
          <6>2. b[i - n].whole /\ b[i - n].event = cursor + (i - n)
            BY <6>1, <2>3
          <6>3. /\ cursor = delivered'[1].event + (n - 1) /\ delivered'[1].event \in Nat
                /\ n \in Nat /\ i \in Int /\ delivered'[i].event = cursor + (i - n)
            BY <1>1, <2>4, <3>1, <3>2, <4>2, <5>1, <6>1, <6>2
          <6>4. delivered'[i].event = delivered'[1].event + (i - 1)
            BY ONLY <6>3
          <6>5. delivered'[i].whole
            BY <6>1, <6>2
          <6> QED  BY <6>4, <6>5
        <5> QED  BY <2>4, <5>1, <5>2, <5>3
      <4> QED  BY <2>4, <4>1, <4>2
    <3>4. lastEventId' = last /\ delivered'[n + (last - cursor)].event = last
      <4>1. n + (last - cursor) \in (n + 1) .. (n + (last - cursor))
        BY <1>1, <2>4, <2>6
      <4>2. delivered'[n + (last - cursor)] = b[last - cursor]
        BY <1>1, <2>4, <4>1
      <4>3. /\ last - cursor \in 1 .. (last - cursor) /\ cursor + (last - cursor) = last
            /\ lastEventId' = last
        BY <1>1, <2>1, <2>6
      <4>4. b[last - cursor].event = cursor + (last - cursor)
        BY <2>3, <4>3
      <4> QED  BY <4>2, <4>3, <4>4
    <3>5. delivered' # <<>>
      BY <2>4, <2>6, <1>1
    <3> QED  BY <2>1, <2>2, <2>4, <3>3, <3>4, <3>5 DEF Consecutive
  <2> QED  BY <1>1, <2>5, <2>6
<1>5. CASE Stream!BodyEnds
  <2>1. Stream!Flushed = <<>> /\ buffer = "none"
    BY <1>5 DEF Stream!BodyEnds, Stream!Flushed
  <2>2. UNCHANGED <<delivered, lastEventId>>
    BY <1>1, <1>5, <2>1 DEF Stream!BodyEnds
  <2>3. ~ Stream!ProxyPipes
    BY <1>5 DEF Stream!BodyEnds, Stream!ProxyPipes
  <2> QED  BY <1>2, <2>2, <2>3
<1> QED
  BY <1>2, <1>3, <1>4, <1>5
     DEF Stream!Next, Stream!Emit, Stream!ProxyRequest, Stream!ClientGoes, Stream!FetchFails,
         Stream!Connected, Stream!ReadFails, Stream!Retry, Stream!Close, Stream!clientVars,
         Stream!serverVars

\* Consecutive events are in order, and none is missing.
LEMMA ConsecutiveIsComplete ==
    ASSUME ServicesAssumption, StreamInv, Consecutive
    PROVE  EventsArriveComplete
<1>1. delivered \in Seq(Stream!Message) /\ DOMAIN delivered = 1 .. Len(delivered)
  BY DEF StreamInv, Stream!StreamTypeOK
<1>2. \A i \in 1 .. Len(delivered) :
         /\ delivered[i].event \in Nat /\ delivered[1].event \in Nat
         /\ delivered[i].whole /\ delivered[i].event = delivered[1].event + (i - 1)
  <2>1. \A i \in 1 .. Len(delivered) : delivered[i] \in Stream!Message
    BY <1>1
  <2>2. \A i \in 1 .. Len(delivered) : delivered[i].event \in Nat
    BY <2>1, MessageIsTyped
  <2>3. \A i \in 1 .. Len(delivered) : 1 \in 1 .. Len(delivered)
    BY <1>1
  <2> QED  BY <2>2, <2>3 DEF Consecutive
<1>3. Stream!DeliveredInOrder
  BY <1>1, <1>2 DEF Stream!DeliveredInOrder
<1>4. Stream!ResumeSkipsNothing
  <2> SUFFICES ASSUME NEW e \in Stream!Ids, e <= lastEventId, lastEventId # Stream!NoId,
                      NEW m \in Stream!ToSet(delivered), m.event <= e
               PROVE  \E k \in Stream!ToSet(delivered) : k.event = e /\ k.whole
    BY DEF Stream!ResumeSkipsNothing
  <2>1. PICK i \in 1 .. Len(delivered) : m = delivered[i]
    BY <1>1 DEF Stream!ToSet
  <2>2. /\ e \in Nat /\ Len(delivered) \in Nat \ {0}
        /\ lastEventId = delivered[Len(delivered)].event
    BY <1>1, <2>1 DEF Consecutive, Stream!Ids
  <2> DEFINE k == e - delivered[1].event + 1
  <2>3. k \in 1 .. Len(delivered) /\ delivered[k].event = e
    <3> DEFINE d == delivered[1].event
               n == Len(delivered)
    <3>1. n \in 1 .. n /\ n \in Nat /\ d \in Nat /\ lastEventId = d + (n - 1)
      BY <1>2, <2>1, <2>2
    <3>2. i \in Nat /\ i >= 1 /\ m.event = d + (i - 1)
      BY <1>2, <2>1, <2>2
    <3> HIDE DEF d, n
    <3>3. e - d + 1 \in 1 .. n /\ d + ((e - d + 1) - 1) = e
      BY <2>2, <3>1, <3>2
    <3> QED  BY <1>2, <3>3 DEF d, n
  <2> QED  BY <1>1, <1>2, <2>3 DEF Stream!ToSet
<1> QED  BY <1>3, <1>4 DEF EventsArriveComplete

(***************************************************************************)
(* The verifier.                                                           *)
(***************************************************************************)

\* The stages of a run, and the one at which a group is compared.
LastStage == IF Version = "v4" THEN 7 ELSE 6

ComparedIn(c) ==
    CASE c = "record" -> 1
      [] c = "program" -> 3
      [] c = "ownership" -> IF Version = "v4" THEN 4 ELSE 5
      [] c \in {"roots", "state"} -> 5
      [] c = "transactions" -> 6
      [] c = "closures" -> IF Version = "v4" THEN 7 ELSE 5

\* What a group is found to be when it is compared.
Found(c) ==
    IF c = "transactions" /\ "transactions" \in missing THEN "UNKNOWN"
    ELSE IF c \in matches THEN "VERIFIED" ELSE "FAILED"

\* Before stage n, the groups that stages before it have compared, and no others.
ComparedBefore(cs, n) ==
    /\ \A c \in Verifier!GroupSet : cs[c] = IF n > ComparedIn(c) THEN {Found(c)} ELSE {}
    /\ cs["rpc"] = {} /\ cs["onchain"] = {}

\* A run that goes on has compared everything up to its stage and found what it needs.
RunSound ==
    verdict = "none" =>
        /\ ComparedBefore(checks, stage)
        /\ stage > 4 => "accounts" \notin missing
        /\ stage > 6 => read = Transactions

VerifierInv ==
    /\ Verifier!VerifierTypeOK
    /\ rpc = "backoff" => rpcAttempt < TransportAttempts
    /\ RunSound
    /\ Verifier!VerifiedMeansAllAgreed

\* The stages by number.
LEMMA StagesByNumber ==
    ASSUME ServicesAssumption
    PROVE  /\ Len(Verifier!Stages) = LastStage /\ DOMAIN Verifier!Stages = 1 .. LastStage
           /\ Verifier!Stages[1] = "record" /\ Verifier!Stages[2] = "slot"
           /\ Verifier!Stages[3] = "program" /\ Verifier!Stages[4] = "accounts"
           /\ Verifier!Stages[5] = "roots" /\ Verifier!Stages[6] = "transactions"
           /\ LastStage = 7 => Verifier!Stages[7] = "closures"
<1> DEFINE six == <<"record", "slot", "program", "accounts", "roots", "transactions">>
<1>1. CASE Version = "v4"
  <2>1. Verifier!Stages = six \o <<"closures">>
    BY <1>1 DEF Verifier!Stages
  <2>2. Append(six, "closures") = six \o <<"closures">>
    OBVIOUS
  <2>3. /\ Len(Append(six, "closures")) = 7
        /\ DOMAIN Append(six, "closures") = 1 .. 7
        /\ Append(six, "closures")[7] = "closures"
    OBVIOUS
  <2>4. \A i \in 1 .. 6 : Append(six, "closures")[i] = six[i]
    OBVIOUS
  <2> QED  BY <1>1, <2>1, <2>2, <2>3, <2>4 DEF LastStage
<1>2. CASE Version # "v4"
  <2>1. Verifier!Stages = six \o <<>>
    BY <1>2 DEF Verifier!Stages
  <2>2. six \o <<>> = six
    OBVIOUS
  <2> QED  BY <1>2, <2>1, <2>2 DEF LastStage
<1> QED  BY <1>1, <1>2

\* A stage compares the groups that are compared in it.
LEMMA ComparedInStage ==
    ASSUME ServicesAssumption, NEW n \in 1 .. LastStage
    PROVE  /\ Verifier!ComparedAt(Verifier!Stages[n]) \subseteq Verifier!GroupSet
           /\ \A c \in Verifier!GroupSet :
                 /\ c \in Verifier!ComparedAt(Verifier!Stages[n]) <=> ComparedIn(c) = n
                 /\ ComparedIn(c) \in 1 .. LastStage
<1>1. Version \in {"v3", "v4"}
  BY DEF ServicesAssumption
<1>2. \A c \in Verifier!GroupSet : ComparedIn(c) \in 1 .. LastStage
  BY <1>1 DEF ComparedIn, LastStage, Verifier!GroupSet
<1>3. n \in 1 .. 7 /\ (n = 7 => LastStage = 7)
  BY DEF LastStage
<1>4. /\ ComparedIn("record") = 1 /\ ComparedIn("program") = 3
      /\ ComparedIn("ownership") = IF Version = "v4" THEN 4 ELSE 5
      /\ ComparedIn("roots") = 5 /\ ComparedIn("state") = 5
      /\ ComparedIn("transactions") = 6
      /\ ComparedIn("closures") = IF Version = "v4" THEN 7 ELSE 5
  BY DEF ComparedIn
<1>5. /\ Verifier!ComparedAt("record") = {"record"}
      /\ Verifier!ComparedAt("slot") = {}
      /\ Verifier!ComparedAt("program") = {"program"}
      /\ Verifier!ComparedAt("accounts") = (IF Version = "v4" THEN {"ownership"} ELSE {})
      /\ Verifier!ComparedAt("roots") =
            {"roots", "state"} \cup (IF Version = "v3" THEN {"ownership", "closures"} ELSE {})
      /\ Verifier!ComparedAt("transactions") = {"transactions"}
      /\ Verifier!ComparedAt("closures") = {"closures"}
  BY DEF Verifier!ComparedAt
<1>6. Verifier!GroupSet =
         {"record", "program", "ownership", "roots", "state", "transactions", "closures"}
  BY DEF Verifier!GroupSet
<1> DEFINE at == Verifier!ComparedAt(Verifier!Stages[n])
<1>7. /\ n = 1 => at = {"record"}
      /\ n = 2 => at = {}
      /\ n = 3 => at = {"program"}
      /\ n = 4 => at = (IF Version = "v4" THEN {"ownership"} ELSE {})
      /\ n = 5 => at = {"roots", "state"}
                         \cup (IF Version = "v3" THEN {"ownership", "closures"} ELSE {})
      /\ n = 6 => at = {"transactions"}
      /\ n = 7 => at = {"closures"} /\ Version = "v4"
  BY <1>3, <1>5, StagesByNumber DEF LastStage
<1> HIDE DEF at
<1>8. CASE Version = "v4"
  <2>1. \A c \in Verifier!GroupSet : c \in at <=> ComparedIn(c) = n
    BY ONLY <1>3, <1>4, <1>6, <1>7, <1>8
  <2>2. at \subseteq Verifier!GroupSet
    BY ONLY <1>3, <1>6, <1>7, <1>8
  <2> QED  BY <1>2, <2>1, <2>2 DEF at
<1>9. CASE Version = "v3"
  <2>1. \A c \in Verifier!GroupSet : c \in at <=> ComparedIn(c) = n
    BY ONLY <1>3, <1>4, <1>6, <1>7, <1>9
  <2>2. at \subseteq Verifier!GroupSet
    BY ONLY <1>3, <1>6, <1>7, <1>9
  <2> QED  BY <1>2, <2>1, <2>2 DEF at
<1> QED  BY <1>1, <1>8, <1>9

\* The checks keep their type.
LEMMA ChecksTyped ==
    ASSUME Verifier!VerifierTypeOK
    PROVE  /\ \A n : Verifier!Compared(n) \in [Verifier!CheckIds -> SUBSET Verifier!Statuses]
           /\ \A c, s : s \in Verifier!Statuses =>
                 Verifier!Push(c, s) \in [Verifier!CheckIds -> SUBSET Verifier!Statuses]
<1>1. checks \in [Verifier!CheckIds -> SUBSET Verifier!Statuses]
  BY DEF Verifier!VerifierTypeOK
<1>2. ASSUME NEW n
      PROVE  Verifier!Compared(n) \in [Verifier!CheckIds -> SUBSET Verifier!Statuses]
  BY <1>1 DEF Verifier!Compared, Verifier!Statuses
<1>3. ASSUME NEW c, NEW s \in Verifier!Statuses
      PROVE  Verifier!Push(c, s) \in [Verifier!CheckIds -> SUBSET Verifier!Statuses]
  BY <1>1 DEF Verifier!Push
<1> QED  BY <1>2, <1>3

\* A run that ends with something pushed that is not a success does not say VERIFIED.
LEMMA EndsBadly ==
    ASSUME Verifier!VerifierTypeOK, NEW c \in Verifier!CheckIds,
           NEW s \in {"FAILED", "UNKNOWN"}, Verifier!Finish(Verifier!Push(c, s))
    PROVE  /\ verdict' \in {"FAILED", "UNKNOWN"}
           /\ checks' \in [Verifier!CheckIds -> SUBSET Verifier!Statuses]
<1> DEFINE p == Verifier!Push(c, s)
           all == UNION {p[d] : d \in Verifier!CheckIds}
<1>1. s \in Verifier!Statuses /\ checks \in [Verifier!CheckIds -> SUBSET Verifier!Statuses]
  BY DEF Verifier!Statuses, Verifier!VerifierTypeOK
<1>2. s \in p[c]
  BY <1>1 DEF Verifier!Push
<1>3. checks' = p /\ verdict' = Verifier!StatusFrom(p)
  BY DEF Verifier!Finish
<1>4. p \in [Verifier!CheckIds -> SUBSET Verifier!Statuses]
  BY <1>1, ChecksTyped
<1> HIDE DEF p
<1>5. s \in all
  BY <1>2
<1>6. Verifier!StatusFrom(p) \in {"FAILED", "UNKNOWN"}
  BY <1>5 DEF Verifier!StatusFrom
<1> QED  BY <1>3, <1>4, <1>6

\* The next stage, or the verdict.
LEMMA ProceedKeeps ==
    ASSUME ServicesAssumption, VerifierInv, verdict = "none",
           NEW cs \in [Verifier!CheckIds -> SUBSET Verifier!Statuses], Verifier!Proceed(cs),
           ComparedBefore(cs, stage + 1), UNCHANGED <<matches, missing>>,
           stage = 4 => "accounts" \notin missing,
           read' = read \/ stage = 6, stage = 6 => read' = Transactions
    PROVE  /\ RunSound' /\ Verifier!VerifiedMeansAllAgreed'
           /\ stage' \in DOMAIN Verifier!Stages /\ checks' = cs
           /\ verdict' \in Verifier!Statuses \cup {"none"}
<1>1. /\ stage \in 1 .. LastStage /\ Len(Verifier!Stages) = LastStage
      /\ DOMAIN Verifier!Stages = 1 .. LastStage /\ LastStage \in {6, 7}
      /\ missing \subseteq Verifier!Absences /\ matches \subseteq Verifier!GroupSet
  BY StagesByNumber DEF VerifierInv, Verifier!VerifierTypeOK, LastStage
<1>2. /\ stage > 4 => "accounts" \notin missing
      /\ stage > 6 => read = Transactions
  BY DEF VerifierInv, RunSound
<1>3. checks' = cs
  BY DEF Verifier!Proceed
<1> DEFINE ends == stage = LastStage \/ (stage = 6 /\ Verifier!NoClosures)
<1>4_1. ends <=> Verifier!AtEnd
  BY <1>1, StagesByNumber DEF Verifier!AtEnd, Verifier!Current
<1>4_2. ends => \A g \in Verifier!GroupsOfRecord : stage + 1 > ComparedIn(g)
  <2>1. Verifier!GroupsOfRecord \subseteq Verifier!GroupSet
    BY DEF Verifier!GroupsOfRecord
  <2>2. \A g \in Verifier!GroupSet : ComparedIn(g) \in 1 .. LastStage
    BY <1>1, ComparedInStage
  <2>3. CASE stage = LastStage
    BY <1>1, <2>1, <2>2, <2>3
  <2>4. CASE stage = 6 /\ Verifier!NoClosures
    <3>1. \A g \in Verifier!GroupSet \ {"closures"} : ComparedIn(g) \in 1 .. 6
      BY DEF Verifier!GroupSet, ComparedIn
    <3>2. Verifier!GroupsOfRecord = Verifier!GroupSet \ {"closures"}
      BY <2>4 DEF Verifier!GroupsOfRecord
    <3> QED  BY <2>4, <3>1, <3>2
  <2> QED  BY <2>3, <2>4
<1> HIDE DEF ends
<1>4. CASE ends
  <2> DEFINE all == UNION {cs[d] : d \in Verifier!CheckIds}
  <2>1. verdict' = Verifier!StatusFrom(cs) /\ stage' = stage
    BY <1>4, <1>4_1 DEF Verifier!Proceed
  <2>2. verdict' \in Verifier!Statuses
    BY <2>1 DEF Verifier!StatusFrom, Verifier!Statuses
  <2>3. ASSUME verdict' = "VERIFIED"
        PROVE  /\ Verifier!GroupsOfRecord' \subseteq matches'
               /\ missing' \cap {"accounts", "transactions"} = {}
               /\ read' = Transactions
               /\ \A g \in Verifier!GroupsOfRecord' : checks'[g] = {"VERIFIED"}
    <3>0. /\ Verifier!GroupsOfRecord' = Verifier!GroupsOfRecord
          /\ Verifier!GroupsOfRecord \subseteq Verifier!GroupSet
          /\ "transactions" \in Verifier!GroupsOfRecord
          /\ stage \in {6, 7}
      BY <1>1, <1>4 DEF Verifier!GroupsOfRecord, Verifier!NoClosures, Verifier!GroupSet, ends
    <3>1. "FAILED" \notin all /\ "UNKNOWN" \notin all
      BY <2>1, <2>3 DEF Verifier!StatusFrom
    <3>2. ASSUME NEW g \in Verifier!GroupsOfRecord
          PROVE  cs[g] = {Found(g)} /\ Found(g) = "VERIFIED"
      <4>1. stage + 1 > ComparedIn(g)
        BY <1>4, <1>4_2
      <4>2. cs[g] = {Found(g)}
        BY <3>0, <4>1 DEF ComparedBefore
      <4>3. Found(g) \in all
        <5>1. g \in Verifier!CheckIds /\ Found(g) \in cs[g]
          BY <3>0, <4>2 DEF Verifier!CheckIds
        <5> QED  BY <5>1
      <4>4. Found(g) \in {"VERIFIED", "UNKNOWN", "FAILED"}
        BY DEF Found
      <4> QED  BY <3>1, <4>2, <4>3, <4>4
    <3>3. \A g \in Verifier!GroupsOfRecord : g \in matches
      BY <3>2 DEF Found
    <3>4. "transactions" \notin missing
      BY <3>0, <3>2 DEF Found
    <3>5. read' = Transactions
      BY <1>1, <1>2, <3>0
    <3> QED  BY <1>2, <1>3, <3>0, <3>2, <3>3, <3>4, <3>5
  <2> QED
    BY <1>1, <1>3, <1>4, <2>1, <2>2, <2>3
       DEF RunSound, Verifier!VerifiedMeansAllAgreed, Verifier!Statuses
<1>5. CASE ~ ends
  <2>1. stage' = stage + 1 /\ verdict' = verdict
    BY <1>4_1, <1>5 DEF Verifier!Proceed
  <2>2. stage' \in 1 .. LastStage
    BY <1>1, <1>5, <2>1 DEF ends
  <2>3. ComparedBefore(checks, stage)'
    BY <1>3, <2>1 DEF ComparedBefore, Found
  <2>4. /\ stage' > 4 => "accounts" \notin missing'
        /\ stage' > 6 => read' = Transactions
    BY <1>1, <1>2, <2>1
  <2> QED
    BY <1>1, <1>3, <2>1, <2>2, <2>3, <2>4 DEF RunSound, Verifier!VerifiedMeansAllAgreed
<1> QED  BY <1>4, <1>5

\* What a stage finds is what was to be found.
LEMMA StageCompares ==
    ASSUME ServicesAssumption, VerifierInv, verdict = "none",
           Verifier!Current # "transactions" \/ "transactions" \notin missing
    PROVE  ComparedBefore(Verifier!Compared(Verifier!Current), stage + 1)
<1> DEFINE at == Verifier!ComparedAt(Verifier!Current)
           cs == Verifier!Compared(Verifier!Current)
<1>1. stage \in 1 .. LastStage
  BY StagesByNumber DEF VerifierInv, Verifier!VerifierTypeOK
<1>2. /\ at \subseteq Verifier!GroupSet
      /\ \A c \in Verifier!GroupSet :
            (c \in at <=> ComparedIn(c) = stage) /\ ComparedIn(c) \in 1 .. LastStage
  BY <1>1, ComparedInStage DEF Verifier!Current
<1>3. ComparedBefore(checks, stage)
  BY DEF VerifierInv, RunSound
<1>4. \A c \in Verifier!CheckIds :
         cs[c] = IF c \in at
                 THEN checks[c] \cup {IF c \in matches THEN "VERIFIED" ELSE "FAILED"}
                 ELSE checks[c]
  BY DEF Verifier!Compared
<1>5. ASSUME ComparedIn("transactions") = stage
      PROVE  "transactions" \notin missing
  BY <1>1, <1>5, StagesByNumber DEF ComparedIn, Verifier!Current
<1> HIDE DEF at, cs
<1>6. ASSUME NEW c \in Verifier!GroupSet
      PROVE  cs[c] = IF stage + 1 > ComparedIn(c) THEN {Found(c)} ELSE {}
  <2>1. c \in Verifier!CheckIds
    BY DEF Verifier!CheckIds
  <2>2. checks[c] = IF stage > ComparedIn(c) THEN {Found(c)} ELSE {}
    BY <1>3 DEF ComparedBefore
  <2>3. CASE ComparedIn(c) = stage
    <3>1. Found(c) = IF c \in matches THEN "VERIFIED" ELSE "FAILED"
      BY <1>5, <2>3 DEF Found
    <3>2. checks[c] = {} /\ c \in at
      BY <1>1, <1>2, <2>2, <2>3
    <3> QED  BY <1>1, <1>4, <2>1, <2>3, <3>1, <3>2
  <2>4. CASE ComparedIn(c) # stage
    <3>1. cs[c] = checks[c]
      BY <1>2, <1>4, <2>1, <2>4
    <3>2. stage + 1 > ComparedIn(c) <=> stage > ComparedIn(c)
      BY <1>1, <1>2, <2>4
    <3> QED  BY <2>2, <3>1, <3>2
  <2> QED  BY <2>3, <2>4
<1>7. cs["rpc"] = {} /\ cs["onchain"] = {}
  <2>1. "rpc" \notin at /\ "onchain" \notin at
    BY <1>2 DEF Verifier!GroupSet
  <2> QED  BY <1>3, <1>4, <2>1 DEF ComparedBefore, Verifier!CheckIds
<1> QED  BY <1>6, <1>7 DEF ComparedBefore, cs

\* No step of the verifier calls a run verified that was not.
LEMMA VerifierStepKeeps ==
    ASSUME ServicesAssumption, VerifierInv, Verifier!Next
    PROVE  VerifierInv'
<1> USE DEF Verifier!world
<1>1. /\ Transactions \in Nat /\ BatchSize \in Nat
      /\ TransportAttempts \in Nat \ {0} /\ ReadAttempts \in Nat \ {0}
  BY DEF ServicesAssumption
<1>2. Verifier!VerifierTypeOK /\ RunSound /\ (rpc = "backoff" => rpcAttempt < TransportAttempts)
  BY DEF VerifierInv
<1>3. /\ stage \in 1 .. LastStage /\ DOMAIN Verifier!Stages = 1 .. LastStage
      /\ LastStage \in {6, 7}
  BY <1>2, StagesByNumber DEF Verifier!VerifierTypeOK, LastStage
<1>4. verdict = "none"
  BY DEF Verifier!Next, Verifier!CheckRecord, Verifier!NoRecord, Verifier!Send,
         Verifier!RequestFails, Verifier!Resend, Verifier!ReadAccounts,
         Verifier!ReadTransactions, Verifier!RequestGivesUp, Verifier!DeadlinePasses,
         Verifier!AnswerArrives, Verifier!Done
<1>5. /\ stage = 1 <=> Verifier!Current = "record"
      /\ stage = 4 <=> Verifier!Current = "accounts"
      /\ stage = 6 <=> Verifier!Current = "transactions"
  BY <1>3, StagesByNumber DEF Verifier!Current
<1>6. ASSUME UNCHANGED <<matches, missing, stage, checks, verdict>>,
             read' = read \/ (stage = 6 /\ read' \in 0 .. Transactions)
      PROVE  RunSound' /\ Verifier!VerifiedMeansAllAgreed'
  <2>1. stage > 6 => read' = Transactions
    BY <1>2, <1>3, <1>4, <1>6 DEF RunSound
  <2>2. ComparedBefore(checks, stage)'
    BY <1>2, <1>4, <1>6 DEF RunSound, ComparedBefore, Found
  <2> QED  BY <1>2, <1>4, <1>6, <2>1, <2>2 DEF RunSound, Verifier!VerifiedMeansAllAgreed
<1>7. ASSUME verdict' \in {"FAILED", "UNKNOWN"}
      PROVE  RunSound' /\ Verifier!VerifiedMeansAllAgreed'
  BY <1>7 DEF RunSound, Verifier!VerifiedMeansAllAgreed
<1>8. \A cs : Verifier!Proceed(cs) => checks' = cs
  BY DEF Verifier!Proceed
<1>9. CASE Verifier!CheckRecord
  <2> DEFINE cs == Verifier!Compared(Verifier!Current)
  <2>1. /\ Verifier!Proceed(cs) /\ stage = 1
        /\ UNCHANGED <<matches, missing, read, tries, rpc, rpcAttempt, error, expired>>
    BY <1>5, <1>9 DEF Verifier!CheckRecord
  <2>2. ComparedBefore(cs, stage + 1)
    BY <1>4, <1>5, <2>1, StageCompares
  <2>3. cs \in [Verifier!CheckIds -> SUBSET Verifier!Statuses]
    BY <1>2, ChecksTyped
  <2> HIDE DEF cs
  <2>4. /\ RunSound' /\ Verifier!VerifiedMeansAllAgreed'
        /\ stage' \in DOMAIN Verifier!Stages /\ checks' = cs
        /\ verdict' \in Verifier!Statuses \cup {"none"}
    BY <1>4, <2>1, <2>2, <2>3, ProceedKeeps
  <2> QED  BY <1>2, <2>1, <2>3, <2>4 DEF VerifierInv, Verifier!VerifierTypeOK
<1>10. CASE Verifier!NoRecord
  <2>1. "record" \in Verifier!CheckIds
    BY DEF Verifier!CheckIds, Verifier!GroupSet
  <2>2. /\ Verifier!Finish(Verifier!Push("record", "UNKNOWN"))
        /\ UNCHANGED <<matches, missing, stage, read, tries, rpc, rpcAttempt, error, expired>>
    BY <1>10 DEF Verifier!NoRecord
  <2>3. /\ verdict' \in {"FAILED", "UNKNOWN"}
        /\ checks' \in [Verifier!CheckIds -> SUBSET Verifier!Statuses]
    BY <1>2, <2>1, <2>2, EndsBadly
  <2> QED  BY <1>2, <1>7, <2>2, <2>3 DEF VerifierInv, Verifier!VerifierTypeOK, Verifier!Statuses
<1>11. CASE Verifier!Send
  <2>1. /\ UNCHANGED <<matches, missing, stage, read, tries, checks, expired, verdict>>
        /\ rpcAttempt' = 1 /\ rpc' \in {"idle", "sent"} /\ error' \in {"deadline", error}
    BY <1>11 DEF Verifier!Send, Verifier!Fetch
  <2> QED
    BY <1>1, <1>2, <1>6, <2>1 DEF VerifierInv, Verifier!VerifierTypeOK, Verifier!Errors
<1>12. CASE Verifier!RequestFails
  <2>1. /\ UNCHANGED <<matches, missing, stage, read, tries, rpcAttempt, checks, expired,
                       verdict>>
        /\ rpc' \in {"idle", "backoff"} /\ error' \in Verifier!Errors \cup {error}
        /\ rpc' = "backoff" => rpcAttempt < TransportAttempts
    BY <1>12 DEF Verifier!RequestFails, Verifier!Retried
  <2> QED  BY <1>2, <1>6, <2>1 DEF VerifierInv, Verifier!VerifierTypeOK
<1>13. CASE Verifier!Resend
  <2>1. /\ UNCHANGED <<matches, missing, stage, read, tries, checks, expired, verdict>>
        /\ rpcAttempt' = rpcAttempt + 1 /\ rpc = "backoff"
        /\ rpc' \in {"idle", "sent"} /\ error' \in {"deadline", error}
    BY <1>13 DEF Verifier!Resend, Verifier!Fetch
  <2>2. rpcAttempt' \in 0 .. TransportAttempts
    BY <1>1, <1>2, <2>1 DEF Verifier!VerifierTypeOK
  <2> QED
    BY <1>2, <1>6, <2>1, <2>2 DEF VerifierInv, Verifier!VerifierTypeOK, Verifier!Errors
<1>14. CASE Verifier!ReadAccounts
  <2>1. /\ Verifier!Current \in {"slot", "program", "accounts", "roots", "closures"}
        /\ rpc' = "idle" /\ rpcAttempt' = 0
        /\ UNCHANGED <<matches, missing, error, expired, read, tries>>
    BY <1>14 DEF Verifier!ReadAccounts, Verifier!AnswerArrives
  <2>2. CASE Verifier!Current = "accounts" /\ "accounts" \in missing
    <3>1. Verifier!Finish(Verifier!Push("onchain", "FAILED")) /\ UNCHANGED stage
      BY <1>14, <2>2 DEF Verifier!ReadAccounts
    <3>2. /\ verdict' \in {"FAILED", "UNKNOWN"}
          /\ checks' \in [Verifier!CheckIds -> SUBSET Verifier!Statuses]
      BY <1>2, <3>1, EndsBadly DEF Verifier!CheckIds
    <3> QED
      BY <1>1, <1>2, <1>7, <2>1, <3>1, <3>2
         DEF VerifierInv, Verifier!VerifierTypeOK, Verifier!Statuses
  <2>3. CASE ~ (Verifier!Current = "accounts" /\ "accounts" \in missing)
    <3> DEFINE cs == Verifier!Compared(Verifier!Current)
    <3>1. Verifier!Proceed(cs) /\ stage # 6
      BY <1>5, <1>14, <2>1, <2>3 DEF Verifier!ReadAccounts
    <3>2. ComparedBefore(cs, stage + 1)
      BY <1>4, <2>1, StageCompares
    <3>3. cs \in [Verifier!CheckIds -> SUBSET Verifier!Statuses]
      BY <1>2, ChecksTyped
    <3> HIDE DEF cs
    <3>4. /\ RunSound' /\ Verifier!VerifiedMeansAllAgreed'
          /\ stage' \in DOMAIN Verifier!Stages /\ checks' = cs
          /\ verdict' \in Verifier!Statuses \cup {"none"}
      BY <1>4, <1>5, <2>1, <2>3, <3>1, <3>2, <3>3, ProceedKeeps
    <3> QED  BY <1>1, <1>2, <2>1, <3>3, <3>4 DEF VerifierInv, Verifier!VerifierTypeOK
  <2> QED  BY <2>2, <2>3
<1>15. CASE Verifier!ReadTransactions
  <2>1. /\ stage = 6 /\ Verifier!Current = "transactions"
        /\ rpc' = "idle" /\ rpcAttempt' = 0 /\ tries' = 0
        /\ UNCHANGED <<matches, missing, error, expired>>
        /\ read' = Verifier!AtMost(read + BatchSize, Transactions)
    BY <1>5, <1>15 DEF Verifier!ReadTransactions, Verifier!AnswerArrives
  <2>2. read' \in 0 .. Transactions
    BY <1>1, <1>2, <2>1 DEF Verifier!AtMost, Verifier!VerifierTypeOK
  <2>3. tries' \in 0 .. (ReadAttempts - 1)
    BY <1>1, <2>1
  <2>4. CASE read' = Transactions
    <3> DEFINE cs == Verifier!TransactionsRead
    <3>1. Verifier!Proceed(cs)
      BY <1>15, <2>4 DEF Verifier!ReadTransactions
    <3>2. cs \in [Verifier!CheckIds -> SUBSET Verifier!Statuses]
      BY <1>2, ChecksTyped DEF Verifier!TransactionsRead, Verifier!Statuses
    <3>3. ComparedBefore(cs, stage + 1)
      <4>1. CASE "transactions" \notin missing
        BY <1>4, <2>1, <4>1, StageCompares DEF Verifier!TransactionsRead
      <4>2. CASE "transactions" \in missing
        <5>1. cs = [checks EXCEPT !["transactions"] = @ \cup {"UNKNOWN"}]
          BY <4>2 DEF Verifier!TransactionsRead, Verifier!Push
        <5>2. ComparedBefore(checks, stage)
          BY <1>2, <1>4 DEF RunSound
        <5>3. checks \in [Verifier!CheckIds -> SUBSET Verifier!Statuses]
          BY <1>2 DEF Verifier!VerifierTypeOK
        <5>4. \A c \in Verifier!GroupSet :
                 /\ c \in Verifier!CheckIds /\ ComparedIn(c) \in Int
                 /\ ComparedIn(c) = 6 <=> c = "transactions"
          <6>1. Verifier!ComparedAt("transactions") = {"transactions"}
            BY DEF Verifier!ComparedAt
          <6>2. \A c \in Verifier!GroupSet :
                   (c \in {"transactions"} <=> ComparedIn(c) = stage)
                   /\ ComparedIn(c) \in 1 .. LastStage
            BY <1>3, <2>1, <6>1, ComparedInStage DEF Verifier!Current
          <6> QED  BY <1>3, <2>1, <6>2 DEF Verifier!CheckIds
        <5>5. Found("transactions") = "UNKNOWN"
          BY <4>2 DEF Found
        <5>6. ASSUME NEW c \in Verifier!GroupSet
              PROVE  cs[c] = IF stage + 1 > ComparedIn(c) THEN {Found(c)} ELSE {}
          <6>1. checks[c] = IF stage > ComparedIn(c) THEN {Found(c)} ELSE {}
            BY <5>2 DEF ComparedBefore
          <6>2. CASE c = "transactions"
            BY <2>1, <5>1, <5>3, <5>4, <5>5, <6>1, <6>2
          <6>3. CASE c # "transactions"
            <7>1. cs[c] = checks[c]
              BY <5>1, <5>3, <6>3
            <7>2. stage + 1 > ComparedIn(c) <=> stage > ComparedIn(c)
              BY <2>1, <5>4, <6>3
            <7> QED  BY <6>1, <7>1, <7>2
          <6> QED  BY <6>2, <6>3
        <5>7. cs["rpc"] = {} /\ cs["onchain"] = {}
          BY <5>1, <5>2, <5>3 DEF ComparedBefore
        <5> QED  BY <5>6, <5>7 DEF ComparedBefore
      <4> QED  BY <4>1, <4>2
    <3> HIDE DEF cs
    <3>4. /\ RunSound' /\ Verifier!VerifiedMeansAllAgreed'
          /\ stage' \in DOMAIN Verifier!Stages /\ checks' = cs
          /\ verdict' \in Verifier!Statuses \cup {"none"}
      BY <1>4, <2>1, <2>4, <3>1, <3>2, <3>3, ProceedKeeps
    <3> QED
      BY <1>1, <1>2, <2>1, <2>2, <2>3, <3>2, <3>4 DEF VerifierInv, Verifier!VerifierTypeOK
  <2>5. CASE read' # Transactions
    <3>1. UNCHANGED <<stage, checks, verdict>>
      BY <1>15, <2>5 DEF Verifier!ReadTransactions
    <3> QED
      BY <1>1, <1>2, <1>6, <2>1, <2>2, <2>3, <3>1 DEF VerifierInv, Verifier!VerifierTypeOK
  <2> QED  BY <2>4, <2>5
<1>16. CASE Verifier!RequestGivesUp
  <2>1. /\ error' = "none" /\ rpcAttempt' = 0
        /\ UNCHANGED <<matches, missing, stage, read, rpc, expired>>
    BY <1>16 DEF Verifier!RequestGivesUp
  <2>2. rpcAttempt' \in 0 .. TransportAttempts /\ 0 < TransportAttempts
    BY <1>1, <2>1
  <2>3. CASE Verifier!Rereads
    <3>1. tries' = tries + 1 /\ UNCHANGED <<checks, verdict>> /\ tries + 1 < ReadAttempts
      BY <1>16, <2>3 DEF Verifier!RequestGivesUp, Verifier!Rereads
    <3>2. tries' \in 0 .. (ReadAttempts - 1)
      BY <1>1, <1>2, <3>1 DEF Verifier!VerifierTypeOK
    <3> QED
      BY <1>2, <1>6, <2>1, <2>2, <3>1, <3>2 DEF VerifierInv, Verifier!VerifierTypeOK
  <2>4. CASE ~ Verifier!Rereads
    <3>1. Verifier!Finish(Verifier!Conclude) /\ tries' = tries
      BY <1>16, <2>4 DEF Verifier!RequestGivesUp
    <3>2. \E c \in Verifier!CheckIds, s \in {"FAILED", "UNKNOWN"} :
             Verifier!Conclude = Verifier!Push(c, s)
      BY DEF Verifier!Conclude, Verifier!CheckIds
    <3>3. /\ verdict' \in {"FAILED", "UNKNOWN"}
          /\ checks' \in [Verifier!CheckIds -> SUBSET Verifier!Statuses]
      BY <1>2, <3>1, <3>2, EndsBadly
    <3> QED
      BY <1>2, <1>7, <2>1, <2>2, <3>1, <3>3
         DEF VerifierInv, Verifier!VerifierTypeOK, Verifier!Statuses
  <2> QED  BY <2>3, <2>4
<1>17. CASE Verifier!DeadlinePasses
  <2>1. /\ UNCHANGED <<matches, missing, stage, read, tries, rpc, rpcAttempt, error, checks,
                       verdict>>
        /\ expired' = TRUE
    BY <1>17 DEF Verifier!DeadlinePasses
  <2> QED  BY <1>2, <1>6, <2>1 DEF VerifierInv, Verifier!VerifierTypeOK
<1> QED
  BY <1>9, <1>10, <1>11, <1>12, <1>13, <1>14, <1>15, <1>16, <1>17 DEF Verifier!Next

(***************************************************************************)
(* The reference quotes.                                                   *)
(***************************************************************************)

\* The types, with the functions' own, and no count ahead of the calls.
QuotesTyped ==
    /\ clock \in Quotes!Times
    /\ breakers \in [Quotes!Hosts -> Quotes!Breaker]
    /\ buckets \in [Quotes!Keys -> Quotes!Bucket]
    /\ \A k \in Quotes!Keys : buckets[k].count <= calls
    /\ quoteCache \in Quotes!CacheEntry \cup {Null}
    /\ capture \in BOOLEAN
    /\ fetches \in [Loads -> Quotes!Fetch \cup {Null}]
    /\ answers \in [Loads -> Quotes!View \cup {Null}]
    /\ calls \in 0 .. MaxCalls
    /\ admitted \in [Quotes!Times -> 0 .. MaxCalls]
    /\ \A t \in Quotes!Times : admitted[t] <= calls

\* A cached quote that the policy accepted was recent when it was fetched.
CacheWasRecent ==
    quoteCache # Null /\ quoteCache.quote.quoteValid
        => quoteCache.servedAt - quoteCache.quote.quoteTimestamp <= maxQuoteAge

\* What is answered as live is recent, and a call that waits to try again may.
CallsSound ==
    /\ Quotes!LiveIsRecent
    /\ \A l \in Loads : fetches[l] # Null /\ fetches[l].phase = "backoff"
                       => fetches[l].attempt < maxRetries

\* No call looked at its circuit in the future, and an open circuit spares its host.
CircuitsHold ==
    /\ \A l \in Loads : fetches[l] # Null => fetches[l].began <= clock
    /\ Quotes!OpenCircuitSparesTheHost

\* The public calls let through at the ticks of a set, and the ticks from one on and
\* before another.
Through(S) == SumOver(admitted, S)
From(t) == {u \in Quotes!Times : t <= u}
Span(t, last) == {u \in Quotes!Times : t <= u /\ u < last}

\* The window of the public route: what it let through since it began is counted, and
\* the window before it kept the limit.
WindowStart == buckets[Quotes!Global].resetAt - WINDOW
WindowKeepsLimit ==
    /\ buckets[Quotes!Global].resetAt <= clock + WINDOW
    /\ buckets[Quotes!Global].count <= GLOBAL_LIMIT
    /\ \A u \in Quotes!Times : u >= buckets[Quotes!Global].resetAt => admitted[u] = 0
    /\ Through(From(WindowStart)) <= buckets[Quotes!Global].count
    /\ Through(Span(WindowStart - WINDOW, WindowStart)) <= GLOBAL_LIMIT

\* The rates, as sums over spans.
RatesHold ==
    \A t \in Quotes!Times :
        /\ admitted[t] <= GLOBAL_LIMIT
        /\ Through(Span(t, t + WINDOW)) <= 2 * GLOBAL_LIMIT

QuotesInv ==
    /\ QuotesTyped
    /\ CacheWasRecent /\ CallsSound
    /\ CircuitsHold
    /\ WindowKeepsLimit /\ RatesHold

\* The numbers of the quotes are numbers, and their ticks are finitely many.
LEMMA QuoteNumbers ==
    ASSUME ServicesAssumption
    PROVE  /\ MaxTime \in Nat \ {0} /\ MaxCalls \in Nat \ {0} /\ WINDOW \in Nat \ {0}
           /\ circuitFailureThreshold \in Nat \ {0}
           /\ GLOBAL_LIMIT \in Nat \ {0} /\ PER_IP_LIMIT \in Nat \ {0}
           /\ REFRESH_LIMIT \in Nat \ {0}
           /\ maxRetries \in Nat /\ circuitCooldown \in Nat /\ quoteCacheTtl \in Nat
           /\ maxQuoteAge \in Nat /\ Skew \in Nat /\ requestTimeout \in Nat
           /\ Quotes!Times = 1 .. MaxTime /\ IsFiniteSet(Quotes!Times)
           /\ \A t \in Quotes!Times : t \in Nat
<1>1. /\ MaxTime \in Nat \ {0} /\ MaxCalls \in Nat \ {0} /\ WINDOW \in Nat \ {0}
      /\ circuitFailureThreshold \in Nat \ {0}
      /\ GLOBAL_LIMIT \in Nat \ {0} /\ PER_IP_LIMIT \in Nat \ {0}
      /\ REFRESH_LIMIT \in Nat \ {0}
      /\ maxRetries \in Nat /\ circuitCooldown \in Nat /\ quoteCacheTtl \in Nat
      /\ maxQuoteAge \in Nat /\ Skew \in Nat /\ requestTimeout \in Nat
  BY DEF ServicesAssumption
<1>2. Quotes!Times = 1 .. MaxTime
  BY DEF Quotes!Times
<1>3. IsFiniteSet(Quotes!Times)
  BY <1>1, <1>2, FS_Interval
<1> QED  BY <1>1, <1>2, <1>3

\* The numbers in the records of the quotes.
LEMMA QuoteRecords ==
    ASSUME ServicesAssumption
    PROVE  /\ \A b \in Quotes!Bucket :
                 b.count \in Nat /\ b.count <= MaxCalls /\ b.resetAt \in Nat
           /\ \A b \in Quotes!Breaker : b.openUntil \in Nat
           /\ \A f \in Quotes!Fetch : f.began \in Nat /\ f.attempt \in Nat
<1>1. /\ MaxTime \in Nat /\ MaxCalls \in Nat /\ WINDOW \in Nat /\ circuitCooldown \in Nat
      /\ maxRetries \in Nat /\ Quotes!Times = 1 .. MaxTime
  BY QuoteNumbers
<1>2. \A b \in Quotes!Bucket : b.count \in Nat /\ b.count <= MaxCalls /\ b.resetAt \in Nat
  BY <1>1 DEF Quotes!Bucket
<1>3. \A b \in Quotes!Breaker : b.openUntil \in Nat
  BY <1>1 DEF Quotes!Breaker
<1>4. \A f \in Quotes!Fetch : f.began \in Nat /\ f.attempt \in Nat
  BY <1>1 DEF Quotes!Fetch
<1> QED  BY <1>2, <1>3, <1>4

\* The calls let through are a sum, as the quotes' own module states it.
LEMMA RatesAreSums ==
    ASSUME RatesHold
    PROVE  Quotes!RateIsBounded
BY DEF RatesHold, Through, Span, Quotes!RateIsBounded, Quotes!MapThenSumSet,
       Quotes!MapThenFoldSet, SumOver, MapThenSumSet, MapThenFoldSet

\* What a rate limiter's bucket becomes.
LEMMA CountedIsTyped ==
    ASSUME ServicesAssumption, QuotesTyped, NEW k \in Quotes!Keys, NEW limit \in Nat \ {0},
           calls < MaxCalls
    PROVE  LET b == buckets[k]
               c == Quotes!Counted(b, limit)
           IN  /\ c \in Quotes!Bucket /\ c.count <= calls + 1
               /\ b.count <= limit => c.count <= limit
               /\ b.resetAt <= clock => c = [count |-> 1, resetAt |-> clock + WINDOW]
               /\ b.resetAt > clock => /\ c.resetAt = b.resetAt /\ b.count <= c.count
                                       /\ b.count < limit => c.count = b.count + 1
<1> DEFINE b == buckets[k]
           c == Quotes!Counted(b, limit)
<1>1. /\ b \in [count : 0 .. MaxCalls, resetAt : 0 .. MaxTime + WINDOW]
      /\ b.count <= calls /\ calls \in Nat
  BY DEF QuotesTyped, Quotes!Bucket
<1>2. b.count \in Nat /\ b.count <= MaxCalls /\ b.resetAt \in Nat
  BY <1>1, QuoteRecords DEF Quotes!Bucket
<1>3. clock \in 1 .. MaxTime /\ MaxTime \in Nat /\ WINDOW \in Nat /\ MaxCalls \in Nat
  BY QuoteNumbers DEF QuotesTyped
<1> HIDE DEF b
<1>4. CASE b.resetAt <= clock
  <2>1. c = [count |-> 1, resetAt |-> clock + WINDOW]
    BY <1>2, <1>3, <1>4 DEF Quotes!Counted
  <2>2. c.count = 1 /\ c.resetAt = clock + WINDOW
    BY <2>1
  <2>3. 1 \in 0 .. MaxCalls /\ clock + WINDOW \in 0 .. MaxTime + WINDOW /\ 1 <= calls + 1
    BY <1>1, <1>3, QuoteNumbers
  <2>4. c \in Quotes!Bucket
    BY <2>1, <2>3 DEF Quotes!Bucket
  <2> QED  BY <1>2, <1>3, <1>4, <2>1, <2>2, <2>3, <2>4 DEF b
<1>5. CASE b.resetAt > clock /\ b.count >= limit
  <2>1. c = b
    BY <1>2, <1>3, <1>5 DEF Quotes!Counted
  <2>2. b.count <= calls + 1 /\ ~ b.count < limit /\ ~ b.resetAt <= clock
    BY <1>1, <1>2, <1>3, <1>5
  <2> QED  BY <1>1, <1>2, <1>5, <2>1, <2>2 DEF b, Quotes!Bucket
<1>6. CASE b.resetAt > clock /\ b.count < limit
  <2>1. c = [b EXCEPT !.count = @ + 1]
    BY <1>2, <1>3, <1>6 DEF Quotes!Counted
  <2>2. c.count = b.count + 1 /\ c.resetAt = b.resetAt
    BY <1>1, <2>1
  <2>3. b.count + 1 \in 0 .. MaxCalls /\ b.count + 1 <= calls + 1 /\ b.count + 1 <= limit
    BY <1>1, <1>2, <1>3, <1>6
  <2>4. c \in Quotes!Bucket
    BY <1>1, <2>1, <2>3 DEF Quotes!Bucket
  <2> QED  BY <1>2, <1>3, <1>6, <2>2, <2>3, <2>4 DEF b
<1> QED  BY <1>2, <1>3, <1>4, <1>5, <1>6

\* A tally of the ticks: its sums are numbers, a set covered by two others has no more
\* than both, and one more at a tick is one more in each set with that tick.
LEMMA Tallies ==
    ASSUME ServicesAssumption, NEW f, \A t \in Quotes!Times : f[t] \in Nat
    PROVE  /\ \A A \in SUBSET Quotes!Times : SumOver(f, A) \in Nat
           /\ \A A, B, S \in SUBSET Quotes!Times :
                 S \subseteq A \cup B => SumOver(f, S) <= SumOver(f, A) + SumOver(f, B)
           /\ \A A, S \in SUBSET Quotes!Times :
                 S \subseteq A => SumOver(f, S) <= SumOver(f, A)
<1>1. IsFiniteSet(Quotes!Times)
  BY QuoteNumbers
<1>2. ASSUME NEW A \in SUBSET Quotes!Times
      PROVE  SumOver(f, A) \in Nat
  <2>1. IsFiniteSet(A)
    BY <1>1, FS_Subset
  <2> QED  BY <2>1, SumBoundsTerms
<1>3. ASSUME NEW A \in SUBSET Quotes!Times, NEW B \in SUBSET Quotes!Times,
             NEW S \in SUBSET Quotes!Times, S \subseteq A \cup B
      PROVE  SumOver(f, S) <= SumOver(f, A) + SumOver(f, B)
  BY <1>1, <1>3, SumOfCover
<1>4. ASSUME NEW A \in SUBSET Quotes!Times, NEW S \in SUBSET Quotes!Times, S \subseteq A
      PROVE  SumOver(f, S) <= SumOver(f, A)
  <2>1. IsFiniteSet(A) /\ IsFiniteSet(A \ S)
    BY <1>1, FS_Subset
  <2>2. SumOver(f, A) = SumOver(f, S) + SumOver(f, A \ S)
    BY <1>4, <2>1, SumOfParts
  <2>3. SumOver(f, S) \in Nat /\ SumOver(f, A \ S) \in Nat
    BY <1>2
  <2> QED  BY <2>2, <2>3
<1> QED  BY <1>2, <1>3, <1>4

\* One more call let through now.
LEMMA OneMoreThrough ==
    ASSUME ServicesAssumption, QuotesTyped,
           admitted' = [admitted EXCEPT ![clock] = @ + 1]
    PROVE  /\ \A t \in Quotes!Times : admitted'[t] \in Nat
           /\ \A S \in SUBSET Quotes!Times :
                 SumOver(admitted', S) = Through(S) + IF clock \in S THEN 1 ELSE 0
<1>1. /\ \A t \in Quotes!Times : admitted[t] \in Nat
      /\ clock \in Quotes!Times
      /\ \A t \in Quotes!Times : admitted'[t] = admitted[t] + IF t = clock THEN 1 ELSE 0
  <2>1. MaxCalls \in Nat /\ admitted \in [Quotes!Times -> 0 .. MaxCalls]
        /\ clock \in Quotes!Times
    BY QuoteNumbers DEF QuotesTyped
  <2>2. \A t \in Quotes!Times : admitted[t] \in Nat
    BY <2>1
  <2>3. \A t \in Quotes!Times : admitted'[t] = IF t = clock THEN admitted[t] + 1
                                               ELSE admitted[t]
    BY <2>1
  <2> QED  BY <2>1, <2>2, <2>3
<1>2. \A t \in Quotes!Times : admitted'[t] \in Nat
  BY <1>1
<1>3. ASSUME NEW S \in SUBSET Quotes!Times
      PROVE  SumOver(admitted', S) = Through(S) + IF clock \in S THEN 1 ELSE 0
  <2> DEFINE f == admitted
             g == admitted'
  <2>1. IsFiniteSet(S)
    BY QuoteNumbers, FS_Subset
  <2>2. /\ \A x \in S : f[x] \in Int /\ g[x] \in Int
        /\ \A x \in S : x # clock => g[x] = f[x]
        /\ clock \in S => g[clock] = f[clock] + 1
    BY <1>1, <1>2
  <2>3. SumOver(f, S) \in Int
    BY <2>1, <2>2, SumIsInt
  <2> HIDE DEF f, g
  <2>4. CASE clock \in S
    <3>1. SumOver(g, S) = SumOver(f, S) + (g[clock] - f[clock])
      <4>1. /\ \A x \in S : f[x] \in Int /\ g[x] \in Int
            /\ \A x \in S : x # clock => g[x] = f[x]
        BY <2>2
      <4> QED  BY ONLY <2>1, <2>4, <4>1, SumChange
    <3>2. g[clock] - f[clock] = 1
      BY <2>2, <2>4
    <3> QED  BY <2>4, <3>1, <3>2 DEF f, g, Through
  <2>5. CASE clock \notin S
    <3>1. SumOver(g, S) = SumOver(f, S)
      BY <2>1, <2>2, <2>5, SumSame
    <3> QED  BY <2>3, <2>5, <3>1 DEF f, g, Through
  <2> QED  BY <2>4, <2>5
<1> QED  BY <1>2, <1>3

\* A new window starts with the old one's calls behind it.
LEMMA WindowEnds ==
    ASSUME ServicesAssumption, QuotesTyped, WindowKeepsLimit,
           buckets[Quotes!Global].resetAt <= clock
    PROVE  /\ Through(From(clock)) = 0
           /\ Through(Span(clock - WINDOW, clock)) <= GLOBAL_LIMIT
<1> DEFINE b == buckets[Quotes!Global]
<1>1. b \in Quotes!Bucket
  BY DEF QuotesTyped, Quotes!Keys
<1>2. b.count \in Nat /\ b.resetAt \in Nat
  BY <1>1, QuoteNumbers DEF Quotes!Bucket
<1>3. WINDOW \in Nat /\ clock \in Nat /\ GLOBAL_LIMIT \in Nat
  BY QuoteNumbers DEF QuotesTyped
<1>4. \A t \in Quotes!Times : admitted[t] \in Nat
  BY QuoteNumbers DEF QuotesTyped
<1>5. WindowStart = b.resetAt - WINDOW
  BY DEF WindowStart
<1> HIDE DEF b
<1>6. Through(From(clock)) = 0
  <2>1. \A u \in From(clock) : admitted[u] = 0
    BY <1>2, <1>3, QuoteNumbers DEF b, From, WindowKeepsLimit
  <2>2. IsFiniteSet(From(clock))
    BY QuoteNumbers, FS_Subset DEF From
  <2> QED  BY <2>1, <2>2, SumOfZeros DEF Through
<1>7. Through(Span(clock - WINDOW, clock)) <= GLOBAL_LIMIT
  <2> DEFINE last == Span(clock - WINDOW, clock)
             since == From(WindowStart)
  <2>1. last \in SUBSET Quotes!Times /\ since \in SUBSET Quotes!Times
    BY DEF Span, From
  <2>2. last \subseteq since
    <3>1. WindowStart <= clock - WINDOW /\ WindowStart \in Int
      BY <1>2, <1>3, <1>5 DEF b
    <3>2. \A u \in Quotes!Times : u \in Int
      BY QuoteNumbers
    <3>3. \A u \in Quotes!Times : clock - WINDOW <= u => WindowStart <= u
      BY <1>3, <3>1, <3>2
    <3> QED  BY <3>3 DEF Span, From
  <2>3. SumOver(admitted, last) <= SumOver(admitted, since)
    BY <1>4, <2>1, <2>2, Tallies
  <2>4. SumOver(admitted, last) \in Nat /\ SumOver(admitted, since) \in Nat
    BY <1>4, <2>1, Tallies
  <2>5. SumOver(admitted, since) <= b.count /\ b.count <= GLOBAL_LIMIT
    BY DEF WindowKeepsLimit, Through, b
  <2> QED  BY <1>2, <1>3, <2>3, <2>4, <2>5 DEF Through
<1> QED  BY <1>6, <1>7

\* A call that is counted, let through or not, keeps the window within its limit; let
\* through, it keeps every span within twice the limit.
LEMMA CallIsCounted ==
    ASSUME ServicesAssumption, QuotesTyped, WindowKeepsLimit, RatesHold,
           calls < MaxCalls, clock' = clock,
           buckets'[Quotes!Global] =
               Quotes!Counted(buckets[Quotes!Global], GLOBAL_LIMIT),
           \/ admitted' = admitted
           \/ /\ admitted' = [admitted EXCEPT ![clock] = @ + 1]
              /\ Quotes!Allowed(Quotes!Global, GLOBAL_LIMIT)
    PROVE  WindowKeepsLimit' /\ RatesHold'
<1> DEFINE b == buckets[Quotes!Global]
           c == buckets'[Quotes!Global]
           g == admitted'
           start == c.resetAt - WINDOW
           one == IF g = admitted THEN 0 ELSE 1
<1>1. Quotes!Global \in Quotes!Keys
  BY DEF Quotes!Keys
<1>2. /\ clock \in Nat /\ WINDOW \in Nat \ {0} /\ GLOBAL_LIMIT \in Nat \ {0}
      /\ clock \in Quotes!Times /\ \A t \in Quotes!Times : t \in Nat
  BY QuoteNumbers DEF QuotesTyped
<1>3. /\ b.count \in Nat /\ b.resetAt \in Nat /\ c.count \in Nat /\ c.resetAt \in Nat
      /\ b.count <= GLOBAL_LIMIT /\ c.count <= GLOBAL_LIMIT
      /\ b.resetAt <= clock => c.count = 1 /\ c.resetAt = clock + WINDOW
      /\ b.resetAt > clock => /\ c.resetAt = b.resetAt /\ b.count <= c.count
                              /\ b.count < GLOBAL_LIMIT => c.count = b.count + 1
  <2>1. b \in Quotes!Bucket /\ b.count <= GLOBAL_LIMIT
    BY <1>1 DEF QuotesTyped, WindowKeepsLimit
  <2>2. /\ c \in Quotes!Bucket /\ c.count <= GLOBAL_LIMIT
        /\ b.resetAt <= clock => c = [count |-> 1, resetAt |-> clock + WINDOW]
        /\ b.resetAt > clock => /\ c.resetAt = b.resetAt /\ b.count <= c.count
                                /\ b.count < GLOBAL_LIMIT => c.count = b.count + 1
    BY <1>1, <1>2, <2>1, CountedIsTyped
  <2>3. \A d \in Quotes!Bucket : d.count \in Nat /\ d.resetAt \in Nat
    BY QuoteNumbers DEF Quotes!Bucket
  <2> QED  BY <2>1, <2>2, <2>3
<1>4. one = 1 => b.resetAt <= clock \/ b.count < GLOBAL_LIMIT
  BY DEF Quotes!Allowed
<1>5. /\ \A t \in Quotes!Times : g[t] \in Nat /\ (t # clock => g[t] = admitted[t])
      /\ one \in {0, 1}
      /\ \A S \in SUBSET Quotes!Times :
            /\ SumOver(admitted, S) \in Nat
            /\ SumOver(g, S) = SumOver(admitted, S) + IF clock \in S THEN one ELSE 0
  <2>1. \A t \in Quotes!Times : admitted[t] \in Nat
    BY QuoteNumbers DEF QuotesTyped
  <2>2. \A S \in SUBSET Quotes!Times : SumOver(admitted, S) \in Nat
    BY <2>1, Tallies
  <2>3. CASE g = admitted
    BY <2>1, <2>2, <2>3
  <2>4. CASE g # admitted
    <3>1. g = [admitted EXCEPT ![clock] = @ + 1] /\ one = 1
      BY <2>4
    <3>2. /\ \A t \in Quotes!Times : g[t] \in Nat
          /\ \A S \in SUBSET Quotes!Times :
                SumOver(g, S) = Through(S) + IF clock \in S THEN 1 ELSE 0
      BY <3>1, OneMoreThrough
    <3>3. \A t \in Quotes!Times : t # clock => g[t] = admitted[t]
      BY <3>1 DEF QuotesTyped
    <3> QED  BY <2>2, <3>1, <3>2, <3>3 DEF Through
  <2> QED  BY <2>3, <2>4
<1>6. /\ b.resetAt <= clock + WINDOW
      /\ \A u \in Quotes!Times : u >= b.resetAt => admitted[u] = 0
      /\ SumOver(admitted, From(b.resetAt - WINDOW)) <= b.count
      /\ SumOver(admitted, Span(b.resetAt - WINDOW - WINDOW, b.resetAt - WINDOW))
            <= GLOBAL_LIMIT
  BY DEF WindowKeepsLimit, WindowStart, Through
<1>7. b.resetAt <= clock =>
         /\ SumOver(admitted, From(clock)) = 0
         /\ SumOver(admitted, Span(clock - WINDOW, clock)) <= GLOBAL_LIMIT
  BY WindowEnds DEF Through
<1>8. /\ \A t, last : From(t) \in SUBSET Quotes!Times
                      /\ Span(t, last) \in SUBSET Quotes!Times
      /\ \A t \in Int : clock \in From(t) <=> t <= clock
      /\ \A t, last \in Int : clock \in Span(t, last) <=> t <= clock /\ clock < last
  BY <1>2 DEF From, Span
<1> HIDE DEF b, c, g, one
<1>9. /\ c.resetAt <= clock + WINDOW /\ c.count <= GLOBAL_LIMIT
      /\ clock < c.resetAt /\ start \in Int /\ start <= clock
  BY <1>2, <1>3, <1>6
<1>10. \A u \in Quotes!Times : u >= c.resetAt => g[u] = 0
  BY <1>2, <1>3, <1>5, <1>6, <1>9
<1>11. SumOver(g, From(start)) <= c.count
  <2>1. SumOver(g, From(start)) = SumOver(admitted, From(start)) + one
    BY <1>5, <1>8, <1>9
  <2>2. CASE b.resetAt <= clock
    <3>1. start = clock /\ c.count = 1
      BY <1>2, <1>3, <2>2
    <3> QED  BY <1>5, <1>7, <2>1, <2>2, <3>1
  <2>3. CASE b.resetAt > clock
    <3>1. start = b.resetAt - WINDOW
      BY <1>3, <2>3
    <3>2. b.count + one <= c.count
      BY <1>2, <1>3, <1>4, <1>5, <2>3
    <3>3. SumOver(admitted, From(start)) \in Nat
      BY <1>5, <1>8
    <3> HIDE DEF start
    <3>4. SumOver(admitted, From(start)) <= b.count
      BY <1>6, <3>1
    <3> QED  BY <1>3, <1>5, <2>1, <3>2, <3>3, <3>4
  <2> QED  BY <1>2, <1>3, <2>2, <2>3
<1>12. SumOver(g, Span(start - WINDOW, start)) <= GLOBAL_LIMIT
  <2>1. SumOver(g, Span(start - WINDOW, start))
           = SumOver(admitted, Span(start - WINDOW, start)) + 0
    <3>1. clock \notin Span(start - WINDOW, start)
      BY <1>2, <1>8, <1>9
    <3> QED  BY <1>5, <1>8, <3>1
  <2>2. SumOver(admitted, Span(start - WINDOW, start)) \in Nat
    BY <1>5, <1>8
  <2>3. CASE b.resetAt <= clock
    <3>1. start = clock
      BY <1>2, <1>3, <2>3
    <3> QED  BY <1>7, <2>1, <2>2, <2>3, <3>1
  <2>4. CASE b.resetAt > clock
    <3>1. start = b.resetAt - WINDOW
      BY <1>3, <2>4
    <3> QED  BY <1>6, <2>1, <2>2, <3>1
  <2> QED  BY <1>2, <1>3, <2>3, <2>4
<1>13. WindowKeepsLimit'
  BY <1>9, <1>10, <1>11, <1>12 DEF WindowKeepsLimit, WindowStart, Through, From, Span, g, c
<1>14. ASSUME NEW t \in Quotes!Times
       PROVE  g[t] <= GLOBAL_LIMIT /\ SumOver(g, Span(t, t + WINDOW)) <= 2 * GLOBAL_LIMIT
  <2>1. /\ admitted[t] <= GLOBAL_LIMIT
        /\ SumOver(admitted, Span(t, t + WINDOW)) <= 2 * GLOBAL_LIMIT
    BY DEF RatesHold, Through
  <2>2. g[t] <= GLOBAL_LIMIT
    <3>1. CASE t = clock
      <4>1. IsFiniteSet(From(start)) /\ clock \in From(start)
        BY <1>8, <1>9, QuoteNumbers, FS_Subset
      <4>2. \A x \in From(start) : g[x] \in Nat
        BY <1>5, <1>8
      <4>3. SumOver(g, From(start)) \in Nat /\ g[clock] <= SumOver(g, From(start))
        BY <4>1, <4>2, SumBoundsTerms
      <4>4. g[clock] \in Nat
        BY <1>2, <1>5
      <4> QED  BY <1>2, <1>3, <1>11, <3>1, <4>3, <4>4
    <3> QED  BY <1>5, <2>1, <3>1
  <2>3. SumOver(g, Span(t, t + WINDOW)) <= 2 * GLOBAL_LIMIT
    <3> DEFINE S == Span(t, t + WINDOW)
               A == Span(start - WINDOW, start)
               B == From(start)
    <3>1. S \in SUBSET Quotes!Times /\ A \in SUBSET Quotes!Times /\ B \in SUBSET Quotes!Times
      BY <1>8
    <3>2. CASE clock \in S
      <4>1. t \in Nat /\ clock < t + WINDOW
        BY <1>2, <1>8, <3>2
      <4>2. S \subseteq A \cup B
        <5> SUFFICES ASSUME NEW u \in Quotes!Times, t <= u
                     PROVE  u \in A \cup B
          BY DEF Span
        <5>1. u \in Nat /\ start - WINDOW <= u
          BY <1>2, <1>9, <4>1
        <5> QED  BY <1>9, <5>1 DEF Span, From
      <4>3. SumOver(g, S) <= SumOver(g, A) + SumOver(g, B)
        BY <1>5, <3>1, <4>2, Tallies
      <4>4. SumOver(g, S) \in Nat /\ SumOver(g, A) \in Nat /\ SumOver(g, B) \in Nat
        BY <1>5, <3>1, Tallies
      <4> HIDE DEF S, A, B
      <4>5. SumOver(g, A) <= GLOBAL_LIMIT /\ SumOver(g, B) <= c.count
        BY <1>11, <1>12 DEF A, B
      <4>6. SumOver(g, S) <= 2 * GLOBAL_LIMIT
        BY <1>2, <1>3, <4>3, <4>4, <4>5
      <4> QED  BY <4>6 DEF S
    <3>3. CASE clock \notin S
      <4>1. SumOver(g, S) = SumOver(admitted, S) + 0 /\ SumOver(admitted, S) \in Nat
        BY <1>5, <3>1, <3>3
      <4> QED  BY <2>1, <4>1
    <3> QED  BY <3>2, <3>3
  <2> QED  BY <2>2, <2>3
<1>15. RatesHold'
  BY <1>14 DEF RatesHold, Through, Span, g
<1> QED  BY <1>13, <1>15

\* The calls in flight after a step: each was there, at the same host since the same
\* tick, or looked at a circuit now that was not open.
FetchesStay ==
    \A l \in Loads : fetches'[l] # Null =>
        \/ /\ fetches[l] # Null
           /\ fetches'[l].host = fetches[l].host /\ fetches'[l].began = fetches[l].began
        \/ /\ fetches'[l].began = clock
           /\ breakers[fetches'[l].host].openUntil <= clock

\* What a step does to the calls: they keep their types, and what is answered is recent.
LoadsMove ==
    /\ fetches' \in [Loads -> Quotes!Fetch \cup {Null}]
    /\ answers' \in [Loads -> Quotes!View \cup {Null}]
    /\ CallsSound'
    /\ FetchesStay

\* A view that may be answered: typed, and recent when it is live.
GoodView(view) ==
    /\ view \in Quotes!View
    /\ view.freshness = "LIVE" /\ view.quote.quoteValid
        => view.now - view.quote.quoteTimestamp <= maxQuoteAge + quoteCacheTtl

\* An answer ends its call.
LEMMA AnswerMoves ==
    ASSUME ServicesAssumption, QuotesTyped, CallsSound, NEW l \in Loads,
           NEW view, GoodView(view), Quotes!Answer(l, view)
    PROVE  LoadsMove
<1>1. /\ fetches \in [Loads -> Quotes!Fetch \cup {Null}]
      /\ answers \in [Loads -> Quotes!View \cup {Null}]
  BY DEF QuotesTyped
<1>2. /\ answers' = [answers EXCEPT ![l] = view]
      /\ fetches' = [fetches EXCEPT ![l] = Null]
  BY DEF Quotes!Answer
<1>3. /\ fetches' \in [Loads -> Quotes!Fetch \cup {Null}]
      /\ answers' \in [Loads -> Quotes!View \cup {Null}]
  BY <1>1, <1>2 DEF GoodView
<1>4. CallsSound'
  <2>1. \A m \in Loads : /\ answers'[m] = IF m = l THEN view ELSE answers[m]
                        /\ fetches'[m] = IF m = l THEN Null ELSE fetches[m]
    BY <1>1, <1>2
  <2>2. Quotes!LiveIsRecent'
    BY <2>1 DEF GoodView, Quotes!LiveIsRecent, CallsSound
  <2> QED  BY <2>1, <2>2 DEF CallsSound
<1>5. FetchesStay
  BY <1>1, <1>2 DEF FetchesStay
<1> QED  BY <1>3, <1>4, <1>5 DEF LoadsMove

\* What a failed call falls back to.
LEMMA FallbackIsGood ==
    ASSUME ServicesAssumption, QuotesTyped, NEW load,
           load.now \in Quotes!Times, load.cached \in Quotes!CacheEntry \cup {Null}
    PROVE  GoodView(Quotes!FallbackView(load))
<1> DEFINE view == Quotes!FallbackView(load)
<1>1. CASE load.cached # Null
  <2>1. load.cached.quote \in Quotes!Quote
    BY <1>1 DEF Quotes!CacheEntry
  <2>2. view = [freshness |-> "RECENTLY_CACHED", quote |-> load.cached.quote,
                now |-> load.now]
    BY <1>1 DEF Quotes!FallbackView, Quotes!LiveView
  <2> QED  BY <2>1, <2>2 DEF GoodView, Quotes!View, Quotes!Freshness
<1>2. CASE load.cached = Null
  <2>1. view = [freshness |-> IF capture THEN "HISTORICAL_CAPTURE" ELSE "UNAVAILABLE",
                quote |-> Null, now |-> load.now]
    BY <1>2 DEF Quotes!FallbackView, Quotes!HistoricalView
  <2> QED  BY <2>1 DEF GoodView, Quotes!View, Quotes!Freshness
<1> QED  BY <1>1, <1>2

\* A call that starts a fetch, or finds the circuit open.
LEMMA BeginFetchMoves ==
    ASSUME ServicesAssumption, QuotesTyped, CallsSound, NEW l \in Loads, NEW load,
           load.now \in Quotes!Times, load.cached \in Quotes!CacheEntry \cup {Null},
           NEW host \in Quotes!Hosts, Quotes!BeginFetch(l, load, host)
    PROVE  LoadsMove
<1>1. /\ fetches \in [Loads -> Quotes!Fetch \cup {Null}]
      /\ answers \in [Loads -> Quotes!View \cup {Null}]
      /\ clock \in Quotes!Times
  BY DEF QuotesTyped
<1>2. CASE breakers[host].openUntil > clock
  BY <1>2, FallbackIsGood, AnswerMoves DEF Quotes!BeginFetch
<1>3. CASE ~ breakers[host].openUntil > clock
  <2> DEFINE fetch == [now |-> load.now, cached |-> load.cached, host |-> host,
                       attempt |-> 0, phase |-> "headers", began |-> clock, sent |-> clock]
  <2>1. /\ fetches' = [fetches EXCEPT ![l] = fetch]
        /\ answers' = [answers EXCEPT ![l] = Null]
    BY <1>3 DEF Quotes!BeginFetch
  <2>2. /\ fetch \in Quotes!Fetch /\ fetch.began = clock /\ fetch.host = host
        /\ fetch.phase # "backoff"
    <3>1. 0 \in 0 .. maxRetries /\ "headers" \in {"headers", "body", "backoff"}
      BY QuoteNumbers
    <3> QED  BY <1>1, <3>1 DEF Quotes!Fetch
  <2> HIDE DEF fetch
  <2>3. /\ fetches' \in [Loads -> Quotes!Fetch \cup {Null}]
        /\ answers' \in [Loads -> Quotes!View \cup {Null}]
    BY <1>1, <2>1, <2>2
  <2>4. CallsSound'
    <3>1. \A m \in Loads : /\ answers'[m] = IF m = l THEN Null ELSE answers[m]
                          /\ fetches'[m] = IF m = l THEN fetch ELSE fetches[m]
      BY <1>1, <2>1
    <3>2. Quotes!LiveIsRecent'
      BY <3>1 DEF Quotes!LiveIsRecent, CallsSound
    <3> QED  BY <2>2, <3>1, <3>2 DEF CallsSound
  <2>5. FetchesStay
    <3>1. \A m \in Loads : fetches'[m] = IF m = l THEN fetch ELSE fetches[m]
      BY <1>1, <2>1
    <3>2. breakers[host].openUntil <= clock
      <4>1. breakers[host] \in Quotes!Breaker
        BY DEF QuotesTyped
      <4>2. breakers[host].openUntil \in Nat
        BY <4>1, QuoteNumbers DEF Quotes!Breaker
      <4> QED  BY <1>1, <1>3, <4>2, QuoteNumbers
    <3> QED  BY <2>2, <3>1, <3>2 DEF FetchesStay
  <2> QED  BY <2>3, <2>4, <2>5 DEF LoadsMove
<1> QED  BY <1>2, <1>3

\* One of the views of getReferenceQuoteView, up to its first await.
LEMMA GetReferenceQuoteViewMoves ==
    ASSUME ServicesAssumption, QuotesTyped, CallsSound, CacheWasRecent,
           NEW l \in Loads, NEW forced \in BOOLEAN, Quotes!GetReferenceQuoteView(l, forced)
    PROVE  LoadsMove
<1> DEFINE load == [now |-> clock, cached |-> quoteCache]
<1>1. /\ load.now = clock /\ load.cached = quoteCache /\ clock \in Quotes!Times
      /\ quoteCache \in Quotes!CacheEntry \cup {Null}
  BY DEF QuotesTyped
<1>2. CASE Quotes!CacheFresh /\ ~ forced
  <2>1. Quotes!Answer(l, Quotes!LiveView(quoteCache, load, "LIVE"))
    BY <1>2 DEF Quotes!GetReferenceQuoteView
  <2>2. /\ quoteCache \in Quotes!CacheEntry
        /\ clock - quoteCache.servedAt <= quoteCacheTtl
    BY <1>1, <1>2 DEF Quotes!CacheFresh
  <2>3. /\ quoteCache.quote \in Quotes!Quote /\ quoteCache.servedAt \in Quotes!Times
        /\ quoteCache.quote.quoteTimestamp \in Quotes!Times
    BY <2>2 DEF Quotes!CacheEntry, Quotes!Quote
  <2> DEFINE view == Quotes!LiveView(quoteCache, load, "LIVE")
  <2>4. /\ view \in Quotes!View /\ view.quote = quoteCache.quote /\ view.now = clock
    BY <1>1, <2>3 DEF Quotes!LiveView, Quotes!View, Quotes!Freshness
  <2>5. GoodView(view)
    <3> HIDE DEF view
    <3>1. /\ clock \in Nat /\ quoteCache.servedAt \in Nat
          /\ quoteCache.quote.quoteTimestamp \in Nat
          /\ quoteCacheTtl \in Nat /\ maxQuoteAge \in Nat
      BY <1>1, <2>3, QuoteNumbers
    <3>2. quoteCache # Null
      BY <1>2 DEF Quotes!CacheFresh
    <3> QED  BY <2>2, <2>4, <3>1, <3>2 DEF GoodView, CacheWasRecent
  <2> QED  BY <2>1, <2>5, AnswerMoves
<1>3. CASE ~ (Quotes!CacheFresh /\ ~ forced)
  <2>1. Quotes!BeginFetch(l, load, "gamma") /\ "gamma" \in Quotes!Hosts
    BY <1>3 DEF Quotes!GetReferenceQuoteView, Quotes!Hosts
  <2> QED  BY <1>1, <2>1, BeginFetchMoves
<1> QED  BY <1>2, <1>3

\* So is the answer to a call over the limit.
LEMMA RateLimitedMoves ==
    ASSUME ServicesAssumption, QuotesTyped, CallsSound, NEW l \in Loads,
           Quotes!RateLimited(l)
    PROVE  LoadsMove
<1> DEFINE view == [freshness |-> "RATE_LIMITED", quote |-> Null, now |-> clock]
<1>1. Quotes!Answer(l, view)
  BY DEF Quotes!RateLimited
<1>2. view \in Quotes!View /\ view.freshness = "RATE_LIMITED"
  BY DEF QuotesTyped, Quotes!View, Quotes!Errors
<1>3. GoodView(view)
  BY <1>2 DEF GoodView
<1> QED  BY <1>1, <1>3, AnswerMoves

\* The circuits, when a breaker closes, opens now or stays as it is.
LEMMA CircuitsAreKept ==
    ASSUME ServicesAssumption, QuotesTyped, CircuitsHold, FetchesStay, clock' = clock,
           fetches' \in [Loads -> Quotes!Fetch \cup {Null}],
           \A h \in Quotes!Hosts : breakers'[h].openUntil
               \in {breakers[h].openUntil, 0, clock + circuitCooldown}
    PROVE  CircuitsHold'
<1>1. clock \in Nat /\ circuitCooldown \in Nat
  BY QuoteNumbers DEF QuotesTyped
<1>2. \A h \in Quotes!Hosts : breakers[h].openUntil \in Nat
  <2>1. \A h \in Quotes!Hosts : breakers[h] \in Quotes!Breaker
    BY DEF QuotesTyped
  <2> QED  BY <2>1, QuoteNumbers DEF Quotes!Breaker
<1>3. ASSUME NEW l \in Loads, fetches'[l] # Null
      PROVE  /\ fetches'[l].began <= clock
             /\ breakers'[fetches'[l].host].openUntil > clock
                    => fetches'[l].began <= breakers'[fetches'[l].host].openUntil
                                            - circuitCooldown
  <2>1. fetches'[l] \in Quotes!Fetch
    BY <1>3
  <2>2. fetches'[l].host \in Quotes!Hosts /\ fetches'[l].began \in Nat
    BY <2>1, QuoteNumbers DEF Quotes!Fetch
  <2> DEFINE h == fetches'[l].host
             until == breakers'[h].openUntil
  <2>3. until \in {breakers[h].openUntil, 0, clock + circuitCooldown}
    BY <2>2
  <2>4. CASE /\ fetches[l] # Null
             /\ h = fetches[l].host /\ fetches'[l].began = fetches[l].began
    <3>1. /\ fetches'[l].began <= clock
          /\ breakers[h].openUntil > clock
                => fetches'[l].began <= breakers[h].openUntil - circuitCooldown
      BY <2>4 DEF CircuitsHold, Quotes!OpenCircuitSparesTheHost
    <3> QED  BY <1>1, <1>2, <2>2, <2>3, <3>1
  <2>5. CASE fetches'[l].began = clock /\ breakers[h].openUntil <= clock
    BY <1>1, <1>2, <2>2, <2>3, <2>5
  <2> QED  BY <1>3, <2>4, <2>5 DEF FetchesStay
<1> QED  BY <1>3 DEF CircuitsHold, Quotes!OpenCircuitSparesTheHost

\* A call goes from one phase to another at the host it is at.
LEMMA PhaseMoves ==
    ASSUME ServicesAssumption, QuotesTyped, CallsSound, NEW l \in Loads, fetches[l] # Null,
           NEW f \in Quotes!Fetch, f.host = fetches[l].host, f.began = fetches[l].began,
           f.phase = "backoff" => f.attempt < maxRetries,
           fetches' = [fetches EXCEPT ![l] = f], answers' = answers
    PROVE  LoadsMove
<1>1. /\ fetches \in [Loads -> Quotes!Fetch \cup {Null}]
      /\ answers \in [Loads -> Quotes!View \cup {Null}]
  BY DEF QuotesTyped
<1>2. \A m \in Loads : fetches'[m] = IF m = l THEN f ELSE fetches[m]
  BY <1>1
<1>3. fetches' \in [Loads -> Quotes!Fetch \cup {Null}]
  BY <1>1
<1>4. CallsSound'
  BY <1>2 DEF CallsSound, Quotes!LiveIsRecent
<1>5. FetchesStay
  BY <1>2 DEF FetchesStay
<1> QED  BY <1>1, <1>3, <1>4, <1>5 DEF LoadsMove

\* The breaker of a host after a failure or a good answer.
LEMMA BreakerMoves ==
    ASSUME ServicesAssumption, QuotesTyped, NEW host \in Quotes!Hosts, NEW b,
           b \in {Quotes!Failed(breakers[host]), Quotes!Closed(breakers[host])},
           breakers' = [breakers EXCEPT ![host] = b]
    PROVE  /\ breakers' \in [Quotes!Hosts -> Quotes!Breaker]
           /\ \A h \in Quotes!Hosts : breakers'[h].openUntil
                 \in {breakers[h].openUntil, 0, clock + circuitCooldown}
<1> DEFINE old == breakers[host]
<1>1. breakers \in [Quotes!Hosts -> Quotes!Breaker] /\ clock \in 1 .. MaxTime
  BY QuoteNumbers DEF QuotesTyped
<1>2. old \in [failures : 0 .. circuitFailureThreshold - 1,
               openUntil : 0 .. MaxTime + circuitCooldown]
  BY <1>1 DEF Quotes!Breaker
<1>3. /\ circuitFailureThreshold \in Nat \ {0} /\ circuitCooldown \in Nat
      /\ MaxTime \in Nat \ {0}
  BY QuoteNumbers
<1>4. /\ 0 \in 0 .. circuitFailureThreshold - 1 /\ 0 \in 0 .. MaxTime + circuitCooldown
      /\ clock + circuitCooldown \in 0 .. MaxTime + circuitCooldown
      /\ old.failures \in 0 .. circuitFailureThreshold - 1
  BY <1>1, <1>2, <1>3
<1>5. b \in Quotes!Breaker /\ b.openUntil \in {old.openUntil, 0, clock + circuitCooldown}
  <2> HIDE DEF old
  <2>1. CASE b = Quotes!Closed(old)
    BY <1>4, <2>1 DEF Quotes!Closed, Quotes!Breaker
  <2>2. CASE b = Quotes!Failed(old) /\ old.failures + 1 >= circuitFailureThreshold
    BY <1>4, <2>2 DEF Quotes!Failed, Quotes!Breaker
  <2>3. CASE b = Quotes!Failed(old) /\ ~ old.failures + 1 >= circuitFailureThreshold
    <3>1. b = [old EXCEPT !.failures = old.failures + 1]
      BY <2>3 DEF Quotes!Failed
    <3>2. old.failures + 1 \in 0 .. circuitFailureThreshold - 1
      BY <1>3, <1>4, <2>3
    <3> QED  BY <1>2, <3>1, <3>2 DEF Quotes!Breaker
  <2> QED  BY <2>1, <2>2, <2>3 DEF old
<1> HIDE DEF old
<1>6. \A h \in Quotes!Hosts : breakers'[h] = IF h = host THEN b ELSE breakers[h]
  BY <1>1
<1> QED  BY <1>1, <1>5, <1>6 DEF old

\* A step at a host, which spends no call.
LEMMA HostStepKeeps ==
    ASSUME ServicesAssumption, QuotesInv, LoadsMove,
           breakers' \in [Quotes!Hosts -> Quotes!Breaker],
           \A h \in Quotes!Hosts : breakers'[h].openUntil
               \in {breakers[h].openUntil, 0, clock + circuitCooldown},
           quoteCache' \in Quotes!CacheEntry \cup {Null}, CacheWasRecent',
           UNCHANGED <<clock, buckets, capture, calls, admitted>>
    PROVE  QuotesInv'
<1>1. CircuitsHold'
  BY CircuitsAreKept DEF QuotesInv, LoadsMove
<1>2. QuotesTyped'
  BY DEF QuotesInv, QuotesTyped, LoadsMove
<1>3. WindowKeepsLimit' /\ RatesHold'
  BY DEF QuotesInv, WindowKeepsLimit, RatesHold, WindowStart, Through, From, Span
<1> QED  BY <1>1, <1>2, <1>3 DEF QuotesInv, LoadsMove

\* A step of a route, which spends one.
LEMMA RouteStepKeeps ==
    ASSUME ServicesAssumption, QuotesInv, LoadsMove,
           calls < MaxCalls, calls' = calls + 1,
           buckets' \in [Quotes!Keys -> Quotes!Bucket],
           \A k \in Quotes!Keys : buckets'[k].count <= calls + 1,
           \/ admitted' = admitted
           \/ admitted' = [admitted EXCEPT ![clock] = @ + 1],
           WindowKeepsLimit', RatesHold',
           UNCHANGED <<clock, breakers, quoteCache, capture>>
    PROVE  QuotesInv'
<1>1. CircuitsHold'
  <2>1. \A h \in Quotes!Hosts : breakers'[h].openUntil
               \in {breakers[h].openUntil, 0, clock + circuitCooldown}
    OBVIOUS
  <2> QED  BY <2>1, CircuitsAreKept DEF QuotesInv, LoadsMove
<1>2. calls' \in 0 .. MaxCalls
  BY QuoteNumbers DEF QuotesInv, QuotesTyped
<1>3. /\ admitted' \in [Quotes!Times -> 0 .. MaxCalls]
      /\ \A t \in Quotes!Times : admitted'[t] <= calls'
  <2>1. /\ admitted \in [Quotes!Times -> 0 .. MaxCalls] /\ MaxCalls \in Nat
        /\ calls \in Nat /\ \A t \in Quotes!Times : admitted[t] <= calls
    BY QuoteNumbers DEF QuotesInv, QuotesTyped
  <2>2. \A t \in Quotes!Times : admitted[t] + 1 \in 0 .. MaxCalls
                                /\ admitted[t] + 1 <= calls + 1 /\ admitted[t] <= calls + 1
    BY <2>1
  <2>3. CASE admitted' = admitted
    BY <2>1, <2>2, <2>3
  <2>4. CASE admitted' = [admitted EXCEPT ![clock] = @ + 1]
    <3>1. \A t \in Quotes!Times : admitted'[t] = IF t = clock THEN admitted[t] + 1
                                                 ELSE admitted[t]
      BY <2>1, <2>4
    <3>2. admitted' \in [Quotes!Times -> 0 .. MaxCalls]
      BY <2>1, <2>2, <2>4
    <3> QED  BY <2>1, <2>2, <3>1, <3>2
  <2> QED  BY <2>3, <2>4
<1>4. QuotesTyped'
  BY <1>2, <1>3 DEF QuotesInv, QuotesTyped, LoadsMove
<1>5. CacheWasRecent'
  BY DEF QuotesInv, CacheWasRecent
<1> QED  BY <1>1, <1>4, <1>5 DEF QuotesInv, LoadsMove

\* GET /api/reference-quotes keeps all of it.
LEMMA GetKeeps ==
    ASSUME ServicesAssumption, QuotesInv, NEW l \in Loads, NEW ip \in Ips,
           Quotes!Get(l, ip)
    PROVE  QuotesInv'
<1> DEFINE perIp == <<"quote", ip>>
<1>1. /\ calls < MaxCalls /\ calls' = calls + 1
      /\ UNCHANGED <<clock, breakers, quoteCache, capture>>
  BY DEF Quotes!Get
<1>2. /\ perIp \in Quotes!Keys /\ Quotes!Global \in Quotes!Keys
      /\ perIp # Quotes!Global
  BY DEF Quotes!Keys, Quotes!Global, ServicesAssumption
<1>3. buckets' = [buckets EXCEPT ![perIp] = Quotes!Counted(@, PER_IP_LIMIT),
                                 ![Quotes!Global] = Quotes!Counted(@, GLOBAL_LIMIT)]
  BY DEF Quotes!Get
<1>4. \/ /\ Quotes!Allowed(Quotes!Global, GLOBAL_LIMIT)
         /\ Quotes!GetReferenceQuoteView(l, FALSE)
         /\ admitted' = [admitted EXCEPT ![clock] = @ + 1]
      \/ Quotes!RateLimited(l) /\ admitted' = admitted
  BY DEF Quotes!Get
<1> HIDE DEF perIp
<1>5. LoadsMove
  BY <1>4, GetReferenceQuoteViewMoves, RateLimitedMoves DEF QuotesInv
<1>6. buckets \in [Quotes!Keys -> Quotes!Bucket]
  BY DEF QuotesInv, QuotesTyped
<1>7. \A k \in Quotes!Keys :
         buckets'[k] = IF k = Quotes!Global THEN Quotes!Counted(buckets[k], GLOBAL_LIMIT)
                       ELSE IF k = perIp THEN Quotes!Counted(buckets[k], PER_IP_LIMIT)
                       ELSE buckets[k]
  BY <1>2, <1>3, <1>6
<1>8. /\ \A k \in Quotes!Keys :
            buckets'[k] \in Quotes!Bucket /\ buckets'[k].count <= calls + 1
      /\ buckets' \in [Quotes!Keys -> Quotes!Bucket]
  <2>1. GLOBAL_LIMIT \in Nat \ {0} /\ PER_IP_LIMIT \in Nat \ {0} /\ calls \in Nat
    BY QuoteNumbers DEF QuotesInv, QuotesTyped
  <2>2. ASSUME NEW k \in Quotes!Keys
        PROVE  buckets'[k] \in Quotes!Bucket /\ buckets'[k].count <= calls + 1
    <3>1. /\ Quotes!Counted(buckets[k], GLOBAL_LIMIT) \in Quotes!Bucket
          /\ Quotes!Counted(buckets[k], GLOBAL_LIMIT).count <= calls + 1
          /\ Quotes!Counted(buckets[k], PER_IP_LIMIT) \in Quotes!Bucket
          /\ Quotes!Counted(buckets[k], PER_IP_LIMIT).count <= calls + 1
      BY <1>1, <2>1, CountedIsTyped DEF QuotesInv
    <3>2. buckets[k] \in Quotes!Bucket /\ buckets[k].count <= calls
      BY DEF QuotesInv, QuotesTyped
    <3>3. buckets[k].count <= calls + 1
      BY <2>1, <3>2, QuoteNumbers DEF Quotes!Bucket
    <3> QED  BY <1>7, <3>1, <3>2, <3>3
  <2>3. \E g : buckets' = [k \in Quotes!Keys |-> g[k]]
    <3>1. buckets' = [k \in Quotes!Keys |-> buckets'[k]]
      BY <1>3, <1>6
    <3> QED  BY <3>1
  <2> QED  BY <2>2, <2>3
<1>9. WindowKeepsLimit' /\ RatesHold'
  BY <1>1, <1>2, <1>4, <1>7, CallIsCounted DEF QuotesInv
<1> QED  BY <1>1, <1>4, <1>5, <1>8, <1>9, RouteStepKeeps

\* So does the operator's refresh, which no public limit counts.
LEMMA RefreshKeeps ==
    ASSUME ServicesAssumption, QuotesInv, NEW l \in Loads, NEW ip \in Ips,
           Quotes!Refresh(l, ip)
    PROVE  QuotesInv'
<1> DEFINE key == <<"refresh", ip>>
<1>1. /\ calls < MaxCalls /\ calls' = calls + 1
      /\ UNCHANGED <<clock, breakers, quoteCache, capture, admitted>>
      /\ buckets' = [buckets EXCEPT ![key] = Quotes!Counted(@, REFRESH_LIMIT)]
      /\ Quotes!GetReferenceQuoteView(l, TRUE) \/ Quotes!RateLimited(l)
  BY DEF Quotes!Refresh
<1>2. key \in Quotes!Keys /\ Quotes!Global \in Quotes!Keys /\ key # Quotes!Global
  BY DEF Quotes!Keys, Quotes!Global
<1> HIDE DEF key
<1>3. LoadsMove
  BY <1>1, GetReferenceQuoteViewMoves, RateLimitedMoves DEF QuotesInv
<1>4. buckets \in [Quotes!Keys -> Quotes!Bucket] /\ calls \in Nat
  BY QuoteNumbers DEF QuotesInv, QuotesTyped
<1> DEFINE c == Quotes!Counted(buckets[key], REFRESH_LIMIT)
<1>5. c \in Quotes!Bucket /\ c.count <= calls + 1
  <2>1. REFRESH_LIMIT \in Nat \ {0}
    BY QuoteNumbers
  <2> QED  BY <1>1, <1>2, <2>1, CountedIsTyped DEF QuotesInv
<1>6. buckets' = [buckets EXCEPT ![key] = c]
  BY <1>1
<1> HIDE DEF c
<1>7. /\ buckets' \in [Quotes!Keys -> Quotes!Bucket]
      /\ \A k \in Quotes!Keys : buckets'[k] = IF k = key THEN c ELSE buckets[k]
  BY <1>2, <1>4, <1>5, <1>6
<1>8. \A k \in Quotes!Keys : buckets'[k].count <= calls + 1
  <2>1. \A k \in Quotes!Keys : buckets[k].count <= calls /\ buckets[k] \in Quotes!Bucket
    BY DEF QuotesInv, QuotesTyped
  <2>2. \A k \in Quotes!Keys : buckets[k].count <= calls + 1
    BY <1>4, <2>1, QuoteNumbers DEF Quotes!Bucket
  <2> QED  BY <1>5, <1>7, <2>2
<1>9. WindowKeepsLimit' /\ RatesHold'
  <2>1. buckets'[Quotes!Global] = buckets[Quotes!Global]
    BY <1>2, <1>7
  <2> QED
    BY <1>1, <2>1
       DEF QuotesInv, WindowKeepsLimit, RatesHold, WindowStart, Through, From, Span
<1> QED  BY <1>1, <1>3, <1>7, <1>8, <1>9, RouteStepKeeps

\* The headers of a call keep all of it.
LEMMA HeadersArriveKeeps ==
    ASSUME ServicesAssumption, QuotesInv, NEW l \in Loads, Quotes!HeadersArrive(l)
    PROVE  QuotesInv'
<1> DEFINE f == [fetches[l] EXCEPT !.phase = "body"]
<1>1. /\ fetches[l] # Null /\ fetches' = [fetches EXCEPT ![l].phase = "body"]
      /\ UNCHANGED <<clock, breakers, buckets, quoteCache, capture, answers, calls, admitted>>
  BY DEF Quotes!HeadersArrive, Quotes!Waiting
<1>2. fetches[l] \in Quotes!Fetch /\ fetches \in [Loads -> Quotes!Fetch \cup {Null}]
  BY <1>1 DEF QuotesInv, QuotesTyped
<1>3. /\ f \in Quotes!Fetch /\ f.host = fetches[l].host /\ f.began = fetches[l].began
      /\ f.phase = "body"
  BY <1>2 DEF Quotes!Fetch
<1>4. fetches' = [fetches EXCEPT ![l] = f]
  BY <1>1, <1>2
<1> HIDE DEF f
<1>5. LoadsMove
  BY <1>1, <1>3, <1>4, PhaseMoves DEF QuotesInv
<1>6. /\ breakers \in [Quotes!Hosts -> Quotes!Breaker]
      /\ quoteCache \in Quotes!CacheEntry \cup {Null} /\ CacheWasRecent'
  BY <1>1 DEF QuotesInv, QuotesTyped, CacheWasRecent
<1> QED  BY <1>1, <1>5, <1>6, HostStepKeeps

\* So does a retry, which is one of those left.
LEMMA RetryKeeps ==
    ASSUME ServicesAssumption, QuotesInv, NEW l \in Loads, Quotes!Retry(l)
    PROVE  QuotesInv'
<1> DEFINE f == [fetches[l] EXCEPT !.phase = "headers", !.attempt = @ + 1, !.sent = clock]
<1>1. /\ fetches[l] # Null /\ fetches[l].phase = "backoff"
      /\ fetches' = [fetches EXCEPT ![l].phase = "headers", ![l].attempt = @ + 1,
                                    ![l].sent = clock]
      /\ UNCHANGED <<clock, breakers, buckets, quoteCache, capture, answers, calls, admitted>>
  BY DEF Quotes!Retry, Quotes!Waiting
<1>2. /\ fetches[l] \in Quotes!Fetch /\ fetches \in [Loads -> Quotes!Fetch \cup {Null}]
      /\ clock \in Quotes!Times
  BY <1>1 DEF QuotesInv, QuotesTyped
<1>3. fetches[l].attempt + 1 \in 0 .. maxRetries
  <2>1. fetches[l].attempt < maxRetries
    BY <1>1 DEF QuotesInv, CallsSound
  <2>2. fetches[l].attempt \in Nat /\ maxRetries \in Nat
    BY <1>2, QuoteNumbers, QuoteRecords
  <2> QED  BY <2>1, <2>2
<1>4. /\ f \in Quotes!Fetch /\ f.host = fetches[l].host /\ f.began = fetches[l].began
      /\ f.phase = "headers"
  BY <1>2, <1>3 DEF Quotes!Fetch
<1>5. fetches' = [fetches EXCEPT ![l] = f]
  BY <1>1, <1>2
<1> HIDE DEF f
<1>6. LoadsMove
  BY <1>1, <1>4, <1>5, PhaseMoves DEF QuotesInv
<1>7. /\ breakers \in [Quotes!Hosts -> Quotes!Breaker]
      /\ quoteCache \in Quotes!CacheEntry \cup {Null} /\ CacheWasRecent'
  BY <1>1 DEF QuotesInv, QuotesTyped, CacheWasRecent
<1> QED  BY <1>1, <1>6, <1>7, HostStepKeeps

\* So does a failure, which may open the circuit.
LEMMA AttemptFailsKeeps ==
    ASSUME ServicesAssumption, QuotesInv, NEW l \in Loads, NEW retryable \in BOOLEAN,
           Quotes!AttemptFails(l, retryable)
    PROVE  QuotesInv'
<1>1. /\ fetches[l] # Null
      /\ UNCHANGED <<clock, buckets, quoteCache, capture, calls, admitted>>
  BY DEF Quotes!AttemptFails, Quotes!Waiting
<1>2. /\ fetches[l] \in Quotes!Fetch /\ fetches \in [Loads -> Quotes!Fetch \cup {Null}]
      /\ breakers \in [Quotes!Hosts -> Quotes!Breaker]
      /\ quoteCache' \in Quotes!CacheEntry \cup {Null} /\ CacheWasRecent'
  BY <1>1 DEF QuotesInv, QuotesTyped, CacheWasRecent
<1>3. CASE retryable /\ Quotes!RetriesLeft(fetches[l])
  <2> DEFINE f == [fetches[l] EXCEPT !.phase = "backoff"]
  <2>1. /\ fetches' = [fetches EXCEPT ![l].phase = "backoff"]
        /\ UNCHANGED <<breakers, answers>>
    BY <1>3 DEF Quotes!AttemptFails
  <2>2. /\ f \in Quotes!Fetch /\ f.host = fetches[l].host /\ f.began = fetches[l].began
        /\ f.attempt < maxRetries
    BY <1>2, <1>3 DEF Quotes!Fetch, Quotes!RetriesLeft
  <2>3. fetches' = [fetches EXCEPT ![l] = f]
    BY <1>2, <2>1
  <2> HIDE DEF f
  <2>4. LoadsMove
    BY <1>1, <2>1, <2>2, <2>3, PhaseMoves DEF QuotesInv
  <2> QED  BY <1>1, <1>2, <2>1, <2>4, HostStepKeeps
<1>4. CASE ~ (retryable /\ Quotes!RetriesLeft(fetches[l]))
  <2>1. /\ breakers' = [breakers EXCEPT ![fetches[l].host] = Quotes!Failed(@)]
        /\ Quotes!Answer(l, Quotes!FallbackView(fetches[l]))
    BY <1>4 DEF Quotes!AttemptFails
  <2>2. /\ fetches[l].host \in Quotes!Hosts /\ fetches[l].now \in Quotes!Times
        /\ fetches[l].cached \in Quotes!CacheEntry \cup {Null}
    BY <1>2 DEF Quotes!Fetch
  <2>3. breakers' = [breakers EXCEPT ![fetches[l].host] =
                        Quotes!Failed(breakers[fetches[l].host])]
    BY <2>1
  <2>4. /\ breakers' \in [Quotes!Hosts -> Quotes!Breaker]
        /\ \A h \in Quotes!Hosts : breakers'[h].openUntil
              \in {breakers[h].openUntil, 0, clock + circuitCooldown}
    BY <2>2, <2>3, BreakerMoves DEF QuotesInv
  <2>5. LoadsMove
    BY <2>1, <2>2, FallbackIsGood, AnswerMoves DEF QuotesInv
  <2> QED  BY <1>1, <1>2, <2>4, <2>5, HostStepKeeps
<1> QED  BY <1>3, <1>4

\* So does the event, after which the call looks at the circuit of the book's host.
LEMMA EventArrivesKeeps ==
    ASSUME ServicesAssumption, QuotesInv, NEW l \in Loads, Quotes!EventArrives(l)
    PROVE  QuotesInv'
<1>1. /\ fetches[l] # Null
      /\ breakers' = [breakers EXCEPT !["gamma"] = Quotes!Closed(@)]
      /\ UNCHANGED <<clock, buckets, quoteCache, capture, calls, admitted>>
      /\ \/ Quotes!BeginFetch(l, fetches[l], "clob")
         \/ Quotes!Answer(l, Quotes!FallbackView(fetches[l]))
  BY DEF Quotes!EventArrives, Quotes!Waiting
<1>2. /\ fetches[l] \in Quotes!Fetch /\ breakers \in [Quotes!Hosts -> Quotes!Breaker]
      /\ quoteCache' \in Quotes!CacheEntry \cup {Null} /\ CacheWasRecent'
      /\ "gamma" \in Quotes!Hosts /\ "clob" \in Quotes!Hosts
  BY <1>1 DEF QuotesInv, QuotesTyped, CacheWasRecent, Quotes!Hosts
<1>3. /\ fetches[l].now \in Quotes!Times
      /\ fetches[l].cached \in Quotes!CacheEntry \cup {Null}
  BY <1>2 DEF Quotes!Fetch
<1>4. breakers' = [breakers EXCEPT !["gamma"] = Quotes!Closed(breakers["gamma"])]
  BY <1>1
<1>5. /\ breakers' \in [Quotes!Hosts -> Quotes!Breaker]
      /\ \A h \in Quotes!Hosts : breakers'[h].openUntil
            \in {breakers[h].openUntil, 0, clock + circuitCooldown}
  BY <1>2, <1>4, BreakerMoves DEF QuotesInv
<1>6. LoadsMove
  BY <1>1, <1>2, <1>3, FallbackIsGood, AnswerMoves, BeginFetchMoves DEF QuotesInv
<1> QED  BY <1>1, <1>2, <1>5, <1>6, HostStepKeeps

\* So does the book, whose quote is cached.
LEMMA BookArrivesKeeps ==
    ASSUME ServicesAssumption, QuotesInv, NEW l \in Loads, Quotes!BookArrives(l)
    PROVE  QuotesInv'
<1> DEFINE load == fetches[l]
<1>1. /\ load # Null
      /\ breakers' = [breakers EXCEPT !["clob"] = Quotes!Closed(@)]
      /\ UNCHANGED <<clock, buckets, capture, calls, admitted>>
  BY DEF Quotes!BookArrives, Quotes!Waiting
<1>2. /\ load \in Quotes!Fetch /\ breakers \in [Quotes!Hosts -> Quotes!Breaker]
      /\ quoteCache \in Quotes!CacheEntry \cup {Null} /\ clock \in Quotes!Times
      /\ "clob" \in Quotes!Hosts
  BY <1>1 DEF QuotesInv, QuotesTyped, Quotes!Hosts
<1>3. load.now \in Quotes!Times /\ load.cached \in Quotes!CacheEntry \cup {Null}
  BY <1>2 DEF Quotes!Fetch
<1>4. breakers' = [breakers EXCEPT !["clob"] = Quotes!Closed(breakers["clob"])]
  BY <1>1
<1>5. /\ breakers' \in [Quotes!Hosts -> Quotes!Breaker]
      /\ \A h \in Quotes!Hosts : breakers'[h].openUntil
            \in {breakers[h].openUntil, 0, clock + circuitCooldown}
  BY <1>2, <1>4, BreakerMoves DEF QuotesInv
<1>6. CASE Quotes!Answer(l, Quotes!FallbackView(load)) /\ UNCHANGED quoteCache
  <2>1. LoadsMove
    BY <1>3, <1>6, FallbackIsGood, AnswerMoves DEF QuotesInv
  <2>2. quoteCache' \in Quotes!CacheEntry \cup {Null} /\ CacheWasRecent'
    BY <1>2, <1>6 DEF QuotesInv, CacheWasRecent
  <2> QED  BY <1>1, <1>5, <2>1, <2>2, HostStepKeeps
<1>7. ASSUME NEW timestamp \in 1 .. clock, NEW sound \in BOOLEAN,
             LET quote == Quotes!BuildReferenceQuote(timestamp, sound, load.now)
                 entry == [servedAt |-> load.now, quote |-> quote]
             IN  /\ quoteCache' = entry
                 /\ Quotes!Answer(l, Quotes!LiveView(entry, load,
                         IF quote.quoteValid THEN "LIVE" ELSE "UNAVAILABLE"))
      PROVE  QuotesInv'
  <2> DEFINE quote == Quotes!BuildReferenceQuote(timestamp, sound, load.now)
             entry == [servedAt |-> load.now, quote |-> quote]
             view == Quotes!LiveView(entry, load,
                         IF quote.quoteValid THEN "LIVE" ELSE "UNAVAILABLE")
  <2>1. quoteCache' = entry /\ Quotes!Answer(l, view)
    BY <1>7
  <2>2. timestamp \in Quotes!Times /\ timestamp \in Nat /\ load.now \in Nat
    BY <1>2, <1>3, QuoteNumbers
  <2>3. /\ quote = [quoteTimestamp |-> quote.quoteTimestamp, quoteValid |-> quote.quoteValid]
        /\ quote.quoteTimestamp = timestamp /\ quote.quoteValid \in BOOLEAN
        /\ quote.quoteValid => load.now - timestamp <= maxQuoteAge
    BY DEF Quotes!BuildReferenceQuote
  <2>4. quote \in Quotes!Quote
    BY <2>2, <2>3 DEF Quotes!Quote
  <2> HIDE DEF quote
  <2>5. entry \in Quotes!CacheEntry
    BY <1>3, <2>4 DEF Quotes!CacheEntry
  <2>6. GoodView(view)
    <3>1. view = [freshness |-> IF quote.quoteValid THEN "LIVE" ELSE "UNAVAILABLE",
                  quote |-> quote, now |-> load.now]
      BY DEF Quotes!LiveView
    <3>2. view \in Quotes!View
      BY <1>3, <2>4, <3>1 DEF Quotes!View, Quotes!Freshness
    <3>3. view.quote = quote /\ view.now = load.now
      BY <3>1
    <3>4. quote.quoteValid => load.now - quote.quoteTimestamp <= maxQuoteAge + quoteCacheTtl
      <4>1. maxQuoteAge \in Nat /\ quoteCacheTtl \in Nat
        BY QuoteNumbers
      <4> QED  BY <2>2, <2>3, <4>1
    <3> HIDE DEF view
    <3> QED  BY <3>2, <3>3, <3>4 DEF GoodView
  <2> HIDE DEF view
  <2>7. LoadsMove
    BY <2>1, <2>6, AnswerMoves DEF QuotesInv
  <2>8. CacheWasRecent'
    BY <2>1, <2>3 DEF CacheWasRecent
  <2> HIDE DEF entry, load
  <2> QED  BY <1>1, <1>5, <2>1, <2>5, <2>7, <2>8, HostStepKeeps
<1>8. \/ Quotes!Answer(l, Quotes!FallbackView(load)) /\ UNCHANGED quoteCache
      \/ \E timestamp \in 1 .. clock, sound \in BOOLEAN :
            LET quote == Quotes!BuildReferenceQuote(timestamp, sound, load.now)
                entry == [servedAt |-> load.now, quote |-> quote]
            IN  /\ quoteCache' = entry
                /\ Quotes!Answer(l, Quotes!LiveView(entry, load,
                        IF quote.quoteValid THEN "LIVE" ELSE "UNAVAILABLE"))
  BY DEF Quotes!BookArrives
<1> QED  BY <1>6, <1>7, <1>8

\* So does a tick.
LEMMA TickKeeps ==
    ASSUME ServicesAssumption, QuotesInv, Quotes!Tick
    PROVE  QuotesInv'
<1>1. /\ clock < MaxTime /\ clock' = clock + 1
      /\ UNCHANGED <<breakers, buckets, quoteCache, capture, fetches, answers, calls, admitted>>
  BY DEF Quotes!Tick
<1>2. clock \in Nat /\ clock' \in Quotes!Times /\ circuitCooldown \in Nat
  BY <1>1, QuoteNumbers DEF QuotesInv, QuotesTyped
<1>3. QuotesTyped'
  BY <1>1, <1>2 DEF QuotesInv, QuotesTyped
<1>4. CacheWasRecent' /\ CallsSound' /\ RatesHold'
  BY <1>1 DEF QuotesInv, CacheWasRecent, CallsSound, Quotes!LiveIsRecent, RatesHold,
              Through, Span
<1>5. CircuitsHold'
  <2>1. \A l \in Loads : fetches[l] # Null =>
           fetches[l].began \in Nat /\ breakers[fetches[l].host].openUntil \in Nat
    <3>1. \A f \in Quotes!Fetch : f.began \in Nat /\ f.host \in Quotes!Hosts
      BY QuoteRecords DEF Quotes!Fetch
    <3>2. \A b \in Quotes!Breaker : b.openUntil \in Nat
      BY QuoteRecords
    <3>3. /\ \A l \in Loads : fetches[l] # Null => fetches[l] \in Quotes!Fetch
          /\ \A h \in Quotes!Hosts : breakers[h] \in Quotes!Breaker
      BY DEF QuotesInv, QuotesTyped
    <3> QED  BY <3>1, <3>2, <3>3
  <2> QED
    BY <1>1, <1>2, <2>1 DEF QuotesInv, CircuitsHold, Quotes!OpenCircuitSparesTheHost
<1>6. WindowKeepsLimit'
  <2>1. buckets[Quotes!Global].resetAt <= clock' + WINDOW
    <3>1. buckets[Quotes!Global] \in Quotes!Bucket
      BY DEF QuotesInv, QuotesTyped, Quotes!Keys
    <3>2. buckets[Quotes!Global].resetAt \in Nat /\ WINDOW \in Nat
      BY <3>1, QuoteNumbers, QuoteRecords
    <3>3. buckets[Quotes!Global].resetAt <= clock + WINDOW
      BY DEF QuotesInv, WindowKeepsLimit
    <3> QED  BY <1>1, <1>2, <3>2, <3>3
  <2> QED
    BY <1>1, <2>1 DEF QuotesInv, WindowKeepsLimit, WindowStart, Through, From, Span
<1> QED  BY <1>3, <1>4, <1>5, <1>6 DEF QuotesInv

\* Every step of the quotes keeps their invariant.
LEMMA QuotesStepKeeps ==
    ASSUME ServicesAssumption, QuotesInv, Quotes!Next
    PROVE  QuotesInv'
BY GetKeeps, RefreshKeeps, HeadersArriveKeeps, EventArrivesKeeps, BookArrivesKeeps,
   AttemptFailsKeeps, RetryKeeps, TickKeeps DEF Quotes!Next, Quotes!Settle

(***************************************************************************)
(* The services together.                                                  *)
(***************************************************************************)

ServicesInv == StreamInv /\ VerifierInv /\ QuotesInv

\* A stream starts with nothing delivered and no try made.
LEMMA StreamStarts ==
    ASSUME ServicesAssumption, Stream!Init
    PROVE  StreamInv /\ Consecutive
<1>1. MaxEvents \in Nat /\ GiveUpAfter \in Nat /\ MaxFailures \in Nat
  BY StreamNumbers
<1>2. Stream!StreamTypeOK
  <2>1. /\ 0 \in 0 .. (GiveUpAfter + 1) /\ 0 \in 0 .. MaxEvents /\ 0 \in 0 .. MaxFailures
        /\ <<>> \in Seq(Stream!Message)
        /\ Stream!NoId = 0 /\ Stream!NoId \in Stream!Ids \cup {Stream!NoId}
    BY <1>1 DEF Stream!NoId
  <2>2. "none" \in Stream!Partial
    BY DEF Stream!Partial
  <2> QED  BY <2>1, <2>2 DEF Stream!Init, Stream!StreamTypeOK
<1>3. TriesLeft /\ BufferSound /\ Consecutive
  BY <1>1 DEF Stream!Init, TriesLeft, BufferSound, Consecutive, Stream!NoId
<1> QED  BY <1>2, <1>3 DEF StreamInv

\* A run starts with nothing compared.
LEMMA VerifierStarts ==
    ASSUME ServicesAssumption, Verifier!Init
    PROVE  VerifierInv
<1>1. /\ matches \in SUBSET Verifier!GroupSet
      /\ missing \in SUBSET Verifier!Absences
      /\ stage = 1 /\ read = 0 /\ tries = 0 /\ rpc = "idle" /\ rpcAttempt = 0
      /\ error = "none" /\ checks = [c \in Verifier!CheckIds |-> {}]
      /\ expired = FALSE /\ verdict = "none"
  BY DEF Verifier!Init
<1>2. /\ 0 \in 0 .. Transactions /\ 0 \in 0 .. (ReadAttempts - 1)
      /\ 0 \in 0 .. TransportAttempts
  BY DEF ServicesAssumption
<1>3. 1 \in DOMAIN Verifier!Stages
  BY StagesByNumber DEF LastStage
<1>4. Verifier!VerifierTypeOK
  BY <1>1, <1>2, <1>3 DEF Verifier!VerifierTypeOK
<1>5. ComparedBefore(checks, 1)
  <2>1. 1 \in 1 .. LastStage
    BY DEF LastStage
  <2>2. \A c \in Verifier!GroupSet : ComparedIn(c) \in 1 .. LastStage
    BY <2>1, ComparedInStage
  <2>3. \A c \in Verifier!GroupSet : ~ 1 > ComparedIn(c)
    BY <2>2 DEF LastStage
  <2> QED  BY <1>1, <2>3 DEF ComparedBefore, Verifier!CheckIds
<1>6. RunSound
  BY <1>1, <1>5 DEF RunSound
<1> QED  BY <1>1, <1>4, <1>6 DEF VerifierInv, Verifier!VerifiedMeansAllAgreed

\* With no call yet, every sum is zero.
LEMMA QuotesStart ==
    ASSUME ServicesAssumption, Quotes!Init
    PROVE  QuotesInv
<1>1. /\ clock = 1
      /\ breakers = [h \in Quotes!Hosts |-> [failures |-> 0, openUntil |-> 0]]
      /\ buckets = [k \in Quotes!Keys |-> [count |-> 0, resetAt |-> 0]]
      /\ quoteCache = Null /\ capture \in BOOLEAN
      /\ fetches = [l \in Loads |-> Null] /\ answers = [l \in Loads |-> Null]
      /\ calls = 0 /\ admitted = [t \in Quotes!Times |-> 0]
  BY DEF Quotes!Init
<1>2. /\ 0 \in 0 .. MaxCalls /\ 0 \in 0 .. MaxTime + WINDOW /\ 1 \in Quotes!Times
      /\ 0 \in 0 .. circuitFailureThreshold - 1 /\ 0 \in 0 .. MaxTime + circuitCooldown
  BY QuoteNumbers
<1>3. QuotesTyped
  <2>1. [failures |-> 0, openUntil |-> 0] \in Quotes!Breaker
    BY <1>2 DEF Quotes!Breaker
  <2>2. [count |-> 0, resetAt |-> 0] \in Quotes!Bucket
    BY <1>2 DEF Quotes!Bucket
  <2> QED  BY <1>1, <1>2, <2>1, <2>2 DEF QuotesTyped
<1>4. CacheWasRecent /\ CallsSound /\ CircuitsHold
  BY <1>1 DEF CacheWasRecent, CallsSound, CircuitsHold, Quotes!LiveIsRecent,
              Quotes!OpenCircuitSparesTheHost
<1>5. ASSUME NEW S \in SUBSET Quotes!Times
      PROVE  Through(S) = 0
  <2>1. IsFiniteSet(S) /\ \A u \in S : admitted[u] = 0
    BY <1>1, QuoteNumbers, FS_Subset
  <2> QED  BY <2>1, SumOfZeros DEF Through
<1>6. \A t, last : From(t) \in SUBSET Quotes!Times /\ Span(t, last) \in SUBSET Quotes!Times
  BY DEF From, Span
<1>7. WindowKeepsLimit
  <2>1. buckets[Quotes!Global].count = 0 /\ buckets[Quotes!Global].resetAt = 0
    BY <1>1 DEF Quotes!Keys
  <2>2. 0 <= clock + WINDOW /\ 0 <= GLOBAL_LIMIT
    BY <1>1, QuoteNumbers
  <2> QED  BY <1>1, <1>5, <1>6, <2>1, <2>2 DEF WindowKeepsLimit
<1>8. RatesHold
  <2>1. 0 <= GLOBAL_LIMIT /\ 0 <= 2 * GLOBAL_LIMIT
    BY QuoteNumbers
  <2> QED  BY <1>1, <1>5, <1>6, <2>1 DEF RatesHold
<1> QED  BY <1>3, <1>4, <1>7, <1>8 DEF QuotesInv

\* A service that does not move keeps its invariant.
LEMMA StreamRests ==
    ASSUME StreamInv, UNCHANGED streamVars
    PROVE  StreamInv' /\ (Consecutive => Consecutive')
BY DEF streamVars, StreamInv, TriesLeft, BufferSound, Consecutive, Stream!StreamTypeOK

\* So does the verifier.
LEMMA VerifierRests ==
    ASSUME VerifierInv, UNCHANGED verifierVars
    PROVE  VerifierInv'
BY DEF verifierVars, VerifierInv, RunSound, ComparedBefore, Found,
       Verifier!VerifierTypeOK, Verifier!VerifiedMeansAllAgreed,
       Verifier!GroupsOfRecord, Verifier!NoClosures

\* So do the quotes.
LEMMA QuotesRest ==
    ASSUME QuotesInv, UNCHANGED quoteVars
    PROVE  QuotesInv'
BY DEF quoteVars, QuotesInv, QuotesTyped, CacheWasRecent, CallsSound, CircuitsHold,
       WindowKeepsLimit, RatesHold, WindowStart, Through, From, Span,
       Quotes!LiveIsRecent, Quotes!OpenCircuitSparesTheHost

\* The services start within their invariant and keep it.
LEMMA ServicesKeep ==
    ASSUME ServicesAssumption
    PROVE  ServicesSpec => []ServicesInv
<1>1. ServicesInit => ServicesInv
  BY StreamStarts, VerifierStarts, QuotesStart DEF ServicesInit, ServicesInv
<1>2. ASSUME ServicesInv, [ServicesNext]_serviceVars
      PROVE  ServicesInv'
  <2>1. CASE StreamStep
    BY <1>2, <2>1, StreamStepKeeps, VerifierRests, QuotesRest DEF StreamStep, ServicesInv
  <2>2. CASE VerifierStep
    BY <1>2, <2>2, VerifierStepKeeps, StreamRests, QuotesRest DEF VerifierStep, ServicesInv
  <2>3. CASE QuotesStep
    BY <1>2, <2>3, QuotesStepKeeps, StreamRests, VerifierRests DEF QuotesStep, ServicesInv
  <2>4. CASE UNCHANGED serviceVars
    BY <1>2, <2>4, StreamRests, VerifierRests, QuotesRest DEF serviceVars, ServicesInv
  <2> QED  BY <1>2, <2>1, <2>2, <2>3, <2>4 DEF ServicesNext
<1> QED  BY <1>1, <1>2, PTL DEF ServicesSpec

\* Where no body ends inside an event, what is delivered stays consecutive.
LEMMA StreamStaysConsecutive ==
    ASSUME ServicesAssumption, CutsBlocks = FALSE
    PROVE  ServicesSpec => []Consecutive
<1>1. ServicesInit => Consecutive
  BY StreamStarts DEF ServicesInit
<1>2. ASSUME ServicesInv, Consecutive, [ServicesNext]_serviceVars
      PROVE  Consecutive'
  <2>1. CASE StreamStep
    BY <1>2, <2>1, ConsecutiveStepKeeps DEF StreamStep, ServicesInv
  <2>2. CASE UNCHANGED streamVars
    BY <1>2, <2>2, StreamRests DEF ServicesInv
  <2> QED
    BY <1>2, <2>1, <2>2 DEF ServicesNext, VerifierStep, QuotesStep, serviceVars, streamVars
<1>3. ServicesSpec => []ServicesInv
  BY ServicesKeep
<1> QED  BY <1>1, <1>2, <1>3, PTL DEF ServicesSpec

\* Every variable of the services keeps its type, whatever the hosts, TxLINE, the RPC
\* node and the pages do.
THEOREM ServicesTyped ==
    ASSUME ServicesAssumption
    PROVE  ServicesSpec => []ServicesTypeOK
<1>1. ASSUME ServicesInv
      PROVE  ServicesTypeOK
  <2>1. Quotes!QuotesTypeOK
    BY <1>1 DEF ServicesInv, QuotesInv, QuotesTyped, Quotes!QuotesTypeOK
  <2> QED  BY <1>1, <2>1 DEF ServicesInv, StreamInv, VerifierInv, ServicesTypeOK
<1> QED  BY <1>1, ServicesKeep, PTL

\* A page receives the upstream's events whole and in their order, and none is left out
\* between the first and the last it has, however often the reader reconnects: it
\* resumes after the last event it delivered (lib/txline/sse.ts).  Bodies end
\* between two events here; the run stream_cut shows what happens when they do not.
THEOREM EventsCorrect ==
    ASSUME ServicesAssumption, CutsBlocks = FALSE
    PROVE  ServicesSpec => []EventsArriveComplete
<1>1. ServicesSpec => [](ServicesInv /\ Consecutive)
  BY ServicesKeep, StreamStaysConsecutive, PTL
<1>2. ServicesInv /\ Consecutive => EventsArriveComplete
  BY ConsecutiveIsComplete DEF ServicesInv
<1> QED  BY <1>1, <1>2, PTL

\* After a page closed its stream, nothing is delivered to it and its status stays,
\* whatever was under way: a fetch, a read, a timer (lib/txline/sse.ts, close).
THEOREM SilenceCorrect == ServicesSpec => ClosedIsSilent
<1>1. ASSUME [ServicesNext]_serviceVars
      PROVE  [closed => UNCHANGED <<delivered, status>>]_streamVars
  <2>1. CASE Stream!Next
    BY <2>1 DEF Stream!Next, Stream!Emit, Stream!ProxyRequest, Stream!ProxyPipes,
                Stream!ClientGoes, Stream!FetchFails, Stream!Connected, Stream!ReadChunk,
                Stream!BodyEnds, Stream!ReadFails, Stream!Retry, Stream!Close,
                Stream!Catch, Stream!clientVars
  <2>2. CASE UNCHANGED streamVars
    BY <2>2
  <2> QED
    BY <1>1, <2>1, <2>2 DEF ServicesNext, StreamStep, VerifierStep, QuotesStep,
                            serviceVars, streamVars
<1>2. ClosedIsSilent <=> [][closed => UNCHANGED <<delivered, status>>]_streamVars
  BY DEF ClosedIsSilent, Stream!ClosedIsSilent, Stream!vars, streamVars
<1> QED  BY <1>1, <1>2, PTL DEF ServicesSpec

\* The lifecycle verifier says VERIFIED only of a record whose every group was read and
\* agreed, with every account and every transaction found: no retry, no second read of
\* the accounts and no deadline leads to it another way (v3LifecycleVerifier.ts,
\* v4LifecycleVerifier.ts).
THEOREM VerifiedCorrect ==
    ASSUME ServicesAssumption
    PROVE  ServicesSpec => []VerifiedMeansAllAgreed
<1>1. ServicesInv => VerifiedMeansAllAgreed
  BY DEF ServicesInv, VerifierInv, VerifiedMeansAllAgreed
<1> QED  BY <1>1, ServicesKeep, PTL

\* A quote answered as live is no older than the policy's age and the cache's life
\* together; a host whose circuit is open hears only from calls that were talking to it
\* before; and the public route lets through at most its limit at once and twice that
\* in any span as long as a window (service.ts, client.ts and rateLimit.ts in
\* lib/polymarket).
THEOREM QuotesCorrect ==
    ASSUME ServicesAssumption
    PROVE  ServicesSpec => []QuotesKeepTheirLimits
<1>1. ServicesInv => QuotesKeepTheirLimits
  BY RatesAreSums DEF ServicesInv, QuotesInv, CallsSound, CircuitsHold, QuotesKeepTheirLimits
<1> QED  BY <1>1, ServicesKeep, PTL
=============================================================================
