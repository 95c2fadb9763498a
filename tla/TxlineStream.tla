--------------------------- MODULE TxlineStream ---------------------------
(***************************************************************************)
(* One TxLINE stream from the browser to TxLINE and back:                  *)
(* lib/txline/sse.ts (the reader with its reconnects and its resume),      *)
(* lib/txline/client.ts, and the server's proxy (lib/txline/server.ts and  *)
(* config.ts) that holds the credentials.                                  *)
(*                                                                         *)
(* The events of a stream are numbered as TxLINE emits them and carry that *)
(* number as their id.  Between an event's first byte and its closing      *)
(* blank line a connection may break, and a chunk may end anywhere.  What  *)
(* the reader does between two awaits is one action: nothing of the page   *)
(* runs in between.                                                        *)
(***************************************************************************)
EXTENDS Naturals, Sequences, SequencesExt

CONSTANTS
    MaxEvents,       \* bound: how many events TxLINE emits
    MaxFailures,     \* bound: how many connections fail or end
    GiveUpAfter,     \* reconnects without a connection before giving up: 5
    Credentials,     \* whether the server has both TxLINE credentials
    CutsBlocks       \* whether a body may end, without error, inside an event

Ids == 1 .. MaxEvents
NoId == 0            \* lastEventId === null: the ids start at 1

\* What has arrived of the event after the last complete one: nothing, lines
\* before its id, or its id and more.
Partial == {"none", "data", "id"}

Message == [id : Ids \cup {NoId}, event : Ids, whole : BOOLEAN]

VARIABLES
    closed, attempt, lastEventId,   \* the closure of openSSEStream
    reader,          \* where connect is: its await, the retry timer, or over
    status,          \* the last onStatus
    buffer,          \* the parser's buffer
    delivered,       \* the messages handed to onMessage
    proxy,           \* the route: "idle", "handshake", "piping"
    upstream,        \* TxLINE's side of the connection: open or not
    cursor,          \* the last event the connection has carried whole
    emitted,         \* the last event TxLINE has emitted
    failures

vars == <<closed, attempt, lastEventId, reader, status, buffer, delivered,
          proxy, upstream, cursor, emitted, failures>>

clientVars == <<closed, attempt, lastEventId, reader, status, buffer, delivered>>
serverVars == <<proxy, upstream, cursor, emitted>>

-----------------------------------------------------------------------------
Init ==
    /\ closed = FALSE
    /\ attempt = 0
    /\ lastEventId = NoId
    /\ reader = "fetching"        \* void connect()
    /\ status = "connecting"
    /\ buffer = "none"
    /\ delivered = <<>>
    /\ proxy = "idle"
    /\ upstream = FALSE
    /\ cursor = 0
    /\ emitted = 0
    /\ failures = 0

-----------------------------------------------------------------------------
(* TxLINE, as the proxy uses it: it emits, and resumes after a given id.   *)

Emit ==
    /\ emitted < MaxEvents
    /\ emitted' = emitted + 1
    /\ UNCHANGED <<clientVars, proxy, upstream, cursor, failures>>

-----------------------------------------------------------------------------
(* The proxy.                                                              *)

\* The request arrives; without credentials it is answered at once.
ProxyRequest ==
    /\ reader = "fetching"
    /\ proxy = "idle"
    /\ Credentials
    /\ proxy' = "handshake"
    /\ UNCHANGED <<clientVars, upstream, cursor, emitted, failures>>

\* TxLINE accepts: the body is piped, from the id the client resumes from.
ProxyPipes ==
    /\ proxy = "handshake"
    /\ proxy' = "piping"
    /\ upstream' = TRUE
    /\ cursor' = IF lastEventId # NoId THEN lastEventId ELSE emitted
    /\ UNCHANGED <<clientVars, emitted, failures>>

\* Slip: the request's abort is not forwarded to TxLINE.
ClientGoesWithoutAbort ==
    /\ closed
    /\ proxy # "idle"
    /\ proxy' = "idle"
    /\ UNCHANGED <<clientVars, upstream, cursor, emitted, failures>>

\* The request's signal aborts: so does the upstream connection.
ClientGoes ==
    /\ closed
    /\ proxy # "idle"
    /\ proxy' = "idle"
    /\ upstream' = FALSE
    /\ UNCHANGED <<clientVars, cursor, emitted, failures>>

-----------------------------------------------------------------------------
(* The reader.                                                             *)

\* Slip: after the last attempt nothing more is scheduled, nor reported.
ScheduleReconnectUnreported(st) ==
    /\ attempt' = attempt + 1
    /\ reader' = IF attempt + 1 > GiveUpAfter THEN "over" ELSE "backoff"
    /\ status' = IF attempt + 1 > GiveUpAfter THEN "connecting" ELSE st

\* Slip: the attempts are counted and never limited.
ScheduleReconnectForever(st) ==
    /\ attempt' = attempt + 1
    /\ reader' = "backoff"
    /\ status' = st

\* scheduleReconnect, on a handle that is not closed.  st is what onStatus was
\* last told.
ScheduleReconnect(st) ==
    /\ attempt' = attempt + 1
    /\ IF attempt + 1 > GiveUpAfter
       THEN reader' = "over" /\ status' = "error"
       ELSE reader' = "backoff" /\ status' = st

\* Slip: the catch clause does not ask whether the handle was closed.
CatchEvenClosed ==
    /\ buffer' = "none"
    /\ ScheduleReconnect("error")

\* The catch clause of connect.
Catch ==
    /\ buffer' = "none"           \* each connection has a parser of its own
    /\ IF closed
       THEN reader' = "over" /\ UNCHANGED <<attempt, status>>
       ELSE ScheduleReconnect("error")

\* The fetch, or the body of a refusal, rejects: no credentials, the handshake
\* timing out, TxLINE refusing, the network, or the abort of a closed handle.
FetchFails ==
    /\ reader = "fetching"
    /\ Catch
    /\ IF closed
       THEN UNCHANGED <<proxy, upstream, failures>>
       ELSE /\ proxy' = "idle"
            /\ upstream' = FALSE
            /\ \/ ~ Credentials /\ UNCHANGED failures
               \/ failures < MaxFailures /\ failures' = failures + 1
    /\ UNCHANGED <<closed, lastEventId, delivered, cursor, emitted>>

Connected ==
    /\ reader = "fetching"
    /\ ~ closed
    /\ proxy = "piping"
    /\ reader' = "reading"
    /\ attempt' = 0
    /\ status' = "live"
    /\ UNCHANGED <<closed, lastEventId, buffer, delivered, serverVars, failures>>

\* The messages of the events first .. last, all arrived whole.
Blocks(first, last) ==
    [i \in 1 .. (last + 1 - first) |->
        [id |-> first + i - 1, event |-> first + i - 1, whole |-> TRUE]]

\* Slip: the id is noted as soon as its line arrives, not with its message.
ReadNotingIdEarly ==
    /\ reader = "reading"
    /\ ~ closed
    /\ proxy = "piping"
    /\ \E last \in cursor .. emitted, part \in Partial :
          /\ part # "none" => last < emitted
          /\ last > cursor \/ part # buffer
          /\ last = cursor => buffer = "none" \/ part = "id"
          /\ delivered' = delivered \o Blocks(cursor + 1, last)
          /\ lastEventId' = IF part = "id" THEN last + 1
                            ELSE IF last > cursor THEN last ELSE lastEventId
          /\ buffer' = part
          /\ cursor' = last
    /\ UNCHANGED <<closed, attempt, reader, status, proxy, upstream, emitted,
                   failures>>

\* Slip: the first id seen is kept.
ReadKeepingFirstId ==
    /\ reader = "reading"
    /\ ~ closed
    /\ proxy = "piping"
    /\ \E last \in (cursor + 1) .. emitted :
          /\ delivered' = delivered \o Blocks(cursor + 1, last)
          /\ lastEventId' = IF lastEventId # NoId THEN lastEventId ELSE last
          /\ cursor' = last
    /\ buffer' = "none"
    /\ UNCHANGED <<closed, attempt, reader, status, proxy, upstream, emitted,
                   failures>>

\* read() resolves with a chunk: parser.feed fires onMessage for every block it
\* completes, and keeps the rest.
ReadChunk ==
    /\ reader = "reading"
    /\ ~ closed
    /\ proxy = "piping"
    /\ \E last \in cursor .. emitted, part \in Partial :
          /\ part # "none" => last < emitted
          /\ last > cursor \/ part # buffer
          /\ last = cursor => buffer = "none" \/ part = "id"
          /\ delivered' = delivered \o Blocks(cursor + 1, last)
          /\ lastEventId' = IF last > cursor THEN last ELSE lastEventId
          /\ buffer' = part
          /\ cursor' = last
    /\ UNCHANGED <<closed, attempt, reader, status, proxy, upstream, emitted,
                   failures>>

\* parser.flush: what is left in the buffer is parsed as a block.
Flushed ==
    IF buffer = "none" THEN <<>>
    ELSE << [id |-> IF buffer = "id" THEN cursor + 1 ELSE NoId,
             event |-> cursor + 1,
             whole |-> FALSE] >>

\* The body ends: TxLINE, or the proxy's host, closes it.
BodyEnds ==
    /\ reader = "reading"
    /\ ~ closed
    /\ CutsBlocks \/ buffer = "none"
    /\ failures < MaxFailures
    /\ failures' = failures + 1
    /\ delivered' = delivered \o Flushed
    /\ lastEventId' = IF buffer = "id" THEN cursor + 1 ELSE lastEventId
    /\ buffer' = "none"
    /\ ScheduleReconnect(status)
    /\ proxy' = "idle"
    /\ upstream' = FALSE
    /\ UNCHANGED <<closed, cursor, emitted>>

\* read() rejects: the network fails, or the handle was closed.
ReadFails ==
    /\ reader = "reading"
    /\ Catch
    /\ IF closed
       THEN UNCHANGED <<proxy, upstream, failures>>
       ELSE /\ proxy' = "idle"
            /\ upstream' = FALSE
            /\ failures < MaxFailures
            /\ failures' = failures + 1
    /\ UNCHANGED <<closed, lastEventId, delivered, cursor, emitted>>

\* The retry timer fires.
Retry ==
    /\ reader = "backoff"
    /\ IF closed
       THEN reader' = "over" /\ UNCHANGED status
       ELSE reader' = "fetching" /\ status' = "connecting"
    /\ UNCHANGED <<closed, attempt, lastEventId, buffer, delivered, serverVars,
                   failures>>

\* close(): the timer is cleared, the request aborted.
Close ==
    /\ ~ closed
    /\ closed' = TRUE
    /\ reader' = IF reader = "backoff" THEN "over" ELSE reader
    /\ status' = "disconnected"
    /\ UNCHANGED <<attempt, lastEventId, buffer, delivered, serverVars, failures>>

-----------------------------------------------------------------------------
Next ==
    \/ Emit
    \/ ProxyRequest
    \/ ProxyPipes
    \/ ClientGoes
    \/ FetchFails
    \/ Connected
    \/ ReadChunk
    \/ BodyEnds
    \/ ReadFails
    \/ Retry
    \/ Close

\* A fetch or a read settles, an abort is delivered and a timer fires; whether a
\* chunk, an end or a failure is next, and whether anybody closes, is open.
Fairness ==
    /\ WF_vars(FetchFails \/ Connected)
    /\ WF_vars(ProxyRequest)
    /\ WF_vars(ProxyPipes \/ FetchFails)
    /\ WF_vars(ClientGoes)
    /\ WF_vars(Retry)
    /\ WF_vars(closed /\ ReadFails)

Spec == Init /\ [][Next]_vars /\ Fairness

-----------------------------------------------------------------------------
(* Properties.                                                             *)

StreamTypeOK ==
    /\ closed \in BOOLEAN
    /\ attempt \in 0 .. (GiveUpAfter + 1)
    /\ lastEventId \in Ids \cup {NoId}
    /\ reader \in {"fetching", "reading", "backoff", "over"}
    /\ status \in {"connecting", "live", "error", "disconnected"}
    /\ buffer \in Partial
    /\ delivered \in Seq(Message)
    /\ proxy \in {"idle", "handshake", "piping"}
    /\ upstream \in BOOLEAN
    /\ cursor \in 0 .. MaxEvents
    /\ emitted \in 0 .. MaxEvents
    /\ failures \in 0 .. MaxFailures

\* Across reconnects, the events that arrive whole arrive in the order TxLINE
\* emitted them and none arrives twice: the terminal takes an event with a
\* sequence it has seen for a new one.
DeliveredInOrder ==
    \A i, j \in DOMAIN delivered :
        i < j /\ delivered[i].whole /\ delivered[j].whole
            => delivered[i].event < delivered[j].event

\* Resuming from lastEventId leaves no event behind: from the first event the
\* page was given up to that one, all have been given to it whole.
ResumeSkipsNothing ==
    lastEventId # NoId =>
        \A e \in Ids :
            (e <= lastEventId /\ \E m \in ToSet(delivered) : m.event <= e)
                => \E m \in ToSet(delivered) : m.event = e /\ m.whole

\* A handle that was closed never calls back: what the page shows of the stream
\* stays "disconnected", whatever the request or the timer was about to do.
ClosedIsSilent == [][closed => UNCHANGED <<delivered, status>>]_vars

\* A page that is not streaming gets a connection or is told that there will be
\* none; it is never left "connecting" for good.
NotStreaming == reader \in {"fetching", "backoff"}
ConnectedOrGivenUp ==
    reader = "reading" \/ closed \/ (reader = "over" /\ status = "error")
ConnectsOrGivesUp == NotStreaming ~> ConnectedOrGivenUp

\* The connection to TxLINE does not outlive the page's handle.
UpstreamIsReleased == closed ~> (closed /\ ~ upstream)
=============================================================================
