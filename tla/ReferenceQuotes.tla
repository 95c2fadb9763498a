-------------------------- MODULE ReferenceQuotes --------------------------
(***************************************************************************)
(* The external reference quote: the public route and the operator's       *)
(* refresh route (app/api/reference-quotes), the service with its cache    *)
(* and its fallbacks (lib/polymarket/service.ts), the HTTP client with     *)
(* timeouts, retries and a circuit breaker per host (client.ts), the       *)
(* market discovery in front of the order book (discovery.ts), the rate    *)
(* limiter (rateLimit.ts) and the freshness a quote is judged by           *)
(* (pricing.ts).  The module QuotePolicy has the order-book policy itself: *)
(* here a book is its timestamp and whether that policy finds it sound.    *)
(*                                                                         *)
(* Loads are requests in flight; a load is one call of the route handler.  *)
(* Time is counted in ticks of five seconds, the granularity of the cache  *)
(* and of the clock skew the policy allows.                                *)
(***************************************************************************)
EXTENDS Integers, FiniteSets, FiniteSetsExt

CONSTANTS
    Null,
    Loads,                  \* request slots
    Ips,                    \* client keys of the rate limiter
    GLOBAL_LIMIT, PER_IP_LIMIT, REFRESH_LIMIT, WINDOW,
    requestTimeout,         \* 8 s
    maxRetries,
    circuitFailureThreshold,
    circuitCooldown,        \* 30 s
    quoteCacheTtl,          \* 5 s
    maxQuoteAge,            \* 60 s
    Skew,                   \* 5 s: how far ahead of `now` a book may be
    MaxTime,                \* bound of the clock in a run
    MaxCalls                \* bound of the calls of the routes in a run

Hosts == {"gamma", "clob"}
Freshness == {"LIVE", "RECENTLY_CACHED", "HISTORICAL_CAPTURE", "UNAVAILABLE"}
Errors == {"RATE_LIMITED"}
Times == 1 .. MaxTime

Quote == [quoteTimestamp : Times, quoteValid : BOOLEAN]
CacheEntry == [servedAt : Times, quote : Quote]
Breaker == [failures : 0 .. circuitFailureThreshold - 1,
            openUntil : 0 .. MaxTime + circuitCooldown]
View == [freshness : Freshness \cup Errors, quote : Quote \cup {Null},
         now : Times]

\* What a call has in its closure while it waits for a host: the `now` and
\* the cache entry read when it started.  phase: waiting for the response
\* headers, for the body, or asleep before the next attempt.
Fetch ==
    [ now : Times, cached : CacheEntry \cup {Null},
      host : Hosts, attempt : 0 .. maxRetries,
      phase : {"headers", "body", "backoff"},
      began : Times,           \* when the circuit of the host was looked at
      sent : Times ]

Global == <<"quote", "__global__">>
Keys == {Global} \cup ({"quote", "refresh"} \X Ips)
Bucket == [count : 0 .. MaxCalls, resetAt : 0 .. MaxTime + WINDOW]

VARIABLES
    clock,
    breakers,        \* [Hosts -> Breaker]
    buckets,         \* [Keys -> Bucket]
    quoteCache,      \* CacheEntry or Null
    capture,         \* the bundled capture is there and verifies
    fetches,         \* [Loads -> Fetch or Null]
    answers,         \* [Loads -> the last view answered, or Null]
    calls,           \* calls so far, the bound of a run
    admitted         \* history: public calls let through, per tick

vars == << clock, breakers, buckets, quoteCache, capture, fetches, answers,
           calls, admitted >>

Init ==
    /\ clock = 1
    /\ breakers = [h \in Hosts |-> [failures |-> 0, openUntil |-> 0]]
    /\ buckets = [k \in Keys |-> [count |-> 0, resetAt |-> 0]]
    /\ quoteCache = Null
    /\ capture \in BOOLEAN
    /\ fetches = [l \in Loads |-> Null]
    /\ answers = [l \in Loads |-> Null]
    /\ calls = 0
    /\ admitted = [t \in Times |-> 0]

-----------------------------------------------------------------------------
(* The rate limiter.                                                       *)

Allowed(key, limit) ==
    buckets[key].resetAt <= clock \/ buckets[key].count < limit

\* Slip: a window that has ended is counted on, not started again.
CountedIgnoringLimit(bucket, limit) ==
    IF bucket.resetAt <= clock
    THEN [count |-> 0, resetAt |-> clock + WINDOW]
    ELSE bucket

\* rateLimit: the bucket after a call, allowed or not.
Counted(bucket, limit) ==
    CASE bucket.resetAt <= clock -> [count |-> 1, resetAt |-> clock + WINDOW]
      [] bucket.resetAt > clock /\ bucket.count >= limit -> bucket
      [] OTHER -> [bucket EXCEPT !.count = @ + 1]

-----------------------------------------------------------------------------
(* The views a call answers with.                                          *)

LiveView(entry, load, freshness) ==
    [freshness |-> freshness, quote |-> entry.quote,
     now |-> load.now]

HistoricalView(load) ==
    [freshness |-> IF capture THEN "HISTORICAL_CAPTURE" ELSE "UNAVAILABLE",
     quote |-> Null, now |-> load.now]

\* The catch clause of getReferenceQuoteView: the entry the call saw when it
\* started, whatever has been stored since.
FallbackView(load) ==
    IF load.cached # Null
    THEN LiveView(load.cached, load, "RECENTLY_CACHED")
    ELSE HistoricalView(load)

Answer(l, view) ==
    /\ answers' = [answers EXCEPT ![l] = view]
    /\ fetches' = [fetches EXCEPT ![l] = Null]

\* Slip: the circuit is looked at for the first host only.
BeginFetchOfBookAnyway(l, load, host) ==
    IF host = "gamma" /\ breakers[host].openUntil > clock
    THEN Answer(l, FallbackView(load))
    ELSE /\ fetches' = [fetches EXCEPT ![l] =
                [now |-> load.now, cached |-> load.cached, host |-> host, attempt |-> 0,
                 phase |-> "headers", began |-> clock, sent |-> clock]]
         /\ answers' = [answers EXCEPT ![l] = Null]

\* fetchJson, up to its first request: an open circuit fails at once.
BeginFetch(l, load, host) ==
    IF breakers[host].openUntil > clock
    THEN Answer(l, FallbackView(load))
    ELSE /\ fetches' = [fetches EXCEPT ![l] =
                [now |-> load.now, cached |-> load.cached, host |-> host, attempt |-> 0,
                 phase |-> "headers", began |-> clock, sent |-> clock]]
         /\ answers' = [answers EXCEPT ![l] = Null]

\* Slip: the cache never expires.
CacheFreshForever == quoteCache # Null

CacheFresh == quoteCache # Null /\ clock - quoteCache.servedAt <= quoteCacheTtl

\* getReferenceQuoteView, up to its first await.
GetReferenceQuoteView(l, forced) ==
    LET load == [now |-> clock, cached |-> quoteCache]
    IN  IF CacheFresh /\ ~forced
        THEN Answer(l, LiveView(quoteCache, load, "LIVE"))
        ELSE BeginFetch(l, load, "gamma")

RateLimited(l) ==
    Answer(l, [freshness |-> "RATE_LIMITED", quote |-> Null, now |-> clock])

\* GET /api/reference-quotes/[mappingId]: both limits are charged, whether or
\* not the other lets the call through.
Get(l, ip) ==
    /\ calls < MaxCalls
    /\ fetches[l] = Null
    /\ calls' = calls + 1
    /\ LET perIp == <<"quote", ip>>
       IN  /\ buckets' = [buckets EXCEPT
                            ![perIp] = Counted(@, PER_IP_LIMIT),
                            ![Global] = Counted(@, GLOBAL_LIMIT)]
           /\ IF Allowed(perIp, PER_IP_LIMIT) /\ Allowed(Global, GLOBAL_LIMIT)
              THEN /\ GetReferenceQuoteView(l, FALSE)
                   /\ admitted' = [admitted EXCEPT ![clock] = @ + 1]
              ELSE RateLimited(l) /\ UNCHANGED admitted
    /\ UNCHANGED <<clock, breakers, quoteCache, capture>>

\* POST .../refresh, by a caller that holds the operator's token.
Refresh(l, ip) ==
    /\ calls < MaxCalls
    /\ fetches[l] = Null
    /\ calls' = calls + 1
    /\ buckets' = [buckets EXCEPT ![<<"refresh", ip>>] =
                        Counted(@, REFRESH_LIMIT)]
    /\ IF Allowed(<<"refresh", ip>>, REFRESH_LIMIT)
       THEN GetReferenceQuoteView(l, TRUE)
       ELSE RateLimited(l)
    /\ UNCHANGED <<clock, breakers, quoteCache, capture, admitted>>

-----------------------------------------------------------------------------
(* One attempt at a host: its headers, its body, its failure, the retry.   *)

Waiting(l, phases) == fetches[l] # Null /\ fetches[l].phase \in phases

\* The headers of a good response: the abort timer is cleared here.
HeadersArrive(l) ==
    /\ Waiting(l, {"headers"})
    /\ fetches' = [fetches EXCEPT ![l].phase = "body"]
    /\ UNCHANGED <<clock, breakers, buckets, quoteCache, capture, answers,
                   calls, admitted>>

Closed(breaker) == [failures |-> 0, openUntil |-> 0]

\* The event of the mapping: the identity it must have to be followed.
EventArrives(l) ==
    /\ Waiting(l, {"body"})
    /\ fetches[l].host = "gamma"
    /\ breakers' = [breakers EXCEPT !["gamma"] = Closed(@)]
    /\ \E matches \in BOOLEAN :
            IF matches THEN BeginFetch(l, fetches[l], "clob")
                       ELSE Answer(l, FallbackView(fetches[l]))
    /\ UNCHANGED <<clock, buckets, quoteCache, capture, calls, admitted>>

\* Slip: an old book passes.
BuildReferenceQuoteOfAnyAge(timestamp, sound, now) ==
    [quoteTimestamp |-> timestamp,
     quoteValid |-> sound /\ timestamp <= now + Skew]

\* buildReferenceQuote, its clock part: `now` is the start of the call.
BuildReferenceQuote(timestamp, sound, now) ==
    [quoteTimestamp |-> timestamp,
     quoteValid |-> /\ sound
                    /\ timestamp <= now + Skew
                    /\ now - timestamp <= maxQuoteAge]

\* The order book of the mapped token, or one of another token or market.
BookArrives(l) ==
    /\ Waiting(l, {"body"})
    /\ fetches[l].host = "clob"
    /\ breakers' = [breakers EXCEPT !["clob"] = Closed(@)]
    /\ LET load == fetches[l]
       IN  \/ /\ Answer(l, FallbackView(load))
              /\ UNCHANGED quoteCache
           \/ \E timestamp \in 1 .. clock, sound \in BOOLEAN :
                LET quote == BuildReferenceQuote(timestamp, sound, load.now)
                    entry == [servedAt |-> load.now, quote |-> quote]
                IN  /\ quoteCache' = entry
                    /\ Answer(l, LiveView(entry, load,
                            IF quote.quoteValid THEN "LIVE" ELSE "UNAVAILABLE"))
    /\ UNCHANGED <<clock, buckets, capture, calls, admitted>>

Failed(breaker) ==
    IF breaker.failures + 1 >= circuitFailureThreshold
    THEN [failures |-> 0, openUntil |-> clock + circuitCooldown]
    ELSE [breaker EXCEPT !.failures = @ + 1]

\* Slip: the attempts are counted from zero, the retries from one.
AnotherRetry(load) == load.attempt <= maxRetries

RetriesLeft(load) == load.attempt < maxRetries

\* An attempt ends badly: a status above 499 or 429, a network error, an
\* abort or a body that is not JSON may be retried; another status may not.
AttemptFails(l, retryable) ==
    /\ Waiting(l, {"headers", "body"})
    /\ ~retryable => fetches[l].phase = "headers"
    /\ IF retryable /\ RetriesLeft(fetches[l])
       THEN /\ fetches' = [fetches EXCEPT ![l].phase = "backoff"]
            /\ UNCHANGED <<breakers, answers>>
       ELSE /\ breakers' = [breakers EXCEPT ![fetches[l].host] = Failed(@)]
            /\ Answer(l, FallbackView(fetches[l]))
    /\ UNCHANGED <<clock, buckets, quoteCache, capture, calls, admitted>>

\* Slip: a retry starts the count of attempts again.
RetryAfresh(l) ==
    /\ Waiting(l, {"backoff"})
    /\ fetches' = [fetches EXCEPT ![l].phase = "headers", ![l].sent = clock]
    /\ UNCHANGED <<clock, breakers, buckets, quoteCache, capture, answers,
                   calls, admitted>>

\* The backoff is over: the next attempt, without another look at the circuit.
Retry(l) ==
    /\ Waiting(l, {"backoff"})
    /\ fetches' = [fetches EXCEPT ![l].phase = "headers",
                                  ![l].attempt = @ + 1,
                                  ![l].sent = clock]
    /\ UNCHANGED <<clock, breakers, buckets, quoteCache, capture, answers,
                   calls, admitted>>

TimerDue(l) ==
    Waiting(l, {"headers"}) /\ clock - fetches[l].sent >= requestTimeout

\* Time passes; an abort timer that is due fires first.
Tick ==
    /\ clock < MaxTime
    /\ \A l \in Loads : ~TimerDue(l)
    /\ clock' = clock + 1
    /\ UNCHANGED <<breakers, buckets, quoteCache, capture, fetches, answers,
                   calls, admitted>>

Settle(l) ==
    \/ EventArrives(l)
    \/ BookArrives(l)
    \/ \E retryable \in BOOLEAN : AttemptFails(l, retryable)

Next ==
    \/ \E l \in Loads :
        \/ \E ip \in Ips : Get(l, ip) \/ Refresh(l, ip)
        \/ HeadersArrive(l)
        \/ Settle(l)
        \/ Retry(l)
    \/ Tick

\* An attempt ends, by its answer, by the abort timer or by the body timeout
\* of the HTTP library, and a backoff ends.
Fairness ==
    \A l \in Loads : WF_vars(Settle(l)) /\ WF_vars(Retry(l))

Spec == Init /\ [][Next]_vars /\ Fairness

-----------------------------------------------------------------------------
(* Properties.                                                             *)

QuotesTypeOK ==
    /\ clock \in Times
    /\ breakers \in [Hosts -> Breaker]
    /\ DOMAIN buckets = Keys
    /\ \A k \in Keys : buckets[k] \in Bucket
    /\ quoteCache \in CacheEntry \cup {Null}
    /\ capture \in BOOLEAN
    /\ DOMAIN fetches = Loads
    /\ \A l \in Loads : fetches[l] = Null \/ fetches[l] \in Fetch
    /\ \A l \in Loads : answers[l] = Null \/ answers[l] \in View
    /\ calls \in 0 .. MaxCalls
    /\ admitted \in [Times -> 0 .. MaxCalls]

\* A view labelled LIVE with a quote the policy accepted is never older than
\* the age the policy allows plus the life of the cache, whichever path it
\* came by: fetched by this call or by another, forced or not.
LiveIsRecent ==
    \A l \in Loads :
        LET view == answers[l]
        IN  /\ view # Null
            /\ view.freshness = "LIVE"
            /\ view.quote.quoteValid
            => view.now - view.quote.quoteTimestamp <= maxQuoteAge + quoteCacheTtl

\* While the circuit of a host is open, the only calls still talking to it are
\* those that were talking to it when the circuit opened: an outage is not
\* fed by new visitors, not even by those whose discovery succeeded.
OpenCircuitSparesTheHost ==
    \A l \in Loads :
        /\ fetches[l] # Null
        /\ breakers[fetches[l].host].openUntil > clock
        => fetches[l].began <= breakers[fetches[l].host].openUntil
                               - circuitCooldown

\* The public route lets through at most its limit at once, and twice its limit
\* in any span as long as a window, wherever the span starts, and whatever the
\* clients are.
RateIsBounded ==
    \A t \in Times :
        /\ admitted[t] <= GLOBAL_LIMIT
        /\ MapThenSumSet(LAMBDA u : admitted[u],
                        {u \in Times : t <= u /\ u < t + WINDOW})
            <= 2 * GLOBAL_LIMIT

\* Every call is answered, through retries, an outage or a market that is not
\* the mapped one: no failure leaves a visitor waiting.
EveryCallIsAnswered ==
    \A l \in Loads : fetches[l] # Null ~> fetches[l] = Null

\* What the service's comment says: a fetched-but-rejected quote is
\* UNAVAILABLE, so that no view labelled LIVE holds a rejected quote.
RejectedIsNeverLive ==
    \A l \in Loads :
        answers[l] # Null /\ answers[l].freshness = "LIVE"
            => answers[l].quote.quoteValid
=============================================================================
