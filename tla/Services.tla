------------------------------ MODULE Services ------------------------------
(***************************************************************************)
(* The services behind the pages: the TxLINE stream, the lifecycle         *)
(* verifier and the reference quotes.  They share no state and run at the  *)
(* same time.                                                              *)
(***************************************************************************)
EXTENDS Integers

CONSTANTS
    Null,
    MaxEvents, MaxFailures, GiveUpAfter, Credentials, CutsBlocks,    \* of a stream
    Version, Transactions, BatchSize,                                \* of the verifier
    TransportAttempts, ReadAttempts,
    Loads, Ips, GLOBAL_LIMIT, PER_IP_LIMIT, REFRESH_LIMIT, WINDOW,   \* of the quotes
    requestTimeout, maxRetries, circuitFailureThreshold, circuitCooldown,
    quoteCacheTtl, maxQuoteAge, Skew, MaxTime, MaxCalls

VARIABLES
    closed, streamAttempt, lastEventId, reader, status, buffer, delivered,
    proxy, upstream, cursor, emitted, failures,
    matches, missing, stage, read, tries, rpc, rpcAttempt, error, checks,
    expired, verdict,
    clock, breakers, buckets, quoteCache, capture, fetches, answers, calls,
    admitted

streamVars == <<closed, streamAttempt, lastEventId, reader, status, buffer,
                delivered, proxy, upstream, cursor, emitted, failures>>
verifierVars == <<matches, missing, stage, read, tries, rpc, rpcAttempt, error,
                  checks, expired, verdict>>
quoteVars == <<clock, breakers, buckets, quoteCache, capture, fetches, answers,
               calls, admitted>>
serviceVars == <<streamVars, verifierVars, quoteVars>>

Stream == INSTANCE TxlineStream WITH attempt <- streamAttempt
Verifier == INSTANCE LifecycleVerifier WITH request <- rpc, attempt <- rpcAttempt
Quotes == INSTANCE ReferenceQuotes

ServicesInit == Stream!Init /\ Verifier!Init /\ Quotes!Init

StreamStep == Stream!Next /\ UNCHANGED <<verifierVars, quoteVars>>
VerifierStep == Verifier!Next /\ UNCHANGED <<streamVars, quoteVars>>
QuotesStep == Quotes!Next /\ UNCHANGED <<streamVars, verifierVars>>

ServicesNext == StreamStep \/ VerifierStep \/ QuotesStep

ServicesSpec == ServicesInit /\ [][ServicesNext]_serviceVars

\* The bounds are numbers; each thing is tried at least once, a circuit opens at a
\* failure at the earliest, each limit lets a call through, no client's key is the
\* key of all clients, and a missing record is none of the records.
ServicesAssumption ==
    /\ {MaxEvents, MaxFailures, GiveUpAfter, Transactions, BatchSize} \subseteq Nat
    /\ {TransportAttempts, ReadAttempts} \subseteq Nat \ {0}
    /\ Version \in {"v3", "v4"}
    /\ {MaxTime, MaxCalls, WINDOW, circuitFailureThreshold} \subseteq Nat \ {0}
    /\ {GLOBAL_LIMIT, PER_IP_LIMIT, REFRESH_LIMIT} \subseteq Nat \ {0}
    /\ {maxRetries, circuitCooldown, quoteCacheTtl, maxQuoteAge, Skew} \subseteq Nat
    /\ requestTimeout \in Nat /\ "__global__" \notin Ips
    /\ Null \notin Quotes!CacheEntry /\ Null \notin Quotes!Fetch
    /\ Null \notin Quotes!View /\ Null \notin Quotes!Quote

-----------------------------------------------------------------------------
(* The properties of the services, as their modules state them.            *)

\* Every variable keeps its type, in every service.
ServicesTypeOK ==
    /\ Stream!StreamTypeOK
    /\ Verifier!VerifierTypeOK
    /\ Quotes!QuotesTypeOK

\* TxlineStream: what a page receives are the upstream's events in their order,
\* none left out however often the connection is resumed.
EventsArriveComplete == Stream!DeliveredInOrder /\ Stream!ResumeSkipsNothing

\* The second half alone, for bodies that end inside an event: sse.ts promises a
\* parser "tolerant of ... partial blocks".
ResumeSkipsNothing == Stream!ResumeSkipsNothing

\* TxlineStream: nothing is heard from a stream after it was closed.
ClosedIsSilent == Stream!ClosedIsSilent

\* LifecycleVerifier: VERIFIED means that all was read and agreed.
VerifiedMeansAllAgreed == Verifier!VerifiedMeansAllAgreed

\* ReferenceQuotes: a quote served as live is no older than its lifetime allows, a
\* host whose circuit is open is not called, and a window admits no more calls than
\* its limits.
QuotesKeepTheirLimits ==
    /\ Quotes!LiveIsRecent
    /\ Quotes!OpenCircuitSparesTheHost
    /\ Quotes!RateIsBounded

\* ReferenceQuotes: a rejected quote is never served as live (service.ts:208).
RejectedIsNeverLive == Quotes!RejectedIsNeverLive
=============================================================================
