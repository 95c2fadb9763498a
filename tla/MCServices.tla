----------------------------- MODULE MCServices -----------------------------
(***************************************************************************)
(* The services behind the pages, for TLC.  They share no state, so a      *)
(* behaviour is one of one service, with the others at rest.               *)
(***************************************************************************)
EXTENDS Services, TLC

CONSTANTS l1, l2, ip1     \* request slots and a client of the quote routes

\* The assumption of the proofs holds of this instance.
ASSUME ServicesAreProper == ServicesAssumption

VARIABLE service

vars == <<service, serviceVars>>

\* At rest: an initial state, the same for all behaviours of the others.
StreamRests == Stream!Init
VerifierRests == Verifier!Init /\ matches = {} /\ missing = {}
QuotesRest == Quotes!Init /\ capture = FALSE

OneServiceInit ==
    \/ /\ service = "stream"
       /\ Stream!Init /\ VerifierRests /\ QuotesRest
    \/ /\ service = "verifier"
       /\ Verifier!Init /\ StreamRests /\ QuotesRest
    \/ /\ service = "quotes"
       /\ Quotes!Init /\ StreamRests /\ VerifierRests

OneServiceNext ==
    /\ UNCHANGED service
    /\ \/ service = "stream" /\ StreamStep
       \/ service = "verifier" /\ VerifierStep
       \/ service = "quotes" /\ QuotesStep

\* The fairness of each service, while it is the one that runs.
StreamFairness ==
    LET Runs == service = "stream"
    IN  /\ WF_streamVars(Runs /\ (Stream!FetchFails \/ Stream!Connected))
        /\ WF_streamVars(Runs /\ Stream!ProxyRequest)
        /\ WF_streamVars(Runs /\ (Stream!ProxyPipes \/ Stream!FetchFails))
        /\ WF_streamVars(Runs /\ Stream!ClientGoes)
        /\ WF_streamVars(Runs /\ Stream!Retry)
        /\ WF_streamVars(Runs /\ closed /\ Stream!ReadFails)

VerifierFairness ==
    LET Runs == service = "verifier"
    IN  /\ WF_verifierVars(Runs /\ Verifier!CheckRecord)
        /\ WF_verifierVars(Runs /\ Verifier!Send)
        /\ WF_verifierVars(Runs /\ (Verifier!Answer \/ Verifier!RequestFails))
        /\ WF_verifierVars(Runs /\ Verifier!Resend)
        /\ WF_verifierVars(Runs /\ Verifier!RequestGivesUp)

QuotesFairness ==
    \A l \in Loads :
        /\ WF_quoteVars(service = "quotes" /\ Quotes!Settle(l))
        /\ WF_quoteVars(service = "quotes" /\ Quotes!Retry(l))

OneServiceSpec ==
    /\ OneServiceInit
    /\ [][OneServiceNext]_vars
    /\ StreamFairness
    /\ VerifierFairness
    /\ QuotesFairness

\* TxlineStream: a page that is not streaming is connected again or told that it
\* will not be, and the proxy lets go of the upstream once its client has gone.
\* LifecycleVerifier, ReferenceQuotes: every run of the verifier concludes and
\* every call of the quote routes is answered, whatever fails on the way.
WorkConcludes ==
    /\ service = "stream" /\ Stream!NotStreaming ~> Stream!ConnectedOrGivenUp
    /\ Stream!UpstreamIsReleased
    /\ service = "verifier" ~> Verifier!Done
    /\ Quotes!EveryCallIsAnswered

=============================================================================
