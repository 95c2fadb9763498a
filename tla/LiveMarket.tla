----------------------------- MODULE LiveMarket -----------------------------
(***************************************************************************)
(* How a live market gets its opening price: the operator prepares it      *)
(* (scripts/fairx-prepare-live-market.ts, or polymarket-capture.ts), which *)
(* leaves a capture in a file, and opens it from that file                 *)
(* (scripts/fairx-initialize-live-market.ts, lib/solana/liveMarketInit.ts).*)
(*                                                                         *)
(* Between any two requests of a run the clock, the order book and the     *)
(* other runs go on; the file is also copied, merged and edited by hand.   *)
(***************************************************************************)
EXTENDS QuotePolicy

CONSTANTS
    Runs,                  \* of the scripts
    RawBooks,              \* what the host answers: [asset, condition, bids, asks, lastTrade]
    Descriptors,           \* the mapped market in the event: identity, closed, active
    Mapping,               \* the approved mapping
    Policy,                \* the configuration
    MAX_CAPTURE_AGE,       \* 60 s
    CloseTime,             \* of the market
    MaxTime,               \* bound of the clock
    MaxBooks,              \* bound of the books the host has
    MaxEdits,              \* bound of the edits of the file
    Null

VARIABLES
    now,
    host,                  \* the book at the exchange
    prepare, opener,       \* per run: a script under way, or Null
    file,                  \* per script that writes one: the capture, or Null
    market,                \* on devnet, or Null
    edits,                 \* of the file so far
    published              \* history: every book the host had

liveVars == <<now, host, prepare, opener, file, market, edits, published>>

Kinds == {"prepare", "capture"}

At(raw, time) ==
    [asset |-> raw.asset, condition |-> raw.condition, bids |-> raw.bids,
     asks |-> raw.asks, lastTrade |-> raw.lastTrade, timestamp |-> time]

LiveInit ==
    /\ now = 1
    /\ \E raw \in RawBooks : host = At(raw, 1)
    /\ prepare = [r \in Runs |-> Null]
    /\ opener = [r \in Runs |-> Null]
    /\ file = [k \in Kinds |-> Null]
    /\ market = Null
    /\ edits = 0
    /\ published = {ParseClobBook(host)}

BookMoves ==
    \E raw \in RawBooks :
        /\ Cardinality(published) < MaxBooks
        /\ host' = At(raw, now) /\ host' # host
        /\ published' = published \cup {ParseClobBook(host')}
        /\ UNCHANGED <<now, prepare, opener, file, market, edits>>

Tick ==
    /\ now < MaxTime
    /\ now' = now + 1
    /\ UNCHANGED <<host, prepare, opener, file, market, edits, published>>

-----------------------------------------------------------------------------
(* Preparing.  kind is the script; each writes a file of its own.          *)

\* findMappedMarket: the event has the mapped market, with the mapped ids.
FindMappedMarket(descriptor) == Identity(descriptor) = Identity(Mapping)

\* The mapping, the fixture's kickoff, and the event from the first host.
Discover(r, kind) ==
    \E descriptor \in Descriptors :
        /\ prepare[r] = Null
        /\ kind = "prepare" => now < CloseTime
        /\ FindMappedMarket(descriptor)
        /\ prepare' = [prepare EXCEPT ![r] =
                          [kind |-> kind, descriptor |-> descriptor,
                           book |-> Null, quote |-> Null]]
        /\ UNCHANGED <<now, host, opener, file, market, edits, published>>

\* The book from the second host, and the quote, judged when the book is there.
ReadBook(r) ==
    \E book \in {ParseClobBook(host)} :
        /\ prepare[r] # Null /\ prepare[r].book = Null
        /\ book.asset = Mapping.yes /\ book.condition = Mapping.condition
        /\ prepare' = [prepare EXCEPT
              ![r].book = book,
              ![r].quote = BuildReferenceQuote(book, now,
                               prepare[r].descriptor.closed, Policy)]
        /\ UNCHANGED <<now, host, opener, file, market, edits, published>>

\* What the preparation demands of the quote and the market; the capture script
\* demands nothing.
Gates(p) ==
    p.kind = "prepare" =>
        /\ ~ p.descriptor.closed /\ p.descriptor.active
        /\ p.quote.quoteValid
        /\ p.quote.bestBid < p.quote.bestAsk

\* The NO book has come in between: the capture is stamped with the time of its
\* making and has to verify at that time.  The file is replaced in one step, and
\* before the preparation looks at the program and whether the market exists.
WriteCapture(r) ==
    /\ prepare[r] # Null /\ prepare[r].book # Null
    /\ Gates(prepare[r])
    /\ \E capture \in {BuildReferenceCapture(Mapping, prepare[r].descriptor,
                           prepare[r].book, prepare[r].quote, Policy, now)} :
          /\ VerifyReferenceCapture(capture)
          /\ file' = [file EXCEPT ![prepare[r].kind] = capture]
    /\ prepare' = [prepare EXCEPT ![r] = Null]
    /\ UNCHANGED <<now, host, opener, market, edits, published>>

\* A request fails, an id or a gate does not hold, the verification fails.
PrepareStops(r) ==
    /\ prepare[r] # Null
    /\ prepare' = [prepare EXCEPT ![r] = Null]
    /\ UNCHANGED <<now, host, opener, file, market, edits, published>>

\* A file is changed by hand; the hashes are left as they were.
EditCapture(k) ==
    /\ file[k] # Null /\ edits < MaxEdits
    /\ edits' = edits + 1
    /\ \/ \E time \in 1 .. MaxTime : file' = [file EXCEPT ![k].capturedAt = time]
       \/ \E time \in 1 .. MaxTime : file' = [file EXCEPT ![k].orderbook.timestamp = time]
       \/ \E book \in published :
             \/ file' = [file EXCEPT ![k].orderbook = book]
             \/ file' = [file EXCEPT ![k].derived.midpoint =
                                     ComputeOrderBookMetrics(book).midpoint]
    /\ UNCHANGED <<now, host, prepare, opener, market, published>>

-----------------------------------------------------------------------------
(* Opening.                                                                *)

\* Slip: the capture's age is not looked at.
LoadCaptureOfAnyAge(r, k) ==
    /\ opener[r] = Null /\ file[k] # Null
    /\ VerifyReferenceCapture(file[k])
    /\ opener' = [opener EXCEPT ![r] = [capture |-> file[k], loadedAt |-> now]]
    /\ UNCHANGED <<now, host, prepare, file, market, edits, published>>

\* loadCapture, of the file of either script, and its age.
LoadCapture(r, k) ==
    /\ opener[r] = Null /\ file[k] # Null
    /\ VerifyReferenceCapture(file[k])
    /\ now - file[k].capturedAt <= MAX_CAPTURE_AGE
    /\ opener' = [opener EXCEPT ![r] = [capture |-> file[k], loadedAt |-> now]]
    /\ UNCHANGED <<now, host, prepare, file, market, edits, published>>

\* buildOddsCommitmentFromCapture: a rejected quote is never committed.
Commits(capture) ==
    capture.derived.quoteValid /\ InUnitRange(capture.derived.midpoint)

\* deriveInitParamsFromCapture: the midpoint twice, and the book's timestamp as
\* the odds sequence and as both sequences of the market; and, of the history, what
\* was loaded and when.
Params(opened) ==
    LET derived == opened.capture.derived
        timestamp == opened.capture.orderbook.timestamp
    IN  [ displayed |-> derived.midpoint, fair |-> derived.midpoint,
          odds_sequence |-> timestamp, material_seq |-> timestamp,
          priced_at_seq |-> timestamp,
          capture |-> opened.capture, loadedAt |-> opened.loadedAt ]

\* The accounts were absent and the admin the right one when they were read; the
\* program looks again when the transaction lands.
OpenMarket(r) ==
    LET o == opener[r]
    IN  /\ o # Null /\ Commits(o.capture)
        /\ market = Null /\ now < CloseTime
        /\ market' = Params(o)
        /\ opener' = [opener EXCEPT ![r] = Null]
        /\ UNCHANGED <<now, host, prepare, file, edits, published>>

\* A dry run, an account that exists, a quote that was rejected, a transaction
\* that fails or expires.
OpenerStops(r) ==
    /\ opener[r] # Null
    /\ opener' = [opener EXCEPT ![r] = Null]
    /\ UNCHANGED <<now, host, prepare, file, market, edits, published>>

LiveNext ==
    \/ BookMoves \/ Tick
    \/ \E k \in Kinds : EditCapture(k)
    \/ \E r \in Runs :
          \/ \E k \in Kinds : Discover(r, k) \/ LoadCapture(r, k)
          \/ ReadBook(r) \/ WriteCapture(r) \/ PrepareStops(r)
          \/ OpenMarket(r) \/ OpenerStops(r)

-----------------------------------------------------------------------------
(* Properties.                                                             *)

\* Every variable keeps its type.
LiveTypeOK ==
    /\ now \in 1 .. MaxTime
    /\ \A r \in Runs :
          prepare[r] # Null => prepare[r].kind \in Kinds
    /\ market # Null => market.fair \in Prices /\ market.odds_sequence \in 0 .. MaxTime

\* What a sound book is, without the adapter's operators: both sides, their best
\* prices close, in order and inside the unit, and deep enough.
SoundAt(book, price) ==
    \E b \in ToSet(book.bids), a \in ToSet(book.asks) :
        /\ \A l \in ToSet(book.bids) : l.price <= b.price
        /\ \A l \in ToSet(book.asks) : l.price >= a.price
        /\ 0 < b.price /\ b.price < a.price /\ a.price < MICROS_ONE
        /\ a.price - b.price <= Policy.maxSpread
        /\ Depth(book.bids) >= Policy.minDepth /\ Depth(book.asks) >= Policy.minDepth
        /\ 2 * price \in {a.price + b.price, a.price + b.price + 1}

\* A market opens at the midpoint of a sound book that the exchange really
\* published, as it was published, and no older than a quote and a capture may be
\* when the capture was loaded: whatever moved, failed, overlapped or was edited
\* between the quote, the capture and the opening.
MarketOpensAtASoundQuote ==
    market # Null =>
        LET book == market.capture.orderbook
        IN  /\ book \in published
            /\ SoundAt(book, market.fair)
            /\ market.displayed = market.fair
            /\ market.loadedAt - book.timestamp <= Policy.maxAge + MAX_CAPTURE_AGE
=============================================================================
