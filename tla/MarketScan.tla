----------------------------- MODULE MarketScan ------------------------------
(***************************************************************************)
(* The loop at the top of ArbitrageEngine::checkArbitrage: the engine's    *)
(* thread walks the exchanges and looks for the best bid and the best ask  *)
(* of one symbol.  Every getter of an OrderBook takes the book's mutex on  *)
(* its own, so a venue is looked at through up to eight separate locks and *)
(* its feed may move the quote between any two of them.                    *)
(*                                                                         *)
(* The feeds are the ones of QuoteSource: at each moment the four getters  *)
(* of one book describe an uncrossed quote.                                *)
(*                                                                         *)
(* getOrderBook cannot return null here: main subscribes every client to   *)
(* every symbol before the engine starts.                                  *)
(***************************************************************************)
EXTENDS Quotes, Sequences

CONSTANTS
  Venues,      \* the exchange clients
  Exchanges,   \* exchanges_: the order in which they are visited
  Symbols,     \* symbols_: the order in which they are checked
  NoVenue      \* the null bidExchange and askExchange

SymbolSet == {Symbols[k] : k \in DOMAIN Symbols}

ASSUME ScanAssumption ==
  /\ Exchanges \in Seq(Venues) /\ Exchanges # <<>>
  /\ Symbols \in Seq(SymbolSet) /\ Symbols # <<>>
  /\ NoVenue \notin Venues

VARIABLES
  quotes,   \* quotes[s][v]: what the getters of v's book of symbol s return
  turn,     \* index of the symbol being checked
  pc,       \* what the engine's thread does next
  i,        \* index of the exchange being looked at
  held,     \* the first operand of the comparison at the head of the loop
  found,    \* bestBid, bestBidQty, bidExchange, bestAsk, bestAskQty, askExchange
  moved     \* history: the venues whose quote moved since the check began

feedVars == <<quotes, moved>>
scanVars == <<quotes, turn, pc, i, held, found, moved>>

symbol == Symbols[turn]

\* numeric_limits<double>::max(): above every price.
NoAsk == MaxPrice + 1

NothingFound == [bid |-> 0, bidQty |-> 0, bidVenue |-> NoVenue,
                 ask |-> NoAsk, askQty |-> 0, askVenue |-> NoVenue]

ScanSteps == {"guard", "guardAsk", "guardBid", "compareBid", "takeBid", "takeBidQty",
              "compareAsk", "takeAsk", "takeAskQty"}

Findings == [bid : 0 .. MaxPrice, bidQty : Quantities \cup {0},
             bidVenue : Venues \cup {NoVenue},
             ask : 0 .. NoAsk, askQty : Quantities \cup {0},
             askVenue : Venues \cup {NoVenue}]

\* The variables of the scan have their types: i and turn index a vector.
ScanTypeOK ==
  /\ quotes \in [SymbolSet -> [Venues -> Quotes]]
  /\ turn \in DOMAIN Symbols
  /\ i \in DOMAIN Exchanges
  /\ held \in 0 .. MaxPrice
  /\ found \in Findings
  /\ moved \subseteq Venues

\* The type invariant of the scan on its own.
TypeOK == ScanTypeOK /\ pc \in ScanSteps \cup {"idle", "scanned"}

ScanInit ==
  /\ quotes = [s \in SymbolSet |-> [v \in Venues |-> NoQuote]]
  /\ turn = 1
  /\ pc = "idle"
  /\ i = 1
  /\ held = 0
  /\ found = NothingFound
  /\ moved = {}

------------------------------------------------------------------------------
\* A feed's thread changes one book.
FeedMoves(s, v) ==
  /\ \E q \in Quotes : quotes' = [quotes EXCEPT ![s][v] = q]
  /\ moved' = IF s = symbol THEN moved \cup {v} ELSE moved
  /\ UNCHANGED <<turn, pc, i, held, found>>

\* The locals of checkArbitrage.
BeginCheck ==
  /\ pc = "idle"
  /\ pc' = "guard"
  /\ i' = 1
  /\ found' = NothingFound
  /\ moved' = {}
  /\ UNCHANGED <<quotes, turn, held>>

venue == Exchanges[i]
quote == quotes[symbol][venue]

\* Slips the properties must notice: a loop that leaves its index past the
\* end, a crossed or empty book that is not skipped, the venue kept from the
\* first bid that was taken, `else if` between the bid and the ask.
NextVenueTooFar ==
  /\ i' = i + 1
  /\ pc' = IF i < Len(Exchanges) THEN "guard" ELSE "scanned"

GuardNothing(bid, ask) ==
  /\ pc' = "compareBid"
  /\ held' = 0
  /\ UNCHANGED <<feedVars, turn, i, found>>

KeepFirstBidVenue ==
  /\ pc = "takeBidQty"
  /\ pc' = "compareAsk"
  /\ found' = [found EXCEPT !.bidQty = quote.bidQty,
                            !.bidVenue = IF @ = NoVenue THEN venue ELSE @]
  /\ UNCHANGED <<feedVars, turn, i, held>>

\* `continue`, or the end of the loop's body.
NextVenue ==
  IF i < Len(Exchanges) THEN i' = i + 1 /\ pc' = "guard"
                        ELSE i' = 1 /\ pc' = "scanned"

\* getTopBidPrice() >= getTopAskPrice(): C++ leaves the order of the two
\* calls to the compiler.
ReadGuardOperand ==
  /\ pc = "guard"
  /\ \/ held' = quote.bid /\ pc' = "guardAsk"
     \/ held' = quote.ask /\ pc' = "guardBid"
  /\ UNCHANGED <<feedVars, turn, i, found>>

Guard(bid, ask) ==
  /\ IF bid >= ask THEN NextVenue ELSE pc' = "compareBid" /\ UNCHANGED i
  /\ held' = 0
  /\ UNCHANGED <<feedVars, turn, found>>

GuardAsk == pc = "guardAsk" /\ Guard(held, quote.ask)
GuardBid == pc = "guardBid" /\ Guard(quote.bid, held)

CompareBid ==
  /\ pc = "compareBid"
  /\ pc' = IF quote.bid > found.bid THEN "takeBid" ELSE "compareAsk"
  /\ UNCHANGED <<feedVars, turn, i, held, found>>

TakeBid ==
  /\ pc = "takeBid"
  /\ pc' = "takeBidQty"
  /\ found' = [found EXCEPT !.bid = quote.bid]
  /\ UNCHANGED <<feedVars, turn, i, held>>

BidElseAsk ==
  /\ pc = "takeBidQty"
  /\ NextVenue
  /\ found' = [found EXCEPT !.bidQty = quote.bidQty, !.bidVenue = venue]
  /\ UNCHANGED <<feedVars, turn, held>>

TakeBidQty ==
  /\ pc = "takeBidQty"
  /\ pc' = "compareAsk"
  /\ found' = [found EXCEPT !.bidQty = quote.bidQty, !.bidVenue = venue]
  /\ UNCHANGED <<feedVars, turn, i, held>>

CompareAsk ==
  /\ pc = "compareAsk"
  /\ IF quote.ask < found.ask THEN pc' = "takeAsk" /\ UNCHANGED i ELSE NextVenue
  /\ UNCHANGED <<feedVars, turn, held, found>>

TakeAsk ==
  /\ pc = "takeAsk"
  /\ pc' = "takeAskQty"
  /\ found' = [found EXCEPT !.ask = quote.ask]
  /\ UNCHANGED <<feedVars, turn, i, held>>

TakeAskQty ==
  /\ pc = "takeAskQty"
  /\ NextVenue
  /\ found' = [found EXCEPT !.askQty = quote.askQty, !.askVenue = venue]
  /\ UNCHANGED <<feedVars, turn, held>>

Scan ==
  \/ BeginCheck
  \/ ReadGuardOperand \/ GuardAsk \/ GuardBid
  \/ CompareBid \/ TakeBid \/ TakeBidQty
  \/ CompareAsk \/ TakeAsk \/ TakeAskQty

\* The loop of start() over the symbols, and the locals that end with the call.
NextSymbol ==
  /\ pc' = "idle"
  /\ turn' = IF turn < Len(Symbols) THEN turn + 1 ELSE 1
  /\ found' = NothingFound

\* checkArbitrage without its second half: the scan on its own.
Discard ==
  /\ pc = "scanned"
  /\ NextSymbol
  /\ UNCHANGED <<feedVars, i, held>>

Next ==
  \/ \E s \in SymbolSet, v \in Venues : FeedMoves(s, v)
  \/ Scan
  \/ Discard

Spec == ScanInit /\ [][Next]_scanVars

------------------------------------------------------------------------------
Scanned == pc = "scanned"

\* A venue whose quote did not move during the check is reported as it is:
\* price and quantity belong together, and its quote is usable.  So whatever
\* is mixed up by the separate locks is mixed up on a venue that moved.
UnmovedVenueIsReportedAsIs ==
  Scanned =>
    /\ \A v \in Venues \ moved : found.bidVenue = v =>
         LET q == quotes[symbol][v]
         IN  found.bid = q.bid /\ found.bidQty = q.bidQty /\ q.bid < q.ask
    /\ \A v \in Venues \ moved : found.askVenue = v =>
         LET q == quotes[symbol][v]
         IN  found.ask = q.ask /\ found.askQty = q.askQty /\ q.bid < q.ask

\* The engine must not buy and sell on one venue.  It does not, unless that
\* venue's quote moved while the scan was looking at it.
SameVenueOnlyIfMoved ==
  Scanned /\ found.ask < found.bid /\ found.askVenue = found.bidVenue =>
    found.bidVenue \in moved

\* What the scan is meant to find: the best bid and the best ask of the venues
\* with an uncrossed book, at the first venue that shows it, with the quantity
\* that is there.
QuoteAt(k) == quotes[symbol][Exchanges[k]]
Usable == {k \in DOMAIN Exchanges : QuoteAt(k).bid < QuoteAt(k).ask}

QuietScanFindsTheBest ==
  Scanned /\ moved = {} =>
    /\ \A k \in Usable : QuoteAt(k).bid <= found.bid /\ QuoteAt(k).ask >= found.ask
    /\ found.bid > 0 => \E k \in Usable :
         /\ found.bid = QuoteAt(k).bid /\ found.bidQty = QuoteAt(k).bidQty
         /\ found.bidVenue = Exchanges[k]
         /\ \A j \in Usable : j < k => QuoteAt(j).bid < found.bid
    /\ found.ask < NoAsk => \E k \in Usable :
         /\ found.ask = QuoteAt(k).ask /\ found.askQty = QuoteAt(k).askQty
         /\ found.askVenue = Exchanges[k]
         /\ \A j \in Usable : j < k => QuoteAt(j).ask > found.ask

==============================================================================
