----------------------- MODULE ArbitrageEngine_proofs ------------------------
(***************************************************************************)
(* First the scan, whose specification is Spec: what it may be relied on   *)
(* for, however the quotes move between the engine's locks.  Then the      *)
(* engine's book-keeping, EngineSpec, in paper mode and in live mode,      *)
(* whatever the feeds and the exchanges do.  All of it for any venues,     *)
(* symbols, prices, limits and lot sizes.                                  *)
(***************************************************************************)
EXTENDS ArbitrageEngine, Amounts_proofs

\* Past the guard of the loop's body.
LookingAtVenue == pc \in {"compareBid", "takeBid", "takeBidQty",
                          "compareAsk", "takeAsk", "takeAskQty"}

\* What was read from the venue under inspection still holds if it stood still.
VenueInv ==
  venue \notin moved =>
    /\ pc = "guardAsk" => held = quote.bid
    /\ pc = "guardBid" => held = quote.ask
    /\ LookingAtVenue => quote.bid < quote.ask
    /\ pc = "takeBidQty" => found.bid = quote.bid
    /\ pc = "takeAskQty" => found.ask = quote.ask

\* The best bid so far: taken from a venue that still shows it, if that venue
\* stood still.  In between its price and its quantity it belongs to none.
BidInv ==
  pc # "takeBidQty" =>
    /\ found.bidVenue \in Venues \ moved =>
         LET q == quotes[symbol][found.bidVenue]
         IN  found.bid = q.bid /\ found.bidQty = q.bidQty /\ q.bid < q.ask
    /\ found.bidVenue = NoVenue => found.bid = 0

AskInv ==
  pc # "takeAskQty" =>
    /\ found.askVenue \in Venues \ moved =>
         LET q == quotes[symbol][found.askVenue]
         IN  found.ask = q.ask /\ found.askQty = q.askQty /\ q.bid < q.ask
    /\ found.askVenue = NoVenue => found.ask = NoAsk

ScanInv == VenueInv /\ BidInv /\ AskInv

------------------------------------------------------------------------------
LEMMA VenueTypes ==
  ASSUME ScanTypeOK
  PROVE  /\ symbol \in SymbolSet
         /\ venue \in Venues
         /\ quote \in Quotes /\ quote \in AnyQuote
BY ScanAssumption DEF ScanTypeOK, symbol, SymbolSet, venue, quote, Quotes

LEMMA NoAskType == NoAsk \in Nat /\ MaxPrice \in Nat /\ 0 .. MaxPrice \subseteq 0 .. NoAsk
BY QuoteAssumption DEF NoAsk

LEMMA NothingFoundType == NothingFound \in Findings
BY NoAskType DEF NothingFound, Findings

LEMMA NextVenueType ==
  ASSUME i \in DOMAIN Exchanges, NextVenue
  PROVE  i' \in DOMAIN Exchanges /\ pc' \in {"guard", "scanned"}
<1>1. Exchanges \in Seq(Venues) /\ Len(Exchanges) > 0
  BY ScanAssumption
<1> QED
  BY <1>1 DEF NextVenue

\* Init, the feeds, the scan and the end of a check keep the types.
LEMMA ScanInitType == ScanInit => ScanTypeOK
<1> SUFFICES ASSUME ScanInit PROVE ScanTypeOK
  OBVIOUS
<1>1. NoQuote \in Quotes
  BY QuoteAssumption DEF NoQuote, Quotes, AnyQuote
<1>2. 1 \in DOMAIN Symbols /\ 1 \in DOMAIN Exchanges
  BY ScanAssumption
<1> QED
  BY <1>1, <1>2, NothingFoundType, NoAskType DEF ScanInit, ScanTypeOK

LEMMA FeedType ==
  ASSUME ScanTypeOK, NEW s \in SymbolSet, NEW v \in Venues, FeedMoves(s, v)
  PROVE  ScanTypeOK'
BY DEF ScanTypeOK, FeedMoves

LEMMA ScanType == ScanTypeOK /\ Scan => ScanTypeOK' /\ pc' \in ScanSteps \cup {"scanned"}
<1> SUFFICES ASSUME ScanTypeOK, Scan PROVE ScanTypeOK' /\ pc' \in ScanSteps \cup {"scanned"}
  OBVIOUS
<1> USE VenueTypes, NoAskType DEF ScanSteps, feedVars
<1>1. CASE BeginCheck
  <2>1. 1 \in DOMAIN Exchanges
    BY ScanAssumption
  <2> QED
    BY <1>1, <2>1, NothingFoundType DEF BeginCheck, ScanTypeOK
<1>2. CASE ReadGuardOperand
  BY <1>2 DEF ReadGuardOperand, ScanTypeOK, AnyQuote
<1>3. ASSUME NEW bid, NEW ask, Guard(bid, ask)
      PROVE  ScanTypeOK' /\ pc' \in ScanSteps \cup {"scanned"}
  BY <1>3, NextVenueType DEF Guard, ScanTypeOK
<1>4. CASE CompareBid
  BY <1>4 DEF CompareBid, ScanTypeOK
<1>5. CASE TakeBid
  BY <1>5 DEF TakeBid, ScanTypeOK, Findings, AnyQuote
<1>6. CASE TakeBidQty
  BY <1>6 DEF TakeBidQty, ScanTypeOK, Findings, AnyQuote
<1>7. CASE CompareAsk
  BY <1>7, NextVenueType DEF CompareAsk, ScanTypeOK
<1>8. CASE TakeAsk
  BY <1>8 DEF TakeAsk, ScanTypeOK, Findings, AnyQuote
<1>9. CASE TakeAskQty
  BY <1>9, NextVenueType DEF TakeAskQty, ScanTypeOK, Findings, AnyQuote
<1> QED
  BY <1>1, <1>2, <1>3, <1>4, <1>5, <1>6, <1>7, <1>8, <1>9
  DEF Scan, GuardAsk, GuardBid

LEMMA NextSymbolType ==
  ASSUME ScanTypeOK, NextSymbol, UNCHANGED <<feedVars, i, held>>
  PROVE  ScanTypeOK'
<1>1. turn' \in DOMAIN Symbols
  <2>1. CASE turn < Len(Symbols)
    BY <2>1, ScanAssumption DEF NextSymbol, ScanTypeOK
  <2>2. CASE ~ (turn < Len(Symbols))
    BY <2>2, ScanAssumption DEF NextSymbol, ScanTypeOK
  <2> QED
    BY <2>1, <2>2
<1> QED
  BY <1>1, NothingFoundType DEF NextSymbol, ScanTypeOK, feedVars

------------------------------------------------------------------------------
\* Nothing has been found yet, and nothing is under inspection: the invariants
\* hold at the start of a check and after its end.
LEMMA NothingFoundInv ==
  ASSUME found = NothingFound, pc \in {"idle", "guard"}
  PROVE  ScanInv
BY ScanAssumption
DEF ScanInv, VenueInv, BidInv, AskInv, LookingAtVenue, NothingFound

\* A quote that moves is the quote of a venue that has moved.
LEMMA FeedKeepsScanInv ==
  ASSUME ScanTypeOK, ScanInv, NEW s \in SymbolSet, NEW v \in Venues, FeedMoves(s, v)
  PROVE  ScanInv'
<1>1. \A w \in Venues \ moved' : quotes'[symbol][w] = quotes[symbol][w]
  <2>1. PICK q \in Quotes : quotes' = [quotes EXCEPT ![s][v] = q]
    BY DEF FeedMoves
  <2>2. quotes \in [SymbolSet -> [Venues -> Quotes]] /\ symbol \in SymbolSet
    BY VenueTypes DEF ScanTypeOK
  <2>3. s = symbol => moved' = moved \cup {v}
    BY DEF FeedMoves
  <2> QED
    BY <2>1, <2>2, <2>3
<1>2. moved \subseteq moved'
  BY DEF FeedMoves
<1>3. symbol' = symbol /\ venue' = venue /\ UNCHANGED <<pc, held, found>>
  BY DEF FeedMoves, symbol, venue
<1>4. venue \in Venues
  BY VenueTypes
<1>5. VenueInv'
  BY <1>1, <1>2, <1>3, <1>4 DEF ScanInv, VenueInv, LookingAtVenue, quote
<1>6. BidInv'
  BY <1>1, <1>2, <1>3 DEF ScanInv, BidInv
<1>7. AskInv'
  BY <1>1, <1>2, <1>3 DEF ScanInv, AskInv
<1> QED
  BY <1>5, <1>6, <1>7 DEF ScanInv

\* Leaving a venue: nothing is under inspection any more.
LEMMA NextVenueInv ==
  ASSUME NextVenue PROVE VenueInv'
BY DEF NextVenue, VenueInv, LookingAtVenue

LEMMA ScanKeepsScanInv ==
  ASSUME ScanTypeOK, ScanInv, Scan
  PROVE  ScanInv'
<1> USE VenueTypes, NoAskType
<1>1. CASE BeginCheck
  BY <1>1, NothingFoundInv, ScanAssumption
  DEF BeginCheck, ScanInv, VenueInv, BidInv, AskInv, LookingAtVenue, NothingFound
<1> DEFINE Still == UNCHANGED <<quotes, moved, turn>>
<1>2. Still => symbol' = symbol
  BY DEF symbol
<1>3. ASSUME Still, UNCHANGED <<found>>, pc # "takeBidQty", pc # "takeAskQty"
      PROVE  BidInv' /\ AskInv'
  BY <1>2, <1>3 DEF ScanInv, BidInv, AskInv
<1>4. ASSUME Still, UNCHANGED i PROVE venue' = venue /\ quote' = quote
  BY <1>2, <1>4 DEF venue, quote
<1>5. CASE ReadGuardOperand
  <2>1. VenueInv'
    BY <1>4, <1>5 DEF ReadGuardOperand, VenueInv, LookingAtVenue, feedVars
  <2> QED
    BY <1>3, <1>5, <2>1 DEF ReadGuardOperand, ScanInv, feedVars
<1>6. CASE GuardAsk
  <2>1. CASE held >= quote.ask
    BY <1>3, <1>6, <2>1, NextVenueInv DEF GuardAsk, Guard, ScanInv, feedVars
  <2>2. CASE ~ (held >= quote.ask)
    <3>1. VenueInv'
      BY <1>4, <1>6, <2>2
      DEF GuardAsk, Guard, ScanInv, VenueInv, LookingAtVenue, feedVars, AnyQuote
    <3> QED
      BY <1>3, <1>6, <2>2, <3>1 DEF GuardAsk, Guard, ScanInv, feedVars
  <2> QED
    BY <2>1, <2>2
<1>7. CASE GuardBid
  <2>1. CASE quote.bid >= held
    BY <1>3, <1>7, <2>1, NextVenueInv DEF GuardBid, Guard, ScanInv, feedVars
  <2>2. CASE ~ (quote.bid >= held)
    <3>1. VenueInv'
      BY <1>4, <1>7, <2>2
      DEF GuardBid, Guard, ScanInv, VenueInv, LookingAtVenue, feedVars, AnyQuote, ScanTypeOK
    <3> QED
      BY <1>3, <1>7, <2>2, <3>1 DEF GuardBid, Guard, ScanInv, feedVars
  <2> QED
    BY <2>1, <2>2
<1>8. CASE CompareBid
  <2>1. VenueInv'
    BY <1>4, <1>8 DEF CompareBid, ScanInv, VenueInv, LookingAtVenue, feedVars
  <2> QED
    BY <1>3, <1>8, <2>1 DEF CompareBid, ScanInv, feedVars
<1>9. CASE TakeBid
  <2>1. VenueInv'
    BY <1>4, <1>9 DEF TakeBid, ScanInv, VenueInv, LookingAtVenue, feedVars, ScanTypeOK, Findings
  <2>2. BidInv'
    BY <1>9 DEF TakeBid, BidInv
  <2>3. AskInv'
    BY <1>2, <1>9 DEF TakeBid, ScanInv, AskInv, feedVars, ScanTypeOK, Findings
  <2> QED
    BY <2>1, <2>2, <2>3 DEF ScanInv
<1>10. CASE TakeBidQty
  <2>1. VenueInv'
    BY <1>4, <1>10 DEF TakeBidQty, ScanInv, VenueInv, LookingAtVenue, feedVars
  <2>2. found'.bid = found.bid /\ found'.bidQty = quote.bidQty /\ found'.bidVenue = venue
    BY <1>10 DEF TakeBidQty, ScanTypeOK, Findings
  <2>3. BidInv'
    BY <1>2, <1>10, <2>2, ScanAssumption
    DEF TakeBidQty, ScanInv, VenueInv, LookingAtVenue, BidInv, feedVars, quote
  <2>4. AskInv'
    BY <1>2, <1>10 DEF TakeBidQty, ScanInv, AskInv, feedVars, ScanTypeOK, Findings
  <2> QED
    BY <2>1, <2>3, <2>4 DEF ScanInv
<1>11. CASE CompareAsk
  <2>1. CASE quote.ask < found.ask
    <3>1. VenueInv'
      BY <1>4, <1>11, <2>1 DEF CompareAsk, ScanInv, VenueInv, LookingAtVenue, feedVars
    <3> QED
      BY <1>3, <1>11, <2>1, <3>1 DEF CompareAsk, ScanInv, feedVars
  <2>2. CASE ~ (quote.ask < found.ask)
    BY <1>3, <1>11, <2>2, NextVenueInv DEF CompareAsk, ScanInv, feedVars
  <2> QED
    BY <2>1, <2>2
<1>12. CASE TakeAsk
  <2>1. VenueInv'
    BY <1>4, <1>12 DEF TakeAsk, ScanInv, VenueInv, LookingAtVenue, feedVars, ScanTypeOK, Findings
  <2>2. AskInv'
    BY <1>12 DEF TakeAsk, AskInv
  <2>3. BidInv'
    BY <1>2, <1>12 DEF TakeAsk, ScanInv, BidInv, feedVars, ScanTypeOK, Findings
  <2> QED
    BY <2>1, <2>2, <2>3 DEF ScanInv
<1>13. CASE TakeAskQty
  <2>1. VenueInv'
    BY <1>13, NextVenueInv DEF TakeAskQty
  <2>2. found'.ask = found.ask /\ found'.askQty = quote.askQty /\ found'.askVenue = venue
    BY <1>13 DEF TakeAskQty, ScanTypeOK, Findings
  <2>3. AskInv'
    BY <1>2, <1>13, <2>2, ScanAssumption
    DEF TakeAskQty, ScanInv, VenueInv, LookingAtVenue, AskInv, feedVars, quote
  <2>4. BidInv'
    BY <1>2, <1>13 DEF TakeAskQty, ScanInv, BidInv, feedVars, ScanTypeOK, Findings
  <2> QED
    BY <2>1, <2>3, <2>4 DEF ScanInv
<1> QED
  BY <1>1, <1>5, <1>6, <1>7, <1>8, <1>9, <1>10, <1>11, <1>12, <1>13 DEF Scan

------------------------------------------------------------------------------
Inv == TypeOK /\ ScanInv

LEMMA Invariance == Spec => []Inv
<1>1. ScanInit => Inv
  BY ScanInitType, NothingFoundInv DEF ScanInit, Inv, TypeOK
<1>2. Inv /\ [Next]_scanVars => Inv'
  <2> SUFFICES ASSUME Inv, [Next]_scanVars PROVE Inv'
    OBVIOUS
  <2>1. ASSUME NEW s \in SymbolSet, NEW v \in Venues, FeedMoves(s, v) PROVE Inv'
    BY <2>1, FeedType, FeedKeepsScanInv DEF Inv, TypeOK, FeedMoves
  <2>2. CASE Scan
    BY <2>2, ScanType, ScanKeepsScanInv DEF Inv, TypeOK
  <2>3. CASE Discard
    <3>1. found' = NothingFound /\ pc' = "idle"
      BY <2>3 DEF Discard, NextSymbol
    <3>2. ScanInv'
      BY <3>1, ScanAssumption
      DEF ScanInv, VenueInv, BidInv, AskInv, LookingAtVenue, NothingFound
    <3> QED
      BY <2>3, <3>1, <3>2, NextSymbolType DEF Discard, Inv, TypeOK
  <2>4. CASE UNCHANGED scanVars
    BY <2>4 DEF scanVars, Inv, TypeOK, ScanTypeOK, ScanInv, VenueInv, BidInv, AskInv,
                LookingAtVenue, venue, quote, symbol
  <2> QED
    BY <2>1, <2>2, <2>3, <2>4 DEF Next
<1> QED
  BY <1>1, <1>2, PTL DEF Spec

\* What is assumed of a feed here is what BookFeed_proofs shows that it implements:
\* each quote changes like that of a QuoteSource ...
Feed(s, v) == INSTANCE QuoteSource WITH quote <- quotes[s][v]

LEMMA QuotesAreOfFeeds ==
  ASSUME NEW CONSTANT s \in SymbolSet, NEW CONSTANT v \in Venues
  PROVE  Spec => Feed(s, v)!Spec
<1>1. ScanInit => Feed(s, v)!Init
  BY DEF ScanInit, Feed!Init, Feed!NoQuote, NoQuote
<1>2. Inv' => Feed(s, v)!Move
  BY DEF Inv, TypeOK, ScanTypeOK, Feed!Move, Feed!Quotes, Feed!AnyQuote, Quotes, AnyQuote
<1> QED
  BY <1>1, <1>2, Invariance, PTL DEF Spec, Feed!Spec

\* ... and whatever one QuoteSource does between two steps of the scan, the model
\* lets that feed do.
LEMMA FeedsMayMove ==
  ASSUME NEW s \in SymbolSet, NEW v \in Venues, Feed(s, v)!Move,
         quotes' = [quotes EXCEPT ![s][v] = quotes'[s][v]],
         moved' = IF s = symbol THEN moved \cup {v} ELSE moved,
         UNCHANGED <<turn, pc, i, held, found>>
  PROVE  FeedMoves(s, v)
BY DEF FeedMoves, Feed!Move, Feed!Quotes, Feed!AnyQuote, Quotes, AnyQuote

\* A scan hands over either what a venue shows, or the venue has moved since
\* the check began.
LEMMA ScanInvMeansAsIs == ScanInv => UnmovedVenueIsReportedAsIs
BY DEF ScanInv, BidInv, AskInv, UnmovedVenueIsReportedAsIs, Scanned

\* One venue cannot be both the cheapest to buy at and the dearest to sell at
\* unless the separate locks saw it at different moments.
LEMMA ScanInvMeansTwoVenues == TypeOK /\ ScanInv => SameVenueOnlyIfMoved
<1> SUFFICES ASSUME TypeOK, ScanInv, Scanned, found.ask < found.bid,
                    found.askVenue = found.bidVenue, found.bidVenue \notin moved
             PROVE  FALSE
  BY DEF SameVenueOnlyIfMoved
<1> DEFINE v == found.bidVenue
<1>1. found \in Findings
  BY DEF TypeOK, ScanTypeOK
<1>2. v # NoVenue
  BY <1>1, NoAskType DEF ScanInv, BidInv, Scanned, Findings
<1>3. v \in Venues \ moved
  BY <1>1, <1>2 DEF Findings
<1>4. found.bid < found.ask
  BY <1>3 DEF ScanInv, BidInv, AskInv, Scanned
<1> QED
  BY <1>1, <1>4, NoAskType DEF Findings

\* The engine's view of a venue that did not move is exact.
THEOREM ScanReportsAsIs == Spec => []UnmovedVenueIsReportedAsIs
BY Invariance, ScanInvMeansAsIs, PTL DEF Inv

\* The engine buys and sells at one venue only if that venue's quote moved
\* while the scan was looking.
THEOREM ScanSeparatesVenues == Spec => []SameVenueOnlyIfMoved
BY Invariance, ScanInvMeansTwoVenues, PTL DEF Inv

------------------------------------------------------------------------------
(* A scan during which nothing moves.  The operators below are about a view *)
(* q of the venues and what has been found, f.                              *)

Fine(q) == {k \in DOMAIN Exchanges : q[Exchanges[k]].bid < q[Exchanges[k]].ask}

\* The best bid of the first n venues is the one found, at the first of them
\* that shows it; and so is the best ask.
BidsSeen(n, f, q) ==
  /\ \A k \in Fine(q) : k <= n => q[Exchanges[k]].bid <= f.bid
  /\ f.bid > 0 => \E k \in Fine(q) :
       /\ k <= n /\ f.bid = q[Exchanges[k]].bid /\ f.bidVenue = Exchanges[k]
       /\ \A j \in Fine(q) : j < k => q[Exchanges[j]].bid < f.bid

AsksSeen(n, f, q) ==
  /\ \A k \in Fine(q) : k <= n => q[Exchanges[k]].ask >= f.ask
  /\ f.ask < NoAsk => \E k \in Fine(q) :
       /\ k <= n /\ f.ask = q[Exchanges[k]].ask /\ f.askVenue = Exchanges[k]
       /\ \A j \in Fine(q) : j < k => q[Exchanges[j]].ask > f.ask

\* Every usable venue before the n-th bids less, and asks more.
BidsBelow(n, bid, q) == \A j \in Fine(q) : j < n => q[Exchanges[j]].bid < bid
AsksAbove(n, ask, q) == \A j \in Fine(q) : j < n => q[Exchanges[j]].ask > ask

BeforeBid == {"guard", "guardAsk", "guardBid", "compareBid", "takeBid"}
BeforeAsk == BeforeBid \cup {"takeBidQty", "compareAsk", "takeAsk"}
AfterBid == {"compareAsk", "takeAsk", "takeAskQty"}

QuietBids ==
  /\ pc \in BeforeBid => BidsSeen(i - 1, found, quotes[symbol])
  /\ pc = "takeBid" => found.bid < quote.bid
  /\ pc = "takeBidQty" => found.bid = quote.bid /\ BidsBelow(i, quote.bid, quotes[symbol])
  /\ pc \in AfterBid => BidsSeen(i, found, quotes[symbol])
  /\ pc = "scanned" => BidsSeen(Len(Exchanges), found, quotes[symbol])

QuietAsks ==
  /\ pc \in BeforeAsk => AsksSeen(i - 1, found, quotes[symbol])
  /\ pc = "takeAsk" => quote.ask < found.ask
  /\ pc = "takeAskQty" => found.ask = quote.ask /\ AsksAbove(i, quote.ask, quotes[symbol])
  /\ pc = "scanned" => AsksSeen(Len(Exchanges), found, quotes[symbol])

QuietInv == moved = {} => QuietBids /\ QuietAsks

\* The numbers a view and a finding consist of.
LEMMA ViewTypes ==
  ASSUME NEW q \in [Venues -> Quotes], NEW k \in DOMAIN Exchanges
  PROVE  /\ k \in Nat /\ k <= Len(Exchanges) /\ Exchanges[k] \in Venues
         /\ q[Exchanges[k]].bid \in Nat /\ q[Exchanges[k]].ask \in Nat
<1>1. Exchanges \in Seq(Venues)
  BY ScanAssumption
<1>2. k \in Nat /\ k <= Len(Exchanges) /\ Exchanges[k] \in Venues
  BY <1>1
<1>3. q[Exchanges[k]] \in AnyQuote
  BY <1>2 DEF Quotes
<1> QED
  BY <1>2, <1>3, QuoteAssumption DEF AnyQuote

LEMMA FindingTypes ==
  ASSUME NEW f \in Findings PROVE f.bid \in Nat /\ f.ask \in Nat
BY NoAskType, QuoteAssumption DEF Findings

LEMMA NothingSeen ==
  ASSUME NEW q \in [Venues -> Quotes]
  PROVE  BidsSeen(0, NothingFound, q) /\ AsksSeen(0, NothingFound, q)
<1>1. \A k \in Fine(q) : ~ (k <= 0)
  BY ScanAssumption DEF Fine
<1> QED
  BY <1>1, NoAskType DEF BidsSeen, AsksSeen, NothingFound

\* A venue that is not usable, or not better, leaves what was found the best.
LEMMA NotBetter ==
  ASSUME NEW q \in [Venues -> Quotes], NEW f \in Findings, NEW n \in DOMAIN Exchanges
  PROVE  /\ BidsSeen(n - 1, f, q) /\ (n \in Fine(q) => ~ (f.bid < q[Exchanges[n]].bid))
              => BidsSeen(n, f, q)
         /\ AsksSeen(n - 1, f, q) /\ (n \in Fine(q) => ~ (q[Exchanges[n]].ask < f.ask))
              => AsksSeen(n, f, q)
<1>1. \A k \in Fine(q) : /\ k \in Nat /\ (k <= n <=> k <= n - 1 \/ k = n)
                         /\ q[Exchanges[k]].bid \in Nat /\ q[Exchanges[k]].ask \in Nat
  BY ViewTypes DEF Fine
<1>2. n \in Nat /\ f.bid \in Nat /\ f.ask \in Nat
  BY ViewTypes, FindingTypes
<1>3. ASSUME BidsSeen(n - 1, f, q), n \in Fine(q) => ~ (f.bid < q[Exchanges[n]].bid)
      PROVE  BidsSeen(n, f, q)
  BY <1>1, <1>2, <1>3 DEF BidsSeen
<1>4. ASSUME AsksSeen(n - 1, f, q), n \in Fine(q) => ~ (q[Exchanges[n]].ask < f.ask)
      PROVE  AsksSeen(n, f, q)
  BY <1>1, <1>2, <1>4 DEF AsksSeen
<1> QED
  BY <1>3, <1>4

\* A better bid is better than all before; once it is taken it is the best.
LEMMA BetterBid ==
  ASSUME NEW q \in [Venues -> Quotes], NEW f \in Findings, NEW n \in DOMAIN Exchanges,
         NEW bid \in Nat
  PROVE  /\ BidsSeen(n - 1, f, q) /\ f.bid < bid => BidsBelow(n, bid, q)
         /\ (/\ BidsBelow(n, bid, q) /\ n \in Fine(q) /\ bid = q[Exchanges[n]].bid
             /\ f.bid = bid /\ f.bidVenue = Exchanges[n])
              => BidsSeen(n, f, q)
<1>1. \A k \in Fine(q) : k \in Nat /\ q[Exchanges[k]].bid \in Nat
  BY ViewTypes DEF Fine
<1>2. n \in Nat /\ f.bid \in Nat
  BY ViewTypes, FindingTypes
<1>3. ASSUME BidsSeen(n - 1, f, q), f.bid < bid PROVE BidsBelow(n, bid, q)
  <2> SUFFICES ASSUME NEW j \in Fine(q), j < n
               PROVE  q[Exchanges[j]].bid < bid
    BY DEF BidsBelow
  <2>1. j <= n - 1
    BY <1>1, <1>2
  <2> QED
    BY <1>1, <1>2, <1>3, <2>1 DEF BidsSeen
<1>4. ASSUME BidsBelow(n, bid, q), n \in Fine(q), bid = q[Exchanges[n]].bid,
             f.bid = bid, f.bidVenue = Exchanges[n]
      PROVE  BidsSeen(n, f, q)
  <2>1. \A k \in Fine(q) : k <= n => k < n \/ k = n
    BY <1>1, <1>2
  <2>2. n <= n
    BY <1>2
  <2>3. \A k \in Fine(q) : k < n => q[Exchanges[k]].bid < f.bid
    BY <1>4 DEF BidsBelow
  <2>4. \A k \in Fine(q) : k <= n => q[Exchanges[k]].bid <= f.bid
    BY <1>1, <1>2, <1>4, <2>1, <2>3
  <2> QED
    BY <1>4, <2>2, <2>3, <2>4 DEF BidsSeen
<1> QED
  BY <1>3, <1>4

LEMMA BetterAsk ==
  ASSUME NEW q \in [Venues -> Quotes], NEW f \in Findings, NEW n \in DOMAIN Exchanges,
         NEW ask \in Nat
  PROVE  /\ AsksSeen(n - 1, f, q) /\ ask < f.ask => AsksAbove(n, ask, q)
         /\ (/\ AsksAbove(n, ask, q) /\ n \in Fine(q) /\ ask = q[Exchanges[n]].ask
             /\ f.ask = ask /\ f.askVenue = Exchanges[n])
              => AsksSeen(n, f, q)
<1>1. \A k \in Fine(q) : k \in Nat /\ q[Exchanges[k]].ask \in Nat
  BY ViewTypes DEF Fine
<1>2. n \in Nat /\ f.ask \in Nat
  BY ViewTypes, FindingTypes
<1>3. ASSUME AsksSeen(n - 1, f, q), ask < f.ask PROVE AsksAbove(n, ask, q)
  <2> SUFFICES ASSUME NEW j \in Fine(q), j < n
               PROVE  q[Exchanges[j]].ask > ask
    BY DEF AsksAbove
  <2>1. j <= n - 1
    BY <1>1, <1>2
  <2> QED
    BY <1>1, <1>2, <1>3, <2>1 DEF AsksSeen
<1>4. ASSUME AsksAbove(n, ask, q), n \in Fine(q), ask = q[Exchanges[n]].ask,
             f.ask = ask, f.askVenue = Exchanges[n]
      PROVE  AsksSeen(n, f, q)
  <2>1. \A k \in Fine(q) : k <= n => k < n \/ k = n
    BY <1>1, <1>2
  <2>2. n <= n
    BY <1>2
  <2>3. \A k \in Fine(q) : k < n => q[Exchanges[k]].ask > f.ask
    BY <1>4 DEF AsksAbove
  <2>4. \A k \in Fine(q) : k <= n => q[Exchanges[k]].ask >= f.ask
    BY <1>1, <1>2, <1>4, <2>1, <2>3
  <2> QED
    BY <1>4, <2>2, <2>3, <2>4 DEF AsksSeen
<1> QED
  BY <1>3, <1>4

\* Leaving a venue, all of it is seen.
LEMMA NextVenueQuiet ==
  ASSUME ScanTypeOK, NextVenue, UNCHANGED <<quotes, turn>>,
         BidsSeen(i, found', quotes[symbol]), AsksSeen(i, found', quotes[symbol])
  PROVE  QuietBids' /\ QuietAsks'
<1>1. quotes'[symbol'] = quotes[symbol]
  BY DEF symbol
<1>2. i \in Nat /\ i <= Len(Exchanges) /\ Len(Exchanges) \in Nat
  BY ScanAssumption DEF ScanTypeOK
<1>3. CASE i < Len(Exchanges)
  <2>1. i' = i + 1 /\ pc' = "guard" /\ i' - 1 = i
    BY <1>2, <1>3 DEF NextVenue
  <2> QED
    BY <1>1, <2>1 DEF QuietBids, QuietAsks, BeforeBid, BeforeAsk, AfterBid
<1>4. CASE ~ (i < Len(Exchanges))
  <2>1. pc' = "scanned" /\ i = Len(Exchanges)
    BY <1>2, <1>4 DEF NextVenue
  <2> QED
    BY <1>1, <2>1 DEF QuietBids, QuietAsks, BeforeBid, BeforeAsk, AfterBid
<1> QED
  BY <1>3, <1>4

LEMMA ScanKeepsQuietInv ==
  ASSUME ScanTypeOK, ScanTypeOK', ScanInv, QuietInv, Scan, moved' = {}
  PROVE  QuietBids' /\ QuietAsks'
<1> DEFINE q == quotes[symbol]
<1>1. q \in [Venues -> Quotes] /\ quote = q[Exchanges[i]] /\ i \in DOMAIN Exchanges
  BY VenueTypes DEF ScanTypeOK, quote, venue
<1>2. found \in Findings /\ found' \in Findings
  BY DEF ScanTypeOK
<1>3. CASE BeginCheck
  <2>1. quotes'[symbol'] = q /\ pc' = "guard" /\ i' - 1 = 0 /\ found' = NothingFound
    BY <1>3 DEF BeginCheck, symbol
  <2> QED
    BY <1>1, <2>1, NothingSeen
    DEF QuietBids, QuietAsks, BeforeBid, BeforeAsk, AfterBid
<1> SUFFICES ASSUME ~ BeginCheck PROVE QuietBids' /\ QuietAsks'
  BY <1>3
<1>4. UNCHANGED <<quotes, turn, moved>> /\ quotes'[symbol'] = q
  BY DEF Scan, ReadGuardOperand, GuardAsk, GuardBid, Guard, CompareBid, TakeBid,
         TakeBidQty, CompareAsk, TakeAsk, TakeAskQty, feedVars, symbol
<1>5. QuietBids /\ QuietAsks /\ venue \notin moved
  BY <1>4 DEF QuietInv
<1>6. LookingAtVenue => i \in Fine(q)
  BY <1>1, <1>5 DEF ScanInv, VenueInv, Fine
<1>7. UNCHANGED i => quote' = quote
  BY <1>4 DEF quote, venue, symbol
<1>8. quote.bid \in Nat /\ quote.ask \in Nat
  BY <1>1, ViewTypes
<1> USE DEF BeforeBid, BeforeAsk, AfterBid
<1> HIDE DEF q
<1>9. CASE ReadGuardOperand
  BY <1>4, <1>5, <1>9 DEF ReadGuardOperand, QuietBids, QuietAsks, q
<1>10. ASSUME pc \in {"guardAsk", "guardBid"}, Guard(quote.bid, quote.ask)
       PROVE  QuietBids' /\ QuietAsks'
  <2>1. UNCHANGED found /\ BidsSeen(i - 1, found, q) /\ AsksSeen(i - 1, found, q)
    BY <1>5, <1>10 DEF Guard, QuietBids, QuietAsks, q
  <2>2. CASE quote.bid >= quote.ask
    <3>1. i \notin Fine(q)
      BY <1>1, <1>8, <2>2 DEF Fine
    <3>2. BidsSeen(i, found, q) /\ AsksSeen(i, found, q)
      BY <1>1, <1>2, <2>1, <3>1, NotBetter
    <3> QED
      BY <1>4, <1>10, <2>1, <2>2, <3>2, NextVenueQuiet DEF Guard, q
  <2>3. CASE ~ (quote.bid >= quote.ask)
    BY <1>4, <1>10, <2>1, <2>3 DEF Guard, QuietBids, QuietAsks, q
  <2> QED
    BY <2>2, <2>3
<1>11. CASE GuardAsk
  BY <1>5, <1>10, <1>11 DEF GuardAsk, ScanInv, VenueInv
<1>12. CASE GuardBid
  BY <1>5, <1>10, <1>12 DEF GuardBid, ScanInv, VenueInv
<1>13. CASE CompareBid
  <2>1. BidsSeen(i - 1, found, q) /\ AsksSeen(i - 1, found, q) /\ UNCHANGED <<i, found>>
    BY <1>5, <1>13 DEF CompareBid, QuietBids, QuietAsks, q
  <2>2. CASE quote.bid > found.bid
    BY <1>4, <1>7, <1>13, <2>1, <2>2 DEF CompareBid, QuietBids, QuietAsks, q
  <2>3. CASE ~ (quote.bid > found.bid)
    <3>1. BidsSeen(i, found, q)
      BY <1>1, <1>2, <2>1, <2>3, NotBetter
    <3> QED
      BY <1>4, <1>13, <2>1, <2>3, <3>1 DEF CompareBid, QuietBids, QuietAsks, q
  <2> QED
    BY <2>2, <2>3
<1>14. CASE TakeBid
  <2>1. /\ BidsSeen(i - 1, found, q) /\ found.bid < quote.bid
        /\ AsksSeen(i - 1, found, q) /\ UNCHANGED i /\ pc' = "takeBidQty"
    BY <1>5, <1>14 DEF TakeBid, QuietBids, QuietAsks, q
  <2>2. /\ found'.bid = quote.bid /\ found'.ask = found.ask
        /\ found'.askVenue = found.askVenue
    BY <1>2, <1>14 DEF TakeBid, Findings
  <2>3. BidsBelow(i, quote.bid, q)
    BY <1>1, <1>2, <1>8, <2>1, BetterBid
  <2>4. AsksSeen(i - 1, found', q)
    BY <2>1, <2>2 DEF AsksSeen
  <2> QED
    BY <1>4, <1>7, <2>1, <2>2, <2>3, <2>4 DEF QuietBids, QuietAsks, q
<1>15. CASE TakeBidQty
  <2>1. /\ found.bid = quote.bid /\ BidsBelow(i, quote.bid, q)
        /\ AsksSeen(i - 1, found, q) /\ UNCHANGED i /\ pc' = "compareAsk"
    BY <1>5, <1>15 DEF TakeBidQty, QuietBids, QuietAsks, q
  <2>2. /\ found'.bid = quote.bid /\ found'.bidVenue = Exchanges[i]
        /\ found'.ask = found.ask /\ found'.askVenue = found.askVenue
    BY <1>2, <1>15, <2>1 DEF TakeBidQty, Findings, venue
  <2>3. i \in Fine(q)
    BY <1>6, <1>15 DEF TakeBidQty, LookingAtVenue
  <2>4. BidsSeen(i, found', q)
    BY <1>1, <1>2, <1>8, <2>1, <2>2, <2>3, BetterBid
  <2>5. AsksSeen(i - 1, found', q)
    BY <2>1, <2>2 DEF AsksSeen
  <2> QED
    BY <1>4, <2>1, <2>4, <2>5 DEF QuietBids, QuietAsks, q
<1>16. CASE CompareAsk
  <2>1. BidsSeen(i, found, q) /\ AsksSeen(i - 1, found, q) /\ UNCHANGED found
    BY <1>5, <1>16 DEF CompareAsk, QuietBids, QuietAsks, q
  <2>2. CASE quote.ask < found.ask
    BY <1>4, <1>7, <1>16, <2>1, <2>2 DEF CompareAsk, QuietBids, QuietAsks, q
  <2>3. CASE ~ (quote.ask < found.ask)
    <3>1. AsksSeen(i, found, q)
      BY <1>1, <1>2, <2>1, <2>3, NotBetter
    <3> QED
      BY <1>4, <1>16, <2>1, <2>3, <3>1, NextVenueQuiet DEF CompareAsk, q
  <2> QED
    BY <2>2, <2>3
<1>17. CASE TakeAsk
  <2>1. /\ AsksSeen(i - 1, found, q) /\ quote.ask < found.ask
        /\ BidsSeen(i, found, q) /\ UNCHANGED i /\ pc' = "takeAskQty"
    BY <1>5, <1>17 DEF TakeAsk, QuietBids, QuietAsks, q
  <2>2. /\ found'.ask = quote.ask /\ found'.bid = found.bid
        /\ found'.bidVenue = found.bidVenue
    BY <1>2, <1>17 DEF TakeAsk, Findings
  <2>3. AsksAbove(i, quote.ask, q)
    BY <1>1, <1>2, <1>8, <2>1, BetterAsk
  <2>4. BidsSeen(i, found', q)
    BY <2>1, <2>2 DEF BidsSeen
  <2> QED
    BY <1>4, <1>7, <2>1, <2>2, <2>3, <2>4 DEF QuietBids, QuietAsks, q
<1>18. CASE TakeAskQty
  <2>1. /\ found.ask = quote.ask /\ AsksAbove(i, quote.ask, q)
        /\ BidsSeen(i, found, q) /\ NextVenue
    BY <1>5, <1>18 DEF TakeAskQty, QuietBids, QuietAsks, q
  <2>2. /\ found'.ask = quote.ask /\ found'.askVenue = Exchanges[i]
        /\ found'.bid = found.bid /\ found'.bidVenue = found.bidVenue
    BY <1>2, <1>18, <2>1 DEF TakeAskQty, Findings, venue
  <2>3. i \in Fine(q)
    BY <1>6, <1>18 DEF TakeAskQty, LookingAtVenue
  <2>4. AsksSeen(i, found', q)
    BY <1>1, <1>2, <1>8, <2>1, <2>2, <2>3, BetterAsk
  <2>5. BidsSeen(i, found', q)
    BY <2>1, <2>2 DEF BidsSeen
  <2> QED
    BY <1>4, <2>1, <2>4, <2>5, NextVenueQuiet DEF q
<1> QED
  BY <1>9, <1>11, <1>12, <1>13, <1>14, <1>15, <1>16, <1>17, <1>18 DEF Scan

LEMMA QuietInvariance == Spec => []QuietInv
<1>1. ScanInit => QuietInv
  BY DEF ScanInit, QuietInv, QuietBids, QuietAsks, BeforeBid, BeforeAsk, AfterBid
<1>2. Inv /\ Inv' /\ QuietInv /\ [Next]_scanVars => QuietInv'
  <2> SUFFICES ASSUME Inv, Inv', QuietInv, [Next]_scanVars, moved' = {}
               PROVE  QuietBids' /\ QuietAsks'
    BY DEF QuietInv
  <2>1. ASSUME NEW s \in SymbolSet, NEW v \in Venues, FeedMoves(s, v)
        PROVE  QuietBids' /\ QuietAsks'
    <3>1. s # symbol /\ moved = {} /\ UNCHANGED <<turn, pc, i, held, found>>
      BY <2>1 DEF FeedMoves
    <3>2. symbol' = symbol /\ quotes'[symbol] = quotes[symbol] /\ quote' = quote
      <4>1. quotes \in [SymbolSet -> [Venues -> Quotes]]
        BY DEF Inv, TypeOK, ScanTypeOK
      <4> QED
        BY <2>1, <3>1, <4>1 DEF FeedMoves, symbol, quote, venue
    <3> QED
      BY <3>1, <3>2 DEF QuietInv, QuietBids, QuietAsks
  <2>2. CASE Scan
    BY <2>2, ScanKeepsQuietInv DEF Inv, TypeOK
  <2>3. CASE Discard
    <3>1. pc' = "idle"
      BY <2>3 DEF Discard, NextSymbol
    <3> QED
      BY <3>1 DEF QuietBids, QuietAsks, BeforeBid, BeforeAsk, AfterBid
  <2>4. CASE UNCHANGED scanVars
    BY <2>4 DEF scanVars, QuietInv, QuietBids, QuietAsks, symbol, quote, venue
  <2> QED
    BY <2>1, <2>2, <2>3, <2>4 DEF Next
<1> QED
  BY <1>1, <1>2, Invariance, PTL DEF Spec

\* The variables of a scan keep their types; in particular both indices stay
\* within their vectors, whatever the number of venues and symbols.
THEOREM ScanTypes == Spec => []TypeOK
BY Invariance, PTL DEF Inv

\* While no quote moves, checkArbitrage compares the right two venues: the best
\* bid and the best ask of all usable books, at the first venue that shows each,
\* with the quantities that are there.
THEOREM QuietScansFindTheBest == Spec => []QuietScanFindsTheBest
<1>1. Inv /\ QuietInv => QuietScanFindsTheBest
  <2> SUFFICES ASSUME Inv, QuietInv, Scanned, moved = {} PROVE QuietScanFindsTheBest
    BY DEF QuietScanFindsTheBest
  <2> DEFINE q == quotes[symbol]
  <2>1. BidsSeen(Len(Exchanges), found, q) /\ AsksSeen(Len(Exchanges), found, q)
    BY DEF QuietInv, QuietBids, QuietAsks, Scanned
  <2>2. Usable = Fine(q) /\ \A k \in Usable : k <= Len(Exchanges)
    BY ScanAssumption DEF Usable, Fine, QuoteAt
  <2>3. \A k \in Usable : Exchanges[k] \in Venues \ moved
    BY ScanAssumption DEF Usable
  <2>4. \A k \in Usable :
          /\ found.bidVenue = Exchanges[k] => found.bidQty = QuoteAt(k).bidQty
          /\ found.askVenue = Exchanges[k] => found.askQty = QuoteAt(k).askQty
    BY <2>3, ScanInvMeansAsIs DEF Inv, UnmovedVenueIsReportedAsIs, QuoteAt
  <2> HIDE DEF q
  <2>5. /\ \A k \in Usable : QuoteAt(k).bid <= found.bid
        /\ found.bid > 0 => \E k \in Usable :
             /\ found.bid = QuoteAt(k).bid /\ found.bidVenue = Exchanges[k]
             /\ \A j \in Usable : j < k => QuoteAt(j).bid < found.bid
    BY <2>1, <2>2 DEF BidsSeen, QuoteAt, q
  <2>6. /\ \A k \in Usable : QuoteAt(k).ask >= found.ask
        /\ found.ask < NoAsk => \E k \in Usable :
             /\ found.ask = QuoteAt(k).ask /\ found.askVenue = Exchanges[k]
             /\ \A j \in Usable : j < k => QuoteAt(j).ask > found.ask
    BY <2>1, <2>2 DEF AsksSeen, QuoteAt, q
  <2> QED
    BY <2>4, <2>5, <2>6 DEF QuietScanFindsTheBest
<1> QED
  BY <1>1, Invariance, QuietInvariance, PTL

------------------------------------------------------------------------------
(* The engine's book-keeping.                                               *)

\* An order on its way is priced, is worth trading, is covered by the quotes
\* that were read, and fits into the room of both venues.
OrderInv ==
  Ordering =>
    /\ found.askVenue \in Venues /\ found.bidVenue \in Venues
    /\ 0 < found.ask /\ found.ask < found.bid
    /\ 0 < qty[1]
    /\ qty[1] * found.ask > MinNotional * qty[2]
    /\ qty[1] <= found.askQty * qty[2] /\ qty[1] <= found.bidQty * qty[2]
    /\ qty[1] * found.ask <= BuyRoom * qty[2]
    /\ qty[1] * found.bid <= SellRoom * qty[2]

\* So does what the executors report.
FillInv ==
  /\ pc \in {"sellLeg", "settle"} => buyFill.cost <= BuyRoom
  /\ pc = "settle" => sellFill.cost <= SellRoom

EngineInv == EngineTypeOK /\ ScanInv /\ OrderInv /\ FillInv /\ PositionBound

------------------------------------------------------------------------------
LEMMA FoundTypes ==
  ASSUME EngineTypeOK
  PROVE  /\ found.bid \in Nat /\ found.ask \in Nat
         /\ found.bidQty \in Nat /\ found.askQty \in Nat
         /\ symbol \in SymbolSet
<1>1. found \in Findings /\ ScanTypeOK
  BY DEF EngineTypeOK, ScanTypeOK
<1>2. /\ found.bid \in 0 .. MaxPrice /\ found.ask \in 0 .. NoAsk
      /\ found.bidQty \in Quantities \cup {0} /\ found.askQty \in Quantities \cup {0}
  BY <1>1 DEF Findings
<1>3. MaxPrice \in Nat /\ NoAsk \in Nat /\ Quantities \cup {0} \subseteq Nat
  BY NoAskType, QuoteAssumption
<1>4. symbol \in SymbolSet
  BY <1>1, VenueTypes
<1> QED
  BY <1>2, <1>3, <1>4

LEMMA RoomBounds ==
  ASSUME EngineTypeOK, NEW s \in SymbolSet, NEW v \in Venues
  PROVE  /\ positions[s][v] \in Int
         /\ RemainingUsdRoom(s, v, "buy") \in Nat
         /\ RemainingUsdRoom(s, v, "sell") \in Nat
         /\ RemainingUsdRoom(s, v, "buy") > 0 =>
              RemainingUsdRoom(s, v, "buy") = MaxPosUsd - positions[s][v]
         /\ RemainingUsdRoom(s, v, "sell") > 0 =>
              RemainingUsdRoom(s, v, "sell") = MaxPosUsd + positions[s][v]
<1>1. positions[s][v] \in Int
  BY DEF EngineTypeOK, Ledgers
<1> QED
  BY <1>1, EngineAssumption DEF RemainingUsdRoom

\* What checkArbitrage asks both executors for.  In particular the price to
\* buy at is not 0: the notional would not exceed 150 USD.
LEMMA ReqQtyFits ==
  ASSUME EngineTypeOK, Accept
  PROVE  /\ found.askVenue \in Venues /\ found.bidVenue \in Venues
         /\ ReqQty \in Fractions
         /\ 0 < found.ask /\ found.ask < found.bid
         /\ 0 < ReqQty[1]
         /\ ReqQty[1] * found.ask > MinNotional * ReqQty[2]
         /\ ReqQty[1] <= found.askQty * ReqQty[2] /\ ReqQty[1] <= found.bidQty * ReqQty[2]
         /\ ReqQty[1] * found.ask <= BuyRoom * ReqQty[2]
         /\ ReqQty[1] * found.bid <= SellRoom * ReqQty[2]
<1>1. found.askVenue \in Venues /\ found.bidVenue \in Venues
  BY EngineAssumption DEF Accept, Opportunity
<1>2. BuyRoom \in Nat /\ SellRoom \in Nat /\ BuyRoom > 0 /\ SellRoom > 0
  BY <1>1, RoomBounds, FoundTypes DEF Accept, BuyRoom, SellRoom
<1>3. /\ ObCapQty \in Nat /\ ObCapQty > 0
      /\ ObCapQty <= found.askQty /\ ObCapQty <= found.bidQty
  BY FoundTypes DEF Accept, ObCapQty
<1> DEFINE c0 == Whole(ObCapQty)
           c1 == CappedQty(c0, BuyRoom, found.ask)
           c2 == CappedQty(c1, SellRoom, found.bid)
<1>4. c0 \in Fractions /\ c0[1] = ObCapQty /\ c0[2] = 1
  BY <1>3 DEF Whole, Fractions
<1>5. /\ c1 \in Fractions /\ c1[1] * found.ask <= BuyRoom * c1[2]
      /\ c1[1] * c0[2] <= c0[1] * c1[2] /\ c1[1] > 0
  BY <1>2, <1>3, <1>4, FoundTypes, CappedQtyBounds
<1>6. /\ c2 \in Fractions /\ c2[1] * found.bid <= SellRoom * c2[2]
      /\ c2[1] * c1[2] <= c1[1] * c2[2] /\ c2[1] > 0
  <2> HIDE DEF c1
  <2> QED
    BY <1>2, <1>5, FoundTypes, CappedQtyBounds
<1>7. /\ c1[1] \in Nat /\ c1[2] \in Nat \ {0}
      /\ c2[1] \in Nat /\ c2[2] \in Nat \ {0}
  BY <1>5, <1>6 DEF Fractions
<1>8. c2[1] * found.ask <= BuyRoom * c2[2]
  <2> HIDE DEF c1, c2
  <2> QED
    BY <1>2, <1>5, <1>6, <1>7, FoundTypes, FractionTrans
<1>9. c2[1] * 1 <= ObCapQty * c2[2]
  <2>1. c1[1] * 1 <= ObCapQty * c1[2]
    BY <1>3, <1>4, <1>5, <1>7
  <2> HIDE DEF c1, c2
  <2> QED
    BY <1>3, <1>6, <1>7, <2>1, FractionTrans
<1>10. c2[1] <= found.askQty * c2[2] /\ c2[1] <= found.bidQty * c2[2]
  <2> HIDE DEF c2
  <2>1. /\ c2[2] * ObCapQty <= c2[2] * found.askQty
        /\ c2[2] * ObCapQty <= c2[2] * found.bidQty
    BY <1>3, <1>7, FoundTypes, ProductMonotone
  <2>2. /\ c2[2] * ObCapQty = ObCapQty * c2[2]
        /\ c2[2] * found.askQty = found.askQty * c2[2]
        /\ c2[2] * found.bidQty = found.bidQty * c2[2]
    BY <1>3, <1>7, FoundTypes
  <2> QED
    BY <1>3, <1>7, <1>9, <2>1, <2>2, FoundTypes, ProductType
<1>11. ReqQty = c2
  BY DEF ReqQty
<1>12. c2[1] * found.ask > MinNotional * c2[2]
  BY <1>11 DEF Accept, WorthTrading
<1>13. 0 < found.ask
  <2> HIDE DEF c2
  <2>1. MinNotional * c2[2] \in Nat
    BY <1>7, EngineAssumption, ProductType
  <2>2. CASE found.ask = 0
    <3>1. c2[1] * found.ask = 0
      BY <1>7, <2>2
    <3> QED
      BY <1>12, <2>1, <3>1
  <2> QED
    BY <2>2, FoundTypes
<1> QED
  BY <1>1, <1>6, <1>8, <1>10, <1>11, <1>12, <1>13 DEF Accept, Opportunity

\* An executor reports at most what the order was cut to.
LEMMA OutcomeBounds ==
  ASSUME EngineTypeOK, NEW v \in Venues, NEW price \in Nat, NEW room \in Nat,
         qty[1] * price <= room * qty[2], NEW o \in Outcomes(v, price)
  PROVE  /\ o.ok \in BOOLEAN /\ o.throws \in BOOLEAN /\ o.fault \in BOOLEAN
         /\ o.cost \in Nat /\ o.cost <= room
         /\ o.executed \in Nat
<1>1. qty[1] \in Nat /\ qty[2] \in Nat \ {0} /\ qty \in Fractions
  BY DEF EngineTypeOK, Fractions
<1>2. CASE ~ Live
  <2>1. price * qty[1] \in Nat /\ price * qty[1] <= room * qty[2]
    BY <1>1, ProductType
  <2>2. PaperCost(price, qty) \in Nat /\ PaperCost(price, qty) <= room
    BY <1>1, <2>1, RoundBounds, RoundAtMost DEF PaperCost
  <2>3. o = [ok |-> qty[1] > 0 /\ price > 0, cost |-> PaperCost(price, qty),
             executed |-> PaperCost(price, qty), throws |-> FALSE, fault |-> FALSE]
    BY <1>2 DEF Outcomes, PaperLeg
  <2>4. (qty[1] > 0 /\ price > 0) \in BOOLEAN
    OBVIOUS
  <2> QED
    BY <2>2, <2>3, <2>4
<1>3. CASE Live
  <2> DEFINE sendQty == FloorToStep(qty, LotSize[v])
             cost == sendQty * price
  <2>1. LotSize[v] \in Nat \ {0}
    BY EngineAssumption
  <2>2. cost \in Nat /\ cost <= room /\ sendQty \in Nat
    BY <1>1, <2>1, LotsCostAtMost, FloorToStepBounds
  <2>3. \A n \in 0 .. MaxAttempts : n * cost \in Nat
    <3> HIDE DEF cost
    <3> QED
      BY <2>2, EngineAssumption, ProductType
  <2>4. 1 .. MaxAttempts \subseteq 0 .. MaxAttempts /\ 0 .. MaxAttempts - 1 \subseteq 0 .. MaxAttempts
    BY EngineAssumption
  <2>5. 0 \in Nat /\ 0 <= room
    OBVIOUS
  <2>7. \/ o = Unfilled
        \/ \E ok \in BOOLEAN, n \in 1 .. MaxAttempts :
             o = [ok |-> ok, cost |-> IF ok THEN cost ELSE 0, executed |-> n * cost,
                  throws |-> FALSE, fault |-> ~ ok \/ n # 1]
        \/ \E n \in 0 .. MaxAttempts - 1 :
             o = [ok |-> FALSE, cost |-> 0, executed |-> n * cost,
                  throws |-> TRUE, fault |-> TRUE]
    BY <1>3, Zenon DEF Outcomes, LiveLeg
  <2> HIDE DEF cost, sendQty
  <2>8. ASSUME o = Unfilled
        PROVE  /\ o.ok \in BOOLEAN /\ o.throws \in BOOLEAN /\ o.fault \in BOOLEAN
               /\ o.cost \in Nat /\ o.cost <= room /\ o.executed \in Nat
    BY <2>5, <2>8 DEF Unfilled
  <2>9. ASSUME NEW ok \in BOOLEAN, NEW n \in 1 .. MaxAttempts,
               o = [ok |-> ok, cost |-> IF ok THEN cost ELSE 0, executed |-> n * cost,
                    throws |-> FALSE, fault |-> ~ ok \/ n # 1]
        PROVE  /\ o.ok \in BOOLEAN /\ o.throws \in BOOLEAN /\ o.fault \in BOOLEAN
               /\ o.cost \in Nat /\ o.cost <= room /\ o.executed \in Nat
    <3>1. /\ o.ok = ok /\ o.throws = FALSE /\ o.executed = n * cost
          /\ o.fault \in BOOLEAN /\ o.cost \in {0, cost}
      BY <2>9
    <3> QED
      BY <2>2, <2>3, <2>4, <2>5, <3>1
  <2>10. ASSUME NEW n \in 0 .. MaxAttempts - 1,
                o = [ok |-> FALSE, cost |-> 0, executed |-> n * cost,
                     throws |-> TRUE, fault |-> TRUE]
         PROVE  /\ o.ok \in BOOLEAN /\ o.throws \in BOOLEAN /\ o.fault \in BOOLEAN
                /\ o.cost \in Nat /\ o.cost <= room /\ o.executed \in Nat
    <3>1. n * cost \in Nat
      BY <2>3, <2>4
    <3> QED
      BY <2>5, <2>10, <3>1
  <2> QED
    BY <2>7, <2>8, <2>9, <2>10
<1> QED
  BY <1>2, <1>3, EngineAssumption

------------------------------------------------------------------------------
LEMMA EngineInit == Init => EngineInv
<1> SUFFICES ASSUME Init PROVE EngineInv
  OBVIOUS
<1>1. EngineTypeOK
  <2>1. Whole(0) \in Fractions /\ NoFill \in Fills /\ 0 \in 0 .. MaxFaults + 1
    BY EngineAssumption DEF Whole, Fractions, NoFill, Fills
  <2>2. ZeroLedger \in Ledgers(Int)
    BY DEF ZeroLedger, Ledgers
  <2> QED
    BY <2>1, <2>2, ScanInitType DEF Init, ScanInit, EngineTypeOK, EngineSteps
<1>2. ScanInv
  BY NothingFoundInv DEF Init, ScanInit
<1>3. OrderInv /\ FillInv
  BY DEF Init, ScanInit, OrderInv, FillInv, Ordering
<1>4. PositionBound
  BY EngineAssumption DEF Init, ZeroLedger, PositionBound
<1> QED
  BY <1>1, <1>2, <1>3, <1>4 DEF EngineInv

LEMMA EndCheckType ==
  ASSUME ScanTypeOK, EndCheck, UNCHANGED <<feedVars, i, held>>
  PROVE  /\ ScanTypeOK' /\ pc' \in EngineSteps
         /\ qty' \in Fractions /\ buyFill' \in Fills /\ sellFill' \in Fills
<1>1. NextSymbol /\ qty' = <<0, 1>> /\ buyFill' = NoFill /\ sellFill' = NoFill
  BY DEF EndCheck, Whole
<1>2. <<0, 1>> \in Fractions /\ NoFill \in Fills
  BY DEF Fractions, NoFill, Fills
<1>3. pc' \in EngineSteps
  BY <1>1 DEF NextSymbol, EngineSteps
<1> QED
  BY <1>1, <1>2, <1>3, NextSymbolType

\* Nothing but the positions and the order matters to OrderInv and FillInv.
LEMMA OrderUnchanged ==
  ASSUME UNCHANGED <<turn, pc, found, qty, positions, buyFill, sellFill>>
  PROVE  /\ OrderInv => OrderInv'
         /\ FillInv => FillInv'
BY DEF OrderInv, FillInv, Ordering, BuyRoom, SellRoom, RemainingUsdRoom, symbol

\* Nor do they matter once the check is over.
LEMMA NotOrdering ==
  ASSUME pc' \in ScanSteps \cup {"idle", "scanned"}
  PROVE  OrderInv' /\ FillInv'
BY DEF OrderInv, FillInv, Ordering, ScanSteps

\* The end of a check leaves nothing found.
LEMMA EndCheckScanInv ==
  ASSUME NextSymbol PROVE ScanInv'
BY ScanAssumption
DEF NextSymbol, ScanInv, VenueInv, BidInv, AskInv, LookingAtVenue, NothingFound

\* Past the scan, ScanInv speaks of what was found and of nothing else.
LEMMA ScanInvUnchanged ==
  ASSUME ScanInv, UNCHANGED <<quotes, turn, found, moved>>,
         pc \in {"scanned", "buyLeg", "sellLeg"}, pc' \in {"buyLeg", "sellLeg", "settle"}
  PROVE  ScanInv'
BY DEF ScanInv, VenueInv, BidInv, AskInv, LookingAtVenue, symbol

LEMMA LegTypes ==
  ASSUME EngineTypeOK, OrderInv, Ordering
  PROVE  /\ \A o \in Outcomes(found.askVenue, found.ask) :
              /\ o.ok \in BOOLEAN /\ o.throws \in BOOLEAN /\ o.fault \in BOOLEAN
              /\ o.cost \in Nat /\ o.cost <= BuyRoom /\ o.executed \in Nat
         /\ \A o \in Outcomes(found.bidVenue, found.bid) :
              /\ o.ok \in BOOLEAN /\ o.throws \in BOOLEAN /\ o.fault \in BOOLEAN
              /\ o.cost \in Nat /\ o.cost <= SellRoom /\ o.executed \in Nat
<1>1. found.askVenue \in Venues /\ found.bidVenue \in Venues
  BY DEF OrderInv
<1>2. BuyRoom \in Nat /\ SellRoom \in Nat /\ found.ask \in Nat /\ found.bid \in Nat
  BY <1>1, FoundTypes, RoomBounds DEF BuyRoom, SellRoom
<1> QED
  BY <1>1, <1>2, OutcomeBounds DEF OrderInv

LEMMA CountType ==
  ASSUME EngineTypeOK, NEW v, NEW o, o.fault \in BOOLEAN, Count(o, v)
  PROVE  faults' \in 0 .. MaxFaults + 1
BY EngineAssumption DEF Count, EngineTypeOK

LEMMA ExposureType ==
  ASSUME EngineTypeOK, NEW s \in SymbolSet, NEW v \in Venues, NEW x \in Int
  PROVE  /\ [exposure EXCEPT ![s][v] = @ + x] \in Ledgers(Int)
         /\ [exposure EXCEPT ![s][v] = @ - x] \in Ledgers(Int)
<1>1. exposure \in [SymbolSet -> [Venues -> Int]]
  BY DEF EngineTypeOK, Ledgers
<1>2. exposure[s][v] \in Int
  BY <1>1
<1> QED
  BY <1>1, <1>2 DEF Ledgers

LEMMA BuyLegStep == EngineInv /\ BuyLeg => EngineInv'
<1> SUFFICES ASSUME EngineInv, BuyLeg PROVE EngineInv'
  OBVIOUS
<1> USE DEF EngineInv
<1>1. /\ pc = "buyLeg" /\ Ordering
      /\ UNCHANGED <<quotes, moved, i, held, positions>>
  BY DEF BuyLeg, Ordering, feedVars
<1>2. PICK o \in Outcomes(found.askVenue, found.ask) :
        /\ Count(o, found.askVenue)
        /\ exposure' = [exposure EXCEPT ![symbol][found.askVenue] = @ + o.executed]
        /\ \/ o.throws /\ EndCheck
           \/ /\ ~ o.throws
              /\ buyFill' = Fill(o)
              /\ pc' = "sellLeg"
              /\ UNCHANGED <<turn, found, qty, sellFill>>
  BY DEF BuyLeg
<1>3. o.ok \in BOOLEAN /\ o.fault \in BOOLEAN /\ o.cost \in Nat /\ o.cost <= BuyRoom /\ o.executed \in Nat
  BY <1>1, LegTypes
<1>4. exposure' \in Ledgers(Int) /\ faults' \in 0 .. MaxFaults + 1
  <2>1. symbol \in SymbolSet /\ found.askVenue \in Venues /\ found.bidVenue \in Venues
    BY <1>1, FoundTypes DEF OrderInv
  <2>2. o.executed \in Int
    BY <1>3
  <2>3. exposure' \in Ledgers(Int)
    BY <1>2, <2>1, <2>2, ExposureType
  <2> QED
    BY <1>2, <1>3, <2>3, CountType
<1>5. PositionBound'
  BY <1>1 DEF PositionBound
<1>6. CASE EndCheck
  <2>1. EngineTypeOK'
    BY <1>1, <1>4, <1>6, EndCheckType DEF EngineTypeOK, feedVars
  <2>2. NextSymbol /\ pc' = "idle"
    BY <1>6 DEF EndCheck, NextSymbol
  <2> QED
    BY <1>5, <2>1, <2>2, NotOrdering, EndCheckScanInv
<1>7. CASE /\ buyFill' = Fill(o) /\ pc' = "sellLeg"
           /\ UNCHANGED <<turn, found, qty, sellFill>>
  <2>1. buyFill' \in Fills /\ buyFill'.cost = o.cost
    BY <1>3, <1>7 DEF Fill, Fills
  <2>2. EngineTypeOK'
    BY <1>1, <1>4, <1>7, <2>1 DEF EngineTypeOK, ScanTypeOK, EngineSteps
  <2>3. ScanInv'
    BY <1>1, <1>7, ScanInvUnchanged
  <2>4. OrderInv' /\ BuyRoom' = BuyRoom
    BY <1>1, <1>7 DEF OrderInv, Ordering, BuyRoom, SellRoom, RemainingUsdRoom, symbol
  <2>5. FillInv'
    BY <1>3, <1>7, <2>1, <2>4 DEF FillInv
  <2> QED
    BY <1>5, <2>2, <2>3, <2>4, <2>5
<1> QED
  BY <1>2, <1>6, <1>7

LEMMA SellLegStep == EngineInv /\ SellLeg => EngineInv'
<1> SUFFICES ASSUME EngineInv, SellLeg PROVE EngineInv'
  OBVIOUS
<1> USE DEF EngineInv
<1>1. /\ pc = "sellLeg" /\ Ordering
      /\ UNCHANGED <<quotes, moved, i, held, positions>>
  BY DEF SellLeg, Ordering, feedVars
<1>2. PICK o \in Outcomes(found.bidVenue, found.bid) :
        /\ Count(o, found.bidVenue)
        /\ exposure' = [exposure EXCEPT ![symbol][found.bidVenue] = @ - o.executed]
        /\ \/ o.throws /\ EndCheck
           \/ /\ ~ o.throws
              /\ sellFill' = Fill(o)
              /\ pc' = "settle"
              /\ UNCHANGED <<turn, found, qty, buyFill>>
  BY DEF SellLeg
<1>3. o.ok \in BOOLEAN /\ o.fault \in BOOLEAN /\ o.cost \in Nat /\ o.cost <= SellRoom /\ o.executed \in Nat
  BY <1>1, LegTypes
<1>4. exposure' \in Ledgers(Int) /\ faults' \in 0 .. MaxFaults + 1
  <2>1. symbol \in SymbolSet /\ found.askVenue \in Venues /\ found.bidVenue \in Venues
    BY <1>1, FoundTypes DEF OrderInv
  <2>2. o.executed \in Int
    BY <1>3
  <2>3. exposure' \in Ledgers(Int)
    BY <1>2, <2>1, <2>2, ExposureType
  <2> QED
    BY <1>2, <1>3, <2>3, CountType
<1>5. PositionBound'
  BY <1>1 DEF PositionBound
<1>6. CASE EndCheck
  <2>1. EngineTypeOK'
    BY <1>1, <1>4, <1>6, EndCheckType DEF EngineTypeOK, feedVars
  <2>2. NextSymbol /\ pc' = "idle"
    BY <1>6 DEF EndCheck, NextSymbol
  <2> QED
    BY <1>5, <2>1, <2>2, NotOrdering, EndCheckScanInv
<1>7. CASE /\ sellFill' = Fill(o) /\ pc' = "settle"
           /\ UNCHANGED <<turn, found, qty, buyFill>>
  <2>1. sellFill' \in Fills /\ sellFill'.cost = o.cost
    BY <1>3, <1>7 DEF Fill, Fills
  <2>2. EngineTypeOK'
    BY <1>1, <1>4, <1>7, <2>1 DEF EngineTypeOK, ScanTypeOK, EngineSteps
  <2>3. ScanInv'
    BY <1>1, <1>7, ScanInvUnchanged
  <2>4. OrderInv' /\ BuyRoom' = BuyRoom /\ SellRoom' = SellRoom
    BY <1>1, <1>7 DEF OrderInv, Ordering, BuyRoom, SellRoom, RemainingUsdRoom, symbol
  <2>5. FillInv'
    BY <1>1, <1>3, <1>7, <2>1, <2>4 DEF FillInv
  <2> QED
    BY <1>5, <2>2, <2>3, <2>4, <2>5
<1> QED
  BY <1>2, <1>6, <1>7

\* What Settle does to the two positions.
LEMMA SettleFits ==
  ASSUME EngineInv, Settle, BothFilled
  PROVE  LET P == positions[symbol] IN
         /\ symbol \in SymbolSet
         /\ found.askVenue \in Venues /\ found.bidVenue \in Venues
         /\ buyFill.cost \in 1 .. MaxPosUsd - P[found.askVenue]
         /\ sellFill.cost \in 1 .. MaxPosUsd + P[found.bidVenue]
         /\ positions' = Recorded
<1>1. pc = "settle" /\ Ordering
  BY DEF Settle, Ordering
<1>2. /\ found.askVenue \in Venues /\ found.bidVenue \in Venues /\ symbol \in SymbolSet
      /\ buyFill.cost <= BuyRoom /\ sellFill.cost <= SellRoom
  BY <1>1, FoundTypes DEF EngineInv, OrderInv, FillInv
<1>3. /\ buyFill.cost \in Nat /\ buyFill.cost > 0
      /\ sellFill.cost \in Nat /\ sellFill.cost > 0
  BY DEF BothFilled, EngineInv, EngineTypeOK, Fills
<1>4. /\ BuyRoom \in Nat /\ BuyRoom > 0 /\ SellRoom \in Nat /\ SellRoom > 0
  BY <1>2, <1>3, RoomBounds DEF BuyRoom, SellRoom, EngineInv
<1>5. /\ BuyRoom = MaxPosUsd - positions[symbol][found.askVenue]
      /\ SellRoom = MaxPosUsd + positions[symbol][found.bidVenue]
  BY <1>2, <1>4, RoomBounds DEF BuyRoom, SellRoom, EngineInv
<1> QED
  BY <1>2, <1>3, <1>4, <1>5 DEF Settle

LEMMA SettleStep == EngineInv /\ Settle => EngineInv'
<1> SUFFICES ASSUME EngineInv, Settle PROVE EngineInv'
  OBVIOUS
<1>1. positions \in Ledgers(Int) /\ PositionBound /\ MaxPosUsd \in Nat
  BY EngineAssumption DEF EngineInv, EngineTypeOK
<1>2. positions' \in Ledgers(Int) /\ PositionBound'
  <2>1. CASE ~ BothFilled
    BY <1>1, <2>1 DEF Settle, PositionBound
  <2>2. CASE BothFilled
    <3> DEFINE P == positions[symbol]
               B == found.askVenue
               S == found.bidVenue
               Q == [[P EXCEPT ![B] = @ + buyFill.cost] EXCEPT ![S] = @ - sellFill.cost]
    <3>1. /\ symbol \in SymbolSet /\ B \in Venues /\ S \in Venues
          /\ buyFill.cost \in 1 .. MaxPosUsd - P[B]
          /\ sellFill.cost \in 1 .. MaxPosUsd + P[S]
          /\ positions' = Recorded
      BY <2>2, SettleFits
    <3>2. positions' = [positions EXCEPT ![symbol] = Q]
      BY <3>1 DEF Recorded, AfterPair
    <3>3. /\ P \in [Venues -> Int]
          /\ \A v \in Venues : P[v] \in -MaxPosUsd .. MaxPosUsd
      BY <1>1, <3>1 DEF Ledgers, PositionBound
    <3>4. Q \in [Venues -> Int] /\ \A v \in Venues : Q[v] \in -MaxPosUsd .. MaxPosUsd
      <4>1. Q \in [Venues -> Int]
        BY <3>1, <3>3
      <4>2. ASSUME NEW v \in Venues PROVE Q[v] \in -MaxPosUsd .. MaxPosUsd
        <5>1. /\ buyFill.cost \in Int /\ 1 <= buyFill.cost /\ buyFill.cost <= MaxPosUsd - P[B]
              /\ sellFill.cost \in Int /\ 1 <= sellFill.cost /\ sellFill.cost <= MaxPosUsd + P[S]
          BY <3>1
        <5>2. Q[v] = IF v = B THEN IF v = S THEN P[v] + buyFill.cost - sellFill.cost
                                            ELSE P[v] + buyFill.cost
                              ELSE IF v = S THEN P[v] - sellFill.cost ELSE P[v]
          BY <3>1, <3>3
        <5>3. P[v] \in Int /\ -MaxPosUsd <= P[v] /\ P[v] <= MaxPosUsd
          BY <1>1, <3>3
        <5> HIDE DEF P, Q, B, S
        <5> QED
          BY <1>1, <5>1, <5>2, <5>3
      <4> QED
        BY <4>1, <4>2
    <3> HIDE DEF Q
    <3> QED
      BY <1>1, <3>1, <3>2, <3>4 DEF Ledgers, PositionBound
  <2> QED
    BY <2>1, <2>2
<1>3. EngineTypeOK'
  BY <1>2, EndCheckType DEF EngineInv, EngineTypeOK, Settle
<1>4. NextSymbol /\ pc' = "idle"
  BY DEF Settle, EndCheck, NextSymbol
<1> QED
  BY <1>2, <1>3, <1>4, NotOrdering, EndCheckScanInv DEF EngineInv

LEMMA NextStep == EngineInv /\ [EngineNext]_vars => EngineInv'
<1> SUFFICES ASSUME EngineInv, [EngineNext]_vars PROVE EngineInv'
  OBVIOUS
<1>1. ASSUME NEW s \in SymbolSet, NEW v \in Venues, FeedMoves(s, v), UNCHANGED orderVars
      PROVE  EngineInv'
  <2>1. EngineTypeOK'
    BY <1>1, FeedType DEF EngineInv, EngineTypeOK, FeedMoves, orderVars
  <2>2. ScanInv'
    BY <1>1, FeedKeepsScanInv DEF EngineInv, EngineTypeOK
  <2>3. OrderInv' /\ FillInv'
    BY <1>1, OrderUnchanged DEF EngineInv, FeedMoves, orderVars
  <2>4. PositionBound'
    BY <1>1 DEF EngineInv, PositionBound, orderVars
  <2> QED
    BY <2>1, <2>2, <2>3, <2>4 DEF EngineInv
<1>2. CASE Scan /\ UNCHANGED orderVars
  <2>1. ScanTypeOK' /\ pc' \in ScanSteps \cup {"scanned"}
    BY <1>2, ScanType DEF EngineInv, EngineTypeOK
  <2>2. EngineTypeOK'
    BY <1>2, <2>1 DEF EngineInv, EngineTypeOK, EngineSteps, orderVars
  <2>3. ScanInv'
    BY <1>2, ScanKeepsScanInv DEF EngineInv, EngineTypeOK
  <2>4. PositionBound'
    BY <1>2 DEF EngineInv, PositionBound, orderVars
  <2> QED
    BY <2>1, <2>2, <2>3, <2>4, NotOrdering DEF EngineInv
<1>3. CASE SendOrders
  <2>1. EngineTypeOK'
    BY <1>3, ReqQtyFits
    DEF SendOrders, EngineInv, EngineTypeOK, ScanTypeOK, EngineSteps, feedVars
  <2>2. ScanInv'
    BY <1>3, ScanInvUnchanged DEF SendOrders, EngineInv, feedVars
  <2>3. BuyRoom' = BuyRoom /\ SellRoom' = SellRoom
    BY <1>3 DEF SendOrders, BuyRoom, SellRoom, RemainingUsdRoom, symbol
  <2>4. OrderInv'
    BY <1>3, <2>3, ReqQtyFits DEF SendOrders, EngineInv, OrderInv
  <2>5. FillInv' /\ PositionBound'
    BY <1>3 DEF SendOrders, FillInv, EngineInv, PositionBound
  <2> QED
    BY <2>1, <2>2, <2>4, <2>5 DEF EngineInv
<1>4. CASE PassOver
  <2>1. EngineTypeOK'
    BY <1>4, EndCheckType DEF PassOver, EngineInv, EngineTypeOK
  <2>2. NextSymbol /\ pc' = "idle" /\ UNCHANGED positions
    BY <1>4 DEF PassOver, EndCheck, NextSymbol
  <2> QED
    BY <2>1, <2>2, NotOrdering, EndCheckScanInv DEF EngineInv, PositionBound
<1>5. CASE UNCHANGED vars
  <2>1. UNCHANGED <<quotes, turn, pc, i, held, found, moved, positions, qty,
                    buyFill, sellFill, exposure, faults>>
    BY <1>5 DEF vars
  <2>2. ScanInv'
    BY <2>1 DEF EngineInv, ScanInv, VenueInv, BidInv, AskInv, LookingAtVenue,
                venue, quote, symbol
  <2> QED
    BY <2>1, <2>2, OrderUnchanged DEF EngineInv, EngineTypeOK, ScanTypeOK, PositionBound
<1> QED
  BY <1>1, <1>2, <1>3, <1>4, <1>5, BuyLegStep, SellLegStep, SettleStep
  DEF EngineNext, EngineStep

LEMMA EngineInvariance == EngineSpec => []EngineInv
BY EngineInit, NextStep, PTL DEF EngineSpec

------------------------------------------------------------------------------
\* Every variable of the engine keeps its type.
THEOREM EngineTypes == EngineSpec => []EngineTypeOK
BY EngineInvariance, PTL DEF EngineInv

\* No recorded position leaves [-maxPosUsd, maxPosUsd], in either mode.
THEOREM PositionsAreBounded == EngineSpec => []PositionBound
BY EngineInvariance, PTL DEF EngineInv

\* Torn reads never make the engine order at price 0, at a loss before fees,
\* or for less than the notional checkArbitrage insists on.
THEOREM OrdersArePriced == EngineSpec => []OrderIsPriced
<1>1. EngineInv => OrderIsPriced
  BY DEF EngineInv, OrderInv, OrderIsPriced
<1> QED
  BY <1>1, EngineInvariance, PTL

\* As long as a venue's quote stands still, the order for it is at its price and
\* within its quantity.
THEOREM OrdersAreOnDisplay == EngineSpec => []OrderIsOnDisplay
<1>1. EngineInv => OrderIsOnDisplay
  BY DEF EngineInv, OrderInv, ScanInv, BidInv, AskInv, OrderIsOnDisplay, Ordering
<1> QED
  BY <1>1, EngineInvariance, PTL

\* The engine's records behave like PositionLedger: they change in pairs only,
\* and each side of a pair fits into the room of its venue.
THEOREM EngineRefinesLedger == EngineSpec => RecordsAreALedger
<1>1. Init => Ledger!Init
  BY DEF Init, ZeroLedger, Ledger!Init
<1>2. EngineInv /\ [EngineNext]_vars => [Ledger!Next]_positions
  <2> SUFFICES ASSUME EngineInv, [EngineNext]_vars, positions' # positions
               PROVE  Ledger!Next
    OBVIOUS
  <2>1. Settle /\ BothFilled
    BY DEF EngineNext, EngineStep, vars, orderVars, SendOrders, PassOver, BuyLeg,
           SellLeg, Settle
  <2>2. /\ symbol \in SymbolSet
        /\ found.askVenue \in Venues /\ found.bidVenue \in Venues
        /\ buyFill.cost \in 1 .. Ledger!BuyRoom(symbol, found.askVenue)
        /\ sellFill.cost \in 1 .. Ledger!SellRoom(symbol, found.bidVenue)
        /\ positions' = Recorded
    BY <2>1, SettleFits DEF Ledger!BuyRoom, Ledger!SellRoom
  <2>3. Ledger!Trade(symbol, found.askVenue, found.bidVenue)
    BY <2>2 DEF Ledger!Trade, Ledger!AfterPair, Recorded, AfterPair
  <2> QED
    BY <2>2, <2>3 DEF Ledger!Next
<1> QED
  BY <1>1, <1>2, EngineInvariance, PTL
  DEF EngineSpec, RecordsAreALedger, Ledger!Spec

------------------------------------------------------------------------------
(* What is recorded is what was executed.                                  *)

\* Until a leg goes wrong, the record lags behind by the legs of the check
\* under way and by nothing else; and both of them will be recorded, because
\* they were reported with what they were executed for.
ExposureInv ==
  faults = 0 =>
    /\ pc \notin {"sellLeg", "settle"} => exposure = positions
    /\ pc = "sellLeg" => /\ buyFill.ok /\ buyFill.cost > 0
                         /\ exposure = BuyRecorded
    /\ pc = "settle" => BothFilled /\ exposure = Recorded

\* A leg that ends as exactly one order is reported as ok, and costs something:
\* the order is worth at least the minimum, so rounding leaves at least a cent,
\* and an order cut to nothing would not be one order.
LEMMA UnfaultedOutcome ==
  ASSUME EngineTypeOK, NEW v \in Venues, NEW price \in Nat, price > 0,
         qty[1] * price > MinNotional * qty[2],
         NEW o \in Outcomes(v, price), ~ o.fault
  PROVE  o.ok /\ o.cost > 0 /\ o.executed = o.cost /\ ~ o.throws
<1>1. qty[1] \in Nat /\ qty[2] \in Nat \ {0} /\ qty \in Fractions
  BY DEF EngineTypeOK, Fractions
<1>2. CASE ~ Live
  <2>1. price * qty[1] \in Nat /\ 1 * qty[2] <= price * qty[1]
    <3>1. qty[2] * 1 <= qty[2] * MinNotional
      BY <1>1, EngineAssumption, ProductMonotone
    <3>2. qty[2] * MinNotional = MinNotional * qty[2] /\ price * qty[1] = qty[1] * price
      BY <1>1, EngineAssumption
    <3>3. qty[2] * MinNotional \in Nat /\ price * qty[1] \in Nat
      BY <1>1, EngineAssumption, ProductType
    <3> QED
      BY <1>1, <3>1, <3>2, <3>3
  <2>2. PaperCost(price, qty) \in Nat /\ 1 <= PaperCost(price, qty)
    BY <1>1, <2>1, RoundBounds, RoundAtLeast DEF PaperCost
  <2>3. o = [ok |-> qty[1] > 0 /\ price > 0, cost |-> PaperCost(price, qty),
             executed |-> PaperCost(price, qty), throws |-> FALSE, fault |-> FALSE]
    BY <1>2 DEF Outcomes, PaperLeg
  <2>4. qty[1] > 0
    <3> SUFFICES ASSUME qty[1] = 0 PROVE FALSE
      BY <1>1
    <3>1. price * 0 = 0
      OBVIOUS
    <3> QED
      BY <1>1, <2>1, <3>1
  <2>5. (qty[1] > 0 /\ price > 0) = TRUE
    BY <2>4
  <2>6. o.ok = TRUE
    BY <2>3, <2>5, Zenon
  <2>7. o.cost = PaperCost(price, qty) /\ o.executed = PaperCost(price, qty) /\ ~ o.throws
    BY <2>3
  <2> QED
    BY <2>2, <2>6, <2>7
<1>3. CASE Live
  <2> DEFINE sendQty == FloorToStep(qty, LotSize[v])
             cost == sendQty * price
  <2>1. LotSize[v] \in Nat \ {0}
    BY EngineAssumption
  <2>2. sendQty \in Nat
    BY <1>1, <2>1, FloorToStepBounds
  <2>3. \/ o = Unfilled
        \/ \E n \in 1 .. MaxAttempts :
             /\ sendQty # 0
             /\ o = [ok |-> TRUE, cost |-> cost, executed |-> n * cost,
                     throws |-> FALSE, fault |-> ~ TRUE \/ n # 1]
        \/ \E n \in 1 .. MaxAttempts :
             o = [ok |-> FALSE, cost |-> 0, executed |-> n * cost,
                  throws |-> FALSE, fault |-> ~ FALSE \/ n # 1]
        \/ \E n \in 0 .. MaxAttempts - 1 :
             o = [ok |-> FALSE, cost |-> 0, executed |-> n * cost,
                  throws |-> TRUE, fault |-> TRUE]
    BY <1>3 DEF Outcomes, LiveLeg
  <2>4. PICK n \in 1 .. MaxAttempts :
          /\ sendQty # 0
          /\ o = [ok |-> TRUE, cost |-> cost, executed |-> n * cost,
                  throws |-> FALSE, fault |-> ~ TRUE \/ n # 1]
    <3> HIDE DEF cost, sendQty
    <3>1. CASE o = Unfilled
      BY <3>1 DEF Unfilled
    <3>2. CASE \E n \in 1 .. MaxAttempts :
                 o = [ok |-> FALSE, cost |-> 0, executed |-> n * cost,
                      throws |-> FALSE, fault |-> ~ FALSE \/ n # 1]
      <4>1. PICK n \in 1 .. MaxAttempts :
              o = [ok |-> FALSE, cost |-> 0, executed |-> n * cost,
                   throws |-> FALSE, fault |-> ~ FALSE \/ n # 1]
        BY <3>2
      <4>2. (~ FALSE \/ n # 1) = TRUE
        OBVIOUS
      <4>3. o = [ok |-> FALSE, cost |-> 0, executed |-> n * cost,
                 throws |-> FALSE, fault |-> TRUE]
        BY <4>1, <4>2
      <4> QED
        BY <4>3
    <3>3. CASE \E n \in 0 .. MaxAttempts - 1 :
                 o = [ok |-> FALSE, cost |-> 0, executed |-> n * cost,
                      throws |-> TRUE, fault |-> TRUE]
      BY <3>3
    <3> QED
      BY <2>3, <3>1, <3>2, <3>3
  <2>5. cost \in Nat /\ cost > 0
    BY <2>2, <2>4, ProductType
  <2> HIDE DEF cost, sendQty
  <2>6. n = 1 /\ o.ok /\ o.cost = cost /\ o.executed = n * cost /\ ~ o.throws
    BY <2>4
  <2> QED
    BY <2>5, <2>6
<1> QED
  BY <1>2, <1>3

\* The two legs, executed one after the other, are what Settle records at once.
LEMMA LegsMakeThePair ==
  ASSUME NEW P \in Ledgers(Int), NEW s \in SymbolSet, NEW buyer \in Venues,
         NEW seller \in Venues, NEW cost \in Int, NEW proceeds \in Int
  PROVE  [[P EXCEPT ![s][buyer] = @ + cost] EXCEPT ![s][seller] = @ - proceeds]
           = [P EXCEPT ![s] = AfterPair(P[s], buyer, seller, cost, proceeds)]
BY DEF Ledgers, AfterPair

\* No fault so far means that this leg was none, either.
LEMMA NoFault ==
  ASSUME EngineTypeOK, NEW v, NEW o, Count(o, v), faults' = 0
  PROVE  faults = 0 /\ ~ o.fault
BY EngineAssumption DEF Count, EngineTypeOK

LEMMA BuyLegIsRecorded == EngineInv /\ ExposureInv /\ BuyLeg => ExposureInv'
<1> SUFFICES ASSUME EngineInv, ExposureInv, BuyLeg, faults' = 0 PROVE ExposureInv'
  BY DEF ExposureInv
<1>1. PICK o \in Outcomes(found.askVenue, found.ask) :
        /\ Count(o, found.askVenue)
        /\ exposure' = [exposure EXCEPT ![symbol][found.askVenue] = @ + o.executed]
        /\ \/ o.throws /\ EndCheck
           \/ /\ ~ o.throws
              /\ buyFill' = Fill(o)
              /\ pc' = "sellLeg"
              /\ UNCHANGED <<turn, found, qty, sellFill>>
  BY DEF BuyLeg
<1>2. pc = "buyLeg" /\ EngineTypeOK /\ OrderInv /\ Ordering /\ UNCHANGED positions
  BY DEF BuyLeg, EngineInv, Ordering
<1>3. faults = 0 /\ ~ o.fault /\ exposure = positions
  BY <1>1, <1>2, NoFault DEF ExposureInv
<1>4. o.ok /\ o.cost > 0 /\ o.executed = o.cost /\ ~ o.throws
  <2>1. /\ found.askVenue \in Venues /\ found.ask \in Nat /\ found.ask > 0
        /\ qty[1] * found.ask > MinNotional * qty[2]
    BY <1>2, FoundTypes DEF OrderInv
  <2> QED
    BY <1>2, <1>3, <2>1, UnfaultedOutcome
<1>5. /\ buyFill'.ok /\ buyFill'.cost = o.cost /\ pc' = "sellLeg"
      /\ symbol' = symbol /\ found' = found
  BY <1>1, <1>4 DEF Fill, symbol
<1>6. exposure' = BuyRecorded'
  BY <1>1, <1>2, <1>3, <1>4, <1>5 DEF BuyRecorded
<1> QED
  BY <1>4, <1>5, <1>6 DEF ExposureInv

LEMMA SellLegIsRecorded == EngineInv /\ ExposureInv /\ SellLeg => ExposureInv'
<1> SUFFICES ASSUME EngineInv, ExposureInv, SellLeg, faults' = 0 PROVE ExposureInv'
  BY DEF ExposureInv
<1>1. PICK o \in Outcomes(found.bidVenue, found.bid) :
        /\ Count(o, found.bidVenue)
        /\ exposure' = [exposure EXCEPT ![symbol][found.bidVenue] = @ - o.executed]
        /\ \/ o.throws /\ EndCheck
           \/ /\ ~ o.throws
              /\ sellFill' = Fill(o)
              /\ pc' = "settle"
              /\ UNCHANGED <<turn, found, qty, buyFill>>
  BY DEF SellLeg
<1>2. pc = "sellLeg" /\ EngineTypeOK /\ OrderInv /\ Ordering /\ UNCHANGED positions
  BY DEF SellLeg, EngineInv, Ordering
<1>3. /\ faults = 0 /\ ~ o.fault /\ buyFill.ok /\ buyFill.cost > 0
      /\ exposure = BuyRecorded
  BY <1>1, <1>2, NoFault DEF ExposureInv
<1>4. /\ found.askVenue \in Venues /\ found.bidVenue \in Venues /\ symbol \in SymbolSet
      /\ found.bid \in Nat /\ found.ask \in Nat /\ found.ask < found.bid
      /\ qty[1] * found.ask > MinNotional * qty[2]
      /\ qty[1] \in Nat /\ qty[2] \in Nat
  BY <1>2, FoundTypes DEF OrderInv, EngineTypeOK, Fractions
<1>5. o.ok /\ o.cost > 0 /\ o.executed = o.cost /\ ~ o.throws
  <2>1. qty[1] * found.ask <= qty[1] * found.bid
    BY <1>4, ProductMonotone
  <2>2. /\ qty[1] * found.ask \in Nat /\ qty[1] * found.bid \in Nat
        /\ MinNotional * qty[2] \in Nat
    BY <1>4, EngineAssumption, ProductType
  <2>3. qty[1] * found.bid > MinNotional * qty[2]
    BY <1>4, <2>1, <2>2
  <2> QED
    BY <1>2, <1>3, <1>4, <2>3, UnfaultedOutcome
<1>6. /\ sellFill'.ok /\ sellFill'.cost = o.cost /\ pc' = "settle"
      /\ symbol' = symbol /\ found' = found /\ buyFill' = buyFill
  BY <1>1, <1>5 DEF Fill, symbol
<1>7. o.cost \in Int /\ buyFill.cost \in Int /\ positions \in Ledgers(Int)
  BY <1>2, LegTypes DEF EngineTypeOK, Fills
<1>8. exposure' = [BuyRecorded EXCEPT ![symbol][found.bidVenue] = @ - o.cost]
  BY <1>1, <1>3, <1>5
<1>9. exposure' = Recorded'
  <2>1. exposure' = [positions EXCEPT ![symbol] =
                       AfterPair(positions[symbol], found.askVenue, found.bidVenue,
                                 buyFill.cost, o.cost)]
    <3>1. exposure' = [[positions EXCEPT ![symbol][found.askVenue] = @ + buyFill.cost]
                         EXCEPT ![symbol][found.bidVenue] = @ - o.cost]
      BY <1>8 DEF BuyRecorded
    <3>2. [[positions EXCEPT ![symbol][found.askVenue] = @ + buyFill.cost]
             EXCEPT ![symbol][found.bidVenue] = @ - o.cost]
            = [positions EXCEPT ![symbol] =
                 AfterPair(positions[symbol], found.askVenue, found.bidVenue,
                           buyFill.cost, o.cost)]
      BY <1>4, <1>7 DEF Ledgers, AfterPair
    <3> QED
      BY <3>1, <3>2, Zenon
  <2> QED
    BY <1>2, <1>6, <2>1 DEF Recorded
<1>10. BothFilled'
  BY <1>3, <1>5, <1>6 DEF BothFilled
<1> QED
  BY <1>6, <1>9, <1>10 DEF ExposureInv

LEMMA ExposureInvariance == EngineSpec => []ExposureInv
<1>1. Init => ExposureInv
  BY DEF Init, ScanInit, ExposureInv
<1>2. EngineInv /\ ExposureInv /\ [EngineNext]_vars => ExposureInv'
  <2> SUFFICES ASSUME EngineInv, ExposureInv, [EngineNext]_vars PROVE ExposureInv'
    OBVIOUS
  <2>1. ASSUME NEW s \in SymbolSet, NEW v \in Venues, FeedMoves(s, v), UNCHANGED orderVars
        PROVE  ExposureInv'
    BY <2>1 DEF FeedMoves, orderVars, ExposureInv, BuyRecorded, BothFilled, Recorded, symbol
  <2>2. CASE Scan /\ UNCHANGED orderVars
    <3>1. pc \notin {"sellLeg", "settle"} /\ pc' \notin {"sellLeg", "settle"}
      BY <2>2, ScanType
      DEF EngineInv, EngineTypeOK, ScanSteps, Scan, BeginCheck, ReadGuardOperand, GuardAsk,
          GuardBid, CompareBid, TakeBid, TakeBidQty, CompareAsk, TakeAsk, TakeAskQty
    <3> QED
      BY <2>2, <3>1 DEF ExposureInv, orderVars
  <2>3. CASE SendOrders \/ PassOver
    BY <2>3 DEF SendOrders, PassOver, EndCheck, NextSymbol, ExposureInv
  <2>4. CASE Settle
    BY <2>4 DEF Settle, EndCheck, NextSymbol, ExposureInv
  <2>5. CASE UNCHANGED vars
    BY <2>5 DEF vars, ExposureInv, BuyRecorded, BothFilled, Recorded, symbol
  <2> QED
    BY <2>1, <2>2, <2>3, <2>4, <2>5, BuyLegIsRecorded, SellLegIsRecorded
    DEF EngineNext, EngineStep
<1> QED
  BY <1>1, <1>2, EngineInvariance, PTL DEF EngineSpec

\* As long as every leg has ended as exactly one order, the positions the engine
\* believes in between two checks are what was really executed: for venues
\* whose lots differ, and although costs are rounded.
THEOREM RecordsAreExposure == EngineSpec => []RecordIsExposure
<1>1. ExposureInv => RecordIsExposure
  BY DEF ExposureInv, RecordIsExposure
<1> QED
  BY <1>1, ExposureInvariance, PTL

------------------------------------------------------------------------------
(* A pair of legs never loses.                                             *)

\* The sizes of both legs are the same: with executors on paper, or with the
\* same lots everywhere.
SameSizes == Live => \A v, w \in Venues : LotSize[v] = LotSize[w]

\* What an executor reports for a leg it calls ok.
ReportedCost(v, price) ==
  IF Live THEN FloorToStep(qty, LotSize[v]) * price ELSE PaperCost(price, qty)

CostInv ==
  /\ pc \in {"sellLeg", "settle"} /\ buyFill.ok =>
       buyFill.cost = ReportedCost(found.askVenue, found.ask)
  /\ pc = "settle" /\ sellFill.ok =>
       sellFill.cost = ReportedCost(found.bidVenue, found.bid)

LEMMA OkCost ==
  ASSUME NEW v, NEW price, NEW o \in Outcomes(v, price), o.ok
  PROVE  o.cost = ReportedCost(v, price)
<1>1. CASE ~ Live
  BY <1>1 DEF Outcomes, PaperLeg, ReportedCost
<1>2. CASE Live
  <2> DEFINE cost == FloorToStep(qty, LotSize[v]) * price
  <2>1. \/ o = Unfilled
        \/ \E ok \in BOOLEAN, n \in 1 .. MaxAttempts :
             o = [ok |-> ok, cost |-> IF ok THEN cost ELSE 0, executed |-> n * cost,
                  throws |-> FALSE, fault |-> ~ ok \/ n # 1]
        \/ \E n \in 0 .. MaxAttempts - 1 :
             o = [ok |-> FALSE, cost |-> 0, executed |-> n * cost,
                  throws |-> TRUE, fault |-> TRUE]
    BY <1>2, Zenon DEF Outcomes, LiveLeg
  <2>2. ReportedCost(v, price) = cost
    BY <1>2 DEF ReportedCost
  <2> HIDE DEF cost
  <2> QED
    BY <2>1, <2>2 DEF Unfilled
<1> QED
  BY <1>1, <1>2

LEMMA CostInvariance == EngineSpec => []CostInv
<1>1. Init => CostInv
  BY DEF Init, ScanInit, CostInv
<1>2. EngineInv /\ CostInv /\ [EngineNext]_vars => CostInv'
  <2> SUFFICES ASSUME EngineInv, CostInv, [EngineNext]_vars PROVE CostInv'
    OBVIOUS
  <2>1. ASSUME NEW s \in SymbolSet, NEW v \in Venues, FeedMoves(s, v), UNCHANGED orderVars
        PROVE  CostInv'
    BY <2>1 DEF FeedMoves, orderVars, CostInv, ReportedCost
  <2>2. CASE Scan /\ UNCHANGED orderVars
    <3>1. pc' \in ScanSteps \cup {"scanned"}
      BY <2>2, ScanType DEF EngineInv, EngineTypeOK
    <3> QED
      BY <3>1 DEF CostInv, ScanSteps
  <2>3. CASE SendOrders \/ PassOver \/ Settle
    BY <2>3 DEF SendOrders, PassOver, Settle, EndCheck, NextSymbol, CostInv
  <2>4. CASE BuyLeg
    <3>1. CASE EndCheck
      BY <3>1 DEF EndCheck, NextSymbol, CostInv
    <3>2. CASE ~ EndCheck
      <4>1. PICK o \in Outcomes(found.askVenue, found.ask) :
              /\ buyFill' = Fill(o) /\ pc' = "sellLeg"
              /\ UNCHANGED <<turn, found, qty, sellFill>>
        BY <2>4, <3>2 DEF BuyLeg
      <4>2. buyFill'.ok => buyFill'.cost = ReportedCost(found.askVenue, found.ask)
        BY <4>1, OkCost DEF Fill
      <4> QED
        BY <4>1, <4>2 DEF CostInv, ReportedCost
    <3> QED
      BY <3>1, <3>2
  <2>5. CASE SellLeg
    <3>1. CASE EndCheck
      BY <3>1 DEF EndCheck, NextSymbol, CostInv
    <3>2. CASE ~ EndCheck
      <4>1. PICK o \in Outcomes(found.bidVenue, found.bid) :
              /\ sellFill' = Fill(o) /\ pc' = "settle"
              /\ UNCHANGED <<turn, found, qty, buyFill>>
        BY <2>5, <3>2 DEF SellLeg
      <4>2. sellFill'.ok => sellFill'.cost = ReportedCost(found.bidVenue, found.bid)
        BY <4>1, OkCost DEF Fill
      <4>3. pc = "sellLeg"
        BY <2>5 DEF SellLeg
      <4> QED
        BY <4>1, <4>2, <4>3 DEF CostInv, ReportedCost
    <3> QED
      BY <3>1, <3>2
  <2>6. CASE UNCHANGED vars
    BY <2>6 DEF vars, CostInv, ReportedCost
  <2> QED
    BY <2>1, <2>2, <2>3, <2>4, <2>5, <2>6 DEF EngineNext, EngineStep
<1> QED
  BY <1>1, <1>2, EngineInvariance, PTL DEF EngineSpec

\* The sale brings in at least what the purchase cost, rounded or cut to lots.
LEMMA SaleIsDearer ==
  ASSUME SameSizes, EngineInv, CostInv, pc = "settle", BothFilled
  PROVE  buyFill.cost <= sellFill.cost
<1>1. /\ found.askVenue \in Venues /\ found.bidVenue \in Venues
      /\ found.ask \in Nat /\ found.bid \in Nat /\ found.ask < found.bid
      /\ qty[1] \in Nat /\ qty[2] \in Nat \ {0} /\ qty \in Fractions
  BY FoundTypes DEF EngineInv, OrderInv, Ordering, EngineTypeOK, Fractions
<1>2. /\ buyFill.cost = ReportedCost(found.askVenue, found.ask)
      /\ sellFill.cost = ReportedCost(found.bidVenue, found.bid)
  BY DEF CostInv, BothFilled
<1>3. CASE ~ Live
  <2>1. qty[1] * found.ask <= qty[1] * found.bid
    BY <1>1, ProductMonotone
  <2>2. /\ found.ask * qty[1] \in Nat /\ found.bid * qty[1] \in Nat
        /\ found.ask * qty[1] = qty[1] * found.ask
        /\ found.bid * qty[1] = qty[1] * found.bid
    BY <1>1, ProductType
  <2>3. found.ask * qty[1] <= found.bid * qty[1]
    BY <2>1, <2>2
  <2>4. PaperCost(found.ask, qty) <= PaperCost(found.bid, qty)
    BY <1>1, <2>2, <2>3, RoundMonotone DEF PaperCost
  <2> QED
    BY <1>2, <1>3, <2>4 DEF ReportedCost
<1>4. CASE Live
  <2> DEFINE f == FloorToStep(qty, LotSize[found.askVenue])
  <2>1. f \in Nat
    BY <1>1, FloorToStepBounds, EngineAssumption
  <2>2. LotSize[found.bidVenue] = LotSize[found.askVenue]
    BY <1>1, <1>4 DEF SameSizes
  <2>3. f * found.ask <= f * found.bid
    <3> HIDE DEF f
    <3> QED
      BY <1>1, <2>1, ProductMonotone
  <2> QED
    BY <1>2, <1>4, <2>2, <2>3 DEF ReportedCost
<1> QED
  BY <1>3, <1>4

\* Only Settle touches the positions, and only with a pair.
LEMMA OnlyPairsAreRecorded ==
  ASSUME EngineInv, [EngineNext]_vars, positions' # positions
  PROVE  Settle /\ BothFilled
BY DEF EngineNext, EngineStep, vars, orderVars, SendOrders, PassOver, BuyLeg, SellLeg, Settle

\* What a symbol is worth in the books, over all venues, never grows - on
\* paper, and with live executors whose venues have the same lots.  With
\* different lots it can grow: the sale can be cut further than the purchase.
THEOREM NetPositionsNeverGrow ==
  ASSUME SameSizes, IsFiniteSet(Venues)
  PROVE  EngineSpec => NetPositionNeverGrows
<1>1. ASSUME EngineInv, CostInv, [EngineNext]_vars, positions' # positions,
             NEW s \in SymbolSet
      PROVE  NetPosition(s)' <= NetPosition(s)
  <2>1. /\ Settle /\ BothFilled /\ pc = "settle"
        /\ symbol \in SymbolSet /\ found.askVenue \in Venues /\ found.bidVenue \in Venues
        /\ positions' = Recorded /\ positions \in Ledgers(Int)
    BY <1>1, OnlyPairsAreRecorded, SettleFits DEF EngineInv, EngineTypeOK, Settle
  <2>2. /\ buyFill.cost \in Int /\ sellFill.cost \in Int
        /\ buyFill.cost <= sellFill.cost
    <3>1. buyFill.cost <= sellFill.cost
      BY <1>1, <2>1, SaleIsDearer
    <3> QED
      BY <1>1, <3>1 DEF EngineInv, EngineTypeOK, Fills
  <2>3. NetPosition(s) = Total(positions[s]) /\ NetPosition(s)' = Total(positions'[s])
    BY DEF NetPosition, Total, FoldFunction, FoldFunctionOnSet, MapThenFoldSet
  <2>4. CASE s # symbol
    <3>1. positions'[s] = positions[s]
      BY <2>1, <2>4 DEF Recorded, Ledgers
    <3>2. Total(positions[s]) \in Int
      BY <1>1, <2>1, TotalType DEF Ledgers
    <3> QED
      BY <2>3, <3>1, <3>2
  <2>5. CASE s = symbol
    <3> DEFINE P == positions[symbol]
               Q == AfterPair(P, found.askVenue, found.bidVenue, buyFill.cost, sellFill.cost)
    <3>1. positions'[s] = Q /\ P \in [Venues -> Int] /\ Q \in [Venues -> Int]
      BY <2>1, <2>2, <2>5 DEF Recorded, Ledgers, AfterPair
    <3>2. \A v \in Venues : Q[v] = P[v] + (IF v = found.askVenue THEN buyFill.cost ELSE 0)
                                        - (IF v = found.bidVenue THEN sellFill.cost ELSE 0)
      BY <2>1, <2>2, <3>1 DEF AfterPair
    <3> HIDE DEF P, Q
    <3>3. Total(P) \in Int /\ Total(Q) = Total(P) + buyFill.cost - sellFill.cost
      <4> DEFINE buyer == found.askVenue
                 seller == found.bidVenue
                 cost == buyFill.cost
                 proceeds == sellFill.cost
      <4>1. /\ buyer \in Venues /\ seller \in Venues /\ cost \in Int /\ proceeds \in Int
            /\ MovedByPair(P, Q, Venues, buyer, seller, cost, proceeds)
        BY <2>1, <2>2, <3>2 DEF MovedByPair
      <4> HIDE DEF buyer, seller, cost, proceeds
      <4>2. TotalMoves(P, Q, cost, proceeds)
        BY <3>1, <4>1, TotalAfterPair, Zenon
      <4> QED
        BY <4>2 DEF TotalMoves, cost, proceeds
    <3> QED
      BY <2>2, <2>3, <2>5, <3>1, <3>3 DEF P
  <2> QED
    BY <2>4, <2>5
<1>2. EngineInv /\ CostInv /\ [EngineNext]_vars =>
        [positions' # positions =>
           \A s \in SymbolSet : NetPosition(s)' <= NetPosition(s)]_vars
  BY <1>1
<1> QED
  BY <1>2, EngineInvariance, CostInvariance, PTL DEF EngineSpec, NetPositionNeverGrows
==============================================================================
