--------------------------- MODULE BookFeed_proofs ---------------------------
(***************************************************************************)
(* The safety properties of BookFeed, for every number of prices, every    *)
(* set of quantities and any number of abandoned frames.                   *)
(***************************************************************************)
EXTENDS BookFeed, OrderBook_proofs

\* x is a level of y with the same quantity, or no level at all.
AtMost(x, y) == x = 0 \/ x = y

\* Between two frames.
WaitInv ==
  pc = "wait" /\ ~ lossy =>
    /\ published = applied
    /\ book.asks = applied.asks
    /\ \A p \in Prices : AtMost(book.bids[p], applied.bids[p])
    /\ lastKind = "snapshot" => book.bids = applied.bids

\* A snapshot has been received, and the book is about to be cleared.
ClearInv ==
  pc = "clear" =>
    /\ kind = "snapshot"
    /\ bidsLeft = Levels(published.bids)
    /\ asksLeft = Levels(published.asks)

\* While a snapshot is applied: exactly the levels applied so far are there.
ReloadInv ==
  pc = "apply" /\ kind = "snapshot" =>
    /\ bidsLeft \subseteq Levels(published.bids)
    /\ asksLeft \subseteq Levels(published.asks)
    /\ \A p \in Prices :
         /\ book.bids[p] = IF p \in bidsLeft THEN 0 ELSE published.bids[p]
         /\ book.asks[p] = IF p \in asksLeft THEN 0 ELSE published.asks[p]

\* While a delta is applied: a level not updated yet is the old one or gone; a
\* level that needs no update any more is the new one - or, a bid, gone.
UpdateInv ==
  pc = "apply" /\ kind = "delta" /\ ~ lossy =>
    /\ bidsLeft \subseteq {p \in Prices : applied.bids[p] # published.bids[p]}
    /\ bidsLeft # {} => asksLeft = {p \in Prices : applied.asks[p] # published.asks[p]}
    /\ \A p \in Prices :
         /\ IF p \in bidsLeft THEN AtMost(book.bids[p], applied.bids[p])
                              ELSE AtMost(book.bids[p], published.bids[p])
         /\ IF p \in asksLeft THEN AtMost(book.asks[p], applied.asks[p])
                              ELSE book.asks[p] = published.asks[p]

\* No other thread ever sees the local book crossed, not even within a frame.
Uncrossed == NotCrossed(book)

FrameInv == WaitInv /\ ClearInv /\ ReloadInv /\ UpdateInv

Inv == TypeOK /\ Uncrossed /\ FrameInv

------------------------------------------------------------------------------
LEMMA InitInv == Init => Inv
<1> SUFFICES ASSUME Init PROVE Inv
  OBVIOUS
<1>1. EmptyBook \in UncrossedBooks
  BY EmptyBookIsFine DEF UncrossedBooks
<1>2. TypeOK
  <2>1. 0 \in 0 .. MaxMalformed
    BY FeedAssumption
  <2> QED
    BY <1>1, <2>1, EmptyBookIsFine DEF Init, TypeOK
<1>3. Uncrossed
  BY EmptyBookIsFine DEF Init, Uncrossed
<1>4. FrameInv
  BY DEF Init, FrameInv, WaitInv, ClearInv, ReloadInv, UpdateInv, AtMost
<1> QED
  BY <1>2, <1>3, <1>4 DEF Inv

LEMMA TypeStep == TypeOK /\ [Next]_vars => TypeOK'
<1> USE FeedAssumption DEF TypeOK
<1> SUFFICES ASSUME TypeOK, [Next]_vars PROVE TypeOK'
  OBVIOUS
<1>1. CASE Open
  BY <1>1 DEF Open
<1>2. CASE Close
  BY <1>2 DEF Close
<1>3. ASSUME NEW b \in UncrossedBooks, ReceiveSnapshot(b) PROVE TypeOK'
  BY <1>3 DEF ReceiveSnapshot, Levels
<1>4. ASSUME NEW b \in UncrossedBooks, ReceiveDelta(b) PROVE TypeOK'
  BY <1>4 DEF ReceiveDelta
<1>5. CASE ClearBook
  BY <1>5, EmptyBookIsFine DEF ClearBook, Clear
<1>6. ASSUME NEW p \in Prices, ApplyBid(p) PROVE TypeOK'
  <2>1. published.bids[p] \in Quantities \cup {0}
    BY DEF UncrossedBooks, Books, Sides
  <2> QED
    BY <1>6, <2>1, UpdateTypes DEF ApplyBid
<1>7. ASSUME NEW p \in Prices, ApplyAsk(p) PROVE TypeOK'
  <2>1. published.asks[p] \in Quantities \cup {0}
    BY DEF UncrossedBooks, Books, Sides
  <2> QED
    BY <1>7, <2>1, UpdateTypes DEF ApplyAsk
<1>8. CASE EndFrame
  BY <1>8 DEF EndFrame
<1>9. CASE AbandonFrame
  BY <1>9 DEF AbandonFrame
<1>10. CASE UNCHANGED vars
  BY <1>10 DEF vars
<1> QED
  BY <1>1, <1>2, <1>3, <1>4, <1>5, <1>6, <1>7, <1>8, <1>9, <1>10 DEF Next

LEMMA UncrossedStep == TypeOK /\ Uncrossed /\ [Next]_vars => Uncrossed'
<1> USE DEF Uncrossed
<1> SUFFICES ASSUME TypeOK, Uncrossed, [Next]_vars PROVE Uncrossed'
  OBVIOUS
<1>1. CASE ClearBook
  BY <1>1, EmptyBookIsFine DEF ClearBook, Clear
<1>2. ASSUME NEW p \in Prices, ApplyBid(p) PROVE Uncrossed'
  <2>1. published.bids[p] \in Quantities \cup {0}
    BY DEF TypeOK, UncrossedBooks, Books, Sides
  <2> QED
    BY <1>2, <2>1, UpdateBidUncrosses DEF ApplyBid, TypeOK
<1>3. ASSUME NEW p \in Prices, ApplyAsk(p) PROVE Uncrossed'
  <2>1. published.asks[p] \in Quantities \cup {0}
    BY DEF TypeOK, UncrossedBooks, Books, Sides
  <2> QED
    BY <1>3, <2>1, UpdateAskUncrosses DEF ApplyAsk, TypeOK
<1>4. ASSUME UNCHANGED book PROVE Uncrossed'
  BY <1>4
<1> QED
  BY <1>1, <1>2, <1>3, <1>4
  DEF Next, vars, Open, Close, ReceiveSnapshot, ReceiveDelta, EndFrame, AbandonFrame

------------------------------------------------------------------------------
\* A bid of either the old or the new book of the exchange has no unchanged
\* ask at or below it: the erasing loop of updateBid hits changing asks only.
LEMMA OnlyChangingAsksAreErased ==
  ASSUME NEW old \in UncrossedBooks, NEW new \in UncrossedBooks,
         NEW p \in Prices, old.bids[p] # new.bids[p],
         NEW a \in Prices, a <= p, old.asks[a] = new.asks[a]
  PROVE  new.asks[a] = 0
<1>1. p \in Levels(old.bids) \/ p \in Levels(new.bids)
  BY DEF Levels
<1>2. ASSUME NEW b \in UncrossedBooks, p \in Levels(b.bids) PROVE b.asks[a] = 0
  <2>1. NotCrossed(b) /\ a \notin Levels(b.asks)
    BY <1>2 DEF UncrossedBooks, NotCrossed, Prices, QuoteAssumption
  <2> QED
    BY <2>1 DEF Levels
<1> QED
  BY <1>1, <1>2

\* Within one uncrossed book neither loop erases anything.
LEMMA NothingToErase ==
  ASSUME NEW b \in UncrossedBooks, NEW p \in Prices, NEW r \in Prices
  PROVE  /\ p \in Levels(b.bids) /\ r <= p => b.asks[r] = 0
         /\ p \in Levels(b.asks) /\ r >= p => b.bids[r] = 0
BY DEF UncrossedBooks, NotCrossed, Prices, Levels

LEMMA ReloadBid ==
  ASSUME TypeOK, ReloadInv, kind = "snapshot", NEW p \in Prices, ApplyBid(p)
  PROVE  ReloadInv'
<1>1. p \in Levels(published.bids)
  BY DEF ReloadInv, ApplyBid
<1>2. \A r \in Prices : r <= p => published.asks[r] = 0
  BY <1>1, NothingToErase DEF TypeOK
<1>3. /\ book'.bids = [book.bids EXCEPT ![p] = published.bids[p]]
      /\ book'.asks = [r \in Prices |-> IF r <= p THEN 0 ELSE book.asks[r]]
  BY DEF ApplyBid, UpdateBid
<1>4. book.bids \in [Prices -> Quantities \cup {0}]
  BY DEF TypeOK, Books, Sides
<1> QED
  BY <1>2, <1>3, <1>4 DEF ReloadInv, ApplyBid

LEMMA ReloadAsk ==
  ASSUME TypeOK, ReloadInv, kind = "snapshot", NEW p \in Prices, ApplyAsk(p)
  PROVE  ReloadInv'
<1>1. p \in Levels(published.asks)
  BY DEF ReloadInv, ApplyAsk
<1>2. \A r \in Prices : r >= p => published.bids[r] = 0
  BY <1>1, NothingToErase DEF TypeOK
<1>3. /\ book'.asks = [book.asks EXCEPT ![p] = published.asks[p]]
      /\ book'.bids = [r \in Prices |-> IF r >= p THEN 0 ELSE book.bids[r]]
  BY DEF ApplyAsk, UpdateAsk
<1>4. book.asks \in [Prices -> Quantities \cup {0}]
  BY DEF TypeOK, Books, Sides
<1> QED
  BY <1>2, <1>3, <1>4 DEF ReloadInv, ApplyAsk

LEMMA UpdateWithBid ==
  ASSUME TypeOK, UpdateInv, kind = "delta", ~ lossy, NEW p \in Prices, ApplyBid(p)
  PROVE  UpdateInv'
<1>1. /\ p \in bidsLeft /\ applied.bids[p] # published.bids[p]
      /\ asksLeft = {r \in Prices : applied.asks[r] # published.asks[r]}
  BY DEF UpdateInv, ApplyBid
<1>2. \A r \in Prices : r <= p /\ r \notin asksLeft => published.asks[r] = 0
  BY <1>1, OnlyChangingAsksAreErased DEF TypeOK
<1>3. /\ book'.bids = [book.bids EXCEPT ![p] = published.bids[p]]
      /\ book'.asks = [r \in Prices |-> IF r <= p THEN 0 ELSE book.asks[r]]
  BY DEF ApplyBid, UpdateBid
<1>4. book.bids \in [Prices -> Quantities \cup {0}]
  BY DEF TypeOK, Books, Sides
<1>5. \A r \in Prices : book'.bids[r] = IF r = p THEN published.bids[r] ELSE book.bids[r]
  BY <1>3, <1>4
<1> QED
  BY <1>1, <1>2, <1>3, <1>5 DEF UpdateInv, ApplyBid, AtMost

LEMMA UpdateWithAsk ==
  ASSUME TypeOK, UpdateInv, kind = "delta", ~ lossy, NEW p \in Prices, ApplyAsk(p)
  PROVE  UpdateInv'
<1>1. bidsLeft = {} /\ p \in asksLeft
  BY DEF ApplyAsk
<1>2. /\ book'.asks = [book.asks EXCEPT ![p] = published.asks[p]]
      /\ book'.bids = [r \in Prices |-> IF r >= p THEN 0 ELSE book.bids[r]]
  BY DEF ApplyAsk, UpdateAsk
<1>3. book.asks \in [Prices -> Quantities \cup {0}]
  BY DEF TypeOK, Books, Sides
<1>4. \A r \in Prices : book'.asks[r] = IF r = p THEN published.asks[r] ELSE book.asks[r]
  BY <1>2, <1>3
<1> QED
  BY <1>1, <1>2, <1>4 DEF UpdateInv, ApplyAsk, AtMost

------------------------------------------------------------------------------
LEMMA FrameStep == TypeOK /\ FrameInv /\ [Next]_vars => FrameInv'
<1> SUFFICES ASSUME TypeOK, FrameInv, [Next]_vars PROVE FrameInv'
  OBVIOUS
<1> USE DEF FrameInv
<1>1. CASE Open
  BY <1>1 DEF Open, WaitInv, ClearInv, ReloadInv, UpdateInv
<1>2. CASE Close
  BY <1>2 DEF Close, WaitInv, ClearInv, ReloadInv, UpdateInv
<1>3. ASSUME NEW b \in UncrossedBooks, ReceiveSnapshot(b) PROVE FrameInv'
  BY <1>3 DEF ReceiveSnapshot, WaitInv, ClearInv, ReloadInv, UpdateInv
<1>4. ASSUME NEW b \in UncrossedBooks, ReceiveDelta(b) PROVE FrameInv'
  BY <1>4 DEF ReceiveDelta, WaitInv, ClearInv, ReloadInv, UpdateInv, AtMost
<1>5. CASE ClearBook
  <2>1. ReloadInv'
    BY <1>5 DEF ClearBook, ClearInv, ReloadInv, Clear, EmptyBook, EmptySide, Levels
  <2> QED
    BY <1>5, <2>1 DEF ClearBook, WaitInv, ClearInv, UpdateInv
<1>6. ASSUME NEW p \in Prices, ApplyBid(p) PROVE FrameInv'
  <2>1. WaitInv' /\ ClearInv'
    BY <1>6 DEF ApplyBid, WaitInv, ClearInv
  <2>2. ReloadInv'
    BY <1>6, ReloadBid DEF ReloadInv, ApplyBid
  <2>3. UpdateInv'
    BY <1>6, UpdateWithBid DEF UpdateInv, ApplyBid
  <2> QED
    BY <2>1, <2>2, <2>3
<1>7. ASSUME NEW p \in Prices, ApplyAsk(p) PROVE FrameInv'
  <2>1. WaitInv' /\ ClearInv'
    BY <1>7 DEF ApplyAsk, WaitInv, ClearInv
  <2>2. ReloadInv'
    BY <1>7, ReloadAsk DEF ReloadInv, ApplyAsk
  <2>3. UpdateInv'
    BY <1>7, UpdateWithAsk DEF UpdateInv, ApplyAsk
  <2> QED
    BY <2>1, <2>2, <2>3
<1>8. CASE EndFrame
  <2>1. ClearInv' /\ ReloadInv' /\ UpdateInv'
    BY <1>8 DEF EndFrame, ClearInv, ReloadInv, UpdateInv
  <2>2. book.bids \in [Prices -> Quantities \cup {0}] /\ book.asks \in [Prices -> Quantities \cup {0}]
    BY DEF TypeOK, Books, Sides
  <2>3. published.bids \in [Prices -> Quantities \cup {0}] /\ published.asks \in [Prices -> Quantities \cup {0}]
    BY DEF TypeOK, UncrossedBooks, Books, Sides
  <2>4. CASE kind = "snapshot"
    <3>1. book.bids = published.bids /\ book.asks = published.asks
      BY <1>8, <2>2, <2>3, <2>4 DEF EndFrame, ReloadInv
    <3> QED
      BY <1>8, <2>1, <3>1 DEF EndFrame, WaitInv, AtMost
  <2>5. CASE kind = "delta" /\ lossy
    BY <1>8, <2>1, <2>5 DEF EndFrame, WaitInv
  <2>6. CASE kind = "delta" /\ ~ lossy
    <3>1. book.asks = published.asks
      BY <1>8, <2>2, <2>3, <2>6 DEF EndFrame, UpdateInv
    <3>2. \A p \in Prices : AtMost(book.bids[p], published.bids[p])
      BY <1>8, <2>6 DEF EndFrame, UpdateInv
    <3> QED
      BY <1>8, <2>1, <2>6, <3>1, <3>2 DEF EndFrame, WaitInv
  <2> QED
    BY <2>4, <2>5, <2>6 DEF TypeOK
<1>9. CASE AbandonFrame
  BY <1>9 DEF AbandonFrame, WaitInv, ClearInv, ReloadInv, UpdateInv
<1>10. CASE UNCHANGED vars
  BY <1>10 DEF vars, WaitInv, ClearInv, ReloadInv, UpdateInv
<1> QED
  BY <1>1, <1>2, <1>3, <1>4, <1>5, <1>6, <1>7, <1>8, <1>9, <1>10 DEF Next

LEMMA Invariance == Spec => []Inv
<1>1. Inv /\ [Next]_vars => Inv'
  BY TypeStep, UncrossedStep, FrameStep DEF Inv
<1> QED
  BY InitInv, <1>1, PTL DEF Spec

------------------------------------------------------------------------------
\* Every variable of the feed keeps its type.
THEOREM FeedTypeOK == Spec => []TypeOK
BY Invariance, PTL DEF Inv

\* Between frames, if none was abandoned since the last snapshot, every level
\* of the local book is one the exchange published, with its quantity.
THEOREM FeedHasNoPhantomLevels == Spec => []NoPhantomLevels
<1>1. Inv => NoPhantomLevels
  BY DEF Inv, FrameInv, WaitInv, NoPhantomLevels, Settled, Within, AtMost, Levels
<1> QED
  BY <1>1, Invariance, PTL

\* The ask side of the local book survives deltas unharmed.
THEOREM FeedKeepsAsks == Spec => []AsksAreExact
<1>1. Inv => AsksAreExact
  BY DEF Inv, FrameInv, WaitInv, AsksAreExact, Settled
<1> QED
  BY <1>1, Invariance, PTL

\* A complete snapshot makes the local book the exchange's book.
THEOREM FeedSnapshotIsExact == Spec => []SnapshotIsExact
<1>1. Inv => SnapshotIsExact
  BY DEF Inv, FrameInv, WaitInv, TypeOK, UncrossedBooks, Books, Sides,
         SnapshotIsExact, Settled
<1> QED
  BY <1>1, Invariance, PTL

\* To the engine every feed is a QuoteSource.
THEOREM FeedIsAQuoteSource == Spec => QuotesAreUncrossed
<1>1. Init => Source!Init
  BY DEF Init, Source!Init, Source!NoQuote, Top, TopBidPrice, TopBidQty,
         TopAskPrice, TopAskQty, EmptyBook, EmptySide, Levels
<1>2. Inv' => Source!Move
  <2> SUFFICES ASSUME Inv' PROVE Top(book') \in Quotes
    BY DEF Source!Move, Source!Quotes, Source!AnyQuote, Quotes, AnyQuote
  <2> QED
    BY TopIsAQuote DEF Inv, TypeOK, Uncrossed
<1> QED
  BY <1>1, <1>2, Invariance, PTL DEF Spec, QuotesAreUncrossed, Source!Spec
==============================================================================
