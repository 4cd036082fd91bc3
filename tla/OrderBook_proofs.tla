-------------------------- MODULE OrderBook_proofs ---------------------------
(***************************************************************************)
(* What the operations of an OrderBook preserve, for every number of       *)
(* prices and every set of quantities.                                     *)
(***************************************************************************)
EXTENDS OrderBook, Amounts_proofs

\* An empty book has no two levels that could cross.
LEMMA EmptyBookIsFine == EmptyBook \in Books /\ NotCrossed(EmptyBook)
BY DEF EmptyBook, EmptySide, Books, Sides, NotCrossed, Levels

LEMMA UpdateTypes ==
  ASSUME NEW b \in Books, NEW p \in Prices, NEW q \in Quantities \cup {0}
  PROVE  UpdateBid(b, p, q) \in Books /\ UpdateAsk(b, p, q) \in Books
BY DEF Books, Sides, UpdateBid, UpdateAsk

\* updateBid: whatever the price, the uncrossing loop leaves no ask at or
\* below it.
LEMMA UpdateBidUncrosses ==
  ASSUME NEW b \in Books, NotCrossed(b), NEW p \in Prices, NEW q \in Quantities \cup {0}
  PROVE  NotCrossed(UpdateBid(b, p, q))
<1> DEFINE c == UpdateBid(b, p, q)
<1> SUFFICES ASSUME NEW bid \in Levels(c.bids), NEW ask \in Levels(c.asks)
             PROVE  bid < ask
  BY DEF NotCrossed
<1>1. p < ask /\ ask \in Levels(b.asks)
  BY DEF UpdateBid, Levels, Prices, QuoteAssumption
<1>2. bid = p \/ bid \in Levels(b.bids)
  BY DEF UpdateBid, Levels, Books, Sides
<1> QED
  BY <1>1, <1>2 DEF NotCrossed

LEMMA UpdateAskUncrosses ==
  ASSUME NEW b \in Books, NotCrossed(b), NEW p \in Prices, NEW q \in Quantities \cup {0}
  PROVE  NotCrossed(UpdateAsk(b, p, q))
<1> DEFINE c == UpdateAsk(b, p, q)
<1> SUFFICES ASSUME NEW bid \in Levels(c.bids), NEW ask \in Levels(c.asks)
             PROVE  bid < ask
  BY DEF NotCrossed
<1>1. bid < p /\ bid \in Levels(b.bids)
  BY DEF UpdateAsk, Levels, Prices
<1>2. ask = p \/ ask \in Levels(b.asks)
  BY DEF UpdateAsk, Levels, Books, Sides
<1> QED
  BY <1>1, <1>2 DEF NotCrossed

------------------------------------------------------------------------------
LEMMA GreatestExists ==
  ASSUME NEW N \in Nat, NEW S, S \subseteq 0 .. N, S # {}
  PROVE  \E x \in S : \A y \in S : x >= y
<1> DEFINE T == {N - x : x \in S}
<1>1. T \subseteq Nat
  <2> SUFFICES ASSUME NEW x \in S PROVE N - x \in Nat
    BY Zenon
  <2>1. x \in 0 .. N
    OBVIOUS
  <2> QED
    BY <2>1
<1>2. T # {}
  BY Zenon
<1>3. PICK t \in T : \A u \in T : t <= u
  BY <1>1, <1>2, LeastExists
<1>4. PICK x \in S : t = N - x
  BY Zenon
<1>5. ASSUME NEW y \in S PROVE x >= y
  <2>1. N - y \in T
    BY Zenon
  <2>2. N - x <= N - y
    BY <1>3, <1>4, <2>1, Zenon
  <2>3. x \in 0 .. N /\ y \in 0 .. N
    OBVIOUS
  <2> QED
    BY <2>2, <2>3
<1> QED
  BY <1>5

LEMMA MinOfPrices ==
  ASSUME NEW S, S \subseteq Prices, S # {}
  PROVE  Min(S) \in S /\ \A x \in S : Min(S) <= x
<1>1. S \subseteq Nat
  BY DEF Prices
<1> QED
  BY <1>1, LeastExists DEF Min

LEMMA MaxOfPrices ==
  ASSUME NEW S, S \subseteq Prices, S # {}
  PROVE  Max(S) \in S /\ \A x \in S : Max(S) >= x
<1>1. MaxPrice \in Nat /\ S \subseteq 0 .. MaxPrice
  BY QuoteAssumption DEF Prices
<1> QED
  BY <1>1, GreatestExists DEF Max

\* The getters of an uncrossed book return an uncrossed quote.
LEMMA TopIsAQuote ==
  ASSUME NEW b \in Books, NotCrossed(b)
  PROVE  Top(b) \in Quotes
<1> USE QuoteAssumption
<1> DEFINE B == Levels(b.bids)
           A == Levels(b.asks)
<1>1. B \subseteq Prices /\ A \subseteq Prices
  BY DEF Levels
<1>2. ASSUME B # {}
      PROVE  /\ TopBidPrice(b) \in B
             /\ TopBidQty(b) \in Quantities
  <2>1. TopBidPrice(b) \in B
    BY <1>1, <1>2, MaxOfPrices DEF TopBidPrice
  <2> QED
    BY <1>2, <2>1 DEF TopBidQty, Levels, Books, Sides
<1>3. ASSUME B = {} PROVE TopBidPrice(b) = 0 /\ TopBidQty(b) = 0
  BY <1>3 DEF TopBidPrice, TopBidQty
<1>4. ASSUME A # {}
      PROVE  /\ TopAskPrice(b) \in A
             /\ TopAskQty(b) \in Quantities
  <2>1. TopAskPrice(b) \in A
    BY <1>1, <1>4, MinOfPrices DEF TopAskPrice
  <2> QED
    BY <1>4, <2>1 DEF TopAskQty, Levels, Books, Sides
<1>5. ASSUME A = {} PROVE TopAskPrice(b) = 0 /\ TopAskQty(b) = 0
  BY <1>5 DEF TopAskPrice, TopAskQty
<1>6. Prices = 1 .. MaxPrice /\ Quantities \subseteq Nat \ {0} /\ MaxPrice \in Nat
  BY DEF Prices
<1>7. /\ TopBidPrice(b) \in 0 .. MaxPrice /\ TopBidQty(b) \in Quantities \cup {0}
      /\ TopBidPrice(b) = 0 <=> TopBidQty(b) = 0
  BY <1>1, <1>2, <1>3, <1>6
<1>8. /\ TopAskPrice(b) \in 0 .. MaxPrice /\ TopAskQty(b) \in Quantities \cup {0}
      /\ TopAskPrice(b) = 0 <=> TopAskQty(b) = 0
  BY <1>1, <1>4, <1>5, <1>6
<1>9. TopBidPrice(b) # 0 /\ TopAskPrice(b) # 0 => TopBidPrice(b) < TopAskPrice(b)
  BY <1>2, <1>3, <1>4, <1>5 DEF NotCrossed
<1> QED
  BY <1>7, <1>8, <1>9 DEF Top, Quotes, AnyQuote
==============================================================================
