------------------------------ MODULE OrderBook ------------------------------
(***************************************************************************)
(* The data structure of src/core/OrderBook.cpp: two price-ordered maps,   *)
(* bids_ and asks_, behind one mutex.  Every public method takes the       *)
(* mutex, so each is one atomic operator here.                             *)
(*                                                                         *)
(* A map from price to quantity is a total function on Prices in which     *)
(* quantity 0 means "no such level": the code never stores a zero          *)
(* quantity, it erases the level instead.                                  *)
(***************************************************************************)
EXTENDS Quotes, FiniteSetsExt

Prices == 1 .. MaxPrice

\* One side of the book, and the whole book.
Sides == [Prices -> Quantities \cup {0}]
Books == [bids : Sides, asks : Sides]

EmptySide == [p \in Prices |-> 0]
EmptyBook == [bids |-> EmptySide, asks |-> EmptySide]

Levels(side) == {p \in Prices : side[p] # 0}

\* Slips the properties must notice: a quantity added to the level instead of
\* replacing it, an equal price left standing on the other side, a side
\* forgotten by clear(), the wrong side tested for emptiness by a getter.
AddToBid(b, price, qty) ==
  [bids |-> [b.bids EXCEPT ![price] = @ + qty],
   asks |-> [p \in Prices |-> IF p <= price THEN 0 ELSE b.asks[p]]]

UpdateAskKeepingEqual(b, price, qty) ==
  [bids |-> [p \in Prices |-> IF p > price THEN 0 ELSE b.bids[p]],
   asks |-> [b.asks EXCEPT ![price] = qty]]

ClearBids(b) == [b EXCEPT !.bids = EmptySide]

BidQtyIfAsks(b) ==
  IF Levels(b.asks) = {} \/ Levels(b.bids) = {} THEN 0 ELSE b.bids[Max(Levels(b.bids))]

\* Quantity 0 removes the level.  Either way every ask at or below the
\* updated bid price is then erased.
UpdateBid(b, price, qty) ==
  [bids |-> [b.bids EXCEPT ![price] = qty],
   asks |-> [p \in Prices |-> IF p <= price THEN 0 ELSE b.asks[p]]]

UpdateAsk(b, price, qty) ==
  [bids |-> [p \in Prices |-> IF p >= price THEN 0 ELSE b.bids[p]],
   asks |-> [b.asks EXCEPT ![price] = qty]]

Clear(b) == EmptyBook

\* The four getters: 0 when the side is empty.
TopBidPrice(b) == IF Levels(b.bids) = {} THEN 0 ELSE Max(Levels(b.bids))
TopAskPrice(b) == IF Levels(b.asks) = {} THEN 0 ELSE Min(Levels(b.asks))
TopBidQty(b) == IF Levels(b.bids) = {} THEN 0 ELSE b.bids[TopBidPrice(b)]
TopAskQty(b) == IF Levels(b.asks) = {} THEN 0 ELSE b.asks[TopAskPrice(b)]

\* What all four getters return together when nothing interleaves.
Top(b) == [bid |-> TopBidPrice(b), bidQty |-> TopBidQty(b),
           ask |-> TopAskPrice(b), askQty |-> TopAskQty(b)]

\* Every bid is below every ask.
NotCrossed(b) ==
  \A bid \in Levels(b.bids), ask \in Levels(b.asks) : bid < ask

\* The books an exchange can publish.
UncrossedBooks == {b \in Books : NotCrossed(b)}
==============================================================================
