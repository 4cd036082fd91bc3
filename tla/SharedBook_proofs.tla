-------------------------- MODULE SharedBook_proofs --------------------------
(***************************************************************************)
(* An OrderBook after any sequence of calls: it is never crossed, and what *)
(* it holds is a function of the calls that no later one displaced.        *)
(***************************************************************************)
EXTENDS SharedBook, OrderBook_proofs

Inv == TypeOK /\ NeverCrossed /\ LatestUpdateWins

BidCall(price, qty) == [op |-> "bid", price |-> price, qty |-> qty]
AskCall(price, qty) == [op |-> "ask", price |-> price, qty |-> qty]
ClearCall == [op |-> "clear"]

LEMMA CallTypes ==
  ASSUME NEW price \in Prices, NEW qty \in Quantities \cup {0}
  PROVE  /\ BidCall(price, qty) \in Calls
         /\ AskCall(price, qty) \in Calls
         /\ ClearCall \in Calls
BY DEF BidCall, AskCall, ClearCall, Calls

\* One more call: the others keep their places.
LEMMA OneMoreCall ==
  ASSUME NEW calls \in Seq(Calls), NEW call \in Calls
  PROVE  LET more == Append(calls, call)
             last == Len(calls) + 1
         IN  /\ more \in Seq(Calls) /\ Len(more) = last
             /\ DOMAIN calls = 1 .. Len(calls) /\ DOMAIN more = 1 .. last
             /\ Len(calls) \in Nat
             /\ more[last] = call
             /\ \A i \in 1 .. Len(calls) : more[i] = calls[i]
OBVIOUS

\* Two sequences of calls that leave the same calls standing at a price.
LEMMA SameStanding ==
  ASSUME NEW calls \in Seq(Calls), NEW call \in Calls, NEW p \in Prices
  PROVE  LET more == Append(calls, call)
             last == Len(calls) + 1
         IN  /\ /\ \A i \in 1 .. Len(calls) :
                     StandingBid(more, i, p) <=> StandingBid(calls, i, p)
                /\ ~ StandingBid(more, last, p)
                => StandingBids(more, p) = StandingBids(calls, p)
             /\ /\ \A i \in 1 .. Len(calls) :
                     StandingAsk(more, i, p) <=> StandingAsk(calls, i, p)
                /\ ~ StandingAsk(more, last, p)
                => StandingAsks(more, p) = StandingAsks(calls, p)
<1> DEFINE more == Append(calls, call)
           last == Len(calls) + 1
<1>1. /\ DOMAIN calls = 1 .. Len(calls) /\ DOMAIN more = 1 .. last
      /\ \A i \in 1 .. Len(calls) : more[i] = calls[i]
      /\ \A i \in 1 .. last : i \in 1 .. Len(calls) \/ i = last
      /\ 1 .. Len(calls) \subseteq 1 .. last
  BY OneMoreCall
<1> HIDE DEF more, last
<1>2. ASSUME \A i \in 1 .. Len(calls) : StandingBid(more, i, p) <=> StandingBid(calls, i, p),
             ~ StandingBid(more, last, p)
      PROVE  StandingBids(more, p) = StandingBids(calls, p)
  BY <1>1, <1>2 DEF StandingBids
<1>3. ASSUME \A i \in 1 .. Len(calls) : StandingAsk(more, i, p) <=> StandingAsk(calls, i, p),
             ~ StandingAsk(more, last, p)
      PROVE  StandingAsks(more, p) = StandingAsks(calls, p)
  BY <1>1, <1>3 DEF StandingAsks
<1> QED
  BY <1>2, <1>3 DEF more, last

\* What a later call leaves standing.
LEMMA StillStanding ==
  ASSUME NEW calls \in Seq(Calls), NEW call \in Calls, NEW p \in Prices,
         NEW i \in 1 .. Len(calls)
  PROVE  LET more == Append(calls, call) IN
         /\ StandingBid(more, i, p) <=>
              /\ StandingBid(calls, i, p)
              /\ call.op # "clear"
              /\ call.op = "bid" => call.price # p
              /\ call.op = "ask" => call.price > p
         /\ StandingAsk(more, i, p) <=>
              /\ StandingAsk(calls, i, p)
              /\ call.op # "clear"
              /\ call.op = "ask" => call.price # p
              /\ call.op = "bid" => call.price < p
<1> DEFINE more == Append(calls, call)
           last == Len(calls) + 1
<1>1. /\ Len(more) = last /\ more[last] = call /\ more[i] = calls[i]
      /\ \A j \in i + 1 .. Len(calls) : more[j] = calls[j]
      /\ last \in i + 1 .. last
      /\ \A j \in i + 1 .. last : j \in i + 1 .. Len(calls) \/ j = last
      /\ i + 1 .. Len(calls) \subseteq i + 1 .. last
  BY OneMoreCall
<1> HIDE DEF more, last
<1> QED
  BY <1>1 DEF StandingBid, StandingAsk, more

LEMMA LastStanding ==
  ASSUME NEW calls \in Seq(Calls), NEW call \in Calls, NEW p \in Prices
  PROVE  LET more == Append(calls, call)
             last == Len(calls) + 1
         IN  /\ StandingBid(more, last, p) <=> call.op = "bid" /\ call.price = p
             /\ StandingAsk(more, last, p) <=> call.op = "ask" /\ call.price = p
<1> DEFINE more == Append(calls, call)
           last == Len(calls) + 1
<1>1. Len(more) = last /\ more[last] = call /\ last + 1 .. last = {}
  BY OneMoreCall
<1> HIDE DEF more, last
<1> QED
  BY <1>1 DEF StandingBid, StandingAsk, more, last

------------------------------------------------------------------------------
(* What each call does to the reference.                                   *)

LEMMA NoneStanding ==
  ASSUME NEW calls, NEW p
  PROVE  /\ (\A k \in DOMAIN calls : ~ StandingBid(calls, k, p))
              => TheOnly(StandingBids(calls, p)) = 0
         /\ (\A k \in DOMAIN calls : ~ StandingAsk(calls, k, p))
              => TheOnly(StandingAsks(calls, p)) = 0
BY DEF StandingBids, StandingAsks, TheOnly

LEMMA OneStanding ==
  ASSUME NEW calls, NEW p, NEW k \in DOMAIN calls
  PROVE  /\ StandingBid(calls, k, p) /\ (\A j \in DOMAIN calls \ {k} : ~ StandingBid(calls, j, p))
              => TheOnly(StandingBids(calls, p)) = calls[k].qty
         /\ StandingAsk(calls, k, p) /\ (\A j \in DOMAIN calls \ {k} : ~ StandingAsk(calls, j, p))
              => TheOnly(StandingAsks(calls, p)) = calls[k].qty
<1>1. ASSUME StandingBid(calls, k, p), \A j \in DOMAIN calls \ {k} : ~ StandingBid(calls, j, p)
      PROVE  TheOnly(StandingBids(calls, p)) = calls[k].qty
  <2>1. StandingBids(calls, p) = {calls[k].qty}
    BY <1>1 DEF StandingBids
  <2> QED
    BY <2>1 DEF TheOnly
<1>2. ASSUME StandingAsk(calls, k, p), \A j \in DOMAIN calls \ {k} : ~ StandingAsk(calls, j, p)
      PROVE  TheOnly(StandingAsks(calls, p)) = calls[k].qty
  <2>1. StandingAsks(calls, p) = {calls[k].qty}
    BY <1>2 DEF StandingAsks
  <2> QED
    BY <2>1 DEF TheOnly
<1> QED
  BY <1>1, <1>2

\* updateBid: the new bid stands, whatever stood at its price does not, nor
\* do the asks at or below it.
LEMMA BidReference ==
  ASSUME NEW calls \in Seq(Calls), NEW price \in Prices, NEW qty \in Quantities \cup {0}
  PROVE  Reference(Append(calls, BidCall(price, qty))) = UpdateBid(Reference(calls), price, qty)
<1> DEFINE call == BidCall(price, qty)
           more == Append(calls, call)
           last == Len(calls) + 1
<1>1. call \in Calls /\ call.op = "bid" /\ call.price = price /\ call.qty = qty
  BY CallTypes DEF BidCall
<1> HIDE DEF call
<1>2. /\ more[last] = call /\ last \in DOMAIN more
      /\ \A k \in DOMAIN more : k \in 1 .. Len(calls) \/ k = last
      /\ last \notin 1 .. Len(calls)
  BY <1>1, OneMoreCall
<1>3. ASSUME NEW p \in Prices
      PROVE  TheOnly(StandingBids(more, p)) =
               IF p = price THEN qty ELSE TheOnly(StandingBids(calls, p))
  <2>1. /\ \A k \in 1 .. Len(calls) :
             StandingBid(more, k, p) <=> StandingBid(calls, k, p) /\ price # p
        /\ StandingBid(more, last, p) <=> price = p
    BY <1>1, StillStanding, LastStanding
  <2>2. CASE p = price
    <3> HIDE DEF more, last
    <3> QED
      BY <1>1, <1>2, <2>1, <2>2, OneStanding
  <2>3. CASE p # price
    BY <1>1, <2>1, <2>3, SameStanding
  <2> QED
    BY <2>2, <2>3
<1>4. ASSUME NEW p \in Prices
      PROVE  TheOnly(StandingAsks(more, p)) =
               IF p <= price THEN 0 ELSE TheOnly(StandingAsks(calls, p))
  <2>1. /\ \A k \in 1 .. Len(calls) :
             StandingAsk(more, k, p) <=> StandingAsk(calls, k, p) /\ price < p
        /\ ~ StandingAsk(more, last, p)
    BY <1>1, StillStanding, LastStanding
  <2>2. price \in Nat /\ p \in Nat
    BY DEF Prices
  <2>3. CASE p <= price
    <3> HIDE DEF more, last
    <3> QED
      BY <1>2, <2>1, <2>2, <2>3, NoneStanding
  <2>4. CASE ~ (p <= price)
    BY <1>1, <2>1, <2>2, <2>4, SameStanding
  <2> QED
    BY <2>3, <2>4
<1> HIDE DEF more
<1>5. Reference(more) = UpdateBid(Reference(calls), price, qty)
  BY <1>3, <1>4 DEF Reference, UpdateBid
<1> QED
  BY <1>5 DEF more, call

LEMMA AskReference ==
  ASSUME NEW calls \in Seq(Calls), NEW price \in Prices, NEW qty \in Quantities \cup {0}
  PROVE  Reference(Append(calls, AskCall(price, qty))) = UpdateAsk(Reference(calls), price, qty)
<1> DEFINE call == AskCall(price, qty)
           more == Append(calls, call)
           last == Len(calls) + 1
<1>1. call \in Calls /\ call.op = "ask" /\ call.price = price /\ call.qty = qty
  BY CallTypes DEF AskCall
<1> HIDE DEF call
<1>2. /\ more[last] = call /\ last \in DOMAIN more
      /\ \A k \in DOMAIN more : k \in 1 .. Len(calls) \/ k = last
      /\ last \notin 1 .. Len(calls)
  BY <1>1, OneMoreCall
<1>3. ASSUME NEW p \in Prices
      PROVE  TheOnly(StandingAsks(more, p)) =
               IF p = price THEN qty ELSE TheOnly(StandingAsks(calls, p))
  <2>1. /\ \A k \in 1 .. Len(calls) :
             StandingAsk(more, k, p) <=> StandingAsk(calls, k, p) /\ price # p
        /\ StandingAsk(more, last, p) <=> price = p
    BY <1>1, StillStanding, LastStanding
  <2>2. CASE p = price
    <3> HIDE DEF more, last
    <3> QED
      BY <1>1, <1>2, <2>1, <2>2, OneStanding
  <2>3. CASE p # price
    BY <1>1, <2>1, <2>3, SameStanding
  <2> QED
    BY <2>2, <2>3
<1>4. ASSUME NEW p \in Prices
      PROVE  TheOnly(StandingBids(more, p)) =
               IF p >= price THEN 0 ELSE TheOnly(StandingBids(calls, p))
  <2>1. /\ \A k \in 1 .. Len(calls) :
             StandingBid(more, k, p) <=> StandingBid(calls, k, p) /\ price > p
        /\ ~ StandingBid(more, last, p)
    BY <1>1, StillStanding, LastStanding
  <2>2. price \in Nat /\ p \in Nat
    BY DEF Prices
  <2>3. CASE p >= price
    <3> HIDE DEF more, last
    <3> QED
      BY <1>2, <2>1, <2>2, <2>3, NoneStanding
  <2>4. CASE ~ (p >= price)
    BY <1>1, <2>1, <2>2, <2>4, SameStanding
  <2> QED
    BY <2>3, <2>4
<1> HIDE DEF more
<1>5. Reference(more) = UpdateAsk(Reference(calls), price, qty)
  BY <1>3, <1>4 DEF Reference, UpdateAsk
<1> QED
  BY <1>5 DEF more, call

LEMMA ClearReference ==
  ASSUME NEW calls \in Seq(Calls)
  PROVE  Reference(Append(calls, ClearCall)) = EmptyBook
<1> DEFINE more == Append(calls, ClearCall)
           last == Len(calls) + 1
<1>1. ClearCall \in Calls /\ ClearCall.op = "clear"
  BY DEF ClearCall, Calls
<1>2. \A k \in DOMAIN more : k \in 1 .. Len(calls) \/ k = last
  BY <1>1, OneMoreCall
<1>3. ASSUME NEW p \in Prices, NEW k \in DOMAIN more
      PROVE  ~ StandingBid(more, k, p) /\ ~ StandingAsk(more, k, p)
  BY <1>1, <1>2, StillStanding, LastStanding
<1> HIDE DEF more
<1>4. Reference(more) = EmptyBook
  BY <1>3, NoneStanding DEF Reference, EmptyBook, EmptySide
<1> QED
  BY <1>4 DEF more

LEMMA EmptyReference == Reference(<<>>) = EmptyBook
<1>1. DOMAIN <<>> = {}
  OBVIOUS
<1> QED
  BY <1>1, NoneStanding DEF Reference, EmptyBook, EmptySide

------------------------------------------------------------------------------
LEMMA NextInv == Inv /\ [Next]_vars => Inv'
<1> SUFFICES ASSUME Inv, [Next]_vars PROVE Inv'
  OBVIOUS
<1> USE DEF Inv, TypeOK, NeverCrossed, LatestUpdateWins
<1>1. ASSUME NEW price \in Prices, NEW qty \in Quantities \cup {0},
             CallUpdateBid(price, qty)
      PROVE  Inv'
  <2>1. book' = UpdateBid(book, price, qty) /\ log' = Append(log, BidCall(price, qty))
    BY <1>1 DEF CallUpdateBid, BidCall
  <2>2. TypeOK'
    BY <2>1, UpdateTypes, CallTypes, OneMoreCall
  <2> QED
    BY <2>1, <2>2, UpdateBidUncrosses, BidReference
<1>2. ASSUME NEW price \in Prices, NEW qty \in Quantities \cup {0},
             CallUpdateAsk(price, qty)
      PROVE  Inv'
  <2>1. book' = UpdateAsk(book, price, qty) /\ log' = Append(log, AskCall(price, qty))
    BY <1>2 DEF CallUpdateAsk, AskCall
  <2>2. TypeOK'
    BY <2>1, UpdateTypes, CallTypes, OneMoreCall
  <2> QED
    BY <2>1, <2>2, UpdateAskUncrosses, AskReference
<1>3. CASE CallClear
  <2>1. book' = EmptyBook /\ log' = Append(log, ClearCall) /\ ClearCall \in Calls
    BY <1>3 DEF CallClear, Clear, ClearCall, Calls
  <2> QED
    BY <2>1, EmptyBookIsFine, ClearReference, OneMoreCall
<1>4. CASE UNCHANGED vars
  BY <1>4 DEF vars
<1> QED
  BY <1>1, <1>2, <1>3, <1>4 DEF Next

LEMMA Invariance == Spec => []Inv
<1>1. Init => Inv
  BY EmptyBookIsFine, EmptyReference DEF Init, Inv, TypeOK, NeverCrossed, LatestUpdateWins
<1> QED
  BY <1>1, NextInv, PTL DEF Spec

\* A book holds nothing but levels it was given.
THEOREM SharedBookTypes == Spec => []TypeOK
BY Invariance, PTL DEF Inv

\* No sequence of updateBid, updateAsk and clear leaves a bid at or above an
\* ask: the while loops of src/core/OrderBook.cpp do their work whatever the
\* prices and quantities are.
THEOREM SharedBookNeverCrossed == Spec => []NeverCrossed
BY Invariance, PTL DEF Inv

\* Whatever the calls, of any number: the book is what the calls leave standing
\* that no later call displaced.
THEOREM LatestUpdatesWin == Spec => []LatestUpdateWins
BY Invariance, PTL DEF Inv
==============================================================================
