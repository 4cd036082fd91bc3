------------------------------- MODULE Quotes --------------------------------
(***************************************************************************)
(* What the four getters of an OrderBook can return together: the best     *)
(* price and its quantity on each side.  A side without levels gives 0     *)
(* for both.                                                               *)
(***************************************************************************)
EXTENDS Integers

CONSTANTS MaxPrice,    \* prices are 1..MaxPrice ticks
          Quantities   \* the quantities a level can carry

ASSUME QuoteAssumption ==
  /\ MaxPrice \in Nat \ {0}
  /\ Quantities \subseteq Nat \ {0}

AnyQuote == [bid : 0 .. MaxPrice, bidQty : Quantities \cup {0},
             ask : 0 .. MaxPrice, askQty : Quantities \cup {0}]

\* The quotes of books that are not crossed.
Quotes ==
  {q \in AnyQuote :
     /\ q.bid = 0 <=> q.bidQty = 0
     /\ q.ask = 0 <=> q.askQty = 0
     /\ q.bid # 0 /\ q.ask # 0 => q.bid < q.ask}

NoQuote == [bid |-> 0, bidQty |-> 0, ask |-> 0, askQty |-> 0]
==============================================================================
