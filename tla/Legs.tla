--------------------------------- MODULE Legs ---------------------------------
(***************************************************************************)
(* One leg of a trade as the engine sees it: what executeTrade can report  *)
(* and what it can really have done.  An outcome holds the report (ok and  *)
(* cost), the value of the orders the exchange executed, whether           *)
(* executeTrade threw instead of returning, and whether it ended otherwise *)
(* than by the acceptance of its only order.                               *)
(***************************************************************************)
EXTENDS Amounts

\* PaperTrader.
PaperLeg(price, qty) ==
  {[ok |-> qty[1] > 0 /\ price > 0, cost |-> PaperCost(price, qty),
    executed |-> PaperCost(price, qty), throws |-> FALSE, fault |-> FALSE]}

\* Nothing was executed, and the engine is told so.
Unfilled == [ok |-> FALSE, cost |-> 0, executed |-> 0, throws |-> FALSE, fault |-> TRUE]

\* BinanceTrader, BybitTrader and DydxTrader, with sendQty left of the quantity
\* asked for.  The answer to an executed order can be lost, and nothing tells
\* a repeated order from a new one; an order reported as ok was accepted in
\* the last attempt.  LiveTrader is the detailed model.
LiveLeg(sendQty, price, attempts) ==
  LET cost == sendQty * price
      Reported(ok, n) ==
        [ok |-> ok, cost |-> IF ok THEN cost ELSE 0, executed |-> n * cost,
         throws |-> FALSE, fault |-> ~ ok \/ n # 1]
      Thrown(n) == [ok |-> FALSE, cost |-> 0, executed |-> n * cost,
                    throws |-> TRUE, fault |-> TRUE]
  IN  {Unfilled} \cup
      IF sendQty = 0 THEN {}
      ELSE {Reported(TRUE, n) : n \in 1 .. attempts}
             \cup {Reported(FALSE, n) : n \in 1 .. attempts}
             \cup {Thrown(n) : n \in 0 .. attempts - 1}
==============================================================================
