----------------------------- MODULE QuoteSource -----------------------------
(***************************************************************************)
(* What the arbitrage engine may rely on about one order book: at any      *)
(* moment its four getters describe a top of book that is not crossed.     *)
(* Nothing else is promised: the quote can change at any time, and either  *)
(* side can vanish (a snapshot is being reloaded) and come back.           *)
(***************************************************************************)
EXTENDS Quotes

VARIABLE quote

Init == quote = NoQuote

Move == quote' \in Quotes

Spec == Init /\ [][Move]_quote
==============================================================================
