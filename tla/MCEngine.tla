------------------------------- MODULE MCEngine -------------------------------
(***************************************************************************)
(* The engine on two venues, with one or two symbols.                      *)
(***************************************************************************)
EXTENDS ArbitrageEngine, FiniteSets

CONSTANTS a, b, btc, eth

MCExchanges == <<a, b>>
OneSymbol == <<btc>>
TwoSymbols == <<btc, eth>>
\* Two ways to keep a run small.  In the first at most one venue's quote moves
\* while a check is under way.
Busy == pc # "idle"

OneMoverSpec == Init /\ [][EngineNext /\ (Busy => Cardinality(moved') <= 1)]_vars

\* In the second quotes move between checks only, and there are few of them.  A
\* venue is empty, sells btc at 1, or buys it at 2 and sells it at 3: both can
\* be the buyer and the seller.  Of eth, a may sell at 1 and b buy at 2.
Cheap == [NoQuote EXCEPT !.ask = 1, !.askQty = 2]
Dear == [bid |-> 2, bidQty |-> 2, ask |-> 3, askQty |-> 2]

FewQuotes(s, v) ==
  IF s = btc THEN {NoQuote, Cheap, Dear}
  ELSE {NoQuote, IF v = a THEN Cheap ELSE Dear}

FewQuotesSpec ==
  /\ Init
  /\ [][/\ EngineNext
        /\ Busy => moved' = {}
        /\ \A s \in SymbolSet, v \in Venues : quotes'[s][v] \in FewQuotes(s, v)]_vars
  /\ EngineFairness

UnitLots == [v \in Venues |-> 1]
==============================================================================
