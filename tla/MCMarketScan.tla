---------------------------- MODULE MCMarketScan -----------------------------
(***************************************************************************)
(* MarketScan on two venues and one symbol.  The two sides of a book show  *)
(* different quantities, so that neither is taken for the other, and each   *)
(* side shows now the one and now the other, so that a stale one is told   *)
(* from a fresh one.  A side without the other shows the smaller.          *)
(***************************************************************************)
EXTENDS MarketScan

CONSTANTS a, b, btc

MCExchanges == <<a, b>>
MCSymbols == <<btc>>

SidesDiffer == \A s \in SymbolSet, v \in Venues :
  {quotes[s][v].bidQty, quotes[s][v].askQty} \in {{0}, {0, 1}, {1, 2}}

SidesDifferSpec == ScanInit /\ [][Next /\ SidesDiffer']_scanVars
==============================================================================
