---------------------------- MODULE MCDydxTrader -----------------------------
(***************************************************************************)
(* DydxTrader asked for less than a lot and for a quantity that has to be  *)
(* cut, while the tracking thread makes its first request.                 *)
(***************************************************************************)
EXTENDS DydxTrader

SomeRequests == {<<3, 2>>, <<5, 2>>}

\* Bounds: while time passes the chain stands still or makes as many blocks as it
\* may; the tracking thread is told the height at which it asked.
FewPaces ==
  /\ height' \in {height, height + Most(now' - now)}
  /\ fetched' \in {fetched, 0, asked}

FewPacesSpec ==
  /\ DydxInit /\ [][DydxNext /\ FewPaces]_dydxVars
  /\ WF_dydxVars(DydxTraderStep) /\ WF_dydxVars(Tracker) /\ WF_dydxVars(Elapse)
==============================================================================
