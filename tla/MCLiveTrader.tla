---------------------------- MODULE MCLiveTrader -----------------------------
(***************************************************************************)
(* LiveTrader asked for less than a lot, for less than the minimum, and    *)
(* for quantities that have to be cut.                                     *)
(***************************************************************************)
EXTENDS LiveTrader

SomeRequests == {<<0, 1>>, <<1, 2>>, <<3, 2>>, <<7, 2>>}
==============================================================================
