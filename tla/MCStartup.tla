------------------------------ MODULE MCStartup ------------------------------
(***************************************************************************)
(* Startup with keys given, missing or odd in every combination that the   *)
(* executors tell apart, and with every combination of settings and        *)
(* symbols, next to a sound rest.                                          *)
(***************************************************************************)
EXTENDS Startup

Modes == {"absent", "paper", "live", "other", "odd"}
SomeSymbols == {<<>>, <<"S">>, <<"S", "T">>, <<"S", "odd">>}
AllNumbers == [k \in Settings |-> "number"]
AllTexts == [k \in Keys |-> "text"]

SomeFiles ==
  [mode : {"live"}, symbols : {<<"S", "T">>}, settings : {AllNumbers},
   keys : {k \in [Keys -> {"absent", "empty", "text", "number"}] :
             \A e \in {"binance", "bybit"} : k[KeysOf[e][1]] \in {"absent", "text"}
                                             /\ k[KeysOf[e][2]] # "absent"}]
  \cup
  [mode : Modes, symbols : SomeSymbols,
   settings : [Settings -> {"absent", "number", "odd"}], keys : {AllTexts}]

SomeDigests ==
  {[i \in 1 .. 20 |-> 0], [i \in 1 .. 20 |-> 255], [i \in 1 .. 20 |-> (37 * i) % 256],
   [i \in 1 .. 20 |-> IF i % 2 = 1 THEN 128 ELSE 1]}
==============================================================================
