--------------------------- MODULE PositionLedger ----------------------------
(***************************************************************************)
(* What the engine's book-keeping promises: per symbol and venue a signed  *)
(* position in USD that never leaves [-MaxPosUsd, MaxPosUsd], and that     *)
(* changes only in pairs - some venue bought, some venue sold, of one      *)
(* symbol, in one step.                                                    *)
(***************************************************************************)
EXTENDS Integers

CONSTANTS Traded,      \* the symbols
          Venues,
          MaxPosUsd

VARIABLE positions

Init == positions = [s \in Traded |-> [v \in Venues |-> 0]]

\* What may still be bought, and sold, at a venue.
BuyRoom(s, v) == MaxPosUsd - positions[s][v]
SellRoom(s, v) == MaxPosUsd + positions[s][v]

\* One venue bought, one sold; a venue may even be on both sides.
AfterPair(p, buyer, seller, cost, proceeds) ==
  [[p EXCEPT ![buyer] = @ + cost] EXCEPT ![seller] = @ - proceeds]

Trade(s, buyer, seller) ==
  \E cost \in 1 .. BuyRoom(s, buyer), proceeds \in 1 .. SellRoom(s, seller) :
    positions' = [positions EXCEPT ![s] =
                    AfterPair(positions[s], buyer, seller, cost, proceeds)]

Next == \E s \in Traded, buyer \in Venues, seller \in Venues : Trade(s, buyer, seller)

Spec == Init /\ [][Next]_positions
==============================================================================
