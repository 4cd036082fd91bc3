--------------------------- MODULE ArbitrageEngine ---------------------------
(***************************************************************************)
(* ArbitrageEngine: start() checks one symbol after the other for ever; a  *)
(* check scans the venues (MarketScan), sizes an order, hands it to two    *)
(* executors, and records what they report.  Only the engine's thread      *)
(* touches activePositionsUsd_.                                            *)
(*                                                                         *)
(*   Live = FALSE  both executors are a PaperTrader                        *)
(*   Live = TRUE   they are BinanceTrader, BybitTrader or DydxTrader: each *)
(*                 sends a market order at most five times, until an       *)
(*                 answer says it was accepted, and nothing tells a        *)
(*                 repeated order from a new one.                          *)
(***************************************************************************)
EXTENDS MarketScan, Legs, Functions

CONSTANTS
  Live,
  Executors,     \* the venues an executor is registered for
  MaxPosUsd,     \* maxPosUsd_
  MinSpread,     \* minSpreadPercent_, in hundredths of a percent
  MinNotional,   \* the 150.0 of checkArbitrage
  LotSize,       \* the quantity step of each venue
  MaxAttempts,   \* orders one executeTrade sends at most (5 in the code)
  MaxFaults      \* bound on the legs sent that do not end as exactly one order

ASSUME EngineAssumption ==
  /\ Live \in BOOLEAN
  /\ Executors \subseteq Venues
  /\ MaxPosUsd \in Nat
  /\ MinSpread \in Nat
  /\ MinNotional \in Nat \ {0}
  /\ LotSize \in [Venues -> Nat \ {0}]
  /\ MaxAttempts \in Nat \ {0}
  /\ MaxFaults \in Nat

VARIABLES
  positions,   \* activePositionsUsd_: positions[s][v]
  qty,         \* reqQty
  buyFill,     \* what the buying executor reported
  sellFill,
  exposure,    \* history: what the orders really executed amount to
  faults       \* history: legs that did not end as exactly one order

orderVars == <<positions, qty, buyFill, sellFill, exposure, faults>>
vars == <<quotes, turn, pc, i, held, found, moved,
          positions, qty, buyFill, sellFill, exposure, faults>>

Fills == [ok : BOOLEAN, cost : Nat]
NoFill == [ok |-> FALSE, cost |-> 0]

Ledgers(amounts) == [SymbolSet -> [Venues -> amounts]]
ZeroLedger == [s \in SymbolSet |-> [v \in Venues |-> 0]]

EngineSteps == ScanSteps \cup {"idle", "scanned", "buyLeg", "sellLeg", "settle"}

\* Every variable of the engine has its type: quantities are fractions with a
\* positive denominator, and no report carries a negative cost.
EngineTypeOK ==
  /\ ScanTypeOK
  /\ pc \in EngineSteps
  /\ positions \in Ledgers(Int)
  /\ qty \in Fractions
  /\ buyFill \in Fills
  /\ sellFill \in Fills
  /\ exposure \in Ledgers(Int)
  /\ faults \in 0 .. MaxFaults + 1

Init ==
  /\ ScanInit
  /\ positions = ZeroLedger
  /\ qty = Whole(0)
  /\ buyFill = NoFill
  /\ sellFill = NoFill
  /\ exposure = ZeroLedger
  /\ faults = 0

------------------------------------------------------------------------------
(* Sizing.                                                                 *)

\* Slips the properties must notice: a sale that uses up the room of a
\* purchase, quotes' quantities that do not cap the order, a minimum that
\* lets an order at price 0 through.
RoomIgnoringSide(s, v, side) ==
  LET room == MaxPosUsd - positions[s][v] IN IF room > 0 THEN room ELSE 0

RemainingUsdRoom(s, v, side) ==
  LET room == IF side = "buy" THEN MaxPosUsd - positions[s][v]
                              ELSE MaxPosUsd + positions[s][v]
  IN  IF room > 0 THEN room ELSE 0

ObCapQty == IF found.askQty < found.bidQty THEN found.askQty ELSE found.bidQty
BuyRoom == RemainingUsdRoom(symbol, found.askVenue, "buy")
SellRoom == RemainingUsdRoom(symbol, found.bidVenue, "sell")
UncappedReqQty == SmallerOf(<<BuyRoom, found.ask>>, <<SellRoom, found.bid>>)

ReqQty == CappedQty(CappedQty(Whole(ObCapQty), BuyRoom, found.ask), SellRoom, found.bid)

Opportunity ==
  /\ found.bid > 0 /\ found.ask < found.bid
  /\ (found.bid - found.ask) * 10000 > MinSpread * found.ask
  /\ {found.askVenue, found.bidVenue} \subseteq Executors

WorthAnything(q) == q[1] > 0

WorthTrading(q) == q[1] * found.ask > MinNotional * q[2]

Accept ==
  /\ Opportunity
  /\ ObCapQty > 0
  /\ BuyRoom > 0 /\ SellRoom > 0
  /\ WorthTrading(ReqQty)

\* The check is over: its locals are gone, the next symbol is up.
EndCheck ==
  /\ NextSymbol
  /\ qty' = Whole(0)
  /\ buyFill' = NoFill
  /\ sellFill' = NoFill

SendOrders ==
  /\ pc = "scanned"
  /\ Accept
  /\ qty' = ReqQty
  /\ pc' = "buyLeg"
  /\ UNCHANGED <<feedVars, turn, i, held, found,
                 positions, buyFill, sellFill, exposure, faults>>

PassOver ==
  /\ pc = "scanned"
  /\ ~ Accept
  /\ EndCheck
  /\ UNCHANGED <<feedVars, i, held, positions, exposure, faults>>

------------------------------------------------------------------------------
(* The two legs.                                                           *)

Outcomes(v, price) ==
  IF Live THEN LiveLeg(FloorToStep(qty, LotSize[v]), price, MaxAttempts)
          ELSE PaperLeg(price, qty)

Fill(o) == [ok |-> o.ok, cost |-> o.cost]

\* A leg at v ends as o.  Only a leg that is cut to nothing by the lot size is
\* not bounded in number: it counts as a fault, too.
Count(o, v) ==
  /\ o.fault => faults < MaxFaults \/ FloorToStep(qty, LotSize[v]) = 0
  /\ faults' = IF o.fault /\ faults <= MaxFaults THEN faults + 1 ELSE faults

\* A slip the properties must notice: the exception ends the engine's thread.
BuyLegUncaught ==
  /\ pc = "buyLeg"
  /\ \E o \in Outcomes(found.askVenue, found.ask) :
       /\ Count(o, found.askVenue)
       /\ exposure' = [exposure EXCEPT ![symbol][found.askVenue] = @ + o.executed]
       /\ buyFill' = Fill(o)
       /\ pc' = IF o.throws THEN "terminated" ELSE "sellLeg"
  /\ UNCHANGED <<feedVars, turn, i, held, found, positions, qty, sellFill>>

\* An exception leaves checkArbitrage; start() catches it and goes on.
BuyLeg ==
  /\ pc = "buyLeg"
  /\ \E o \in Outcomes(found.askVenue, found.ask) :
       /\ Count(o, found.askVenue)
       /\ exposure' = [exposure EXCEPT ![symbol][found.askVenue] = @ + o.executed]
       /\ \/ o.throws /\ EndCheck
          \/ /\ ~ o.throws
             /\ buyFill' = Fill(o)
             /\ pc' = "sellLeg"
             /\ UNCHANGED <<turn, found, qty, sellFill>>
  /\ UNCHANGED <<feedVars, i, held, positions>>

\* The sell order goes out whatever became of the buy order.
SellLeg ==
  /\ pc = "sellLeg"
  /\ \E o \in Outcomes(found.bidVenue, found.bid) :
       /\ Count(o, found.bidVenue)
       /\ exposure' = [exposure EXCEPT ![symbol][found.bidVenue] = @ - o.executed]
       /\ \/ o.throws /\ EndCheck
          \/ /\ ~ o.throws
             /\ sellFill' = Fill(o)
             /\ pc' = "settle"
             /\ UNCHANGED <<turn, found, qty, buyFill>>
  /\ UNCHANGED <<feedVars, i, held, positions>>

\* Nothing is recorded unless both legs are ok and cost something.  The
\* profit is only summed up for the log.
BothFilled ==
  /\ buyFill.ok /\ sellFill.ok
  /\ buyFill.cost > 0 /\ sellFill.cost > 0

\* Slips the properties must notice: the smaller cost booked on both sides,
\* the signs swapped, the sale forgotten, a position overwritten.
SmallerOnBoth(p, buyer, seller, cost, proceeds) ==
  LET c == IF cost < proceeds THEN cost ELSE proceeds
  IN  [[p EXCEPT ![buyer] = @ + c] EXCEPT ![seller] = @ - c]

SignsSwapped(p, buyer, seller, cost, proceeds) ==
  [[p EXCEPT ![buyer] = @ - cost] EXCEPT ![seller] = @ + proceeds]

\* applyPositionUpdate, for the buyer and then for the seller.
AfterPair(p, buyer, seller, cost, proceeds) ==
  [[p EXCEPT ![buyer] = @ + cost] EXCEPT ![seller] = @ - proceeds]

BuyRecorded ==
  [positions EXCEPT ![symbol][found.askVenue] = @ + buyFill.cost]

Overwritten ==
  [positions EXCEPT ![symbol] =
     AfterPair(ZeroLedger[symbol], found.askVenue, found.bidVenue,
               buyFill.cost, sellFill.cost)]

Recorded ==
  [positions EXCEPT ![symbol] =
     AfterPair(positions[symbol], found.askVenue, found.bidVenue,
               buyFill.cost, sellFill.cost)]

Settle ==
  /\ pc = "settle"
  /\ positions' = IF BothFilled THEN Recorded ELSE positions
  /\ EndCheck
  /\ UNCHANGED <<feedVars, i, held, exposure, faults>>

EngineStep ==
  \/ Scan /\ UNCHANGED orderVars
  \/ SendOrders
  \/ PassOver
  \/ BuyLeg
  \/ SellLeg
  \/ Settle

EngineNext ==
  \/ \E s \in SymbolSet, v \in Venues : FeedMoves(s, v) /\ UNCHANGED orderVars
  \/ EngineStep

EngineSpec == Init /\ [][EngineNext]_vars

\* The engine's thread keeps running: every lock it takes is held for a
\* bounded time, and so is every call of an executor.
EngineFairness == WF_vars(EngineStep)

------------------------------------------------------------------------------
Ordering == pc \in {"buyLeg", "sellLeg", "settle"}

\* README.md: the size of a position per exchange and symbol is limited.  What
\* the engine records stays within the limit, whatever the quotes did while
\* it looked and however costs are rounded.
PositionBound ==
  \A s \in SymbolSet, v \in Venues : positions[s][v] \in -MaxPosUsd .. MaxPosUsd

\* No order goes out at price 0 or below cost, although the scan can read a
\* price of 0 from a book that is being reloaded (see MarketScan).
OrderIsPriced ==
  Ordering => /\ 0 < found.ask /\ found.ask < found.bid
              /\ 0 < qty[1]
              /\ qty[1] * found.ask > MinNotional * qty[2]

\* As long as the quote of a venue does not move, the order meant for it is at
\* the price it shows and for no more than it shows.
OrderIsOnDisplay ==
  Ordering =>
    LET Shown(v) == quotes[symbol][v] IN
    /\ found.askVenue \notin moved =>
         /\ found.ask = Shown(found.askVenue).ask
         /\ qty[1] <= Shown(found.askVenue).askQty * qty[2]
    /\ found.bidVenue \notin moved =>
         /\ found.bid = Shown(found.bidVenue).bid
         /\ qty[1] <= Shown(found.bidVenue).bidQty * qty[2]

\* Between checks the recorded positions are what was really executed, unless
\* some leg did not end as exactly one order.
RecordIsExposure ==
  pc = "idle" /\ faults = 0 => positions = exposure

\* Both legs of a pair trade the same quantity and the sale is the dearer one:
\* what a symbol is worth in the books, over all venues, never grows.
NetPosition(s) == FoldFunction(+, 0, positions[s])
NetPositionNeverGrows ==
  [][positions' # positions =>
       \A s \in SymbolSet : NetPosition(s)' <= NetPosition(s)]_vars

\* The engine's records behave like the abstract ledger.
Ledger == INSTANCE PositionLedger WITH Traded <- SymbolSet
RecordsAreALedger == Ledger!Spec

\* Every symbol is looked at again and again: neither a rejected order nor an
\* exception in an executor stops the loop or skips a symbol for good.
EverySymbolIsChecked ==
  \A k \in DOMAIN Symbols : []<>(turn = k /\ pc = "guard")

------------------------------------------------------------------------------
\* include/core/ArbitrageEngine.hpp: arbitrage "across multiple exchanges".
BuysAndSellsAreOnDifferentVenues ==
  Ordering => found.askVenue # found.bidVenue

\* README.md, maxPosUsd: "Maximum position size in USD per exchange per
\* symbol", of what is really held.
ExposureBound ==
  \A s \in SymbolSet, v \in Venues : exposure[s][v] \in -MaxPosUsd .. MaxPosUsd
==============================================================================
