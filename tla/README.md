# Verification of the crypto futures arbitrage engine

The program watches the order books of three futures exchanges (Binance, Bybit,
dYdX), buys where a symbol is cheap and sells where it is dear, in simulation
(`paper`) or for real (`live`). This directory holds TLA+ models of its core,
the TLC configurations that check them on small instances, and proofs of the
main properties for every instance. Paths are relative to the repository.

## 1. The system

| component | state | operations | called by |
|---|---|---|---|
| OrderBook (`src/core/OrderBook.cpp`) | two price-ordered maps, a mutex | `updateBid`, `updateAsk`, `clear`, four getters | socket threads write; engine and watchdog read |
| exchange clients (`src/exchange/*FuturesClient.cpp`) | `orderBooks_`, `wsClients_`, `reconnecting_`, a mutex | `subscribeOrderBook`, the message callback, `reconnectWithDelay`, `getOrderBook` | main, IXWebSocket threads, detached reconnect threads, watchdog |
| Watchdog (`src/core/Watchdog.cpp`) | `lastUpdate_`, `invalidSince_`, a mutex | `markUpdate`, `run` | socket threads; its own thread every 10 s |
| ArbitrageEngine (`src/core/ArbitrageEngine.cpp`) | `activePositionsUsd_` | `start`, `checkArbitrage`, `remainingUsdRoom`, `applyPositionUpdate` | main's thread only |
| executors (`PaperTrader`, `BinanceTrader`, `BybitTrader`, `DydxTrader`) | cached symbol rules; for dYdX the address, the account number, and the block height in two atomics | `executeTrade`; for dYdX `updateBlockHeightLoop` on a thread of its own | the engine's thread |
| ConfigManager, main | the settings | `load`, `getString`, `getNumber`; `setupExchange` | main's thread, once |
| bech32 | - | `Encode`, `Decode` | `DydxTrader::deriveKeys` |
| Helper, Logger, KeyUtils | - | conversions, HTTP, signing | everybody |

Frames flow from a socket's thread into an OrderBook, one lock per level, and
`markUpdate` tells the watchdog. The engine polls the books, one lock per
getter, and calls two executors one after the other on its own thread. The
watchdog asks a client to reconnect when a book is silent or looks crossed for
five minutes; so do the socket's own Error and Close events. Before all that,
`main` reads `config.json`, makes an executor for each exchange it has keys for,
and subscribes to the books of those exchanges.

What is hard about it:

* **no consistent reads** - price, quantity and guard of one check come from
  different locks, and a feed may move in between; a snapshot is `clear()`
  followed by one update per level, all of it visible;
* **uncrossing** - an update erases the other side's levels that it crosses,
  and does so for a removal (quantity 0), too;
* **lost answers** - an order that is not answered within a second is sent
  again, up to five times, with nothing that identifies the repetition;
* **half-done pairs** - one leg executed, the other refused or thrown out of;
* **rounding** - lot sizes, the paper cost rounded after the cap was applied;
* **expiry** - a dYdX order is good until a block that is extrapolated from a
  height and a time, written one after the other by two threads and read one
  after the other by a third;
* **start-up** - sockets run, with threads of their own, before `main` is done;
* **reconnection** - three sources of requests, a flag, a detached thread that
  may fail at any step, and a watchdog pass that one exception cuts short.

What makes each part correct: a book is never crossed, keeps the latest
information and, between frames, shows what the exchange published; a scan does
not mix venues; recorded positions stay within `maxPosUsd` and are what was
executed; a call of `executeTrade` ends, and reports no more than it did; an
order refused for its expiry is refused once per call; each book has one writer,
and a silent feed is replaced; what is scanned is what can be traded and what is
watched.

## 2. The modules

```
Quotes <- OrderBook <- SharedBook            (calls in any order)
              ^------- BookFeed --implements--> QuoteSource
Quotes <- MarketScan <------ ArbitrageEngine --implements--> PositionLedger
Amounts <- Legs <----------------^
             ^-- LiveTrader       (its outcomes are the LiveLeg of Legs)
                    ^-- DydxTrader   (with the block height, in real time)
ExchangeClient, Watchdog <- FeedSupervision
Bech32 <- DydxAddress <- Startup
```

* **Quotes** - what the four getters can return together. **OrderBook** - the
  book as two functions from prices to quantities (0: no level), its updates
  and getters as operators.
* **SharedBook** - a book and a log of the calls made on it; `Reference` says what
  the book should show after such a log, level by level, without replaying it.
* **BookFeed** - the message callback: `ReceiveSnapshot`/`ReceiveDelta`, then
  `ClearBook`, `ApplyBid`, `ApplyAsk` per level, `EndFrame`, or `AbandonFrame`
  when a level cannot be parsed. `Deltas` chooses between Binance (every frame
  is a snapshot) and Bybit/dYdX. `published` is the exchange's book as of the
  frame being handled, `applied` as of the last frame applied to the end.
* **QuoteSource** - all the engine may assume of a feed: at every moment an
  uncrossed quote, or none.
* **MarketScan** - the loop of `checkArbitrage` over the venues, one step per
  getter. The order of the two operands of the guard `bid >= ask` is left to
  the compiler by C++, so both orders are modelled. `moved` is the set of
  venues whose quote changed since the check began.
* **Amounts** - caps, `floorToStep`, the paper cost. Quantities are exact
  fractions, prices whole ticks. **Legs** - what one `executeTrade` can end as:
  report, real executions, exception.
* **ArbitrageEngine** - the rest of `checkArbitrage` (`Accept`, `BuyLeg`,
  `SellLeg`, `Settle`) and the loop of `start`. `positions` is
  `activePositionsUsd_`; `exposure` is what the exchanges really executed.
* **PositionLedger** - what the records promise: paired trades within bounds.
* **LiveTrader** - `executeTrade` of the three live executors attempt by
  attempt; `adrift` counts orders that were given up on but may be executed.
* **DydxTrader** - LiveTrader with time, in tenths of a second, and the block
  height: each of its actions is one of LiveTrader's with what that step does to
  the order's expiry. `ReadClock`, `LoadTime` and `DydxSend` are the three reads of
  `getEstimatedBlockHeight`, of the clock and of the two atomics; `StoreHeight` and `StoreTime`, `SyncHeight` and
  `SyncTime` the two stores of the tracking thread and of a refused order.
  `Elapse` lets time pass to the end of the next wait while every thread sleeps,
  waits for an answer, or is held up between reading its clock and sending the order
  (for `Stall` at most); other statements take no time. The chain makes a block in
  0.9 seconds on average: `credit` says how many it may make at once, and
  `Ahead` how far it may get ahead of the average.
* **ExchangeClient** - the sockets of one symbol: main's `subscribeOrderBook`
  and the reconnect thread (`Wake`, `StopOld`, `Start`, `StartThrows`, `Store`,
  `ClearFlag`), one step per critical section. **Watchdog** - one feed's timers,
  in passes. **FeedSupervision** - both together: `Frame`, `Look`, `Examine`,
  `Demand`, `DemandThrows`.

* **Bech32** - the checksum, `Encode` and `Decode`, with a 30-bit integer as its
  six groups of five bits, and the reference for the checksum: `Remainder`, a long
  division over GF(32). **DydxAddress** - the regrouping of the digest's bits in
  `deriveKeys`, with an accumulator of 32 bits.
* **Startup** - `main`: `Load` or `LoadThrows`, `Configure`, `AddTrader` and
  `CountTraders`, then `Connect` ... `AddExchangeClient` for each exchange, the
  steps of `setupExchange`. A value in the file is its kind: absent, of the
  expected type, empty, or of another type.

The `MC*` modules give constants to runs. Definitions under a comment that
begins "Slip" are plausible bugs: each property is shown to notice one of them
when it takes the place of the definition it varies. They are used nowhere.

## 3. The runs

| run | configuration | question | states |
|---|---|---|---|
| shared_book | MCSharedBook | every sequence of 4 calls: no crossed book, and exactly the levels that no later call displaced | 138 k |
| feeds | MCBookFeed | no phantom level, no lost ask, a complete snapshot is exact whatever was abandoned before; the feed implements QuoteSource | 581 k |
| delta_loses_bid | MCBookFeedDeltaBug | finding 1 | |
| market_scan | MCMarketScan | what a scan reports while both venues move | 799 k |
| engine_paper | MCEnginePaper | sizing, rounding, book-keeping; refinement of PositionLedger | 1.2 M |
| engine_live | MCEngineLive | two symbols, lots, lost answers, exceptions; every symbol is checked again and again | 314 k |
| engine_same_venue | MCEngineSameVenue | finding 2 | |
| engine_exposure | MCEngineExposure | finding 3 | |
| dydx_trader | MCDydxTrader | a call ends, as one of the legs in Legs; after one refusal no order of the call expires too early or too late; the time since the last block can be cast | 3.0 M |
| live_trader_retry | MCLiveTraderRetry | finding 4 | |
| feed_supervision | MCFeedSupervision | one reconnect thread, one writer, no unnoticed silence, feeds come back | 35 k |
| startup | MCStartup | for combinations of keys and of settings: what is traded, scanned, subscribed and watched, and how main ends; the dYdX address | 30 k |

**Bounds.** Three prices are enough for a bid below, at and above an ask and for
a level between two others; four calls for set, displace, remove, set again.
`MaxMalformed` = 1 abandoned frame puts every later frame after one. Two venues
give every order of buyer and seller; two quantities tell a stale one from a
fresh one in shared_book, feeds and market_scan. The engine runs show a single
quantity, so that there only the theorems tell one venue's from the other's.
`MaxPosUsd` = 3 is reached and left again on both sides of zero by
orders of one and two units. `MaxAttempts` is 3 in dydx_trader: a refused order,
one that profits from it and one more. The
theorems about LiveTrader hold for any number. It is 2 in the engine, where only
"once" and "more than once" differ;
`MaxFaults` = 1 is enough for records and reality to part: it bounds the legs
that are sent and do not end as exactly one order.
`MaxFailures` = 2 threads that cannot be created covers a reconnect thread and
the next socket; `MaxSkipped` = 2 passes end early; `Stale` and `Grace` are 4
and 3 passes instead of 30. In dydx_trader the engine calls when the
tracking thread has just sent its first request (`CallTimes`), and that thread
sleeps for 13 seconds instead of 120 (`SleepTime`), so that it wakes up and
stores again while the call goes on. The chain may be 1.4 seconds ahead of its
average (`Ahead` = 14 tenths, the most that five attempts allow), and a thread is
held up for 0.2 seconds at most. With three attempts the margin has room to spare:
TLC finds an expired order from `Ahead` = 26 on. The other times are those of the
code. In startup
the kinds of keys are combined with sound settings (a Binance or Bybit key takes one
of "absent" and "empty", which are read alike), and all kinds of settings,
modes and symbol lists with sound keys; four digests stand for the wallets.

**Reductions.** Both venues can move at any step in market_scan and in the
finding runs. engine_paper lets at most one venue move during a check
(`OneMoverSpec`). engine_live uses `FewQuotesSpec`: quotes move between checks
only and take few values. feeds publishes the larger quantity at the middle
price only (`FewBooksSpec`). market_scan shows different quantities on the two sides
of a book, and the smaller where there is one side (`SidesDifferSpec`). In dydx_trader the chain makes, while time passes,
either no block or as many as it may, and the tracking thread is told the
height at which it asked, the oldest there is (`FewPacesSpec`). All these are
constraints on the environment of the runs;
the theorems need none of them.

**Fairness.** `EverySymbolIsChecked` assumes that the engine's thread goes on:
it blocks on mutexes held for a few statements, on HTTP calls with timeouts
(10 s GET, 1 s POST, `Helper.cpp`), on at most five attempts and on sleeps.
`TradeReturns` assumes the same of one call; nothing is assumed of the exchange
(`DydxSettle` and `SettleAdrift` may never happen), but that time passes. FeedSupervision assumes that the
watchdog's thread, main and the reconnect threads go on: their sleeps end, and
`stop()` waits for a callback that ends. Frames, events and silence carry no
fairness. All of it is weak fairness.

**Findings**, each a run that TLC finds violated:

1. `updateAsk(price, 0)` and `updateBid(price, 0)` uncross as if a level had
   been added. A delta that moves the market up loses its new best bid: bids
   are applied first, and the removal of the old ask at or below them erases
   them (`DeltaIsExact`). Asks are not lost (`AsksAreExact`), nor is anything
   in a snapshot.
2. `checkArbitrage` can buy and sell on the same venue, when its quote falls
   between two getters (`BuysAndSellsAreOnDifferentVenues`); only a venue that
   moved during the check can be hit (`SameVenueOnlyIfMoved`).
3. The real position of a venue can pass `maxPosUsd` (`ExposureBound`), because
   nothing is recorded unless both legs are reported as ok.
4. One `executeTrade` can trade more than `maxQty` (`AtMostMaxQty`), because an
   order whose answer is late is sent again.

## 4. The proofs

Facts about constants are assumed, a few per module; all are types and ranges
(`QuoteAssumption`, `FeedAssumption`, `EngineAssumption`, `TraderAssumption`, ...)
but `ExpiryAssumption`, which relates the waits of DydxTrader to its margin. TLC
evaluates them in every run.

* **Amounts_proofs** - rounding, cutting to lots and the caps are monotone and
  bounded; division of integers; and totals over a finite set of venues (`TotalAfterPair`). The
  last are folds, which would need an induction: the lemmas take the smallest set
  for which the claim fails instead, which `FS_Subset` and a least cardinality
  give, and show that it cannot be.
* **OrderBook_proofs, SharedBook_proofs** - every update leaves an uncrossed book
  uncrossed; hence no sequence of calls crosses it. `LatestUpdateWins`: appending
  a call to the log changes `Reference` as the call changes the book, for logs of
  any length.
* **BookFeed_proofs** - types, `NoPhantomLevels`,
  `AsksAreExact`, `SnapshotIsExact`, and that BookFeed implements QuoteSource.
  The invariant says that the book is never crossed, not even within a frame, and what a half-applied frame has left: each level of the local
  book is either published or still in the frame's to-do sets, and asks that are
  not to do are there already.
* **ArbitrageEngine_proofs**, the scan - types, `UnmovedVenueIsReportedAsIs`,
  `SameVenueOnlyIfMoved`, `QuietScanFindsTheBest`. `ScanInv` relates, at each step
  of the scan, what was read to the quotes of the venues that have not moved;
  `QuietInv` says that, if none has moved, what was found is the best of the
  venues so far, at the first one that shows it - including the steps where the
  price is of one venue and the quantity still of another; that the quantities are
  right in the end, too, follows from `ScanInv`. Two lemmas join the scan
  to BookFeed, which implements QuoteSource: every quote the scan reads changes like
  that of a QuoteSource (`QuotesAreOfFeeds`), and whatever one of them does between
  two steps of the scan is allowed for (`FeedsMayMove`).
* **ArbitrageEngine_proofs**, the engine - types, `PositionBound`,
  `OrderIsPriced`, `OrderIsOnDisplay`, and the refinement of PositionLedger. The
  invariant carries the rooms from `Accept` to `Settle`: the cost a leg may
  report, rounded or cut to lots, is at most the room at its venue.
  `PositionBound` is not inductive without it. `RecordIsExposure`, from
  `ExposureInv`: until a leg goes wrong, records lag behind reality by the legs of
  the check under way and no more; that such a leg costs something, so that
  `Settle` does record it, takes the minimum notional. `NetPositionNeverGrows`,
  from `CostInv`: both reports are those of the same quantity, at a lower and at a
  higher price. It is proved for finitely many venues, and for live executors
  only where the venues have the same lots: where they differ the sale may be cut
  further than the purchase, and the sum of the positions can grow.
* **LiveTrader_proofs**, LiveTrader - types, `OkWasExecuted`, `OutcomeIsALiveLeg`. The
  invariant counts orders: executed and adrift together are at most the
  attempts, fewer while one is on its way. It connects LiveTrader with the
  engine's theorems, which hold for every outcome in `LiveLeg`.
* **LiveTrader_proofs**, DydxTrader - it implements LiveTrader, so what is proved
  of that holds of it. Types; `CastIsDefined`, because the clock was read at most
  `Stall` ago when another thread stores `lastBlockTime_` (`WaitInv`).
  `SyncedOrderIsInWindow`, from these invariants: `WaitInv` bounds how long each
  wait has lasted; `Within` counts the blocks that the chain can have made
  in a time, its credit included; `HeightsInv` says that a height which a thread is
  about to store, or has stored without its time, was the chain's no longer ago than
  a GET may take; `SyncInv` that after a refusal the stored height lags behind the
  stored time, or behind the time already read for the next order, by no more than
  that (`StampInv`), and that the call has gone on for no longer than its attempts
  take (`CallClockInv`). From there it is arithmetic: the chain has passed the
  extrapolated height by less than the margin, however it bunches its blocks
  (`MarginSuffices`).
* **Startup_proofs**, main - types, `StartedAsConfigured`, `SocketsAreWatched`, for
  every file, any number of symbols and any keys. `LoadInv` ties the settings to the
  file, `TradersInv` the executors to its keys (what `getString` and `getNumber`
  return comes to what the file says: `TraderIs`), and `ClientsInv` says for each
  step of `setupExchange` which exchanges it is through with (`Done`) and how far
  it is with the one it is at.
* **Startup_proofs**, the address - `AddressIsRight`, for every digest of 20 bytes:
  * `Xor` of five bits is an associative sum in which every value is its own
    opposite (`XorFacts`, `XorAssociative`). It is spelt out in arithmetic, because
    the prover has no bit operations.
  * The five 30-bit constants are multiples of the generator, over GF(32)
    (`ConstantsAreMultiples`): what a round of `PolyMod` adds for a leading digit is
    what a long division adds to divide that digit out (`AddedFacts`). Division and
    `PolyMod` go through the same six digits, and leave the same (`DivisionIsPolyMod`).
  * `CreateChecksum` runs `PolyMod` over six zeros, `VerifyChecksum` over six digits
    of a checksum. In these six rounds the leading digits of the two runs are the
    same, so that what they differ in moves up unchanged, and at the end it is the
    checksum: the second run ends at the constant (`ChecksumCloses`).
  * Every character written is read back as the digit it stands for, and the only
    separator is where it was written (`Characters`, `ReadsBack`).
  * After n bytes the last bits of the accumulator are those not yet written, and
    the digits written are all the others, in order: what the int loses when it
    overflows was written before (`RegroupKeepsBits`).

  Loops are functions of the number of rounds. That such a function exists
  (`RunExists`), and that what each round keeps holds after all of them (`Induct`),
  is shown from the least number for which it fails, in place of an induction.
* **FeedSupervision_proofs** - types, `OneReconnector`, `OneWriter`,
  `SilenceIsNoticed`, `SuspicionIsWitnessed`. A worker between taking the old
  socket out and storing the new one is the only one, `wsClients_` is empty
  meanwhile, and what runs is in its hands. `OneWriter` is what lets BookFeed
  have a single callback per book.

**Model-checked only:** the four properties that involve fairness
(`EverySymbolIsChecked`, `TradeReturns`, `QuietSocketIsReplaced`, `FeedComesBack`),
which the prover does not handle. Every other property of a run that passes is
proved. The configurations that expect a violation are counterexamples, and nothing
to prove.

TLC has checked the inductive invariant of each specification on the instance of its
component. Those of the loops in Bech32 and DydxAddress are about operators, not
about states; of them TLC checks what they add up to, `AddressIsRight`.

## 5. Assumptions and limits

* An order counts as executed when the exchange accepts it, at the price the
  engine saw. Fill prices, partial fills, and dYdX orders that are accepted and
  never filled are not told apart.
* `SyncedOrderIsInWindow` rests on `ExpiryAssumption`. The code's own numbers
  satisfy it (five attempts of at most one second, pauses of 0.2, a GET of at most
  ten, a margin of 15 blocks), with threads held up for at most 0.2 seconds, as long
  as the chain is never more than 1.4 seconds ahead of an average of one block in the
  0.9 seconds that the code reckons with; there is nothing to spare. A chain
  that is faster for long, or a longer burst, can make an order expire: the tracking
  thread overwrites the height of the refusal by one it asked for ten seconds ago,
  and the clock is cut to whole seconds. Before a refusal nothing is promised: the
  first order of a call may well have the wrong block. The window of 20 blocks is
  dYdX's rule for orders of this kind; it is not in the repository.
* A thread is held up only between reading the clock and sending an order, and for
  less than a second (`Stall`); `CastIsDefined` rests on that.
* What a dYdX leg reports and what it sends are the same quantity in the model,
  because its quantities are exact. In doubles `floorToStep` and the scaling to
  quantums round differently: of 0.3 in lots of 0.1 the first makes 0.2, since
  0.3 / 0.1 falls just below 3, while three lots are sent. No property is about this.
* The price of a dYdX order, `set_subticks(subticksPerTick)`, is one tick: only
  its acceptance is modelled, not whether it can ever be filled.
* A dYdX trader whose account number could not be fetched counts as an executor
  (`AddTrader`) and then refuses every leg (`account` in LiveTrader).
* A subaccount number that is given as a text, as `config.sample.json` and
  the repository's README show it, is taken for 0 (`GetNumber`). `StartedAsConfigured`
  says so; it does not say that this is what the user wants.
* A symbol that the file gives twice is excluded: the second subscription
  destroys the first socket with `mutex_` held, and what its destructor waits
  for is library code.
* Attempts of one dYdX call within one second share a client id; the model
  treats them as different orders, like those of the other exchanges.
* Floating-point error is left out: quantities are exact, prices whole.
* A reconnect thread's sleep of three seconds is longer than main needs between
  `ws->start()` and the store into `wsClients_` (`Wake`). Without this
  `OneWriter` fails.
* A pass of the watchdog is one unit of time. When `std::thread` fails inside a
  socket's own callback the exception ends the process; this is not modelled.
  When it fails in the watchdog, `reconnecting_` stays set for good: `stuck` in
  the model, and the properties except it.
* Not modelled: `disconnect()` and `Watchdog::stop()`, which do nothing where
  main ends early and are never reached afterwards (`engine.start()` does not
  return); private feeds, which nothing registers; `getTopNBids`/`getTopNAsks`
  and `bech32::LocateErrors`, which nothing calls; the profit counter, which only
  the log reads; the fee, which reaches only the log; Logger; KeyUtils, protobuf,
  JSON and HTTP formats.

## 6. The plan

In the order of importance; the first nine are done.

1. OrderBook, SharedBook, BookFeed and their proofs.
2. MarketScan; ArbitrageEngine with paper and live legs; PositionLedger.
3. Types, bounds and refinement of the engine proved.
4. LiveTrader, and that its calls are the engine's legs.
5. ExchangeClient, Watchdog and FeedSupervision, with proofs.
6. DydxTrader: the block height, composed with the attempts of LiveTrader.
7. Startup, with the configuration, the wiring and the dYdX address.
8. Every safety property of the runs proved: SharedBook, the scan, the records of
   the engine, DydxTrader, Startup and the address.
9. A proof that the scan asks nothing of BookFeed but QuoteSource.
10. A second feed in FeedSupervision, so that a pass that ends early is the
    consequence of the other feed's exception.
