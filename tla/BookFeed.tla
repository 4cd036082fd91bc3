------------------------------ MODULE BookFeed -------------------------------
(***************************************************************************)
(* One exchange, one symbol: the WebSocket callback that keeps a local     *)
(* OrderBook in step with the exchange's book.  The callback takes the     *)
(* book's mutex once per level, so every intermediate book is visible to   *)
(* the engine's and the watchdog's threads: each level is a step here.     *)
(*                                                                         *)
(*   Deltas = FALSE  BinanceFuturesClient: every frame (depth5) is a whole *)
(*                   snapshot.                                             *)
(*   Deltas = TRUE   BybitFuturesClient and DydxFuturesClient: one         *)
(*                   snapshot per subscription, then frames with the       *)
(*                   levels that changed.                                  *)
(*                                                                         *)
(* TCP delivers frames in the order they were sent, and how far the        *)
(* exchange has run ahead is invisible to the callback; so a frame takes   *)
(* the exchange's book from the one the last frame described to any other  *)
(* uncrossed book.  The order of levels within one side is left open.      *)
(***************************************************************************)
EXTENDS OrderBook

CONSTANTS Deltas,         \* does the exchange send deltas after the snapshot?
          MaxMalformed    \* bound on the frames with a level that cannot be parsed

ASSUME FeedAssumption ==
  /\ Deltas \in BOOLEAN
  /\ MaxMalformed \in Nat

VARIABLES
  conn,       \* "closed", "subscribed" (no frame yet) or "streaming"
  published,  \* the exchange's book as of the frame being handled
  pc,         \* what the callback does next
  kind,       \* the frame being handled: "snapshot" or "delta"
  bidsLeft,   \* bid levels of the frame not applied yet
  asksLeft,   \* ask levels of the frame not applied yet
  book,       \* the local OrderBook
  malformed,  \* frames abandoned so far
  \* History variables, read by the properties only:
  applied,    \* the exchange's book as of the last frame applied to the end
  lastKind,   \* "none", "snapshot" or "delta": the last frame applied
  lossy       \* was a frame abandoned since the last complete snapshot?

vars == <<conn, published, pc, kind, bidsLeft, asksLeft, book, malformed,
          applied, lastKind, lossy>>

\* Every variable has its type; the exchange's own book is never crossed, and
\* the local one holds quantities an exchange can send.
TypeOK ==
  /\ conn \in {"closed", "subscribed", "streaming"}
  /\ published \in UncrossedBooks
  /\ pc \in {"wait", "clear", "apply"}
  /\ kind \in {"snapshot", "delta"}
  /\ bidsLeft \subseteq Prices
  /\ asksLeft \subseteq Prices
  /\ book \in Books
  /\ malformed \in 0 .. MaxMalformed
  /\ applied \in UncrossedBooks
  /\ lastKind \in {"none", "snapshot", "delta"}
  /\ lossy \in BOOLEAN

Init ==
  /\ conn = "closed"
  /\ published = EmptyBook
  /\ pc = "wait"
  /\ kind = "snapshot"
  /\ bidsLeft = {}
  /\ asksLeft = {}
  /\ book = EmptyBook
  /\ malformed = 0
  /\ applied = EmptyBook
  /\ lastKind = "none"
  /\ lossy = FALSE

------------------------------------------------------------------------------
\* Open: the callback (re)subscribes.
Open ==
  /\ conn = "closed"
  /\ conn' = "subscribed"
  /\ UNCHANGED <<published, pc, kind, bidsLeft, asksLeft, book, malformed,
                 applied, lastKind, lossy>>

\* Close or Error, between two callbacks of the same socket.  The book keeps
\* its levels: nothing clears it until the next snapshot.
Close ==
  /\ conn # "closed"
  /\ pc = "wait"
  /\ conn' = "closed"
  /\ UNCHANGED <<published, pc, kind, bidsLeft, asksLeft, book, malformed,
                 applied, lastKind, lossy>>

\* Slips the properties must notice: a snapshot put on top of the old book, a
\* delta whose removals are skipped, price and quantity swapped, asks applied
\* before the bids are done.
SnapshotWithoutClear(b) ==
  /\ pc = "wait"
  /\ conn # "closed"
  /\ conn' = "streaming"
  /\ kind' = "snapshot"
  /\ published' = b
  /\ bidsLeft' = Levels(b.bids)
  /\ asksLeft' = Levels(b.asks)
  /\ pc' = "apply"
  /\ UNCHANGED <<book, malformed, applied, lastKind, lossy>>

DeltaWithoutRemovals(b) ==
  /\ pc = "wait"
  /\ conn = "streaming" /\ Deltas
  /\ kind' = "delta"
  /\ published' = b
  /\ bidsLeft' = {p \in Levels(b.bids) : b.bids[p] # published.bids[p]}
  /\ asksLeft' = {p \in Levels(b.asks) : b.asks[p] # published.asks[p]}
  /\ pc' = "apply"
  /\ UNCHANGED <<conn, book, malformed, applied, lastKind, lossy>>

ApplyBidSwapped(p) ==
  /\ pc = "apply"
  /\ p \in bidsLeft
  /\ book' = UpdateBid(book, published.bids[p], p)
  /\ bidsLeft' = bidsLeft \ {p}
  /\ UNCHANGED <<conn, published, pc, kind, asksLeft, malformed,
                 applied, lastKind, lossy>>

ApplyAskAnytime(p) ==
  /\ pc = "apply"
  /\ p \in asksLeft
  /\ book' = UpdateAsk(book, p, published.asks[p])
  /\ asksLeft' = asksLeft \ {p}
  /\ UNCHANGED <<conn, published, pc, kind, bidsLeft, malformed,
                 applied, lastKind, lossy>>

\* A snapshot lists every level of the exchange's book.
ReceiveSnapshot(b) ==
  /\ pc = "wait"
  /\ conn # "closed"
  /\ conn' = "streaming"
  /\ kind' = "snapshot"
  /\ published' = b
  /\ bidsLeft' = Levels(b.bids)
  /\ asksLeft' = Levels(b.asks)
  /\ pc' = "clear"
  /\ UNCHANGED <<book, malformed, applied, lastKind, lossy>>

\* ob->clear(), a critical section of its own.
ClearBook ==
  /\ pc = "clear"
  /\ book' = Clear(book)
  /\ pc' = "apply"
  /\ UNCHANGED <<conn, published, kind, bidsLeft, asksLeft, malformed,
                 applied, lastKind, lossy>>

\* A delta lists the levels that changed, with quantity 0 for the ones gone.
ReceiveDelta(b) ==
  /\ pc = "wait"
  /\ conn = "streaming" /\ Deltas
  /\ kind' = "delta"
  /\ published' = b
  /\ bidsLeft' = {p \in Prices : b.bids[p] # published.bids[p]}
  /\ asksLeft' = {p \in Prices : b.asks[p] # published.asks[p]}
  /\ pc' = "apply"
  /\ UNCHANGED <<conn, book, malformed, applied, lastKind, lossy>>

ApplyBid(p) ==
  /\ pc = "apply"
  /\ p \in bidsLeft
  /\ book' = UpdateBid(book, p, published.bids[p])
  /\ bidsLeft' = bidsLeft \ {p}
  /\ UNCHANGED <<conn, published, pc, kind, asksLeft, malformed,
                 applied, lastKind, lossy>>

\* The loop over the asks starts when the one over the bids is done.
ApplyAsk(p) ==
  /\ pc = "apply"
  /\ bidsLeft = {}
  /\ p \in asksLeft
  /\ book' = UpdateAsk(book, p, published.asks[p])
  /\ asksLeft' = asksLeft \ {p}
  /\ UNCHANGED <<conn, published, pc, kind, bidsLeft, malformed,
                 applied, lastKind, lossy>>

\* The end of a frame: watchdog_->markUpdate().
EndFrame ==
  /\ pc = "apply"
  /\ bidsLeft = {} /\ asksLeft = {}
  /\ pc' = "wait"
  /\ applied' = published
  /\ lastKind' = kind
  /\ lossy' = (lossy /\ kind = "delta")
  /\ UNCHANGED <<conn, published, kind, bidsLeft, asksLeft, book, malformed>>

\* json::parse or std::stod throws: the catch block drops the rest of the
\* frame, keeps what was applied, and does not call markUpdate().
AbandonFrame ==
  /\ pc = "clear" \/ (pc = "apply" /\ bidsLeft \cup asksLeft # {})
  /\ malformed < MaxMalformed
  /\ malformed' = malformed + 1
  /\ pc' = "wait"
  /\ bidsLeft' = {}
  /\ asksLeft' = {}
  /\ lossy' = TRUE
  /\ UNCHANGED <<conn, published, kind, book, applied, lastKind>>

Next ==
  \/ Open
  \/ Close
  \/ \E b \in UncrossedBooks : ReceiveSnapshot(b) \/ ReceiveDelta(b)
  \/ ClearBook
  \/ \E p \in Prices : ApplyBid(p) \/ ApplyAsk(p)
  \/ EndFrame
  \/ AbandonFrame

Spec == Init /\ [][Next]_vars

------------------------------------------------------------------------------
\* Every level of x is a level of y, with the same quantity.
Within(x, y) == \A p \in Levels(x) : x[p] = y[p]

Settled == pc = "wait" /\ ~ lossy

\* Between frames the local book holds no level the exchange did not publish:
\* the engine never acts on a phantom price or on an outdated quantity.
NoPhantomLevels ==
  Settled => Within(book.bids, applied.bids) /\ Within(book.asks, applied.asks)

\* A snapshot repairs everything, abandoned frames included.
SnapshotIsExact == Settled /\ lastKind = "snapshot" => book = applied

\* Deltas never lose an ask: the bids of a delta are applied first, and none
\* of them, removed or new, is at or above an ask that stays.
AsksAreExact == Settled => book.asks = applied.asks

\* include/core/OrderBook.hpp: "Update or remove a price level."  Applying
\* every changed level of the exchange's book must give the exchange's book.
DeltaIsExact == Settled => book = applied

Source == INSTANCE QuoteSource WITH quote <- Top(book)

\* The book implements the quote source MarketScan is built on: what the four
\* getters return together is, at every moment, an uncrossed quote.
QuotesAreUncrossed == Source!Spec
==============================================================================
