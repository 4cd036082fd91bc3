----------------------------- MODULE SharedBook ------------------------------
(***************************************************************************)
(* An OrderBook object under an arbitrary sequence of calls, from whatever *)
(* threads: the mutex makes the calls a sequence.  The log of calls is a   *)
(* history variable; Reference says, without replaying anything, what the  *)
(* book has to contain after such a sequence.                              *)
(***************************************************************************)
EXTENDS OrderBook, Sequences

CONSTANT MaxCalls   \* bound on the number of calls

VARIABLES book,     \* bids_ and asks_
          log       \* the calls made so far

vars == <<book, log>>

Calls == [op : {"bid", "ask"}, price : Prices, qty : Quantities \cup {0}]
           \cup {[op |-> "clear"]}

\* The book stores only quantities it was given, on the prices it was given.
TypeOK ==
  /\ book \in Books
  /\ log \in Seq(Calls)

Init ==
  /\ book = EmptyBook
  /\ log = <<>>

CallUpdateBid(price, qty) ==
  /\ book' = UpdateBid(book, price, qty)
  /\ log' = Append(log, [op |-> "bid", price |-> price, qty |-> qty])

CallUpdateAsk(price, qty) ==
  /\ book' = UpdateAsk(book, price, qty)
  /\ log' = Append(log, [op |-> "ask", price |-> price, qty |-> qty])

CallClear ==
  /\ book' = Clear(book)
  /\ log' = Append(log, [op |-> "clear"])

Next ==
  /\ Len(log) < MaxCalls
  /\ \/ \E price \in Prices, qty \in Quantities \cup {0} :
          \/ CallUpdateBid(price, qty)
          \/ CallUpdateAsk(price, qty)
     \/ CallClear

Spec == Init /\ [][Next]_vars

------------------------------------------------------------------------------
\* No sequence of updates leaves a bid at or above an ask: the engine and
\* the watchdog may rely on bid < ask for any one state of a book.
NeverCrossed == NotCrossed(book)

\* Call i set the bid at `price`, and no later call displaced it.
StandingBid(calls, i, price) ==
  /\ calls[i].op = "bid" /\ calls[i].price = price
  /\ \A j \in i + 1 .. Len(calls) :
       /\ calls[j].op # "clear"
       /\ calls[j].op = "bid" => calls[j].price # price
       /\ calls[j].op = "ask" => calls[j].price > price

StandingAsk(calls, i, price) ==
  /\ calls[i].op = "ask" /\ calls[i].price = price
  /\ \A j \in i + 1 .. Len(calls) :
       /\ calls[j].op # "clear"
       /\ calls[j].op = "ask" => calls[j].price # price
       /\ calls[j].op = "bid" => calls[j].price < price

StandingBids(calls, price) ==
  {calls[i].qty : i \in {k \in DOMAIN calls : StandingBid(calls, k, price)}}

StandingAsks(calls, price) ==
  {calls[i].qty : i \in {k \in DOMAIN calls : StandingAsk(calls, k, price)}}

TheOnly(qtys) == IF qtys = {} THEN 0 ELSE CHOOSE q \in qtys : TRUE

Reference(calls) ==
  [bids |-> [p \in Prices |-> TheOnly(StandingBids(calls, p))],
   asks |-> [p \in Prices |-> TheOnly(StandingAsks(calls, p))]]

\* The newest information wins: a level is in the book exactly when its last
\* update is newer than every update of the other side that crosses it and
\* than the last clear().
LatestUpdateWins == book = Reference(log)
==============================================================================
