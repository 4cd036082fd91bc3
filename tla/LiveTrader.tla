------------------------------ MODULE LiveTrader ------------------------------
(***************************************************************************)
(* executeTrade of BinanceTrader, BybitTrader and DydxTrader: load the     *)
(* symbol's rules, cut the quantity to the lot size, then send a market    *)
(* order up to MaxAttempts times until an answer says it was accepted.     *)
(* httpPost gives up after one second; an order it gave up on is adrift:   *)
(* it may still be executed, before or after the next attempt, or never.   *)
(*                                                                         *)
(*   Throws = TRUE  DydxTrader: the order is signed inside the loop, and   *)
(*                  KeyUtils throws when that fails; without an account    *)
(*                  number nothing is sent at all.                         *)
(*                                                                         *)
(* executed, adrift and sent describe the call in progress or, between     *)
(* calls, the last one.                                                    *)
(***************************************************************************)
EXTENDS Legs

CONSTANTS
  Throws,
  Requests,      \* the quantities the engine asks for
  Prices,        \* and the prices it expects
  Step,          \* the lot size of the symbol, and the smallest order
  MinQty,
  MaxAttempts    \* 5 in the code

ASSUME TraderAssumption ==
  /\ Throws \in BOOLEAN
  /\ Requests \subseteq Fractions
  /\ Prices \subseteq Nat
  /\ Step \in Nat \ {0}
  /\ MinQty \in Nat
  /\ MaxAttempts \in Nat \ {0}

VARIABLES
  pc,         \* what executeTrade does next; "ready" between calls
  account,    \* accountNumber_ # 0, fixed by the constructor
  rules,      \* is the symbol in rulesCache_?
  maxQty,     \* the arguments of the call
  price,
  attempt,
  order,      \* the order of this attempt, at the exchange
  adrift,     \* orders that were given up on and are not settled
  executed,   \* orders the exchange executed
  fill,       \* fillRes: ok, qty and cost
  threw       \* did the call end with an exception?

vars == <<pc, account, rules, maxQty, price, attempt, order, adrift, executed,
          fill, threw>>

NoFill == [ok |-> FALSE, qty |-> 0, cost |-> 0]

\* Every variable has its type.
TypeOK ==
  /\ pc \in {"ready", "rules", "clamp", "send", "await", "pause"}
  /\ account \in BOOLEAN
  /\ rules \in BOOLEAN
  /\ maxQty \in Requests \cup {Whole(0)}
  /\ price \in Prices \cup {0}
  /\ attempt \in 0 .. MaxAttempts
  /\ order \in {"none", "sent", "executed", "refused"}
  /\ adrift \in Nat
  /\ executed \in Nat
  /\ fill \in [ok : BOOLEAN, qty : Nat, cost : Nat]
  /\ threw \in BOOLEAN

Init ==
  /\ pc = "ready"
  /\ account \in BOOLEAN /\ (Throws \/ account)
  /\ rules = FALSE
  /\ maxQty = Whole(0)
  /\ price = 0
  /\ attempt = 0
  /\ order = "none"
  /\ adrift = 0
  /\ executed = 0
  /\ fill = NoFill
  /\ threw = FALSE

------------------------------------------------------------------------------
\* clampQtyForSymbol: what is left of the quantity, 0 when it is too little.
ClampQty ==
  LET q == FloorToStep(maxQty, Step) IN IF q < MinQty THEN 0 ELSE q

\* executeTrade is called: a quantity of 0 and a trader without an account are
\* turned away at once.
Call(q, p) ==
  /\ pc = "ready"
  /\ pc' = IF q[1] > 0 /\ account THEN "rules" ELSE "ready"
  /\ maxQty' = q
  /\ price' = p
  /\ attempt' = 0
  /\ order' = "none"
  /\ adrift' = 0
  /\ executed' = 0
  /\ fill' = NoFill
  /\ threw' = FALSE
  /\ UNCHANGED <<account, rules>>

\* loadSymbolRulesIfNeeded: from the cache, or by an HTTP request that may fail.
LoadRules ==
  /\ pc = "rules"
  /\ \/ rules' = TRUE /\ pc' = "clamp"
     \/ ~ rules /\ UNCHANGED rules /\ pc' = "ready"
  /\ UNCHANGED <<account, maxQty, price, attempt, order, adrift, executed, fill, threw>>

Clamp ==
  /\ pc = "clamp"
  /\ pc' = IF ClampQty > 0 THEN "send" ELSE "ready"
  /\ UNCHANGED <<account, rules, maxQty, price, attempt, order, adrift, executed,
                 fill, threw>>

\* Slips the properties must notice: an answer taken for an acceptance without
\* a look at its code, a report of the quantity asked for, a request without a
\* timeout, an attempt too many.
AcceptedUnread ==
  /\ pc = "await"
  /\ order # "sent"
  /\ pc' = "ready"
  /\ order' = "none"
  /\ fill' = [ok |-> TRUE, qty |-> ClampQty, cost |-> ClampQty * price]
  /\ UNCHANGED <<account, rules, maxQty, price, attempt, adrift, executed, threw>>

AcceptedAsAsked ==
  /\ pc = "await"
  /\ order = "executed"
  /\ pc' = "ready"
  /\ order' = "none"
  /\ fill' = [ok |-> TRUE, qty |-> ClampQty, cost |-> PaperCost(price, maxQty)]
  /\ UNCHANGED <<account, rules, maxQty, price, attempt, adrift, executed, threw>>

Send ==
  /\ pc = "send"
  /\ pc' = "await"
  /\ attempt' = attempt + 1
  /\ order' = "sent"
  /\ UNCHANGED <<account, rules, maxQty, price, adrift, executed, fill, threw>>

SigningFails ==
  /\ pc = "send"
  /\ Throws
  /\ pc' = "ready"
  /\ threw' = TRUE
  /\ UNCHANGED <<account, rules, maxQty, price, attempt, order, adrift, executed, fill>>

\* The exchange settles the order of this attempt.
Settle ==
  /\ order = "sent"
  /\ \/ order' = "executed" /\ executed' = executed + 1
     \/ order' = "refused" /\ UNCHANGED executed
  /\ UNCHANGED <<pc, account, rules, maxQty, price, attempt, adrift, fill, threw>>

\* The exchange settles an order nobody waits for any more.
SettleAdrift ==
  /\ adrift > 0
  /\ adrift' = adrift - 1
  /\ executed' \in {executed, executed + 1}
  /\ UNCHANGED <<pc, account, rules, maxQty, price, attempt, order, fill, threw>>

Accepted ==
  /\ pc = "await"
  /\ order = "executed"
  /\ pc' = "ready"
  /\ order' = "none"
  /\ fill' = [ok |-> TRUE, qty |-> ClampQty, cost |-> ClampQty * price]
  /\ UNCHANGED <<account, rules, maxQty, price, attempt, adrift, executed, threw>>

NotAcceptedIfAnswered ==
  /\ pc = "await"
  /\ order # "sent"
  /\ pc' = "pause"
  /\ order' = "none"
  /\ UNCHANGED <<account, rules, maxQty, price, attempt, adrift, executed, fill, threw>>

\* A refusal, an answer that cannot be parsed, or no answer within a second.
NotAccepted ==
  /\ pc = "await"
  /\ pc' = "pause"
  /\ order' = "none"
  /\ adrift' = IF order = "sent" THEN adrift + 1 ELSE adrift
  /\ UNCHANGED <<account, rules, maxQty, price, attempt, executed, fill, threw>>

RetryOnceMore ==
  /\ pc = "pause"
  /\ pc' = IF attempt <= MaxAttempts THEN "send" ELSE "ready"
  /\ UNCHANGED <<account, rules, maxQty, price, attempt, order, adrift, executed,
                 fill, threw>>

\* 200 ms later: the next attempt, if there is one left.
Retry ==
  /\ pc = "pause"
  /\ pc' = IF attempt < MaxAttempts THEN "send" ELSE "ready"
  /\ UNCHANGED <<account, rules, maxQty, price, attempt, order, adrift, executed,
                 fill, threw>>

Trader ==
  \/ LoadRules
  \/ Clamp
  \/ Send
  \/ SigningFails
  \/ Accepted
  \/ NotAccepted
  \/ Retry

Next ==
  \/ \E q \in Requests, p \in Prices : Call(q, p)
  \/ Trader
  \/ Settle
  \/ SettleAdrift

Spec == Init /\ [][Next]_vars

\* executeTrade runs on: every HTTP call it makes has a timeout.
FairSpec == Spec /\ WF_vars(Trader)

------------------------------------------------------------------------------
\* The outcome of the last call, as the engine's model counts it.
FloorQty == FloorToStep(maxQty, Step)

Outcome ==
  [ok |-> fill.ok, cost |-> fill.cost, executed |-> executed * (FloorQty * price),
   throws |-> threw, fault |-> ~ fill.ok \/ executed # 1]

\* Whatever was lost, repeated or executed late, a call that has ended is one of
\* the legs ArbitrageEngine reckons with - at every moment after its end, also
\* while orders are still adrift.
OutcomeIsALiveLeg ==
  pc = "ready" => Outcome \in LiveLeg(FloorQty, price, MaxAttempts)

\* A leg reported as ok was executed, by no more orders than were sent, and
\* its report is for no more than was asked; accepted at the first attempt it
\* is one order, with nothing adrift.
OkWasExecuted ==
  pc = "ready" /\ fill.ok =>
    /\ 1 <= executed /\ executed <= attempt
    /\ fill.qty * maxQty[2] <= maxQty[1]
    /\ attempt = 1 => executed = 1 /\ adrift = 0

\* executeTrade always comes back: the engine's loop is not held up for ever.
TradeReturns == []<>(pc = "ready")

------------------------------------------------------------------------------
\* include/core/ITradeExecutor.hpp: "maxQty: maximum quantity to trade."
AtMostMaxQty == executed * FloorQty * maxQty[2] <= maxQty[1]
==============================================================================
