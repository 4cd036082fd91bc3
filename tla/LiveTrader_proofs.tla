-------------------------- MODULE LiveTrader_proofs --------------------------
(***************************************************************************)
(* What a live trader's call can end as, for any number of attempts, any   *)
(* lot size, and whatever is lost, refused or executed late; that a dYdX   *)
(* trader, with its block heights, is a live trader; and that its orders   *)
(* are acceptable again once a refusal has told it the height.             *)
(***************************************************************************)
EXTENDS DydxTrader, Amounts_proofs

\* No order is counted twice: what was executed, is adrift, or is on its way,
\* was sent.
OrdersInv ==
  /\ executed + adrift <= attempt
  /\ order = "sent" => executed + adrift < attempt
  /\ order = "executed" => 1 <= executed
  /\ order # "none" => pc = "await"

\* Between the clamp and the end of the call nothing is reported yet, and there
\* is something to send.
CallInv ==
  /\ attempt > 0 \/ threw \/ pc \in {"send", "await", "pause"} => ClampQty > 0
  /\ pc \in {"rules", "clamp"} => attempt = 0
  /\ attempt = 0 => pc \notin {"await", "pause"}
  /\ pc = "send" => attempt < MaxAttempts
  /\ pc # "ready" => ~ threw
  /\ threw => attempt < MaxAttempts

ReportInv ==
  /\ ~ fill.ok => fill.cost = 0
  /\ fill.ok => /\ pc = "ready" /\ ~ threw
                /\ 1 <= executed
                /\ ClampQty > 0
                /\ fill.qty = ClampQty /\ fill.cost = ClampQty * price
                /\ attempt = 1 => adrift = 0

Inv == TypeOK /\ OrdersInv /\ CallInv /\ ReportInv

------------------------------------------------------------------------------
LEMMA ClampBounds ==
  ASSUME TypeOK
  PROVE  /\ FloorQty \in Nat
         /\ FloorQty * maxQty[2] <= maxQty[1]
         /\ ClampQty \in Nat
         /\ ClampQty > 0 => ClampQty = FloorQty
         /\ price \in Nat
<1>1. maxQty \in Fractions
  BY TraderAssumption DEF TypeOK, Whole, Fractions
<1>2. FloorQty \in Nat /\ FloorQty * maxQty[2] <= maxQty[1]
  BY <1>1, TraderAssumption, FloorToStepBounds DEF FloorQty
<1>3. ClampQty \in {0, FloorQty}
  BY DEF ClampQty, FloorQty
<1>4. price \in Nat
  BY TraderAssumption DEF TypeOK
<1> QED
  BY <1>2, <1>3, <1>4

LEMMA NoFillType == NoFill \in [ok : BOOLEAN, qty : Nat, cost : Nat]
BY DEF NoFill

LEMMA InitInv == Init => Inv
<1> SUFFICES ASSUME Init PROVE Inv
  OBVIOUS
<1>1. TypeOK
  <2>1. fill \in [ok : BOOLEAN, qty : Nat, cost : Nat]
    BY NoFillType DEF Init
  <2>2. /\ pc = "ready" /\ order = "none"
        /\ account \in BOOLEAN /\ rules \in BOOLEAN /\ threw \in BOOLEAN
        /\ maxQty \in Requests \cup {Whole(0)} /\ price \in Prices \cup {0}
    BY DEF Init
  <2>3. attempt \in 0 .. MaxAttempts /\ adrift \in Nat /\ executed \in Nat
    BY TraderAssumption DEF Init
  <2> QED
    BY <2>1, <2>2, <2>3 DEF TypeOK
<1>2. OrdersInv /\ CallInv
  BY TraderAssumption DEF Init, OrdersInv, CallInv
<1>3. ReportInv
  BY DEF Init, ReportInv, NoFill
<1> QED
  BY <1>1, <1>2, <1>3 DEF Inv

LEMMA CallKeepsInv ==
  ASSUME Inv, NEW q \in Requests, NEW p \in Prices, Call(q, p)
  PROVE  Inv'
<1>1. TypeOK'
  <2>1. fill' \in [ok : BOOLEAN, qty : Nat, cost : Nat]
    BY NoFillType DEF Call
  <2>2. /\ pc' \in {"ready", "rules"} /\ order' = "none" /\ threw' \in BOOLEAN
        /\ maxQty' \in Requests \cup {Whole(0)} /\ price' \in Prices \cup {0}
    BY DEF Call
  <2>3. account' \in BOOLEAN /\ rules' \in BOOLEAN
    BY DEF Inv, TypeOK, Call
  <2>4. attempt' \in 0 .. MaxAttempts /\ adrift' \in Nat /\ executed' \in Nat
    BY TraderAssumption DEF Call
  <2> QED
    BY <2>1, <2>2, <2>3, <2>4 DEF TypeOK
<1>2. OrdersInv' /\ CallInv'
  BY TraderAssumption DEF Call, OrdersInv, CallInv
<1>3. ReportInv'
  BY DEF Call, ReportInv, NoFill
<1> QED
  BY <1>1, <1>2, <1>3 DEF Inv

LEMMA TraderKeepsInv == ASSUME Inv, Trader PROVE Inv'
<1>1. UNCHANGED ClampQty
  BY DEF Trader, LoadRules, Clamp, Send, SigningFails, Accepted, NotAccepted, Retry,
         ClampQty
<1>2. TypeOK
  BY DEF Inv
<1>3. CASE LoadRules \/ Clamp \/ SigningFails \/ Retry
  <2>1. TypeOK'
    BY <1>2, <1>3 DEF TypeOK, LoadRules, Clamp, SigningFails, Retry
  <2>2. OrdersInv'
    BY <1>3 DEF Inv, OrdersInv, LoadRules, Clamp, SigningFails, Retry
  <2>3. CallInv'
    BY <1>1, <1>2, <1>3, TraderAssumption
    DEF Inv, TypeOK, CallInv, LoadRules, Clamp, SigningFails, Retry
  <2>4. ReportInv'
    BY <1>1, <1>3 DEF Inv, ReportInv, LoadRules, Clamp, SigningFails, Retry
  <2> QED
    BY <2>1, <2>2, <2>3, <2>4 DEF Inv
<1>4. CASE Send
  <2>1. TypeOK'
    BY <1>2, <1>4, TraderAssumption DEF Inv, TypeOK, CallInv, Send
  <2>2. OrdersInv' /\ CallInv'
    BY <1>1, <1>2, <1>4, TraderAssumption DEF Inv, TypeOK, OrdersInv, CallInv, Send
  <2>3. ReportInv'
    BY <1>1, <1>4 DEF Inv, ReportInv, Send
  <2> QED
    BY <2>1, <2>2, <2>3 DEF Inv
<1>5. CASE NotAccepted
  <2>1. TypeOK' /\ OrdersInv' /\ CallInv'
    BY <1>1, <1>2, <1>5 DEF Inv, TypeOK, OrdersInv, CallInv, NotAccepted
  <2>2. ReportInv'
    BY <1>1, <1>5 DEF Inv, ReportInv, NotAccepted
  <2> QED
    BY <2>1, <2>2 DEF Inv
<1>6. CASE Accepted
  <2> DEFINE cost == ClampQty * price
  <2>1. ClampQty \in Nat /\ cost \in Nat /\ ClampQty > 0
    BY <1>2, <1>6, ClampBounds, ProductType DEF Inv, CallInv, Accepted
  <2>2. fill' = [ok |-> TRUE, qty |-> ClampQty, cost |-> cost]
    BY <1>6 DEF Accepted
  <2>3. cost' = cost
    BY <1>1, <1>6 DEF Accepted
  <2> HIDE DEF cost
  <2>4. TypeOK' /\ OrdersInv' /\ CallInv'
    BY <1>1, <1>2, <1>6, <2>1, <2>2 DEF Inv, TypeOK, OrdersInv, CallInv, Accepted
  <2>5. ReportInv'
    <3>1. attempt' = 1 => adrift' = 0
      BY <1>2, <1>6 DEF Inv, TypeOK, OrdersInv, Accepted
    <3>2. pc' = "ready" /\ ~ threw' /\ 1 <= executed' /\ ClampQty' > 0
      BY <1>1, <1>6, <2>1 DEF Inv, OrdersInv, CallInv, Accepted
    <3> QED
      BY <1>1, <2>2, <2>3, <3>1, <3>2 DEF ReportInv, cost
  <2> QED
    BY <2>4, <2>5 DEF Inv
<1> QED
  BY <1>3, <1>4, <1>5, <1>6 DEF Trader

LEMMA ExchangeKeepsInv == ASSUME Inv, Settle \/ SettleAdrift PROVE Inv'
<1>1. UNCHANGED ClampQty
  BY DEF Settle, SettleAdrift, ClampQty
<1>2. TypeOK' /\ OrdersInv' /\ CallInv'
  BY <1>1 DEF Inv, TypeOK, OrdersInv, CallInv, Settle, SettleAdrift
<1>3. ReportInv'
  BY <1>1 DEF Inv, TypeOK, OrdersInv, ReportInv, Settle, SettleAdrift
<1> QED
  BY <1>2, <1>3 DEF Inv

LEMMA Invariance == Spec => []Inv
<1>1. Inv /\ [Next]_vars => Inv'
  <2> SUFFICES ASSUME Inv, [Next]_vars PROVE Inv'
    OBVIOUS
  <2>1. CASE UNCHANGED vars
    BY <2>1 DEF vars, Inv, TypeOK, OrdersInv, CallInv, ReportInv, ClampQty
  <2> QED
    BY <2>1, CallKeepsInv, TraderKeepsInv, ExchangeKeepsInv DEF Next
<1> QED
  BY <1>1, InitInv, PTL DEF Spec

------------------------------------------------------------------------------
LEMMA InvMeansExecuted == Inv => OkWasExecuted
<1> SUFFICES ASSUME Inv, fill.ok PROVE OkWasExecuted
  BY DEF OkWasExecuted
<1>1. TypeOK
  BY DEF Inv
<1>2. /\ 1 <= executed /\ executed <= attempt
      /\ attempt = 1 => executed = 1 /\ adrift = 0
  BY <1>1 DEF Inv, TypeOK, OrdersInv, ReportInv
<1>3. fill.qty = FloorQty
  BY <1>1, ClampBounds DEF Inv, ReportInv
<1> QED
  BY <1>1, <1>2, <1>3, ClampBounds DEF OkWasExecuted

\* The outcome is one of the three kinds LiveLeg lists.
LEMMA InvMeansLiveLeg == Inv => OutcomeIsALiveLeg
<1> SUFFICES ASSUME Inv, pc = "ready"
             PROVE  Outcome \in LiveLeg(FloorQty, price, MaxAttempts)
  BY DEF OutcomeIsALiveLeg
<1> DEFINE cost == FloorQty * price
<1>1. TypeOK
  BY DEF Inv
<1>2. /\ FloorQty \in Nat /\ executed \in Nat /\ attempt \in Nat /\ cost \in Nat
      /\ executed <= attempt /\ attempt <= MaxAttempts
      /\ MaxAttempts \in Nat \ {0}
  BY <1>1, ClampBounds, TraderAssumption, ProductType DEF Inv, TypeOK, OrdersInv
<1>3. Outcome = [ok |-> fill.ok, cost |-> fill.cost, executed |-> executed * cost,
                 throws |-> threw, fault |-> ~ fill.ok \/ executed # 1]
  BY DEF Outcome
<1>4. fill.ok \in BOOLEAN /\ threw \in BOOLEAN
  BY <1>1 DEF TypeOK
<1>5. CASE fill.ok
  <2>1. /\ FloorQty > 0 /\ fill.cost = cost /\ ~ threw
        /\ executed \in 1 .. MaxAttempts
    BY <1>1, <1>2, <1>5, ClampBounds DEF Inv, ReportInv
  <2>2. Outcome = [ok |-> TRUE, cost |-> cost, executed |-> executed * cost,
                   throws |-> FALSE, fault |-> ~ TRUE \/ executed # 1]
    <3> HIDE DEF cost
    <3>1. fill.ok = TRUE /\ threw = FALSE
      BY <1>4, <1>5, <2>1
    <3> QED
      BY <1>3, <2>1, <3>1
  <2> QED
    BY <1>2, <2>1, <2>2 DEF LiveLeg
<1>6. CASE ~ fill.ok /\ executed = 0 /\ ~ threw
  <2>1. fill.cost = 0 /\ executed * cost = 0 /\ fill.ok = FALSE /\ threw = FALSE
    BY <1>2, <1>4, <1>6 DEF Inv, ReportInv
  <2>2. Outcome = Unfilled
    <3> HIDE DEF cost
    <3> QED
      BY <1>3, <2>1 DEF Unfilled
  <2> QED
    BY <2>2 DEF LiveLeg
<1>7. CASE ~ fill.ok /\ (executed > 0 \/ threw)
  <2>1. FloorQty > 0 /\ fill.cost = 0
    BY <1>1, <1>2, <1>7, ClampBounds DEF Inv, CallInv, ReportInv
  <2>2. CASE threw
    <3>1. executed \in 0 .. MaxAttempts - 1
      BY <1>2, <2>2 DEF Inv, CallInv
    <3>2. Outcome = [ok |-> FALSE, cost |-> 0, executed |-> executed * cost,
                     throws |-> TRUE, fault |-> TRUE]
      BY <1>3, <1>4, <1>7, <2>1, <2>2
    <3> QED
      BY <1>2, <2>1, <3>1, <3>2 DEF LiveLeg
  <2>3. CASE ~ threw
    <3>1. executed \in 1 .. MaxAttempts
      BY <1>2, <1>7, <2>3
    <3>2. Outcome = [ok |-> FALSE, cost |-> 0, executed |-> executed * cost,
                     throws |-> FALSE, fault |-> ~ FALSE \/ executed # 1]
      BY <1>3, <1>4, <1>7, <2>1, <2>3
    <3> QED
      BY <1>2, <2>1, <3>1, <3>2 DEF LiveLeg
  <2> QED
    BY <2>2, <2>3
<1> QED
  BY <1>2, <1>5, <1>6, <1>7

\* The variables of executeTrade keep their types; there are never more than
\* MaxAttempts attempts.
THEOREM TraderTypeOK == Spec => []TypeOK
BY Invariance, PTL DEF Inv

\* What a live trader reports as ok was executed, and is no more than was asked.
THEOREM OkLegsWereExecuted == Spec => []OkWasExecuted
BY Invariance, InvMeansExecuted, PTL

\* Every call of a live trader ends as one of the legs the engine's model
\* reckons with.
THEOREM CallsAreLiveLegs == Spec => []OutcomeIsALiveLeg
BY Invariance, InvMeansLiveLeg, PTL

------------------------------------------------------------------------------
(* DydxTrader is a LiveTrader.                                             *)
\* Whatever the two threads do with the block height, no step of theirs is one
\* that executeTrade of a LiveTrader cannot take.
LEMMA DydxStepIsATraderStep == [DydxNext]_dydxVars => [Next]_vars
<1> SUFFICES ASSUME [DydxNext]_dydxVars PROVE Next \/ UNCHANGED vars
  OBVIOUS
<1>1. CASE \E q \in Requests, p \in Prices :
             DydxCall(q, p) /\ UNCHANGED <<chainVars, blockVars>>
  BY <1>1 DEF DydxCall, Next
<1>2. CASE DydxTraderStep
  BY <1>2
  DEF DydxTraderStep, ReadClock, LoadTime, DydxSend, DydxSigningFails, DydxNotAccepted,
      DydxRetry, SyncHeight, SyncTime, Next, Trader
<1>3. CASE Exchange
  BY <1>3 DEF Exchange, DydxSettle, Next
<1>4. CASE Tracker \/ Elapse
  BY <1>4 DEF Tracker, Elapse
<1>5. CASE OutOfTime \/ UNCHANGED dydxVars
  BY <1>5 DEF OutOfTime, dydxVars
<1> QED
  BY <1>1, <1>2, <1>3, <1>4, <1>5 DEF DydxNext

\* The block heights only delay a LiveTrader and choose among its steps.
THEOREM DydxIsALiveTrader == DydxSpec => Spec
<1>1. DydxInit => Init
  BY DEF DydxInit
<1> QED
  BY <1>1, DydxStepIsATraderStep, PTL DEF DydxSpec, Spec

\* What holds of every LiveTrader holds of DydxTrader: what it reports as ok was
\* executed and is no more than was asked.
THEOREM DydxOkLegsWereExecuted == DydxSpec => []OkWasExecuted
BY DydxIsALiveTrader, OkLegsWereExecuted, PTL

\* Its calls, too, end as one of the legs the engine's model reckons with.
THEOREM DydxCallsAreLiveLegs == DydxSpec => []OutcomeIsALiveLeg
BY DydxIsALiveTrader, CallsAreLiveLegs, PTL

------------------------------------------------------------------------------
(* Its clocks and the chain.                                               *)

\* No thread has stored a moment that is still to come.
ClockInv ==
  /\ DydxTypeOK
  /\ lastTime <= now
  /\ credit <= Ahead

LEMMA DydxConstants ==
  /\ Ahead \in Nat /\ FirstHeight \in Nat /\ Uptime \in Nat /\ Stall \in Nat
  /\ Margin \in Nat /\ Window \in Nat
  /\ PostTimeout \in Nat /\ GetTimeout \in Nat /\ Pause \in Nat /\ SleepTime \in Nat
  /\ CallTimes \subseteq Nat
  /\ Stall < 10 /\ NotRead \notin Int
BY DydxAssumption

LEMMA ClockInit == DydxInit => ClockInv
<1> SUFFICES ASSUME DydxInit PROVE ClockInv
  OBVIOUS
<1>1. TypeOK
  BY InitInv DEF DydxInit, Inv
<1>2. /\ now = Uptime /\ height = FirstHeight /\ credit = Ahead
      /\ lastHeight = 0 /\ lastTime = 0 /\ trackerSince = Uptime /\ asked = FirstHeight
      /\ fetched = 0 /\ goodTil = 0 /\ since = Uptime /\ told = 0
      /\ Uptime \in Nat /\ FirstHeight \in Nat /\ Ahead \in Nat
  BY DydxConstants DEF DydxInit
<1>3. /\ tracker = "fetch" /\ clock = NotRead /\ elapsed = NotRead
      /\ resync = "no" /\ synced = FALSE
  BY DEF DydxInit
<1>4. {now, height, credit, lastHeight, lastTime, trackerSince, asked, fetched, goodTil,
       since, told} \subseteq Nat
  BY <1>2
<1>5. lastTime <= now /\ credit <= Ahead
  BY <1>2
<1> QED
  BY <1>1, <1>3, <1>4, <1>5 DEF ClockInv, DydxTypeOK

LEMMA TrackerKeepsClock == ASSUME ClockInv, TypeOK', Tracker PROVE ClockInv'
<1>1. /\ {now, height, credit, lastHeight, lastTime, trackerSince, asked, fetched}
           \subseteq Nat
      /\ lastTime <= now
      /\ UNCHANGED <<chainVars, orderVars>>
  BY DEF ClockInv, DydxTypeOK, Tracker
<1>2. /\ {lastHeight', lastTime', trackerSince', asked', fetched'} \subseteq Nat
      /\ tracker' \in {"sleep", "fetch", "height", "time"} /\ lastTime' <= now
  BY <1>1 DEF Tracker, Fetch, FetchAnswered, FetchFails, StoreHeight, StoreTime
<1> QED
  BY <1>1, <1>2 DEF ClockInv, DydxTypeOK, chainVars, orderVars

\* In a step of the trader's the chain and the clocks stand still.
LEMMA TraderKeepsClock ==
  ASSUME ClockInv, TypeOK', DydxTraderStep
  PROVE  ClockInv'
<1>1. /\ {now, height, credit, lastHeight, lastTime, trackerSince, asked, fetched,
          goodTil, since, told} \subseteq Nat
      /\ lastTime <= now /\ credit <= Ahead
      /\ tracker \in {"sleep", "fetch", "height", "time"}
      /\ clock \in Nat \cup {NotRead} /\ elapsed \in Int \cup {NotRead}
      /\ resync \in {"no", "height", "time"} /\ synced \in BOOLEAN
      /\ UNCHANGED <<now, height, credit>>
  BY DEF ClockInv, DydxTypeOK, DydxTraderStep, chainVars
<1>2. CASE (LoadRules \/ Clamp \/ Accepted \/ DydxRetry) /\ UNCHANGED orderVars
           /\ UNCHANGED blockVars
  BY <1>1, <1>2 DEF ClockInv, DydxTypeOK, orderVars, blockVars
<1>3. CASE (ReadClock \/ LoadTime) /\ UNCHANGED blockVars
  <2>1. CASE ReadClock
    BY <1>1, <1>3, <2>1 DEF ClockInv, DydxTypeOK, ReadClock, blockVars
  <2>2. CASE LoadTime
    <3>1. clock - lastTime \in Int
      BY <1>1, <2>2 DEF LoadTime
    <3> QED
      BY <1>1, <1>3, <2>2, <3>1 DEF ClockInv, DydxTypeOK, LoadTime, blockVars
  <2> QED
    BY <1>3, <2>1, <2>2
<1>4. CASE DydxSend /\ UNCHANGED blockVars
  <2>1. elapsed \in Int
    BY <1>1, <1>4 DEF DydxSend
  <2>2. ElapsedBlocks(elapsed) \in Nat
    BY <2>1 DEF ElapsedBlocks, AverageBlockTime
  <2>3. goodTil' \in Nat
    BY <1>1, <1>4, <2>2, DydxConstants DEF DydxSend
  <2> QED
    BY <1>1, <1>4, <2>3 DEF ClockInv, DydxTypeOK, DydxSend, blockVars
<1>5. CASE (DydxSigningFails \/ DydxNotAccepted) /\ UNCHANGED blockVars
  <2>1. CASE DydxSigningFails
    BY <1>1, <1>5, <2>1 DEF ClockInv, DydxTypeOK, DydxSigningFails, blockVars
  <2>2. CASE DydxNotAccepted
    <3>1. /\ since' = now /\ goodTil' = 0 /\ told' \in Nat
          /\ resync' \in {"no", "height", "time"}
          /\ UNCHANGED <<clock, elapsed, synced>>
      BY <1>1, <2>2 DEF DydxNotAccepted
    <3> QED
      BY <1>1, <1>5, <3>1 DEF ClockInv, DydxTypeOK, blockVars
  <2> QED
    BY <1>5, <2>1, <2>2
<1>6. CASE SyncHeight
  <2>1. /\ lastHeight' = told /\ told' = 0 /\ resync' = "time"
        /\ UNCHANGED <<lastTime, tracker, trackerSince, asked, fetched, clock, elapsed,
                       goodTil, since, synced>>
    BY <1>6 DEF SyncHeight
  <2> QED
    BY <1>1, <2>1 DEF ClockInv, DydxTypeOK
<1>7. CASE SyncTime
  BY <1>1, <1>7 DEF ClockInv, DydxTypeOK, SyncTime
<1> QED
  BY <1>2, <1>3, <1>4, <1>5, <1>6, <1>7 DEF DydxTraderStep, DydxRetry

\* Time passes to the end of the wait that ends first, at the latest.
LEMMA WaitsEnd ==
  ASSUME ClockInv, Elapse
  PROVE  /\ now' \in Nat /\ now < now'
         /\ tracker = "fetch" => now' <= trackerSince + GetTimeout
         /\ pc = "await" => now' <= since + PostTimeout
         /\ pc = "pause" => now' <= since + Pause
         /\ pc = "send" => clock # NotRead /\ now' <= clock + Stall
<1>1. /\ now \in Nat /\ trackerSince \in Nat /\ since \in Nat
      /\ clock \in Nat \cup {NotRead}
      /\ pc = "send" => clock \in Nat
  BY DEF ClockInv, DydxTypeOK, Elapse, AllWait
<1>2. TrackerDue \in Nat /\ TraderDue \in Nat
  BY <1>1, DydxConstants DEF TrackerDue, TraderDue
<1>3. Moments \subseteq Nat
  BY <1>2, DydxConstants DEF Moments
<1>4. tracker = "fetch" => TrackerDue \in Moments
  BY <1>1, <1>2 DEF Elapse, MayWait, Moments
<1>5. pc # "ready" => TraderDue \in Moments
  BY <1>1, <1>2 DEF Elapse, MayWait, Moments
<1>6. Moments # {}
  BY <1>5 DEF Elapse, MayWait, Moments
<1>7. now' \in Moments /\ \A t \in Moments : now' <= t
  <2>1. \E x \in Moments : \A t \in Moments : x <= t
    BY <1>3, <1>6, LeastExists
  <2> QED
    BY <2>1 DEF Elapse, Min
<1>8. now' \in Nat /\ now < now'
  BY <1>1, <1>3, <1>7 DEF Moments
<1>9. tracker = "fetch" => now' <= trackerSince + GetTimeout
  BY <1>4, <1>7 DEF TrackerDue
<1>10. /\ pc = "await" => now' <= since + PostTimeout
       /\ pc = "pause" => now' <= since + Pause
       /\ pc = "send" => now' <= clock + Stall
  BY <1>5, <1>7 DEF TraderDue
<1>11. pc = "send" => clock # NotRead
  BY DEF Elapse, AllWait
<1> QED
  BY <1>8, <1>9, <1>10, <1>11

LEMMA Difference ==
  ASSUME NEW m \in Nat, NEW n \in Nat, m < n
  PROVE  \E d \in Nat : n - m = d /\ n = m + d
OBVIOUS

\* The chain never takes back a block, and its credit pays for those it makes.
LEMMA ChainMakesBlocks ==
  ASSUME ClockInv, Elapse
  PROVE  /\ height' \in Nat /\ height <= height'
         /\ credit' \in Nat /\ credit' <= Ahead
         /\ AverageBlockTime * height' + credit' + now
              <= AverageBlockTime * height + credit + now'
<1>1. /\ now \in Nat /\ height \in Nat /\ credit \in Nat /\ Ahead \in Nat
      /\ now' \in Nat /\ now < now'
  BY WaitsEnd, DydxConstants DEF ClockInv, DydxTypeOK
<1>2. PICK time \in Nat : now' - now = time /\ now' = now + time
  BY <1>1, Difference, Zenon
<1> DEFINE paid == credit + time
           most == paid \div 9
<1>3. \E blocks \in 0 .. most :
        /\ height' = height + blocks
        /\ credit' = IF paid - 9 * blocks > Ahead THEN Ahead ELSE paid - 9 * blocks
  BY <1>2, Zenon DEF Elapse, Most, AverageBlockTime
<1>4. paid \in Nat
  BY <1>1, <1>2
<1> HIDE DEF paid
<1>5. most \in Nat /\ 9 * most <= paid
  BY <1>4, DivBounds
<1> HIDE DEF most
<1>6. \A blocks \in 0 .. most : blocks \in Nat /\ 9 * blocks <= paid
  BY <1>4, <1>5
<1>7. PICK blocks \in Nat :
        /\ 9 * blocks <= paid
        /\ height' = height + blocks
        /\ credit' = IF paid - 9 * blocks > Ahead THEN Ahead ELSE paid - 9 * blocks
  BY <1>3, <1>6
<1>8. height' \in Nat /\ height <= height'
  BY <1>1, <1>7
<1>9. credit' \in Nat /\ credit' <= Ahead /\ 9 * blocks + credit' <= paid
  BY <1>1, <1>4, <1>7
<1>10. 9 * height' + credit' + now <= 9 * height + credit + now'
  BY <1>1, <1>2, <1>7, <1>9 DEF paid
<1> QED
  BY <1>8, <1>9, <1>10 DEF AverageBlockTime

LEMMA ElapseKeepsClock == ASSUME ClockInv, TypeOK', Elapse PROVE ClockInv'
<1>1. /\ now' \in Nat /\ now < now'
      /\ height' \in Nat /\ credit' \in Nat /\ credit' <= Ahead
  BY WaitsEnd, ChainMakesBlocks
<1>2. UNCHANGED <<blockVars, orderVars>>
  BY DEF Elapse
<1> QED
  BY <1>1, <1>2 DEF ClockInv, DydxTypeOK, blockVars, orderVars

LEMMA ClockStep == ASSUME ClockInv, TypeOK', [DydxNext]_dydxVars PROVE ClockInv'
<1>1. CASE \E q \in Requests, p \in Prices :
             DydxCall(q, p) /\ UNCHANGED <<chainVars, blockVars>>
  <2>1. /\ since' = now /\ synced' = FALSE
        /\ UNCHANGED <<clock, elapsed, goodTil, told, resync, chainVars, blockVars>>
    BY <1>1 DEF DydxCall
  <2> QED
    BY <2>1 DEF ClockInv, DydxTypeOK, chainVars, blockVars
<1>2. CASE Exchange
  BY <1>2 DEF ClockInv, DydxTypeOK, Exchange, DydxSettle, chainVars, blockVars, orderVars
<1>3. CASE OutOfTime \/ UNCHANGED dydxVars
  BY <1>3 DEF ClockInv, DydxTypeOK, OutOfTime, dydxVars, chainVars, blockVars, orderVars
<1> QED
  BY <1>1, <1>2, <1>3, TrackerKeepsClock, TraderKeepsClock, ElapseKeepsClock DEF DydxNext

\* Every variable of DydxTrader keeps its type.
THEOREM DydxTypes == DydxSpec => []DydxTypeOK
<1>1. ClockInv /\ TypeOK' /\ [DydxNext]_dydxVars => ClockInv'
  BY ClockStep
<1>2. ClockInv => DydxTypeOK
  BY DEF ClockInv
<1> QED
  BY <1>1, <1>2, ClockInit, DydxIsALiveTrader, TraderTypeOK, PTL DEF DydxSpec

------------------------------------------------------------------------------
(* Its reading of the clock.                                               *)

\* How long each wait has lasted, and what can be under way meanwhile.
WaitInv ==
  /\ since <= now
  /\ pc = "await" => now <= since + PostTimeout
  /\ pc = "pause" => now <= since + Pause
  /\ tracker = "fetch" => trackerSince <= now /\ now <= trackerSince + GetTimeout
  /\ clock # NotRead => pc = "send" /\ clock <= now /\ now <= clock + Stall
  /\ elapsed # NotRead => /\ clock # NotRead
                          /\ clock <= now + elapsed /\ 0 <= elapsed + Stall
  /\ resync # "no" => pc = "pause"

LEMMA WaitInit == DydxInit => WaitInv
<1> SUFFICES ASSUME DydxInit PROVE WaitInv
  OBVIOUS
<1>1. /\ now = Uptime /\ trackerSince = Uptime /\ since = Uptime
      /\ tracker = "fetch" /\ resync = "no" /\ clock = NotRead /\ elapsed = NotRead
      /\ pc = "ready" /\ Uptime \in Nat /\ GetTimeout \in Nat
  BY DydxConstants DEF DydxInit, Init
<1> QED
  BY <1>1 DEF WaitInv

LEMMA WaitStep ==
  ASSUME Inv, ClockInv, WaitInv, [DydxNext]_dydxVars
  PROVE  WaitInv'
<1>1. /\ now \in Nat /\ since \in Nat /\ trackerSince \in Nat
      /\ lastTime \in Nat /\ lastTime <= now
      /\ clock \in Nat \cup {NotRead} /\ elapsed \in Int \cup {NotRead}
      /\ NotRead \notin Int /\ Stall \in Nat
      /\ PostTimeout \in Nat /\ GetTimeout \in Nat /\ Pause \in Nat
  BY DydxConstants DEF ClockInv, DydxTypeOK
<1>2. CASE \E q \in Requests, p \in Prices :
             DydxCall(q, p) /\ UNCHANGED <<chainVars, blockVars>>
  BY <1>1, <1>2 DEF DydxCall, Call, WaitInv, chainVars, blockVars
<1>3. CASE DydxTraderStep
  <2>1. now' = now
    BY <1>3 DEF DydxTraderStep, chainVars
  <2>2. CASE (LoadRules \/ Clamp \/ Accepted) /\ UNCHANGED orderVars /\ UNCHANGED blockVars
    BY <1>1, <2>1, <2>2 DEF LoadRules, Clamp, Accepted, orderVars, blockVars, WaitInv
  <2>3. CASE (DydxSend \/ DydxSigningFails) /\ UNCHANGED blockVars
    BY <1>1, <2>1, <2>3
    DEF DydxSend, Send, DydxSigningFails, SigningFails, vars, blockVars, WaitInv
  <2>4. CASE (DydxNotAccepted \/ DydxRetry) /\ UNCHANGED blockVars
    BY <1>1, <2>1, <2>4
    DEF DydxNotAccepted, NotAccepted, DydxRetry, Retry, orderVars, blockVars, WaitInv
  <2>5. CASE SyncHeight \/ SyncTime
    BY <1>1, <2>1, <2>5 DEF SyncHeight, SyncTime, vars, WaitInv
  <2>6. CASE ReadClock /\ UNCHANGED blockVars
    BY <1>1, <2>1, <2>6 DEF ReadClock, vars, blockVars, WaitInv
  <2>7. CASE LoadTime /\ UNCHANGED blockVars
    <3>1. /\ clock \in Nat /\ now <= clock + Stall /\ elapsed' = clock - lastTime
      BY <1>1, <2>7 DEF LoadTime, WaitInv
    <3>2. clock <= now + elapsed' /\ 0 <= elapsed' + Stall
      BY <1>1, <3>1
    <3> QED
      BY <1>1, <2>1, <2>7, <3>2 DEF LoadTime, vars, blockVars, WaitInv
  <2> QED
    BY <1>3, <2>2, <2>3, <2>4, <2>5, <2>6, <2>7 DEF DydxTraderStep
<1>4. CASE Exchange
  BY <1>4
  DEF Exchange, DydxSettle, Settle, SettleAdrift, chainVars, orderVars, blockVars, WaitInv
<1>5. CASE Tracker
  BY <1>1, <1>5
  DEF Tracker, Fetch, FetchAnswered, FetchFails, StoreHeight, StoreTime, vars, chainVars,
      orderVars, WaitInv
<1>6. CASE Elapse
  BY <1>1, <1>6, WaitsEnd DEF Elapse, vars, orderVars, blockVars, WaitInv
<1>7. CASE OutOfTime \/ UNCHANGED dydxVars
  BY <1>7 DEF OutOfTime, dydxVars, vars, chainVars, orderVars, blockVars, WaitInv
<1> QED
  BY <1>2, <1>3, <1>4, <1>5, <1>6, <1>7 DEF DydxNext

\* The cast of the time since the last block is defined, although the other
\* thread may store lastBlockTime_ after the clock was read: for any stall that
\* is less than a second.
THEOREM DydxCastsAreDefined == DydxSpec => []CastIsDefined
<1>1. ClockInv /\ WaitInv => CastIsDefined
  <2> SUFFICES ASSUME ClockInv, WaitInv, elapsed # NotRead PROVE elapsed > -10
    BY DEF CastIsDefined
  <2>1. elapsed \in Int /\ elapsed + Stall >= 0 /\ Stall \in Nat /\ Stall < 10
    BY DydxConstants DEF ClockInv, DydxTypeOK, WaitInv
  <2> QED
    BY <2>1
<1>2. ClockInv /\ TypeOK' /\ [DydxNext]_dydxVars => ClockInv'
  BY ClockStep
<1>3. Inv /\ ClockInv /\ WaitInv /\ [DydxNext]_dydxVars => WaitInv'
  BY WaitStep
<1> QED
  BY <1>1, <1>2, <1>3, ClockInit, WaitInit, DydxIsALiveTrader, Invariance, TraderTypeOK,
     PTL DEF DydxSpec

------------------------------------------------------------------------------
(* Its orders are in the window, once a refusal has set the height.        *)

\* The chain has made no more blocks since it had h than it can have made from a
\* time that is late before t.
Within(h, t, late) ==
  /\ h <= height
  /\ AverageBlockTime * height + credit + t
       <= AverageBlockTime * h + now + late + Ahead

\* A height that was the chain's no longer ago than a GET may take.
Recent(h) == Within(h, now, GetTimeout)

\* A height that one of the threads is about to store, or has just stored
\* without the time, is recent.
HeightsInv ==
  /\ tracker = "fetch" => Within(asked, trackerSince, 0)
  /\ tracker = "height" => Recent(fetched)
  /\ tracker = "time" => Recent(lastHeight)
  /\ resync = "height" => Recent(told)
  /\ resync = "time" => Recent(lastHeight)
  /\ told > 0 => \/ resync = "height"
                 \/ pc = "await" /\ order = "refused" /\ Within(told, since, 0)

\* How long n attempts may take.
Spent(n) == n * (Stall + PostTimeout + Pause)

\* The height that is stored was the chain's not long before the time that is
\* stored, or that was read for the next order.
StampInv ==
  /\ Within(lastHeight, lastTime, GetTimeout)
  /\ elapsed # NotRead => Within(lastHeight, clock, elapsed + GetTimeout)

\* The time that is stored is that of the refusal or a later one.
CallClockInv ==
  /\ attempt >= 1
  /\ pc = "pause" => since <= lastTime + Spent(attempt - 1) + Stall + PostTimeout
  /\ pc = "send" /\ clock = NotRead => now <= lastTime + Spent(attempt)
  /\ clock # NotRead => clock <= lastTime + Spent(attempt)
  /\ elapsed # NotRead => elapsed <= CallTime
  /\ pc = "await" => since <= lastTime + Spent(attempt - 1) + Stall

\* An order is acceptable from when it is sent to when nobody waits for it: the
\* chain cannot have passed its block by then, and it is never too far ahead.
ExpiryInv ==
  order = "sent" =>
    /\ AverageBlockTime * height + credit + since + PostTimeout
         <= AverageBlockTime * goodTil + now + 8
    /\ goodTil <= height + Window

SyncInv == synced /\ pc # "ready" => StampInv /\ CallClockInv /\ ExpiryInv

LEMMA ExpiryConstants ==
  /\ CallTime \in Nat
  /\ \A n \in Nat : /\ Spent(n) \in Nat
                    /\ Spent(n + 1) = Spent(n) + Stall + PostTimeout + Pause
  /\ \A n \in Nat : n < MaxAttempts => Spent(n) <= CallTime
<1>1. /\ Stall \in Nat /\ PostTimeout \in Nat /\ Pause \in Nat
      /\ MaxAttempts \in Nat \ {0}
  BY DydxConstants, TraderAssumption
<1> DEFINE c == Stall + PostTimeout + Pause
<1>2. c \in Nat /\ MaxAttempts - 1 \in Nat
  BY <1>1
<1>3. CallTime = (MaxAttempts - 1) * c
  BY DEF CallTime
<1>4. \A n \in Nat : Spent(n) = n * c
  BY DEF Spent
<1>5. c = Stall + PostTimeout + Pause
  OBVIOUS
<1> HIDE DEF c
<1>6. CallTime \in Nat
  BY <1>2, <1>3, ProductType
<1>7. ASSUME NEW n \in Nat
      PROVE  /\ Spent(n) \in Nat
             /\ Spent(n + 1) = Spent(n) + Stall + PostTimeout + Pause
  <2>1. n * c \in Nat /\ (n + 1) * c = n * c + c
    BY <1>2, ProductType
  <2> QED
    BY <1>1, <1>4, <1>5, <2>1
<1>8. ASSUME NEW n \in Nat, n < MaxAttempts PROVE Spent(n) <= CallTime
  <2>1. n <= MaxAttempts - 1
    BY <1>1, <1>8
  <2>2. c * n <= c * (MaxAttempts - 1)
    BY <1>2, <2>1, ProductMonotone
  <2>3. c * n = n * c /\ c * (MaxAttempts - 1) = (MaxAttempts - 1) * c
    BY <1>2
  <2> QED
    BY <1>3, <1>4, <2>2, <2>3
<1> QED
  BY <1>6, <1>7, <1>8

\* getEstimatedBlockHeight falls behind the average by less than two blocks, and
\* within a call it advances no further than the window allows.
LEMMA ElapsedBlocksBounds ==
  ASSUME NEW e \in Int
  PROVE  /\ ElapsedBlocks(e) \in Nat
         /\ e <= 9 * ElapsedBlocks(e) + 17
         /\ e <= CallTime => ElapsedBlocks(e) <= ElapsedBlocks(CallTime)
<1>1. CallTime \in Nat
  BY ExpiryConstants
<1>2. /\ ElapsedBlocks(e) \in Nat
      /\ e <= 9 * ElapsedBlocks(e) + 17
  BY DEF ElapsedBlocks, AverageBlockTime
<1>3. ASSUME e <= CallTime PROVE ElapsedBlocks(e) <= ElapsedBlocks(CallTime)
  BY <1>1, <1>3 DEF ElapsedBlocks, AverageBlockTime
<1> QED
  BY <1>2, <1>3

\* The margin makes up for all that an order can be late.
LEMMA MarginSuffices ==
  ASSUME NEW high \in Nat, NEW low \in Nat, NEW left \in Nat, NEW e \in Int,
         NEW read \in Nat, NEW t \in Nat,
         t <= read + Stall,
         9 * high + left + read <= 9 * low + t + (e + GetTimeout) + Ahead
  PROVE  9 * high + left + PostTimeout
           <= 9 * (low + ElapsedBlocks(e) + Margin) + 8
<1>1. /\ Ahead \in Nat /\ Stall \in Nat /\ Margin \in Nat
      /\ PostTimeout \in Nat /\ GetTimeout \in Nat
      /\ Ahead + GetTimeout + 9 + Stall + PostTimeout <= 9 * Margin
  BY DydxConstants, ExpiryAssumption DEF AverageBlockTime
<1>2. ElapsedBlocks(e) \in Nat /\ e <= 9 * ElapsedBlocks(e) + 17
  BY ElapsedBlocksBounds
<1> QED
  BY <1>1, <1>2

LEMMA ExpiryInit == DydxInit => HeightsInv /\ SyncInv
<1> SUFFICES ASSUME DydxInit PROVE HeightsInv /\ SyncInv
  OBVIOUS
<1>1. /\ now = Uptime /\ trackerSince = Uptime /\ told = 0
      /\ height = FirstHeight /\ asked = FirstHeight /\ credit = Ahead
      /\ tracker = "fetch" /\ resync = "no" /\ synced = FALSE
      /\ Uptime \in Nat /\ FirstHeight \in Nat /\ Ahead \in Nat
  BY DydxConstants DEF DydxInit
<1>2. Within(asked, trackerSince, 0)
  BY <1>1 DEF Within, AverageBlockTime
<1> QED
  BY <1>1, <1>2 DEF HeightsInv, SyncInv

\* What is true of a height stays true while the chain goes on.
LEMMA ElapseKeepsWithin ==
  ASSUME ClockInv, Elapse
  PROVE  \A h \in Nat, t \in Int, late \in Int :
           Within(h, t, late) =>
             /\ h <= height'
             /\ AverageBlockTime * height' + credit' + t
                  <= AverageBlockTime * h + now' + late + Ahead
<1>1. /\ now \in Nat /\ height \in Nat /\ credit \in Nat /\ Ahead \in Nat
  BY DydxConstants DEF ClockInv, DydxTypeOK
<1>2. PICK n \in Nat, high \in Nat, left \in Nat :
        /\ now' = n /\ height' = high /\ credit' = left
        /\ height <= high /\ 9 * high + left + now <= 9 * height + credit + n
  BY WaitsEnd, ChainMakesBlocks DEF AverageBlockTime
<1>3. ASSUME NEW h \in Nat, NEW t \in Int, NEW late \in Int, Within(h, t, late)
      PROVE  h <= high /\ 9 * high + left + t <= 9 * h + n + late + Ahead
  BY <1>1, <1>2, <1>3 DEF Within, AverageBlockTime
<1> QED
  BY <1>2, <1>3 DEF AverageBlockTime

LEMMA HeightsStep ==
  ASSUME Inv, ClockInv, WaitInv, HeightsInv, [DydxNext]_dydxVars
  PROVE  HeightsInv'
<1>1. /\ {now, height, credit, lastHeight, trackerSince, asked, fetched, since, told}
           \subseteq Nat
      /\ since <= now /\ credit <= Ahead /\ Ahead \in Nat
      /\ PostTimeout \in Nat /\ GetTimeout \in Nat /\ PostTimeout <= GetTimeout
  BY DydxConstants, ExpiryAssumption DEF ClockInv, DydxTypeOK, WaitInv
<1>2. CASE \E q \in Requests, p \in Prices :
             DydxCall(q, p) /\ UNCHANGED <<chainVars, blockVars>>
  <2>1. /\ pc = "ready"
        /\ UNCHANGED <<told, resync, chainVars, blockVars>>
    BY <1>2 DEF DydxCall, Call
  <2>2. ~ told > 0
    BY <2>1 DEF HeightsInv, WaitInv
  <2> QED
    BY <2>1, <2>2 DEF HeightsInv, Recent, Within, chainVars, blockVars
<1>3. CASE DydxTraderStep
  <2>1. UNCHANGED <<now, height, credit>>
    BY <1>3 DEF DydxTraderStep, chainVars
  <2>2. CASE \/ (LoadRules \/ Clamp \/ Accepted) /\ UNCHANGED orderVars /\ UNCHANGED blockVars
             \/ (ReadClock \/ LoadTime \/ DydxSend \/ DydxSigningFails \/ DydxRetry)
                  /\ UNCHANGED blockVars
    <3>1. UNCHANGED <<told, resync, blockVars>>
      BY <2>2
      DEF ReadClock, LoadTime, DydxSend, DydxSigningFails, DydxRetry, orderVars
    <3>2. pc # "await" \/ order # "refused"
      BY <2>2
      DEF LoadRules, Clamp, Accepted, ReadClock, LoadTime, DydxSend, Send,
          DydxSigningFails, SigningFails, DydxRetry, Retry, WaitInv
    <3>3. told > 0 => resync = "height"
      BY <3>2 DEF HeightsInv
    <3> QED
      BY <2>1, <3>1, <3>3 DEF HeightsInv, Recent, Within, blockVars
  <2>3. CASE DydxNotAccepted /\ UNCHANGED blockVars
    <3>1. /\ pc = "await" /\ now <= since + PostTimeout /\ resync = "no"
      BY <2>3 DEF DydxNotAccepted, NotAccepted, WaitInv, ClockInv, DydxTypeOK
    <3>2. CASE told > 0 /\ resync' = "height" /\ told' = told
      <4>1. Within(told, since, 0)
        BY <3>1, <3>2 DEF HeightsInv
      <4>2. Recent(told)
        BY <1>1, <3>1, <4>1 DEF Recent, Within, AverageBlockTime
      <4> QED
        BY <2>1, <2>3, <3>2, <4>2 DEF HeightsInv, Recent, Within, blockVars
    <3>3. CASE resync' = "no" /\ told' = 0
      BY <2>1, <2>3, <3>3 DEF HeightsInv, Recent, Within, blockVars
    <3> QED
      BY <2>3, <3>2, <3>3 DEF DydxNotAccepted
  <2>4. CASE SyncHeight
    <3>1. /\ resync = "height" /\ lastHeight' = told /\ told' = 0 /\ resync' = "time"
          /\ UNCHANGED <<asked, fetched, tracker, trackerSince>>
      BY <2>4 DEF SyncHeight
    <3>2. Recent(told)
      BY <3>1 DEF HeightsInv
    <3> QED
      BY <2>1, <3>1, <3>2 DEF HeightsInv, Recent, Within
  <2>5. CASE SyncTime
    <3>1. /\ resync = "time" /\ resync' = "no"
          /\ UNCHANGED <<vars, told, lastHeight, asked, fetched, tracker, trackerSince>>
      BY <2>5 DEF SyncTime
    <3>2. pc = "pause"
      BY <3>1 DEF WaitInv
    <3>3. ~ told > 0
      BY <3>1, <3>2 DEF HeightsInv
    <3> QED
      BY <2>1, <3>1, <3>3 DEF HeightsInv, Recent, Within
  <2> QED
    BY <1>3, <2>2, <2>3, <2>4, <2>5 DEF DydxTraderStep
<1>4. CASE Exchange
  <2>1. UNCHANGED <<pc, since, resync, chainVars, blockVars>>
    BY <1>4 DEF Exchange, DydxSettle, Settle, SettleAdrift, orderVars
  <2>2. CASE DydxSettle
    <3>1. order = "sent" /\ told' = IF InWindow THEN 0 ELSE height
      BY <2>2 DEF DydxSettle, Settle
    <3>2. pc = "await"
      BY <3>1 DEF Inv, OrdersInv
    <3>3. told' > 0 => order' = "refused" /\ told' = height
      BY <2>2, <3>1 DEF DydxSettle, Settle
    <3>4. Within(height, since, 0)
      BY <1>1 DEF Within, AverageBlockTime
    <3>5. resync = "no"
      BY <3>2 DEF WaitInv, ClockInv, DydxTypeOK
    <3> QED
      BY <2>1, <3>2, <3>3, <3>4, <3>5
      DEF HeightsInv, Recent, Within, chainVars, blockVars
  <2>3. CASE SettleAdrift /\ UNCHANGED orderVars
    <3>1. UNCHANGED <<order, told>>
      BY <2>3 DEF SettleAdrift, orderVars
    <3> QED
      BY <2>1, <3>1 DEF HeightsInv, Recent, Within, chainVars, blockVars
  <2> QED
    BY <1>4, <2>2, <2>3 DEF Exchange
<1>5. CASE Tracker
  <2>1. UNCHANGED <<pc, order, told, resync, since, now, height, credit>>
    BY <1>5 DEF Tracker, vars, chainVars, orderVars
  <2>2. CASE Fetch
    <3>1. Within(height, now, 0)
      BY <1>1 DEF Within, AverageBlockTime
    <3> QED
      BY <2>1, <2>2, <3>1 DEF Fetch, HeightsInv, Recent, Within
  <2>3. CASE FetchAnswered
    <3>1. /\ Within(asked, trackerSince, 0) /\ now <= trackerSince + GetTimeout
      BY <2>3 DEF FetchAnswered, HeightsInv, WaitInv
    <3>2. fetched' \in Nat /\ asked <= fetched' /\ fetched' <= height
      BY <1>1, <2>3 DEF FetchAnswered
    <3>3. /\ fetched' <= height
          /\ AverageBlockTime * height + credit + now
               <= AverageBlockTime * fetched' + now + GetTimeout + Ahead
      BY <1>1, <3>1, <3>2 DEF Within, AverageBlockTime
    <3> QED
      BY <2>1, <2>3, <3>3 DEF FetchAnswered, HeightsInv, Recent, Within
  <2>4. CASE FetchFails
    BY <2>1, <2>4 DEF FetchFails, HeightsInv, Recent, Within
  <2>5. CASE StoreHeight \/ StoreTime
    BY <2>1, <2>5 DEF StoreHeight, StoreTime, HeightsInv, Recent, Within
  <2> QED
    BY <1>5, <2>2, <2>3, <2>4, <2>5 DEF Tracker
<1>6. CASE Elapse
  <2>1. /\ tracker \in {"sleep", "fetch"} /\ resync = "no"
        /\ UNCHANGED <<pc, order, told, resync, since, tracker, trackerSince, asked>>
    BY <1>6 DEF Elapse, AllWait, vars, orderVars, blockVars
  <2>2. tracker = "fetch" => Within(asked, trackerSince, 0)'
    BY <1>1, <1>6, <2>1, ElapseKeepsWithin DEF HeightsInv, Within
  <2>3. Within(told, since, 0) => Within(told, since, 0)'
    BY <1>1, <1>6, <2>1, ElapseKeepsWithin DEF Within
  <2> QED
    BY <2>1, <2>2, <2>3 DEF HeightsInv
<1>7. CASE OutOfTime \/ UNCHANGED dydxVars
  <2>1. UNCHANGED dydxVars
    BY <1>7 DEF OutOfTime
  <2> QED
    BY <2>1
    DEF HeightsInv, Recent, Within, dydxVars, vars, chainVars, orderVars, blockVars
<1> QED
  BY <1>2, <1>3, <1>4, <1>5, <1>6, <1>7 DEF DydxNext

\* What the three parts of SyncInv need of the constants and the other invariants.
LEMMA SyncContext ==
  ASSUME Inv, ClockInv, WaitInv
  PROVE  /\ {now, height, credit, lastHeight, lastTime, fetched, told, since, goodTil}
              \subseteq Nat
         /\ lastTime <= now /\ since <= now
         /\ {PostTimeout, GetTimeout, Pause, Stall, Margin, Window, Ahead, CallTime}
              \subseteq Nat
         /\ attempt \in Nat /\ Spent(attempt) \in Nat
         /\ clock \in Nat \cup {NotRead} /\ elapsed \in Int \cup {NotRead}
         /\ NotRead \notin Int
         /\ attempt >= 1 => /\ Spent(attempt - 1) \in Nat
                            /\ Spent(attempt)
                                 = Spent(attempt - 1) + Stall + PostTimeout + Pause
<1>1. attempt \in Nat
  BY TraderAssumption DEF Inv, TypeOK
<1>2. ASSUME attempt >= 1
      PROVE  /\ Spent(attempt - 1) \in Nat
             /\ Spent(attempt) = Spent(attempt - 1) + Stall + PostTimeout + Pause
  <2> DEFINE n == attempt - 1
  <2>1. n \in Nat /\ n + 1 = attempt
    BY <1>1, <1>2
  <2> HIDE DEF n
  <2>2. Spent(n) \in Nat /\ Spent(n + 1) = Spent(n) + Stall + PostTimeout + Pause
    BY <2>1, ExpiryConstants
  <2>3. n = attempt - 1
    BY DEF n
  <2> QED
    BY <2>1, <2>2, <2>3
<1>3. /\ Spent(attempt) \in Nat
      /\ {PostTimeout, GetTimeout, Pause, Stall, Margin, Window, Ahead, CallTime}
           \subseteq Nat
  BY <1>1, ExpiryConstants, DydxConstants
<1> QED
  BY <1>1, <1>2, <1>3, DydxConstants DEF ClockInv, DydxTypeOK, WaitInv

\* The order of a call that was set right can be under way for as long as a POST
\* may take.
LEMMA SendKeepsSync ==
  ASSUME Inv, ClockInv, WaitInv, SyncInv, DydxSend, UNCHANGED <<chainVars, blockVars>>
  PROVE  SyncInv'
<1>1. /\ pc = "send" /\ pc' = "await" /\ attempt' = attempt + 1 /\ order' = "sent"
      /\ elapsed # NotRead /\ elapsed' = NotRead /\ clock' = NotRead /\ since' = now
      /\ goodTil' = lastHeight + ElapsedBlocks(elapsed) + Margin
      /\ UNCHANGED <<now, height, credit, lastHeight, lastTime, synced>>
  BY DEF DydxSend, Send, chainVars, blockVars
<1> SUFFICES ASSUME synced PROVE StampInv' /\ CallClockInv' /\ ExpiryInv'
  BY <1>1 DEF SyncInv
<1>2. StampInv /\ CallClockInv
  BY <1>1 DEF SyncInv
<1>3. /\ clock \in Nat /\ elapsed \in Int /\ elapsed <= CallTime
      /\ clock <= now /\ now <= clock + Stall
      /\ lastHeight <= height
      /\ 9 * height + credit + clock
           <= 9 * lastHeight + now + (elapsed + GetTimeout) + Ahead
  BY <1>1, <1>2, SyncContext
  DEF StampInv, CallClockInv, WaitInv, Within, AverageBlockTime
<1>4. /\ ElapsedBlocks(elapsed) \in Nat
      /\ ElapsedBlocks(elapsed) <= ElapsedBlocks(CallTime)
      /\ ElapsedBlocks(CallTime) \in Nat /\ ElapsedBlocks(CallTime) + Margin <= Window
  BY <1>3, ElapsedBlocksBounds, ExpiryConstants, ExpiryAssumption
<1>5. 9 * height + credit + PostTimeout
        <= 9 * (lastHeight + ElapsedBlocks(elapsed) + Margin) + 8
  BY <1>3, MarginSuffices, SyncContext
<1>6. ExpiryInv'
  <2> DEFINE til == lastHeight + ElapsedBlocks(elapsed) + Margin
  <2>1. til \in Nat /\ til <= height + Window
    BY <1>3, <1>4, SyncContext
  <2>2. 9 * height + credit + now + PostTimeout <= 9 * til + now + 8
    BY <1>4, <1>5, SyncContext
  <2> QED
    BY <1>1, <2>1, <2>2 DEF ExpiryInv, AverageBlockTime
<1>7. StampInv'
  BY <1>1, <1>2 DEF StampInv, Within
<1>8. CallClockInv'
  <2>1. attempt' >= 1 /\ attempt' - 1 = attempt
    BY <1>1, SyncContext
  <2>2. now <= lastTime + Spent(attempt) + Stall
    BY <1>1, <1>2, <1>3, SyncContext DEF CallClockInv
  <2> QED
    BY <1>1, <2>1, <2>2 DEF CallClockInv, Spent
<1> QED
  BY <1>6, <1>7, <1>8

\* A step of the trader's own.
LEMMA TraderKeepsSync ==
  ASSUME Inv, ClockInv, WaitInv, HeightsInv, SyncInv, DydxTraderStep
  PROVE  SyncInv'
<1>0. UNCHANGED <<now, height, credit>>
  BY DEF DydxTraderStep, chainVars
<1>1. CASE (LoadRules \/ Clamp \/ Accepted) /\ UNCHANGED orderVars
  <2>1. CASE Accepted
    BY <2>1 DEF Accepted, SyncInv
  <2>2. CASE (LoadRules \/ Clamp) /\ UNCHANGED orderVars
    <3>1. attempt = 0 /\ pc # "ready" /\ synced' = synced
      BY <2>2 DEF LoadRules, Clamp, orderVars, Inv, CallInv
    <3>2. ~ synced
      BY <3>1 DEF SyncInv, CallClockInv
    <3> QED
      BY <3>1, <3>2 DEF SyncInv
  <2> QED
    BY <1>1, <2>1, <2>2
<1>2. CASE ReadClock /\ UNCHANGED blockVars
  <2>1. /\ pc = "send" /\ clock = NotRead /\ clock' = now
        /\ UNCHANGED <<pc, attempt, order, lastHeight, lastTime, since, goodTil, synced,
                       elapsed>>
    BY <1>2 DEF ReadClock, vars, blockVars
  <2> SUFFICES ASSUME synced PROVE StampInv' /\ CallClockInv' /\ ExpiryInv'
    BY <2>1 DEF SyncInv
  <2>2. StampInv /\ CallClockInv /\ ExpiryInv
    BY <2>1 DEF SyncInv
  <2>3. elapsed = NotRead
    BY <2>1 DEF WaitInv
  <2>4. StampInv' /\ ExpiryInv'
    BY <1>0, <2>1, <2>2, <2>3 DEF StampInv, ExpiryInv, Within
  <2>5. CallClockInv'
    BY <1>0, <2>1, <2>2, <2>3, SyncContext DEF CallClockInv, Spent
  <2> QED
    BY <2>4, <2>5
<1>3. CASE LoadTime /\ UNCHANGED blockVars
  <2>1. /\ pc = "send" /\ clock # NotRead /\ elapsed' = clock - lastTime
        /\ UNCHANGED <<pc, attempt, order, lastHeight, lastTime, since, goodTil, synced,
                       clock>>
    BY <1>3 DEF LoadTime, vars, blockVars, WaitInv
  <2> SUFFICES ASSUME synced PROVE StampInv' /\ CallClockInv' /\ ExpiryInv'
    BY <2>1 DEF SyncInv
  <2>2. StampInv /\ CallClockInv /\ ExpiryInv
    BY <2>1 DEF SyncInv
  <2>3. attempt < MaxAttempts
    BY <2>1 DEF Inv, CallInv
  <2>4. Spent(attempt) <= CallTime
    BY <2>3, SyncContext, ExpiryConstants
  <2>5. PICK e \in Int : elapsed' = e /\ e = clock - lastTime
    BY <2>1, SyncContext
  <2>6. clock \in Nat /\ clock = lastTime + e /\ e <= CallTime
    BY <2>1, <2>2, <2>4, <2>5, SyncContext DEF CallClockInv
  <2>7. /\ lastHeight <= height
        /\ 9 * height + credit + clock
             <= 9 * lastHeight + now + (e + GetTimeout) + Ahead
    BY <2>2, <2>5, <2>6, SyncContext DEF StampInv, Within, AverageBlockTime
  <2>8. StampInv'
    BY <1>0, <2>1, <2>2, <2>5, <2>7 DEF StampInv, Within, AverageBlockTime
  <2>9. CallClockInv'
    BY <1>0, <2>1, <2>2, <2>5, <2>6 DEF CallClockInv, Spent
  <2> QED
    BY <1>0, <2>1, <2>2, <2>8, <2>9 DEF ExpiryInv
<1>4. CASE DydxSend /\ UNCHANGED blockVars
  BY <1>0, <1>4, SendKeepsSync DEF DydxTraderStep
<1>5. CASE DydxSigningFails
  BY <1>5 DEF DydxSigningFails, SigningFails, SyncInv
<1>6. CASE (DydxNotAccepted \/ DydxRetry) /\ UNCHANGED blockVars
  <2>1. /\ elapsed = NotRead /\ elapsed' = NotRead
        /\ clock = NotRead /\ clock' = NotRead
        /\ order' # "sent"
        /\ UNCHANGED <<attempt, lastHeight, lastTime, synced>>
        /\ pc \in {"await", "pause"}
    BY <1>6
    DEF DydxNotAccepted, NotAccepted, DydxRetry, Retry, orderVars, blockVars, WaitInv,
        Inv, OrdersInv
  <2> SUFFICES ASSUME synced, pc' # "ready" PROVE StampInv' /\ CallClockInv' /\ ExpiryInv'
    BY <2>1 DEF SyncInv
  <2>2. StampInv /\ CallClockInv
    BY <2>1 DEF SyncInv
  <2>3. StampInv'
    BY <1>0, <2>1, <2>2 DEF StampInv, Within
  <2>4. /\ Spent(attempt - 1) \in Nat
        /\ Spent(attempt) = Spent(attempt - 1) + Stall + PostTimeout + Pause
    BY <2>2, SyncContext DEF CallClockInv
  <2>5. Spent(attempt)' = Spent(attempt) /\ Spent(attempt - 1)' = Spent(attempt - 1)
    BY <2>1 DEF Spent
  <2>6. CASE DydxNotAccepted
    <3>1. pc = "await" /\ pc' = "pause" /\ since' = now /\ now <= since + PostTimeout
      BY <2>6 DEF DydxNotAccepted, NotAccepted, WaitInv
    <3>2. now <= lastTime + Spent(attempt - 1) + Stall + PostTimeout
      BY <2>2, <2>4, <3>1, SyncContext DEF CallClockInv
    <3> QED
      BY <2>1, <2>2, <2>3, <2>5, <3>1, <3>2 DEF CallClockInv, ExpiryInv
  <2>7. CASE DydxRetry
    <3>1. pc = "pause" /\ pc' = "send" /\ now <= since + Pause
      BY <2>7 DEF DydxRetry, Retry, WaitInv
    <3>2. now <= lastTime + Spent(attempt)
      BY <2>2, <2>4, <3>1, SyncContext DEF CallClockInv
    <3> QED
      BY <1>0, <2>1, <2>2, <2>3, <2>5, <3>1, <3>2 DEF CallClockInv, ExpiryInv
  <2> QED
    BY <1>6, <2>6, <2>7
<1>7. CASE SyncHeight \/ SyncTime
  <2>1. /\ pc = "pause" /\ clock = NotRead /\ elapsed = NotRead /\ order # "sent"
        /\ UNCHANGED <<pc, attempt, order, since, goodTil, clock, elapsed>>
    BY <1>7 DEF SyncHeight, SyncTime, vars, WaitInv, Inv, OrdersInv
  <2>2. attempt >= 1
    BY <2>1, SyncContext DEF Inv, CallInv
  <2>3. /\ Spent(attempt - 1) \in Nat
        /\ Spent(attempt - 1)' = Spent(attempt - 1)
    BY <2>1, <2>2, SyncContext DEF Spent
  <2>4. CASE SyncHeight
    <3>1. /\ lastHeight' = told /\ UNCHANGED <<lastTime, synced>> /\ Recent(told)
      BY <2>4 DEF SyncHeight, HeightsInv
    <3>2. Within(told, lastTime, GetTimeout)
      BY <3>1, SyncContext DEF Recent, Within, AverageBlockTime
    <3>3. StampInv'
      BY <1>0, <2>1, <3>1, <3>2 DEF StampInv, Within
    <3> QED
      BY <1>0, <2>1, <2>3, <3>1, <3>3 DEF SyncInv, CallClockInv, ExpiryInv
  <2>5. CASE SyncTime
    <3>1. /\ lastTime' = now /\ UNCHANGED lastHeight /\ Recent(lastHeight)
      BY <2>5 DEF SyncTime, HeightsInv
    <3>2. StampInv'
      BY <1>0, <2>1, <3>1 DEF StampInv, Recent, Within
    <3>3. since <= now + Spent(attempt - 1) + Stall + PostTimeout
      BY <2>3, SyncContext
    <3> QED
      BY <1>0, <2>1, <2>2, <2>3, <3>1, <3>2, <3>3 DEF SyncInv, CallClockInv, ExpiryInv
  <2> QED
    BY <1>7, <2>4, <2>5
<1> QED
  BY <1>1, <1>2, <1>3, <1>4, <1>5, <1>6, <1>7 DEF DydxTraderStep

\* A step of the tracking thread.
LEMMA TrackerKeepsSync ==
  ASSUME Inv, ClockInv, WaitInv, HeightsInv, SyncInv, Tracker
  PROVE  SyncInv'
<1>1. UNCHANGED <<now, height, credit, pc, attempt, order, clock, elapsed, since, goodTil,
                  synced>>
  BY DEF Tracker, vars, chainVars, orderVars
<1> SUFFICES ASSUME synced, pc # "ready" PROVE StampInv' /\ CallClockInv' /\ ExpiryInv'
  BY <1>1 DEF SyncInv
<1>2. StampInv /\ CallClockInv /\ ExpiryInv
  BY DEF SyncInv
<1>3. ExpiryInv'
  BY <1>1, <1>2 DEF ExpiryInv
<1>4. CASE Fetch \/ FetchAnswered \/ FetchFails
  <2>1. UNCHANGED <<lastHeight, lastTime>>
    BY <1>4 DEF Fetch, FetchAnswered, FetchFails
  <2> QED
    BY <1>1, <1>2, <1>3, <2>1 DEF StampInv, CallClockInv, Within, Spent
<1>5. CASE StoreHeight
  <2>1. lastHeight' = fetched /\ lastTime' = lastTime /\ Recent(fetched)
    BY <1>5 DEF StoreHeight, HeightsInv
  <2>2. Within(fetched, lastTime, GetTimeout)
    BY <2>1, SyncContext DEF Recent, Within, AverageBlockTime
  <2>3. elapsed # NotRead => Within(fetched, clock, elapsed + GetTimeout)
    <3> SUFFICES ASSUME elapsed # NotRead
                 PROVE  Within(fetched, clock, elapsed + GetTimeout)
      OBVIOUS
    <3>1. clock \in Nat /\ elapsed \in Int /\ clock <= now + elapsed
      BY SyncContext DEF WaitInv
    <3> QED
      BY <2>1, <3>1, SyncContext DEF Recent, Within, AverageBlockTime
  <2>4. StampInv'
    BY <1>1, <2>1, <2>2, <2>3 DEF StampInv, Within
  <2> QED
    BY <1>1, <1>2, <1>3, <2>1, <2>4 DEF CallClockInv, Spent
<1>6. CASE StoreTime
  <2>1. lastHeight' = lastHeight /\ lastTime' = now /\ Recent(lastHeight)
    BY <1>6 DEF StoreTime, HeightsInv
  <2>2. StampInv'
    BY <1>1, <1>2, <2>1 DEF StampInv, Recent, Within
  <2>3. /\ Spent(attempt - 1) \in Nat /\ Spent(attempt) \in Nat
        /\ Spent(attempt)' = Spent(attempt) /\ Spent(attempt - 1)' = Spent(attempt - 1)
    BY <1>1, <1>2, SyncContext DEF CallClockInv, Spent
  <2>4. CallClockInv'
    BY <1>1, <1>2, <2>1, <2>3, SyncContext DEF CallClockInv
  <2> QED
    BY <1>3, <2>2, <2>4
<1> QED
  BY <1>4, <1>5, <1>6 DEF Tracker

LEMMA ElapseKeepsSync ==
  ASSUME Inv, ClockInv, WaitInv, SyncInv, Elapse
  PROVE  SyncInv'
<1>1. /\ pc \in {"ready", "await", "pause", "rules", "send"}
      /\ pc = "send" => clock # NotRead
      /\ UNCHANGED <<pc, attempt, order, clock, elapsed, since, goodTil, synced,
                     lastHeight, lastTime>>
  BY DEF Elapse, AllWait, vars, orderVars, blockVars
<1> SUFFICES ASSUME synced, pc # "ready" PROVE StampInv' /\ CallClockInv' /\ ExpiryInv'
  BY <1>1 DEF SyncInv
<1>2. StampInv /\ CallClockInv /\ ExpiryInv
  BY DEF SyncInv
<1>3. StampInv'
  <2>1. Within(lastHeight, lastTime, GetTimeout)'
    BY <1>1, <1>2, ElapseKeepsWithin, SyncContext DEF StampInv, Within
  <2>2. ASSUME elapsed # NotRead PROVE Within(lastHeight, clock, elapsed + GetTimeout)'
    <3>1. clock \in Int /\ elapsed + GetTimeout \in Int /\ lastHeight \in Nat
      BY <2>2, SyncContext DEF WaitInv
    <3>2. Within(lastHeight, clock, elapsed + GetTimeout)
      BY <1>2, <2>2 DEF StampInv
    <3>3. /\ lastHeight <= height'
          /\ AverageBlockTime * height' + credit' + clock
               <= AverageBlockTime * lastHeight + now' + (elapsed + GetTimeout) + Ahead
      BY <3>1, <3>2, ElapseKeepsWithin
    <3> QED
      BY <1>1, <3>3 DEF Within
  <2> QED
    BY <1>1, <2>1, <2>2 DEF StampInv
<1>4. CallClockInv'
  BY <1>1, <1>2 DEF CallClockInv, Spent
<1>5. ExpiryInv'
  <2> SUFFICES ASSUME order = "sent"
               PROVE  /\ 9 * height' + credit' + since + PostTimeout
                           <= 9 * goodTil + now' + 8
                      /\ goodTil <= height' + Window
    BY <1>1 DEF ExpiryInv, AverageBlockTime
  <2>1. PICK n \in Nat, high \in Nat, left \in Nat :
          /\ now' = n /\ height' = high /\ credit' = left
          /\ height <= high /\ 9 * high + left + now <= 9 * height + credit + n
    BY WaitsEnd, ChainMakesBlocks DEF AverageBlockTime
  <2>2. /\ 9 * high + left + since + PostTimeout <= 9 * goodTil + n + 8
        /\ goodTil <= high + Window
    BY <1>2, <2>1, SyncContext DEF ExpiryInv, AverageBlockTime
  <2> QED
    BY <2>1, <2>2
<1> QED
  BY <1>3, <1>4, <1>5

LEMMA SyncStep ==
  ASSUME Inv, ClockInv, WaitInv, HeightsInv, SyncInv, [DydxNext]_dydxVars
  PROVE  SyncInv'
<1>1. CASE \E q \in Requests, p \in Prices :
             DydxCall(q, p) /\ UNCHANGED <<chainVars, blockVars>>
  BY <1>1 DEF DydxCall, SyncInv
<1>2. CASE Exchange
  <2>1. /\ UNCHANGED <<now, height, credit, pc, attempt, clock, elapsed, since, synced,
                       lastHeight, lastTime>>
        /\ order' = "sent" => order = "sent" /\ goodTil' = goodTil
    BY <1>2
    DEF Exchange, DydxSettle, Settle, SettleAdrift, chainVars, orderVars, blockVars
  <2> SUFFICES ASSUME synced, pc # "ready" PROVE StampInv' /\ CallClockInv' /\ ExpiryInv'
    BY <2>1 DEF SyncInv
  <2>2. StampInv /\ CallClockInv /\ ExpiryInv
    BY DEF SyncInv
  <2> QED
    BY <2>1, <2>2 DEF StampInv, CallClockInv, ExpiryInv, Within, Spent
<1>3. CASE OutOfTime \/ UNCHANGED dydxVars
  <2>1. UNCHANGED dydxVars
    BY <1>3 DEF OutOfTime
  <2> QED
    BY <2>1
    DEF SyncInv, StampInv, CallClockInv, ExpiryInv, Within, Spent, dydxVars, vars,
        chainVars, orderVars, blockVars
<1> QED
  BY <1>1, <1>2, <1>3, TraderKeepsSync, TrackerKeepsSync, ElapseKeepsSync DEF DydxNext

\* Once a refusal has set the height, no order of the same call is refused for
\* its expiry: however the two threads' stores and reads are interleaved, for any
\* chain that keeps its average but for bursts, any margin and any window that
\* satisfy ExpiryAssumption.
THEOREM DydxSyncedOrdersAreInWindow == DydxSpec => []SyncedOrderIsInWindow
<1>1. Inv /\ ClockInv /\ WaitInv /\ SyncInv => SyncedOrderIsInWindow
  <2> SUFFICES ASSUME Inv, ClockInv, WaitInv, SyncInv, synced, order = "sent"
               PROVE  InWindow
    BY DEF SyncedOrderIsInWindow
  <2>1. pc = "await" /\ now <= since + PostTimeout
    BY DEF Inv, OrdersInv, WaitInv
  <2>2. /\ 9 * height + credit + since + PostTimeout <= 9 * goodTil + now + 8
        /\ goodTil <= height + Window
    BY <2>1 DEF SyncInv, ExpiryInv, AverageBlockTime
  <2>3. height <= goodTil
    BY <2>1, <2>2, SyncContext
  <2> QED
    BY <2>2, <2>3 DEF InWindow
<1>2. ClockInv /\ TypeOK' /\ [DydxNext]_dydxVars => ClockInv'
  BY ClockStep
<1>3. Inv /\ ClockInv /\ WaitInv /\ [DydxNext]_dydxVars => WaitInv'
  BY WaitStep
<1>4. Inv /\ ClockInv /\ WaitInv /\ HeightsInv /\ [DydxNext]_dydxVars => HeightsInv'
  BY HeightsStep
<1>5. Inv /\ ClockInv /\ WaitInv /\ HeightsInv /\ SyncInv /\ [DydxNext]_dydxVars => SyncInv'
  BY SyncStep
<1> QED
  BY <1>1, <1>2, <1>3, <1>4, <1>5, ClockInit, WaitInit, ExpiryInit, DydxIsALiveTrader,
     Invariance, TraderTypeOK, PTL DEF DydxSpec
==============================================================================
