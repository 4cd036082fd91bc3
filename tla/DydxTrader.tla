------------------------------ MODULE DydxTrader ------------------------------
(***************************************************************************)
(* DydxTrader: LiveTrader with the block at which each order expires.      *)
(*                                                                         *)
(* A dYdX order is good until a block that the exchange accepts only if it *)
(* is not past and not too far ahead.  The trader extrapolates the height  *)
(* from lastBlockHeight_ and lastBlockTime_, two atomics that a thread of  *)
(* its own writes every two minutes, one after the other, and that the     *)
(* answer to a refused order sets in the same way.  The trader reads them  *)
(* one after the other, too.                                               *)
(*                                                                         *)
(* Time is in tenths of a second.  It passes while every thread sleeps or  *)
(* waits for an HTTP answer, and while the trader's thread is held up      *)
(* between reading its clock and sending the order.                        *)
(*                                                                         *)
(* The chain takes 0.9 seconds for a block on average, and makes as many   *)
(* at a time as it likes, but is never further ahead than Ahead.           *)
(***************************************************************************)
EXTENDS LiveTrader, FiniteSetsExt

CONSTANTS
  Ahead,         \* how far the chain may be ahead of its average, in time
  FirstHeight,   \* the chain's height when the trader is made
  Uptime,        \* of the machine, at that time: lastBlockTime_ starts at zero
  Stall,         \* how long a thread may be held up between two statements
  Margin,        \* 15 blocks in the code
  Window,        \* how many blocks ahead an order may expire: 20 on dYdX
  PostTimeout, GetTimeout, Pause, SleepTime,
  CallTimes,     \* bound: the engine calls at these moments
  NotRead

ASSUME DydxAssumption ==
  /\ {Ahead, FirstHeight, Uptime, Stall, Margin, Window, PostTimeout, GetTimeout,
      Pause, SleepTime} \cup CallTimes \subseteq Nat
  /\ Stall < 10
  /\ NotRead \notin Int

AverageBlockTime == 9

\* What getEstimatedBlockHeight makes of the time since the last block: seconds,
\* cut towards zero, divided by 0.9 and cut again.
ElapsedBlocks(tenths) ==
  IF tenths < 0 THEN 0 ELSE ((tenths \div 10) * 10) \div AverageBlockTime

\* The longest that a call goes on after its first attempt.
CallTime == (MaxAttempts - 1) * (Stall + PostTimeout + Pause)

\* What is reckoned in the rest of a call fills the window at most, should the
\* chain stand still; and the margin makes up for a chain that is ahead of its
\* average, a height as old as a GET may take, a clock cut to seconds, a thread
\* that is held up, and an order under way for as long as a POST may take.
ASSUME ExpiryAssumption ==
  /\ PostTimeout <= GetTimeout
  /\ ElapsedBlocks(CallTime) + Margin <= Window
  /\ Ahead + GetTimeout + 9 + Stall + PostTimeout <= AverageBlockTime * Margin

VARIABLES
  now,
  height,      \* of the chain
  credit,      \* how far it has fallen behind the furthest it may be ahead
  lastHeight,  \* lastBlockHeight_
  lastTime,    \* lastBlockTime_
  tracker,     \* what the tracking thread does next: "fetch" waits for an answer
  trackerSince,
  asked,       \* the chain's height when it asked for it
  fetched,     \* the height it was told, until it is stored
  clock,       \* now as read for this attempt
  elapsed,     \* and its distance from lastBlockTime_
  goodTil,     \* good_til_block of the order that is sent, or 0
  since,       \* when the trader's wait began
  told,        \* the height named in the refusal that is being read, or 0
  resync,      \* is the trader about to store it?
  synced       \* history: a refusal of this call was stored

chainVars == <<now, height, credit>>
blockVars == <<lastHeight, lastTime, tracker, trackerSince, asked, fetched>>
orderVars == <<clock, elapsed, goodTil, since, told, resync, synced>>
dydxVars == <<vars, chainVars, blockVars, orderVars>>

\* Every variable has its type.
DydxTypeOK ==
  /\ TypeOK
  /\ {now, height, credit, lastHeight, lastTime, trackerSince, asked, fetched, goodTil,
      since, told} \subseteq Nat
  /\ tracker \in {"sleep", "fetch", "height", "time"}
  /\ clock \in Nat \cup {NotRead}
  /\ elapsed \in Int \cup {NotRead}
  /\ resync \in {"no", "height", "time"}
  /\ synced \in BOOLEAN

\* The constructor has started the tracking thread; both atomics are zero.
DydxInit ==
  /\ Init
  /\ now = Uptime
  /\ height = FirstHeight
  /\ credit = Ahead
  /\ lastHeight = 0
  /\ lastTime = 0
  /\ tracker = "fetch" /\ trackerSince = Uptime
  /\ asked = FirstHeight
  /\ fetched = 0
  /\ clock = NotRead /\ elapsed = NotRead
  /\ goodTil = 0
  /\ since = Uptime
  /\ told = 0
  /\ resync = "no"
  /\ synced = FALSE

------------------------------------------------------------------------------
\* What the exchange asks of a short-term order.
InWindow == height <= goodTil /\ goodTil <= height + Window

------------------------------------------------------------------------------
\* The tracking thread.  A failed fetch stores nothing and is followed by the
\* same sleep.
Fetch ==
  /\ tracker = "sleep"
  /\ now >= trackerSince + SleepTime
  /\ tracker' = "fetch" /\ trackerSince' = now
  /\ asked' = height
  /\ UNCHANGED <<lastHeight, lastTime, fetched>>

\* The height is that of any moment between the request and the answer.
FetchAnswered ==
  /\ tracker = "fetch"
  /\ fetched' \in asked .. height
  /\ tracker' = "height"
  /\ UNCHANGED <<lastHeight, lastTime, trackerSince, asked>>

FetchFails ==
  /\ tracker = "fetch"
  /\ tracker' = "sleep" /\ trackerSince' = now
  /\ UNCHANGED <<lastHeight, lastTime, asked, fetched>>

StoreHeight ==
  /\ tracker = "height"
  /\ lastHeight' = fetched
  /\ fetched' = 0
  /\ tracker' = "time"
  /\ UNCHANGED <<lastTime, trackerSince, asked>>

StoreTime ==
  /\ tracker = "time"
  /\ lastTime' = now
  /\ tracker' = "sleep" /\ trackerSince' = now
  /\ UNCHANGED <<lastHeight, asked, fetched>>

Tracker ==
  /\ \/ Fetch
     \/ FetchAnswered
     \/ FetchFails
     \/ StoreHeight
     \/ StoreTime
  /\ UNCHANGED <<vars, chainVars, orderVars>>

------------------------------------------------------------------------------
\* executeTrade is called.
DydxCall(q, p) ==
  /\ now \in CallTimes
  /\ Call(q, p)
  /\ since' = now
  /\ synced' = FALSE
  /\ UNCHANGED <<clock, elapsed, goodTil, told, resync>>

\* getEstimatedBlockHeight, first the clock ...
ReadClock ==
  /\ pc = "send"
  /\ clock = NotRead
  /\ clock' = now
  /\ UNCHANGED <<vars, elapsed, goodTil, since, told, resync, synced>>

\* Slips the properties must notice: the difference is taken the wrong way
\* round; only the height is stored.
LoadTimeBackwards ==
  /\ clock # NotRead /\ elapsed = NotRead
  /\ elapsed' = lastTime - clock
  /\ UNCHANGED <<vars, clock, goodTil, since, told, resync, synced>>

SyncHeightAlone ==
  /\ resync = "height"
  /\ lastHeight' = told
  /\ told' = 0
  /\ resync' = "no"
  /\ synced' = TRUE
  /\ UNCHANGED <<vars, lastTime, tracker, trackerSince, asked, fetched, clock, elapsed,
                 goodTil, since>>

\* ... then lastBlockTime_, which may have been stored after that ...
LoadTime ==
  /\ clock # NotRead /\ elapsed = NotRead
  /\ elapsed' = clock - lastTime
  /\ UNCHANGED <<vars, clock, goodTil, since, told, resync, synced>>

\* ... and then lastBlockHeight_; with that the order is built and sent.
DydxSend ==
  /\ elapsed # NotRead
  /\ Send
  /\ goodTil' = lastHeight + ElapsedBlocks(elapsed) + Margin
  /\ clock' = NotRead /\ elapsed' = NotRead
  /\ since' = now
  /\ UNCHANGED <<told, resync, synced>>

DydxSigningFails ==
  /\ elapsed # NotRead
  /\ SigningFails
  /\ clock' = NotRead /\ elapsed' = NotRead
  /\ UNCHANGED <<goodTil, since, told, resync, synced>>

\* The exchange refuses an order that has expired or expires too late, and says
\* which block it is at; other orders it may execute or refuse.
DydxSettle ==
  /\ Settle
  /\ order' = "executed" => InWindow
  /\ told' = IF InWindow THEN 0 ELSE height
  /\ goodTil' = 0
  /\ UNCHANGED <<clock, elapsed, since, resync, synced>>

\* A refusal that was read and names the block is about to be stored.
DydxNotAccepted ==
  /\ NotAccepted
  /\ since' = now
  /\ \/ order = "refused" /\ told > 0 /\ resync' = "height" /\ UNCHANGED told
     \/ resync' = "no" /\ told' = 0
  /\ goodTil' = 0
  /\ UNCHANGED <<clock, elapsed, synced>>

SyncHeight ==
  /\ resync = "height"
  /\ lastHeight' = told
  /\ told' = 0
  /\ resync' = "time"
  /\ UNCHANGED <<vars, lastTime, tracker, trackerSince, asked, fetched, clock, elapsed,
                 goodTil, since, synced>>

SyncTime ==
  /\ resync = "time"
  /\ lastTime' = now
  /\ resync' = "no"
  /\ synced' = TRUE
  /\ UNCHANGED <<vars, lastHeight, tracker, trackerSince, asked, fetched, clock, elapsed,
                 goodTil, since, told>>

\* 200 ms after the stores.
DydxRetry ==
  /\ resync = "no"
  /\ now >= since + Pause
  /\ Retry
  /\ UNCHANGED orderVars

DydxTraderStep ==
  /\ \/ /\ \/ (LoadRules \/ Clamp \/ Accepted) /\ UNCHANGED orderVars
           \/ ReadClock
           \/ LoadTime
           \/ DydxSend
           \/ DydxSigningFails
           \/ DydxNotAccepted
           \/ DydxRetry
        /\ UNCHANGED blockVars
     \/ SyncHeight
     \/ SyncTime
  /\ UNCHANGED chainVars

------------------------------------------------------------------------------
\* When the waits that are under way end; the tracking thread may oversleep.
TrackerDue == trackerSince + IF tracker = "fetch" THEN GetTimeout ELSE SleepTime
TraderDue ==
  IF pc = "send" THEN clock + Stall
  ELSE since + IF pc = "pause" THEN Pause ELSE IF pc = "await" THEN PostTimeout
               ELSE GetTimeout

\* Every thread is asleep, waiting for an answer or held up.
AllWait ==
  /\ tracker \in {"sleep", "fetch"}
  /\ resync = "no"
  /\ \/ pc \in {"ready", "await", "pause"}
     \/ pc = "rules" /\ ~ rules
     \/ pc = "send" /\ clock # NotRead

\* Time passes until the next wait can be over or the next call can come.
Moments ==
  {t \in {TrackerDue} \cup IF pc = "ready" THEN CallTimes ELSE {TraderDue} : t > now}

MayWait ==
  /\ tracker = "fetch" => now < TrackerDue
  /\ IF pc = "ready" THEN \E t \in CallTimes : t > now ELSE now < TraderDue

\* The most blocks that the chain may make within a time.
Most(time) == (credit + time) \div AverageBlockTime

\* What is left of the credit is kept up to what the chain may be ahead.
Elapse ==
  /\ AllWait /\ MayWait
  /\ now' = Min(Moments)
  /\ \E blocks \in 0 .. Most(now' - now) :
       LET left == (credit + (now' - now)) - AverageBlockTime * blocks
       IN  /\ height' = height + blocks
           /\ credit' = IF left > Ahead THEN Ahead ELSE left
  /\ UNCHANGED <<vars, blockVars, orderVars>>

\* After the last call the clock may stand still.
OutOfTime ==
  /\ pc = "ready" /\ ~ MayWait
  /\ UNCHANGED dydxVars

Exchange ==
  /\ \/ DydxSettle
     \/ SettleAdrift /\ UNCHANGED orderVars
  /\ UNCHANGED <<chainVars, blockVars>>

DydxNext ==
  \/ \E q \in Requests, p \in Prices :
       DydxCall(q, p) /\ UNCHANGED <<chainVars, blockVars>>
  \/ DydxTraderStep
  \/ Exchange
  \/ Tracker
  \/ Elapse
  \/ OutOfTime

\* Both threads run on and time passes; nothing is assumed of the exchange.
DydxSpec ==
  /\ DydxInit /\ [][DydxNext]_dydxVars
  /\ WF_dydxVars(DydxTraderStep) /\ WF_dydxVars(Tracker) /\ WF_dydxVars(Elapse)

------------------------------------------------------------------------------
\* Once a refusal has set the height, no order of the same call is refused for
\* its expiry, at whatever moment of its second the exchange looks at it:
\* although the tracking thread may store a height that is ten seconds old, or
\* may have stored only one of the two when they are read.
SyncedOrderIsInWindow == synced /\ order = "sent" => InWindow

\* The cast of the time since the last block is defined: another thread may store
\* lastBlockTime_ after the clock was read, but not by so much that a whole second
\* is left when the difference is cut.
CastIsDefined == elapsed # NotRead => elapsed > -10
==============================================================================
