SPECIFICATION FewPacesSpec
CONSTANTS
  Throws = TRUE
  Requests <- SomeRequests
  Prices = {2}
  Step = 2
  MinQty = 2
  MaxAttempts = 3
  Ahead = 14
  FirstHeight = 1000
  Uptime = 100
  Stall = 2
  Margin = 15
  Window = 20
  PostTimeout = 10
  GetTimeout = 100
  Pause = 2
  SleepTime = 130
  CallTimes = {100}
  NotRead = NotRead
INVARIANTS DydxTypeOK OutcomeIsALiveLeg OkWasExecuted SyncedOrderIsInWindow CastIsDefined
PROPERTY TradeReturns
