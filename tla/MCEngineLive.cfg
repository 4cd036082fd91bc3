SPECIFICATION FewQuotesSpec
CONSTANTS
  a = a
  b = b
  btc = btc
  eth = eth
  NoVenue = NoVenue
  Venues = {a, b}
  Executors = {a, b}
  Exchanges <- MCExchanges
  LotSize <- UnitLots
  Symbols <- TwoSymbols
  MaxPrice = 3
  Quantities = {2}
  Live = TRUE
  MaxPosUsd = 3
  MinSpread = 100
  MinNotional = 1
  MaxAttempts = 2
  MaxFaults = 1
INVARIANTS PositionBound RecordIsExposure
PROPERTY EverySymbolIsChecked
