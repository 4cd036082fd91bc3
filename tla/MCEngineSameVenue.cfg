SPECIFICATION EngineSpec
CONSTANTS
  a = a
  b = b
  btc = btc
  eth = eth
  NoVenue = NoVenue
  Venues = {a, b}
  Executors = {a, b}
  Exchanges <- MCExchanges
  LotSize <- UnitLots
  Symbols <- OneSymbol
  MaxPrice = 3
  Quantities = {2}
  Live = FALSE
  MaxPosUsd = 3
  MinSpread = 100
  MinNotional = 1
  MaxAttempts = 1
  MaxFaults = 0
INVARIANT BuysAndSellsAreOnDifferentVenues
