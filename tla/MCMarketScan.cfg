SPECIFICATION SidesDifferSpec
CONSTANTS
  a = a
  b = b
  btc = btc
  Venues = {a, b}
  Exchanges <- MCExchanges
  Symbols <- MCSymbols
  NoVenue = NoVenue
  MaxPrice = 3
  Quantities = {1, 2}
INVARIANTS TypeOK UnmovedVenueIsReportedAsIs SameVenueOnlyIfMoved QuietScanFindsTheBest
