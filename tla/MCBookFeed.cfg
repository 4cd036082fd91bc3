SPECIFICATION FewBooksSpec
CONSTANTS
  MaxPrice = 3
  Quantities = {1, 2}
  Deltas = TRUE
  MaxMalformed = 1
INVARIANTS TypeOK NoPhantomLevels AsksAreExact SnapshotIsExact
PROPERTY QuotesAreUncrossed
