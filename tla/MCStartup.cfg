SPECIFICATION Spec
CONSTANTS
  Files <- SomeFiles
  Symbols = {"S", "T"}
  Digests <- SomeDigests
INVARIANTS StartTypeOK StartedAsConfigured SocketsAreWatched AddressIsRight
\* main may end, or come to the engine's endless loop.
CHECK_DEADLOCK FALSE
