SPECIFICATION FairSpec
CONSTANTS
  Sockets = {s1, s2}
  NoSocket = NoSocket
  Threads = {t1, t2}
  Main = Main
  MaxFailures = 2
  Stale = 4
  Grace = 3
  NotBad = NotBad
  MaxSkipped = 2
INVARIANTS TypeOK OneReconnector OneWriter SilenceIsNoticed SuspicionIsWitnessed
PROPERTIES QuietSocketIsReplaced FeedComesBack
