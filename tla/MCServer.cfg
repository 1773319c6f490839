SPECIFICATION FairSpec
CONSTANTS
  c1 = c1
  Conns = {c1}
  HistoryRetention = 3
  QueueCap = 2
  MaxID = 5
INVARIANTS
  TypeOK
  InOrderOnce
  LossOnlyInWindow
PROPERTIES
  ImplementsFeed
  SlowClientsDoNotBlock
  LostPeersAreReaped
  QueuedIsSent
CHECK_DEADLOCK FALSE
