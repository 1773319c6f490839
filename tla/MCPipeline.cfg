SPECIFICATION PSpec
CONSTANTS
  h1 = h1
  h2 = h2
  n1 = n1
  Main = main
  Handlers = {h1, h2}
  Posts = {h1}
  Deletes = {h2}
  Chans = {n1}
  Outages = {"down"}
  MaxGen = 3
  MaxSubs = 2
  MaxBreaks = 1
  WatcherCap = 1
  MaxNotified = 2
  MaxTroubles = 1
INVARIANTS
  PTypeOK
  ChannelOrder
  NothingVanishes
  EveryChannelHasItsLoop
  NoLeakedConnection
PROPERTIES
  ImplementsNotifyFeed
CHECK_DEADLOCK FALSE
