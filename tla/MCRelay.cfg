SPECIFICATION FairSpec
CONSTANTS
  h1 = h1
  n1 = n1
  Main = main
  Handlers = {h1}
  Chans = {n1}
  Outages = {"down"}
  MaxGen = 5
  MaxSubs = 2
  MaxBreaks = 1
INVARIANTS
  TypeOK
  EveryChannelHasItsLoop
  NoLeakedConnection
PROPERTIES
  ClosedForGood
  Recovers
  CancelledLoopsEnd
  NothingSurvivesClose
  DispatchGetsThrough
  HealthyAnswers
