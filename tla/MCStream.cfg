SPECIFICATION FairSpec
CONSTANTS
  EventsCap = 1
  ErrsCap = 1
  HistoryRetention = 2
  PipeCap = 2
  MaxID = 3
  MaxLives = 2
  MaxCuts = 2
INVARIANTS
  TypeOK
  DeliveredInOrder
  FirstLifeComplete
PROPERTIES
  StreamEnds
  Reconnects
