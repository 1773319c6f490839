SPECIFICATION FairSpec
CONSTANTS
  StartBase = 3
  StartMax = 5
  MaxAttempt = 1
  MaxSends = 2
  Sends <- MCSends
  Counts = {0, 1}
INVARIANTS
  TypeOK
  NoLeakedPool
  TallyIsTrue
PROPERTIES
  StopEnds
  StartsInTheEnd
  SimulatorEnds
