SPECIFICATION FairSpec
CONSTANTS
  s1 = s1
  s2 = s2
  i1 = i1
  NoId = NoId
  Sends = {s1, s2}
  Ids = {i1}
  SendRetry = 1
  IdemMax = 1
  IdemTTL = 0
  MaxTime = 1
  MaxCrashes = 1
INVARIANTS
  TypeOK
  AckImpliesPublished
  StoreKeepsRecent
PROPERTIES
  SendsEnd
CHECK_DEADLOCK FALSE
