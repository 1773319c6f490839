SPECIFICATION Spec
CONSTANTS
  s1 = s1
  i1 = i1
  NoId = NoId
  Sends = {s1}
  Ids = {i1}
  SendRetry = 1
  IdemMax = 1
  IdemTTL = 1
  MaxTime = 0
  MaxCrashes = 0
INVARIANTS
  PublishedOnce
CHECK_DEADLOCK FALSE
