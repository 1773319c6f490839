SPECIFICATION Spec
CONSTANTS
  c1 = c1
  Conns = {c1}
  HistoryRetention = 2
  QueueCap = 2
  MaxID = 3
INVARIANTS
  ResumeComplete
CHECK_DEADLOCK FALSE
