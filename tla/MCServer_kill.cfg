SPECIFICATION Spec
CONSTANTS
  c1 = c1
  Conns = {c1}
  HistoryRetention = 2
  QueueCap = 1
  MaxID = 2
INVARIANTS
  ClientsCannotKill
CHECK_DEADLOCK FALSE
