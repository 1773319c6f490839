SPECIFICATION Spec
CONSTANTS
  Recons <- MCRecons
  HistoryRetention = 2
  MaxID = 4
  MaxConns = 4
INVARIANTS
  TypeOK
  ReadBack
  DelayFits
CHECK_DEADLOCK FALSE
