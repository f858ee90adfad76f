CONSTANTS
  w1 = w1
  w2 = w2
  Workers = {w1, w2}
  MaxTurns = 1
  MaxLines = 2
  Kept = 1
  Parts = 2
  Batch = 1
  MaxSwitches = 2
  Scopes <- OneLong
SPECIFICATION DeliveriesSpec
CHECK_DEADLOCK FALSE
INVARIANT SentIsTold
