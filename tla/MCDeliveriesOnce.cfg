CONSTANTS
  w1 = w1
  w2 = w2
  Workers = {w1, w2}
  MaxTurns = 2
  MaxLines = 2
  Kept = 2
  Parts = 2
  Batch = 1
  MaxSwitches = 2
  Scopes <- RaceOrQueue
SPECIFICATION DeliveriesLiveSpec
CHECK_DEADLOCK FALSE
INVARIANT DeliveriesSafety
PROPERTY ToldOnce Settles
