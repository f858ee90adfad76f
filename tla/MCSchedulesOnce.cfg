CONSTANTS
  w1 = w1
  w2 = w2
  a = a
  Workers = {w1, w2}
  Ids = {a}
  Period = 1
  DoneAfter = 1
  HistoryFor = 0
  MaxClock = 3
SPECIFICATION LiveSpec
CHECK_DEADLOCK FALSE
INVARIANT SchedulesSafety
PROPERTY DueMovesOn DueIsTried
