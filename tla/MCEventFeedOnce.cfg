CONSTANTS
  w1 = w1
  w2 = w2
  Writers = {w1, w2}
  Page = 3
  Room = 2
  MaxId = 4
SPECIFICATION LiveSpec
CHECK_DEADLOCK FALSE
INVARIANT EventFeedSafety
PROPERTY KeepsPromise EventsArrive
