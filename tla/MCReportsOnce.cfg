CONSTANTS
  w1 = w1
  w2 = w2
  s1 = s1
  c1 = c1
  c2 = c2
  nobody = nobody
  Nobody = nobody
  Workers = {w1, w2}
  Conversations = {s1}
  Deletable = {s1}
  Turns = {1, 2, 3}
  Children = {c1, c2}
  Slots <- OneSlot
  Batch = 2
  MaxNudges = 1
  MaxGoals = 2
  Scopes <- Wakes
SPECIFICATION LiveSpec
CHECK_DEADLOCK FALSE
INVARIANT ReportsSafety
PROPERTY OnceOver ReportsArrive ChildrenStart
