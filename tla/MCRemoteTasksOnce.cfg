CONSTANTS
  p1 = p1
  p2 = p2
  Polls = {p1, p2}
  MaxTasks = 2
  Scopes <- EachKind
SPECIFICATION LiveSpec
CHECK_DEADLOCK FALSE
INVARIANT RemoteTasksSafety
PROPERTY HandedOnce SettledStays CallsEnd DeadAreSwept
