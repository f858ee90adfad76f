CONSTANTS
  w1 = w1
  w2 = w2
  Workers = {w1, w2}
  MaxEvents = 3
  Scopes <- EachPart
SPECIFICATION LiveSpec
CHECK_DEADLOCK FALSE
INVARIANT IntakeSafety
PROPERTY TurnsInOrder Settles
