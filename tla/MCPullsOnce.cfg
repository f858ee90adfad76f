CONSTANTS
  w1 = w1
  w2 = w2
  Workers = {w1, w2}
  MaxComments = 1
  MaxCommits = 3
  MaxSettles = 1
  Scopes <- LooksOrPushes
SPECIFICATION LiveSpec
CHECK_DEADLOCK FALSE
INVARIANT PullsSafety
PROPERTY OverIsOver CommentsArrive
