CONSTANTS
  w1 = w1
  w2 = w2
  s1 = s1
  s2 = s2
  k1 = k1
  k2 = k2
  k3 = k3
  p1 = p1
  nobody = nobody
  Nobody = nobody
  Workers = {w1, w2}
  Sessions = {s1, s2}
  ChatSessions = {s2}
  Keys = {k1}
  PanelKeys = {}
  ActiveLimit = 1
  MaxRuns = 3
SPECIFICATION LiveSpec
CHECK_DEADLOCK FALSE
INVARIANT IInv OneTurnPerRun ActiveCap
PROPERTY OrphansEnd LapsedIsSilent ApprovalPromise
