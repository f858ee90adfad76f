CONSTANTS
  w1 = w1
  w2 = w2
  s1 = s1
  s2 = s2
  k1 = k1
  k2 = k2
  k3 = k3
  p1 = p1
  nobody = nobody
  Nobody = nobody
  Workers = {w1}
  Sessions = {s1}
  ChatSessions = {s1}
  Keys = {k1, k2, k3}
  PanelKeys = {p1}
  ActiveLimit = 2
  MaxRuns = 3
SPECIFICATION Spec
SYMMETRY Symmetry
CHECK_DEADLOCK FALSE
INVARIANT TypeOK RunsSafety
PROPERTY TerminalStays SteerKept
