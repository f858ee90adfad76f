CONSTANTS
  a = a
  c = c
  b = b
  owner = owner
  nowhere = nowhere
  Profiles = {a, b, c}
  Owner = owner
  NoSession = nowhere
  DepthLimit = 2
  Slots = 2
  Addressed = {a, b}
  MaxRuns = 3
SPECIFICATION PeersLiveSpec
CHECK_DEADLOCK FALSE
INVARIANT PeersSafety
PROPERTY AsksEnd
