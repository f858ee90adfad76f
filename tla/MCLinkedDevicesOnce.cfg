CONSTANTS
  v = v
  w = w
  m1 = m1
  m2 = m2
  a1 = a1
  a2 = a2
  nobody = nobody
  Nobody = nobody
  Workers = {v, w}
  Messages = {m1, m2}
  Accounts = {a1, a2}
  Lease = 2
  SendTime = 1
  Scopes <- EachPart
SPECIFICATION LiveSpec
CHECK_DEADLOCK FALSE
INVARIANT LinkedDevicesSafety
PROPERTY NeverGoBack Settles HeldAgain
