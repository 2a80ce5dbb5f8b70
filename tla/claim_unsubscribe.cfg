SPECIFICATION Spec
CONSTANTS
  c1 = c1
  c2 = c2
  c3 = c3
  Nobody = Nobody
  Uarts = {0}
  Clients = {c1}
  Leaving = {c1}
  Events = {}
  ChanSize = 1
  MaxRegistrations = 1
  MaxLines = 1
INVARIANTS NoSendToRemoved
CHECK_DEADLOCK FALSE
