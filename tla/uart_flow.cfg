SPECIFICATION Spec
CONSTANTS
  c1 = c1
  c2 = c2
  c3 = c3
  Nobody = Nobody
  Uarts = {0}
  Clients = {c1, c2}
  Leaving = {}
  Events = {"unregister"}
  ChanSize = 2
  MaxRegistrations = 2
  MaxLines = 3
INVARIANTS InOrder
PROPERTIES AllSeen EndsWhenUnregistered
CHECK_DEADLOCK FALSE
