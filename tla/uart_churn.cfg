SPECIFICATION Spec
CONSTANTS
  c1 = c1
  c2 = c2
  c3 = c3
  Nobody = Nobody
  Uarts = {0}
  Clients = {c1, c2, c3}
  Leaving = {c1, c2, c3}
  Events = {"unregister", "stop", "openfails"}
  ChanSize = 1
  MaxRegistrations = 1
  MaxLines = 2
SYMMETRY ClientSymmetry
INVARIANTS TypeOK SubscribersExact
CHECK_DEADLOCK FALSE
