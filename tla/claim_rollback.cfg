SPECIFICATION Spec
CONSTANTS
  s1 = s1
  s2 = s2
  r1 = r1
  r2 = r2
  Sessions <- OneSession
  Requests <- OneRequest
  Ops <- AllOps
  FaultyCalls = {"start"}
  Elapsing = {}
  EnvEvents = {}
  MaxContainers = 1
  MaxEdits = 0
INVARIANTS FailedStartRollsBack
CHECK_DEADLOCK FALSE
