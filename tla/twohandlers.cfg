SPECIFICATION Spec
CONSTANTS
  s1 = s1
  s2 = s2
  r1 = r1
  r2 = r2
  Sessions <- OneSession
  Requests <- TwoRequests
  Ops <- AllOps
  FaultyCalls = {"create", "start", "inspect", "stop"}
  Elapsing = {}
  EnvEvents <- ExitOrVanish
  MaxContainers = 2
  MaxEdits = 1
SYMMETRY RequestSymmetry
INVARIANTS ActiveHasContainer
PROPERTIES ContainerKept
CHECK_DEADLOCK FALSE
