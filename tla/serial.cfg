SPECIFICATION Spec
CONSTANTS
  s1 = s1
  s2 = s2
  r1 = r1
  r2 = r2
  Sessions <- TwoSessions
  Requests <- OneRequest
  Ops <- AllOps
  FaultyCalls <- HarmlessCalls
  Elapsing = {}
  EnvEvents <- ExitOrVanish
  MaxContainers = 2
  MaxEdits = 1
INVARIANTS TypeOK StoppedIsQuiet  UartFollowsState SavedWhenIdle
PROPERTIES Refinement
CHECK_DEADLOCK FALSE
