SPECIFICATION Spec
CONSTANTS
  s1 = s1
  s2 = s2
  r1 = r1
  r2 = r2
  Sessions <- OneSession
  Requests <- OneRequest
  Ops = {"create", "update", "start", "stop", "delete"}
  FaultyCalls = {"start", "stop", "remove", "save"}
  Elapsing <- Clocks
  EnvEvents = {"crash", "exit"}
  MaxContainers = 1
  MaxEdits = 1
PROPERTIES SettingsKept GoneStaysGone  
CHECK_DEADLOCK FALSE
