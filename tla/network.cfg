SPECIFICATION Spec
CONSTANTS
  s1 = s1
  s2 = s2
  tap0 = tap0
  tap1 = tap1
  br0 = br0
  eth0 = eth0
  NoIf = NoIf
  NoOne = NoOne
  Sessions = {s1, s2}
  Taps = {tap0, tap1}
  Bridges = {br0, eth0}
  Nics = {eth0}
  Configs <- SomeConfigs
  Faults <- EveryFault
SYMMETRY SessionSymmetry
INVARIANTS TypeOK Accounted 
 
CHECK_DEADLOCK FALSE
