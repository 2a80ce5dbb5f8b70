SPECIFICATION Spec
CONSTANTS
  b1 = b1
  x1 = x1
  x2 = x2
  p1 = p1
  p2 = p2
  k1 = k1
  k2 = k2
  k3 = k3
  k4 = k4
  NoRow = NoRow
  Nothing = Nothing
  Binaries = {b1}
  Sessions = {x1}
  Legacy = {x1}
  Rows = {k1, k2, k3, k4}
  Savers = {p1, p2}
  Faults = {"record", "crash"}
  MaxVersion = 2
SYMMETRY SaverSymmetry
INVARIANTS TypeOK RecordsBounded
PROPERTIES SaveHeals NeverOlder
CHECK_DEADLOCK FALSE
