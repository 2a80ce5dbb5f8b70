SPECIFICATION Spec
CONSTANTS
  u1 = u1
  a1 = a1
  b1 = b1
  r1 = r1
  r2 = r2
  NoCaller = NoCaller
  NoBinary = NoBinary
  Users = {u1}
  Admins = {u1}
  Unidentified = Unidentified
  Anons = {a1}
  Binaries = {b1}
  Requests = {r1, r2}
  MaxMillis = 2
SYMMETRY RequestSymmetry
INVARIANTS TypeOK OvershootBounded
