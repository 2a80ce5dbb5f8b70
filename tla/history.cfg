SPECIFICATION Spec
CONSTANTS
  x = x
  y = y
  z = z
  blank = blank
  Line = {x, y, z}
  maxSize = 4
INVARIANTS TypeOK NoBlankReturned
PROPERTIES IsWindow
