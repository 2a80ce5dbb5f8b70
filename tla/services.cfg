SPECIFICATION ServicesSpec
CONSTANTS
  u1 = u1
  u2 = u2
  d1 = d1
  d2 = d2
  s1 = s1
  name = name
  i1 = i1
  i2 = i2
  h1 = h1
  NoFile = NoFile
  Partial = Partial
  Mixed = Mixed
  NoCapture = NoCapture
  Uploads = {u1, u2}
  Deletes = {d1, d2}
  Sessions = {s1}
  Names = {name}
  MaxMillis = 2
  Faults <- EveryFault
  Ids = {i1, i2}
  Handlers = {h1}
  MaxCrashes = 1
  MaxSent = 2
INVARIANTS TypeOK  FirmwareIsRecorded  CapturesTypeOK ProxyTypeOK NothingLost
PROPERTIES CaptureKept  ProxyEnds
CHECK_DEADLOCK FALSE
