CONSTANTS
  b1 = b1
  b2 = b2
  b3 = b3
  r1 = r1
  r2 = r2
  c1 = c1
  s1 = s1
  n1 = n1
  l1 = l1
  o1 = o1
  v1 = v1
  v2 = v2
  None = None
  ClientSeed = {}
  Break = {b1}
  Request = {r1}
  Card = {}
  Value = {}
  PackCount = {n1}
  VodLink = {}
  Offset = {o1}
  MaxBreaks = 1
  MaxPulls = 1
  MaxSlots = 5
  Words = 16
  MaxVersion = 2
  Viewer = {v1, v2}
  MaxConnections = 1
SPECIFICATION OverlaySpec
INVARIANTS SlotsMatchStreams
PROPERTIES OverlayCatchesUp
CHECK_DEADLOCK FALSE
