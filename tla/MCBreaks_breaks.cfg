CONSTANTS
  b1 = b1
  b2 = b2
  b3 = b3
  r1 = r1
  r2 = r2
  c1 = c1
  s1 = s1
  n1 = n1
  l1 = l1
  o1 = o1
  v1 = v1
  v2 = v2
  None = None
  ClientSeed = {s1}
  Break = {b1, b2, b3}
  Request = {r1, r2}
  Card = {c1}
  Value = {}
  PackCount = {}
  VodLink = {}
  Offset = {}
  MaxBreaks = 1
  MaxPulls = 2
  MaxSlots = 5
  Words = 16
  MaxVersion = 1
  Viewer = {}
  MaxConnections = 1
SPECIFICATION OverlaySpec
SYMMETRY Symmetry
INVARIANTS LogIsOneChain LimitsNearlyHold ShuffleIsUniform
 
CHECK_DEADLOCK FALSE
