SPECIFICATION Spec
CHECK_DEADLOCK FALSE
CONSTANTS
  p1 = p1
  p2 = p2
  q1 = q1
  q2 = q2
  r1 = r1
  r2 = r2
  a = a
  b = b
  NoPhoto = NoPhoto
  Photos <- TwoPhotos
  Starters <- OneStarter
  Pipelines <- TwoPipelines
  Publishers <- OnePublisher
  MaxPhotos = 1
  Pictures <- OnePicture
SYMMETRY Symmetry
INVARIANTS
  ServedIsStored
  ServedWasJudged
PROPERTIES
  DeletedStaysDeleted
