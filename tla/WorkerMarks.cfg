SPECIFICATION Spec
CONSTANTS
  c1 = c1
  r1 = r1
  r2 = r2
  r3 = r3
  r4 = r4
  Request = {r1, r2, r3, r4}
  Asks <- WholeDay
  Coordinator = {}
  Moment <- FourMoments
  ExpectedStart = 28800
  ExpectedEnd = 57600
  FormShapes = {}
  MaxManual = 0
SYMMETRY AnyKey
CHECK_DEADLOCK FALSE
INVARIANTS
  WorkersTimelineIsOrdered
