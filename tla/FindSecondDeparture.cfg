SPECIFICATION Spec
CONSTANTS
  c1 = c1
  r1 = r1
  r2 = r2
  r3 = r3
  r4 = r4
  Request = {r1, r2}
  Asks <- AnyMark
  Coordinator = {c1}
  Moment <- EarlyAndLate
  ExpectedStart = 28800
  ExpectedEnd = 57600
  FormShapes <- FewForms
  MaxManual = 1
SYMMETRY EitherKey
CHECK_DEADLOCK FALSE
INVARIANTS
  OneDepartureMark
