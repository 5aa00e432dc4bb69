SPECIFICATION Spec
CONSTANTS
  leader = leader
  m1 = m1
  p1 = p1
  p2 = p2
  h1 = h1
  h2 = h2
  h3 = h3
  Leader = leader
  Member = {m1}
  Pass = {p1, p2}
  Handler = {h1, h2}
  MaxRecords = 2
  Refusals = {"rejected"}
  MaxOld = 0
  MaxRefused = 0
  MaxFaults = 1
SYMMETRY Symmetric
CHECK_DEADLOCK FALSE
INVARIANTS
  Inv
  ReceiptsAreTrue
  MarksKeepTheirOrder
  LeadersAreMarkedFirst
