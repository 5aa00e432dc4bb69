SPECIFICATION FairSpec
CONSTANTS
  leader = leader
  m1 = m1
  p1 = p1
  p2 = p2
  h1 = h1
  h2 = h2
  h3 = h3
  Leader = leader
  Member = {}
  Pass = {p1}
  Handler = {h1}
  MaxRecords = 2
  Refusals = {"rejected", "unlisted"}
  MaxOld = 2
  MaxRefused = 2
  MaxFaults = 1
CHECK_DEADLOCK FALSE
INVARIANT RejectedMarksAreNotKept
PROPERTY QueueDrains
