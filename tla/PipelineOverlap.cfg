SPECIFICATION Spec
CONSTANTS
  c1 = c1
  p1 = p1
  p2 = p2
  t1 = t1
  NoMessage = NoMessage
  Messages = {m1, m2}
  Candidates = {c1}
  Sender <- OneSender
  Ticks = {t1, t2}
  Processes = {p1}
  Host <- OneHost
  Directives = {"ask"}
  MaxAttempts = 1
  ClaimLimit = 2
  MaxLostTicks = 1
SYMMETRY Interchangeable
CHECK_DEADLOCK FALSE
INVARIANTS
  Inv
  ExclusiveTurns
  RunningJobsAreHeldOrStranded
