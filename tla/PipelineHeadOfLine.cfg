SPECIFICATION FairSpec
CONSTANTS
  c1 = c1
  p1 = p1
  p2 = p2
  t1 = t1
  NoMessage = NoMessage
  Messages = {m1, m2}
  Candidates = {c1}
  Sender <- OneSender
  Ticks = {t1}
  Processes = {p1}
  Host <- OneHost
  Directives = {}
  MaxAttempts = 3
  ClaimLimit = 1
  MaxLostTicks = 1
CHECK_DEADLOCK FALSE
PROPERTIES
  AckedTurnsSettle
