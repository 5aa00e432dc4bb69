SPECIFICATION FairSpec
CONSTANTS
  c1 = c1
  p1 = p1
  p2 = p2
  t1 = t1
  NoMessage = NoMessage
  Messages = {m1}
  Candidates = {c1}
  Sender <- OneSender
  Ticks = {t1, t2}
  Processes = {p1, p2}
  Host <- TwoHosts
  Directives = {"ask", "inform"}
  MaxAttempts = 3
  ClaimLimit = 1
  MaxLostTicks = 1
CHECK_DEADLOCK FALSE
INVARIANTS
  AtMostOneReply
  DoneTurnsWereCommitted
  RepliesFollowCommits
  OwedRepliesAreAccountedFor
  ReviewsGoSilentOnlyAfterAFailure
PROPERTIES
  DeliversTurns
  AckedTurnsSettle
