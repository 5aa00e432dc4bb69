SPECIFICATION Spec
CONSTANTS
  r1 = r1
  r2 = r2
  r3 = r3
  Requests = {r1, r2, r3}
  Body <- SameText
  Kind <- MixedKinds
  MaxEvents = 1
CHECK_DEADLOCK FALSE
INVARIANTS
  Inv
  OneSendAtATime
  TextsAreSentOnce
  ExplicitPausesLast
  ClaimsAreGivenBack
  CitationsStickOnlyToExplicitPauses
PROPERTIES
  OverruledRequestsKeepOff
