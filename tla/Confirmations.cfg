SPECIFICATION Spec
CONSTANTS
  None = None
  a1 = a1
  a2 = a2
  t1 = t1
  t2 = t2
  m1 = m1
  m2 = m2
  Assignments = {a1, a2}
  RequiredWorkers = 2
  Start <- OneSaidNo
  Messages = {m1, m2}
  Says <- EveryKind
  Threads = {t1, t2}
  Marks = {"NO_CONFIRMO"}
  Deliveries = {"DELIVERED"}
  MaxLinks = 2
  MaxEvents = 1
SYMMETRY Interchangeable
CHECK_DEADLOCK FALSE
INVARIANTS
  Inv
  TheLastConfirmationIsAnnounced
  RequestStatusAgrees
PROPERTIES
  OnlyThePanelTakesBack
