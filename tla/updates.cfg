CONSTANTS
  Clients = {client}
  TreeClient = client
  Surfaces = {top, sub}
  Tree = {top, sub}
  Owner <- MCOwner
  Shm = {top}
  MaxWaits = 1
  MaxInFlight = 2
  MaxSlots = 2
  MaxUpdates = 3
  MaxBinds = 1
SPECIFICATION Spec
CHECK_DEADLOCK FALSE
INVARIANTS
  WaitsAgree
  ShownIsFinished
  FeedbackAccounted
  PresentedWasShown
PROPERTIES
  UpdatesAnswered
