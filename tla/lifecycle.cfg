CONSTANTS
  v1 = v1
  v2 = v2
  id = id
  Callers = {c1, c2}
  Servers = {s1, s2}
  Views <- TwoViews
  Ids <- OneId
  IdOf <- IdOfTwo
  None = None
  QueryLocks = FALSE
  FactoryLocks = TRUE
SPECIFICATION Spec
INVARIANTS
  OneThread
  IdIsFree
  KnowsItsViews
  NobodyStuck
PROPERTIES
  StopLeavesNothing
  KeepsContract
