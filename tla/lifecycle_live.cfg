CONSTANTS
  v1 = v1
  v2 = v2
  id = id
  Callers = {c1, c2}
  Servers = {s1}
  Views <- OneView
  Ids <- OneId
  IdOf <- IdOfOne
  None = None
  QueryLocks = FALSE
  FactoryLocks = TRUE
SPECIFICATION FairSpec
PROPERTY EveryCallReturns
