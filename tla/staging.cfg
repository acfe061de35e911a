CONSTANTS
  Views = {v1}
  Bufs = {d, e}
  EglBufs = {e}
  SizeOf <- MCSizeOf
  Shm = Shm
  Sizes = {small, large}
  Cells = {top, bottom}
  None = None
  MaxSlots = 2
  MaxAge = 2
  MaxCommits = 3
  MaxUid = 3
  MaxId = 2
  small = small
SYMMETRY Symmetry
SPECIFICATION Spec
INVARIANTS
  CopiesAreExact
  ReadsStayWhole
  ImportsFollowBuffers
