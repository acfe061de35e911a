CONSTANTS
  Views = {v1, v2}
  Buffers = {x, y, z}
  None = None
  NumLayers = 1
  MaxUnfenced = 2
  Pipeline = 2
  MaxSeq = 4
  MaxReports = 2
SPECIFICATION Spec
INVARIANTS
  HeldUntilDone
