CONSTANTS
  Views = {v1}
  Buffers = {x, y, z}
  None = None
  NumLayers = 1
  MaxUnfenced = 2
  Pipeline = 2
  MaxSeq = 4
  MaxReports = 2
SPECIFICATION Spec
INVARIANTS
  HeldWhileRead
  HeldForAReason
