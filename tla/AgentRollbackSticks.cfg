SPECIFICATION Spec
CONSTANTS
  h1 = h1
  h2 = h2
  v0 = v0
  v1 = v1
  Handlers = {h1, h2}
  Versions = {v0, v1}
  FactoryVersion = v0
  IsAGV = TRUE
INVARIANT RollbackSticks
