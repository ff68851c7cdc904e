CONSTANTS
  Ids = {v1}
  Reqs = {r1, r2}
  BuildDelay = 1
  None = None
SPECIFICATION Spec
SYMMETRY Symmetry
PROPERTY OnlyFromSource
