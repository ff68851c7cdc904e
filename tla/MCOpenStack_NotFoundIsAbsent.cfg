CONSTANTS
  Ids = {v1}
  Reqs = {r1}
  None = None
SPECIFICATION Spec
INVARIANT NotFoundIsAbsent
