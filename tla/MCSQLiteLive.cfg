CONSTANTS
  Ids = {v1}
  Reqs = {r1, r2}
  BuildDelay = 2
  None = None
SPECIFICATION FairSpec
PROPERTY BuildSettles
