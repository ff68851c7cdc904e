CONSTANTS
  Ids = {v1}
  Reqs = {r1, r2}
  Stores = {s1, s2}
  None = None
SPECIFICATION Spec
INVARIANT OneStorePerProcess
