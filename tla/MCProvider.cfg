CONSTANTS
  Ids = {v1, v2}
  Reqs = {r1, r2}
  Stores = {s1, s2, s3}
  None = None
SPECIFICATION Spec
SYMMETRY Symmetry
INVARIANT TypeOK
INVARIANT ReachableUnlessRaced
PROPERTY RefinesLifecycle
PROPERTY AnsweredByLifecycle
