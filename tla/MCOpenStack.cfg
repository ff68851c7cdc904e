CONSTANTS
  Ids = {v1, v2}
  Reqs = {r1, r2}
  None = None
SPECIFICATION Spec
SYMMETRY Symmetry
INVARIANT TypeOK
INVARIANT RefusalsTruthful
INVARIANT SuccessesTruthful
PROPERTY NeverDeletesBuild
