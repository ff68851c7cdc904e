CONSTANTS
  Reqs = {r1, r2}
  Backends = {"sqlite"}
  Tokens = 2
  Workers = 2
  None = None
  Client = r1
SPECIFICATION Spec
INVARIANT ReadyMeansInitialised
