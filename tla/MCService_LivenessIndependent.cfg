CONSTANTS
  Reqs = {r1, r2}
  Backends = {"openstack"}
  Tokens = 2
  Workers = 2
  None = None
  Client = r1
SPECIFICATION FairSpec
PROPERTY LivenessIndependent
