CONSTANTS
  Reqs = {r1, r2, r3}
  Backends = {"mock", "sqlite", "openstack"}
  Tokens = 2
  Workers = 2
  None = None
  Client = r1
SPECIFICATION FairSpec
INVARIANT TypeOK
INVARIANT OnlyProbesBlock
INVARIANT ReadyMeansConnected
INVARIANT ErrorsNameTheirCause
INVARIANT NoGridlock
PROPERTY ClientServed
PROPERTY ClientAnsweredOnceWarm
