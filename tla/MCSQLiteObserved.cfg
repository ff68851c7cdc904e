CONSTANTS
  Ids = {v1, v2}
  Reqs = {r1, r2}
  BuildDelay = 1
  None = None
SPECIFICATION ObservedSpec
SYMMETRY Symmetry
INVARIANT TypeOK
INVARIANT ColumnsAgree
INVARIANT OneDeleteSucceeds
INVARIANT ObservedIInv
INVARIANT RepliesWitnessed
INVARIANT AnswersStand
PROPERTY RefinesLifecycle
PROPERTY LoneRequestsAtomic
PROPERTY StopUndoneByRaceOnly
