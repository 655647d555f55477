\* Two queries that share the listener, one fault of any kind.
SPECIFICATION Spec
CONSTANTS
  j1 = j1
  j2 = j2
  r1 = r1
  r2 = r2
  NoJob = NoJob
  Jobs = {j1, j2}
  Routes = {r1}
  MaxSelected = 2
  MaxRetries = 0
  NoEndpoint = {}
  MaxFaults = 1
  Watched = {}
SYMMETRY JobSymmetry
CHECK_DEADLOCK FALSE
INVARIANTS
  ReadyIsInHand
