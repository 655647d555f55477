\* Two queries with the same route, no fault: the answers differ.
SPECIFICATION Spec
CONSTANTS
  j1 = j1
  j2 = j2
  r1 = r1
  r2 = r2
  NoJob = NoJob
  Jobs = {j1, j2}
  Routes = {r1}
  MaxSelected = 2
  MaxRetries = 0
  NoEndpoint = {}
  MaxFaults = 0
  Watched = {}
CHECK_DEADLOCK FALSE
INVARIANTS
  SameRoutesSameAnswer
