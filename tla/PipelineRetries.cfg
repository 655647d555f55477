\* One polled query over a route with three attempts and one without endpoint, two
\* faults: late handlers and fallbacks.
SPECIFICATION Spec
CONSTANTS
  j1 = j1
  j2 = j2
  r1 = r1
  r2 = r2
  NoJob = NoJob
  Jobs = {j1}
  Routes = {r1, r2}
  MaxSelected = 2
  MaxRetries = 2
  NoEndpoint = {r2}
  MaxFaults = 2
  Watched = {j1}
CHECK_DEADLOCK FALSE
INVARIANTS
  OutcomeIsStored
  AssembledHasResult
PROPERTIES
  AnswerWrittenOnce
  ClientSeesProgress
