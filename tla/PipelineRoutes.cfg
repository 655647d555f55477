\* One query over two routes, one attempt each, one fault of any kind, fairness.
SPECIFICATION FairSpec
CONSTANTS
  j1 = j1
  j2 = j2
  r1 = r1
  r2 = r2
  NoJob = NoJob
  Jobs = {j1}
  Routes = {r1, r2}
  MaxSelected = 2
  MaxRetries = 0
  NoEndpoint = {}
  MaxFaults = 1
  Watched = {}
CHECK_DEADLOCK FALSE
INVARIANTS
  TypeOK
  CompletedMatchesResults
  NotifiedOnce
PROPERTIES
  ImplementsLifecycle
  AcceptedIsAssembled
  ThreadsEnd
