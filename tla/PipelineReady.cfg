\* One fault of the assembler leaves a ready job behind.
SPECIFICATION FairSpec
CONSTANTS
  j1 = j1
  j2 = j2
  r1 = r1
  r2 = r2
  NoJob = NoJob
  Jobs = {j1}
  Routes = {r1}
  MaxSelected = 2
  MaxRetries = 0
  NoEndpoint = {}
  MaxFaults = 1
  Watched = {}
CHECK_DEADLOCK FALSE
PROPERTIES
  ReadyIsAssembled
