\* main returns before the threads it detached have run.
SPECIFICATION CoreSpec
CONSTANTS
  MaxMatches = 3
  MaxPending = 2
CHECK_DEADLOCK FALSE
INVARIANTS
  DispatchedIsPosted
