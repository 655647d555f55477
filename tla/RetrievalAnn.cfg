\* A library as in Parts.cfg; the server refuses the ANN SELECT, as PostgreSQL does.
SPECIFICATION RetrievalSpec
CONSTANTS
  c1 = c1
  c2 = c2
  c3 = c3
  c4 = c4
  Chunks = {c1, c2, c3, c4}
  Pages <- TwoPages
  Profiles <- FourProfiles
  TrigramLimit = 3
  AnnLimit = 2
  Limit = 2
  AnnOutcomes = {"refused"}
CHECK_DEADLOCK FALSE
INVARIANTS
  TrigramFallback
