\* Two queries in each suite of the benchmark.
SPECIFICATION BenchSpec
CONSTANTS
  SuiteLength = 2
CHECK_DEADLOCK FALSE
INVARIANTS
  MeasuresItsBackend
