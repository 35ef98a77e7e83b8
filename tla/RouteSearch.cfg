CONSTANTS
  Tool = {1, 2, 3, 4, 5}
  Layer <- MCLayer
  Depth = 3
  Capability = {1, 2, 3}
  Problems <- MCProblems
  Limit = 3
SPECIFICATION Spec
INVARIANTS
  TypeOK
  SearchIsExact
  VerdictIsExact
\* The analysis ends.
CHECK_DEADLOCK FALSE
