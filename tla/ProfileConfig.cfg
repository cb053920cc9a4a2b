\* Three requests: seedings and saves of every kind.
CONSTANTS
  Requests = {q1, q2, q3}
  Ids <- EnoughIds
SPECIFICATION Spec
SYMMETRY RequestSymmetry
INVARIANTS NeverWithout SaveReplaces SeedNeverOverrides
PROPERTY KeepPreserves
CHECK_DEADLOCK FALSE
