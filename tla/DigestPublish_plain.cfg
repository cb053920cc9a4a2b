\* Three executions without force, every fault: the row as a lock.
CONSTANTS
  Workers = {w1, w2, w3}
  ForceModes = {FALSE}
  Faults = {"crash", "database"}
  MaxRuns = 3
  RetryLimit = 3
SPECIFICATION Spec
SYMMETRY WorkerSymmetry
CHECK_DEADLOCK FALSE
INVARIANTS OnePublisher PublishedMatchesContent
PROPERTY ImplementsLedger
