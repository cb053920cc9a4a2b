\* Forced and unforced executions together, every fault.
CONSTANTS
  Workers = {w1, w2}
  ForceModes = {TRUE, FALSE}
  Faults = {"crash", "database"}
  MaxRuns = 2
  RetryLimit = 3
SPECIFICATION FairSpec
CHECK_DEADLOCK FALSE
INVARIANTS RemoteIsVisible OkMeansTraced
PROPERTY RunReturns
