\* Three processes, two migrations, two defaults, three faults of any kind.
CONSTANTS
  Processes = {p1, p2, p3}
  Files = 2
  Defaults <- ProfileAndAdmin
  Unique = {"admin"}
  NoOne = NoOne
  MaxFaults = 3
SPECIFICATION FairSpec
INVARIANTS OnceInOrder SeededOnce ServesComplete
PROPERTY AllServe
CHECK_DEADLOCK FALSE
