\* Three executions of either kind on one article.
CONSTANT Jobs = {j1, j2, j3}
SPECIFICATION FairSpec
INVARIANTS ActiveIsNewest OkIsStored
PROPERTIES AllEnd ImplementsLog
CHECK_DEADLOCK FALSE
