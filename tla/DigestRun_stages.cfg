\* Three entries, retries and forced reruns, three failures.
CONSTANTS
  Fingerprint <- OnePair
  Entries = {e1, e2, e3}
  ForceModes = {TRUE, FALSE}
  MaxFailures = 3
SPECIFICATION FairRunSpec
INVARIANTS MarkedHasDossier PublishedIsTraced
PROPERTY UnreadTakenUp
CHECK_DEADLOCK FALSE
