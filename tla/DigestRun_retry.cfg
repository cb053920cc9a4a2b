\* Retries after a publication that was refused.
CONSTANTS
  Fingerprint <- AllDifferent
  Entries = {e1}
  ForceModes = {FALSE}
  MaxFailures = 1
SPECIFICATION FairRunSpec
PROPERTY FailedIsRetried
CHECK_DEADLOCK FALSE
