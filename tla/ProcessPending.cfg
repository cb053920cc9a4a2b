\* Three entries, two workers, failures and cancellation anywhere.
CONSTANTS
  Listings <- Windows
  Workers = {g1, g2}
SPECIFICATION FairSpec
CHECK_DEADLOCK FALSE
INVARIANTS CandidatesInOrder ErrorIsTheCause
PROPERTIES ImplementsBatch AllStop
