\* Two models in chains of one or two, three tries, one article among four.
CONSTANTS
  m1 = m1
  m2 = m2
  Models = {m1, m2}
  Blank = Blank
  NoName = NoName
  None = None
  MaxTry = 3
  Settings <- Chains
  Policies <- SomePolicies
  Analyses <- SomeAnalyses
  Dossiers <- SomeDossiers
  Plans <- SomePlans
  Others <- SomeOthers
  PlanAttempts = 2
  Featured = 3
SPECIFICATION FairSpec
INVARIANTS TriesExactly QueuedReadAsAdvised ItemsTraced FallbackComplete
PROPERTY DigestIsMade
CHECK_DEADLOCK FALSE
