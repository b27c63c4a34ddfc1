CONSTANTS
  Pages = {1, 2}
  Host = 1
  Opening <- TwoTabs
  MaxOps = 2
  MaxFaults = 0
  MaxDays = 1
SPECIFICATION CalmSpec
INVARIANTS ObservedInStep
PROPERTIES SharedTextKept SeedOnlyIfEmpty
CHECK_DEADLOCK FALSE
