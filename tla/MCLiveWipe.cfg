CONSTANTS
  Pages = {1, 2}
  Host = 1
  Opening <- TwoTabs
  MaxOps = 2
  MaxFaults = 0
  MaxDays = 0
SPECIFICATION CalmSpec
PROPERTIES TypedTextKept
CHECK_DEADLOCK FALSE
