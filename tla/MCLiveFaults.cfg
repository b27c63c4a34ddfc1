CONSTANTS
  Pages = {1, 2}
  Host = 1
  Opening <- NoText
  MaxOps = 1
  MaxFaults = 1
  MaxDays = 0
SPECIFICATION CalmSpec
INVARIANTS StoredOrDue QuietAgree
PROPERTIES Converges
CHECK_DEADLOCK FALSE
