SPECIFICATION FairSpec
CONSTANTS
  NoRow = NoRow
  NoEntry = NoEntry
  Ids = {w1}
  Users = {u1}
  Account = u1
  Devices = {d1}
  Contents = {0,1,2,3}
  UserOps = {"edit","close"}
  Starts = {"synced"}
  CanDrop = FALSE
  PullsOverlap = TRUE
  MaxOps = 3
  MaxFaults = 2
  MaxPolls = 0
  MaxClock = 2
CHECK_DEADLOCK FALSE
INVARIANTS
  OneContentPerVersion
  SettledInStep
PROPERTIES
  VersionsForward
  EventuallyInStep
