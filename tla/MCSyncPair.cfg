SPECIFICATION Spec
CONSTANTS
  NoRow = NoRow
  NoEntry = NoEntry
  Ids = {w1}
  Users = {u1}
  Account = u1
  Devices = {d1, d2}
  Contents = {0,1,2}
  UserOps = {"save","close","open","rename","delete"}
  Starts = {"saved"}
  CanDrop = FALSE
  PullsOverlap = FALSE
  MaxOps = 2
  MaxFaults = 0
  MaxPolls = 2
  MaxClock = 4
CHECK_DEADLOCK FALSE
SYMMETRY Symmetry
INVARIANTS
  SettledAtServerVersion
