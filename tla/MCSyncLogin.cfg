SPECIFICATION FairSpec
CONSTANTS
  NoRow = NoRow
  NoEntry = NoEntry
  Ids = {w1}
  Users = {u1}
  Account = u1
  Devices = {d1}
  Contents = {0,1,2}
  UserOps = {"edit","save","close","open","reload","signin","logout"}
  Starts = {"new","closed","anonymous"}
  CanDrop = TRUE
  PullsOverlap = TRUE
  MaxOps = 2
  MaxFaults = 1
  MaxPolls = 1
  MaxClock = 3
CHECK_DEADLOCK FALSE
INVARIANTS
  TypeOK
  NoneMissing
PROPERTIES
  Uploaded
  LoginSettles
