SPECIFICATION FairSpec
CONSTANTS
  Devices = {d1, d2}
  MaxLogins = 2
  MaxFaults = 1
CHECK_DEADLOCK FALSE
INVARIANTS
  TypeOK
  AnswersUnwrap
  OneKey
  ReloadKeepsKey
PROPERTIES
  KwkStays
  IsKeyRegister
  LoginShares
  Repaired
