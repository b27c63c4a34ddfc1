SPECIFICATION Spec
CONSTANTS
  NoRow = NoRow
  NoCursor = NoCursor
  Omitted = Omitted
  c1 = c1
  c2 = c2
  Contents = {c1, c2}
  Ids = {w1}
  Users = {u1, u2}
  Slots = {s1, s2, s3}
  Pullers = {u1}
  MaxClock = 1
  MaxVersion = 2
  Bodies <- MCBodies
SYMMETRY Symmetry
INVARIANTS
  TypeOK
  VerdictIsRight
  ConflictIsNewer
  OwnRowsOnly
  MissedOnlyIfLate
PROPERTY
  IsLwwStore
