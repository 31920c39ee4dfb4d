SPECIFICATION MCSpec
CONSTANTS
  u1 = u1
  r1 = r1
  r2 = r2
  Account = {u1}
  Row = {r1, r2}
  Gid = {1, 2, 3}
  Target = {"base", "entry"}
  Capability <- MCCapability
  Beneath <- MCBeneath
  CapLists <- MCCapLists
  Lists <- MCLists
  NextEdits = 2
  a1 = a1
  a2 = a2
  g1 = g1
  g2 = g2
  User = {a1, a2}
  Group = {g1, g2}
  PosixId = {0, 1, 2, 3, 4}
  BaseID = 1
  Size = 3
  BaseRID = 1003
  SecondaryBaseRID = 1000
CHECK_DEADLOCK FALSE
 
PROPERTY Answered
 
INVARIANT AllocationNeverRefused
INVARIANT WalkSound
