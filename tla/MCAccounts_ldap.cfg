SPECIFICATION AccountsSpec
CONSTANTS
  w1 = w1
  w2 = w2
  u1 = u1
  u2 = u2
  p1 = p1
  p2 = p2
  alice = alice
  bob = bob
  svc = svc
  pw1 = pw1
  pw2 = pw2
  Random = Random
  NoUser = NoUser
  NoName = NoName
  NoDigest = NoDigest
  TooLong = TooLong
  MaxPending = 0
  Pid = {p1, p2}
  Worker = {w1}
  Uid = {u1}
  UserName = {alice}
  Name = {alice, svc}
  Password = {pw1}
  MaxKvno = 2
  Ops = {"create", "modify"}
SYMMETRY Symmetry
CHECK_DEADLOCK FALSE
INVARIANT DisabledReachesKerberos
