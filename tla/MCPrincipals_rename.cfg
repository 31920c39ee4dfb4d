SPECIFICATION Spec
CONSTANTS
  u1 = u1
  p1 = p1
  p2 = p2
  alice = alice
  svc = svc
  web = web
  pw1 = pw1
  pw2 = pw2
  Random = Random
  NoUser = NoUser
  NoName = NoName
  NoDigest = NoDigest
  Uid = {u1}
  Pid = {p1, p2}
  UserName = {alice}
  Name = {alice, svc}
  Password = {pw1}
  MaxKvno = 2
  MaxPending = 0
SYMMETRY Symmetry
CHECK_DEADLOCK FALSE
PROPERTY CanonicalNameKept
