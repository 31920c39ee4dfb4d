SPECIFICATION MCSpec
CONSTANTS
  w1 = w1
  w2 = w2
  u1 = u1
  u2 = u2
  p1 = p1
  p2 = p2
  alice = alice
  bob = bob
  svc = svc
  web = web
  pw1 = pw1
  pw2 = pw2
  Random = Random
  NoUser = NoUser
  NoName = NoName
  NoDigest = NoDigest
  TooLong = TooLong
  Worker = {w1, w2}
  Uid = {u1, u2}
  Pid = {p1, p2}
  UserName = {alice, bob}
  Name = {alice, bob, svc, web}
  Password = {pw1, pw2}
  MaxKvno = 3
  MaxPending = 1
  Ops = {"create", "apply", "delete", "patch", "modify", "kpasswd", "cancel", "crash"}
SYMMETRY Symmetry
CHECK_DEADLOCK FALSE
INVARIANT KeyWindow
INVARIANT SaltFollowsNameSerially
INVARIANT NameBelongsToOne
 
INVARIANT AccountsSettled
