SPECIFICATION MCSpec
CONSTANTS
  here = here
  bob = bob
  svc = svc
  Source = {here}
  Threshold = 2
  FailWindow = 2
  BlockFor = 2
  PruneEvery = 1
  PruneOlder = 2
  User = {alice, bob}
  Service = {svc}
  Linked <- MCLinked
  Nobody = Nobody
  Conn = {c1}
  Worker = {w1}
  From <- MCFrom
  Typed = {alice}
  Ticketed = {svc}
  HasOTP = {alice}
  HandshakeTimeout = 1
  DMaxNow = 3
  Account = {u}
  Client = {app, res}
  Interactive = {app}
  Sid = {s1, s2}
  Rid = {r1}
  Code = {k1, k2}
  None = None
  Browser = {b1, b2}
  SessionLifetime = 2
  SessionIdle = 1
  CodeLifetime = 0
  TokenLifetime = 1
  OMaxNow = 3
  MaxStandings = 1
SYMMETRY Symmetry
CHECK_DEADLOCK TRUE
 
INVARIANT SignedInLately
INVARIANT DirectoryDecides
 
INVARIANT CodesSound
