SPECIFICATION MCSpec
CONSTANTS
  alice = alice
  web = web
  db = db
  ra = ra
  rb = rb
  Local = Local
  NoTicket = NoTicket
  User = {alice}
  Service = {web, db}
  Remote = {ra, rb}
  Inbound = {ra, rb}
  Outbound = {ra, rb}
  Transitive = {ra}
  Skew = 1
  MaxTicketLife = 2
  MaxRenewableLife = 4
  TicketLife <- MCTicketLife
  RenewableLife <- MCRenewableLife
  AllowPostdate = {alice}
  AllowRenewable = {alice, Local, web, ra}
  ForwardableTo = {Local, web, db, ra}
  OKToAuthAsDelegate = {web}
  AllowedToDelegateTo <- MCDelegates
  Impersonates <- MCImpersonates
  Asked = {4}
  Body <- MCBody
  MaxNow = 4
  ahead = ahead
  behind = behind
  level = level
  w1 = w1
  w2 = w2
  a1 = a1
  a2 = a2
  Auth = {ahead, behind, level}
  NoAuth = NoAuth
  CTime <- MCCTime
  RSkew = 2
  TGSWorker = {w1, w2}
  Stall = FALSE
  RMaxNow = 9
  ASWorker = {a1, a2}
  MaxFailures = 2
  Interval = 3
  Duration = 4
  LMaxNow = 6
  q1 = q1
  q2 = q2
  s1 = s1
  s2 = s2
  TRequest = {q1, q2}
  TSecret = {s1, s2}
  NoTrust = NoTrust
  NoSecret = NoSecret
CHECK_DEADLOCK TRUE
 
INVARIANT NoEarlyUse
INVARIANT ForwardableConsented
INVARIANT TransitedTold
INVARIANT DisabledRunsOut
INVARIANT AcceptedOnce
INVARIANT GuessesBounded
INVARIANT LockKept
INVARIANT KeysFollowTrust
