SPECIFICATION MCSpec
CONSTANTS
  p1 = p1
  p2 = p2
  HOME = HOME
  WORK = WORK
  sid = sid
  small = small
  large = large
  Process = {p1, p2}
  Config <- MCConfig
  NoSid = NoSid
  NoPin = NoPin
  EmptyFile = EmptyFile
  NoProcess = NoProcess
  Migrations = 2
  RangeKeys = 2
  MaxBoots = 3
  users = users
  staff = staff
  ops = ops
  alice = alice
  web = web
  host = host
  GroupName = {users, staff, ops}
  UserName = {alice}
  ServiceName = {web}
  HostRecord = {host}
  NoGroup = NoGroup
  PlanFile <- MCPlanFile
  Floor = 2
  MaxGid = 5
  MaxEvents = 4
  www = www
  nfs = nfs
  w1 = w1
  w2 = w2
  KName = {web, www, nfs}
  KPrincipal = {web, nfs}
  Canonical <- MCCanonical
  KWorker = {w1, w2}
  Asks <- MCAsks
  MaxVersion = 2
  MaxBorn = 2
SYMMETRY Symmetry
CHECK_DEADLOCK FALSE
INVARIANT OneMasterKey
INVARIANT MigratedWhole
INVARIANT ServesPinned
INVARIANT RestartWritesNothing
INVARIANT FileKeeps
INVARIANT PlanSound
 
