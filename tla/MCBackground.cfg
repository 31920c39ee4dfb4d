SPECIFICATION MCSpec
CONSTANTS
  apex = apex
  kdc = kdc
  web = web
  srv = srv
  a1 = a1
  a9 = a9
  c1 = c1
  c2 = c2
  host = host
  Name = {apex, kdc, web, srv}
  Address = {a1, a9}
  Target = {host}
  Container = {c1, c2}
  Admin = Admin
  Requested <- MCRequested
  Parses <- MCRequested
  Forward = {apex, kdc, web, srv}
  Reverse = {}
  Apexes = {apex}
  Hostname = kdc
  OwnAddresses = {a1}
  RealmText = {}
  Services = {srv}
  Clock = {2, 4}
  SerialModulus = 32
  MaxSerial = 20
  ContainerName = {web, kdc}
  NoName = NoName
  NoRow = NoRow
  Selected <- MCSelected
  MaxChanges = 4
  r1 = r1
  r2 = r2
  l1 = l1
  l2 = l2
  VRequest = {r1, r2}
  Loop = {l1, l2}
  VConfig <- MCVConfig
  MinRenewDelay = 2
  Lifetime = {1, 3}
  NoConfig = NoConfig
  NoLoop = NoLoop
  NoVRequest = NoVRequest
  NoCert = NoCert
  Deployments <- MCDeployments
CHECK_DEADLOCK FALSE
 
PROPERTY RegistrationsFollowList
PROPERTY ComesIntoLine
INVARIANT RenewsInTime
PROPERTY ManagementEnds
PROPERTY ProcessEnds
 
 
INVARIANT StopsInOrder
