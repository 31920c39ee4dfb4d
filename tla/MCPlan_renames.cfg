SPECIFICATION PlanSpec
CONSTANTS
  users = users
  staff = staff
  ops = ops
  alice = alice
  web = web
  host = host
  GroupName = {users, staff, ops}
  UserName = {alice}
  ServiceName = {web}
  HostRecord = {host}
  NoGroup = NoGroup
  PlanFile <- MCPlanFile
  Floor = 2
  MaxGid = 5
  MaxEvents = 4
CHECK_DEADLOCK FALSE
INVARIANT PlanAlwaysInPlace
