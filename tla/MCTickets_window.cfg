SPECIFICATION TicketsSpec
CONSTANTS
  alice = alice
  web = web
  db = db
  ra = ra
  rb = rb
  Local = Local
  NoTicket = NoTicket
  User = {alice}
  Service = {web, db}
  Remote = {ra, rb}
  Inbound = {ra, rb}
  Outbound = {ra, rb}
  Transitive = {ra}
  Skew = 1
  MaxTicketLife = 2
  MaxRenewableLife = 4
  TicketLife <- MCTicketLife
  RenewableLife <- MCRenewableLife
  AllowPostdate = {alice}
  AllowRenewable = {alice, Local, web, ra}
  ForwardableTo = {Local, web, db, ra}
  OKToAuthAsDelegate = {web}
  AllowedToDelegateTo <- MCDelegates
  Impersonates <- MCImpersonates
  Asked = {4}
  Body <- MCBody
  MaxNow = 4
INVARIANT WindowOpens
