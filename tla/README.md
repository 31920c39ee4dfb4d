# ldap-kdc in TLA+

A model of [ldap-kdc](../src/README.md): one process that serves one directory over LDAP,
Kerberos, kpasswd, DNS, a REST API and OpenID Connect from one SQL store. The modules here
describe the parts whose correctness depends on the order in which things happen; TLC checks
them on small instances and TLAPS proves the main invariants for every size.

## The system and its parts

| Part | Source (`src/internal/`) | State | Operations that change it | Module |
|---|---|---|---|---|
| Credential store | `store/{users,principals,aliases,password}.go` | rows of users, principals, aliases, key versions | create, update, delete, set password, re-key | `Principals` |
| Account provisioning | `store/account.go`, `api/users.go`, `bootstrap`, `ldapsrv/handler.go` | requests under way | CreateAccount and its undo, PATCH with sync, LDAP Modify | `Accounts` |
| Replay cache | `kdc/replay.go`, `kdc/tgs.go` | authenticators seen, last sweep | seen, sweep | `ReplayCache` |
| Lockout | `store/principals.go`, `kdc/as.go` | failure tally, lock, last failure | record success or failure, unlock | `Lockout` |
| Relative identifiers | `store/idrange.go`, `users.go`, `groups.go` | RID of each user and group | create, renumber, delete, backfill | `SecurityIds` |
| Tickets and delegation | `kdc/{as,tgs,ticket}.go` | none but what a ticket carries | issue, derive, refer, renew, validate, S4U | `Tickets` |
| Groups | `store/groups.go` | members, nesting | update, delete, expand | planned |
| kpasswd | `kpasswd/server.go` | none | change password | planned |
| LDAP bind, SASL, ban | `ldapsrv`, `failban` | per-connection exchange, counters | bind, ban | planned |
| DNS zone, Docker DNS | `store/dns.go`, `dnssrv`, `dockerdns` | records, serial, blocked names | edit, reconcile | planned |
| OpenID Connect | `oidc` | sessions, codes | login, authorize, redeem | planned |
| Trusts, keytabs | `api/trusts.go`, `api/keytab.go` | trust rows, krbtgt principals | create, delete, re-key | planned |
| Pinned facts | `store/bootstrap.go`, `store/store.go`, `jws`, `secret` | metadata, key file | first start | planned |
| Vault enrolment | `vaultpki` | certificate, renewal timer | enrol, renew | planned |
| Start and shutdown | `cmd/ldap-kdc/main.go` | listeners | start, stop | planned |

All writes go through `Store.write`, one transaction at a time under a lock. That makes one
transaction one action. What is hard lies between transactions: requests made of several of
them, values read before one and used after it, a cancelled context or a crash in the middle,
and clocks read at different moments.

`PROJECT.json` lists every part, the hazards at the line where each bites, and for every
definition the lines it models.

## Modules

**Principals** holds the tables. `users`, `principals`, `aliases` and `keys` are functions
from row ids; a row is `free`, `live` or `gone` because ids are never reused. Each transaction
that commits is an action with the guard the code and the unique indexes impose; one that is
refused changes nothing and is left out. `SetPrincipalPassword` is two actions, because it
derives keys from a principal it read in an earlier transaction: `pending` holds the keys on
their way. A key version is a record of its number, the secret it came from and the name that
salted it; all encryption types of a version are written together. `UpdateUser` includes the
renaming of linked principals that the code performs on every update.

`SpecOwn` restricts the steps to a directory in which a principal is linked only to the account
of its own name (what `CreateAccount` produces); `SpecSerial` also lets nothing run between the
halves of `SetPrincipalPassword`. They are the conditions under which two promises hold: a name
belongs to one principal (`SpecOwn`, which the theorem NamesUnique uses) and a password key is
salted with its principal's name (`SpecSerial`, which the run `principal_names` uses for both).

**Accounts** extends Principals with workers serving requests. A job is the request's parameters
and its next transaction. `Ops` selects the requests and faults of a run. Cancel makes every
later transaction of a request fail, as a cancelled `context` does; Crash ends every request.
The history variable `trouble` records whether requests have overlapped, LDAP has written or a
fault has occurred, so that one run can state what holds without them.

**ReplayCache** follows one TGS request through the three clock readings that matter: arrival
(skew check), the entry to `seen` (before its mutex) and the sweep. `accepted` is a history
variable. `Stall` says whether the clock may advance inside a request. The run and the theorem
take it to be FALSE: a request that waited between its skew check and the cache until its first
use had been swept would be accepted again.

**Lockout** follows AS requests against one principal: clock, row, verification, clock, row.
`guesses` is a history variable counting the wrong guesses verified per tick since the tally was
last reset, `stalled` one that says whether a tick has fallen inside a request: GuessesBounded is
about executions in which none has, LockExplained about all. Clocks count ticks; the columns hold
whole seconds, so a tick is one.

**SecurityIds** allocates RIDs from a range that is constant because a start with another range
is refused. Init is any database from before identifiers existed; `Restart` leads back to the
backfill.

**Tickets** follows one ticket through a chain of exchanges. The KDC stores no tickets; what it
grants depends on the ticket presented, the clock and the directory, so every ticket it can issue
is the last one of some chain. `Login` is the AS exchange after its authentication;
`ServiceTicket`, `RenewTicket`, `ValidateTicket`, `S4U2Self` and `S4U2Proxy` are the branches of
`handleTGSReq`, with `ValidTicket` for checkTicketValidity, `TimesRefused`, `EndTime` and
`RenewTill` for computeTimes, and `TransitedFor` for the path. `RemoteLogin` and `RemoteReturn`
stand for the KDCs of other realms, which are taken to record their paths. Between exchanges the
clock advances and an administrator changes `enabled` and `allowForwardable`; the rest of the
policy is constant, as are the trusts. `hist` is a history variable: what the chain has promised
and who has vouched for it. Protocol transition is enabled (`allow_s4u`), and a service's own
ticket is taken to be at hand. The INITIAL flag is kept; the PRE-AUTHENT, PROXIABLE, MAY-POSTDATE
and OK-AS-DELEGATE flags and the authentication time are not, because no decision of the KDC
depends on them.

## Runs

Passing runs:

| Run | Shows | Instance |
|---|---|---|
| `principal_keys` | a principal holds exactly its current and previous key version; a stored version never changes | 1 account, 2 principals, 2 names, versions to 4 |
| `principal_names` | one principal per name across both tables, and password keys salted with the canonical name, under `SpecSerial` | 3 names |
| `accounts_create` | no account without its principal after any creations, applies and deletions | 2 workers, 2 accounts, 3 names |
| `accounts_all` | one password behind digest and keys under every request and fault; a disabled account's principals are disabled while requests come one at a time through the API | 2 workers, 1 name, every request and fault |
| `replay_once` | an authenticator is accepted once | 3 client clocks, 2 workers, skew 2, 9 ticks |
| `lockout` | wrong guesses per interval are bounded; a full tally and a lock come together even with stalls | 3 workers, 3 failures, 8 ticks |
| `security_ids` | identifiers are distinct, follow the number, and are always to be had | 2 users, 2 groups, 5 numbers, 2 of them outside the range |
| `tickets` | no ticket ends later than its chain promised; none is valid before a postdated start; no forwardable ticket without the user's leave; the path names every realm that vouched; a disabled user's tickets run out within a ticket life | 1 user, 2 services, 2 other realms of which one is transitive, 4 ticks |

Violated properties, each with a finding that quotes the line it contradicts:

| Run | Trace |
|---|---|
| `update_renames_linked` | an edit of an account renames a service principal linked to it |
| `undo_cancelled` | the cancelled context that failed the creation also fails its undo |
| `disable_over_ldap` | accountStatus over LDAP is not mirrored to Kerberos |
| `empty_window` | a service ticket postdated past the end of the ticket it derives from ends before it starts, because the end is cut after the window was checked |

Bounds. `MaxKvno` ends rotations: four versions show two rotations past the window of two.
`MaxPending` is the number of SetPrincipalPassword calls under way; one is enough for the race.
Row ids are finite and never reused, so a run may use them up: the Principals and Accounts
configurations do not check deadlock. `MaxNow` covers the window of the replay cache and two
sweeps, and a lock with the interval after it. The identifier range has three numbers with one
on either side of it, and its secondary interval directly below the primary one, where an
off-by-one would collide. In Tickets `Asked` is the one time requests name: it lies after the end
of a first ticket and before the last renewal, so that it is cut when it names an end, honoured
when it names a start and reached by the clock; `Body` leaves out times whose option is absent.
Skew is 1, a ticket life 2 and a renewable life 4, so `MaxNow` = 4 reaches a ticket used in the
skew after its end, two renewals and a postdated ticket's start.

Symmetry is over row ids, workers and passwords, none of which any definition tells apart. No
liveness is claimed yet, so no fairness is assumed.

Each property has a faulty variant of one modelled definition (a dropped guard, an off-by-one, a
missing write) under which TLC finds it violated; they are the definitions marked "Faulty
variant" in the modules.

## Proofs

`PrincipalsProofs` proves, for any sets of rows, names and passwords, `TypeCorrect`,
`KeyWindowHolds`, `KeyVersionsFixed` and `NamesUnique`. KeyWindow is inductive together with
the type invariant and the fact that a row not in use has no keys: `RolledWindow` shows that
one roll turns a window ending at version v into one ending at v + 1, and every other action
leaves keys and version alone or empties the row. KeyVersionsFixed follows from it: a roll adds
a version above every stored one. NamesUnique is inductive with OwnLinks, which makes the set
UpdateUser renames empty, and `AcceptedNames` lifts the check of `replaceAliases` to the
invariant.

`ReplayCacheProofs` proves the cache correct for every skew, set of clocks and number of
workers when the clock does not advance inside a request. The invariant adds that an entry is
no older than the earliest moment its authenticator is acceptable, and that an accepted
authenticator is remembered or too old; `SweepForgetsStale` is where twice the skew is needed.

`SecurityIdsProofs` proves all four properties for every range that `IDRange.Validate`
accepts and any number of objects. The invariant adds that numbers are unique within each
table, that rows that do not exist own nothing, and that an owned RID is one of the two of its
owner's number. `OneOfTwoFree` is the argument: the owners of both RIDs of a number would be a
user and a group with that number, one of which is of the asking object's own kind.

`TicketsProofs` proves all six invariants of the run `tickets` for every policy, every skew and
any number of users, services and realms. Four are not inductive alone. `OpensInv`: a chain that
is not yet past its start ends in an invalid ticket that starts no earlier, which is what
survives RENEW and VALIDATE in one request. `LimitInv` bounds the renew-till as well as the end.
`AllowedInv` relates today's policy to the history. `LifeInv` bounds the tickets of an enabled
user too, from now. `NewTicketKeeps` is the argument for all four exchanges that compute times;
`FirstTicketKeeps` and `DerivedTicketKeeps` apply it to the beginning and the middle of a chain.

The constants' assumptions are those the code checks (`RangeAssumption` is
`IDRange.Validate`) or that the tables impose.

Only model-checked so far: SaltFollowsName, everything in Accounts, and Lockout. Out of the
prover's reach and left to TLC: liveness, and what recursive definitions compute.

## Plan

1. `DnsZone` and `DockerDns`: reconciliation against an abstract "records follow containers"
   specification, with liveness under a fair loop, and administrators editing the zone.
2. `OidcCodes`: sessions and single-use codes, expiry races, accounts disabled meanwhile.
3. `Groups` (expansion against a reference definition, gid changes), `Kpasswd`, `Bind`
   (SASL steps, `Failban`), `Trusts`, `Keytab`.
4. `Pins` (several processes starting at once, crashes between writes), `BootstrapPlan`,
   `VaultEnroll`, `Startup`.
5. Proofs: SaltFollowsName under SpecSerial, Provisioned, GuessesBounded and LockExplained, the
   reconciliation's refinement.

## Not modelled

Byte formats (ASN.1, keytabs, PAC, DNS wire format), string-to-key and sealing, configuration
parsing, HTML and API descriptions, logging and metrics: they carry no state that the properties
are about. Database errors other than refused constraints and cancelled contexts are not
injected. The replay cache's loss on restart is inherent in an in-memory cache and is not
restated as a property.
