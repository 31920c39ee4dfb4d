------------------------------- MODULE Startup -------------------------------
(***************************************************************************)
(* What a process does before it serves (cmd/ldap-kdc/main.go: run): the    *)
(* master key file, the schema, and the facts the database is pinned to,   *)
(* which are the realm with its krbtgt, the domain SID, the ID range and   *)
(* the signing key.  Several processes may share a database; each may be   *)
(* started with another configuration, refused, and crash at any step.     *)
(* Each pin is read in one transaction and written in a later one.         *)
(***************************************************************************)
EXTENDS Naturals, FiniteSets

CONSTANTS
  Process,
  Config,        \* configurations: [realm, sid, range], sid possibly NoSid
  NoSid, NoPin, NoProcess,
  EmptyFile,     \* a key file created and not yet written
  Migrations,    \* how many the schema has
  RangeKeys,     \* how many rows of the meta table hold the range
  MaxBoots       \* bound: process starts

ASSUME StartupAssumption ==
  /\ {Migrations, RangeKeys, MaxBoots} \subseteq Nat \ {0}
  /\ NoProcess \notin Process
  /\ NoPin \notin {c.realm : c \in Config} \cup {c.sid : c \in Config} \cup {c.range : c \in Config}
  /\ NoPin # EmptyFile /\ NoPin \notin Config
  /\ \A b, k \in 1..MaxBoots :
       [boot |-> b] \notin {NoPin, EmptyFile} /\ NoPin # [key |-> k, sealed |-> [boot |-> b]]

VARIABLES
  keyfile,       \* the master key file: NoPin (none), EmptyFile or its key
  schema,        \* migrations applied
  schemaLock,    \* pg_advisory_lock, held by a process
  meta,          \* [realm, sid, range, signing]: the pinned facts
  krbtgt,        \* realms whose ticket-granting principal exists
  procs,         \* Process -> [pc, boot, config, master, at, sid, signer]
  boots,         \* starts so far; a boot's number stands for what it generates
  tripped,       \* history: a migration failed because another process had applied it
  together       \* history: two processes were pinning facts at once

stvars == <<keyfile, schema, schemaLock, meta, krbtgt, procs, boots, tripped, together>>

Down == [pc |-> "down", boot |-> 0, config |-> NoPin, master |-> NoPin, at |-> 0, sid |-> NoPin, signer |-> NoPin]

Unpinned == [realm |-> NoPin, sid |-> NoPin, range |-> [k \in 1..RangeKeys |-> NoPin], signing |-> NoPin]

Generated(b) == [boot |-> b]

StartupInit ==
  /\ keyfile = NoPin /\ schema = 0 /\ schemaLock = NoProcess
  /\ meta = Unpinned /\ krbtgt = {}
  /\ procs = [p \in Process |-> Down]
  /\ boots = 0 /\ tripped = FALSE /\ together = FALSE

\* What is known of a process is replaced.
Step(p, proc) == procs' = [procs EXCEPT ![p] = proc]
Goes(p, pc) == Step(p, [procs[p] EXCEPT !.pc = pc])
Refused(p) == Step(p, Down)

Boot(p, c) ==
  /\ procs[p] = Down /\ boots < MaxBoots
  /\ boots' = boots + 1
  /\ Step(p, [Down EXCEPT !.pc = "key", !.boot = boots', !.config = c])
  /\ UNCHANGED <<keyfile, schema, schemaLock, meta, krbtgt, tripped, together>>

\* LoadOrCreateMasterKey: a file of the wrong length is refused.
LoadKey(p) ==
  /\ procs[p].pc = "key"
  /\ CASE keyfile = NoPin     -> Goes(p, "create key")
       [] keyfile = EmptyFile -> Refused(p)
       [] OTHER               -> Step(p, [procs[p] EXCEPT !.pc = "lock", !.master = keyfile])
  /\ UNCHANGED <<keyfile, schema, schemaLock, meta, krbtgt, boots, tripped, together>>

\* Faulty variant: without O_EXCL.
CreateKeyOver(p) ==
  /\ procs[p].pc = "create key"
  /\ keyfile' = EmptyFile /\ Goes(p, "write key")
  /\ UNCHANGED <<schema, schemaLock, meta, krbtgt, boots, tripped, together>>

\* LoadOrCreateMasterKey: the file is created, O_EXCL, and written after.
CreateKey(p) ==
  /\ procs[p].pc = "create key"
  /\ IF keyfile = NoPin THEN keyfile' = EmptyFile /\ Goes(p, "write key")
     ELSE Refused(p) /\ UNCHANGED keyfile
  /\ UNCHANGED <<schema, schemaLock, meta, krbtgt, boots, tripped, together>>

WriteKey(p) ==
  /\ procs[p].pc = "write key"
  /\ keyfile' = Generated(procs[p].boot)
  /\ Step(p, [procs[p] EXCEPT !.pc = "lock", !.master = keyfile'])
  /\ UNCHANGED <<schema, schemaLock, meta, krbtgt, boots, tripped, together>>

\* Faulty variant: the schema is not locked.
LockSchemaNot(p) ==
  /\ procs[p].pc = "lock"
  /\ Step(p, [procs[p] EXCEPT !.pc = "migrate", !.at = schema])
  /\ UNCHANGED <<keyfile, schema, schemaLock, meta, krbtgt, boots, tripped, together>>

\* migrate takes the lock, then reads what has been applied.
LockSchema(p) ==
  /\ procs[p].pc = "lock" /\ schemaLock = NoProcess
  /\ schemaLock' = p
  /\ Step(p, [procs[p] EXCEPT !.pc = "migrate", !.at = schema])
  /\ UNCHANGED <<keyfile, schema, meta, krbtgt, boots, tripped, together>>

\* migrate applies the next one in a transaction of its own; one already
\* recorded fails on its primary key.
Migrate(p) ==
  /\ procs[p].pc = "migrate" /\ procs[p].at < Migrations
  /\ IF schema = procs[p].at
     THEN /\ schema' = schema + 1
          /\ Step(p, [procs[p] EXCEPT !.at = @ + 1])
          /\ UNCHANGED <<schemaLock, tripped>>
     ELSE /\ tripped' = TRUE /\ Refused(p)
          /\ schemaLock' = NoProcess /\ UNCHANGED schema
  /\ UNCHANGED <<keyfile, meta, krbtgt, boots, together>>

Pinning == {"realm", "set realm", "krbtgt", "make krbtgt", "sid", "set sid", "range", "set range", "signing", "set signing"}

Migrated(p) ==
  /\ procs[p].pc = "migrate" /\ procs[p].at = Migrations
  /\ schemaLock' = NoProcess /\ Goes(p, "realm")
  /\ together' = (together \/ \E q \in Process : procs[q].pc \in Pinning)
  /\ UNCHANGED <<keyfile, schema, meta, krbtgt, boots, tripped>>

\* EnsureRealm.
ReadRealm(p) ==
  /\ procs[p].pc = "realm"
  /\ CASE meta.realm = NoPin                  -> Goes(p, "set realm")
       [] meta.realm = procs[p].config.realm  -> Goes(p, "krbtgt")
       [] OTHER                               -> Refused(p)
  /\ UNCHANGED <<keyfile, schema, schemaLock, meta, krbtgt, boots, tripped, together>>

SetRealm(p) ==
  /\ procs[p].pc = "set realm"
  /\ meta' = [meta EXCEPT !.realm = procs[p].config.realm] /\ Goes(p, "krbtgt")
  /\ UNCHANGED <<keyfile, schema, schemaLock, krbtgt, boots, tripped, together>>

\* ensureServicePrincipal: looked up, then created; kadmin/changepw likewise.
ReadKrbtgt(p) ==
  /\ procs[p].pc = "krbtgt"
  /\ Goes(p, IF procs[p].config.realm \in krbtgt THEN "sid" ELSE "make krbtgt")
  /\ UNCHANGED <<keyfile, schema, schemaLock, meta, krbtgt, boots, tripped, together>>

MakeKrbtgt(p) ==
  /\ procs[p].pc = "make krbtgt"
  /\ IF procs[p].config.realm \in krbtgt THEN Refused(p) ELSE Goes(p, "sid")
  /\ krbtgt' = krbtgt \cup {procs[p].config.realm}
  /\ UNCHANGED <<keyfile, schema, schemaLock, meta, boots, tripped, together>>

\* EnsureDomainSID: a configured one must be the stored one; a database with
\* neither gets a new one.
ReadSid(p) ==
  LET want == procs[p].config.sid
      serve == IF want # NoSid THEN want ELSE IF meta.sid # NoPin THEN meta.sid ELSE Generated(procs[p].boot)
  IN  /\ procs[p].pc = "sid"
      /\ IF want # NoSid /\ meta.sid # NoPin /\ want # meta.sid THEN Refused(p)
         ELSE Step(p, [procs[p] EXCEPT !.pc = IF meta.sid = NoPin THEN "set sid" ELSE "range", !.sid = serve])
      /\ UNCHANGED <<keyfile, schema, schemaLock, meta, krbtgt, boots, tripped, together>>

SetSid(p) ==
  /\ procs[p].pc = "set sid"
  /\ meta' = [meta EXCEPT !.sid = procs[p].sid] /\ Goes(p, "range")
  /\ UNCHANGED <<keyfile, schema, schemaLock, krbtgt, boots, tripped, together>>

\* Faulty variant: a range is pinned when its first row is there.
ReadRangeFirst(p) ==
  /\ procs[p].pc = "range"
  /\ CASE meta.range[1] = NoPin                     -> Step(p, [procs[p] EXCEPT !.pc = "set range", !.at = 1])
       [] meta.range[1] = procs[p].config.range     -> Goes(p, "signing")
       [] OTHER                                     -> Refused(p)
  /\ UNCHANGED <<keyfile, schema, schemaLock, meta, krbtgt, boots, tripped, together>>

\* EnsureIDRange, readIDRange: a row that is missing means no range yet.
ReadRange(p) ==
  LET stored == {meta.range[k] : k \in 1..RangeKeys}
  IN  /\ procs[p].pc = "range"
      /\ CASE NoPin \in stored                      -> Step(p, [procs[p] EXCEPT !.pc = "set range", !.at = 1])
           [] stored = {procs[p].config.range}      -> Goes(p, "signing")
           [] OTHER                                 -> Refused(p)
      /\ UNCHANGED <<keyfile, schema, schemaLock, meta, krbtgt, boots, tripped, together>>

\* writeIDRange: a transaction for each row.
SetRange(p) ==
  /\ procs[p].pc = "set range"
  /\ meta' = [meta EXCEPT !.range[procs[p].at] = procs[p].config.range]
  /\ IF procs[p].at = RangeKeys THEN Goes(p, "signing")
     ELSE Step(p, [procs[p] EXCEPT !.at = @ + 1])
  /\ UNCHANGED <<keyfile, schema, schemaLock, krbtgt, boots, tripped, together>>

\* jws.LoadOrCreate: a stored key has to open under this master key.
ReadSigning(p) ==
  /\ procs[p].pc = "signing"
  /\ CASE meta.signing = NoPin                        -> Goes(p, "set signing")
       [] meta.signing # NoPin /\ meta.signing.sealed = procs[p].master
                                                      -> Step(p, [procs[p] EXCEPT !.pc = "up", !.signer = meta.signing])
       [] OTHER                                       -> Refused(p)
  /\ UNCHANGED <<keyfile, schema, schemaLock, meta, krbtgt, boots, tripped, together>>

SetSigning(p) ==
  /\ procs[p].pc = "set signing"
  /\ meta' = [meta EXCEPT !.signing = [key |-> procs[p].boot, sealed |-> procs[p].master]]
  /\ Step(p, [procs[p] EXCEPT !.pc = "up", !.signer = meta'.signing])
  /\ UNCHANGED <<keyfile, schema, schemaLock, krbtgt, boots, tripped, together>>

\* A crash, a signal, or an error at any step; the schema lock goes with the
\* connection.
Die(p) ==
  /\ procs[p] # Down
  /\ Refused(p)
  /\ schemaLock' = IF schemaLock = p THEN NoProcess ELSE schemaLock
  /\ UNCHANGED <<keyfile, schema, meta, krbtgt, boots, tripped, together>>

StartupNext ==
  \E p \in Process :
    \/ \E c \in Config : Boot(p, c)
    \/ LoadKey(p) \/ CreateKey(p) \/ WriteKey(p)
    \/ LockSchema(p) \/ Migrate(p) \/ Migrated(p)
    \/ ReadRealm(p) \/ SetRealm(p) \/ ReadKrbtgt(p) \/ MakeKrbtgt(p)
    \/ ReadSid(p) \/ SetSid(p) \/ ReadRange(p) \/ SetRange(p) \/ ReadSigning(p) \/ SetSigning(p)
    \/ Die(p)

StartupSpec == StartupInit /\ [][StartupNext]_stvars

-----------------------------------------------------------------------------

\* Two processes that race to initialize a deployment never seal with
\* different keys: every process past its first step has the key that is in
\* the file, and the stored signing key is sealed with it (O_EXCL in
\* LoadOrCreateMasterKey).
OneMasterKey ==
  /\ \A p \in Process : procs[p].master # NoPin => procs[p].master = keyfile
  /\ meta.signing # NoPin => meta.signing.sealed = keyfile

\* A service that starts against a database another one is migrating waits and
\* finds nothing left to apply: no migration fails, and whoever gets past the
\* schema has all of it (migrate, on PostgreSQL).
MigratedWhole ==
  /\ ~ tripped
  /\ \A p \in Process : procs[p].pc \in Pinning \cup {"up"} => schema = Migrations

\* As long as no two processes pin facts at once, whoever serves, serves the
\* facts the database is pinned to, after any number of crashes and starts with
\* other configurations (EnsureRealm, EnsureDomainSID, EnsureIDRange,
\* LoadOrCreate).
ServesPinned ==
  ~ together => \A p \in Process : procs[p].pc = "up" =>
    /\ procs[p].config.realm = meta.realm /\ meta.realm \in krbtgt
    /\ procs[p].sid = meta.sid
    /\ \A k \in 1..RangeKeys : meta.range[k] = procs[p].config.range
    /\ procs[p].signer = meta.signing

\* A pinned fact never changes: in such a database a realm, a SID, a signing
\* key and a complete range stay what they are (EnsureRealm and the others).
PinsStay ==
  [][~ together' =>
       /\ \A f \in {"realm", "sid", "signing"} : meta[f] # NoPin => meta'[f] = meta[f]
       /\ NoPin \notin {meta.range[k] : k \in 1..RangeKeys} => meta'.range = meta.range]_stvars
==============================================================================
