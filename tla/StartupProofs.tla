---------------------------- MODULE StartupProofs ----------------------------
(***************************************************************************)
(* The facts a start relies on, for any number of processes, migrations,   *)
(* configurations, rows of the range, starts and crashes.                  *)
(***************************************************************************)
EXTENDS Startup, TLAPS

Keys == {Generated(b) : b \in 1..MaxBoots}
Realms == {c.realm : c \in Config}
Ranges == {c.range : c \in Config}
Sids == {c.sid : c \in Config} \cup Keys
Signers == [key : 1..MaxBoots, sealed : Keys]

Points == {"down", "key", "create key", "write key", "lock", "migrate", "up"} \cup Pinning

Proc == [pc : Points, boot : 0..MaxBoots, config : Config \cup {NoPin}, master : Keys \cup {NoPin},
         at : Nat, sid : Sids \cup {NoPin}, signer : Signers \cup {NoPin}]

Meta == [realm : Realms \cup {NoPin}, sid : Sids \cup {NoPin},
         range : [1..RangeKeys -> Ranges \cup {NoPin}], signing : Signers \cup {NoPin}]

Opened == {"lock", "migrate", "up"} \cup Pinning

\* Types; whoever opens the database has a master key.
Shared ==
  /\ keyfile \in Keys \cup {NoPin, EmptyFile}
  /\ schema \in Nat /\ boots \in 0..MaxBoots
  /\ schemaLock \in Process \cup {NoProcess}
  /\ meta \in Meta

Typed ==
  /\ Shared
  /\ procs \in [Process -> Proc]
  /\ \A p \in Process : procs[p].pc # "down" => procs[p].boot \in 1..MaxBoots /\ procs[p].config \in Config
  /\ \A p \in Process : procs[p].pc \in Opened => procs[p].master \in Keys

\* The rows of the range are written one after the other.
SetRangeInBounds == \A p \in Process : procs[p].pc = "set range" => procs[p].at \in 1..RangeKeys

\* One process at most has created the file and not written it; nobody has a
\* key before the file has one.
KeyInv ==
  /\ \A p \in Process : procs[p].master # NoPin => procs[p].master = keyfile
  /\ \A p \in Process : procs[p].pc = "write key" => keyfile = EmptyFile /\ procs[p].master = NoPin
  /\ \A p, q \in Process : procs[p].pc = "write key" /\ procs[q].pc = "write key" => p = q
  /\ meta.signing # NoPin => meta.signing.sealed = keyfile

\* Whoever migrates holds the lock and has read what is applied.
SchemaInv ==
  /\ ~ tripped
  /\ schema <= Migrations
  /\ \A p \in Process : procs[p].pc = "migrate" => schemaLock = p /\ procs[p].at = schema
  /\ \A p \in Process : procs[p].pc \in Pinning \cup {"up"} => schema = Migrations

AfterRange == {"signing", "set signing", "up"}
AfterSid == {"range", "set range"} \cup AfterRange
AfterKrbtgt == {"sid", "set sid"} \cup AfterSid
AfterRealm == {"krbtgt", "make krbtgt"} \cup AfterKrbtgt

\* What a process that pins alone has established at each of its steps.
Alone == \A p, q \in Process : procs[p].pc \in Pinning /\ procs[q].pc \in Pinning => p = q

RealmInv ==
  \A p \in Process :
    /\ procs[p].pc = "set realm" => meta.realm = NoPin
    /\ procs[p].pc \in AfterRealm => meta.realm = procs[p].config.realm
    /\ procs[p].pc \in AfterKrbtgt => meta.realm \in krbtgt

SidInv ==
  \A p \in Process :
    /\ procs[p].pc = "set sid" => meta.sid = NoPin /\ procs[p].sid # NoPin
    /\ procs[p].pc \in AfterSid => procs[p].sid = meta.sid /\ meta.sid # NoPin

RangeAt(p) ==
  /\ procs[p].pc = "set range" =>
       /\ meta.range[RangeKeys] = NoPin
       /\ \A k \in 1..(procs[p].at - 1) : meta.range[k] = procs[p].config.range
  /\ procs[p].pc \in AfterRange =>
       \A k \in 1..RangeKeys : meta.range[k] = procs[p].config.range

RangeInv ==
  /\ meta.range[RangeKeys] # NoPin => \A k \in 1..RangeKeys : meta.range[k] # NoPin
  /\ \A p \in Process : RangeAt(p)

SigningInv ==
  \A p \in Process :
    /\ procs[p].pc = "set signing" => meta.signing = NoPin
    /\ procs[p].pc = "up" => procs[p].signer = meta.signing /\ meta.signing # NoPin

Pinned == Alone /\ RealmInv /\ SidInv /\ RangeInv /\ SigningInv

PinInv == ~ together => Pinned

-----------------------------------------------------------------------------
\* What the updates of a process change, field by field.

\* A process that is down holds nothing.
LEMMA DownProc ==
  /\ Down \in Proc
  /\ Down.pc = "down" /\ Down.boot = 0 /\ Down.config = NoPin
  /\ Down.master = NoPin /\ Down.at = 0 /\ Down.sid = NoPin /\ Down.signer = NoPin
<1>1. "down" \in Points BY DEF Points
<1>2. 0 \in 0..MaxBoots BY StartupAssumption
<1> QED BY <1>1, <1>2 DEF Down, Proc

\* A step of one process leaves the others alone.
LEMMA OneMoves ==
  ASSUME procs \in [Process -> Proc], NEW p \in Process, NEW r \in Proc, Step(p, r)
  PROVE  /\ procs' \in [Process -> Proc] /\ procs'[p] = r
         /\ \A q \in Process : q # p => procs'[q] = procs[q]
BY DEF Step

\* The process goes on to x, with that key, counter, SID and signing key.
Becomes(p, x, m, a, s, g) ==
  /\ procs' \in [Process -> Proc]
  /\ procs'[p].pc = x /\ procs'[p].boot = procs[p].boot /\ procs'[p].config = procs[p].config
  /\ procs'[p].master = m /\ procs'[p].at = a /\ procs'[p].sid = s /\ procs'[p].signer = g
  /\ \A q \in Process : q # p => procs'[q] = procs[q]

Falls(p) ==
  /\ procs' \in [Process -> Proc]
  /\ procs'[p].pc = "down" /\ procs'[p].master = NoPin
  /\ \A q \in Process : q # p => procs'[q] = procs[q]

\* Every point named by an action is one of Points.
LEMMA AllPoints ==
  /\ "down" \in Points /\ "key" \in Points /\ "create key" \in Points /\ "write key" \in Points /\ "lock" \in Points
  /\ "migrate" \in Points /\ "up" \in Points /\ "realm" \in Points /\ "set realm" \in Points /\ "krbtgt" \in Points
  /\ "make krbtgt" \in Points /\ "sid" \in Points /\ "set sid" \in Points /\ "range" \in Points /\ "set range" \in Points
  /\ "signing" \in Points /\ "set signing" \in Points
BY DEF Points, Pinning

\* A step that only moves a process on, seen as one process becoming another.
LEMMA GoesBecomes ==
  ASSUME procs \in [Process -> Proc], NEW p \in Process, NEW x \in Points,
         Goes(p, x)
  PROVE  Becomes(p, x, procs[p].master, procs[p].at, procs[p].sid, procs[p].signer)
<1> DEFINE n == [procs[p] EXCEPT !.pc = x]
<1>1. procs[p] \in Proc OBVIOUS
<1>2. n \in Proc BY <1>1 DEF Proc
<1>3. n.pc = x /\ n.boot = procs[p].boot /\ n.config = procs[p].config BY <1>1 DEF Proc
<1>4. n.master = procs[p].master /\ n.at = procs[p].at /\ n.sid = procs[p].sid /\ n.signer = procs[p].signer BY <1>1 DEF Proc
<1>5. Step(p, n) BY DEF Goes
<1> HIDE DEF n
<1> QED BY <1>2, <1>3, <1>4, <1>5, OneMoves DEF Becomes

\* A start that refuses leaves the process down.
LEMMA RefusedFalls ==
  ASSUME procs \in [Process -> Proc], NEW p \in Process, Refused(p)
  PROVE  Falls(p)
BY OneMoves, DownProc DEF Refused, Falls

\* A step that gives a process its master key.
LEMMA MasterBecomes ==
  ASSUME procs \in [Process -> Proc], NEW p \in Process, NEW x \in Points, NEW m \in Keys,
         Step(p, [procs[p] EXCEPT !.pc = x, !.master = m])
  PROVE  Becomes(p, x, m, procs[p].at, procs[p].sid, procs[p].signer)
<1> DEFINE n == [procs[p] EXCEPT !.pc = x, !.master = m]
<1>1. procs[p] \in Proc OBVIOUS
<1>2. n \in Proc BY <1>1, Zenon DEF Proc
<1>3. n.pc = x /\ n.boot = procs[p].boot /\ n.config = procs[p].config BY <1>1 DEF Proc
<1>4. n.master = m /\ n.at = procs[p].at /\ n.sid = procs[p].sid /\ n.signer = procs[p].signer BY <1>1 DEF Proc
<1>5. Step(p, n) BY DEF Goes
<1> HIDE DEF n
<1> QED BY <1>2, <1>3, <1>4, <1>5, OneMoves DEF Becomes

\* A step that moves a process on and sets its place.
LEMMA AtBecomes ==
  ASSUME procs \in [Process -> Proc], NEW p \in Process, NEW x \in Points, NEW a \in Nat,
         Step(p, [procs[p] EXCEPT !.pc = x, !.at = a])
  PROVE  Becomes(p, x, procs[p].master, a, procs[p].sid, procs[p].signer)
<1> DEFINE n == [procs[p] EXCEPT !.pc = x, !.at = a]
<1>1. procs[p] \in Proc OBVIOUS
<1>2. n \in Proc BY <1>1, Zenon DEF Proc
<1>3. n.pc = x /\ n.boot = procs[p].boot /\ n.config = procs[p].config BY <1>1 DEF Proc
<1>4. n.master = procs[p].master /\ n.at = a /\ n.sid = procs[p].sid /\ n.signer = procs[p].signer BY <1>1 DEF Proc
<1>5. Step(p, n) BY DEF Goes
<1> HIDE DEF n
<1> QED BY <1>2, <1>3, <1>4, <1>5, OneMoves DEF Becomes

\* A step that adds one to a process's place.
LEMMA NextBecomes ==
  ASSUME procs \in [Process -> Proc], NEW p \in Process,
         Step(p, [procs[p] EXCEPT !.at = @ + 1])
  PROVE  Becomes(p, procs[p].pc, procs[p].master, procs[p].at + 1, procs[p].sid, procs[p].signer)
<1> DEFINE n == [procs[p] EXCEPT !.at = @ + 1]
<1>1. procs[p] \in Proc OBVIOUS
<1>2. n \in Proc BY <1>1 DEF Proc
<1>3. n.pc = procs[p].pc /\ n.boot = procs[p].boot /\ n.config = procs[p].config BY <1>1 DEF Proc
<1>4. n.master = procs[p].master /\ n.at = procs[p].at + 1 /\ n.sid = procs[p].sid /\ n.signer = procs[p].signer BY <1>1 DEF Proc
<1>5. Step(p, n) BY DEF Goes
<1> HIDE DEF n
<1> QED BY <1>2, <1>3, <1>4, <1>5, OneMoves DEF Becomes

\* A step that gives a process the domain SID it serves.
LEMMA SidBecomes ==
  ASSUME procs \in [Process -> Proc], NEW p \in Process, NEW x \in Points, NEW s \in Sids,
         Step(p, [procs[p] EXCEPT !.pc = x, !.sid = s])
  PROVE  Becomes(p, x, procs[p].master, procs[p].at, s, procs[p].signer)
<1> DEFINE n == [procs[p] EXCEPT !.pc = x, !.sid = s]
<1>1. procs[p] \in Proc OBVIOUS
<1>2. n \in Proc BY <1>1, Zenon DEF Proc
<1>3. n.pc = x /\ n.boot = procs[p].boot /\ n.config = procs[p].config BY <1>1 DEF Proc
<1>4. n.master = procs[p].master /\ n.at = procs[p].at /\ n.sid = s /\ n.signer = procs[p].signer BY <1>1 DEF Proc
<1>5. Step(p, n) BY DEF Goes
<1> HIDE DEF n
<1> QED BY <1>2, <1>3, <1>4, <1>5, OneMoves DEF Becomes

\* A step that gives a process the signing key it serves.
LEMMA SignerBecomes ==
  ASSUME procs \in [Process -> Proc], NEW p \in Process, NEW x \in Points, NEW g \in Signers,
         Step(p, [procs[p] EXCEPT !.pc = x, !.signer = g])
  PROVE  Becomes(p, x, procs[p].master, procs[p].at, procs[p].sid, g)
<1> DEFINE n == [procs[p] EXCEPT !.pc = x, !.signer = g]
<1>1. procs[p] \in Proc OBVIOUS
<1>2. n \in Proc BY <1>1, Zenon DEF Proc
<1>3. n.pc = x /\ n.boot = procs[p].boot /\ n.config = procs[p].config BY <1>1 DEF Proc
<1>4. n.master = procs[p].master /\ n.at = procs[p].at /\ n.sid = procs[p].sid /\ n.signer = g BY <1>1 DEF Proc
<1>5. Step(p, n) BY DEF Goes
<1> HIDE DEF n
<1> QED BY <1>2, <1>3, <1>4, <1>5, OneMoves DEF Becomes

\* The same of the meta table.
LEMMA RealmSet ==
  ASSUME meta \in Meta, NEW v \in Realms, meta' = [meta EXCEPT !.realm = v]
  PROVE  /\ meta' \in Meta
         /\ meta'.realm = v /\ meta'.sid = meta.sid /\ meta'.range = meta.range /\ meta'.signing = meta.signing
BY DEF Meta

\* Setting the SID changes no other pinned value.
LEMMA SidSet ==
  ASSUME meta \in Meta, NEW v \in Sids \cup {NoPin}, meta' = [meta EXCEPT !.sid = v]
  PROVE  /\ meta' \in Meta
         /\ meta'.realm = meta.realm /\ meta'.sid = v /\ meta'.range = meta.range /\ meta'.signing = meta.signing
BY DEF Meta

\* Setting one value of the range changes no other pinned value.
LEMMA RangeSet ==
  ASSUME meta \in Meta, NEW k \in 1..RangeKeys, NEW v \in Ranges, meta' = [meta EXCEPT !.range[k] = v]
  PROVE  /\ meta' \in Meta
         /\ meta'.realm = meta.realm /\ meta'.sid = meta.sid /\ meta'.range = [meta.range EXCEPT ![k] = v] /\ meta'.signing = meta.signing
BY Zenon DEF Meta

\* Setting the signing key changes no other pinned value.
LEMMA SigningSet ==
  ASSUME meta \in Meta, NEW v \in Signers, meta' = [meta EXCEPT !.signing = v]
  PROVE  /\ meta' \in Meta
         /\ meta'.realm = meta.realm /\ meta'.sid = meta.sid /\ meta'.range = meta.range /\ meta'.signing = v
BY DEF Meta

-----------------------------------------------------------------------------

\* The state before any start is typed.
LEMMA TypedInit == StartupInit => Typed
<1> SUFFICES ASSUME StartupInit PROVE Typed
  OBVIOUS
<1>1. meta \in Meta BY DEF StartupInit, Unpinned, Meta
<1>2. procs \in [Process -> Proc] BY DownProc DEF StartupInit
<1>3. \A p \in Process : procs[p].pc = "down" BY DownProc DEF StartupInit
<1>4. "down" \notin Opened BY DEF Opened, Pinning
<1> QED BY <1>1, <1>2, <1>3, <1>4, StartupAssumption DEF StartupInit, Typed, Shared

-----------------------------------------------------------------------------
\* What each step of a start does, in those terms.

Keeps(p, x) == Becomes(p, x, procs[p].master, procs[p].at, procs[p].sid, procs[p].signer)

\* What LoadKey does to the process that takes it and to the shared state.
LEMMA LoadKeyDoes ==
  ASSUME Typed, NEW p \in Process, LoadKey(p)
  PROVE  /\ procs[p].pc = "key"
         /\ \/ Keeps(p, "create key")
            \/ Falls(p)
            \/ keyfile \in Keys /\ Becomes(p, "lock", keyfile, procs[p].at, procs[p].sid, procs[p].signer)
<1>1. CASE keyfile = NoPin
  <2>0. NoPin # EmptyFile BY StartupAssumption
  <2>1. Goes(p, "create key") BY <1>1, <2>0 DEF LoadKey
  <2> QED BY <2>1, GoesBecomes, AllPoints DEF Typed, Shared, Keeps, LoadKey
<1>2. CASE keyfile = EmptyFile
  <2>1. Refused(p) BY <1>2, StartupAssumption DEF LoadKey
  <2> QED BY <2>1, RefusedFalls DEF Typed, Shared, LoadKey
<1>3. CASE keyfile \notin {NoPin, EmptyFile}
  <2>1. Step(p, [procs[p] EXCEPT !.pc = "lock", !.master = keyfile])
    <3>1. keyfile # NoPin /\ keyfile # EmptyFile BY <1>3
    <3> QED BY <3>1, Zenon DEF LoadKey
  <2>2. keyfile \in Keys BY <1>3 DEF Typed, Shared
  <2> QED BY <2>1, <2>2, MasterBecomes, AllPoints, Zenon DEF Typed, Shared, LoadKey
<1> QED BY <1>1, <1>2, <1>3

\* What CreateKey does to the process that takes it and to the shared state.
LEMMA CreateKeyDoes ==
  ASSUME Typed, NEW p \in Process, CreateKey(p)
  PROVE  /\ procs[p].pc = "create key"
         /\ \/ keyfile = NoPin /\ keyfile' = EmptyFile /\ Keeps(p, "write key")
            \/ keyfile' = keyfile /\ Falls(p)
<1>1. \/ keyfile = NoPin /\ keyfile' = EmptyFile /\ Goes(p, "write key")
      \/ keyfile' = keyfile /\ Refused(p)
  BY ZenonT(40) DEF CreateKey
<1> QED BY <1>1, GoesBecomes, RefusedFalls, AllPoints DEF Typed, Shared, Keeps, CreateKey

\* What WriteKey does to the process that takes it and to the shared state.
LEMMA WriteKeyDoes ==
  ASSUME Typed, NEW p \in Process, WriteKey(p)
  PROVE  /\ procs[p].pc = "write key" /\ keyfile' \in Keys
         /\ Becomes(p, "lock", keyfile', procs[p].at, procs[p].sid, procs[p].signer)
<1>1. keyfile' \in Keys BY DEF WriteKey, Typed, Shared, Keys
<1>2. Step(p, [procs[p] EXCEPT !.pc = "lock", !.master = keyfile']) BY ZenonT(40) DEF WriteKey
<1> QED BY <1>1, <1>2, MasterBecomes, AllPoints, Zenon DEF Typed, Shared, WriteKey

\* What LockSchema does to the process that takes it and to the shared state.
LEMMA LockSchemaDoes ==
  ASSUME Typed, NEW p \in Process, LockSchema(p)
  PROVE  Becomes(p, "migrate", procs[p].master, schema, procs[p].sid, procs[p].signer)
<1>1. Step(p, [procs[p] EXCEPT !.pc = "migrate", !.at = schema]) BY DEF LockSchema
<1> QED BY <1>1, AtBecomes, AllPoints, Zenon DEF Typed, Shared

\* What Migrate does to the process that takes it and to the shared state.
LEMMA MigrateDoes ==
  ASSUME Typed, NEW p \in Process, Migrate(p)
  PROVE  /\ procs[p].pc = "migrate" /\ procs[p].at < Migrations
         /\ \/ /\ schema = procs[p].at /\ schema' = schema + 1 /\ UNCHANGED <<schemaLock, tripped>>
               /\ Becomes(p, "migrate", procs[p].master, procs[p].at + 1, procs[p].sid, procs[p].signer)
            \/ schema # procs[p].at /\ schemaLock' = NoProcess /\ schema' = schema /\ Falls(p)
<1>1. CASE schema = procs[p].at
  <2>1. Step(p, [procs[p] EXCEPT !.at = @ + 1]) BY <1>1 DEF Migrate
  <2> QED BY <1>1, <2>1, NextBecomes DEF Typed, Shared, Migrate
<1>2. CASE schema # procs[p].at
  BY <1>2, RefusedFalls, Zenon DEF Typed, Shared, Migrate
<1> QED BY <1>1, <1>2

\* What Migrated does to the process that takes it and to the shared state.
LEMMA MigratedDoes ==
  ASSUME Typed, NEW p \in Process, Migrated(p)
  PROVE  Keeps(p, "realm")
BY GoesBecomes, AllPoints DEF Typed, Shared, Keeps, Migrated

\* What ReadRealm does to the process that takes it and to the shared state.
LEMMA ReadRealmDoes ==
  ASSUME Typed, NEW p \in Process, ReadRealm(p)
  PROVE  /\ procs[p].pc = "realm"
         /\ \/ meta.realm = NoPin /\ Keeps(p, "set realm")
            \/ meta.realm = procs[p].config.realm /\ Keeps(p, "krbtgt")
            \/ Falls(p)
<1>1. \/ meta.realm = NoPin /\ Goes(p, "set realm")
      \/ meta.realm = procs[p].config.realm /\ Goes(p, "krbtgt")
      \/ Refused(p)
  BY DEF ReadRealm
<1> QED BY <1>1, GoesBecomes, RefusedFalls, AllPoints DEF Typed, Shared, Keeps, ReadRealm

\* What SetRealm does to the process that takes it and to the shared state.
LEMMA SetRealmDoes ==
  ASSUME Typed, NEW p \in Process, SetRealm(p)
  PROVE  /\ procs[p].pc = "set realm" /\ Keeps(p, "krbtgt")
         /\ meta' \in Meta /\ meta'.realm = procs[p].config.realm /\ meta'.realm # NoPin
         /\ meta'.sid = meta.sid /\ meta'.range = meta.range /\ meta'.signing = meta.signing
<1>1. procs[p].config \in Config BY DEF SetRealm, Typed, Shared
<1>2. procs[p].config.realm \in Realms /\ procs[p].config.realm # NoPin BY <1>1, StartupAssumption DEF Realms
<1> QED BY <1>2, RealmSet, GoesBecomes, AllPoints DEF Typed, Shared, Keeps, SetRealm

\* What ReadKrbtgt does to the process that takes it and to the shared state.
LEMMA ReadKrbtgtDoes ==
  ASSUME Typed, NEW p \in Process, ReadKrbtgt(p)
  PROVE  /\ procs[p].pc = "krbtgt"
         /\ \/ procs[p].config.realm \in krbtgt /\ Keeps(p, "sid")
            \/ Keeps(p, "make krbtgt")
<1>1. (procs[p].config.realm \in krbtgt /\ Goes(p, "sid")) \/ Goes(p, "make krbtgt") BY DEF ReadKrbtgt
<1> QED BY <1>1, GoesBecomes, AllPoints DEF Typed, Shared, Keeps, ReadKrbtgt

\* What MakeKrbtgt does to the process that takes it and to the shared state.
LEMMA MakeKrbtgtDoes ==
  ASSUME Typed, NEW p \in Process, MakeKrbtgt(p)
  PROVE  /\ procs[p].pc = "make krbtgt"
         /\ krbtgt \subseteq krbtgt' /\ procs[p].config.realm \in krbtgt'
         /\ Falls(p) \/ Keeps(p, "sid")
<1>1. Refused(p) \/ Goes(p, "sid") BY DEF MakeKrbtgt
<1> QED BY <1>1, GoesBecomes, RefusedFalls, AllPoints DEF Typed, Shared, Keeps, MakeKrbtgt

\* What ReadSid does to the process that takes it and to the shared state.
LEMMA ReadSidDoes ==
  ASSUME Typed, NEW p \in Process, ReadSid(p)
  PROVE  /\ procs[p].pc = "sid"
         /\ \/ Falls(p)
            \/ \E s \in Sids :
                 /\ s # NoPin
                 /\ \/ meta.sid = NoPin /\ Becomes(p, "set sid", procs[p].master, procs[p].at, s, procs[p].signer)
                    \/ meta.sid = s /\ Becomes(p, "range", procs[p].master, procs[p].at, s, procs[p].signer)
<1> DEFINE want == procs[p].config.sid
           serve == IF want # NoSid THEN want ELSE IF meta.sid # NoPin THEN meta.sid ELSE Generated(procs[p].boot)
<1>1. procs[p].pc = "sid" /\ procs[p].config \in Config /\ procs[p].boot \in 1..MaxBoots BY DEF ReadSid, Typed, Shared
<1>2. want \in Sids /\ want # NoPin BY <1>1, StartupAssumption DEF Sids
<1>3. Generated(procs[p].boot) \in Sids /\ Generated(procs[p].boot) # NoPin
  BY <1>1, StartupAssumption DEF Sids, Keys, Generated
<1>4. meta.sid \in Sids \cup {NoPin} BY DEF Typed, Shared, Meta
<1>5. serve \in Sids /\ serve # NoPin BY <1>2, <1>3, <1>4
<1>6. CASE want # NoSid /\ meta.sid # NoPin /\ want # meta.sid
  <2>1. Refused(p) BY <1>6 DEF ReadSid
  <2> QED BY <1>1, <2>1, RefusedFalls DEF Typed, Shared
<1>7. CASE ~ (want # NoSid /\ meta.sid # NoPin /\ want # meta.sid)
  <2>1. Step(p, [procs[p] EXCEPT !.pc = IF meta.sid = NoPin THEN "set sid" ELSE "range", !.sid = serve])
    BY <1>7 DEF ReadSid
  <2>2. CASE meta.sid = NoPin
    <3>1. Step(p, [procs[p] EXCEPT !.pc = "set sid", !.sid = serve]) BY <2>1, <2>2, SMTT(30)
    <3> HIDE DEF serve
    <3>2. Becomes(p, "set sid", procs[p].master, procs[p].at, serve, procs[p].signer)
      BY <1>5, <3>1, SidBecomes, AllPoints, Zenon DEF Typed, Shared
    <3> QED BY <1>1, <1>5, <2>2, <3>2
  <2>3. CASE meta.sid # NoPin
    <3>1. Step(p, [procs[p] EXCEPT !.pc = "range", !.sid = serve]) BY <2>1, <2>3
    <3>2. serve = meta.sid BY <1>7, <2>3, SMTT(30)
    <3> HIDE DEF serve
    <3>3. Becomes(p, "range", procs[p].master, procs[p].at, serve, procs[p].signer)
      BY <1>5, <3>1, SidBecomes, AllPoints, Zenon DEF Typed, Shared
    <3> QED BY <1>1, <1>5, <3>2, <3>3
  <2> QED BY <2>2, <2>3
<1> QED BY <1>6, <1>7

\* What SetSid does to the process that takes it and to the shared state.
LEMMA SetSidDoes ==
  ASSUME Typed, NEW p \in Process, SetSid(p)
  PROVE  /\ procs[p].pc = "set sid" /\ Keeps(p, "range")
         /\ meta' \in Meta /\ meta'.sid = procs[p].sid
         /\ meta'.realm = meta.realm /\ meta'.range = meta.range /\ meta'.signing = meta.signing
<1>1. procs[p].sid \in Sids \cup {NoPin} BY DEF Typed, Shared, Proc
<1> QED BY <1>1, SidSet, GoesBecomes, AllPoints DEF Typed, Shared, Keeps, SetSid

\* What ReadRange does to the process that takes it and to the shared state.
LEMMA ReadRangeDoes ==
  ASSUME Typed, NEW p \in Process, ReadRange(p)
  PROVE  /\ procs[p].pc = "range"
         /\ \/ Falls(p)
            \/ /\ \E k \in 1..RangeKeys : meta.range[k] = NoPin
               /\ Becomes(p, "set range", procs[p].master, 1, procs[p].sid, procs[p].signer)
            \/ /\ \A k \in 1..RangeKeys : meta.range[k] = procs[p].config.range
               /\ Keeps(p, "signing")
<1> DEFINE stored == {meta.range[k] : k \in 1..RangeKeys}
<1>1. CASE NoPin \in stored
  <2>0. procs[p].config.range # NoPin BY StartupAssumption DEF ReadRange, Typed, Shared
  <2>1. stored # {procs[p].config.range} BY <1>1, <2>0
  <2>2. Step(p, [procs[p] EXCEPT !.pc = "set range", !.at = 1]) BY <1>1, <2>1, ZenonT(40) DEF ReadRange
  <2>3. Becomes(p, "set range", procs[p].master, 1, procs[p].sid, procs[p].signer)
    BY <2>2, AtBecomes, AllPoints, Zenon DEF Typed, Shared
  <2> QED BY <1>1, <2>3 DEF ReadRange
<1>2. CASE NoPin \notin stored /\ stored = {procs[p].config.range}
  <2>1. Goes(p, "signing") BY <1>2, Zenon DEF ReadRange
  <2>2. \A k \in 1..RangeKeys : meta.range[k] = procs[p].config.range BY <1>2
  <2> QED BY <2>1, <2>2, GoesBecomes, AllPoints DEF ReadRange, Typed, Shared, Keeps
<1>3. CASE NoPin \notin stored /\ stored # {procs[p].config.range}
  <2>1. Refused(p) BY <1>3, Zenon DEF ReadRange
  <2> QED BY <2>1, RefusedFalls DEF ReadRange, Typed, Shared
<1> QED BY <1>1, <1>2, <1>3

\* What SetRange does to the process that takes it and to the shared state.
LEMMA SetRangeDoes ==
  ASSUME Typed, NEW p \in Process, SetRange(p), procs[p].at \in 1..RangeKeys
  PROVE  /\ procs[p].pc = "set range"
         /\ meta' \in Meta /\ meta'.range = [meta.range EXCEPT ![procs[p].at] = procs[p].config.range]
         /\ meta'.realm = meta.realm /\ meta'.sid = meta.sid /\ meta'.signing = meta.signing
         /\ procs[p].config.range # NoPin
         /\ \/ procs[p].at = RangeKeys /\ Keeps(p, "signing")
            \/ /\ procs[p].at # RangeKeys
               /\ Becomes(p, "set range", procs[p].master, procs[p].at + 1, procs[p].sid, procs[p].signer)
<1>1. procs[p].pc = "set range" /\ procs[p].config \in Config BY DEF SetRange, Typed, Shared
<1>2. procs[p].config.range \in Ranges /\ procs[p].config.range # NoPin BY <1>1, StartupAssumption DEF Ranges
<1>3. /\ meta' \in Meta /\ meta'.range = [meta.range EXCEPT ![procs[p].at] = procs[p].config.range]
      /\ meta'.realm = meta.realm /\ meta'.sid = meta.sid /\ meta'.signing = meta.signing
  BY <1>2, RangeSet DEF SetRange, Typed, Shared
<1>4. CASE procs[p].at = RangeKeys
  <2>1. Goes(p, "signing") BY <1>4 DEF SetRange
  <2> QED BY <1>1, <1>2, <1>3, <1>4, <2>1, GoesBecomes, AllPoints DEF Typed, Shared, Keeps
<1>5. CASE procs[p].at # RangeKeys
  <2>1. Step(p, [procs[p] EXCEPT !.at = @ + 1]) BY <1>5 DEF SetRange
  <2> QED BY <1>1, <1>2, <1>3, <1>5, <2>1, NextBecomes DEF Typed, Shared
<1> QED BY <1>4, <1>5

\* What ReadSigning does to the process that takes it and to the shared state.
LEMMA ReadSigningDoes ==
  ASSUME Typed, NEW p \in Process, ReadSigning(p)
  PROVE  /\ procs[p].pc = "signing"
         /\ \/ Falls(p)
            \/ meta.signing = NoPin /\ Keeps(p, "set signing")
            \/ /\ meta.signing # NoPin
               /\ Becomes(p, "up", procs[p].master, procs[p].at, procs[p].sid, meta.signing)
<1>1. CASE meta.signing = NoPin
  <2>1. Goes(p, "set signing") BY <1>1, ZenonT(40) DEF ReadSigning
  <2> QED BY <1>1, <2>1, GoesBecomes, AllPoints DEF ReadSigning, Typed, Shared, Keeps
<1>2. CASE meta.signing # NoPin /\ meta.signing.sealed = procs[p].master
  <2>1. Step(p, [procs[p] EXCEPT !.pc = "up", !.signer = meta.signing]) BY <1>2, Zenon DEF ReadSigning
  <2>2. meta.signing \in Signers BY <1>2 DEF Typed, Shared, Meta
  <2> QED BY <1>2, <2>1, <2>2, SignerBecomes, AllPoints, Zenon DEF ReadSigning, Typed, Shared
<1>3. CASE meta.signing # NoPin /\ meta.signing.sealed # procs[p].master
  <2>1. Refused(p) BY <1>3, Zenon DEF ReadSigning
  <2> QED BY <2>1, RefusedFalls DEF ReadSigning, Typed, Shared
<1> QED BY <1>1, <1>2, <1>3

\* What SetSigning does to the process that takes it and to the shared state.
LEMMA SetSigningDoes ==
  ASSUME Typed, NEW p \in Process, SetSigning(p)
  PROVE  /\ procs[p].pc = "set signing"
         /\ meta' \in Meta /\ meta'.signing # NoPin /\ meta'.signing.sealed = procs[p].master
         /\ meta'.realm = meta.realm /\ meta'.sid = meta.sid /\ meta'.range = meta.range
         /\ Becomes(p, "up", procs[p].master, procs[p].at, procs[p].sid, meta'.signing)
<1> DEFINE v == [key |-> procs[p].boot, sealed |-> procs[p].master]
<1>1. procs[p].pc = "set signing" /\ procs[p].boot \in 1..MaxBoots /\ procs[p].master \in Keys
  BY DEF SetSigning, Typed, Shared, Opened, Pinning
<1>2. v \in Signers /\ v.sealed = procs[p].master BY <1>1 DEF Signers
<1>3. v # NoPin BY <1>1, StartupAssumption DEF Keys, Generated
<1>4. meta' = [meta EXCEPT !.signing = v] /\ Step(p, [procs[p] EXCEPT !.pc = "up", !.signer = meta'.signing])
  BY DEF SetSigning
<1> HIDE DEF v
<1>5. /\ meta' \in Meta /\ meta'.signing = v
      /\ meta'.realm = meta.realm /\ meta'.sid = meta.sid /\ meta'.range = meta.range
  BY <1>2, <1>4, SigningSet, SMTT(30) DEF Typed, Shared
<1>6. Becomes(p, "up", procs[p].master, procs[p].at, procs[p].sid, meta'.signing)
  BY <1>2, <1>4, <1>5, SignerBecomes, AllPoints, Zenon DEF Typed, Shared
<1> QED BY <1>1, <1>2, <1>3, <1>5, <1>6

\* What Boot does to the process that takes it and to the shared state.
LEMMA BootDoes ==
  ASSUME Typed, NEW p \in Process, NEW c \in Config, Boot(p, c)
  PROVE  /\ procs[p].pc = "down" /\ procs[p].master = NoPin
         /\ procs' \in [Process -> Proc]
         /\ procs'[p].pc = "key" /\ procs'[p].boot \in 1..MaxBoots /\ procs'[p].config = c
         /\ procs'[p].master = NoPin
         /\ \A q \in Process : q # p => procs'[q] = procs[q]
         /\ boots' \in 0..MaxBoots
<1> DEFINE n == [Down EXCEPT !.pc = "key", !.boot = boots', !.config = c]
<1>1. boots' \in 1..MaxBoots /\ boots' \in 0..MaxBoots BY StartupAssumption DEF Boot, Typed, Shared
<1>2. n \in Proc /\ n.pc = "key" /\ n.boot = boots' /\ n.config = c /\ n.master = NoPin
  BY <1>1, DownProc, AllPoints DEF Down, Proc
<1>3. Step(p, n) /\ procs[p] = Down BY DEF Boot
<1> HIDE DEF n
<1> QED BY <1>1, <1>2, <1>3, OneMoves, DownProc DEF Typed, Shared

\* What Die does to the process that takes it and to the shared state.
LEMMA DieDoes ==
  ASSUME Typed, NEW p \in Process, Die(p)
  PROVE  Falls(p)
BY RefusedFalls DEF Typed, Shared, Die

-----------------------------------------------------------------------------

\* The points at which a process has opened the database.
LEMMA OpenedPoints ==
  /\ "lock" \in Opened /\ "migrate" \in Opened /\ "up" \in Opened /\ "realm" \in Opened /\ "set realm" \in Opened
  /\ "krbtgt" \in Opened /\ "make krbtgt" \in Opened /\ "sid" \in Opened /\ "set sid" \in Opened /\ "range" \in Opened
  /\ "set range" \in Opened /\ "signing" \in Opened /\ "set signing" \in Opened
  /\ "down" \notin Opened /\ "key" \notin Opened /\ "create key" \notin Opened /\ "write key" \notin Opened
BY DEF Opened, Pinning

\* One process replaced by a typed one keeps the processes typed.
LEMMA BecomesTyped ==
  ASSUME Typed, NEW p \in Process, NEW x, NEW m, NEW a, NEW s, NEW g, Becomes(p, x, m, a, s, g),
         procs[p].pc # "down", x \in Opened => m \in Keys, Shared'
  PROVE  Typed'
BY DEF Becomes, Typed

\* A process moved to another point stays typed.
LEMMA KeepsTyped ==
  ASSUME Typed, NEW p \in Process, NEW x, Keeps(p, x),
         procs[p].pc # "down", x \in Opened => procs[p].pc \in Opened, Shared'
  PROVE  Typed'
BY BecomesTyped DEF Keeps, Typed

\* A process that goes down keeps the processes typed.
LEMMA FallsTyped ==
  ASSUME Typed, NEW p \in Process, Falls(p), Shared'
  PROVE  Typed'
BY OpenedPoints DEF Falls, Typed

\* A step that leaves the shared state alone leaves it typed.
LEMMA SharedSame ==
  ASSUME Typed, UNCHANGED <<keyfile, schema, schemaLock, meta, boots>>
  PROVE  Shared'
BY DEF Typed, Shared

\* Every step keeps the state typed.
LEMMA TypedStep ==
  ASSUME Typed, SetRangeInBounds, [StartupNext]_stvars
  PROVE  Typed'
<1>1. ASSUME NEW p \in Process, NEW c \in Config, Boot(p, c) PROVE Typed'
  <2>1. Shared' BY <1>1, BootDoes, Zenon DEF Boot, Typed, Shared
  <2>2. /\ procs' \in [Process -> Proc]
        /\ procs'[p].pc = "key" /\ procs'[p].boot \in 1..MaxBoots /\ procs'[p].config = c
        /\ \A q \in Process : q # p => procs'[q] = procs[q]
    BY <1>1, BootDoes, SMTT(30)
  <2> QED BY <2>1, <2>2, OpenedPoints, ZenonT(40) DEF Typed
<1>2. ASSUME NEW p \in Process, LoadKey(p) PROVE Typed'
  <2>1. Shared' BY <1>2, SharedSame DEF LoadKey
  <2> QED BY <1>2, <2>1, LoadKeyDoes, KeepsTyped, FallsTyped, BecomesTyped, OpenedPoints, Zenon DEF LoadKey, Typed
<1>3. ASSUME NEW p \in Process, CreateKey(p) PROVE Typed'
  <2>1. Shared' BY <1>3, CreateKeyDoes, ZenonT(40) DEF CreateKey, Typed, Shared
  <2> QED BY <1>3, <2>1, CreateKeyDoes, KeepsTyped, FallsTyped, OpenedPoints DEF CreateKey, Typed
<1>4. ASSUME NEW p \in Process, WriteKey(p) PROVE Typed'
  <2>1. Shared' BY <1>4, WriteKeyDoes, ZenonT(40) DEF WriteKey, Typed, Shared
  <2> QED BY <1>4, <2>1, WriteKeyDoes, BecomesTyped, OpenedPoints, ZenonT(40) DEF WriteKey, Typed
<1>5. ASSUME NEW p \in Process, LockSchema(p) PROVE Typed'
  <2>1. Shared' BY <1>5 DEF LockSchema, Typed, Shared
  <2> QED BY <1>5, <2>1, LockSchemaDoes, BecomesTyped, OpenedPoints, Zenon DEF LockSchema, Typed
<1>6. ASSUME NEW p \in Process, Migrate(p) PROVE Typed'
  <2>1. Shared' BY <1>6, MigrateDoes DEF Migrate, Typed, Shared
  <2> QED BY <1>6, <2>1, MigrateDoes, BecomesTyped, FallsTyped, OpenedPoints DEF Migrate, Typed
<1>7. ASSUME NEW p \in Process, Migrated(p) PROVE Typed'
  <2>1. Shared' BY <1>7 DEF Migrated, Typed, Shared
  <2> QED BY <1>7, <2>1, MigratedDoes, KeepsTyped, OpenedPoints DEF Migrated, Typed
<1>8. ASSUME NEW p \in Process, ReadRealm(p) PROVE Typed'
  <2>1. Shared' BY <1>8, SharedSame DEF ReadRealm
  <2> QED BY <1>8, <2>1, ReadRealmDoes, KeepsTyped, FallsTyped, OpenedPoints DEF ReadRealm, Typed
<1>9. ASSUME NEW p \in Process, SetRealm(p) PROVE Typed'
  <2>1. Shared' BY <1>9, SetRealmDoes DEF SetRealm, Typed, Shared
  <2> QED BY <1>9, <2>1, SetRealmDoes, KeepsTyped, OpenedPoints DEF SetRealm, Typed
<1>10. ASSUME NEW p \in Process, ReadKrbtgt(p) PROVE Typed'
  <2>1. Shared' BY <1>10, SharedSame DEF ReadKrbtgt
  <2> QED BY <1>10, <2>1, ReadKrbtgtDoes, KeepsTyped, OpenedPoints DEF ReadKrbtgt, Typed
<1>11. ASSUME NEW p \in Process, MakeKrbtgt(p) PROVE Typed'
  <2>1. Shared' BY <1>11, SharedSame, ZenonT(40) DEF MakeKrbtgt
  <2> QED BY <1>11, <2>1, MakeKrbtgtDoes, KeepsTyped, FallsTyped, OpenedPoints DEF MakeKrbtgt, Typed
<1>12. ASSUME NEW p \in Process, ReadSid(p) PROVE Typed'
  <2>1. Shared' BY <1>12, SharedSame DEF ReadSid
  <2> QED BY <1>12, <2>1, ReadSidDoes, BecomesTyped, FallsTyped, OpenedPoints, Zenon DEF ReadSid, Typed
<1>13. ASSUME NEW p \in Process, SetSid(p) PROVE Typed'
  <2>1. Shared' BY <1>13, SetSidDoes DEF SetSid, Typed, Shared
  <2> QED BY <1>13, <2>1, SetSidDoes, KeepsTyped, OpenedPoints DEF SetSid, Typed
<1>14. ASSUME NEW p \in Process, ReadRange(p) PROVE Typed'
  <2>1. Shared' BY <1>14, SharedSame DEF ReadRange
  <2>2. procs[p].pc = "range" /\ procs[p].master \in Keys BY <1>14, OpenedPoints DEF ReadRange, Typed
  <2>3. CASE Falls(p) BY <2>1, <2>3, FallsTyped
  <2>4. CASE Becomes(p, "set range", procs[p].master, 1, procs[p].sid, procs[p].signer)
    BY <2>1, <2>2, <2>4, BecomesTyped, OpenedPoints
  <2>5. CASE Keeps(p, "signing") BY <2>1, <2>2, <2>5, KeepsTyped, OpenedPoints
  <2> QED BY <1>14, <2>3, <2>4, <2>5, ReadRangeDoes
<1>15. ASSUME NEW p \in Process, SetRange(p) PROVE Typed'
  <2>1. Shared' BY <1>15, SetRangeDoes DEF SetRange, SetRangeInBounds, Typed, Shared
  <2> QED BY <1>15, <2>1, SetRangeDoes, BecomesTyped, KeepsTyped, OpenedPoints DEF SetRange, Typed, SetRangeInBounds
<1>16. ASSUME NEW p \in Process, ReadSigning(p) PROVE Typed'
  <2>1. Shared' BY <1>16, SharedSame, ZenonT(40) DEF ReadSigning
  <2> QED BY <1>16, <2>1, ReadSigningDoes, BecomesTyped, KeepsTyped, FallsTyped, OpenedPoints, Zenon DEF ReadSigning, Typed
<1>17. ASSUME NEW p \in Process, SetSigning(p) PROVE Typed'
  <2>1. Shared' BY <1>17, SetSigningDoes, Zenon DEF SetSigning, Typed, Shared
  <2> QED BY <1>17, <2>1, SetSigningDoes, BecomesTyped, OpenedPoints, ZenonT(40) DEF SetSigning, Typed
<1>18. ASSUME NEW p \in Process, Die(p) PROVE Typed'
  <2>1. Shared' BY <1>18 DEF Die, Typed, Shared
  <2> QED BY <1>18, <2>1, DieDoes, FallsTyped, OpenedPoints DEF Die, Typed
<1>19. CASE UNCHANGED stvars
  BY <1>19 DEF stvars, Typed, Shared
<1> QED
  BY <1>1, <1>2, <1>3, <1>4, <1>5, <1>6, <1>7, <1>8, <1>9, <1>10, <1>11, <1>12, <1>13, <1>14, <1>15, <1>16, <1>17, <1>18, <1>19 DEF StartupNext

-----------------------------------------------------------------------------
\* The master key.

\* A key a process holds is a key.
LEMMA KeysAreKeys == \A k \in Keys : k # NoPin /\ k # EmptyFile
BY StartupAssumption DEF Keys, Generated

\* A process that moves on without a change of key keeps the key's invariant.
LEMMA KeyInvBecomes ==
  ASSUME Typed, KeyInv, NEW p \in Process, NEW x, NEW a, NEW s, NEW g,
         Becomes(p, x, procs[p].master, a, s, g), x # "write key",
         keyfile' = keyfile, meta'.signing = meta.signing
  PROVE  KeyInv'
BY DEF Becomes, KeyInv

\* A process that goes down keeps the key's invariant.
LEMMA KeyInvFalls ==
  ASSUME Typed, KeyInv, NEW p \in Process, Falls(p), UNCHANGED <<keyfile, meta>>
  PROVE  KeyInv'
BY DEF Falls, KeyInv

\* The key's invariant holds before any start.
LEMMA KeyInvInit == StartupInit => KeyInv
<1> SUFFICES ASSUME StartupInit PROVE KeyInv
  OBVIOUS
<1>1. \A p \in Process : procs[p].pc = "down" /\ procs[p].master = NoPin BY DownProc DEF StartupInit
<1>2. meta.signing = NoPin BY DEF StartupInit, Unpinned
<1> QED BY <1>1, <1>2 DEF KeyInv

\* Every step keeps the key's invariant (LoadOrCreateMasterKey).
LEMMA KeyInvStep ==
  ASSUME Typed, SetRangeInBounds, KeyInv, [StartupNext]_stvars
  PROVE  KeyInv'
<1>1. ASSUME NEW p \in Process, NEW c \in Config, Boot(p, c) PROVE KeyInv'
  <2>1. /\ procs'[p].pc = "key" /\ procs'[p].master = NoPin
        /\ \A q \in Process : q # p => procs'[q] = procs[q]
    BY <1>1, BootDoes
  <2> QED BY <1>1, <2>1 DEF Boot, KeyInv
<1>2. ASSUME NEW p \in Process, LoadKey(p) PROVE KeyInv'
  <2>1. UNCHANGED <<keyfile, meta>> BY <1>2 DEF LoadKey
  <2>2. CASE keyfile \in Keys /\ Becomes(p, "lock", keyfile, procs[p].at, procs[p].sid, procs[p].signer)
    BY <2>1, <2>2, KeysAreKeys DEF Becomes, KeyInv
  <2> QED BY <1>2, <2>1, <2>2, LoadKeyDoes, KeyInvBecomes, KeyInvFalls DEF Keeps
<1>3. ASSUME NEW p \in Process, CreateKey(p) PROVE KeyInv'
  <2>1. meta' = meta BY <1>3 DEF CreateKey
  <2>2. CASE keyfile = NoPin /\ keyfile' = EmptyFile /\ Keeps(p, "write key")
    <3>1. \A q \in Process : procs[q].master = NoPin BY <2>2 DEF KeyInv
    <3>2. \A q \in Process : procs[q].pc # "write key" BY <2>2, StartupAssumption DEF KeyInv
    <3>3. meta.signing = NoPin
      BY <2>2, KeysAreKeys DEF KeyInv, Typed, Shared, Meta, Signers
    <3> QED BY <2>1, <2>2, <3>1, <3>2, <3>3 DEF Keeps, Becomes, KeyInv
  <2> QED BY <1>3, <2>1, <2>2, CreateKeyDoes, KeyInvFalls
<1>4. ASSUME NEW p \in Process, WriteKey(p) PROVE KeyInv'
  <2>1. meta' = meta BY <1>4 DEF WriteKey
  <2>2. /\ procs[p].pc = "write key" /\ keyfile' \in Keys /\ procs'[p].pc = "lock" /\ procs'[p].master = keyfile'
        /\ \A q \in Process : q # p => procs'[q] = procs[q]
    BY <1>4, WriteKeyDoes DEF Becomes
  <2>3. keyfile = EmptyFile BY <2>2 DEF KeyInv
  <2>4. \A q \in Process : q # p => procs[q].master = NoPin /\ procs[q].pc # "write key"
    BY <2>2, <2>3, KeysAreKeys, StartupAssumption, ZenonT(40) DEF KeyInv, Typed, Proc
  <2>5. meta.signing = NoPin
    BY <2>3, KeysAreKeys DEF KeyInv, Typed, Shared, Meta, Signers
  <2> QED BY <2>1, <2>2, <2>4, <2>5 DEF KeyInv
<1>5. ASSUME NEW p \in Process, LockSchema(p) PROVE KeyInv'
  <2>1. keyfile' = keyfile /\ meta'.signing = meta.signing /\ meta' = meta BY <1>5 DEF LockSchema
  <2> QED BY <1>5, <2>1, LockSchemaDoes, KeyInvBecomes, KeyInvFalls DEF Keeps
<1>6. ASSUME NEW p \in Process, Migrate(p) PROVE KeyInv'
  <2>1. keyfile' = keyfile /\ meta'.signing = meta.signing /\ meta' = meta BY <1>6 DEF Migrate
  <2> QED BY <1>6, <2>1, MigrateDoes, KeyInvBecomes, KeyInvFalls DEF Keeps
<1>7. ASSUME NEW p \in Process, Migrated(p) PROVE KeyInv'
  <2>1. keyfile' = keyfile /\ meta'.signing = meta.signing /\ meta' = meta BY <1>7 DEF Migrated
  <2> QED BY <1>7, <2>1, MigratedDoes, KeyInvBecomes, KeyInvFalls DEF Keeps
<1>8. ASSUME NEW p \in Process, ReadRealm(p) PROVE KeyInv'
  <2>1. keyfile' = keyfile /\ meta'.signing = meta.signing /\ meta' = meta BY <1>8 DEF ReadRealm
  <2> QED BY <1>8, <2>1, ReadRealmDoes, KeyInvBecomes, KeyInvFalls DEF Keeps
<1>9. ASSUME NEW p \in Process, SetRealm(p) PROVE KeyInv'
  <2>1. keyfile' = keyfile /\ meta'.signing = meta.signing BY <1>9, SetRealmDoes DEF SetRealm
  <2> QED BY <1>9, <2>1, SetRealmDoes, KeyInvBecomes, KeyInvFalls DEF Keeps
<1>10. ASSUME NEW p \in Process, ReadKrbtgt(p) PROVE KeyInv'
  <2>1. keyfile' = keyfile /\ meta'.signing = meta.signing /\ meta' = meta BY <1>10 DEF ReadKrbtgt
  <2> QED BY <1>10, <2>1, ReadKrbtgtDoes, KeyInvBecomes, KeyInvFalls DEF Keeps
<1>11. ASSUME NEW p \in Process, MakeKrbtgt(p) PROVE KeyInv'
  <2>1. keyfile' = keyfile /\ meta'.signing = meta.signing /\ meta' = meta BY <1>11 DEF MakeKrbtgt
  <2> QED BY <1>11, <2>1, MakeKrbtgtDoes, KeyInvBecomes, KeyInvFalls DEF Keeps
<1>12. ASSUME NEW p \in Process, ReadSid(p) PROVE KeyInv'
  <2>1. keyfile' = keyfile /\ meta'.signing = meta.signing /\ meta' = meta BY <1>12 DEF ReadSid
  <2> QED BY <1>12, <2>1, ReadSidDoes, KeyInvBecomes, KeyInvFalls DEF Keeps
<1>13. ASSUME NEW p \in Process, SetSid(p) PROVE KeyInv'
  <2>1. keyfile' = keyfile /\ meta'.signing = meta.signing BY <1>13, SetSidDoes DEF SetSid
  <2> QED BY <1>13, <2>1, SetSidDoes, KeyInvBecomes, KeyInvFalls DEF Keeps
<1>14. ASSUME NEW p \in Process, ReadRange(p) PROVE KeyInv'
  <2>1. keyfile' = keyfile /\ meta'.signing = meta.signing /\ meta' = meta BY <1>14 DEF ReadRange
  <2> QED BY <1>14, <2>1, ReadRangeDoes, KeyInvBecomes, KeyInvFalls DEF Keeps
<1>15. ASSUME NEW p \in Process, SetRange(p) PROVE KeyInv'
  <2>1. keyfile' = keyfile /\ meta'.signing = meta.signing BY <1>15, SetRangeDoes DEF SetRange, SetRangeInBounds
  <2> QED BY <1>15, <2>1, SetRangeDoes, KeyInvBecomes, KeyInvFalls DEF Keeps, SetRange, SetRangeInBounds
<1>16. ASSUME NEW p \in Process, ReadSigning(p) PROVE KeyInv'
  <2>1. keyfile' = keyfile /\ meta'.signing = meta.signing /\ meta' = meta BY <1>16 DEF ReadSigning
  <2> QED BY <1>16, <2>1, ReadSigningDoes, KeyInvBecomes, KeyInvFalls DEF Keeps
<1>17. ASSUME NEW p \in Process, SetSigning(p) PROVE KeyInv'
  <2>1. keyfile' = keyfile BY <1>17 DEF SetSigning
  <2>2. procs[p].master \in Keys BY <1>17, OpenedPoints DEF SetSigning, Typed
  <2>3. procs[p].master = keyfile BY <2>2, KeysAreKeys DEF KeyInv
  <2>4. /\ meta'.signing.sealed = keyfile
        /\ procs'[p].pc = "up" /\ procs'[p].master = procs[p].master
        /\ \A q \in Process : q # p => procs'[q] = procs[q]
    BY <1>17, <2>3, SetSigningDoes DEF Becomes
  <2> QED BY <2>1, <2>3, <2>4 DEF KeyInv
<1>18. ASSUME NEW p \in Process, Die(p) PROVE KeyInv'
  BY <1>18, DieDoes, KeyInvFalls DEF Die
<1>19. CASE UNCHANGED stvars
  BY <1>19 DEF stvars, KeyInv
<1> QED
  BY <1>1, <1>2, <1>3, <1>4, <1>5, <1>6, <1>7, <1>8, <1>9, <1>10, <1>11, <1>12, <1>13, <1>14, <1>15, <1>16, <1>17, <1>18, <1>19 DEF StartupNext

\* OneMasterKey follows.
LEMMA KeyInvImplies == KeyInv => OneMasterKey
BY DEF KeyInv, OneMasterKey

-----------------------------------------------------------------------------
\* The schema.

\* The points at which a process reads and writes pins.
LEMMA PinningPoints ==
  /\ "realm" \in Pinning /\ "set realm" \in Pinning /\ "krbtgt" \in Pinning /\ "make krbtgt" \in Pinning /\ "sid" \in Pinning
  /\ "set sid" \in Pinning /\ "range" \in Pinning /\ "set range" \in Pinning /\ "signing" \in Pinning /\ "set signing" \in Pinning
  /\ "down" \notin Pinning /\ "key" \notin Pinning /\ "create key" \notin Pinning /\ "write key" \notin Pinning
  /\ "lock" \notin Pinning /\ "migrate" \notin Pinning /\ "up" \notin Pinning
BY DEF Pinning

\* A process that moves on outside the migrations keeps the schema's invariant.
LEMMA SchemaInvBecomes ==
  ASSUME SchemaInv, NEW p \in Process, NEW x, NEW m, NEW a, NEW s, NEW g, Becomes(p, x, m, a, s, g),
         x # "migrate", x \in Pinning \cup {"up"} => procs[p].pc \in Pinning,
         UNCHANGED <<schema, schemaLock, tripped>>
  PROVE  SchemaInv'
BY DEF Becomes, SchemaInv

\* A process that goes down keeps the schema's invariant.
LEMMA SchemaInvFalls ==
  ASSUME SchemaInv, NEW p \in Process, Falls(p), UNCHANGED <<schema, tripped>>,
         schemaLock' = schemaLock \/ (schemaLock = p /\ schemaLock' = NoProcess)
  PROVE  SchemaInv'
BY PinningPoints DEF Falls, SchemaInv

\* The schema's invariant holds before any start.
LEMMA SchemaInvInit == StartupInit => SchemaInv
<1> SUFFICES ASSUME StartupInit PROVE SchemaInv
  OBVIOUS
<1>1. \A p \in Process : procs[p].pc = "down" BY DownProc DEF StartupInit
<1>2. ~ tripped BY DEF StartupInit
<1>3. schema <= Migrations BY StartupAssumption DEF StartupInit
<1> QED BY <1>1, <1>2, <1>3, PinningPoints DEF SchemaInv

\* Every step keeps the schema's invariant (migrate, under its lock).
LEMMA SchemaInvStep ==
  ASSUME Typed, SetRangeInBounds, SchemaInv, [StartupNext]_stvars
  PROVE  SchemaInv'
<1>1. ASSUME NEW p \in Process, NEW c \in Config, Boot(p, c) PROVE SchemaInv'
  <2>1. /\ procs'[p].pc = "key"
        /\ \A q \in Process : q # p => procs'[q] = procs[q]
    BY <1>1, BootDoes
  <2> QED BY <1>1, <2>1, PinningPoints DEF Boot, SchemaInv
<1>2. ASSUME NEW p \in Process, LockSchema(p) PROVE SchemaInv'
  <2>1. /\ schemaLock = NoProcess /\ schemaLock' = p /\ UNCHANGED <<schema, tripped>>
        /\ procs'[p].pc = "migrate" /\ procs'[p].at = schema
        /\ \A q \in Process : q # p => procs'[q] = procs[q]
    BY <1>2, LockSchemaDoes, Zenon DEF LockSchema, Becomes
  <2>2. \A q \in Process : procs[q].pc # "migrate" BY <2>1, StartupAssumption DEF SchemaInv
  <2> QED BY <2>1, <2>2, PinningPoints, ZenonT(40) DEF SchemaInv
<1>3. ASSUME NEW p \in Process, Migrate(p) PROVE SchemaInv'
  <2>1. procs[p].pc = "migrate" /\ procs[p].at < Migrations /\ schemaLock = p /\ procs[p].at = schema
    BY <1>3 DEF Migrate, SchemaInv
  <2>2. /\ schema' = schema + 1 /\ UNCHANGED <<schemaLock, tripped>>
        /\ procs'[p].pc = "migrate" /\ procs'[p].at = schema + 1
        /\ \A q \in Process : q # p => procs'[q] = procs[q]
    BY <1>3, <2>1, MigrateDoes DEF Becomes
  <2>3. schema \in Nat /\ Migrations \in Nat BY StartupAssumption DEF Typed, Shared
  <2>4. \A q \in Process : procs[q].pc \notin Pinning \cup {"up"} BY <2>1, <2>3 DEF SchemaInv
  <2>5. \A q \in Process : q # p => procs[q].pc # "migrate" BY <2>1 DEF SchemaInv
  <2>6. ~ tripped' BY <2>2 DEF SchemaInv
  <2>7. schema' <= Migrations BY <2>1, <2>2, <2>3
  <2>8. \A q \in Process : procs'[q].pc \notin Pinning \cup {"up"} BY <2>2, <2>4, PinningPoints
  <2>9. \A q \in Process : procs'[q].pc = "migrate" => schemaLock' = q /\ procs'[q].at = schema'
    BY <2>1, <2>2, <2>5
  <2> QED BY <2>6, <2>7, <2>8, <2>9 DEF SchemaInv
<1>4. ASSUME NEW p \in Process, Migrated(p) PROVE SchemaInv'
  <2>1. procs[p].pc = "migrate" /\ procs[p].at = Migrations /\ schemaLock = p /\ procs[p].at = schema
    BY <1>4 DEF Migrated, SchemaInv
  <2>2. /\ procs'[p].pc = "realm" /\ \A q \in Process : q # p => procs'[q] = procs[q]
    BY <1>4, MigratedDoes DEF Keeps, Becomes
  <2>3. \A q \in Process : q # p => procs[q].pc # "migrate" BY <2>1 DEF SchemaInv
  <2> QED BY <1>4, <2>1, <2>2, <2>3 DEF Migrated, SchemaInv
<1>5. ASSUME NEW p \in Process, LoadKey(p) PROVE SchemaInv'
  <2>1. UNCHANGED <<schema, schemaLock, tripped>> BY <1>5 DEF LoadKey
  <2> QED BY <1>5, <2>1, LoadKeyDoes, SchemaInvBecomes, SchemaInvFalls, PinningPoints DEF Keeps
<1>6. ASSUME NEW p \in Process, CreateKey(p) PROVE SchemaInv'
  <2>1. UNCHANGED <<schema, schemaLock, tripped>> BY <1>6 DEF CreateKey
  <2> QED BY <1>6, <2>1, CreateKeyDoes, SchemaInvBecomes, SchemaInvFalls, PinningPoints DEF Keeps
<1>7. ASSUME NEW p \in Process, WriteKey(p) PROVE SchemaInv'
  <2>1. UNCHANGED <<schema, schemaLock, tripped>> BY <1>7 DEF WriteKey
  <2> QED BY <1>7, <2>1, WriteKeyDoes, SchemaInvBecomes, SchemaInvFalls, PinningPoints DEF Keeps
<1>8. ASSUME NEW p \in Process, ReadRealm(p) PROVE SchemaInv'
  <2>1. UNCHANGED <<schema, schemaLock, tripped>> BY <1>8 DEF ReadRealm
  <2> QED BY <1>8, <2>1, ReadRealmDoes, SchemaInvBecomes, SchemaInvFalls, PinningPoints DEF Keeps
<1>9. ASSUME NEW p \in Process, SetRealm(p) PROVE SchemaInv'
  <2>1. UNCHANGED <<schema, schemaLock, tripped>> BY <1>9 DEF SetRealm
  <2> QED BY <1>9, <2>1, SetRealmDoes, SchemaInvBecomes, SchemaInvFalls, PinningPoints DEF Keeps
<1>10. ASSUME NEW p \in Process, ReadKrbtgt(p) PROVE SchemaInv'
  <2>1. UNCHANGED <<schema, schemaLock, tripped>> BY <1>10 DEF ReadKrbtgt
  <2> QED BY <1>10, <2>1, ReadKrbtgtDoes, SchemaInvBecomes, SchemaInvFalls, PinningPoints DEF Keeps
<1>11. ASSUME NEW p \in Process, MakeKrbtgt(p) PROVE SchemaInv'
  <2>1. UNCHANGED <<schema, schemaLock, tripped>> BY <1>11 DEF MakeKrbtgt
  <2> QED BY <1>11, <2>1, MakeKrbtgtDoes, SchemaInvBecomes, SchemaInvFalls, PinningPoints DEF Keeps
<1>12. ASSUME NEW p \in Process, ReadSid(p) PROVE SchemaInv'
  <2>1. UNCHANGED <<schema, schemaLock, tripped>> BY <1>12 DEF ReadSid
  <2> QED BY <1>12, <2>1, ReadSidDoes, SchemaInvBecomes, SchemaInvFalls, PinningPoints DEF Keeps
<1>13. ASSUME NEW p \in Process, SetSid(p) PROVE SchemaInv'
  <2>1. UNCHANGED <<schema, schemaLock, tripped>> BY <1>13 DEF SetSid
  <2> QED BY <1>13, <2>1, SetSidDoes, SchemaInvBecomes, SchemaInvFalls, PinningPoints DEF Keeps
<1>14. ASSUME NEW p \in Process, ReadRange(p) PROVE SchemaInv'
  <2>1. UNCHANGED <<schema, schemaLock, tripped>> BY <1>14 DEF ReadRange
  <2> QED BY <1>14, <2>1, ReadRangeDoes, SchemaInvBecomes, SchemaInvFalls, PinningPoints DEF Keeps
<1>15. ASSUME NEW p \in Process, SetRange(p) PROVE SchemaInv'
  <2>1. UNCHANGED <<schema, schemaLock, tripped>> BY <1>15 DEF SetRange
  <2> QED BY <1>15, <2>1, SetRangeDoes, SchemaInvBecomes, SchemaInvFalls, PinningPoints DEF Keeps, SetRangeInBounds, SetRange
<1>16. ASSUME NEW p \in Process, ReadSigning(p) PROVE SchemaInv'
  <2>1. UNCHANGED <<schema, schemaLock, tripped>> BY <1>16 DEF ReadSigning
  <2> QED BY <1>16, <2>1, ReadSigningDoes, SchemaInvBecomes, SchemaInvFalls, PinningPoints DEF Keeps
<1>17. ASSUME NEW p \in Process, SetSigning(p) PROVE SchemaInv'
  <2>1. UNCHANGED <<schema, schemaLock, tripped>> BY <1>17 DEF SetSigning
  <2> QED BY <1>17, <2>1, SetSigningDoes, SchemaInvBecomes, SchemaInvFalls, PinningPoints DEF Keeps
<1>18. ASSUME NEW p \in Process, Die(p) PROVE SchemaInv'
  <2>1. UNCHANGED <<schema, tripped>> /\ (schemaLock' = schemaLock \/ (schemaLock = p /\ schemaLock' = NoProcess))
    BY <1>18 DEF Die
  <2> QED BY <1>18, <2>1, DieDoes, SchemaInvFalls
<1>19. CASE UNCHANGED stvars
  BY <1>19 DEF stvars, SchemaInv
<1> QED
  BY <1>1, <1>2, <1>3, <1>4, <1>5, <1>6, <1>7, <1>8, <1>9, <1>10, <1>11, <1>12, <1>13, <1>14, <1>15, <1>16, <1>17, <1>18, <1>19 DEF StartupNext

\* MigratedWhole follows.
LEMMA SchemaInvImplies == SchemaInv => MigratedWhole
BY DEF SchemaInv, MigratedWhole

-----------------------------------------------------------------------------
\* The pinned facts.

\* The place in the range's keys is in bounds before any start.
LEMMA BoundsInit == StartupInit => SetRangeInBounds
BY DownProc DEF StartupInit, SetRangeInBounds

\* Every step keeps the place in the range's keys in bounds (writeIDRange).
LEMMA BoundsStep ==
  ASSUME Typed, SetRangeInBounds, [StartupNext]_stvars
  PROVE  SetRangeInBounds'
<1> DEFINE Others(p) == \A q \in Process : q # p => procs'[q] = procs[q]
<1>1. ASSUME NEW p \in Process, Others(p), procs'[p].pc # "set range" PROVE SetRangeInBounds'
  BY <1>1 DEF SetRangeInBounds
<1>2. ASSUME NEW p \in Process, ReadRange(p) PROVE SetRangeInBounds'
  <2>1. 1 \in 1..RangeKeys BY StartupAssumption
  <2> QED BY <1>1, <1>2, <2>1, ReadRangeDoes DEF SetRangeInBounds, Becomes, Keeps, Falls
<1>3. ASSUME NEW p \in Process, SetRange(p) PROVE SetRangeInBounds'
  <2>1. procs[p].at \in 1..RangeKeys BY <1>3 DEF SetRange, SetRangeInBounds
  <2>2. procs[p].at # RangeKeys => procs[p].at + 1 \in 1..RangeKeys BY <2>1, StartupAssumption
  <2>3. CASE Keeps(p, "signing")
    BY <1>1, <2>3 DEF Keeps, Becomes
  <2>4. CASE /\ procs[p].at # RangeKeys
             /\ Becomes(p, "set range", procs[p].master, procs[p].at + 1, procs[p].sid, procs[p].signer)
    BY <2>2, <2>4 DEF SetRangeInBounds, Becomes
  <2> QED BY <1>3, <2>1, <2>3, <2>4, SetRangeDoes
<1>4. ASSUME NEW p \in Process, NEW c \in Config, Boot(p, c) PROVE SetRangeInBounds'
  BY <1>1, <1>4, BootDoes
<1> HIDE DEF Others
<1>5. ASSUME NEW p \in Process, LoadKey(p) PROVE SetRangeInBounds'
  BY <1>1, <1>5, LoadKeyDoes DEF Others, Becomes, Keeps, Falls
<1>6. ASSUME NEW p \in Process, CreateKey(p) PROVE SetRangeInBounds'
  BY <1>1, <1>6, CreateKeyDoes DEF Others, Becomes, Keeps, Falls
<1>7. ASSUME NEW p \in Process, WriteKey(p) PROVE SetRangeInBounds'
  BY <1>1, <1>7, WriteKeyDoes DEF Others, Becomes, Keeps, Falls
<1>8. ASSUME NEW p \in Process, LockSchema(p) PROVE SetRangeInBounds'
  BY <1>1, <1>8, LockSchemaDoes DEF Others, Becomes, Keeps, Falls
<1>9. ASSUME NEW p \in Process, Migrate(p) PROVE SetRangeInBounds'
  BY <1>1, <1>9, MigrateDoes DEF Others, Becomes, Keeps, Falls
<1>10. ASSUME NEW p \in Process, Migrated(p) PROVE SetRangeInBounds'
  BY <1>1, <1>10, MigratedDoes DEF Others, Becomes, Keeps, Falls
<1>11. ASSUME NEW p \in Process, ReadRealm(p) PROVE SetRangeInBounds'
  BY <1>1, <1>11, ReadRealmDoes DEF Others, Becomes, Keeps, Falls
<1>12. ASSUME NEW p \in Process, SetRealm(p) PROVE SetRangeInBounds'
  BY <1>1, <1>12, SetRealmDoes DEF Others, Becomes, Keeps, Falls
<1>13. ASSUME NEW p \in Process, ReadKrbtgt(p) PROVE SetRangeInBounds'
  BY <1>1, <1>13, ReadKrbtgtDoes DEF Others, Becomes, Keeps, Falls
<1>14. ASSUME NEW p \in Process, MakeKrbtgt(p) PROVE SetRangeInBounds'
  BY <1>1, <1>14, MakeKrbtgtDoes DEF Others, Becomes, Keeps, Falls
<1>15. ASSUME NEW p \in Process, ReadSid(p) PROVE SetRangeInBounds'
  BY <1>1, <1>15, ReadSidDoes DEF Others, Becomes, Keeps, Falls
<1>16. ASSUME NEW p \in Process, SetSid(p) PROVE SetRangeInBounds'
  BY <1>1, <1>16, SetSidDoes DEF Others, Becomes, Keeps, Falls
<1>17. ASSUME NEW p \in Process, ReadSigning(p) PROVE SetRangeInBounds'
  BY <1>1, <1>17, ReadSigningDoes DEF Others, Becomes, Keeps, Falls
<1>18. ASSUME NEW p \in Process, SetSigning(p) PROVE SetRangeInBounds'
  BY <1>1, <1>18, SetSigningDoes DEF Others, Becomes, Keeps, Falls
<1>19. ASSUME NEW p \in Process, Die(p) PROVE SetRangeInBounds'
  BY <1>1, <1>19, DieDoes DEF Others, Becomes, Keeps, Falls
<1>20. CASE UNCHANGED stvars
  BY <1>20 DEF stvars, SetRangeInBounds
<1> QED
  BY <1>2, <1>3, <1>4, <1>5, <1>6, <1>7, <1>8, <1>9, <1>10, <1>11, <1>12, <1>13, <1>14, <1>15, <1>16, <1>17, <1>18, <1>19, <1>20 DEF StartupNext

\* The realm's part of the pins depends only on the pinned realm and the
\* process.
LEMMA RealmInvKeeps ==
  ASSUME RealmInv, NEW p \in Process, NEW x, NEW m, NEW a, NEW s, NEW g, Becomes(p, x, m, a, s, g),
         meta'.realm = meta.realm, krbtgt \subseteq krbtgt', x # "set realm",
         x \in AfterRealm => procs[p].pc \in AfterRealm, x \in AfterKrbtgt => procs[p].pc \in AfterKrbtgt
  PROVE  RealmInv'
BY DEF Becomes, RealmInv

\* The SID's part of the pins depends only on the pinned SID and the process.
LEMMA SidInvKeeps ==
  ASSUME SidInv, NEW p \in Process, NEW x, NEW m, NEW a, NEW g, Becomes(p, x, m, a, procs[p].sid, g),
         meta'.sid = meta.sid, x # "set sid", x \in AfterSid => procs[p].pc \in AfterSid
  PROVE  SidInv'
BY DEF Becomes, SidInv

\* The range's part of the pins depends only on the pinned range and the
\* process.
LEMMA RangeInvKeeps ==
  ASSUME RangeInv, NEW p \in Process, NEW x, NEW m, NEW a, NEW s, NEW g, Becomes(p, x, m, a, s, g),
         meta'.range = meta.range, x # "set range", x \in AfterRange => procs[p].pc \in AfterRange
  PROVE  RangeInv'
<1>1. \A q \in Process : RangeAt(q)'
  <2> SUFFICES ASSUME NEW q \in Process PROVE RangeAt(q)'
    OBVIOUS
  <2>1. RangeAt(q) BY DEF RangeInv
  <2>2. CASE q = p BY <2>1, <2>2 DEF RangeAt, Becomes
  <2>3. CASE q # p BY <2>1, <2>3 DEF RangeAt, Becomes
  <2> QED BY <2>2, <2>3
<1> QED BY <1>1 DEF RangeInv

\* The signing key's part of the pins depends only on it and the process.
LEMMA SigningInvKeeps ==
  ASSUME SigningInv, NEW p \in Process, NEW x, NEW m, NEW a, NEW s, NEW g, Becomes(p, x, m, a, s, g),
         meta'.signing = meta.signing, x # "set signing", x # "up"
  PROVE  SigningInv'
BY DEF Becomes, SigningInv

\* The range has at least one key.
LEMMA SomeRows == RangeKeys \in Nat /\ RangeKeys \in 1..RangeKeys
<1>1. RangeKeys \in Nat /\ RangeKeys # 0 BY StartupAssumption
<1>2. RangeKeys >= 1 BY <1>1
<1> QED BY <1>1, <1>2

\* Places 1 to a are a itself and those before it.
LEMMA Counting ==
  ASSUME NEW n \in Nat, NEW a \in 1..n
  PROVE  /\ a \in Nat /\ a + 1 \in Nat /\ (a + 1) - 1 = a
         /\ \A k \in 1..a : k \in 1..n /\ (k = a \/ k \in 1..(a - 1))
OBVIOUS

\* No place lies below the first.
LEMMA NoneBelow == \A k \in 1..(1 - 1) : FALSE
OBVIOUS

\* What a process has pinned by a later point it has pinned by all later ones.
LEMMA AfterPoints ==
  /\ AfterRange \subseteq AfterSid /\ AfterSid \subseteq AfterKrbtgt /\ AfterKrbtgt \subseteq AfterRealm
  /\ AfterRealm \subseteq Pinning \cup {"up"}
  /\ "up" \in AfterRange
BY DEF AfterRange, AfterSid, AfterKrbtgt, AfterRealm, Pinning

\* A process that neither pins nor serves has nothing to keep.
LEMMA PinnedOutside ==
  ASSUME Pinned, NEW p \in Process, procs'[p].pc \notin Pinning \cup {"up"},
         \A q \in Process : q # p => procs'[q] = procs[q], meta' = meta, krbtgt \subseteq krbtgt'
  PROVE  Pinned'
<1> DEFINE x == procs'[p].pc
<1>1. /\ x \notin AfterRealm /\ x \notin AfterKrbtgt /\ x \notin AfterSid /\ x \notin AfterRange
      /\ x # "set realm" /\ x # "set sid" /\ x # "set range" /\ x # "set signing" /\ x # "up"
  BY AfterPoints, PinningPoints
<1>2. Alone' BY DEF Pinned, Alone
<1>3. RealmInv' BY <1>1 DEF Pinned, RealmInv
<1>4. SidInv' BY <1>1 DEF Pinned, SidInv
<1>5. RangeInv'
  <2>1. \A q \in Process : RangeAt(q)'
    <3> SUFFICES ASSUME NEW q \in Process PROVE RangeAt(q)'
      OBVIOUS
    <3>0. RangeAt(q) BY DEF Pinned, RangeInv
    <3>1. CASE q = p BY <1>1, <3>1 DEF RangeAt
    <3>2. CASE q # p BY <3>0, <3>2 DEF RangeAt
    <3> QED BY <3>1, <3>2
  <2> QED BY <2>1 DEF Pinned, RangeInv
<1>6. SigningInv' BY <1>1 DEF Pinned, SigningInv
<1> QED BY <1>2, <1>3, <1>4, <1>5, <1>6 DEF Pinned

\* While one process pins, the others serve or have not come to it.
LEMMA AlonePins ==
  ASSUME Pinned, NEW p \in Process, procs[p].pc \in Pinning
  PROVE  \A q \in Process : q # p => procs[q].pc \notin Pinning
BY DEF Pinned, Alone

\* A step of the one process that pins leaves it the only one.
LEMMA AloneKeeps ==
  ASSUME Pinned, NEW p \in Process, procs[p].pc \in Pinning,
         \A q \in Process : q # p => procs'[q] = procs[q]
  PROVE  Alone'
BY AlonePins DEF Alone

\* Nobody serves a database in which the fact p is about to pin is missing.
LEMMA NobodyServes ==
  ASSUME Typed, Pinned, NEW p \in Process,
         procs[p].pc \in {"set realm", "set sid", "set range", "set signing"}
  PROVE  \A q \in Process : q # p => procs[q].pc \notin Pinning \cup {"up"}
<1> SUFFICES ASSUME NEW q \in Process, q # p, procs[q].pc = "up" PROVE FALSE
  BY AlonePins, PinningPoints
<1>1. procs[q].config.realm # NoPin /\ procs[q].config.range # NoPin BY StartupAssumption DEF Typed
<1>2. RealmInv /\ SidInv /\ RangeInv /\ SigningInv BY DEF Pinned
<1>3. CASE procs[p].pc = "set realm" BY <1>1, <1>2, <1>3, AfterPoints DEF RealmInv
<1>4. CASE procs[p].pc = "set sid" BY <1>2, <1>4, AfterPoints DEF SidInv
<1>5. CASE procs[p].pc = "set range"
  <2>1. RangeKeys \in 1..RangeKeys BY SomeRows
  <2> QED BY <1>1, <1>2, <1>5, <2>1, AfterPoints DEF RangeInv, RangeAt
<1>6. CASE procs[p].pc = "set signing" BY <1>2, <1>6 DEF SigningInv
<1> QED BY <1>3, <1>4, <1>5, <1>6


\* Where each step stands among the others.
LEMMA Stages ==
  /\ {"krbtgt", "make krbtgt", "sid", "set sid", "range", "set range", "signing", "set signing", "up"} \subseteq AfterRealm
  /\ {"realm", "set realm"} \cap AfterRealm = {}
  /\ {"sid", "set sid", "range", "set range", "signing", "set signing", "up"} \subseteq AfterKrbtgt
  /\ {"realm", "set realm", "krbtgt", "make krbtgt"} \cap AfterKrbtgt = {}
  /\ {"range", "set range", "signing", "set signing", "up"} \subseteq AfterSid
  /\ {"realm", "set realm", "krbtgt", "make krbtgt", "sid", "set sid"} \cap AfterSid = {}
  /\ {"signing", "set signing", "up"} \subseteq AfterRange
  /\ {"realm", "set realm", "krbtgt", "make krbtgt", "sid", "set sid", "range", "set range"} \cap AfterRange = {}
  /\ {"realm", "set realm", "krbtgt", "make krbtgt", "sid", "set sid", "range", "set range", "signing", "set signing"} \subseteq Pinning
BY DEF AfterRange, AfterSid, AfterKrbtgt, AfterRealm, Pinning

\* ReadRealm keeps the pins' invariant.
LEMMA PinnedReadRealm ==
  ASSUME Typed, Pinned, NEW p \in Process, ReadRealm(p)
  PROVE  Pinned'
<1>0. procs[p].pc \in Pinning /\ meta' = meta /\ krbtgt' = krbtgt BY Stages DEF ReadRealm
<1>1. CASE Falls(p) BY <1>0, <1>1, PinnedOutside, PinningPoints DEF Falls
<1>2. CASE meta.realm = NoPin /\ Keeps(p, "set realm")
  <2>1. Becomes(p, "set realm", procs[p].master, procs[p].at, procs[p].sid, procs[p].signer) BY <1>2 DEF Keeps
  <2>2. Alone' BY <1>0, <2>1, AloneKeeps DEF Becomes
  <2>3. RealmInv' BY <1>0, <1>2, <2>1, Stages DEF Pinned, RealmInv, Becomes
  <2>4. SidInv' BY <1>0, <2>1, SidInvKeeps, Stages DEF Pinned
  <2>5. RangeInv' BY <1>0, <2>1, RangeInvKeeps, Stages DEF Pinned
  <2>6. SigningInv' BY <1>0, <2>1, SigningInvKeeps DEF Pinned
  <2> QED BY <2>2, <2>3, <2>4, <2>5, <2>6 DEF Pinned
<1>3. CASE meta.realm = procs[p].config.realm /\ Keeps(p, "krbtgt")
  <2>1. Becomes(p, "krbtgt", procs[p].master, procs[p].at, procs[p].sid, procs[p].signer) BY <1>3 DEF Keeps
  <2>2. Alone' BY <1>0, <2>1, AloneKeeps DEF Becomes
  <2>3. RealmInv' BY <1>0, <1>3, <2>1, Stages DEF Pinned, RealmInv, Becomes
  <2>4. SidInv' BY <1>0, <2>1, SidInvKeeps, Stages DEF Pinned
  <2>5. RangeInv' BY <1>0, <2>1, RangeInvKeeps, Stages DEF Pinned
  <2>6. SigningInv' BY <1>0, <2>1, SigningInvKeeps DEF Pinned
  <2> QED BY <2>2, <2>3, <2>4, <2>5, <2>6 DEF Pinned
<1> QED BY <1>1, <1>2, <1>3, ReadRealmDoes

\* SetRealm keeps the pins' invariant.
LEMMA PinnedSetRealm ==
  ASSUME Typed, Pinned, NEW p \in Process, SetRealm(p)
  PROVE  Pinned'
<1>0. /\ procs[p].pc = "set realm" /\ procs[p].pc \in Pinning /\ krbtgt' = krbtgt
      /\ meta'.sid = meta.sid /\ meta'.range = meta.range /\ meta'.signing = meta.signing
  BY SetRealmDoes, Stages DEF SetRealm
<1>1. Becomes(p, "krbtgt", procs[p].master, procs[p].at, procs[p].sid, procs[p].signer) BY SetRealmDoes DEF Keeps
<1>2. Alone' BY <1>0, <1>1, AloneKeeps DEF Becomes
<1>3. RealmInv'
  <2>1. \A q \in Process : q # p => procs[q].pc \notin AfterRealm /\ procs[q].pc # "set realm"
                                   /\ procs[q].pc \notin AfterKrbtgt
    BY <1>0, NobodyServes, AfterPoints, Stages
  <2>2. meta'.realm = procs[p].config.realm BY SetRealmDoes
  <2> QED BY <1>1, <2>1, <2>2, Stages DEF RealmInv, Becomes
<1>4. SidInv' BY <1>0, <1>1, SidInvKeeps, Stages DEF Pinned
<1>5. RangeInv' BY <1>0, <1>1, RangeInvKeeps, Stages DEF Pinned
<1>6. SigningInv' BY <1>0, <1>1, SigningInvKeeps DEF Pinned
<1> QED BY <1>2, <1>3, <1>4, <1>5, <1>6 DEF Pinned

\* ReadKrbtgt keeps the pins' invariant.
LEMMA PinnedReadKrbtgt ==
  ASSUME Typed, Pinned, NEW p \in Process, ReadKrbtgt(p)
  PROVE  Pinned'
<1>0. procs[p].pc = "krbtgt" /\ procs[p].pc \in Pinning /\ meta' = meta /\ krbtgt' = krbtgt
  BY Stages DEF ReadKrbtgt
<1>1. PICK x \in {"sid", "make krbtgt"} :
        /\ Becomes(p, x, procs[p].master, procs[p].at, procs[p].sid, procs[p].signer)
        /\ x = "sid" => procs[p].config.realm \in krbtgt
  BY ReadKrbtgtDoes DEF Keeps
<1>2. Alone' BY <1>0, <1>1, AloneKeeps DEF Becomes
<1>3. RealmInv'
  <2>1. meta.realm = procs[p].config.realm BY <1>0, Stages DEF Pinned, RealmInv
  <2> QED BY <1>0, <1>1, <2>1, Stages DEF Pinned, RealmInv, Becomes
<1>4. SidInv' BY <1>0, <1>1, SidInvKeeps, Stages DEF Pinned
<1>5. RangeInv' BY <1>0, <1>1, RangeInvKeeps, Stages DEF Pinned
<1>6. SigningInv' BY <1>0, <1>1, SigningInvKeeps DEF Pinned
<1> QED BY <1>2, <1>3, <1>4, <1>5, <1>6 DEF Pinned

\* MakeKrbtgt keeps the pins' invariant.
LEMMA PinnedMakeKrbtgt ==
  ASSUME Typed, Pinned, NEW p \in Process, MakeKrbtgt(p)
  PROVE  Pinned'
<1>0. /\ procs[p].pc = "make krbtgt" /\ procs[p].pc \in Pinning /\ meta' = meta
      /\ krbtgt \subseteq krbtgt' /\ procs[p].config.realm \in krbtgt'
  BY MakeKrbtgtDoes, Stages DEF MakeKrbtgt
<1>1. CASE Falls(p) BY <1>0, <1>1, PinnedOutside, PinningPoints DEF Falls
<1>2. CASE Keeps(p, "sid")
  <2>1. Becomes(p, "sid", procs[p].master, procs[p].at, procs[p].sid, procs[p].signer) BY <1>2 DEF Keeps
  <2>2. Alone' BY <1>0, <2>1, AloneKeeps DEF Becomes
  <2>3. RealmInv'
    <3>1. meta.realm = procs[p].config.realm BY <1>0, Stages DEF Pinned, RealmInv
    <3> QED BY <1>0, <2>1, <3>1, Stages DEF Pinned, RealmInv, Becomes
  <2>4. SidInv' BY <1>0, <2>1, SidInvKeeps, Stages DEF Pinned
  <2>5. RangeInv' BY <1>0, <2>1, RangeInvKeeps, Stages DEF Pinned
  <2>6. SigningInv' BY <1>0, <2>1, SigningInvKeeps DEF Pinned
  <2> QED BY <2>2, <2>3, <2>4, <2>5, <2>6 DEF Pinned
<1> QED BY <1>1, <1>2, MakeKrbtgtDoes

\* ReadSid keeps the pins' invariant.
LEMMA PinnedReadSid ==
  ASSUME Typed, Pinned, NEW p \in Process, ReadSid(p)
  PROVE  Pinned'
<1>0. procs[p].pc = "sid" /\ procs[p].pc \in Pinning /\ meta' = meta /\ krbtgt' = krbtgt
  BY Stages DEF ReadSid
<1>1. CASE Falls(p) BY <1>0, <1>1, PinnedOutside, PinningPoints DEF Falls
<1>2. ASSUME NEW s \in Sids, s # NoPin, NEW x \in {"set sid", "range"},
             Becomes(p, x, procs[p].master, procs[p].at, s, procs[p].signer),
             x = "set sid" => meta.sid = NoPin, x = "range" => meta.sid = s
      PROVE  Pinned'
  <2>2. Alone' BY <1>0, <1>2, AloneKeeps DEF Becomes
  <2>3. RealmInv' BY <1>0, <1>2, RealmInvKeeps, Stages DEF Pinned
  <2>4. SidInv' BY <1>0, <1>2, Stages DEF Pinned, SidInv, Becomes
  <2>5. RangeInv' BY <1>0, <1>2, RangeInvKeeps, Stages DEF Pinned
  <2>6. SigningInv' BY <1>0, <1>2, SigningInvKeeps DEF Pinned
  <2> QED BY <2>2, <2>3, <2>4, <2>5, <2>6 DEF Pinned
<1> QED BY <1>1, <1>2, ReadSidDoes

\* SetSid keeps the pins' invariant.
LEMMA PinnedSetSid ==
  ASSUME Typed, Pinned, NEW p \in Process, SetSid(p)
  PROVE  Pinned'
<1>0. /\ procs[p].pc = "set sid" /\ procs[p].pc \in Pinning /\ krbtgt' = krbtgt
      /\ meta'.realm = meta.realm /\ meta'.range = meta.range /\ meta'.signing = meta.signing
  BY SetSidDoes, Stages DEF SetSid
<1>1. Becomes(p, "range", procs[p].master, procs[p].at, procs[p].sid, procs[p].signer) BY SetSidDoes DEF Keeps
<1>2. Alone' BY <1>0, <1>1, AloneKeeps DEF Becomes
<1>3. RealmInv' BY <1>0, <1>1, RealmInvKeeps, Stages DEF Pinned
<1>4. SidInv'
  <2>1. \A q \in Process : q # p => procs[q].pc \notin AfterSid /\ procs[q].pc # "set sid"
    BY <1>0, NobodyServes, AfterPoints, Stages
  <2>2. meta'.sid = procs[p].sid /\ procs[p].sid # NoPin BY <1>0, SetSidDoes DEF Pinned, SidInv
  <2> QED BY <1>1, <2>1, <2>2, Stages DEF SidInv, Becomes
<1>5. RangeInv' BY <1>0, <1>1, RangeInvKeeps, Stages DEF Pinned
<1>6. SigningInv' BY <1>0, <1>1, SigningInvKeeps DEF Pinned
<1> QED BY <1>2, <1>3, <1>4, <1>5, <1>6 DEF Pinned

\* ReadRange keeps the pins' invariant.
LEMMA PinnedReadRange ==
  ASSUME Typed, Pinned, NEW p \in Process, ReadRange(p)
  PROVE  Pinned'
<1>0. procs[p].pc = "range" /\ procs[p].pc \in Pinning /\ meta' = meta /\ krbtgt' = krbtgt
  BY Stages DEF ReadRange
<1>1. CASE Falls(p) BY <1>0, <1>1, PinnedOutside, PinningPoints DEF Falls
<1>2. ASSUME NEW x \in {"set range", "signing"}, NEW a,
             Becomes(p, x, procs[p].master, a, procs[p].sid, procs[p].signer),
             x = "set range" => a = 1 /\ \E k \in 1..RangeKeys : meta.range[k] = NoPin,
             x = "signing" => \A k \in 1..RangeKeys : meta.range[k] = procs[p].config.range
      PROVE  Pinned'
  <2>2. Alone' BY <1>0, <1>2, AloneKeeps DEF Becomes
  <2>3. RealmInv' BY <1>0, <1>2, RealmInvKeeps, Stages DEF Pinned
  <2>4. SidInv' BY <1>0, <1>2, SidInvKeeps, Stages DEF Pinned
  <2>5. RangeInv'
    <3>1. \A q \in Process : RangeAt(q) BY DEF Pinned, RangeInv
    <3>2. ASSUME NEW q \in Process, q # p PROVE RangeAt(q)'
      <4>1. procs'[q] = procs[q] /\ RangeAt(q) BY <1>2, <3>1, <3>2 DEF Becomes
      <4> QED BY <1>0, <4>1 DEF RangeAt
    <3>3. RangeAt(p)'
      <4>1. CASE x = "set range"
        <5>1. meta.range[RangeKeys] = NoPin BY <1>2, <4>1 DEF Pinned, RangeInv
        <5>2. procs'[p].pc = "set range" /\ procs'[p].at = 1 BY <1>2, <4>1 DEF Becomes
        <5>3. procs'[p].pc \notin AfterRange BY <5>2, Stages
        <5>4. \A k \in 1..(procs'[p].at - 1) : FALSE BY <5>2, NoneBelow, Zenon
        <5> QED BY <1>0, <5>1, <5>3, <5>4 DEF RangeAt
      <4>2. CASE x = "signing"
        BY <1>0, <1>2, <4>2 DEF RangeAt, Becomes
      <4> QED BY <1>2, <4>1, <4>2
    <3> QED BY <1>0, <3>2, <3>3 DEF Pinned, RangeInv
  <2>6. SigningInv' BY <1>0, <1>2, SigningInvKeeps DEF Pinned
  <2> QED BY <2>2, <2>3, <2>4, <2>5, <2>6 DEF Pinned
<1> QED BY <1>1, <1>2, ReadRangeDoes DEF Keeps

\* SetRange keeps the pins' invariant.
LEMMA PinnedSetRange ==
  ASSUME Typed, Pinned, SetRangeInBounds, NEW p \in Process, SetRange(p)
  PROVE  Pinned'
<1>0. /\ procs[p].pc = "set range" /\ procs[p].pc \in Pinning /\ krbtgt' = krbtgt
      /\ procs[p].at \in 1..RangeKeys
  BY Stages DEF SetRange, SetRangeInBounds
<1>9. /\ procs[p].at \in Nat /\ procs[p].at + 1 \in Nat /\ (procs[p].at + 1) - 1 = procs[p].at
      /\ \A k \in 1..procs[p].at : k \in 1..RangeKeys /\ (k = procs[p].at \/ k \in 1..(procs[p].at - 1))
  BY <1>0, SomeRows, Counting, Zenon
<1>1. /\ meta'.realm = meta.realm /\ meta'.sid = meta.sid /\ meta'.signing = meta.signing
      /\ meta'.range = [meta.range EXCEPT ![procs[p].at] = procs[p].config.range]
      /\ procs[p].config.range # NoPin
  BY <1>0, SetRangeDoes
<1>2. PICK x \in {"signing", "set range"}, a \in Nat :
        /\ Becomes(p, x, procs[p].master, a, procs[p].sid, procs[p].signer)
        /\ x = "signing" => procs[p].at = RangeKeys
        /\ x = "set range" => a = procs[p].at + 1 /\ procs[p].at # RangeKeys
  <2>1. CASE procs[p].at = RangeKeys BY <1>0, <2>1, <1>9, SetRangeDoes DEF Keeps
  <2>2. CASE procs[p].at # RangeKeys BY <1>0, <1>9, <2>2, SetRangeDoes
  <2> QED BY <2>1, <2>2, ZenonT(40)
<1>3. Alone' BY <1>0, <1>2, AloneKeeps DEF Becomes
<1>4. RealmInv' BY <1>0, <1>1, <1>2, RealmInvKeeps, Stages DEF Pinned
<1>5. SidInv' BY <1>0, <1>1, <1>2, SidInvKeeps, Stages DEF Pinned
<1>6. RangeInv'
  <2>1. /\ meta.range[RangeKeys] = NoPin
        /\ \A k \in 1..(procs[p].at - 1) : meta.range[k] = procs[p].config.range
    BY <1>0 DEF Pinned, RangeInv, RangeAt
  <2>2. meta.range \in [1..RangeKeys -> Ranges \cup {NoPin}] BY DEF Typed, Shared, Meta
  <2>3. ASSUME NEW k \in 1..procs[p].at PROVE meta'.range[k] = procs[p].config.range
    <3>1. k \in 1..RangeKeys /\ (k = procs[p].at \/ k \in 1..(procs[p].at - 1)) BY <1>9, Zenon
    <3> QED BY <1>0, <1>1, <2>1, <2>2, <3>1
  <2>4. procs[p].at # RangeKeys => meta'.range[RangeKeys] = NoPin
    BY <1>0, <1>1, <2>1, <2>2, SomeRows
  <2>5. \A q \in Process : q # p => RangeAt(q)'
    <3>1. \A q \in Process : q # p => procs[q].pc \notin AfterRange /\ procs[q].pc # "set range"
      BY <1>0, NobodyServes, AfterPoints, Stages
    <3> QED BY <1>2, <3>1 DEF RangeAt, Becomes
  <2>6. RangeAt(p)'
    <3>1. procs'[p].pc = x /\ procs'[p].at = a /\ procs'[p].config = procs[p].config BY <1>2 DEF Becomes
    <3>2. CASE x = "signing"
      BY <1>2, <2>3, <3>1, <3>2, SMTT(30) DEF RangeAt
    <3>3. CASE x = "set range"
      <4>1. a - 1 = procs[p].at BY <1>9, <1>2, <3>3, Zenon
      <4> QED BY <1>2, <2>3, <2>4, <3>1, <3>3, <4>1, Stages DEF RangeAt
    <3> QED BY <3>2, <3>3
  <2>7. meta'.range[RangeKeys] # NoPin => \A k \in 1..RangeKeys : meta'.range[k] # NoPin
    BY <1>1, <2>3, <2>4
  <2> QED BY <2>5, <2>6, <2>7 DEF RangeInv
<1>7. SigningInv' BY <1>1, <1>2, SigningInvKeeps DEF Pinned
<1> QED BY <1>3, <1>4, <1>5, <1>6, <1>7 DEF Pinned

\* ReadSigning keeps the pins' invariant.
LEMMA PinnedReadSigning ==
  ASSUME Typed, Pinned, NEW p \in Process, ReadSigning(p)
  PROVE  Pinned'
<1>0. procs[p].pc = "signing" /\ procs[p].pc \in Pinning /\ meta' = meta /\ krbtgt' = krbtgt
  BY Stages DEF ReadSigning
<1>1. CASE Falls(p) BY <1>0, <1>1, PinnedOutside, PinningPoints DEF Falls
<1>2. ASSUME NEW x \in {"set signing", "up"}, NEW g,
             Becomes(p, x, procs[p].master, procs[p].at, procs[p].sid, g),
             x = "set signing" => meta.signing = NoPin,
             x = "up" => meta.signing # NoPin /\ g = meta.signing
      PROVE  Pinned'
  <2>2. Alone' BY <1>0, <1>2, AloneKeeps DEF Becomes
  <2>3. RealmInv' BY <1>0, <1>2, RealmInvKeeps, Stages DEF Pinned
  <2>4. SidInv' BY <1>0, <1>2, SidInvKeeps, Stages DEF Pinned
  <2>5. RangeInv' BY <1>0, <1>2, RangeInvKeeps, Stages DEF Pinned
  <2>6. SigningInv' BY <1>0, <1>2 DEF Pinned, SigningInv, Becomes
  <2> QED BY <2>2, <2>3, <2>4, <2>5, <2>6 DEF Pinned
<1> QED BY <1>1, <1>2, ReadSigningDoes DEF Keeps

\* SetSigning keeps the pins' invariant.
LEMMA PinnedSetSigning ==
  ASSUME Typed, Pinned, NEW p \in Process, SetSigning(p)
  PROVE  Pinned'
<1>0. /\ procs[p].pc = "set signing" /\ procs[p].pc \in Pinning /\ krbtgt' = krbtgt
      /\ meta'.realm = meta.realm /\ meta'.sid = meta.sid /\ meta'.range = meta.range /\ meta'.signing # NoPin
  BY SetSigningDoes, Stages, Zenon DEF SetSigning
<1>1. Becomes(p, "up", procs[p].master, procs[p].at, procs[p].sid, meta'.signing) BY SetSigningDoes
<1>2. Alone' BY <1>0, <1>1, AloneKeeps DEF Becomes
<1>3. RealmInv' BY <1>0, <1>1, RealmInvKeeps, Stages DEF Pinned
<1>4. SidInv' BY <1>0, <1>1, SidInvKeeps, Stages DEF Pinned
<1>5. RangeInv' BY <1>0, <1>1, RangeInvKeeps, Stages DEF Pinned
<1>6. SigningInv'
  <2>1. \A q \in Process : q # p => procs[q].pc # "up" /\ procs[q].pc # "set signing"
    BY <1>0, NobodyServes, Stages
  <2> QED BY <1>0, <1>1, <2>1 DEF SigningInv, Becomes
<1> QED BY <1>2, <1>3, <1>4, <1>5, <1>6, SMTT(30) DEF Pinned

\* Whoever starts to pin while nobody does has established nothing yet.
LEMMA PinnedMigrated ==
  ASSUME Typed, Pinned, NEW p \in Process, Migrated(p), ~ together'
  PROVE  Pinned'
<1>0. /\ meta' = meta /\ krbtgt' = krbtgt
      /\ \A q \in Process : procs[q].pc \notin Pinning
  BY Zenon DEF Migrated
<1>1. Becomes(p, "realm", procs[p].master, procs[p].at, procs[p].sid, procs[p].signer) BY MigratedDoes DEF Keeps
<1>2. Alone' BY <1>0, <1>1 DEF Alone, Becomes
<1>3. RealmInv' BY <1>0, <1>1, RealmInvKeeps, Stages DEF Pinned
<1>4. SidInv' BY <1>0, <1>1, SidInvKeeps, Stages DEF Pinned
<1>5. RangeInv' BY <1>0, <1>1, RangeInvKeeps, Stages DEF Pinned
<1>6. SigningInv' BY <1>0, <1>1, SigningInvKeeps DEF Pinned
<1> QED BY <1>2, <1>3, <1>4, <1>5, <1>6 DEF Pinned

\* The pins' invariant holds before any start.
LEMMA PinInvInit == StartupInit => PinInv
<1> SUFFICES ASSUME StartupInit PROVE Pinned
  BY DEF PinInv
<1>1. \A p \in Process : procs[p].pc = "down" BY DownProc DEF StartupInit
<1>2. {"down"} \cap (Pinning \cup {"up"}) = {} BY DEF Pinning
<1>3. \A p \in Process : /\ procs[p].pc \notin Pinning /\ procs[p].pc # "up"
                          /\ procs[p].pc \notin AfterRealm /\ procs[p].pc \notin AfterKrbtgt
                          /\ procs[p].pc \notin AfterSid /\ procs[p].pc \notin AfterRange
  BY <1>1, <1>2, AfterPoints
<1>4. Alone /\ RealmInv /\ SidInv /\ SigningInv BY <1>1, <1>3 DEF Alone, RealmInv, SidInv, SigningInv
<1>5. RangeInv
  <2>1. meta.range[RangeKeys] = NoPin BY SomeRows DEF StartupInit, Unpinned
  <2> QED BY <1>1, <1>3, <2>1 DEF RangeInv, RangeAt
<1> QED BY <1>4, <1>5 DEF Pinned

\* Every step keeps the pins' invariant (EnsureRealm, EnsureDomainSID,
\* EnsureIDRange, LoadOrCreate).
LEMMA PinInvStep ==
  ASSUME Typed, SetRangeInBounds, PinInv, [StartupNext]_stvars
  PROVE  PinInv'
<1> SUFFICES ASSUME ~ together' PROVE Pinned'
  BY SMTT(30) DEF PinInv
<1>1. ~ together BY Zenon DEF StartupNext, Boot, LoadKey, CreateKey, WriteKey, LockSchema, Migrate, Migrated, ReadRealm, SetRealm,
        ReadKrbtgt, MakeKrbtgt, ReadSid, SetSid, ReadRange, SetRange, ReadSigning, SetSigning, Die, stvars
<1>2. Pinned BY <1>1 DEF PinInv
<1>3. ASSUME NEW p \in Process, NEW c \in Config, Boot(p, c) PROVE Pinned'
  <2>1. meta' = meta /\ krbtgt' = krbtgt BY <1>3 DEF Boot
  <2> QED BY <1>2, <1>3, <2>1, BootDoes, PinnedOutside, PinningPoints
<1>4. ASSUME NEW p \in Process, LoadKey(p) PROVE Pinned'
  <2>1. meta' = meta /\ krbtgt' = krbtgt BY <1>4 DEF LoadKey
  <2> QED BY <1>2, <1>4, <2>1, LoadKeyDoes, PinnedOutside, PinningPoints, ZenonT(40) DEF Becomes, Keeps, Falls
<1>5. ASSUME NEW p \in Process, CreateKey(p) PROVE Pinned'
  <2>1. meta' = meta /\ krbtgt' = krbtgt BY <1>5 DEF CreateKey
  <2> QED BY <1>2, <1>5, <2>1, CreateKeyDoes, PinnedOutside, PinningPoints DEF Becomes, Keeps, Falls
<1>6. ASSUME NEW p \in Process, WriteKey(p) PROVE Pinned'
  <2>1. meta' = meta /\ krbtgt' = krbtgt BY <1>6 DEF WriteKey
  <2> QED BY <1>2, <1>6, <2>1, WriteKeyDoes, PinnedOutside, PinningPoints DEF Becomes, Keeps, Falls
<1>7. ASSUME NEW p \in Process, LockSchema(p) PROVE Pinned'
  <2>1. meta' = meta /\ krbtgt' = krbtgt BY <1>7 DEF LockSchema
  <2> QED BY <1>2, <1>7, <2>1, LockSchemaDoes, PinnedOutside, PinningPoints DEF Becomes, Keeps, Falls
<1>8. ASSUME NEW p \in Process, Migrate(p) PROVE Pinned'
  <2>1. meta' = meta /\ krbtgt' = krbtgt BY <1>8 DEF Migrate
  <2> QED BY <1>2, <1>8, <2>1, MigrateDoes, PinnedOutside, PinningPoints DEF Becomes, Keeps, Falls
<1>9. ASSUME NEW p \in Process, Die(p) PROVE Pinned'
  <2>1. meta' = meta /\ krbtgt' = krbtgt BY <1>9 DEF Die
  <2> QED BY <1>2, <1>9, <2>1, DieDoes, PinnedOutside, PinningPoints DEF Becomes, Keeps, Falls
<1>10. ASSUME NEW p \in Process, Migrated(p) PROVE Pinned' BY <1>2, <1>10, PinnedMigrated
<1>11. ASSUME NEW p \in Process, ReadRealm(p) PROVE Pinned' BY <1>2, <1>11, PinnedReadRealm
<1>12. ASSUME NEW p \in Process, SetRealm(p) PROVE Pinned' BY <1>2, <1>12, PinnedSetRealm
<1>13. ASSUME NEW p \in Process, ReadKrbtgt(p) PROVE Pinned' BY <1>2, <1>13, PinnedReadKrbtgt
<1>14. ASSUME NEW p \in Process, MakeKrbtgt(p) PROVE Pinned' BY <1>2, <1>14, PinnedMakeKrbtgt
<1>15. ASSUME NEW p \in Process, ReadSid(p) PROVE Pinned' BY <1>2, <1>15, PinnedReadSid
<1>16. ASSUME NEW p \in Process, SetSid(p) PROVE Pinned' BY <1>2, <1>16, PinnedSetSid
<1>17. ASSUME NEW p \in Process, ReadRange(p) PROVE Pinned' BY <1>2, <1>17, PinnedReadRange
<1>18. ASSUME NEW p \in Process, SetRange(p) PROVE Pinned' BY <1>2, <1>18, PinnedSetRange
<1>19. ASSUME NEW p \in Process, ReadSigning(p) PROVE Pinned' BY <1>2, <1>19, PinnedReadSigning
<1>20. ASSUME NEW p \in Process, SetSigning(p) PROVE Pinned' BY <1>2, <1>20, PinnedSetSigning, SMTT(30)
<1>21. CASE UNCHANGED stvars
  BY <1>2, <1>21 DEF stvars, Pinned, Alone, RealmInv, SidInv, RangeInv, RangeAt, SigningInv
<1> QED
  BY <1>3, <1>4, <1>5, <1>6, <1>7, <1>8, <1>9, <1>10, <1>11, <1>12, <1>13, <1>14, <1>15, <1>16, <1>17, <1>18, <1>19, <1>20, <1>21 DEF StartupNext

\* ServesPinned follows.
LEMMA PinInvImplies == PinInv => ServesPinned
<1> SUFFICES ASSUME Pinned, NEW p \in Process, procs[p].pc = "up"
             PROVE  /\ procs[p].config.realm = meta.realm /\ meta.realm \in krbtgt
                    /\ procs[p].sid = meta.sid
                    /\ \A k \in 1..RangeKeys : meta.range[k] = procs[p].config.range
                    /\ procs[p].signer = meta.signing
  BY DEF PinInv, ServesPinned
<1>1. procs[p].config.realm = meta.realm /\ meta.realm \in krbtgt BY Stages DEF Pinned, RealmInv
<1>2. procs[p].sid = meta.sid BY Stages DEF Pinned, SidInv
<1>3. \A k \in 1..RangeKeys : meta.range[k] = procs[p].config.range BY Stages DEF Pinned, RangeInv, RangeAt
<1>4. procs[p].signer = meta.signing BY DEF Pinned, SigningInv
<1> QED BY <1>1, <1>2, <1>3, <1>4

\* What a step may change of a fact that is pinned: nothing.
PinStays ==
  ~ together' =>
    /\ \A f \in {"realm", "sid", "signing"} : meta[f] # NoPin => meta'[f] = meta[f]
    /\ NoPin \notin {meta.range[k] : k \in 1..RangeKeys} => meta'.range = meta.range

\* Only the four writes change a fact, each one that is not pinned yet.
LEMMA PinStaysStep ==
  ASSUME Typed, SetRangeInBounds, PinInv, StartupNext
  PROVE  PinStays
<1> SUFFICES ASSUME ~ together'
             PROVE  /\ \A f \in {"realm", "sid", "signing"} : meta[f] # NoPin => meta'[f] = meta[f]
                    /\ NoPin \notin {meta.range[k] : k \in 1..RangeKeys} => meta'.range = meta.range
  BY SMTT(30) DEF PinStays
<1>1. ~ together BY Zenon DEF StartupNext, Boot, LoadKey, CreateKey, WriteKey, LockSchema, Migrate, Migrated, ReadRealm, SetRealm,
        ReadKrbtgt, MakeKrbtgt, ReadSid, SetSid, ReadRange, SetRange, ReadSigning, SetSigning, Die
<1>2. RealmInv /\ SidInv /\ RangeInv /\ SigningInv BY <1>1 DEF PinInv, Pinned
<1>3. CASE meta' = meta BY <1>3
<1>4. ASSUME NEW p \in Process, SetRealm(p)
      PROVE  meta.realm = NoPin /\ meta'.sid = meta.sid /\ meta'.signing = meta.signing /\ meta'.range = meta.range
  BY <1>2, <1>4, SetRealmDoes DEF RealmInv
<1>5. ASSUME NEW p \in Process, SetSid(p)
      PROVE  meta.sid = NoPin /\ meta'.realm = meta.realm /\ meta'.signing = meta.signing /\ meta'.range = meta.range
  BY <1>2, <1>5, SetSidDoes DEF SidInv
<1>6. ASSUME NEW p \in Process, SetSigning(p)
      PROVE  meta.signing = NoPin /\ meta'.realm = meta.realm /\ meta'.sid = meta.sid /\ meta'.range = meta.range
  BY <1>2, <1>6, SetSigningDoes DEF SigningInv
<1>7. ASSUME NEW p \in Process, SetRange(p)
      PROVE  /\ NoPin \in {meta.range[k] : k \in 1..RangeKeys}
             /\ meta'.realm = meta.realm /\ meta'.sid = meta.sid /\ meta'.signing = meta.signing
  <2>1. procs[p].pc = "set range" /\ procs[p].at \in 1..RangeKeys BY <1>7 DEF SetRange, SetRangeInBounds
  <2>2. meta.range[RangeKeys] = NoPin BY <1>2, <2>1, ZenonT(40) DEF RangeInv, RangeAt
  <2> QED BY <1>7, <2>1, <2>2, SetRangeDoes, SomeRows
<1>8. \/ meta' = meta
      \/ \E p \in Process : SetRealm(p) \/ SetSid(p) \/ SetSigning(p) \/ SetRange(p)
  BY Zenon DEF StartupNext, Boot, LoadKey, CreateKey, WriteKey, LockSchema, Migrate, Migrated, ReadRealm, ReadKrbtgt,
         MakeKrbtgt, ReadSid, ReadRange, ReadSigning, Die
<1> QED BY <1>3, <1>4, <1>5, <1>6, <1>7, <1>8

-----------------------------------------------------------------------------

\* The inductive invariant.
StartInv == Typed /\ KeyInv /\ SchemaInv /\ SetRangeInBounds /\ PinInv

\* Every start, crash and restart keeps it (cmd/ldap-kdc/main.go: run).
THEOREM StartInvHolds == StartupSpec => []StartInv
<1>1. StartupInit => StartInv
  BY TypedInit, KeyInvInit, SchemaInvInit, BoundsInit, PinInvInit DEF StartInv
<1>2. StartInv /\ [StartupNext]_stvars => StartInv'
  BY TypedStep, KeyInvStep, SchemaInvStep, BoundsStep, PinInvStep DEF StartInv
<1> QED BY <1>1, <1>2, PTL DEF StartupSpec

\* However many processes race to initialize a deployment, and wherever they
\* crash, none seals with a key that is not in the file
\* (LoadOrCreateMasterKey).
THEOREM MasterKeyIsOne == StartupSpec => []OneMasterKey
<1>1. StartInv => OneMasterKey BY KeyInvImplies DEF StartInv
<1> QED BY <1>1, StartInvHolds, PTL

\* No migration is applied twice, and nobody gets past the schema without all
\* of it (migrate).
THEOREM SchemaIsWhole == StartupSpec => []MigratedWhole
<1>1. StartInv => MigratedWhole BY SchemaInvImplies DEF StartInv
<1> QED BY <1>1, StartInvHolds, PTL

\* Whoever serves, serves the facts the database is pinned to, as long as no
\* two processes pin at once (EnsureRealm, EnsureDomainSID, EnsureIDRange,
\* LoadOrCreate).
THEOREM PinnedIsServed == StartupSpec => []ServesPinned
<1>1. StartInv => ServesPinned BY PinInvImplies DEF StartInv
<1> QED BY <1>1, StartInvHolds, PTL

\* A pinned fact never changes (EnsureRealm and the others).
THEOREM PinnedStays == StartupSpec => PinsStay
<1>1. StartInv /\ [StartupNext]_stvars => [PinStays]_stvars BY PinStaysStep DEF StartInv
<1> QED BY <1>1, StartInvHolds, PTL DEF StartupSpec, PinsStay, PinStays
==============================================================================
