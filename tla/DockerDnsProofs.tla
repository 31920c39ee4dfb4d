--------------------------- MODULE DockerDnsProofs ---------------------------
(***************************************************************************)
(* The reconciliation implements its promise, for any containers, names,   *)
(* addresses and administrators, and any number of changes and failures.   *)
(***************************************************************************)
EXTENDS DockerDns, TLAPS

\* What the steps of a reconciliation keep from one another: a record about to
\* be created is one the list calls for, one about to be deleted is registered
\* and is not called for.
ReconcileInv ==
  /\ running \in World /\ listed \in World
  /\ have \subseteq Discovered
  /\ Discovered \subseteq [name : Name, type : {"A"}, value : Address, origin : Container]
  /\ pc = "create" => todo \subseteq Desired(listed) /\ cand \in Desired(listed) \cup {NoRow}
  /\ pc # "create" => cand = NoRow /\ have = {}
  /\ pc = "delete" => todo \subseteq Discovered \ Desired(listed)

\* A record the reconciler creates is stored as it is, and is a registration.
LEMMA DesiredStored ==
  ASSUME NEW w, NEW r \in Desired(w)
  PROVE  RowOf(r, r.origin) = r /\ r.origin # Admin
BY ZoneAssumption DEF Desired, RowOf

\* What an administrator does leaves every registration alone.
LEMMA AdministerKeeps ==
  ASSUME Administer
  PROVE  Discovered' = Discovered
<1>1. CASE \E d \in Requested : CreateDNSRecord(d)
  <2> PICK d \in Requested : rows' = rows \cup {RowOf(d, Admin)}
    BY <1>1 DEF CreateDNSRecord, InsertDNSRecord
  <2> QED BY DEF Discovered, RowOf
<1>2. CASE \E r \in rows : DeleteDNSRecord(r)
  BY <1>2 DEF DeleteDNSRecord, RemoveRows, Discovered
<1>3. CASE \E n \in Name : \E types \in {{k} : k \in Kind} \cup {Kind} : DeleteDNSRecordsAt(n, types)
  <2> PICK n, types : rows' = rows \ {r \in rows : r.name = n /\ r.type \in types /\ r.origin = Admin}
    BY <1>3 DEF DeleteDNSRecordsAt, RemoveRows
  <2> QED BY DEF Discovered
<1> QED BY <1>1, <1>2, <1>3 DEF Administer

\* The transaction that creates a registration adds that one and no other.
LEMMA CreateAdds ==
  ASSUME NEW r \in Desired(listed), InsertDNSRecord(r, r.origin)
  PROVE  Discovered' = Discovered \cup {r} /\ r \notin Discovered
<1>1. rows' = rows \cup {r} /\ r.origin # Admin
  BY DesiredStored DEF InsertDNSRecord
<1>2. r \notin rows
  BY DEF InsertDNSRecord, Duplicate
<1> QED BY <1>1, <1>2 DEF Discovered

\* The one that deletes a registration takes that one and no other.
LEMMA DeleteTakes ==
  ASSUME NEW r \in Discovered, RemoveRows({r} \cap rows)
  PROVE  Discovered' = Discovered \ {r}
BY DEF RemoveRows, Discovered

\* Desired depends on nothing but the list.
LEMMA DesiredSame ==
  ASSUME listed' = listed
  PROVE  Desired(listed)' = Desired(listed)
BY DEF Desired

\* ReconcileInv is inductive.
LEMMA ReconcileInvInit == DockerInit => ReconcileInv
BY DEF DockerInit, ZoneInit, ReconcileInv, World, Discovered

\* Every step of the watcher, the daemon and the administrators keeps the
\* invariant of a reconciliation.
LEMMA ReconcileInvStep ==
  ASSUME ReconcileInv, [DockerNext]_dvars
  PROVE  ReconcileInv'
<1> USE DEF ReconcileInv
<1>1. ASSUME NEW c \in Container, NEW n \in ContainerName \cup {NoName},
             running' = [running EXCEPT ![c] = n], UNCHANGED <<rows, loop>>
      PROVE  ReconcileInv'
  <2>1. running' \in World BY <1>1 DEF World
  <2>2. Desired(listed)' = Desired(listed) BY <1>1, DesiredSame DEF loop
  <2>3. Discovered' = Discovered BY <1>1 DEF Discovered
  <2> QED BY <1>1, <2>1, <2>2, <2>3 DEF loop
<1>2. ASSUME UNCHANGED <<rows, running, loop>>
      PROVE  ReconcileInv'
  BY <1>2, DesiredSame DEF loop, Discovered
<1>3. CASE Administrator
  BY <1>3, DesiredSame, AdministerKeeps DEF Administrator, loop
<1>4. CASE Restart
  BY <1>4 DEF Restart, Discovered
<1>5. CASE Begin
  BY <1>5 DEF Begin, outside, Discovered
<1>6. CASE List
  BY <1>6 DEF List, outside, Discovered
<1>7. CASE Read
  BY <1>7, DesiredSame DEF Read, outside, Discovered
<1>8. ASSUME NEW r \in todo, Check(r) PROVE ReconcileInv'
  BY <1>8, DesiredSame DEF Check, outside, Discovered
<1>9. CASE Create
  <2>1. Desired(listed)' = Desired(listed) BY <1>9, DesiredSame DEF Create
  <2>2. Discovered \subseteq Discovered' /\ Discovered' \subseteq Discovered \cup Desired(listed)
    BY <1>9, CreateAdds DEF Create, Discovered
  <2>3. Desired(listed) \subseteq [name : Name, type : {"A"}, value : Address, origin : Container]
    BY DEF Desired
  <2> QED BY <1>9, <2>1, <2>2, <2>3 DEF Create, outside
<1>10. CASE Created
  BY <1>10, DesiredSame DEF Created, outside, Discovered
<1>11. ASSUME NEW r \in todo, Delete(r) PROVE ReconcileInv'
  <2>1. Desired(listed)' = Desired(listed) BY <1>11, DesiredSame DEF Delete
  <2>2. Discovered' = Discovered \ {r} BY <1>11, DeleteTakes DEF Delete
  <2> QED BY <1>11, <2>1, <2>2 DEF Delete, outside
<1>12. CASE Deleted
  BY <1>12, DesiredSame DEF Deleted, outside, Discovered
<1>13. CASE StoreFails
  BY <1>13, DesiredSame DEF StoreFails, outside, Discovered
<1> QED
  BY <1>1, <1>2, <1>3, <1>4, <1>5, <1>6, <1>7, <1>8, <1>9, <1>10, <1>11, <1>12, <1>13
  DEF DockerNext, Reconcile, ContainerStops, ContainerNamed, DaemonFails, DaemonReturns,
      StreamBreaks, Watch, Tick, outside, dvars

\* ReconcileInv always holds (reconcile).
THEOREM ReconcileInvHolds == DockerSpec => []ReconcileInv
BY ReconcileInvInit, ReconcileInvStep, PTL DEF DockerSpec

\* The initial states map to initial states.
LEMMA RefinesInit == DockerInit => Abstract!RegistrationsInit
BY DEF DockerInit, ZoneInit, Abstract!RegistrationsInit, World, Discovered

\* Every step of the reconciler, the daemon or an administrator is a step of
\* the promise, or none.
LEMMA RefinesStep ==
  ASSUME ReconcileInv, [DockerNext]_dvars
  PROVE  [Abstract!RegistrationsNext]_Abstract!rvars
<1> USE DEF Abstract!RegistrationsNext, Abstract!rvars
<1>1. ASSUME UNCHANGED <<rows, running, listed>>
      PROVE  UNCHANGED Abstract!rvars
  BY <1>1 DEF Discovered
<1>2. ASSUME NEW c \in Container, NEW n \in ContainerName \cup {NoName},
             running' = [running EXCEPT ![c] = n], UNCHANGED <<rows, listed>>
      PROVE  Abstract!RegistrationsNext
  <2>1. running' \in World BY <1>2 DEF ReconcileInv, World
  <2> QED BY <1>2, <2>1 DEF Abstract!WorldMoves, Discovered
<1>3. CASE Administrator
  BY <1>3, AdministerKeeps DEF Administrator, loop
<1>4. CASE List
  BY <1>4, <1>1 DEF List, outside, Abstract!ListTaken, Discovered
<1>5. CASE Create
  <2>1. CASE Duplicate(cand) /\ UNCHANGED <<rows, serial>>
    BY <1>5, <2>1, <1>1 DEF Create, outside
  <2>2. CASE InsertDNSRecord(cand, cand.origin)
    <3>1. cand \in Desired(listed) BY <1>5 DEF Create, ReconcileInv
    <3>2. cand \in [name : Name, type : {"A"}, value : Address, origin : Container]
      BY <3>1 DEF Desired
    <3>3. Discovered' = Discovered \cup {cand} /\ cand \notin Discovered
      BY <2>2, <3>1, CreateAdds
    <3>4. Abstract!Registered(cand)
      BY <1>5, <3>1, <3>3 DEF Create, outside, Abstract!Registered
    <3> QED BY <3>2, <3>4
  <2> QED BY <1>5, <2>1, <2>2 DEF Create
<1>6. ASSUME NEW r \in todo, Delete(r) PROVE Abstract!RegistrationsNext
  <2>1. r \in Discovered \ Desired(listed) BY <1>6 DEF Delete, ReconcileInv
  <2>2. Discovered' = Discovered \ {r} BY <1>6, <2>1, DeleteTakes DEF Delete
  <2>3. Abstract!Unregistered(r)
    BY <1>6, <2>1, <2>2 DEF Delete, outside, Abstract!Unregistered
  <2>4. r \in [name : Name, type : {"A"}, value : Address, origin : Container]
    BY <2>1 DEF ReconcileInv
  <2> QED BY <2>3, <2>4
<1> QED
  BY <1>1, <1>2, <1>3, <1>4, <1>5, <1>6
  DEF DockerNext, Reconcile, ContainerStops, ContainerNamed, DaemonFails, DaemonReturns, StreamBreaks,
      Watch, Restart, StoreFails, Tick, Begin, Read, Check, Created, Deleted, outside, loop, dvars

\* The detailed specification implements the abstract one, for every value of
\* the constants: whatever fails or moves between the reconciler's steps, a
\* registration appears only when the daemon's last list calls for it and goes
\* only when it does not (reconcile, DeleteDNSRecord).
THEOREM Refinement == DockerSpec => RegistrationsFollowList
<1>1. DockerInit => Abstract!RegistrationsInit BY RefinesInit
<1>2. ReconcileInv /\ [DockerNext]_dvars => [Abstract!RegistrationsNext]_Abstract!rvars BY RefinesStep
<1> QED
  BY <1>1, <1>2, ReconcileInvHolds, PTL
  DEF DockerSpec, RegistrationsFollowList, Abstract!RegistrationsSpec

-----------------------------------------------------------------------------
\* The zone's answers and its serial.

\* A number below the modulus is its own remainder.
LEMMA SmallMod ==
  ASSUME NEW n \in Nat, NEW m \in Nat \ {0}, n < m
  PROVE  n % m = n
OBVIOUS

\* A change of the rows moves the serial, up and past 1, and nothing else does.
LEMMA SerialStep ==
  ASSUME serial \in Nat, [DockerNext]_dvars
  PROVE  \/ UNCHANGED <<rows, serial>>
         \/ rows' # rows /\ serial' \in Nat /\ serial' > serial /\ serial' > 1
<1> DEFINE Moves == rows' # rows /\ serial' \in Nat /\ serial' > serial /\ serial' > 1
<1> SUFFICES UNCHANGED <<rows, serial>> \/ Moves
  OBVIOUS
<1>1. ASSUME NEW t \in Clock, serial' = Bumped(serial, t)
      PROVE  serial' \in Nat /\ serial' > serial /\ serial' > 1
  BY <1>1, ZoneAssumption DEF Bumped
<1>2. ASSUME NEW d, NEW o, InsertDNSRecord(d, o) PROVE Moves
  <2>1. RowOf(d, o) \notin rows BY <1>2 DEF InsertDNSRecord, Duplicate, RowOf
  <2> QED BY <1>1, <1>2, <2>1 DEF InsertDNSRecord
<1>3. ASSUME NEW gone, gone \subseteq rows, RemoveRows(gone) PROVE Moves
  <2>1. PICK r \in gone : r \in rows BY <1>3 DEF RemoveRows
  <2> QED BY <1>1, <1>3, <2>1 DEF RemoveRows
<1>4. CASE Administrator
  <2>1. ASSUME NEW d \in Requested, CreateDNSRecord(d) PROVE Moves
    BY <2>1, <1>2 DEF CreateDNSRecord
  <2>2. ASSUME NEW r \in rows, DeleteDNSRecord(r) PROVE Moves
    BY <2>2, <1>3 DEF DeleteDNSRecord
  <2>3. ASSUME NEW n, NEW types, DeleteDNSRecordsAt(n, types) PROVE Moves
    BY <2>3, <1>3 DEF DeleteDNSRecordsAt
  <2> QED BY <1>4, <2>1, <2>2, <2>3 DEF Administrator, Administer
<1>5. CASE Create
  BY <1>5, <1>2 DEF Create
<1>6. ASSUME NEW r \in todo, Delete(r) PROVE Moves
  BY <1>6, <1>3 DEF Delete
<1> HIDE DEF Moves
<1> QED
  BY <1>4, <1>5, <1>6
  DEF DockerNext, Reconcile, ContainerStops, ContainerNamed, DaemonFails, DaemonReturns, StreamBreaks,
      Watch, Restart, StoreFails, Tick, Begin, List, Read, Check, Created, Deleted, dvars

\* The zone's serial stays a natural number.
LEMMA SerialNat == DockerSpec => [](serial \in Nat)
<1>1. DockerInit => serial \in Nat BY DEF DockerInit, ZoneInit
<1>2. serial \in Nat /\ [DockerNext]_dvars => (serial \in Nat)' BY SerialStep
<1> QED BY <1>1, <1>2, PTL DEF DockerSpec

\* The published serial moves exactly with the contents of the zone, for every
\* clock and as long as it fits its width (bumpZoneSerial, serial).
THEOREM SerialMoves == DockerSpec => SerialMovesWithZone
<1> DEFINE Moves == serial' < SerialModulus =>
                      /\ rows' # rows <=> PublishedSerial' # PublishedSerial
                      /\ PublishedSerial' >= PublishedSerial
<1>1. serial \in Nat /\ [DockerNext]_dvars => [Moves]_<<rows, serial>>
  <2> SUFFICES ASSUME serial \in Nat, [DockerNext]_dvars, serial' < SerialModulus,
                      ~ UNCHANGED <<rows, serial>>
               PROVE  Moves
    OBVIOUS
  <2>1. rows' # rows /\ serial' \in Nat /\ serial' > serial /\ serial' > 1 BY SerialStep
  <2>2. SerialModulus \in Nat \ {0} /\ serial \in Nat /\ serial < SerialModulus
        /\ serial' \in Nat /\ serial' < SerialModulus
    BY <2>1, ZoneAssumption
  <2>3. serial % SerialModulus = serial
    BY <2>2, SmallMod, Zenon
  <2>4. serial' % SerialModulus = serial'
    BY <2>2, SmallMod, Zenon
  <2> QED BY <2>1, <2>3, <2>4 DEF PublishedSerial
<1> QED BY <1>1, SerialNat, PTL DEF DockerSpec, SerialMovesWithZone

\* Whatever rows the zone holds, every service name answers with an SRV record
\* (generated, records, matching).
THEOREM DiscoveryAlwaysAnswered == DockerSpec => []DiscoveryAnswered
<1>1. DiscoveryAnswered
  <2> SUFFICES ASSUME NEW n \in Services
               PROVE  \E rr \in Records(n) : rr.type = "SRV"
    BY DEF DiscoveryAnswered, AnswerForward, Matching
  <2>1. RR("SRV", Hostname) \in Generated(n) /\ RR("SRV", Hostname).type = "SRV"
    BY DEF Generated, RR
  <2> QED BY <2>1 DEF Records
<1> QED BY <1>1, PTL
==============================================================================
