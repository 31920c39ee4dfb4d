-------------------------------- MODULE Zone --------------------------------
(***************************************************************************)
(* The realm's zone: the dns_records table and its serial                  *)
(* (internal/store/dns.go), the requests an administrator makes of it      *)
(* (internal/api/dns.go), and what the server answers from it              *)
(* (internal/dnssrv).                                                      *)
(*                                                                         *)
(* Names and addresses are model values.  A record's data is its value; of *)
(* the types only the address type, CNAME and the types the server         *)
(* generates matter.                                                       *)
(***************************************************************************)
EXTENDS Integers, FiniteSets

CONSTANTS
  Name,           \* owner names
  Address,
  Target,         \* the values of records that hold no address
  Container,      \* origins: the containers a registration may come from
  Admin,          \* the empty origin
  Requested,      \* the records administrators ask for: [name, type, value]
  Parses,         \* external: the records dns.NewRR accepts
  Forward,        \* names inside Zone, RealmZone or ExtraZones
  Reverse,        \* names inside a reverse zone
  Apexes,         \* the apexes of the forward zones
  Hostname,       \* this server's name ...
  OwnAddresses,   \* ... and its configured addresses
  RealmText,      \* the owners of the _kerberos TXT record
  Services,       \* the owners of SRV records whose service has a port
  Clock,          \* what the clock may show at a write
  SerialModulus,  \* external: 2^32, the width of an SOA serial
  MaxSerial       \* bound: administrators write no further

ASSUME ZoneAssumption ==
  /\ Hostname \in Name
  /\ Forward \subseteq Name /\ Reverse \subseteq Name
  /\ OwnAddresses \subseteq Address
  /\ Admin \notin Container
  /\ Clock \subseteq Nat \ {0, 1}
  /\ SerialModulus \in Nat \ {0}
  /\ MaxSerial \in Nat

VARIABLES
  rows,           \* dns_records: [name, type, value, origin]
  serial          \* zone_serial

zvars == <<rows, serial>>

Kind == {"A", "CNAME", "SRV", "TXT"}

Data == [name : Name, type : Kind, value : Address \cup Target]

Row == [name : Name, type : Kind, value : Address \cup Target,
        origin : Container \cup {Admin}]

RowOf(d, o) == [name |-> d.name, type |-> d.type, value |-> d.value, origin |-> o]

\* The unique index of dns_records.
Duplicate(d) == \E r \in rows : r.name = d.name /\ r.type = d.type /\ r.value = d.value

\* Faulty variant: the serial is the time of the change, whatever it was.
BumpedToNow(s, t) == t

\* bumpZoneSerial: one more, or the time when that is later.
Bumped(s, t) == IF s + 1 > t THEN s + 1 ELSE t

\* insertDNSRecord: the row and the serial in one transaction.
InsertDNSRecord(d, o) ==
  /\ ~ Duplicate(d)
  /\ rows' = rows \cup {RowOf(d, o)}
  /\ \E t \in Clock : serial' = Bumped(serial, t)

\* deleteDNSRecordTx, of the row or rows a statement removes.
RemoveRows(gone) ==
  /\ gone # {}
  /\ rows' = rows \ gone
  /\ \E t \in Clock : serial' = Bumped(serial, t)

-----------------------------------------------------------------------------
\* The administrator's requests.  A refused one changes nothing.

InZone(n) == n \in Forward \cup Reverse

\* handleCreateDNSRecord, CreateDNSRecord: the origin is always empty.
CreateDNSRecord(d) ==
  /\ d \in Parses
  /\ InZone(d.name)
  /\ serial < MaxSerial
  /\ InsertDNSRecord(d, Admin)

\* Faulty variant: a registration can be deleted by its number too.
DeleteAnyDNSRecord(r) ==
  /\ r \in rows
  /\ serial < MaxSerial
  /\ RemoveRows({r})

\* handleDeleteDNSRecord, DeleteDNSRecord: a registration is refused.
DeleteDNSRecord(r) ==
  /\ r \in rows
  /\ r.origin = Admin
  /\ serial < MaxSerial
  /\ RemoveRows({r})

\* DeleteDNSRecordsAt: every administrator's row at a name, of one type or of any.
DeleteDNSRecordsAt(n, types) ==
  /\ serial < MaxSerial
  /\ RemoveRows({r \in rows : r.name = n /\ r.type \in types /\ r.origin = Admin})

Administer ==
  \/ \E d \in Requested : CreateDNSRecord(d)
  \/ \E r \in rows : DeleteDNSRecord(r)
  \/ \E n \in Name : \E types \in {{k} : k \in Kind} \cup {Kind} : DeleteDNSRecordsAt(n, types)

ZoneInit == rows = {} /\ serial = 0

-----------------------------------------------------------------------------
\* What the server answers.

RR(k, v) == [type |-> k, value |-> v]

\* generated: an apex, the server's own name, the realm's text; and the services.
Generated(n) ==
  (IF n \in Apexes THEN {RR("SOA", Hostname), RR("NS", Hostname)}
   ELSE IF n = Hostname THEN {RR("A", a) : a \in OwnAddresses}
   ELSE IF n \in RealmText THEN {RR("TXT", "realm")}
   ELSE {})
  \cup IF n \in Services THEN {RR("SRV", Hostname)} ELSE {}

\* stored, from LookupDNSRecords.
Stored(n) == {RR(r.type, r.value) : r \in {x \in rows : x.name = n}}

\* records: a stored type hides what is generated of that type.
Records(n) ==
  Stored(n) \cup {g \in Generated(n) : \A s \in Stored(n) : s.type # g.type}

\* matching: the type asked for, any type, or an alias in its place.
Matching(rrs, k) == {rr \in rrs : k = "ANY" \/ rr.type = k \/ rr.type = "CNAME"}

\* ZoneSerial, and serial in the server: 32 bits, and 1 for a zone never written to.
PublishedSerial ==
  IF serial % SerialModulus = 0 THEN 1 ELSE serial % SerialModulus

\* answerForward.
AnswerForward(n, k) ==
  [rcode |-> IF Records(n) = {} THEN "NXDOMAIN" ELSE "NOERROR",
   answer |-> Matching(Records(n), k)]

\* Faulty variant: only administrators' records are reversed.
AddressNamesAdministered(a) ==
  {r.name : r \in {x \in rows : x.type = "A" /\ x.value = a /\ x.origin = Admin}}

\* LookupDNSAddressNames.
AddressNames(a) == {r.name : r \in {x \in rows : x.type = "A" /\ x.value = a}}

\* reverseNames: this server's own addresses, then every name that holds it.
ReverseNames(a) ==
  (IF a \in OwnAddresses THEN {Hostname} ELSE {}) \cup AddressNames(a)

-----------------------------------------------------------------------------

\* Type invariant; the last conjunct is the table's unique index.
ZoneTypeOK ==
  /\ rows \subseteq Row
  /\ serial \in Nat
  /\ \A r, s \in rows :
       r.name = s.name /\ r.type = s.type /\ r.value = s.value => r = s

\* A secondary that compares serials sees the zone move exactly when its
\* contents do, removals included and however the clock jumps: the serial the
\* server publishes grows with every change of the rows and with nothing
\* else, until it outgrows 32 bits (bumpZoneSerial, ZoneSerial, serial).
SerialMovesWithZone ==
  [][ serial' < SerialModulus =>
        /\ rows' # rows <=> PublishedSerial' # PublishedSerial
        /\ PublishedSerial' >= PublishedSerial ]_<<rows, serial>>

\* Whatever administrators and containers store, in whatever order, the
\* realm's own discovery stays complete: every service name answers an SRV
\* query with an SRV record (generated, records).
DiscoveryAnswered ==
  \A n \in Services : \E rr \in AnswerForward(n, "SRV").answer : rr.type = "SRV"

\* For every name but the server's own, forward and reverse agree: an
\* address reverses to the name exactly when the name answers with the
\* address, whoever made the record (reverseNames, answerForward).
ReverseAgrees ==
  \A n \in Name \ {Hostname} : \A a \in Address :
    n \in ReverseNames(a) <=> RR("A", a) \in AnswerForward(n, "A").answer
=============================================================================
