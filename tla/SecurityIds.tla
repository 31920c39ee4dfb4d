----------------------------- MODULE SecurityIds -----------------------------
(***************************************************************************)
(* Allocation of Windows relative identifiers to users and groups          *)
(* (internal/store/idrange.go) by the transactions that create, renumber   *)
(* and delete them (users.go, groups.go).                                  *)
(*                                                                         *)
(* The range is pinned in the database by the first EnsureIDRange and a    *)
(* start with another one is refused, so it is a constant here.  A         *)
(* database may hold objects from before identifiers were allocated; the   *)
(* start of the service backfills them before anything is served.          *)
(***************************************************************************)
EXTENDS Integers

CONSTANTS
  User, Group,                        \* row ids
  PosixId,                            \* uid and gid numbers
  BaseID, Size, BaseRID, SecondaryBaseRID

Object == User \cup Group

\* IDRange.Validate; the ends of the 32 bit spaces are out of a run's reach.
WellKnownCeiling == 1000

ASSUME RangeAssumption ==
  /\ User \cap Group = {}
  /\ PosixId \subseteq Int
  /\ BaseID \in Nat \ {0} /\ Size \in Nat \ {0}
  /\ BaseRID \in Nat /\ BaseRID >= WellKnownCeiling
  /\ SecondaryBaseRID \in Nat /\ SecondaryBaseRID >= WellKnownCeiling
  /\ \/ BaseRID + Size <= SecondaryBaseRID
     \/ SecondaryBaseRID + Size <= BaseRID

VARIABLES
  live,    \* rows that exist
  posix,   \* uid_number or gid_number of each row
  rid,     \* security_identifiers, by owner
  serving  \* EnsureIDRange has run in this process

ridVars == <<live, posix, rid, serving>>

NoRid == 0

Contains(id) == id >= BaseID /\ id < BaseID + Size

Primary(id) == BaseRID + (id - BaseID)

Secondary(id) == SecondaryBaseRID + (id - BaseID)

\* The unique index of the object's own table.
NumberFree(o, id) ==
  \A x \in live \ {o} :
    (x \in User <=> o \in User) => posix[x] # id

\* In allocations r, RID x belongs to an object other than o (reallocateRID
\* releases o's own first).
Taken(r, x, o) == \E y \in Object \ {o} : r[y] = x

CanAllocate(o, id) ==
  ~Contains(id) \/ ~Taken(rid, Primary(id), o) \/ ~Taken(rid, Secondary(id), o)

\* Faulty variant: the secondary interval is not tried.
AllocatedPrimaryOnly(r, o, id) == IF Contains(id) THEN Primary(id) ELSE NoRid

\* allocateRID: none outside the range, the primary RID if it is free, else
\* the secondary one.
Allocated(r, o, id) ==
  IF ~Contains(id) THEN NoRid
  ELSE IF ~Taken(r, Primary(id), o) THEN Primary(id)
  ELSE IF ~Taken(r, Secondary(id), o) THEN Secondary(id)
  ELSE NoRid

\* A database from before identifiers, or a fresh one.
RidsInit ==
  /\ live \in SUBSET Object
  /\ posix \in [Object -> PosixId]
  /\ \A o \in live : NumberFree(o, posix[o])
  /\ rid = [o \in Object |-> NoRid]
  /\ serving = FALSE

\* backfillSecurityIdentifiers: users without an identifier, then groups, in
\* one transaction; an object that gets none is logged and skipped.  Within a
\* kind the numbers differ, so the order of the rows does not matter.
Backfilled(r, K) ==
  [o \in Object |-> IF o \in live \cap K /\ r[o] = NoRid
                    THEN Allocated(r, o, posix[o]) ELSE r[o]]

EnsureIDRange ==
  /\ ~serving
  /\ serving' = TRUE
  /\ rid' = Backfilled(Backfilled(rid, User), Group)
  /\ UNCHANGED <<live, posix>>

Create(o, id) ==
  /\ serving /\ o \notin live
  /\ id > 0 /\ NumberFree(o, id)
  /\ CanAllocate(o, id)
  /\ live' = live \cup {o}
  /\ posix' = [posix EXCEPT ![o] = id]
  /\ rid' = [rid EXCEPT ![o] = Allocated(rid, o, id)]
  /\ UNCHANGED serving

\* UpdateUser and UpdateGroup; an update that keeps the number leaves the
\* identifier alone.
Update(o, id) ==
  /\ serving /\ o \in live
  /\ id # posix[o] /\ NumberFree(o, id)
  /\ CanAllocate(o, id)
  /\ posix' = [posix EXCEPT ![o] = id]
  /\ rid' = [rid EXCEPT ![o] = Allocated(rid, o, id)]
  /\ UNCHANGED <<live, serving>>

\* Faulty variant: the identifier is not released with its owner's row.
DeleteKeepsRid(o) ==
  /\ serving /\ o \in live
  /\ live' = live \ {o}
  /\ UNCHANGED <<posix, rid, serving>>

Delete(o) ==
  /\ serving /\ o \in live
  /\ live' = live \ {o}
  /\ rid' = [rid EXCEPT ![o] = NoRid]
  /\ UNCHANGED <<posix, serving>>

Restart ==
  /\ serving
  /\ serving' = FALSE
  /\ UNCHANGED <<live, posix, rid>>

RidsNext ==
  \/ EnsureIDRange
  \/ Restart
  \/ \E o \in Object :
       \/ \E id \in PosixId : Create(o, id) \/ Update(o, id)
       \/ Delete(o)

RidsSpec == RidsInit /\ [][RidsNext]_ridVars

-----------------------------------------------------------------------------

\* The two intervals the realm's identifiers come from.
RidSpace ==
  {NoRid} \cup BaseRID..(BaseRID + Size - 1)
          \cup SecondaryBaseRID..(SecondaryBaseRID + Size - 1)

\* Type invariant: no identifier lies outside the two intervals the pinned
\* range reserves (idrange.go, Contains and rids).
RidsTypeOK ==
  /\ live \in SUBSET Object
  /\ posix \in [Object -> PosixId]
  /\ rid \in [Object -> RidSpace]
  /\ serving \in BOOLEAN

\* The identifier a member server sees follows the number: while serving,
\* every object in the range has an identifier, it is one of the two its
\* present number maps to, and objects outside the range have none.
RidFollowsNumber ==
  serving =>
    \A o \in live :
      IF Contains(posix[o])
      THEN rid[o] \in {Primary(posix[o]), Secondary(posix[o])}
      ELSE rid[o] = NoRid

\* No two objects share an identifier, and none has a well-known one.
RidUnique ==
  \A o \in live : rid[o] # NoRid =>
    /\ rid[o] >= WellKnownCeiling
    /\ \A x \in live \ {o} : rid[x] # rid[o]

\* "No free relative identifier" never happens: a number that is free in its
\* own table always finds its primary or its secondary RID free, whatever was
\* created, renumbered and deleted before.
AllocationNeverRefused ==
  \A o \in Object, id \in PosixId : NumberFree(o, id) => CanAllocate(o, id)
=============================================================================
