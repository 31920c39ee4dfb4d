-------------------------- MODULE SecurityIdsProofs --------------------------
(***************************************************************************)
(* Proofs about SecurityIds, for every range that IDRange.Validate accepts *)
(* and any numbers of users and groups.                                    *)
(***************************************************************************)
EXTENDS SecurityIds, TLAPS

\* What every allocation table in this module satisfies: only rows that exist
\* own a RID, the RID is one of the two the row's number maps to, and no two
\* rows own the same one.
WellAllocated(r) ==
  /\ \A o \in Object \ live : r[o] = NoRid
  /\ \A o \in live : r[o] # NoRid =>
       Contains(posix[o]) /\ r[o] \in {Primary(posix[o]), Secondary(posix[o])}
  /\ \A o, x \in live : (o # x /\ r[o] # NoRid) => r[o] # r[x]

NumbersDiffer == \A o \in live : NumberFree(o, posix[o])

RidInv ==
  /\ NumbersDiffer
  /\ WellAllocated(rid)
  /\ serving => \A o \in live : Contains(posix[o]) => rid[o] # NoRid

\* The two intervals are disjoint and each maps numbers one to one.
LEMMA Intervals ==
  ASSUME NEW i \in Int, NEW j \in Int, Contains(i), Contains(j)
  PROVE  /\ Primary(i) # Secondary(j)
         /\ Primary(i) = Primary(j) => i = j
         /\ Secondary(i) = Secondary(j) => i = j
         /\ Primary(i) \in RidSpace /\ Primary(i) >= WellKnownCeiling
         /\ Secondary(i) \in RidSpace /\ Secondary(i) >= WellKnownCeiling
         /\ Primary(i) # NoRid /\ Secondary(i) # NoRid
BY RangeAssumption DEF Contains, Primary, Secondary, WellKnownCeiling, RidSpace, NoRid

\* A number that is free in its own table finds one of its two RIDs free: two
\* owners of them would be a user and a group with this number.
LEMMA OneOfTwoFree ==
  ASSUME RidsTypeOK, NumbersDiffer, NEW r \in [Object -> RidSpace], WellAllocated(r),
         NEW o \in Object, NEW id \in PosixId, NumberFree(o, id), Contains(id)
  PROVE  ~Taken(r, Primary(id), o) \/ ~Taken(r, Secondary(id), o)
<1> SUFFICES ASSUME Taken(r, Primary(id), o), Taken(r, Secondary(id), o) PROVE FALSE
  OBVIOUS
<1>1. PICK y \in Object \ {o} : r[y] = Primary(id)
  BY DEF Taken
<1>2. PICK z \in Object \ {o} : r[z] = Secondary(id)
  BY DEF Taken
<1>3. id \in Int /\ \A x \in live : posix[x] \in Int
  BY RangeAssumption DEF RidsTypeOK
<1>4. Primary(id) # NoRid /\ Secondary(id) # NoRid
  BY <1>3, Intervals
<1>5. y \in live /\ z \in live
  BY <1>1, <1>2, <1>4 DEF WellAllocated
<1>6. posix[y] = id
  BY <1>1, <1>3, <1>4, <1>5, Intervals DEF WellAllocated
<1>7. posix[z] = id
  BY <1>2, <1>3, <1>4, <1>5, Intervals DEF WellAllocated
<1>8. y # z
  BY <1>1, <1>2, <1>3, Intervals
<1>9. ~(y \in User <=> z \in User)
  BY <1>5, <1>6, <1>7, <1>8 DEF NumbersDiffer, NumberFree
<1> QED BY <1>5, <1>6, <1>7, <1>9 DEF NumberFree

\* What allocateRID returns for such a number.
LEMMA AllocatedFits ==
  ASSUME RidsTypeOK, NumbersDiffer, NEW r \in [Object -> RidSpace], WellAllocated(r),
         NEW o \in Object, NEW id \in PosixId, NumberFree(o, id)
  PROVE  /\ Allocated(r, o, id) \in RidSpace
         /\ Contains(id) <=> Allocated(r, o, id) # NoRid
         /\ Contains(id) => /\ Allocated(r, o, id) \in {Primary(id), Secondary(id)}
                            /\ \A x \in Object \ {o} : r[x] # Allocated(r, o, id)
<1>1. CASE ~Contains(id)
  BY <1>1 DEF Allocated, RidSpace
<1>2. CASE Contains(id)
  <2>1. id \in Int
    BY RangeAssumption
  <2>2. /\ Primary(id) \in RidSpace \ {NoRid}
        /\ Secondary(id) \in RidSpace \ {NoRid}
    BY <1>2, <2>1, Intervals
  <2>3. ~Taken(r, Primary(id), o) \/ ~Taken(r, Secondary(id), o)
    BY <1>2, OneOfTwoFree
  <2> QED BY <1>2, <2>2, <2>3 DEF Allocated, Taken
<1> QED BY <1>1, <1>2

\* One pass of the backfill over the rows of one kind.
LEMMA BackfillFits ==
  ASSUME RidsTypeOK, NumbersDiffer, NEW r \in [Object -> RidSpace], WellAllocated(r),
         NEW K \in {User, Group}
  PROVE  /\ Backfilled(r, K) \in [Object -> RidSpace]
         /\ WellAllocated(Backfilled(r, K))
         /\ \A o \in live \cap K : Contains(posix[o]) => Backfilled(r, K)[o] # NoRid
         /\ \A o \in Object : r[o] # NoRid => Backfilled(r, K)[o] = r[o]
<1> DEFINE b == Backfilled(r, K)
           New(o) == o \in live \cap K /\ r[o] = NoRid
<1>1. \A o \in Object : b[o] = IF New(o) THEN Allocated(r, o, posix[o]) ELSE r[o]
  BY DEF Backfilled
<1>2. \A o \in live : o \in Object /\ posix[o] \in PosixId /\ NumberFree(o, posix[o])
  BY DEF RidsTypeOK, NumbersDiffer
<1>3. \A o \in live :
        /\ Allocated(r, o, posix[o]) \in RidSpace
        /\ Contains(posix[o]) <=> Allocated(r, o, posix[o]) # NoRid
        /\ Contains(posix[o]) =>
             /\ Allocated(r, o, posix[o]) \in {Primary(posix[o]), Secondary(posix[o])}
             /\ \A x \in Object \ {o} : r[x] # Allocated(r, o, posix[o])
  BY <1>2, AllocatedFits
<1>4. b \in [Object -> RidSpace]
  BY <1>3 DEF Backfilled
<1> HIDE DEF b
<1>5. \A o \in Object \ live : b[o] = NoRid
  BY <1>1 DEF WellAllocated
<1>6. \A o \in live : b[o] # NoRid =>
        Contains(posix[o]) /\ b[o] \in {Primary(posix[o]), Secondary(posix[o])}
  BY <1>1, <1>2, <1>3 DEF WellAllocated
<1>7. ASSUME NEW o \in live, NEW x \in live, o # x, b[o] # NoRid, b[o] = b[x]
      PROVE  FALSE
  <2>1. CASE ~New(o) /\ ~New(x)
    BY <1>1, <1>2, <1>7, <2>1 DEF WellAllocated
  <2>2. CASE New(o) /\ ~New(x)
    BY <1>1, <1>2, <1>3, <1>7, <2>2
  <2>3. CASE ~New(o) /\ New(x)
    BY <1>1, <1>2, <1>3, <1>7, <2>3
  <2>4. CASE New(o) /\ New(x)
    <3>1. posix[o] \in Int /\ posix[x] \in Int
      BY <1>2, RangeAssumption
    <3>2. Contains(posix[o]) /\ Contains(posix[x])
      BY <1>6, <1>7
    <3>3. posix[o] = posix[x]
      BY <1>6, <1>7, <3>1, <3>2, Intervals
    <3>4. o \in User <=> x \in User
      BY <2>4, RangeAssumption
    <3> QED BY <1>2, <1>7, <3>3, <3>4 DEF NumberFree
  <2> QED BY <2>1, <2>2, <2>3, <2>4
<1>8. WellAllocated(b)
  BY <1>5, <1>6, <1>7 DEF WellAllocated
<1>9. \A o \in live \cap K : Contains(posix[o]) => b[o] # NoRid
  BY <1>1, <1>2, <1>3
<1>10. \A o \in Object : r[o] # NoRid => b[o] = r[o]
  BY <1>1
<1> QED BY <1>4, <1>8, <1>9, <1>10 DEF b

\* One row created or renumbered.
LEMMA PlacedFits ==
  ASSUME RidsTypeOK, RidInv, NEW o \in Object, NEW id \in PosixId, NumberFree(o, id),
         live' = live \cup {o}, posix' = [posix EXCEPT ![o] = id],
         rid' = [rid EXCEPT ![o] = Allocated(rid, o, id)], serving' = serving
  PROVE  RidsTypeOK' /\ RidInv'
<1> DEFINE a == Allocated(rid, o, id)
<1>1. /\ a \in RidSpace
      /\ Contains(id) <=> a # NoRid
      /\ Contains(id) => /\ a \in {Primary(id), Secondary(id)}
                         /\ \A x \in Object \ {o} : rid[x] # a
  BY AllocatedFits DEF RidsTypeOK, RidInv
<1> HIDE DEF a
<1>2. RidsTypeOK'
  BY <1>1 DEF RidsTypeOK, a
<1>3. rid'[o] = a /\ posix'[o] = id /\ \A x \in Object \ {o} : rid'[x] = rid[x] /\ posix'[x] = posix[x]
  BY DEF RidsTypeOK, a
<1>4. live \subseteq Object
  BY DEF RidsTypeOK
<1>5. NumbersDiffer'
  BY <1>3, <1>4 DEF RidInv, NumbersDiffer, NumberFree
<1>6. WellAllocated(rid)'
  <2>1. \A x \in Object \ live' : rid'[x] = NoRid
    BY <1>3 DEF RidInv, WellAllocated
  <2>2. \A x \in live' : rid'[x] # NoRid =>
          Contains(posix'[x]) /\ rid'[x] \in {Primary(posix'[x]), Secondary(posix'[x])}
    BY <1>1, <1>3, <1>4 DEF RidInv, WellAllocated
  <2>3. \A x, y \in live' : (x # y /\ rid'[x] # NoRid) => rid'[x] # rid'[y]
    BY <1>1, <1>3, <1>4 DEF RidInv, WellAllocated
  <2> QED BY <2>1, <2>2, <2>3 DEF WellAllocated, Contains, Primary, Secondary
<1>7. serving' => \A x \in live' : Contains(posix'[x]) => rid'[x] # NoRid
  BY <1>1, <1>3, <1>4 DEF RidInv
<1> QED BY <1>2, <1>5, <1>6, <1>7 DEF RidInv, Contains

\* The inductive invariant behind the theorems below.
LEMMA RidInvInductive ==
  RidsSpec => [](RidsTypeOK /\ RidInv)
<1>1. RidsInit => RidsTypeOK /\ RidInv
  BY DEF RidsInit, RidsTypeOK, RidInv, NumbersDiffer, WellAllocated, RidSpace
<1>2. RidsTypeOK /\ RidInv /\ [RidsNext]_ridVars => RidsTypeOK' /\ RidInv'
  <2> SUFFICES ASSUME RidsTypeOK, RidInv, [RidsNext]_ridVars PROVE RidsTypeOK' /\ RidInv'
    OBVIOUS
  <2> USE DEF RidInv
  <2>1. CASE EnsureIDRange
    <3> DEFINE u == Backfilled(rid, User)
               g == Backfilled(u, Group)
    <3>1. /\ u \in [Object -> RidSpace] /\ WellAllocated(u)
          /\ \A o \in live \cap User : Contains(posix[o]) => u[o] # NoRid
      BY BackfillFits DEF RidsTypeOK
    <3> HIDE DEF u
    <3>2. /\ g \in [Object -> RidSpace] /\ WellAllocated(g)
          /\ \A o \in live \cap Group : Contains(posix[o]) => g[o] # NoRid
          /\ \A o \in Object : u[o] # NoRid => g[o] = u[o]
      BY <3>1, BackfillFits
    <3> HIDE DEF g
    <3>3. rid' = g /\ live' = live /\ posix' = posix /\ serving'
      BY <2>1 DEF EnsureIDRange, u, g
    <3>4. RidsTypeOK'
      BY <3>2, <3>3, <2>1 DEF RidsTypeOK, EnsureIDRange
    <3>5. \A o \in live : Contains(posix[o]) => g[o] # NoRid
      BY <3>1, <3>2 DEF RidsTypeOK, Object
    <3> QED BY <3>2, <3>3, <3>4, <3>5 DEF NumbersDiffer, NumberFree, WellAllocated,
                                         Contains, Primary, Secondary
  <2>2. CASE Restart
    BY <2>2 DEF Restart, RidsTypeOK, NumbersDiffer, NumberFree, WellAllocated, Contains, Primary, Secondary
  <2>3. ASSUME NEW o \in Object, NEW id \in PosixId, Create(o, id)
        PROVE  RidsTypeOK' /\ RidInv'
    BY <2>3, PlacedFits DEF Create
  <2>4. ASSUME NEW o \in Object, NEW id \in PosixId, Update(o, id)
        PROVE  RidsTypeOK' /\ RidInv'
    <3>1. live' = live \cup {o}
      BY <2>4 DEF Update
    <3> QED BY <2>4, <3>1, PlacedFits DEF Update
  <2>5. ASSUME NEW o \in Object, Delete(o)
        PROVE  RidsTypeOK' /\ RidInv'
    <3>1. RidsTypeOK'
      BY <2>5 DEF Delete, RidsTypeOK, RidSpace
    <3>2. \A x \in Object : rid'[x] = IF x = o THEN NoRid ELSE rid[x]
      BY <2>5 DEF Delete, RidsTypeOK
    <3>3. live' = live \ {o} /\ posix' = posix /\ serving' = serving /\ live \subseteq Object
      BY <2>5 DEF Delete, RidsTypeOK
    <3> QED BY <3>1, <3>2, <3>3 DEF NumbersDiffer, NumberFree, WellAllocated, Contains, Primary, Secondary
  <2>6. CASE UNCHANGED ridVars
    BY <2>6 DEF ridVars, RidsTypeOK, NumbersDiffer, NumberFree, WellAllocated, Contains, Primary, Secondary
  <2> QED BY <2>1, <2>2, <2>3, <2>4, <2>5, <2>6 DEF RidsNext
<1> QED BY <1>1, <1>2, PTL DEF RidsSpec

\* Every identifier ever allocated lies in one of the two intervals of the
\* range (idrange.go, allocateRID).
THEOREM RidTypeCorrect == RidsSpec => []RidsTypeOK
BY RidInvInductive, PTL

\* The identifier of every object follows its number, for any accepted range
\* (reallocateRID, backfillSecurityIdentifiers).
THEOREM RidFollows == RidsSpec => []RidFollowsNumber
<1>1. RidsTypeOK /\ RidInv => RidFollowsNumber
  BY DEF RidInv, WellAllocated, RidFollowsNumber, RidsTypeOK
<1> QED BY <1>1, RidInvInductive, PTL

\* No two objects ever share an identifier (the fallback of allocateRID).
THEOREM RidsDistinct == RidsSpec => []RidUnique
<1> SUFFICES ASSUME RidsTypeOK, RidInv PROVE RidUnique
  BY RidInvInductive, PTL
<1>1. \A o \in live : posix[o] \in Int
  BY RangeAssumption DEF RidsTypeOK
<1> QED BY <1>1, Intervals DEF RidInv, WellAllocated, RidUnique

\* allocateRID's "no free relative identifier" error is unreachable for every
\* accepted range and any number of users and groups: two RIDs are enough.
THEOREM TwoIntervalsSuffice == RidsSpec => []AllocationNeverRefused
<1>1. RidsTypeOK /\ RidInv => AllocationNeverRefused
  BY OneOfTwoFree DEF RidInv, RidsTypeOK, AllocationNeverRefused, CanAllocate
<1> QED BY <1>1, RidInvInductive, PTL
=============================================================================
