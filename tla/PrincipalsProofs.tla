-------------------------- MODULE PrincipalsProofs --------------------------
(***************************************************************************)
(* Proofs about Principals, for any sets of ids, names and passwords.      *)
(***************************************************************************)
EXTENDS Principals, TLAPS

\* Rolling the keys of one principal yields key versions of the right shape.
LEMMA RolledType ==
  ASSUME TypeOK, NEW p \in Pid,
         NEW secret \in Password \cup {Random}, NEW salt \in Name \cup {NoName}
  PROVE  Rolled(p, secret, salt) \in SUBSET KeyVersion
<1>1. principals[p].kvno \in Nat
  BY DEF TypeOK, PrincipalRow
<1>2. [kvno |-> principals[p].kvno + 1, secret |-> secret, salt |-> salt] \in KeyVersion
  BY <1>1 DEF KeyVersion
<1>3. keys[p] \in SUBSET KeyVersion
  BY DEF TypeOK
<1> QED BY <1>2, <1>3 DEF Rolled

\* RollKeys keeps the types of the rows and the keys it writes.
LEMMA RollKeysType ==
  ASSUME TypeOK, NEW P \in SUBSET Pid,
         NEW secret \in Password \cup {Random},
         NEW salt \in [P -> Name \cup {NoName}],
         RollKeys(P, secret, salt)
  PROVE  /\ principals' \in [Pid -> PrincipalRow]
         /\ keys' \in [Pid -> SUBSET KeyVersion]
<1>1. ASSUME NEW p \in P PROVE Rolled(p, secret, salt[p]) \in SUBSET KeyVersion
  BY <1>1, RolledType
<1>2. ASSUME NEW p \in Pid
      PROVE  [principals[p] EXCEPT !.kvno = @ + 1] \in PrincipalRow
  <2>1. principals[p] \in PrincipalRow
    BY DEF TypeOK
  <2> QED BY <2>1 DEF PrincipalRow
<1>3. \A p \in Pid : keys[p] \in SUBSET KeyVersion /\ principals[p] \in PrincipalRow
  BY DEF TypeOK
<1> QED BY <1>1, <1>2, <1>3 DEF RollKeys

\* Every transaction keeps the tables well typed.
THEOREM TypeCorrect == Spec => []TypeOK
<1>1. Init => TypeOK
  BY DEF Init, TypeOK, UserRow, PrincipalRow, NoUserRow, NoPrincipalRow, RowState
<1>2. TypeOK /\ [Next]_vars => TypeOK'
  <2> SUFFICES ASSUME TypeOK, [Next]_vars PROVE TypeOK'
    OBVIOUS
  <2>1. ASSUME NEW u \in Uid, NEW n \in UserName, NEW d \in BOOLEAN,
               CreateUser(u, n, d)
        PROVE  TypeOK'
    BY <2>1 DEF CreateUser, TypeOK, UserRow, RowState
  <2>2. ASSUME NEW u \in Uid, NEW d \in BOOLEAN, UpdateUser(u, d)
        PROVE  TypeOK'
    <3>1. users[u].name \in Name \cup {NoName}
      BY <2>2, NameAssumption DEF UpdateUser, LiveUsers, TypeOK, UserRow
    <3>2. users' \in [Uid -> UserRow]
      BY <2>2 DEF UpdateUser, TypeOK, UserRow
    <3>3. principals' \in [Pid -> PrincipalRow]
      BY <2>2, <3>1 DEF UpdateUser, TypeOK, PrincipalRow
    <3> QED BY <2>2, <3>2, <3>3 DEF UpdateUser, TypeOK
  <2>3. ASSUME NEW u \in Uid, DeleteUser(u) PROVE TypeOK'
    BY <2>3 DEF DeleteUser, TypeOK, UserRow, PrincipalRow, NoUserRow,
                NoPrincipalRow, RowState
  <2>4. ASSUME NEW u \in Uid, NEW pw \in Password, SetUserPassword(u, pw)
        PROVE  TypeOK'
    <3> DEFINE ownName == [p \in PrincipalsOf(u) |-> principals[p].name]
    <3>1. ownName \in [PrincipalsOf(u) -> Name \cup {NoName}]
      BY DEF PrincipalsOf, LivePrincipals, TypeOK, PrincipalRow
    <3>2. RollKeys(PrincipalsOf(u), pw, ownName)
      BY <2>4 DEF SetUserPassword
    <3>3. PrincipalsOf(u) \in SUBSET Pid
      BY DEF PrincipalsOf, LivePrincipals
    <3> HIDE DEF ownName
    <3>4. principals' \in [Pid -> PrincipalRow] /\ keys' \in [Pid -> SUBSET KeyVersion]
      BY <3>1, <3>2, <3>3, RollKeysType
    <3>5. users' \in [Uid -> UserRow]
      BY <2>4 DEF SetUserPassword, TypeOK, UserRow
    <3> QED BY <2>4, <3>4, <3>5 DEF SetUserPassword, TypeOK
  <2>5. ASSUME NEW p \in Pid, NEW n \in Name, NEW u \in Uid \cup {NoUser},
               NEW as \in SUBSET Name, NEW secret \in Password \cup {Random},
               NEW e \in BOOLEAN, CreatePrincipal(p, n, u, as, secret, e)
        PROVE  TypeOK'
    <3>1. principals' \in [Pid -> PrincipalRow]
      BY <2>5 DEF CreatePrincipal, TypeOK, PrincipalRow, RowState
    <3>2. [kvno |-> 1, secret |-> secret,
           salt |-> IF secret = Random THEN NoName ELSE n] \in KeyVersion
      BY DEF KeyVersion
    <3>3. keys' \in [Pid -> SUBSET KeyVersion]
      BY <2>5, <3>2 DEF CreatePrincipal, TypeOK
    <3> QED BY <2>5, <3>1, <3>3 DEF CreatePrincipal, TypeOK
  <2>6. ASSUME NEW p \in Pid, NEW u \in Uid \cup {NoUser},
               NEW as \in SUBSET Name, NEW e \in BOOLEAN,
               UpdatePrincipal(p, u, as, e)
        PROVE  TypeOK'
    BY <2>6 DEF UpdatePrincipal, TypeOK, PrincipalRow
  <2>7. ASSUME NEW p \in Pid, DeletePrincipal(p) PROVE TypeOK'
    BY <2>7 DEF DeletePrincipal, TypeOK, PrincipalRow, NoPrincipalRow, RowState
  <2>8. ASSUME NEW p \in Pid, RandomizePrincipalKeys(p) PROVE TypeOK'
    <3> DEFINE noSalt == [q \in {p} |-> NoName]
    <3>1. RollKeys({p}, Random, noSalt)
      BY <2>8 DEF RandomizePrincipalKeys
    <3>2. noSalt \in [{p} -> Name \cup {NoName}]
      OBVIOUS
    <3> HIDE DEF noSalt
    <3>3. principals' \in [Pid -> PrincipalRow] /\ keys' \in [Pid -> SUBSET KeyVersion]
      BY <3>1, <3>2, RollKeysType
    <3> QED BY <2>8, <3>3 DEF RandomizePrincipalKeys, TypeOK
  <2>9. ASSUME NEW n \in Name, NEW pw \in Password, DeriveForPrincipal(n, pw)
        PROVE  TypeOK'
    <3>1. PICK p \in Pid :
            /\ Resolves(n, p)
            /\ pending' = pending \cup {[salt |-> principals[p].name, secret |-> pw]}
      BY <2>9 DEF DeriveForPrincipal
    <3>2. principals[p].name \in Name \cup {NoName}
      BY DEF TypeOK, PrincipalRow
    <3> QED BY <2>9, <3>1, <3>2 DEF DeriveForPrincipal, TypeOK
  <2>10. ASSUME NEW d \in pending, SetDerivedKeys(d) PROVE TypeOK'
    <3>1. PICK p \in Pid : RollKeys({p}, d.secret, [q \in {p} |-> d.salt])
      BY <2>10 DEF SetDerivedKeys
    <3>2. d.secret \in Password /\ [q \in {p} |-> d.salt] \in [{p} -> Name \cup {NoName}]
      BY DEF TypeOK
    <3>3. principals' \in [Pid -> PrincipalRow] /\ keys' \in [Pid -> SUBSET KeyVersion]
      BY <3>1, <3>2, RollKeysType
    <3> QED BY <2>10, <3>3 DEF SetDerivedKeys, TypeOK
  <2>11. ASSUME NEW d \in pending, DerivedNotFound(d) PROVE TypeOK'
    BY <2>11 DEF DerivedNotFound, TypeOK
  <2>12. CASE UNCHANGED vars
    BY <2>12 DEF vars, TypeOK
  <2> QED BY <2>1, <2>2, <2>3, <2>4, <2>5, <2>6, <2>7, <2>8, <2>9, <2>10, <2>11,
             <2>12 DEF Next, UserStep, PrincipalStep, PasswordStep
<1> QED BY <1>1, <1>2, PTL DEF Spec

-----------------------------------------------------------------------------

\* Rolling keeps the window of one principal: the version before the new one
\* was the current one, so it is there, and it is the only one kept.
LEMMA RolledWindow ==
  ASSUME TypeOK, KeyWindow, NEW p \in LivePrincipals, NEW secret, NEW salt
  PROVE  LET ks == Rolled(p, secret, salt)
             kv == principals[p].kvno + 1
         IN  /\ {k.kvno : k \in ks} = {v \in 1..kv : v + KeyGenerationsKept > kv}
             /\ \A j, k \in ks : j.kvno = k.kvno => j = k
<1> DEFINE old == principals[p].kvno
           ks == Rolled(p, secret, salt)
           new == [kvno |-> old + 1, secret |-> secret, salt |-> salt]
<1>1. old \in Nat /\ keys[p] \in SUBSET KeyVersion
  BY DEF TypeOK, PrincipalRow, LivePrincipals
<1>2. {k.kvno : k \in keys[p]} = {v \in 1..old : v + 2 > old}
  BY DEF KeyWindow, KeyGenerationsKept
<1>3. \A j, k \in keys[p] : j.kvno = k.kvno => j = k
  BY DEF KeyWindow
<1>4. \A k \in ks : (k \in keys[p] /\ k.kvno = old) \/ k = new
  <2> SUFFICES ASSUME NEW k \in ks, k # new PROVE k \in keys[p] /\ k.kvno = old
    OBVIOUS
  <2>1. k \in keys[p] /\ k.kvno # old + 1 /\ k.kvno + 2 > old + 1
    BY DEF Rolled, KeyGenerationsKept
  <2>2. k.kvno \in 1..old
    BY <1>2, <2>1
  <2> QED BY <1>1, <2>1, <2>2
<1>5. new \in ks
  BY DEF Rolled
<1>6. old > 0 => \E k \in ks : k.kvno = old
  <2> SUFFICES ASSUME old > 0 PROVE \E k \in ks : k.kvno = old
    OBVIOUS
  <2>1. old \in {v \in 1..old : v + 2 > old}
    BY <1>1
  <2>2. PICK k \in keys[p] : k.kvno = old
    BY <1>2, <2>1
  <2>3. k \in ks
    BY <1>1, <2>2 DEF Rolled, KeyGenerationsKept
  <2> QED BY <2>2, <2>3
<1>7. \A k \in keys[p] : k.kvno = old => old > 0
  BY <1>1, <1>2
<1> HIDE DEF ks, new
<1>8. {k.kvno : k \in ks} = {v \in 1..(old + 1) : v + 2 > old + 1}
  <2>1. new.kvno = old + 1
    BY DEF new
  <2>2. ASSUME NEW k \in ks PROVE k.kvno \in {v \in 1..(old + 1) : v + 2 > old + 1}
    BY <1>1, <1>4, <1>7, <2>1
  <2>3. ASSUME NEW v \in 1..(old + 1), v + 2 > old + 1
        PROVE  \E k \in ks : k.kvno = v
    <3>1. v = old + 1 \/ (v = old /\ old > 0)
      BY <1>1, <2>3
    <3> QED BY <1>5, <1>6, <2>1, <3>1
  <2> QED BY <2>2, <2>3
<1>9. \A j, k \in ks : j.kvno = k.kvno => j = k
  <2>1. new.kvno = old + 1
    BY DEF new
  <2> QED BY <1>1, <1>3, <1>4, <2>1
<1> QED BY <1>8, <1>9 DEF ks, KeyGenerationsKept

\* RollKeys on live principals keeps every window.
LEMMA RollKeysWindow ==
  ASSUME TypeOK, KeyWindow, NEW P \in SUBSET LivePrincipals,
         NEW secret, NEW salt, RollKeys(P, secret, salt)
  PROVE  KeyWindow'
<1> SUFFICES ASSUME NEW p \in LivePrincipals'
             PROVE  /\ {k.kvno : k \in keys'[p]} =
                         {v \in 1..principals'[p].kvno :
                            v + KeyGenerationsKept > principals'[p].kvno}
                    /\ \A j, k \in keys'[p] : j.kvno = k.kvno => j = k
  BY DEF KeyWindow
<1>1. p \in Pid /\ principals[p] \in PrincipalRow
  BY DEF LivePrincipals, TypeOK
<1>2. CASE p \in P
  <2>1. principals'[p].kvno = principals[p].kvno + 1
    BY <1>1, <1>2 DEF RollKeys, PrincipalRow
  <2>2. keys'[p] = Rolled(p, secret, salt[p])
    BY <1>1, <1>2 DEF RollKeys
  <2>3. p \in LivePrincipals
    BY <1>2
  <2> HIDE DEF KeyGenerationsKept
  <2> QED BY <2>1, <2>2, <2>3, RolledWindow
<1>3. CASE p \notin P
  <2>1. principals'[p] = principals[p] /\ keys'[p] = keys[p]
    BY <1>1, <1>3 DEF RollKeys
  <2>2. p \in LivePrincipals
    BY <1>1, <2>1 DEF LivePrincipals
  <2> QED BY <2>1, <2>2 DEF KeyWindow
<1> QED BY <1>2, <1>3

\* A step that leaves the version and the keys of every principal that is
\* live after it alone keeps every window.
LEMMA WindowFrame ==
  ASSUME KeyWindow,
         \A p \in LivePrincipals' :
           /\ p \in LivePrincipals
           /\ principals'[p].kvno = principals[p].kvno
           /\ keys'[p] = keys[p]
  PROVE  KeyWindow'
BY DEF KeyWindow

\* Live principals always hold the current and the previous key version, for
\* every number of accounts, principals, password changes and rotations.
THEOREM KeyWindowHolds == Spec => []KeyWindow
<1>1. Init => KeyWindow
  BY DEF Init, KeyWindow, LivePrincipals, NoPrincipalRow
<1>2. TypeOK /\ KeyWindow /\ [Next]_vars => KeyWindow'
  <2> SUFFICES ASSUME TypeOK, KeyWindow, [Next]_vars PROVE KeyWindow'
    OBVIOUS
  <2>1. ASSUME NEW u \in Uid, NEW n, NEW d, CreateUser(u, n, d) PROVE KeyWindow'
    BY <2>1, WindowFrame DEF CreateUser, LivePrincipals
  <2>2. ASSUME NEW u \in Uid, NEW d, UpdateUser(u, d) PROVE KeyWindow'
    <3>1. \A p \in Pid : /\ principals'[p].st = principals[p].st
                         /\ principals'[p].kvno = principals[p].kvno
      BY <2>2 DEF UpdateUser, TypeOK, PrincipalRow
    <3> QED BY <2>2, <3>1, WindowFrame DEF UpdateUser, LivePrincipals
  <2>3. ASSUME NEW u \in Uid, DeleteUser(u) PROVE KeyWindow'
    BY <2>3, WindowFrame DEF DeleteUser, LivePrincipals, NoPrincipalRow
  <2>4. ASSUME NEW u \in Uid, NEW pw, SetUserPassword(u, pw) PROVE KeyWindow'
    <3>1. PrincipalsOf(u) \in SUBSET LivePrincipals
      BY DEF PrincipalsOf
    <3> QED BY <2>4, <3>1, RollKeysWindow DEF SetUserPassword
  <2>5. ASSUME NEW p \in Pid, NEW n, NEW u, NEW as, NEW secret, NEW e,
               CreatePrincipal(p, n, u, as, secret, e)
        PROVE  KeyWindow'
    <3>1. \A q \in LivePrincipals' \ {p} :
            /\ q \in LivePrincipals
            /\ principals'[q] = principals[q]
            /\ keys'[q] = keys[q]
      BY <2>5 DEF CreatePrincipal, LivePrincipals, TypeOK
    <3>2. principals'[p].kvno = 1
      BY <2>5 DEF CreatePrincipal, TypeOK
    <3>3. keys'[p] = {[kvno |-> 1, secret |-> secret,
                       salt |-> IF secret = Random THEN NoName ELSE n]}
      BY <2>5 DEF CreatePrincipal, TypeOK
    <3>4. {k.kvno : k \in keys'[p]} = {1}
      BY <3>3
    <3>5. {v \in 1..1 : v + KeyGenerationsKept > 1} = {1}
      BY DEF KeyGenerationsKept
    <3>6. \A j, k \in keys'[p] : j.kvno = k.kvno => j = k
      BY <3>3
    <3> QED BY <3>1, <3>2, <3>4, <3>5, <3>6 DEF KeyWindow
  <2>6. ASSUME NEW p \in Pid, NEW u, NEW as, NEW e, UpdatePrincipal(p, u, as, e)
        PROVE  KeyWindow'
    <3>1. \A q \in Pid : /\ principals'[q].st = principals[q].st
                         /\ principals'[q].kvno = principals[q].kvno
      BY <2>6 DEF UpdatePrincipal, TypeOK, PrincipalRow
    <3> QED BY <2>6, <3>1, WindowFrame DEF UpdatePrincipal, LivePrincipals
  <2>7. ASSUME NEW p \in Pid, DeletePrincipal(p) PROVE KeyWindow'
    <3>1. p \notin LivePrincipals'
      BY <2>7 DEF DeletePrincipal, LivePrincipals, NoPrincipalRow, TypeOK
    <3>2. \A q \in Pid \ {p} : principals'[q] = principals[q] /\ keys'[q] = keys[q]
      BY <2>7 DEF DeletePrincipal, TypeOK
    <3> QED BY <3>1, <3>2, WindowFrame DEF LivePrincipals
  <2>8. ASSUME NEW p \in Pid, RandomizePrincipalKeys(p) PROVE KeyWindow'
    BY <2>8, RollKeysWindow DEF RandomizePrincipalKeys
  <2>9. ASSUME NEW n, NEW pw, DeriveForPrincipal(n, pw) PROVE KeyWindow'
    BY <2>9, WindowFrame DEF DeriveForPrincipal, LivePrincipals
  <2>10. ASSUME NEW d, SetDerivedKeys(d) PROVE KeyWindow'
    <3>1. PICK p \in LivePrincipals : RollKeys({p}, d.secret, [q \in {p} |-> d.salt])
      BY <2>10 DEF SetDerivedKeys, Resolves
    <3> QED BY <3>1, RollKeysWindow
  <2>11. ASSUME NEW d, DerivedNotFound(d) PROVE KeyWindow'
    BY <2>11, WindowFrame DEF DerivedNotFound, LivePrincipals
  <2>12. CASE UNCHANGED vars
    BY <2>12, WindowFrame DEF vars, LivePrincipals
  <2> QED BY <2>1, <2>2, <2>3, <2>4, <2>5, <2>6, <2>7, <2>8, <2>9, <2>10, <2>11,
             <2>12 DEF Next, UserStep, PrincipalStep, PasswordStep
<1> QED BY <1>1, <1>2, TypeCorrect, PTL DEF Spec

-----------------------------------------------------------------------------

\* A row id that is not in use holds no keys: keys cascade from their
\* principal.
NoStrayKeys == \A p \in Pid \ LivePrincipals : keys[p] = {}

\* RollKeys leaves row states and other principals' keys alone, and no key version
\* names two keys.
LEMMA RollKeysVersions ==
  ASSUME TypeOK, KeyWindow, NEW P \in SUBSET LivePrincipals,
         NEW secret, NEW salt, RollKeys(P, secret, salt), NEW p \in Pid
  PROVE  /\ principals'[p].st = principals[p].st
         /\ p \notin P => keys'[p] = keys[p]
         /\ \A j \in keys[p], k \in keys'[p] : j.kvno = k.kvno => (j = k \/ p \notin LivePrincipals)
<1>1. principals'[p].st = principals[p].st
  BY DEF RollKeys, TypeOK, PrincipalRow
<1>2. p \notin P => keys'[p] = keys[p]
  BY DEF RollKeys
<1>3. ASSUME p \in LivePrincipals, NEW j \in keys[p], NEW k \in keys'[p], j.kvno = k.kvno
      PROVE  j = k
  <2>1. CASE k \in keys[p]
    BY <1>3, <2>1 DEF KeyWindow
  <2>2. CASE k \notin keys[p]
    <3>1. k.kvno = principals[p].kvno + 1
      BY <1>2, <2>2 DEF RollKeys, Rolled
    <3>2. j.kvno \in 1..principals[p].kvno /\ principals[p].kvno \in Nat
      BY <1>3 DEF KeyWindow, TypeOK, PrincipalRow
    <3> QED BY <1>3, <3>1, <3>2
  <2> QED BY <2>1, <2>2
<1> QED BY <1>1, <1>2, <1>3

\* No step turns a stored key version into another key.
THEOREM KeyVersionsFixed == Spec => KeyVersionFixed
<1> DEFINE Kept == \A p \in Pid : \A j \in keys[p], k \in keys'[p] :
                     j.kvno = k.kvno => j = k
<1>1. Init => NoStrayKeys
  BY DEF Init, NoStrayKeys
<1>2. TypeOK /\ KeyWindow /\ NoStrayKeys /\ [Next]_vars
        => NoStrayKeys' /\ (Kept \/ UNCHANGED vars)
  <2> SUFFICES ASSUME TypeOK, KeyWindow, NoStrayKeys, [Next]_vars
               PROVE  NoStrayKeys' /\ (Kept \/ UNCHANGED vars)
    OBVIOUS
  <2>1. ASSUME keys' = keys, \A p \in Pid : principals'[p].st = principals[p].st
        PROVE  NoStrayKeys' /\ Kept
    <3>1. NoStrayKeys'
      BY <2>1 DEF NoStrayKeys, LivePrincipals
    <3>2. Kept
      BY <2>1 DEF NoStrayKeys, KeyWindow
    <3> QED BY <3>1, <3>2
  <2>2. ASSUME NEW P \in SUBSET LivePrincipals, NEW secret, NEW salt,
               RollKeys(P, secret, salt)
        PROVE  NoStrayKeys' /\ Kept
    <3>1. NoStrayKeys'
      BY <2>2, RollKeysVersions DEF NoStrayKeys, LivePrincipals
    <3>2. Kept
      BY <2>2, RollKeysVersions DEF NoStrayKeys
    <3> QED BY <3>1, <3>2
  <2>3. ASSUME NEW D \in SUBSET Pid,
               principals' = [p \in Pid |-> IF p \in D THEN NoPrincipalRow("gone")
                                           ELSE principals[p]],
               keys' = [p \in Pid |-> IF p \in D THEN {} ELSE keys[p]]
        PROVE  NoStrayKeys' /\ Kept
    <3>1. NoStrayKeys'
      BY <2>3 DEF NoStrayKeys, LivePrincipals, NoPrincipalRow
    <3>2. Kept
      BY <2>3 DEF NoStrayKeys, KeyWindow
    <3> QED BY <3>1, <3>2
  <2>4. ASSUME NEW p \in Pid, NEW n, NEW u, NEW as, NEW secret, NEW e,
               CreatePrincipal(p, n, u, as, secret, e)
        PROVE  NoStrayKeys' /\ Kept
    <3>1. keys[p] = {} /\ p \in LivePrincipals'
      BY <2>4 DEF CreatePrincipal, NoStrayKeys, LivePrincipals, TypeOK
    <3>2. \A q \in Pid \ {p} : keys'[q] = keys[q] /\ principals'[q] = principals[q]
      BY <2>4 DEF CreatePrincipal, TypeOK
    <3>3. NoStrayKeys'
      BY <3>1, <3>2 DEF NoStrayKeys, LivePrincipals
    <3>4. Kept
      BY <3>1, <3>2 DEF NoStrayKeys, KeyWindow
    <3> QED BY <3>3, <3>4
  <2>5. ASSUME NEW u \in Uid, NEW n, NEW d, CreateUser(u, n, d)
        PROVE  NoStrayKeys' /\ Kept
    BY <2>1, <2>5 DEF CreateUser
  <2>6. ASSUME NEW u \in Uid, NEW d, UpdateUser(u, d) PROVE NoStrayKeys' /\ Kept
    <3>1. \A p \in Pid : principals'[p].st = principals[p].st
      BY <2>6 DEF UpdateUser, TypeOK, PrincipalRow
    <3> QED BY <2>1, <2>6, <3>1 DEF UpdateUser
  <2>7. ASSUME NEW u \in Uid, DeleteUser(u) PROVE NoStrayKeys' /\ Kept
    <3>1. PrincipalsOf(u) \in SUBSET Pid
      BY DEF PrincipalsOf, LivePrincipals
    <3> QED BY <2>3, <2>7, <3>1 DEF DeleteUser
  <2>8. ASSUME NEW u \in Uid, NEW pw, SetUserPassword(u, pw) PROVE NoStrayKeys' /\ Kept
    <3>1. PrincipalsOf(u) \in SUBSET LivePrincipals
      BY DEF PrincipalsOf
    <3> QED BY <2>2, <2>8, <3>1 DEF SetUserPassword
  <2>9. ASSUME NEW p \in Pid, NEW u, NEW as, NEW e, UpdatePrincipal(p, u, as, e)
        PROVE  NoStrayKeys' /\ Kept
    <3>1. \A q \in Pid : principals'[q].st = principals[q].st
      BY <2>9 DEF UpdatePrincipal, TypeOK, PrincipalRow
    <3> QED BY <2>1, <2>9, <3>1 DEF UpdatePrincipal
  <2>10. ASSUME NEW p \in Pid, DeletePrincipal(p) PROVE NoStrayKeys' /\ Kept
    <3>1. principals' = [q \in Pid |-> IF q \in {p} THEN NoPrincipalRow("gone")
                                      ELSE principals[q]]
      BY <2>10 DEF DeletePrincipal, TypeOK
    <3>2. keys' = [q \in Pid |-> IF q \in {p} THEN {} ELSE keys[q]]
      BY <2>10 DEF DeletePrincipal, TypeOK
    <3>3. {p} \in SUBSET Pid
      OBVIOUS
    <3> HIDE DEF Kept
    <3> QED BY <2>3, <3>1, <3>2, <3>3
  <2>11. ASSUME NEW p \in Pid, RandomizePrincipalKeys(p) PROVE NoStrayKeys' /\ Kept
    <3>1. {p} \in SUBSET LivePrincipals
      BY <2>11 DEF RandomizePrincipalKeys
    <3> HIDE DEF Kept
    <3> QED BY <2>2, <2>11, <3>1 DEF RandomizePrincipalKeys
  <2>12. ASSUME NEW n, NEW pw, DeriveForPrincipal(n, pw) PROVE NoStrayKeys' /\ Kept
    BY <2>1, <2>12 DEF DeriveForPrincipal
  <2>13. ASSUME NEW d, SetDerivedKeys(d) PROVE NoStrayKeys' /\ Kept
    <3>1. PICK p \in LivePrincipals : RollKeys({p}, d.secret, [q \in {p} |-> d.salt])
      BY <2>13 DEF SetDerivedKeys, Resolves
    <3>2. {p} \in SUBSET LivePrincipals
      OBVIOUS
    <3> HIDE DEF Kept
    <3> QED BY <2>2, <3>1, <3>2
  <2>14. ASSUME NEW d, DerivedNotFound(d) PROVE NoStrayKeys' /\ Kept
    BY <2>1, <2>14 DEF DerivedNotFound
  <2>15. CASE UNCHANGED vars
    <3>1. NoStrayKeys'
      BY <2>15 DEF vars, NoStrayKeys, LivePrincipals
    <3> QED BY <2>15, <3>1
  <2> HIDE DEF Kept
  <2> QED BY <2>4, <2>5, <2>6, <2>7, <2>8, <2>9, <2>10, <2>11, <2>12, <2>13,
             <2>14, <2>15 DEF Next, UserStep, PrincipalStep, PasswordStep
<1>3. TypeOK /\ KeyWindow /\ NoStrayKeys /\ [Next]_vars
        => NoStrayKeys' /\ [\A p \in Pid : \A j \in keys[p], k \in keys'[p] :
                             j.kvno = k.kvno => j = k]_vars
  BY <1>2
<1> QED BY <1>1, <1>3, TypeCorrect, KeyWindowHolds, PTL DEF Spec, KeyVersionFixed

-----------------------------------------------------------------------------

\* The tables in which names live and the links an account's update renames
\* through, of principals live after the step, are as before.
LEMMA NameFrame ==
  ASSUME NameBelongsToOne,
         \A p \in LivePrincipals' :
           /\ p \in LivePrincipals
           /\ principals'[p].name = principals[p].name
           /\ aliases'[p] = aliases[p]
  PROVE  NameBelongsToOne'
BY DEF NameBelongsToOne

\* Rolling keys touches neither table of names.
LEMMA RollKeysNames ==
  ASSUME TypeOK, NameBelongsToOne, NEW P, NEW secret, NEW salt,
         RollKeys(P, secret, salt), UNCHANGED aliases
  PROVE  NameBelongsToOne'
<1>1. \A p \in Pid : /\ principals'[p].st = principals[p].st
                     /\ principals'[p].name = principals[p].name
  BY DEF RollKeys, TypeOK, PrincipalRow
<1> QED BY <1>1, NameFrame DEF LivePrincipals

\* A principal whose name and aliases nobody else holds, and whose own name
\* is not among its aliases, can be written without a clash.
LEMMA AcceptedNames ==
  ASSUME NameBelongsToOne, NEW p \in LivePrincipals', NEW as,
         LivePrincipals' = LivePrincipals \cup {p},
         \A q \in LivePrincipals \ {p} :
           principals'[q].name = principals[q].name /\ aliases'[q] = aliases[q],
         aliases'[p] = as,
         AliasesAccepted(p, principals'[p].name, as),
         ~NameTaken(principals'[p].name, p)
  PROVE  NameBelongsToOne'
<1>1. \A q \in LivePrincipals \ {p} :
        /\ principals[q].name # principals'[p].name
        /\ principals'[p].name \notin aliases[q]
        /\ principals[q].name \notin as
        /\ aliases[q] \cap as = {}
  BY DEF AliasesAccepted, NameTaken
<1>2. principals'[p].name \notin as
  BY DEF AliasesAccepted
<1> SUFFICES ASSUME NEW a \in LivePrincipals', NEW b \in LivePrincipals'
             PROVE  /\ a # b => /\ principals'[a].name # principals'[b].name
                                /\ aliases'[a] \cap aliases'[b] = {}
                    /\ principals'[a].name \notin aliases'[b]
  BY DEF NameBelongsToOne
<1>3. CASE a # p /\ b # p
  BY <1>3 DEF NameBelongsToOne
<1>4. CASE a = p /\ b # p
  BY <1>1, <1>4
<1>5. CASE a # p /\ b = p
  BY <1>1, <1>5
<1>6. CASE a = p /\ b = p
  BY <1>2, <1>6
<1> QED BY <1>3, <1>4, <1>5, <1>6

\* While principals are linked only to the account that bears their name, a
\* name leads to one principal, for every number of principals and aliases:
\* the checks nameTaken makes under the write lock are enough.
THEOREM NamesUnique == SpecOwn => []NameBelongsToOne
<1>1. Init => OwnLinks /\ NameBelongsToOne /\ TypeOK
  BY DEF Init, OwnLinks, NameBelongsToOne, LivePrincipals, NoPrincipalRow, TypeOK,
         UserRow, PrincipalRow, NoUserRow, RowState
<1>2. OwnLinks /\ [NextOwn]_vars => OwnLinks'
  BY DEF NextOwn, vars, OwnLinks, LivePrincipals
<1>3. TypeOK /\ OwnLinks /\ NameBelongsToOne /\ [Next]_vars => NameBelongsToOne'
  <2> SUFFICES ASSUME TypeOK, OwnLinks, NameBelongsToOne, [Next]_vars
               PROVE  NameBelongsToOne'
    OBVIOUS
  <2>1. ASSUME NEW u \in Uid, NEW n, NEW d, CreateUser(u, n, d) PROVE NameBelongsToOne'
    BY <2>1, NameFrame DEF CreateUser, LivePrincipals
  <2>2. ASSUME NEW u \in Uid, NEW d, UpdateUser(u, d) PROVE NameBelongsToOne'
    <3>1. RenamedByUpdate(u) = {}
      BY NameAssumption DEF RenamedByUpdate, PrincipalsOf, OwnLinks
    <3>2. \A p \in Pid : principals'[p] = principals[p]
      BY <2>2, <3>1 DEF UpdateUser
    <3> QED BY <2>2, <3>2, NameFrame DEF UpdateUser, LivePrincipals
  <2>3. ASSUME NEW u \in Uid, DeleteUser(u) PROVE NameBelongsToOne'
    BY <2>3, NameFrame DEF DeleteUser, LivePrincipals, NoPrincipalRow
  <2>4. ASSUME NEW u \in Uid, NEW pw, SetUserPassword(u, pw) PROVE NameBelongsToOne'
    BY <2>4, RollKeysNames DEF SetUserPassword
  <2>5. ASSUME NEW p \in Pid, NEW n, NEW u, NEW as, NEW secret, NEW e,
               CreatePrincipal(p, n, u, as, secret, e)
        PROVE  NameBelongsToOne'
    <3>1. LivePrincipals' = LivePrincipals \cup {p} /\ p \in LivePrincipals'
      BY <2>5 DEF CreatePrincipal, LivePrincipals, TypeOK
    <3>2. principals'[p].name = n /\ aliases'[p] = as
      BY <2>5 DEF CreatePrincipal, TypeOK
    <3>3. \A q \in LivePrincipals \ {p} :
            principals'[q].name = principals[q].name /\ aliases'[q] = aliases[q]
      BY <2>5 DEF CreatePrincipal, LivePrincipals, TypeOK
    <3>4. AliasesAccepted(p, n, as) /\ ~NameTaken(n, p)
      BY <2>5 DEF CreatePrincipal
    <3> QED BY <3>1, <3>2, <3>3, <3>4, AcceptedNames
  <2>6. ASSUME NEW p \in Pid, NEW u, NEW as, NEW e, UpdatePrincipal(p, u, as, e)
        PROVE  NameBelongsToOne'
    <3>1. \A q \in Pid : /\ principals'[q].st = principals[q].st
                         /\ principals'[q].name = principals[q].name
      BY <2>6 DEF UpdatePrincipal, TypeOK, PrincipalRow
    <3>2. LivePrincipals' = LivePrincipals \cup {p} /\ p \in LivePrincipals'
      BY <2>6, <3>1 DEF UpdatePrincipal, LivePrincipals
    <3>3. aliases'[p] = as /\ \A q \in Pid \ {p} : aliases'[q] = aliases[q]
      BY <2>6 DEF UpdatePrincipal, TypeOK
    <3>4. AliasesAccepted(p, principals'[p].name, as)
      BY <2>6, <3>1 DEF UpdatePrincipal
    <3>5. ~NameTaken(principals'[p].name, p)
      BY <2>6, <3>1 DEF NameTaken, NameBelongsToOne, UpdatePrincipal
    <3>6. \A q \in LivePrincipals \ {p} :
            principals'[q].name = principals[q].name /\ aliases'[q] = aliases[q]
      BY <3>1, <3>3 DEF LivePrincipals
    <3> QED BY <3>2, <3>3, <3>4, <3>5, <3>6, AcceptedNames
  <2>7. ASSUME NEW p \in Pid, DeletePrincipal(p) PROVE NameBelongsToOne'
    <3>1. p \notin LivePrincipals'
      BY <2>7 DEF DeletePrincipal, LivePrincipals, NoPrincipalRow, TypeOK
    <3>2. \A q \in Pid \ {p} : principals'[q] = principals[q] /\ aliases'[q] = aliases[q]
      BY <2>7 DEF DeletePrincipal, TypeOK
    <3> QED BY <3>1, <3>2, NameFrame DEF LivePrincipals
  <2>8. ASSUME NEW p \in Pid, RandomizePrincipalKeys(p) PROVE NameBelongsToOne'
    BY <2>8, RollKeysNames DEF RandomizePrincipalKeys
  <2>9. ASSUME NEW n, NEW pw, DeriveForPrincipal(n, pw) PROVE NameBelongsToOne'
    BY <2>9, NameFrame DEF DeriveForPrincipal, LivePrincipals
  <2>10. ASSUME NEW d, SetDerivedKeys(d) PROVE NameBelongsToOne'
    <3>1. PICK p \in Pid : RollKeys({p}, d.secret, [q \in {p} |-> d.salt])
      BY <2>10 DEF SetDerivedKeys
    <3> QED BY <2>10, <3>1, RollKeysNames DEF SetDerivedKeys
  <2>11. ASSUME NEW d, DerivedNotFound(d) PROVE NameBelongsToOne'
    BY <2>11, NameFrame DEF DerivedNotFound, LivePrincipals
  <2>12. CASE UNCHANGED vars
    BY <2>12, NameFrame DEF vars, LivePrincipals
  <2> QED BY <2>1, <2>2, <2>3, <2>4, <2>5, <2>6, <2>7, <2>8, <2>9, <2>10, <2>11,
             <2>12 DEF Next, UserStep, PrincipalStep, PasswordStep
<1>4. [NextOwn]_vars => [Next]_vars
  BY DEF NextOwn
<1>5. SpecOwn => Spec
  BY <1>4, PTL DEF SpecOwn, Spec
<1> QED BY <1>1, <1>2, <1>3, <1>4, <1>5, TypeCorrect, PTL DEF SpecOwn
=============================================================================
