----------------------------- MODULE Principals -----------------------------
(***************************************************************************)
(* The credential store: users, Kerberos principals, their aliases and     *)
(* their key versions (internal/store: users.go, principals.go,            *)
(* aliases.go, password.go).                                               *)
(*                                                                         *)
(* Every write of the store runs in one transaction under the write lock   *)
(* (Store.write), so one action below is one transaction that commits.  A  *)
(* transaction that is refused rolls back and changes nothing; it is not   *)
(* an action.  SetPrincipalPassword is the exception: it reads the         *)
(* principal, derives keys and writes them in a second transaction, so it  *)
(* is two actions with `pending` between them.                             *)
(*                                                                         *)
(* One realm.  All encryption types of a key version are written and       *)
(* deleted together, so a version is one value.  The lockout columns that  *)
(* rollKeys also clears are modelled in Lockout.                           *)
(***************************************************************************)
EXTENDS Naturals, FiniteSets

CONSTANTS
  Uid,        \* row ids of the users table, never reused (AUTOINCREMENT)
  Pid,        \* row ids of the principals table, never reused
  UserName,   \* account names
  Name,       \* principal names of the realm, canonical or alias
  Password,
  Random,     \* the secret of keys that no password produces
  NoUser, NoName, NoDigest,
  MaxKvno,    \* bound: highest key version explored
  MaxPending  \* bound: SetPrincipalPassword calls between read and write

ASSUME NameAssumption ==
  /\ UserName \subseteq Name
  /\ NoName \notin Name
  /\ NoUser \notin Uid
  /\ Random \notin Password
  /\ NoDigest \notin Password

ASSUME BoundAssumption == MaxKvno \in Nat /\ MaxPending \in Nat

VARIABLES
  users,       \* rows of users
  principals,  \* rows of principals
  aliases,     \* principal_aliases, by principal
  keys,        \* principal_keys, by principal
  pending      \* keys derived by SetPrincipalPassword and not yet written

vars == <<users, principals, aliases, keys, pending>>

RowState == {"free", "live", "gone"}

UserRow ==
  [st : RowState, name : UserName \cup {NoName}, disabled : BOOLEAN,
   digest : Password \cup {NoDigest}]

PrincipalRow ==
  [st : RowState, name : Name \cup {NoName}, user : Uid \cup {NoUser},
   kvno : Nat, enabled : BOOLEAN]

KeyVersion ==
  [kvno : Nat \ {0}, secret : Password \cup {Random}, salt : Name \cup {NoName}]

\* Type invariant: key versions are numbered from 1, names and links are those
\* of the tables (migrations, store/model.go).
TypeOK ==
  /\ users \in [Uid -> UserRow]
  /\ principals \in [Pid -> PrincipalRow]
  /\ aliases \in [Pid -> SUBSET Name]
  /\ keys \in [Pid -> SUBSET KeyVersion]
  /\ pending \in SUBSET [salt : Name \cup {NoName}, secret : Password]

NoUserRow(st) ==
  [st |-> st, name |-> NoName, disabled |-> FALSE, digest |-> NoDigest]

NoPrincipalRow(st) ==
  [st |-> st, name |-> NoName, user |-> NoUser, kvno |-> 0, enabled |-> FALSE]

Init ==
  /\ users = [u \in Uid |-> NoUserRow("free")]
  /\ principals = [p \in Pid |-> NoPrincipalRow("free")]
  /\ aliases = [p \in Pid |-> {}]
  /\ keys = [p \in Pid |-> {}]
  /\ pending = {}

LiveUsers == {u \in Uid : users[u].st = "live"}

LivePrincipals == {p \in Pid : principals[p].st = "live"}

PrincipalsOf(u) == {p \in LivePrincipals : principals[p].user = u}

-----------------------------------------------------------------------------
(* Names. *)

\* getPrincipal: the canonical name first, an alias only when no principal
\* holds the name canonically.
Resolves(n, p) ==
  /\ p \in LivePrincipals
  /\ \/ principals[p].name = n
     \/ /\ n \in aliases[p]
        /\ \A q \in LivePrincipals : principals[q].name # n

\* nameTaken: some principal other than p answers to n.
NameTaken(n, p) ==
  \E q \in LivePrincipals \ {p} : principals[q].name = n \/ n \in aliases[q]

\* Faulty variant: the taken-name check looks at canonical names only.
AliasesAcceptedCanonicalOnly(p, n, as) ==
  /\ n \notin as
  /\ \A a \in as, q \in LivePrincipals \ {p} : principals[q].name # a

\* normalizeAliases and replaceAliases for principal p with canonical name n.
AliasesAccepted(p, n, as) ==
  /\ n \notin as
  /\ \A a \in as : ~NameTaken(a, p)

-----------------------------------------------------------------------------
(* Keys. *)

KeyGenerationsKept == 2

\* Faulty variant: the previous version is dropped at once.
RolledForgets(p, secret, salt) ==
  {[kvno |-> principals[p].kvno + 1, secret |-> secret, salt |-> salt]}

\* rollKeys on the rows of one principal: the next version is written, every
\* version at or below kvno - keyGenerationsKept is deleted.
Rolled(p, secret, salt) ==
  LET kvno == principals[p].kvno + 1
  IN  {k \in keys[p] : k.kvno # kvno /\ k.kvno + KeyGenerationsKept > kvno}
        \cup {[kvno |-> kvno, secret |-> secret, salt |-> salt]}

\* Keys and version numbers of the principals in P roll; the salt of a
\* password key is the name the caller derived it with.
RollKeys(P, secret, salt) ==
  /\ \A p \in P : principals[p].kvno < MaxKvno
  /\ keys' = [p \in Pid |->
                IF p \in P THEN Rolled(p, secret, salt[p]) ELSE keys[p]]
  /\ principals' = [p \in Pid |->
                IF p \in P
                THEN [principals[p] EXCEPT !.kvno = @ + 1]
                ELSE principals[p]]

-----------------------------------------------------------------------------
(* Transactions on users. *)

CreateUser(u, n, disabled) ==
  /\ users[u].st = "free"
  /\ \A v \in LiveUsers : users[v].name # n
  /\ users' = [users EXCEPT ![u] =
       [st |-> "live", name |-> n, disabled |-> disabled, digest |-> NoDigest]]
  /\ UNCHANGED <<principals, aliases, keys, pending>>

\* UpdateUser writes the row and then gives EVERY principal of the account
\* the account's name, whether or not the update changed the name; the unique
\* index on principals refuses the transaction when that makes two principals
\* share it.  No caller changes a user's name.
RenamedByUpdate(u) == {p \in PrincipalsOf(u) : principals[p].name # users[u].name}

UpdateAccepted(u) ==
  \A p \in RenamedByUpdate(u) : \A q \in LivePrincipals \ {p} :
    /\ principals[q].name # users[u].name
    /\ q \notin RenamedByUpdate(u)

UpdateUser(u, disabled) ==
  /\ u \in LiveUsers
  /\ UpdateAccepted(u)
  /\ users' = [users EXCEPT ![u].disabled = disabled]
  /\ principals' = [p \in Pid |->
       IF p \in RenamedByUpdate(u)
       THEN [principals[p] EXCEPT !.name = users[u].name]
       ELSE principals[p]]
  /\ UNCHANGED <<aliases, keys, pending>>

\* Principals, their aliases and their keys cascade from the user row.
DeleteUser(u) ==
  /\ u \in LiveUsers
  /\ users' = [users EXCEPT ![u] = NoUserRow("gone")]
  /\ principals' = [p \in Pid |->
       IF p \in PrincipalsOf(u) THEN NoPrincipalRow("gone") ELSE principals[p]]
  /\ aliases' = [p \in Pid |-> IF p \in PrincipalsOf(u) THEN {} ELSE aliases[p]]
  /\ keys' = [p \in Pid |-> IF p \in PrincipalsOf(u) THEN {} ELSE keys[p]]
  /\ UNCHANGED pending

\* SetUserPassword: the digest and the keys of every principal of the account
\* in one transaction, each salted with the principal's own name.
SetUserPassword(u, pw) ==
  /\ u \in LiveUsers
  /\ users' = [users EXCEPT ![u].digest = pw]
  /\ RollKeys(PrincipalsOf(u), pw, [p \in PrincipalsOf(u) |-> principals[p].name])
  /\ UNCHANGED <<aliases, pending>>

-----------------------------------------------------------------------------
(* Transactions on principals. *)

\* user_id is a foreign key: linking to a user that is gone is refused.
CreatePrincipal(p, n, u, as, secret, enabled) ==
  /\ principals[p].st = "free"
  /\ ~NameTaken(n, p)
  /\ AliasesAccepted(p, n, as)
  /\ u \in LiveUsers \cup {NoUser}
  /\ principals' = [principals EXCEPT ![p] =
       [st |-> "live", name |-> n, user |-> u, kvno |-> 1, enabled |-> enabled]]
  /\ aliases' = [aliases EXCEPT ![p] = as]
  /\ keys' = [keys EXCEPT ![p] =
       {[kvno |-> 1, secret |-> secret,
         salt |-> IF secret = Random THEN NoName ELSE n]}]
  /\ UNCHANGED <<users, pending>>

\* UpdatePrincipal writes the policy columns and the link, and rewrites the
\* alias list whatever the mutation was.  It never writes the name.
UpdatePrincipal(p, u, as, enabled) ==
  /\ p \in LivePrincipals
  /\ AliasesAccepted(p, principals[p].name, as)
  /\ u \in LiveUsers \cup {NoUser}
  /\ principals' = [principals EXCEPT ![p].user = u, ![p].enabled = enabled]
  /\ aliases' = [aliases EXCEPT ![p] = as]
  /\ UNCHANGED <<users, keys, pending>>

DeletePrincipal(p) ==
  /\ p \in LivePrincipals
  /\ principals' = [principals EXCEPT ![p] = NoPrincipalRow("gone")]
  /\ aliases' = [aliases EXCEPT ![p] = {}]
  /\ keys' = [keys EXCEPT ![p] = {}]
  /\ UNCHANGED <<users, pending>>

RandomizePrincipalKeys(p) ==
  /\ p \in LivePrincipals
  /\ RollKeys({p}, Random, [q \in {p} |-> NoName])
  /\ UNCHANGED <<users, aliases, pending>>

\* Faulty variant: keys are salted with the name the caller used.
DeriveForCallerName(n, pw) ==
  /\ Cardinality(pending) < MaxPending
  /\ \E p \in Pid : Resolves(n, p)
  /\ pending' = pending \cup {[salt |-> n, secret |-> pw]}
  /\ UNCHANGED <<users, principals, aliases, keys>>

\* SetPrincipalPassword, first half: the principal a name leads to is read
\* and keys are derived for its canonical name.
DeriveForPrincipal(n, pw) ==
  /\ Cardinality(pending) < MaxPending
  /\ \E p \in Pid :
       /\ Resolves(n, p)
       /\ pending' = pending \cup {[salt |-> principals[p].name, secret |-> pw]}
  /\ UNCHANGED <<users, principals, aliases, keys>>

\* Second half: SetKeys looks the canonical name up again and rolls the keys
\* of whichever principal answers to it now.
SetDerivedKeys(d) ==
  /\ d \in pending
  /\ pending' = pending \ {d}
  /\ \E p \in Pid :
       /\ Resolves(d.salt, p)
       /\ RollKeys({p}, d.secret, [q \in {p} |-> d.salt])
  /\ UNCHANGED <<users, aliases>>

\* ... or finds nobody and answers ErrNotFound.
DerivedNotFound(d) ==
  /\ d \in pending
  /\ \A p \in Pid : ~Resolves(d.salt, p)
  /\ pending' = pending \ {d}
  /\ UNCHANGED <<users, principals, aliases, keys>>

-----------------------------------------------------------------------------

UserStep ==
  \E u \in Uid :
    \/ \E n \in UserName, d \in BOOLEAN : CreateUser(u, n, d)
    \/ \E d \in BOOLEAN : UpdateUser(u, d)
    \/ DeleteUser(u)
    \/ \E pw \in Password : SetUserPassword(u, pw)

PrincipalStep ==
  \E p \in Pid :
    \/ /\ principals[p].st = "free"
       /\ \E n \in Name, u \in Uid \cup {NoUser}, as \in SUBSET Name,
             secret \in Password \cup {Random}, e \in BOOLEAN :
            CreatePrincipal(p, n, u, as, secret, e)
    \/ \E u \in Uid \cup {NoUser}, as \in SUBSET Name, e \in BOOLEAN :
         UpdatePrincipal(p, u, as, e)
    \/ DeletePrincipal(p)
    \/ RandomizePrincipalKeys(p)

PasswordStep ==
  \/ \E n \in Name, pw \in Password : DeriveForPrincipal(n, pw)
  \/ \E d \in pending : SetDerivedKeys(d) \/ DerivedNotFound(d)

Next == UserStep \/ PrincipalStep \/ PasswordStep

Spec == Init /\ [][Next]_vars

\* A directory in which a principal is linked only to the account that bears
\* its name, so the renaming in UpdateUser finds nothing to rename.
OwnLinks ==
  \A p \in LivePrincipals :
    principals[p].user # NoUser =>
      principals[p].name = users[principals[p].user].name

NextOwn == Next /\ OwnLinks'

SpecOwn == Init /\ [][NextOwn]_vars

\* The same directory with one administrator at a time: nothing runs between
\* the two halves of SetPrincipalPassword.
FinishPending == \E d \in pending : SetDerivedKeys(d) \/ DerivedNotFound(d)

NextSerial == NextOwn /\ (pending = {} \/ FinishPending)

SpecSerial == Init /\ [][NextSerial]_vars

-----------------------------------------------------------------------------
(* Properties. *)

\* A live principal holds exactly its current key version and the one before
\* it, each once: rollKeys never prunes a version that outstanding tickets
\* and keytabs of the last rotation still need, never leaves an older one,
\* and whatever mix of password changes and rotations ran, the version the
\* row names is there to be read.
KeyWindow ==
  \A p \in LivePrincipals :
    /\ {k.kvno : k \in keys[p]} =
         {v \in 1..principals[p].kvno :
            v + KeyGenerationsKept > principals[p].kvno}
    /\ \A j, k \in keys[p] : j.kvno = k.kvno => j = k

\* The key of a (principal row, version) pair never changes while it is
\* stored.  getPrincipal reads the row and its keys in separate statements,
\* so a rotation can run between them: this is why the reader gets the keys
\* of the version it saw, or none, and never another version's keys.
KeyVersionFixed ==
  [][\A p \in Pid : \A j \in keys[p], k \in keys'[p] :
       j.kvno = k.kvno => j = k]_vars

\* A name leads to one principal, canonically or as an alias: the two tables
\* never both hold it for different principals, nor for the same one twice.
NameBelongsToOne ==
  \A p, q \in LivePrincipals :
    /\ p # q => /\ principals[p].name # principals[q].name
                /\ aliases[p] \cap aliases[q] = {}
    /\ principals[p].name \notin aliases[q]

\* Every stored key that a password produced is salted with the canonical
\* name of the principal that holds it, whichever name the password was set
\* through.
SaltFollowsName ==
  \A p \in LivePrincipals : \A k \in keys[p] :
    k.secret # Random => k.salt = principals[p].name

\* Once an account has a password, a password that gets its principal a
\* ticket is the one its LDAP bind takes.
PasswordsAgree ==
  \A p \in LivePrincipals : \A k \in keys[p] :
    (/\ principals[p].user # NoUser
     /\ k.kvno = principals[p].kvno
     /\ k.secret # Random
     /\ users[principals[p].user].digest # NoDigest)
      => k.secret = users[principals[p].user].digest

\* A principal keeps its canonical name: no transaction changes the name of
\* an account, and nothing else may rename the principals linked to one.
CanonicalNameKept ==
  [][\A p \in LivePrincipals :
       principals'[p].st = "live" => principals'[p].name = principals[p].name]_vars
=============================================================================
