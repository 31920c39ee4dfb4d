---------------------------- MODULE MCCredentials ----------------------------
(* Four questions on one instance: key versions, with store calls           *)
(* interleaved; names and salts, with an administrator who does one thing   *)
(* at a time and stops before the last version (in both a linked principal  *)
(* bears its account's name); creations of two accounts that compete for    *)
(* names and aliases; and every request and fault on one account.           *)
EXTENDS Accounts, TLC

CONSTANTS w1, w2, u1, u2, p1, p2, alice, bob, svc, web, pw1, pw2

VARIABLE focus

\* Store calls made outside the requests of Accounts count as trouble.
MCInit ==
  /\ Init /\ job = [w \in Worker |-> NoJob]
  /\ focus \in {"keys", "names", "creations", "requests"}
  /\ trouble = IF focus \in {"keys", "names"} THEN Troubles ELSE {}

UsedUids == {u \in Uid : users[u].st # "free"}

UsedNames == {users[u].name : u \in Uid} \cup {principals[p].name : p \in Pid} \cup UNION {aliases[p] : p \in Pid}

UsedPasswords ==
  {users[u].digest : u \in Uid} \cup {d.secret : d \in pending}
    \cup UNION {{k.secret : k \in keys[p]} : p \in Pid}

\* The store's operations on one account, with one password in use.
OneAccount ==
  /\ Cardinality(UsedUids) <= 1 /\ bob \notin UsedNames
  /\ Cardinality(UsedPasswords \cap Password) <= 1
  /\ focus = "keys" => web \notin UsedNames
  /\ focus = "names" => \A p \in Pid : \A k \in keys[p] : k.kvno < MaxKvno

Creation == {"idle", "look", "user", "principal", "password", "undo"}

TwoAccounts ==
  /\ "fault" \notin trouble /\ web \notin UsedNames
  /\ \A w \in Worker : ~job[w].disabled /\ job[w].pc \in Creation /\ web \notin job[w].as

Requests ==
  /\ Cardinality(UsedUids) <= 1
  /\ \A w \in Worker : job[w].name # bob /\ job[w].as = {}

MCNext ==
  /\ UNCHANGED focus
  /\ \/ focus = "keys" /\ NextOwn /\ OneAccount' /\ UNCHANGED <<job, trouble>>
     \/ focus = "names" /\ NextSerial /\ OneAccount' /\ UNCHANGED <<job, trouble>>
     \/ focus = "creations" /\ AccountsNext /\ TwoAccounts'
     \/ focus = "requests" /\ AccountsNext /\ Requests'

MCSpec == MCInit /\ [][MCNext]_<<allVars, focus>>

\* In the directory of the second question every stored key that a password
\* produced is salted with the canonical name of the principal that holds it,
\* whichever name the password was set through (SetPrincipalPassword,
\* SetUserPassword).
SaltFollowsNameSerially == focus = "names" => SaltFollowsName

Symmetry ==
  Permutations(Worker) \cup Permutations(Uid) \cup Permutations(Pid)
    \cup Permutations(Password)
==============================================================================
