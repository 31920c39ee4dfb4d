------------------------------ MODULE Accounts ------------------------------
(***************************************************************************)
(* The requests that provision and change accounts, each a sequence of     *)
(* store transactions with other requests running in between:              *)
(*   create   POST /users, Store.CreateAccount (store/account.go)          *)
(*   apply    the bootstrap's applyUser, which skips an existing account   *)
(*   patch    PATCH /users/{name} with `disabled` (api/users.go)           *)
(*   modify   LDAP Modify of userPassword and accountStatus (ldapsrv)      *)
(*   delete   DELETE /users/{name}, LDAP Delete                            *)
(*   kpasswd  a password change by its owner (kpasswd/server.go)           *)
(* A request's context may be cancelled (the client goes away) at any      *)
(* point, after which each of its transactions fails, and the process may  *)
(* crash and restart, which ends every request where it is.                *)
(***************************************************************************)
EXTENDS Principals

CONSTANTS
  Worker,
  TooLong,  \* a password bcrypt refuses (over 72 bytes)
  Ops       \* the requests and faults of a run

ASSUME OpsAssumption ==
  /\ Ops \subseteq {"create", "apply", "patch", "modify", "delete", "kpasswd", "cancel",
               "crash"}
  /\ TooLong \notin Password \cup {NoDigest}

VARIABLES
  job,     \* per worker, the request it serves
  trouble  \* history: overlapping requests, LDAP writes and faults so far

allVars == <<vars, job, trouble>>

Troubles == {"overlap", "modify", "fault"}

Pc == {"idle", "look", "user", "principal", "password", "undo",
       "update", "list", "sync", "mpassword", "mattrs", "kprincipal", "kuser", "kpassword"}

Job ==
  [pc : Pc, name : UserName \cup {NoName}, uid : Uid \cup {NoUser},
   pw : Password \cup {NoDigest, TooLong}, disabled : BOOLEAN,
   as : SUBSET Name, todo : SUBSET Name, alive : BOOLEAN]

NoJob ==
  [pc |-> "idle", name |-> NoName, uid |-> NoUser, pw |-> NoDigest,
   disabled |-> FALSE, as |-> {}, todo |-> {}, alive |-> TRUE]

\* Type invariant: requests are in a known step, and no digest of a refused
\* password is ever stored (store/password.go).
JobTypeOK == TypeOK /\ job \in [Worker -> Job] /\ trouble \subseteq Troubles

AccountsInit == Init /\ job = [w \in Worker |-> NoJob] /\ trouble = {}

Quiet == \A w \in Worker : job[w].pc = "idle"

Done(w) == job' = [job EXCEPT ![w] = NoJob]

Goto(w, pc) == job' = [job EXCEPT ![w].pc = pc]

\* What a request that begins now adds to the history.
Begin(op) ==
  trouble' = trouble \cup (IF Quiet THEN {} ELSE {"overlap"})
                     \cup ({op} \cap Troubles)

Named(n) == {u \in LiveUsers : users[u].name = n}

\* Some principal answers to n: nameTaken on behalf of a row not yet written.
Claimed(n) == \E q \in LivePrincipals : principals[q].name = n \/ n \in aliases[q]

Start(w, op, new) ==
  /\ op \in Ops
  /\ job[w].pc = "idle"
  /\ job' = [job EXCEPT ![w] = new]
  /\ Begin(op)
  /\ UNCHANGED vars

-----------------------------------------------------------------------------
(* CreateAccount. *)

StartCreate(w) ==
  \E n \in UserName, pw \in Password \cup {NoDigest, TooLong}, d \in BOOLEAN,
     as \in SUBSET (Name \ UserName) :
    LET new(pc) == [NoJob EXCEPT !.pc = pc, !.name = n, !.pw = pw,
                                 !.disabled = d, !.as = as]
    IN  \/ Start(w, "create", new("user"))
        \/ Start(w, "apply", new("look"))

\* applyUser: an account that exists is left as it is.
Look(w) ==
  /\ job[w].pc = "look"
  /\ IF job[w].alive /\ Named(job[w].name) = {} THEN Goto(w, "user") ELSE Done(w)
  /\ UNCHANGED vars

StoreUser(w) ==
  /\ job[w].pc = "user"
  /\ \/ /\ job[w].alive
        /\ \E u \in Uid :
             /\ CreateUser(u, job[w].name, job[w].disabled)
             /\ job' = [job EXCEPT ![w].pc = "principal", ![w].uid = u]
     \/ /\ ~job[w].alive \/ Named(job[w].name) # {}
        /\ Done(w)
        /\ UNCHANGED vars

PrincipalRefused(j) ==
  \/ Claimed(j.name)
  \/ j.name \in j.as
  \/ \E a \in j.as : Claimed(a)
  \/ j.uid \notin LiveUsers

StorePrincipal(w) ==
  LET j == job[w]
  IN  /\ j.pc = "principal"
      /\ \/ /\ j.alive
            /\ \E p \in Pid : CreatePrincipal(p, j.name, j.uid, j.as, Random, ~j.disabled)
            /\ IF j.pw = NoDigest THEN Done(w) ELSE Goto(w, "password")
         \/ /\ ~j.alive \/ PrincipalRefused(j)
            /\ Goto(w, "undo")
            /\ UNCHANGED vars

\* SetUserPassword finds the account by name, not by the id it was given.
StorePassword(w) ==
  LET j == job[w]
  IN  /\ j.pc = "password"
      /\ \/ /\ j.alive /\ j.pw \in Password
            /\ \E u \in Named(j.name) : SetUserPassword(u, j.pw)
            /\ Done(w)
         \/ /\ ~j.alive \/ j.pw = TooLong \/ Named(j.name) = {}
            /\ Goto(w, "undo")
            /\ UNCHANGED vars

\* Faulty variant: nothing is taken back.
UndoNothing(w) ==
  /\ job[w].pc = "undo"
  /\ Done(w)
  /\ UNCHANGED vars

\* undoAccount deletes by name, with the request's own context.
UndoAccount(w) ==
  LET j == job[w]
  IN  /\ j.pc = "undo"
      /\ Done(w)
      /\ \/ j.alive /\ \E u \in Named(j.name) : DeleteUser(u)
         \/ (~j.alive \/ Named(j.name) = {}) /\ UNCHANGED vars

-----------------------------------------------------------------------------
(* PATCH /users/{name} and LDAP Modify. *)

StartPatch(w) ==
  \E n \in UserName, d \in BOOLEAN :
    Start(w, "patch", [NoJob EXCEPT !.pc = "update", !.name = n, !.disabled = d])

UpdateRefused(n) == \A u \in Named(n) : ~UpdateAccepted(u)

PatchUpdate(w) ==
  LET j == job[w]
  IN  /\ j.pc = "update"
      /\ \/ /\ j.alive
            /\ \E u \in Named(j.name) :
                 /\ UpdateUser(u, j.disabled)
                 /\ job' = [job EXCEPT ![w].pc = "list", ![w].uid = u]
         \/ /\ ~j.alive \/ UpdateRefused(j.name)
            /\ Done(w)
            /\ UNCHANGED vars

\* syncPrincipalEnabled: the account's principals are listed, then each is
\* updated by name in a transaction of its own; the first failure ends it.
SyncList(w) ==
  /\ job[w].pc = "list"
  /\ LET names == {principals[p].name : p \in PrincipalsOf(job[w].uid)}
     IN  IF job[w].alive /\ names # {}
         THEN job' = [job EXCEPT ![w].pc = "sync", ![w].todo = names]
         ELSE Done(w)
  /\ UNCHANGED vars

SyncOne(w) ==
  LET j == job[w]
  IN  /\ j.pc = "sync"
      /\ \E n \in j.todo :
           \/ /\ j.alive
              /\ \E p \in Pid :
                   /\ Resolves(n, p)
                   /\ UpdatePrincipal(p, principals[p].user, aliases[p], ~j.disabled)
              /\ IF j.todo = {n} THEN Done(w)
                 ELSE job' = [job EXCEPT ![w].todo = @ \ {n}]
           \/ /\ \/ ~j.alive
                 \/ \A p \in Pid : Resolves(n, p) =>
                      ~AliasesAccepted(p, principals[p].name, aliases[p])
              /\ Done(w)
              /\ UNCHANGED vars

\* LDAP Modify: the password first, then the other attributes, in two
\* transactions, of which a request may need either; no principal is enabled
\* or disabled.
StartModify(w) ==
  \E n \in UserName, d \in BOOLEAN, pw \in Password \cup {NoDigest, TooLong} :
    Start(w, "modify",
          [NoJob EXCEPT !.pc = IF pw = NoDigest THEN "mattrs" ELSE "mpassword",
                        !.name = n, !.pw = pw, !.disabled = d])

ModifyPassword(w) ==
  LET j == job[w]
  IN  /\ j.pc = "mpassword"
      /\ \/ /\ j.alive /\ j.pw \in Password
            /\ \E u \in Named(j.name) : SetUserPassword(u, j.pw)
            /\ Goto(w, "mattrs") \/ Done(w)
         \/ /\ ~j.alive \/ j.pw = TooLong \/ Named(j.name) = {}
            /\ Done(w)
            /\ UNCHANGED vars

ModifyAttributes(w) ==
  LET j == job[w]
  IN  /\ j.pc = "mattrs"
      /\ Done(w)
      /\ \/ j.alive /\ \E u \in Named(j.name) : UpdateUser(u, j.disabled)
         \/ (~j.alive \/ UpdateRefused(j.name)) /\ UNCHANGED vars

-----------------------------------------------------------------------------
(* kpasswd.  Here every principal belongs to an account; for one that does   *)
(* not applyPassword is SetPrincipalPassword, in Principals.                 *)

\* process: a ticket for kadmin/changepw straight from an AS exchange, for a
\* change of the requester's own password that meets the policy.  Any other
\* request is refused before anything is read.
StartChange(w) ==
  \E n, subject \in UserName, initial \in BOOLEAN, pw \in Password \cup {TooLong} :
    /\ initial
    /\ subject = n
    /\ pw # TooLong
    /\ Start(w, "kpasswd", [NoJob EXCEPT !.pc = "kprincipal", !.name = n, !.pw = pw])

\* applyPassword: the principal leads to the account's id, ...
ChangePrincipal(w) ==
  LET j == job[w]
  IN  /\ j.pc = "kprincipal"
      /\ \/ \E p \in Pid : /\ Resolves(j.name, p)
                            /\ job' = [job EXCEPT ![w].pc = "kuser", ![w].uid = principals[p].user]
         \/ (\A p \in Pid : ~Resolves(j.name, p)) /\ Done(w)
      /\ UNCHANGED vars

\* ... the id to the account's name, ...
ChangeUser(w) ==
  LET j == job[w]
  IN  /\ j.pc = "kuser"
      /\ IF j.uid \in LiveUsers
         THEN job' = [job EXCEPT ![w].pc = "kpassword", ![w].name = users[j.uid].name]
         ELSE Done(w)
      /\ UNCHANGED vars

\* Faulty variant: the keys change and the digest does not.
ChangePasswordKeysOnly(w) ==
  LET j == job[w]
  IN  /\ j.pc = "kpassword"
      /\ \E u \in Named(j.name) :
           RollKeys(PrincipalsOf(u), j.pw, [p \in PrincipalsOf(u) |-> principals[p].name])
      /\ Done(w)
      /\ UNCHANGED <<users, aliases, pending>>

\* ... and the name to the account whose password is set.
ChangePassword(w) ==
  LET j == job[w]
  IN  /\ j.pc = "kpassword"
      /\ Done(w)
      /\ \/ \E u \in Named(j.name) : SetUserPassword(u, j.pw)
         \/ Named(j.name) = {} /\ UNCHANGED vars

-----------------------------------------------------------------------------

Remove ==
  /\ "delete" \in Ops
  /\ \E u \in Uid : DeleteUser(u)
  /\ Begin("delete")
  /\ UNCHANGED job

Cancel(w) ==
  /\ "cancel" \in Ops
  /\ job[w].pc # "idle" /\ job[w].alive
  /\ job' = [job EXCEPT ![w].alive = FALSE]
  /\ trouble' = trouble \cup {"fault"}
  /\ UNCHANGED vars

Crash ==
  /\ "crash" \in Ops
  /\ ~Quiet
  /\ job' = [w \in Worker |-> NoJob]
  /\ trouble' = trouble \cup {"fault"}
  /\ UNCHANGED vars

\* The next transaction of a request under way.
Continue(w) ==
  /\ \/ Look(w) \/ StoreUser(w) \/ StorePrincipal(w) \/ StorePassword(w)
     \/ UndoAccount(w)
     \/ PatchUpdate(w) \/ SyncList(w) \/ SyncOne(w)
     \/ ModifyPassword(w) \/ ModifyAttributes(w)
     \/ ChangePrincipal(w) \/ ChangeUser(w) \/ ChangePassword(w)
  /\ UNCHANGED trouble

AccountsNext ==
  \/ \E w \in Worker :
       \/ StartCreate(w) \/ StartPatch(w) \/ StartModify(w) \/ StartChange(w)
       \/ Continue(w) \/ Cancel(w)
  \/ Remove
  \/ Crash

AccountsSpec == AccountsInit /\ [][AccountsNext]_allVars

-----------------------------------------------------------------------------
(* Properties. *)

\* With no request in flight, every account has the principal it was created
\* with: whichever step of CreateAccount failed, and whoever created or
\* deleted the same name meanwhile, undoAccount leaves no half account.
Provisioned ==
  Quiet => \A u \in LiveUsers :
             \E p \in PrincipalsOf(u) : principals[p].name = users[u].name

\* ... unless a request was cut short: undoAccount runs with the request's own
\* context, and a crash leaves what was committed.
ProvisionedUnlessCut == "fault" \notin trouble => Provisioned

\* With no request in flight, the principals of a disabled account get no
\* tickets: syncPrincipalEnabled has mirrored the flag.
DisabledReachesKerberos ==
  Quiet => \A p \in LivePrincipals :
             (/\ principals[p].user # NoUser
              /\ users[principals[p].user].disabled)
               => ~principals[p].enabled

\* ... which holds as long as requests came one at a time, completed, and wrote
\* the flag through the API.
DisabledOneAtATime == trouble = {} => DisabledReachesKerberos

\* What requests leave behind once all have ended, in well-typed tables: every
\* account has its principal unless a request was cut short, and a disabled
\* account gets no tickets if requests came one at a time through the API
\* (CreateAccount, undoAccount, syncPrincipalEnabled).
AccountsSettled == JobTypeOK /\ ProvisionedUnlessCut /\ DisabledOneAtATime
=============================================================================
