---------------------------- MODULE BootstrapPlan ----------------------------
(***************************************************************************)
(* The bootstrap plan (bootstrap.go: Apply), applied item by item at every  *)
(* start before a listener accepts, to the directory that earlier starts   *)
(* and the administrators left.  A start may fail or die at any item, and  *)
(* the next one may bring another plan.  A group is identified by its gid, *)
(* as the plan does; an account is created in three transactions.          *)
(***************************************************************************)
EXTENDS Naturals, Sequences, FiniteSetsExt

CONSTANTS
  GroupName, UserName, ServiceName, HostRecord,
  NoGroup,         \* a gid nobody holds
  PlanFile,        \* plans that pass Validate: sequences of items, groups first
  Floor, MaxGid,   \* where automatic gids start; bound on gids
  MaxEvents        \* bound: starts and administrators' changes

ASSUME PlanAssumption ==
  /\ {Floor, MaxGid, MaxEvents} \subseteq Nat \ {0} /\ Floor <= MaxGid
  /\ NoGroup \notin GroupName
  /\ \A plan \in PlanFile : \A i, j \in 1..Len(plan) :
       i # j => <<plan[i].kind, plan[i].name>> # <<plan[j].kind, plan[j].name>>

Gid == 1..MaxGid

VARIABLES
  groupAt,         \* Gid -> the name of the group that holds it
  accounts,        \* UserName -> "none", "row", "keyed" (principal, random keys), "set" or "changed" (password)
  services,        \* service principals created
  records,         \* stored DNS records
  start,           \* the process: [phase, plan, at, clear]
  last,            \* the plan and the directory when the service last came up, while nothing has changed
  cut,             \* history: a start died inside CreateAccount
  events

plvars == <<groupAt, accounts, services, records, start, last, cut, events>>

Contents == <<groupAt, accounts, services, records>>
Stopped == [phase |-> "down", plan |-> <<>>, at |-> 1, clear |-> FALSE]
Unknown == [plan |-> <<>>, contents |-> <<>>]

PlanInit ==
  /\ groupAt = [g \in Gid |-> NoGroup] /\ accounts = [u \in UserName |-> "none"]
  /\ services = {} /\ records = {}
  /\ start = Stopped /\ last = Unknown /\ cut = FALSE /\ events = 0

GroupsOf(plan) == {plan[i] : i \in {k \in 1..Len(plan) : plan[k].kind = "group"}}

\* The plan's gids are out of each other's way: each is claimed once, before
\* any automatic one is handed out, and held by no other group of the plan.
Clear(plan) ==
  /\ \A i, j \in 1..Len(plan) :
       (i < j /\ plan[i].kind = "group" /\ plan[j].kind = "group" /\ plan[j].gid # 0) => plan[i].gid \notin {0, plan[j].gid}
  /\ \A g, h \in GroupsOf(plan) : (g.gid # 0 /\ groupAt[g.gid] = h.name) => g = h

Start(plan) ==
  /\ start.phase = "down" /\ events < MaxEvents
  /\ start' = [phase |-> "applying", plan |-> plan, at |-> 1, clear |-> Clear(plan)]
  /\ last' = IF last.plan = plan THEN last ELSE Unknown
  /\ events' = events + 1
  /\ UNCHANGED <<groupAt, accounts, services, records, cut>>

Applying(kind) ==
  /\ start.phase = "applying" /\ start.at <= Len(start.plan)
  /\ start.plan[start.at].kind = kind

Item == start.plan[start.at]
Onward == start' = [start EXCEPT !.at = @ + 1]

\* store.NextGIDNumber.
NextGid ==
  LET held == {g \in Gid : groupAt[g] # NoGroup}
      highest == IF held = {} THEN 0 ELSE Max(held)
  IN  IF highest < Floor THEN Floor ELSE highest + 1

Known(name) == \E g \in Gid : groupAt[g] = name

\* Faulty variant: an automatic number may be one the directory already uses.
ApplyGroupAtFloor ==
  /\ Applying("group")
  /\ groupAt' = IF Known(Item.name) THEN groupAt
                ELSE [groupAt EXCEPT ![IF Item.gid # 0 THEN Item.gid ELSE Floor] = Item.name]
  /\ Onward /\ UNCHANGED <<accounts, services, records, last, cut, events>>

\* Faulty variant: a number is handed out before the name is looked up.
ApplyGroupRenumbered ==
  LET gid == IF Item.gid # 0 THEN Item.gid ELSE NextGid
  IN  /\ Applying("group") /\ gid \in Gid
      /\ groupAt' = [g \in Gid |-> IF g = gid THEN Item.name ELSE IF groupAt[g] = Item.name THEN NoGroup ELSE groupAt[g]]
      /\ Onward /\ UNCHANGED <<accounts, services, records, last, cut, events>>

\* applyGroup: known by name it is left alone; known by number it is renamed.
ApplyGroup ==
  LET gid == IF Item.gid # 0 THEN Item.gid ELSE NextGid
  IN  /\ Applying("group")
      /\ IF Known(Item.name) THEN UNCHANGED groupAt
         ELSE gid \in Gid /\ groupAt' = [groupAt EXCEPT ![gid] = Item.name]
      /\ Onward /\ UNCHANGED <<accounts, services, records, last, cut, events>>

\* applyUser: an account that is there is left alone.  CreateAccount: the row.
ApplyUser ==
  /\ Applying("user")
  /\ IF accounts[Item.name] # "none" THEN Onward /\ UNCHANGED accounts
     ELSE accounts' = [accounts EXCEPT ![Item.name] = "row"] /\ start' = [start EXCEPT !.phase = "creating"]
  /\ UNCHANGED <<groupAt, services, records, last, cut, events>>

\* CreateAccount: the principal under random keys, then the password.
CreateAccount ==
  /\ start.phase = "creating"
  /\ IF accounts[Item.name] = "row"
     THEN accounts' = [accounts EXCEPT ![Item.name] = "keyed"] /\ UNCHANGED start
     ELSE /\ accounts' = [accounts EXCEPT ![Item.name] = "set"]
          /\ start' = [start EXCEPT !.phase = "applying", !.at = @ + 1]
  /\ UNCHANGED <<groupAt, services, records, last, cut, events>>

\* CreateAccount, undoAccount: a later step fails and the start with it.
AccountFails ==
  /\ start.phase = "creating"
  /\ accounts' = [accounts EXCEPT ![Item.name] = "none"]
  /\ start' = Stopped /\ last' = Unknown
  /\ UNCHANGED <<groupAt, services, records, cut, events>>

ApplyPrincipal ==
  /\ Applying("principal")
  /\ services' = services \cup {Item.name}
  /\ Onward /\ UNCHANGED <<groupAt, accounts, records, last, cut, events>>

ApplyDNSRecord ==
  /\ Applying("record")
  /\ records' = records \cup {Item.name}
  /\ Onward /\ UNCHANGED <<groupAt, accounts, services, last, cut, events>>

\* The plan is through and the listeners start.
Serve ==
  /\ start.phase = "applying" /\ start.at > Len(start.plan)
  /\ start' = [start EXCEPT !.phase = "up"]
  /\ last' = [plan |-> start.plan, contents |-> Contents]
  /\ UNCHANGED <<groupAt, accounts, services, records, cut, events>>

\* The process ends: a shutdown, a failed item, or a crash or a signal inside
\* CreateAccount, whose undo does not run or fails with its context.
Ends ==
  /\ start.phase # "down"
  /\ start' = Stopped
  /\ last' = IF start.phase = "up" THEN last ELSE Unknown
  /\ cut' = (cut \/ start.phase = "creating")
  /\ UNCHANGED <<groupAt, accounts, services, records, events>>

\* An administrator's change, through the API.
Administers ==
  /\ start.phase = "up" /\ events < MaxEvents
  /\ \/ \E g \in Gid, n \in GroupName \cup {NoGroup} :
          /\ (groupAt[g] = NoGroup) # (n = NoGroup) /\ ~ (n # NoGroup /\ Known(n))
          /\ groupAt' = [groupAt EXCEPT ![g] = n] /\ UNCHANGED <<accounts, services, records>>
     \/ \E u \in UserName :
          /\ accounts[u] # "none"
          /\ \/ accounts' = [accounts EXCEPT ![u] = "none"]
             \/ accounts[u] # "row" /\ accounts' = [accounts EXCEPT ![u] = "changed"]
          /\ UNCHANGED <<groupAt, services, records>>
     \/ \E s \in services : services' = services \ {s} /\ UNCHANGED <<groupAt, accounts, records>>
     \/ \E r \in records : records' = records \ {r} /\ UNCHANGED <<groupAt, accounts, services>>
  /\ last' = Unknown /\ events' = events + 1
  /\ UNCHANGED <<start, cut>>

PlanNext ==
  \/ \E plan \in PlanFile : Start(plan)
  \/ ApplyGroup \/ ApplyUser \/ CreateAccount \/ AccountFails \/ ApplyPrincipal \/ ApplyDNSRecord
  \/ Serve \/ Ends \/ Administers

PlanSpec == PlanInit /\ [][PlanNext]_plvars

-----------------------------------------------------------------------------

\* Names are unique among groups, and an account is half made only while it is
\* being created, or for good once a start has died in the middle of it.
PlanTypeOK ==
  /\ \A g, h \in Gid : groupAt[g] = groupAt[h] => g = h \/ groupAt[g] = NoGroup
  /\ start.at \in 1..(Len(start.plan) + 1) /\ services \subseteq ServiceName /\ records \subseteq HostRecord
  /\ (start.phase # "creating" /\ ~ cut) => \A u \in UserName : accounts[u] \in {"none", "set", "changed"}

\* Everything the plan names is in the directory.
InPlace(plan) == \A i \in 1..Len(plan) :
  CASE plan[i].kind = "group"     -> Known(plan[i].name)
    [] plan[i].kind = "user"      -> accounts[plan[i].name] \in {"set", "changed"}
    [] plan[i].kind = "principal" -> plan[i].name \in services
    [] OTHER                      -> plan[i].name \in records

\* A client that reaches the service reaches a directory that holds what the
\* plan describes, whatever the starts before it and the administrators did,
\* when the plan's gids are clear of each other and no start died inside
\* CreateAccount (Apply, before the listeners).
PlanInPlace ==
  (last.plan = start.plan /\ start.phase = "up" /\ start.clear /\ ~ cut) => InPlace(start.plan)

\* The same without the proviso on the gids.
PlanAlwaysInPlace ==
  (last.plan = start.plan /\ start.phase = "up" /\ ~ cut) => InPlace(start.plan)

\* A restart is not a reset: a start with the plan the service last came up
\* with, and nothing changed since, writes nothing at all (Apply).
RestartWritesNothing ==
  (start.phase \in {"applying", "creating", "up"} /\ last.plan = start.plan /\ start.clear) => last.contents = Contents

\* The directory a start leaves is well formed and holds the plan (Apply).
PlanSound == PlanTypeOK /\ PlanInPlace
==============================================================================
