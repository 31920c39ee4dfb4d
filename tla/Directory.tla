------------------------------ MODULE Directory ------------------------------
(***************************************************************************)
(* Nested groups, the capabilities accounts and groups hold, and the       *)
(* requests that ask for them (internal/store/{groups,authority,           *)
(* capabilities}.go, internal/api/{groups,auth}.go,                        *)
(* internal/ldapsrv/handler.go).                                           *)
(*                                                                         *)
(* A write is one transaction.  A request is not: it reads the account,    *)
(* then asks for the groups that include a group one query at a time, then *)
(* reads those groups one at a time, and the administrator's writes fall   *)
(* in between.  Rows stand for names, which are unique: a request that     *)
(* names a group names its row.  Request order, gids and rows of a query   *)
(* come in any order.                                                      *)
(***************************************************************************)
EXTENDS Integers, FiniteSets

CONSTANTS
  Account,
  Row,             \* rows of the groups table
  Gid,
  Target,          \* names in the tree, "base" and "entry" among them
  Capability,      \* [action, object]
  Beneath,         \* pairs: an object and a subtree it lies in
  Lists,           \* bound: the lists of gids ...
  CapLists,        \* bound: ... and of capabilities written
  NextEdits        \* bound: writes per behaviour

ASSUME DirectoryAssumption ==
  /\ {"base", "entry"} \subseteq Target
  /\ Capability \subseteq [action : {"search", "write"}, object : Target \cup {"*"}]
  /\ Beneath \subseteq Target \X Target
  /\ Lists \subseteq SUBSET Gid /\ 0 \notin Gid
  /\ CapLists \subseteq SUBSET Capability
  /\ NextEdits \in Nat

VARIABLES
  users,           \* per account: a row, or NoUser
  groups,          \* per row: [gid, includes, caps], or NoGroup
  session,         \* the account an API session names, or "nobody"
  ask,             \* the request under way, or NoAsk
  ever, always,    \* history: edges and holders at some time, and all the time, since ask began
  edited

gvars == <<users, groups, session, ask, ever, always, edited>>

NoUser == [primary |-> 0]
NoGroup == [gid |-> 0]
NoAsk == [pc |-> "idle"]
Nowhere == [edges |-> {}, holders |-> {}]

UserRow == [primary : Gid, others : SUBSET Gid, caps : SUBSET Capability, disabled : BOOLEAN]
GroupRow == [gid : Gid, includes : SUBSET Gid, caps : SUBSET Capability]

There(gs) == {r \in Row : gs[r] # NoGroup}

\* The unique index on gid_number.
GidsDiffer(gs) == \A r, s \in There(gs) : gs[r].gid = gs[s].gid => r = s

DirectoryInit ==
  /\ users \in [Account -> UserRow]
  /\ groups \in [Row -> GroupRow \cup {NoGroup}]
  /\ GidsDiffer(groups)
  /\ session \in Account \cup {"nobody"}
  /\ ask = NoAsk
  /\ ever = Nowhere /\ always = Nowhere
  /\ edited = 0

\* group_includes joined with groups: a gid and a gid that includes it.
Edges(gs) == UNION {{<<i, gs[r].gid>> : i \in gs[r].includes} : r \in There(gs)}

\* CapabilityMatches.
Matches(caps, action, object) ==
  \E c \in caps : c.action = action /\ (c.object \in {"*", object} \/ <<object, c.object>> \in Beneath)

\* The gids of the groups that grant the action on the object.
Holders(gs, action, object) ==
  {gs[r].gid : r \in {x \in There(gs) : Matches(gs[x].caps, action, object)}}

-----------------------------------------------------------------------------
\* The administrator's writes.

\* History: what a write adds to, and takes from, what the request may meet.
Noted(gs) ==
  IF ask = NoAsk THEN UNCHANGED <<ever, always>>
  ELSE LET holders == Holders(gs, ask.action, ask.object)
       IN  /\ ever' = [edges |-> ever.edges \cup Edges(gs), holders |-> ever.holders \cup holders]
           /\ always' = [edges |-> always.edges \cap Edges(gs), holders |-> always.holders \cap holders]

Edit(us, gs) ==
  /\ edited < NextEdits
  /\ edited' = edited + 1
  /\ users' = us /\ groups' = gs
  /\ Noted(gs)
  /\ UNCHANGED <<session, ask>>

\* CreateGroup; the gid is asked for or above every other.
CreateGroup(r, g) ==
  LET gs == [groups EXCEPT ![r] = g]
  IN  groups[r] = NoGroup /\ GidsDiffer(gs) /\ Edit(users, gs)

\* UpdateGroup: the whole row is written back, here with one field changed.
\* References by gid stay.
UpdateGroup(r, g) ==
  LET gs == [groups EXCEPT ![r] = g]
  IN  groups[r] # g /\ GidsDiffer(gs) /\ Edit(users, gs)

\* DeleteGroup takes the memberships and includes of its gid along.
Without(r) ==
  <<[u \in Account |-> IF users[u] = NoUser THEN NoUser
                       ELSE [users[u] EXCEPT !.others = @ \ {groups[r].gid}]],
    [s \in Row |-> IF s = r \/ groups[s] = NoGroup THEN NoGroup
                   ELSE [groups[s] EXCEPT !.includes = @ \ {groups[r].gid}]]>>

\* Nobody's primary group goes.
Deletable(r) ==
  groups[r] # NoGroup /\ \A u \in Account : users[u].primary # groups[r].gid

DeleteGroup(r) == Deletable(r) /\ Edit(Without(r)[1], Without(r)[2])

\* UpdateUser, as far as groups and rights go, and DeleteUser; both, like
\* UpdateGroup, of a row that is there.
UpdateUser(u, row) == users[u] # row /\ Edit([users EXCEPT ![u] = row], groups)

DeleteUser(u) == users[u] # NoUser /\ Edit([users EXCEPT ![u] = NoUser], groups)

-----------------------------------------------------------------------------
\* A request: HasCapability for an account, or GroupMembers of a group.

\* The rows of one query: the groups that include cur, or those it includes.
Found(cur) == IF ask.kind = "members" THEN {e[1] : e \in {x \in Edges(groups) : x[2] = cur}}
              ELSE {e[2] : e \in {x \in Edges(groups) : x[1] = cur}}

\* The request of the given kind has read what it starts from.
Begin(kind, who, target, action, object, own, start) ==
  /\ ask = NoAsk
  /\ ask' = [pc |-> IF own THEN "granted" ELSE "walk", kind |-> kind, who |-> who, target |-> target,
             action |-> action, object |-> object, own |-> own, start |-> start, seen |-> start,
             queue |-> start, left |-> {}]
  /\ ever' = [edges |-> Edges(groups), holders |-> Holders(groups, action, object)]
  /\ always' = ever'
  /\ UNCHANGED <<users, groups, session, edited>>

\* HasCapability, up to the walk.
BeginFor(kind, u, target, action, object) ==
  /\ users[u] # NoUser
  /\ Begin(kind, u, target, action, object, Matches(users[u].caps, action, object),
           {users[u].primary} \cup users[u].others)

\* Search and Delete (Modify asks as Delete does) on a connection bound as u:
\* findBindUser reads the account again.
LdapSearch(u, object) == BeginFor("search", u, "none", "search", object)
LdapDelete(u, target) == BeginFor("delete", u, target, "write", "entry")

\* session: the token names the account, the directory says whether it still
\* administers it; admit asks the same of an account that has just proved
\* itself.
ApiRequest(u) ==
  /\ session = u
  /\ users[u] # NoUser /\ ~ users[u].disabled
  /\ BeginFor("api", u, "none", "write", "base")

SignIn(u) ==
  /\ users[u] # NoUser /\ ~ users[u].disabled
  /\ BeginFor("signin", u, "none", "write", "base")

\* handleGroupMembers, PosixGroups.
Members(r) ==
  /\ groups[r] # NoGroup
  /\ Begin("members", "nobody", r, "none", "base", FALSE, {groups[r].gid})

\* Faulty variant: a gid seen before is asked about again.
WalkAgain(cur) ==
  /\ ask.pc = "walk" /\ cur \in ask.queue
  /\ ask' = [ask EXCEPT !.seen = @ \cup Found(cur), !.queue = (@ \ {cur}) \cup Found(cur)]
  /\ UNCHANGED <<users, groups, session, ever, always, edited>>

\* Faulty variant: the groups found are not asked about.
WalkOnce(cur) ==
  /\ ask.pc = "walk" /\ cur \in ask.queue
  /\ ask' = [ask EXCEPT !.seen = @ \cup Found(cur), !.queue = @ \ {cur}]
  /\ UNCHANGED <<users, groups, session, ever, always, edited>>

\* GroupsContaining and ExpandGroup, one query.
Walk(cur) ==
  /\ ask.pc = "walk" /\ cur \in ask.queue
  /\ ask' = [ask EXCEPT !.seen = @ \cup Found(cur),
                        !.queue = (@ \ {cur}) \cup (Found(cur) \ ask.seen)]
  /\ UNCHANGED <<users, groups, session, ever, always, edited>>

Walked ==
  /\ ask.pc = "walk" /\ ask.queue = {}
  /\ ask' = [ask EXCEPT !.pc = IF ask.kind = "members" THEN "answered" ELSE "groups",
                        !.left = ask.seen]
  /\ UNCHANGED <<users, groups, session, ever, always, edited>>

\* Faulty variant: a group that is gone ends the search.
ReadGroupThere(gid) ==
  /\ ask.pc = "groups" /\ gid \in ask.left
  /\ ask' = CASE gid \in Holders(groups, ask.action, ask.object) -> [ask EXCEPT !.pc = "granted"]
              [] \A r \in There(groups) : groups[r].gid # gid -> [ask EXCEPT !.left = {}]
              [] OTHER -> [ask EXCEPT !.left = @ \ {gid}]
  /\ UNCHANGED <<users, groups, session, ever, always, edited>>

\* GetGroupByGID of each group found, until one grants; one that is gone is
\* passed over.
ReadGroup(gid) ==
  /\ ask.pc = "groups" /\ gid \in ask.left
  /\ ask' = IF gid \in Holders(groups, ask.action, ask.object) THEN [ask EXCEPT !.pc = "granted"]
            ELSE [ask EXCEPT !.left = @ \ {gid}]
  /\ UNCHANGED <<users, groups, session, ever, always, edited>>

Denied ==
  /\ ask.pc = "groups" /\ ask.left = {}
  /\ ask' = [ask EXCEPT !.pc = "denied"]
  /\ UNCHANGED <<users, groups, session, ever, always, edited>>

\* What comes of it: a session, a group or an account less, an answer.
Done ==
  /\ ask.pc \in {"granted", "denied", "answered"}
  /\ session' = IF ask.kind = "signin" /\ ask.pc = "granted" THEN ask.who ELSE session
  /\ LET d == CASE ask.pc # "granted" \/ ask.kind # "delete" -> <<users, groups>>
                [] ask.target \in Row /\ Deletable(ask.target) -> Without(ask.target)
                [] ask.target \in Account -> <<[users EXCEPT ![ask.target] = NoUser], groups>>
                [] OTHER -> <<users, groups>>
     IN  users' = d[1] /\ groups' = d[2]
  /\ ask' = NoAsk
  /\ ever' = Nowhere /\ always' = Nowhere
  /\ UNCHANGED edited

\* A session token runs out.
SessionEnds ==
  /\ session # "nobody"
  /\ session' = "nobody"
  /\ UNCHANGED <<users, groups, ask, ever, always, edited>>

Answering == Walked \/ Denied \/ Done \/ \E g \in Gid : Walk(g) \/ ReadGroup(g)

DirectoryNext ==
  \/ \E r \in Row :
       \/ \E g \in Gid, l \in Lists, c \in CapLists :
            CreateGroup(r, [gid |-> g, includes |-> l, caps |-> c])
       \/ /\ groups[r] # NoGroup
          /\ \/ \E g \in Gid : UpdateGroup(r, [groups[r] EXCEPT !.gid = g])
             \/ \E l \in Lists : UpdateGroup(r, [groups[r] EXCEPT !.includes = l])
             \/ \E c \in CapLists : UpdateGroup(r, [groups[r] EXCEPT !.caps = c])
  \/ \E r \in Row : DeleteGroup(r) \/ Members(r)
  \/ \E u \in Account :
       \/ /\ users[u] # NoUser
          /\ \/ \E g \in Gid : UpdateUser(u, [users[u] EXCEPT !.primary = g])
             \/ \E l \in Lists : UpdateUser(u, [users[u] EXCEPT !.others = l])
             \/ \E c \in CapLists : UpdateUser(u, [users[u] EXCEPT !.caps = c])
             \/ \E d \in BOOLEAN : UpdateUser(u, [users[u] EXCEPT !.disabled = d])
       \/ DeleteUser(u)
       \/ \E o \in Target : LdapSearch(u, o)
       \/ \E t \in Row \cup Account : LdapDelete(u, t)
       \/ ApiRequest(u) \/ SignIn(u)
  \/ SessionEnds
  \/ Answering

\* A request's goroutine runs.
DirectorySpec == DirectoryInit /\ [][DirectoryNext]_gvars /\ WF_gvars(Answering)

-----------------------------------------------------------------------------

\* Type invariant; gids are unique, and what a request still has to ask about
\* it has seen.
DirectoryTypeOK ==
  /\ users \in [Account -> UserRow \cup {NoUser}]
  /\ groups \in [Row -> GroupRow \cup {NoGroup}] /\ GidsDiffer(groups)
  /\ session \in Account \cup {"nobody"}
  /\ edited \in 0..NextEdits
  /\ ask # NoAsk => /\ ask.start \subseteq ask.seen /\ ask.seen \subseteq Gid
                    /\ ask.queue \subseteq ask.seen /\ ask.left \subseteq ask.seen
                    /\ ask.pc # "walk" => ask.queue = {} \/ ask.pc = "granted"

\* The least set that holds gids and is closed under edges.
Reach(gids, edges) ==
  {g \in Gid : \A S \in SUBSET Gid :
     gids \subseteq S /\ (\A e \in edges : e[1] \in S => e[2] \in S) => g \in S}

\* The edges as the request follows them.
Followed(edges) == IF ask.kind = "members" THEN {<<e[2], e[1]>> : e \in edges} ELSE edges

\* Whatever is written while a walk asks about one group after another, in a
\* graph that may have cycles, the groups it ends with lie between those that
\* were reachable all the time and those that were at some time
\* (GroupsContaining, ExpandGroup).
WalkBetween ==
  ask.pc \in {"groups", "answered"} =>
    /\ Reach(ask.start, Followed(always.edges)) \subseteq ask.seen
    /\ ask.seen \subseteq Reach(ask.start, Followed(ever.edges))

\* A right is granted only by something that held while it was asked for, and
\* denied only when no way to it held all the time: a change made before a
\* request begins, in the account, its groups or the groups around them,
\* always decides it, and no answer is older than the request
\* (HasCapability, session, admit).
RightsBetween ==
  /\ ask.pc = "granted" =>
       \/ ask.own
       \/ Reach(ask.start, ever.edges) \cap ever.holders # {}
  /\ ask.pc = "denied" => Reach(ask.start, always.edges) \cap always.holders = {}

\* Every request is answered, cycles of groups included (ExpandGroup: "A cycle
\* in the include graph would otherwise loop forever").
Answered == ask # NoAsk ~> ask = NoAsk

\* The walk's queue and the tables are well typed, and the walk answers for the
\* time it took (GroupsContaining, ExpandGroup).
WalkSound == DirectoryTypeOK /\ WalkBetween
==============================================================================
