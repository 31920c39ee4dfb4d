----------------------------- MODULE DockerDns ------------------------------
(***************************************************************************)
(* The registration of containers in the zone (internal/dockerdns): one    *)
(* goroutine watches the daemon's events and asks for a reconciliation,    *)
(* another reconciles when asked, on a ticker, and when it starts.         *)
(*                                                                         *)
(* A reconciliation reads the daemon's list, reads the registrations, and  *)
(* then makes one transaction per difference, creations first.  Containers *)
(* come and go, administrators write, the daemon drops out and the process *)
(* restarts between any two of those steps.                                *)
(***************************************************************************)
EXTENDS Zone

CONSTANTS
  ContainerName,  \* the names containers run under, in the zone
  NoName,         \* a container that does not run
  NoRow,
  Selected,       \* per container, its addresses on the selected networks
  MaxChanges      \* bound: changes outside the reconciler, and failures

ASSUME DockerAssumption ==
  /\ ContainerName \subseteq Name
  /\ NoName \notin Name
  /\ NoRow \notin Row
  /\ Selected \in [Container -> SUBSET Address]
  /\ MaxChanges \in Nat

VARIABLES
  running,        \* per container, the name it runs under
  daemon,         \* the daemon answers
  stream,         \* the event stream is connected
  wake, due,      \* the two channels the loop selects on, of capacity one
  pc,             \* the reconciler: idle, list, read, create, delete
  listed,         \* the containers as listed last
  have,           \* the registrations as read
  todo,           \* what this pass of the reconciliation has left
  cand,           \* a record found free of administrators, about to be created
  undisturbed,    \* history: nothing moved or failed since the list was taken
  changes

loop == <<pc, listed, have, todo, cand>>
dvars == <<rows, serial, running, daemon, stream, wake, due, loop, undisturbed, changes>>

World == [Container -> ContainerName \cup {NoName}]

\* desired: one address record per running container and selected address.
Desired(w) ==
  {r \in [name : Name, type : {"A"}, value : Address, origin : Container] :
     w[r.origin] = r.name /\ r.value \in Selected[r.origin]}

\* ListDiscoveredDNSRecords.
Discovered == {r \in rows : r.origin # Admin}

\* administered.
Administered(n) == \E r \in rows : r.name = n /\ r.origin = Admin

DockerInit ==
  /\ ZoneInit
  /\ running = [c \in Container |-> NoName]
  /\ daemon = TRUE /\ stream = FALSE
  /\ wake = FALSE /\ due = FALSE
  /\ pc = "list"
  /\ listed = running
  /\ have = {} /\ todo = {} /\ cand = NoRow
  /\ undisturbed = FALSE
  /\ changes = 0

-----------------------------------------------------------------------------
\* The daemon and its containers.  External: Docker keeps names and addresses
\* distinct among running containers.

Disturb == changes < MaxChanges /\ changes' = changes + 1 /\ undisturbed' = FALSE

\* streamEvents, signal: an event of a connected stream asks for a reconciliation.
Signal == wake' = (wake \/ stream)

FreeFor(c, n) ==
  \A d \in Container \ {c} :
    running[d] # NoName => running[d] # n /\ Selected[d] \cap Selected[c] = {}

\* A container starts, or is renamed in place.
ContainerNamed(c, n) ==
  /\ running[c] # n
  /\ FreeFor(c, n)
  /\ running' = [running EXCEPT ![c] = n]
  /\ Signal /\ Disturb
  /\ UNCHANGED <<rows, serial, daemon, stream, due, loop>>

ContainerStops(c) ==
  /\ running[c] # NoName
  /\ running' = [running EXCEPT ![c] = NoName]
  /\ Signal /\ Disturb
  /\ UNCHANGED <<rows, serial, daemon, stream, due, loop>>

DaemonFails ==
  /\ daemon
  /\ daemon' = FALSE /\ stream' = FALSE
  /\ Disturb
  /\ UNCHANGED <<rows, serial, running, wake, due, loop>>

DaemonReturns ==
  /\ ~ daemon
  /\ daemon' = TRUE
  /\ UNCHANGED <<rows, serial, running, stream, wake, due, loop, undisturbed, changes>>

StreamBreaks ==
  /\ stream
  /\ stream' = FALSE
  /\ Disturb
  /\ UNCHANGED <<rows, serial, running, daemon, wake, due, loop>>

\* watch: reconnects after its backoff; what it missed it does not ask for.
Watch ==
  /\ daemon /\ ~ stream
  /\ stream' = TRUE
  /\ UNCHANGED <<rows, serial, running, daemon, wake, due, loop, undisturbed, changes>>

Administrator ==
  /\ Administer
  /\ Disturb
  /\ UNCHANGED <<running, daemon, stream, wake, due, loop>>

\* Shutdown, or a crash, and Start: the records stay and the loop begins anew.
Restart ==
  /\ pc' = "list"
  /\ have' = {} /\ todo' = {} /\ cand' = NoRow
  /\ stream' = FALSE /\ wake' = FALSE /\ due' = FALSE
  /\ Disturb
  /\ UNCHANGED <<rows, serial, running, daemon, listed>>

-----------------------------------------------------------------------------
\* The loop of run.

outside == <<running, daemon, stream, changes>>

\* Faulty variant: the ticker only repeats what an event already asked for.
TickWithEvents ==
  /\ ~ due
  /\ due' = wake
  /\ UNCHANGED <<rows, serial, outside, wake, loop, undisturbed>>

Tick ==
  /\ ~ due
  /\ due' = TRUE
  /\ UNCHANGED <<rows, serial, outside, wake, loop, undisturbed>>

Begin ==
  /\ pc = "idle"
  /\ \/ wake /\ wake' = FALSE /\ UNCHANGED due
     \/ due /\ due' = FALSE /\ UNCHANGED wake
  /\ pc' = "list"
  /\ UNCHANGED <<rows, serial, outside, listed, have, todo, cand, undisturbed>>

\* containers: a daemon that does not answer ends the reconciliation.
List ==
  /\ pc = "list"
  /\ \/ /\ daemon
        /\ listed' = running
        /\ undisturbed' = TRUE
        /\ pc' = "read"
     \/ ~ daemon /\ pc' = "idle" /\ UNCHANGED <<listed, undisturbed>>
  /\ UNCHANGED <<rows, serial, outside, wake, due, have, todo, cand>>

\* The registrations are read, and the difference is what is left to create.
Read ==
  /\ pc = "read"
  /\ have' = Discovered
  /\ todo' = Desired(listed) \ Discovered
  /\ pc' = "create"
  /\ UNCHANGED <<rows, serial, outside, wake, due, listed, cand, undisturbed>>

Check(r) ==
  /\ pc = "create" /\ cand = NoRow
  /\ r \in todo
  /\ todo' = todo \ {r}
  /\ cand' = IF Administered(r.name) THEN NoRow ELSE r
  /\ UNCHANGED <<rows, serial, outside, wake, due, pc, listed, have, undisturbed>>

\* CreateDiscoveredDNSRecord: a conflict is passed over.
Create ==
  /\ pc = "create" /\ cand # NoRow
  /\ \/ InsertDNSRecord(cand, cand.origin)
     \/ Duplicate(cand) /\ UNCHANGED <<rows, serial>>
  /\ cand' = NoRow
  /\ UNCHANGED <<outside, wake, due, pc, listed, have, todo, undisturbed>>

Created ==
  /\ pc = "create" /\ cand = NoRow /\ todo = {}
  /\ todo' = have \ Desired(listed)
  /\ have' = {}
  /\ pc' = "delete"
  /\ UNCHANGED <<rows, serial, outside, wake, due, listed, cand, undisturbed>>

\* DeleteDiscoveredDNSRecord.
Delete(r) ==
  /\ pc = "delete"
  /\ r \in todo
  /\ RemoveRows({r} \cap rows)
  /\ todo' = todo \ {r}
  /\ UNCHANGED <<outside, wake, due, pc, listed, have, cand, undisturbed>>

Deleted ==
  /\ pc = "delete" /\ todo = {}
  /\ pc' = "idle"
  /\ UNCHANGED <<rows, serial, outside, wake, due, listed, have, todo, cand, undisturbed>>

\* A failing read ends the reconciliation, any other failure passes one record over.
StoreFails ==
  /\ \/ pc = "read" /\ pc' = "idle" /\ UNCHANGED <<todo, cand>>
     \/ pc = "create" /\ cand # NoRow /\ cand' = NoRow /\ UNCHANGED <<pc, todo>>
     \/ /\ pc \in {"create", "delete"} /\ cand = NoRow
        /\ \E r \in todo : todo' = todo \ {r}
        /\ UNCHANGED <<pc, cand>>
  /\ Disturb
  /\ UNCHANGED <<rows, serial, running, daemon, stream, wake, due, listed, have>>

Reconcile ==
  \/ Begin \/ List \/ Read \/ Create \/ Created \/ Deleted
  \/ \E r \in todo : Check(r) \/ Delete(r)

DockerNext ==
  \/ \E c \in Container : ContainerStops(c) \/ \E n \in ContainerName : ContainerNamed(c, n)
  \/ DaemonFails \/ DaemonReturns \/ StreamBreaks \/ Watch
  \/ Administrator \/ Restart \/ StoreFails
  \/ Tick \/ Reconcile

\* The ticker fires and the goroutine runs; that is all the code itself gives.
DockerSpec == DockerInit /\ [][DockerNext]_dvars /\ WF_dvars(Tick) /\ WF_dvars(Reconcile)

-----------------------------------------------------------------------------

\* Type invariant; a registration about to be removed is still in the table,
\* since nothing else removes one.
DockerTypeOK ==
  /\ ZoneTypeOK
  /\ running \in World /\ listed \in World
  /\ {daemon, stream, wake, due, undisturbed} \subseteq BOOLEAN
  /\ pc \in {"idle", "list", "read", "create", "delete"}
  /\ have \subseteq Discovered
  /\ pc # "create" => have = {}
  /\ pc = "create" => todo \subseteq Desired(listed) /\ cand \in Desired(listed) \cup {NoRow}
  /\ pc = "delete" => todo \subseteq Discovered \ Desired(listed)
  /\ pc # "create" => cand = NoRow
  /\ pc \notin {"create", "delete"} => todo = {}
  /\ changes \in 0..MaxChanges

Abstract == INSTANCE Registrations
  WITH Registration <- [name : Name, type : {"A"}, value : Address, origin : Container],
       Calls <- Desired, world <- running, held <- Discovered

\* The reconciliation implements its promise: whatever fails or moves between
\* its steps, and whatever administrators delete, a registration appears only
\* when the daemon's last list calls for it and goes only when it does not, so
\* an outage removes nothing (reconcile, DeleteDNSRecord).
RegistrationsFollowList == Abstract!RegistrationsSpec

\* The registrations are those the running containers call for, but for names
\* an administrator holds.
InLine ==
  /\ Discovered \subseteq Desired(running)
  /\ \A r \in Desired(running) \ Discovered : Administered(r.name)

\* Once the containers and administrators come to rest and the daemon answers
\* for good, the zone comes into line and stays there, whatever events were
\* missed, whichever steps failed and wherever the process was restarted
\* (run, watch, reconcile).
ComesIntoLine == <>[]daemon => <>[]InLine

\* A reconciliation during which nothing moved and nothing failed leaves the
\* registrations in line with the running containers (reconcile).
InLineAfterReconcile == pc = "idle" /\ undisturbed => InLine

\* Whatever the reconciler and the administrators have stored by now, forward
\* and reverse agree and discovery is answered, and the reconciler's worklists
\* are those of its last list (reconcile, records, reverseNames).
AnswersAgree == DockerTypeOK /\ ReverseAgrees /\ DiscoveryAnswered
=============================================================================
