--------------------------- MODULE Registrations ----------------------------
(***************************************************************************)
(* What the registration of containers promises, without its steps, its    *)
(* reads, its events or its failures: the registrations follow the list    *)
(* the daemon gave last.                                                   *)
(***************************************************************************)

CONSTANTS
  Registration,   \* the registrations there can be
  World,          \* the states a daemon's list can show
  Calls(_)        \* the registrations a list calls for

VARIABLES
  world,          \* the containers now
  listed,         \* the list the daemon gave last
  held            \* the registrations of the zone

rvars == <<world, listed, held>>

RegistrationsInit ==
  /\ world \in World
  /\ listed = world
  /\ held = {}

\* Containers start, stop and are renamed.
WorldMoves == world' \in World /\ UNCHANGED <<listed, held>>

\* The daemon is asked.
ListTaken == listed' = world /\ UNCHANGED <<world, held>>

\* A registration appears only when the last list calls for it, and goes only
\* when it does not.
Registered(r) ==
  /\ r \in Calls(listed) \ held
  /\ held' = held \cup {r}
  /\ UNCHANGED <<world, listed>>

Unregistered(r) ==
  /\ r \in held \ Calls(listed)
  /\ held' = held \ {r}
  /\ UNCHANGED <<world, listed>>

RegistrationsNext ==
  \/ WorldMoves
  \/ ListTaken
  \/ \E r \in Registration : Registered(r) \/ Unregistered(r)

RegistrationsSpec == RegistrationsInit /\ [][RegistrationsNext]_rvars
=============================================================================
