------------------------------- MODULE MCSignIn -------------------------------
(* The doors behind the limiter: one client address with an LDAP connection *)
(* and API workers.  The OpenID provider: one person, an application and a  *)
(* token audience, with two requests at a time.                             *)
EXTENDS Doors, Oidc, TLC

CONSTANTS here, bob, svc

VARIABLE part

MCInit == DoorsInit /\ OidcInit /\ part \in {"doors", "provider"}

\* Once a second session has begun or a second code was issued, one request
\* at a time.
OneAtATimeLater ==
  Sid \subseteq drawn \/ Code \subseteq drawn => Cardinality({b \in Browser : job[b].pc # "idle"}) <= 1

MCNext ==
  /\ UNCHANGED part
  /\ \/ part = "doors" /\ DoorsNext /\ Cardinality(disabled') <= 1 /\ UNCHANGED ovars
     \/ part = "provider" /\ OidcNext /\ OneAtATimeLater' /\ UNCHANGED dovars

MCSpec == MCInit /\ [][MCNext]_<<dovars, ovars, part>>

MCFrom == [x \in Conn \cup Worker |-> here]
MCLinked == svc :> bob

Symmetry == Permutations(Browser) \cup Permutations(Code)
==============================================================================
