---------------------------- MODULE MCBackground -----------------------------
(* The loops of a process and the services around them.  Registration: a     *)
(* web server that is replaced by a new container of the same name and       *)
(* address, and administrators who write at its name, at the server's own    *)
(* name and at a service name.  Enrolment: two requests over three           *)
(* configurations, one of them refused.  Services: a process with all of     *)
(* them and one with the API on the provider's listener.                     *)
EXTENDS DockerDns, VaultEnroll, Services, TLC

CONSTANTS apex, kdc, web, srv, a1, a9, c1, c2, host, r1, r2, l1, l2

VARIABLE part

MCInit ==
  /\ DockerInit /\ VaultInit /\ ServicesInit
  /\ part \in {"registration", "enrolment", "services"}
  /\ part # "services" => enabled = Service

MCNext ==
  /\ UNCHANGED part
  /\ \/ part = "registration" /\ DockerNext /\ UNCHANGED <<vavars, svvars>>
     \/ part = "enrolment" /\ VaultNext /\ UNCHANGED <<dvars, svvars>>
     \/ part = "services" /\ ServicesNext /\ UNCHANGED <<dvars, vavars>>

\* Each part's fairness, when it is what runs; the enrolment owes nothing
\* before a request configures it.
MCFairness ==
  /\ WF_dvars(part = "registration" /\ Tick)
  /\ WF_dvars(part = "registration" /\ Reconcile)
  /\ VaultFairness
  /\ WF_svvars(part = "services" /\ StartSteps)
  /\ WF_svvars(part = "services" /\ RunStops)
  /\ WF_svvars(part = "services" /\ LoopEnds)
  /\ WF_svvars(part = "services" /\ Deadline)

MCSpec == MCInit /\ [][MCNext]_<<dvars, vavars, svvars, part>> /\ MCFairness

MCRequested ==
  {[name |-> web, type |-> "A", value |-> a9], [name |-> srv, type |-> "SRV", value |-> host],
   [name |-> kdc, type |-> "A", value |-> a9], [name |-> srv, type |-> "TXT", value |-> host]}

MCSelected == c1 :> {a1} @@ c2 :> {a1}

MCVConfig == {[ttl |-> 3, before |-> 1, retry |-> 1], [ttl |-> 3, before |-> 2, retry |-> 1],
              [ttl |-> 3, before |-> 3, retry |-> 1]}

MCDeployments == {Service, {"vaultpki", "ldap", "kdc", "oidc"}}
==============================================================================
