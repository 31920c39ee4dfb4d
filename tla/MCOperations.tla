---------------------------- MODULE MCOperations -----------------------------
(* What an operator runs, one thing at a time: processes that start on one   *)
(* database, the bootstrap plan, and keytabs from the API and from ktadd.    *)
EXTENDS Startup, BootstrapPlan, Keytabs, TLC

CONSTANTS p1, p2, HOME, WORK, sid, small, large,
          users, staff, ops, alice, web, host, www, nfs, w1, w2

VARIABLE part

MCInit ==
  /\ StartupInit /\ PlanInit /\ KeytabsInit
  /\ part \in {"start", "plan", "keytabs"}

\* One keytab request or two ktadds at a time; one principal is born once.
KeytabsWithin ==
  LET active == {w \in KWorker : work[w].pc # "idle"}
  IN  /\ Cardinality(active) > 1 => \A w \in active : work[w].tool = "ktadd"
      /\ held[nfs].born = 1

MCNext ==
  /\ UNCHANGED part
  /\ \/ part = "start" /\ StartupNext /\ UNCHANGED <<plvars, ktvars>>
     \/ part = "plan" /\ PlanNext /\ UNCHANGED <<stvars, ktvars>>
     \/ part = "keytabs" /\ ~ raced /\ KeytabsNext /\ KeytabsWithin' /\ UNCHANGED <<stvars, plvars>>

MCSpec == MCInit /\ [][MCNext]_<<stvars, plvars, ktvars, part>>

MCConfig == {[realm |-> HOME, sid |-> NoSid, range |-> small], [realm |-> WORK, sid |-> NoSid, range |-> small],
             [realm |-> HOME, sid |-> sid, range |-> large]}

planGroup(n, g) == [kind |-> "group", name |-> n, gid |-> g]
planUser(n) == [kind |-> "user", name |-> n]

\* Gids clear of each other; a rename; an automatic gid before a claimed one.
MCPlanFile ==
  {<<planGroup(users, 2), planGroup(staff, 0), planUser(alice)>>,
   <<planGroup(ops, 2), planGroup(users, 3), [kind |-> "principal", name |-> web], [kind |-> "record", name |-> host]>>,
   <<planGroup(staff, 0), planGroup(users, 2), planUser(alice)>>}

MCAsks == [t \in {"api", "ktadd"} |-> IF t = "api" THEN {<<web, www>>, <<www, nfs>>} ELSE {<<nfs, www>>}]
MCCanonical == [n \in {web, www, nfs} |-> IF n = www THEN web ELSE n]

Symmetry == Permutations(Process) \cup Permutations(KWorker)
==============================================================================
