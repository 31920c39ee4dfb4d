------------------------------- MODULE MCPlan -------------------------------
(* Three plans: gids clear of each other; a rename; an automatic gid before *)
(* a claimed one.                                                          *)
EXTENDS BootstrapPlan

CONSTANTS users, staff, ops, alice, web, host

group(n, g) == [kind |-> "group", name |-> n, gid |-> g]
user(n) == [kind |-> "user", name |-> n]

MCPlanFile ==
  {<<group(users, 2), group(staff, 0), user(alice)>>,
   <<group(ops, 2), group(users, 3), [kind |-> "principal", name |-> web], [kind |-> "record", name |-> host]>>,
   <<group(staff, 0), group(users, 2), user(alice)>>}
=============================================================================
