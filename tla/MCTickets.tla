----------------------------- MODULE MCTickets ------------------------------
(* Small instances of Tickets for TLC. *)
EXTENDS Tickets

CONSTANTS alice, web, db, ra, rb

\* Tickets for db live half as long as the realm allows.
MCTicketLife == [p \in Principal |-> IF p = db THEN 1 ELSE 0]

MCRenewableLife == [p \in Principal |-> 0]

MCDelegates == {<<web, db>>}

MCImpersonates == [v \in Service |-> IF v = web THEN {} ELSE {alice}]

\* The bodies that differ in what they ask for: a time comes with the option
\* that gives it meaning, and one starts in the future without POSTDATED.
MCBody ==
  {b \in AnyBody :
     /\ b.postdated = (b.from # 0)
     /\ b.rtime # 0 => b.renewable
     /\ b.renewableOK => ~b.renewable /\ b.till # 0}
  \cup {b \in AnyBody :
          /\ ~b.postdated /\ b.from # 0 /\ b.till = 0 /\ b.rtime = 0
          /\ ~b.renewable /\ ~b.renewableOK /\ ~b.forwardable}
=============================================================================
