-------------------------------- MODULE MCKdc --------------------------------
(* The KDC's four concerns, one at a time: the tickets it issues, its replay *)
(* cache (with clients whose clocks are as far ahead, as far behind and as   *)
(* close to its own as the skew allows), the lockout of a principal, and     *)
(* the keys of a cross-realm trust.                                          *)
EXTENDS Tickets, ReplayCache, Lockout, Trusts, TLC

CONSTANTS alice, web, db, ra, rb, ahead, behind, level, w1, w2, a1, a2, q1, q2, s1, s2

VARIABLE concern

MCInit ==
  /\ TicketsInit /\ ReplayInit /\ LockoutInit /\ TrustsInit
  /\ concern \in {"tickets", "replays", "lockout", "trusts"}
  /\ concern # "tickets" => forwarders = {}

MCNext ==
  /\ UNCHANGED concern
  /\ \/ concern = "tickets" /\ TicketsNext /\ UNCHANGED <<replayVars, lockVars, trvars>>
     \/ concern = "replays" /\ ReplayNext /\ UNCHANGED <<vars, lockVars, trvars>>
     \/ concern = "lockout" /\ LockoutNext /\ UNCHANGED <<vars, replayVars, trvars>>
     \/ concern = "trusts" /\ TrustsNext /\ UNCHANGED <<vars, replayVars, lockVars>>

MCSpec == MCInit /\ [][MCNext]_<<vars, replayVars, lockVars, trvars, concern>>

\* Tickets for db live half as long as the realm allows.
MCTicketLife == [p \in Principal |-> IF p = db THEN 1 ELSE 0]

MCRenewableLife == [p \in Principal |-> 0]

MCDelegates == {<<web, db>>}

MCImpersonates == [v \in Service |-> IF v = web THEN {} ELSE {alice}]

\* The bodies that differ in what they ask for: a time comes with the option
\* that gives it meaning, plain tickets are asked for with and without leave
\* to forward, and one starts in the future without POSTDATED.
Plain(b) == b.till = 0 /\ b.rtime = 0 /\ ~b.renewable /\ ~b.renewableOK

Bodies ==
  {b \in AnyBody :
     /\ b.postdated = (b.from # 0)
     /\ b.rtime # 0 => b.renewable /\ ~b.postdated
     /\ b.renewableOK => ~b.renewable /\ b.till # 0
     /\ b.forwardable \/ Plain(b)}
  \cup {b \in AnyBody : ~b.postdated /\ b.from # 0 /\ Plain(b) /\ ~b.forwardable}

MCBody == Bodies

MCCTime == ahead :> 4 @@ behind :> 2 @@ level :> 3
==============================================================================
