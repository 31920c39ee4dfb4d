----------------------------- MODULE MCDirectory -----------------------------
(* Membership and rights: an account in gid 1, a group around it, and        *)
(* another around either; two writes build chains, cycles and rights from    *)
(* there.  Identifiers: two users and two groups over numbers inside and     *)
(* outside the range.                                                        *)
EXTENDS Directory, SecurityIds, TLC

CONSTANTS u1, r1, r2, a1, a2, g1, g2

VARIABLE part

MCLists == {l \in SUBSET Gid : Cardinality(l) <= 1}
MCBeneath == {<<"entry", "base">>}
Writer == [action |-> "write", object |-> "base"]
Reader == [action |-> "search", object |-> "*"]
MCCapability == {Writer, Reader}
MCCapLists == {{}, {Writer}, {Reader}}

MCInit ==
  /\ users = (u1 :> [primary |-> 1, others |-> {}, caps |-> {}, disabled |-> FALSE])
  /\ \E l \in {{1}, {2}} :
       groups = (r1 :> [gid |-> 2, includes |-> {1}, caps |-> {}]
                 @@ r2 :> [gid |-> 3, includes |-> l, caps |-> {}])
  /\ session = u1
  /\ ask = NoAsk
  /\ ever = Nowhere /\ always = Nowhere
  /\ edited = 0
  /\ RidsInit
  /\ part \in {"membership", "identifiers"}
  /\ part = "membership" => live = {} /\ posix = [o \in Object |-> 0]
  /\ part = "identifiers" => groups[r2].includes = {1}

MCNext ==
  /\ UNCHANGED part
  /\ \/ part = "membership" /\ DirectoryNext /\ UNCHANGED ridVars
     \/ part = "identifiers" /\ RidsNext /\ UNCHANGED gvars

MCSpec == MCInit /\ [][MCNext]_<<gvars, ridVars, part>> /\ WF_gvars(Answering)
==============================================================================
