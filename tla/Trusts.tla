------------------------------- MODULE Trusts -------------------------------
(***************************************************************************)
(* The trust with one other realm: its row (internal/store/trusts.go), the *)
(* two krbtgt principals that carry its keys, the requests that create,    *)
(* edit and delete it (internal/api/trusts.go), and what the KDC accepts   *)
(* under it (internal/kdc/tgs.go).  The row is one transaction and each    *)
(* principal another; a request may be cut short between them, when its    *)
(* client leaves or the database fails.                                    *)
(***************************************************************************)
EXTENDS Sequences, Naturals

CONSTANTS
  TRequest,      \* management requests in progress
  TSecret,       \* shared passwords
  NoTrust, NoSecret

Side == {"outbound", "inbound"}
Direction == Side \cup {"bidirectional"}

VARIABLES
  trust,         \* the row [direction, enabled], or NoTrust
  shared,        \* per side, the secrets of its krbtgt's current and previous keys
  trequests,     \* TRequest -> [op, secret, left]: what it still has to do
  agreed,        \* history: the secret the trust was created with last
  cut, mixed     \* history: a request was cut short; two of them overlapped

trvars == <<trust, shared, trequests, agreed, cut, mixed>>

TIdle == [op |-> "none", secret |-> NoSecret, left |-> << >>]
NoKeys == [current |-> NoSecret, previous |-> NoSecret]

TrustsInit ==
  /\ trust = NoTrust
  /\ shared = [side \in Side |-> NoKeys]
  /\ trequests = [r \in TRequest |-> TIdle]
  /\ agreed = NoSecret /\ cut = FALSE /\ mixed = FALSE

\* Trust.Allows.
Allows(t, side) == t # NoTrust /\ t.enabled /\ t.direction \in {side, "bidirectional"}

\* A request that comes while another is under way.
Arrives(r) ==
  /\ trequests[r] = TIdle
  /\ mixed' = (mixed \/ \E q \in TRequest : trequests[q] # TIdle)

\* handleCreateTrust, first the row: the realm is unique.  The principals
\* that follow are those the new row allows, so none for a disabled one.
CreateTrust(r, direction, enabled, secret) ==
  /\ Arrives(r) /\ trust = NoTrust
  /\ trust' = [direction |-> direction, enabled |-> enabled]
  /\ LET wanted == SelectSeq(<<"outbound", "inbound">>, LAMBDA side : Allows(trust', side))
     IN  trequests' = [trequests EXCEPT ![r] =
           IF wanted = << >> THEN TIdle ELSE [op |-> "create", secret |-> secret, left |-> wanted]]
  /\ agreed' = secret
  /\ UNCHANGED <<shared, cut>>

\* The request goes on to the next principal, or is answered.
GoneOn(r) == [trequests EXCEPT ![r] =
  IF Len(@.left) = 1 THEN TIdle ELSE [@ EXCEPT !.left = Tail(@)]]

\* handleCreateTrust, a principal: created, or given a new key version when
\* it exists, which keeps the one before (SetKeys).
ShareKey(r) ==
  /\ trequests[r].op = "create"
  /\ shared' = [shared EXCEPT ![Head(trequests[r].left)] =
                  [current |-> trequests[r].secret, previous |-> @.current]]
  /\ trequests' = GoneOn(r)
  /\ UNCHANGED <<trust, agreed, cut, mixed>>

\* handlePatchTrust, UpdateTrust: the row alone.
UpdateTrust(r, direction, enabled) ==
  /\ Arrives(r) /\ trust # NoTrust
  /\ trust' = [direction |-> direction, enabled |-> enabled]
  /\ UNCHANGED <<shared, trequests, agreed, cut>>

\* Faulty variant: only the principal that refers clients outwards goes.
DeleteTrustOutbound(r) ==
  /\ Arrives(r) /\ trust # NoTrust
  /\ trust' = NoTrust
  /\ trequests' = [trequests EXCEPT ![r] = [op |-> "delete", secret |-> NoSecret, left |-> <<"outbound">>]]
  /\ UNCHANGED <<shared, agreed, cut>>

\* handleDeleteTrust, first the row; of one that is gone it answers 404.
DeleteTrust(r) ==
  /\ Arrives(r) /\ trust # NoTrust
  /\ trust' = NoTrust
  /\ trequests' = [trequests EXCEPT ![r] =
                     [op |-> "delete", secret |-> NoSecret, left |-> <<"outbound", "inbound">>]]
  /\ UNCHANGED <<shared, agreed, cut>>

\* handleDeleteTrust, a principal; one that is not there is passed over.
DropKey(r) ==
  /\ trequests[r].op = "delete"
  /\ shared' = [shared EXCEPT ![Head(trequests[r].left)] = NoKeys]
  /\ trequests' = GoneOn(r)
  /\ UNCHANGED <<trust, agreed, cut, mixed>>

\* The request ends between two of its transactions.
CutShort(r) ==
  /\ trequests[r] # TIdle
  /\ trequests' = [trequests EXCEPT ![r] = TIdle]
  /\ cut' = TRUE
  /\ UNCHANGED <<trust, shared, agreed, mixed>>

TrustsNext ==
  \E r \in TRequest :
    \/ \E d \in Direction, e \in BOOLEAN :
         UpdateTrust(r, d, e) \/ \E s \in TSecret : CreateTrust(r, d, e, s)
    \/ ShareKey(r) \/ DeleteTrust(r) \/ DropKey(r) \/ CutShort(r)

TrustsSpec == TrustsInit /\ [][TrustsNext]_trvars

\* What the KDC does under the trust: a referral is sealed with the current
\* key (checkOutboundTrust, then the principal), and a ticket of the other
\* realm opens with any version kept and then meets the row (transitedFor).
Crosses(side, secret) ==
  /\ Allows(trust, side)
  /\ secret # NoSecret
  /\ secret = shared[side].current \/ (side = "inbound" /\ secret = shared[side].previous)

-----------------------------------------------------------------------------

\* A shared principal without a current key has no previous one, and a request in
\* progress has a side left to key or to drop (SetKeys, handleCreateTrust).
TrustsTypeOK ==
  /\ trust # NoTrust => trust.direction \in Direction /\ trust.enabled \in BOOLEAN
  /\ \A side \in Side :
       /\ {shared[side].current, shared[side].previous} \subseteq TSecret \cup {NoSecret}
       /\ shared[side].current = NoSecret => shared[side] = NoKeys
  /\ \A r \in TRequest : trequests[r] # TIdle => trequests[r].left # << >>

TSettled == ~ cut /\ ~ mixed /\ \A r \in TRequest : trequests[r] = TIdle

\* The shared keys go with the relationship: after requests made one at a time
\* and answered, no krbtgt of the pair outlives the row, whichever directions
\* the trust was created with and changed to (handleDeleteTrust).
KeysGoWithTrust == TSettled /\ trust = NoTrust => \A side \in Side : shared[side] = NoKeys

\* Rotation by deleting and re-creating the trust takes: with such requests
\* nothing crosses under a secret but the one the trust was created with last,
\* the previous key version included (handleCreateTrust, SetKeys).
RotationTakes == TSettled => \A side \in Side, s \in TSecret : Crosses(side, s) => s = agreed

\* Keys follow the relationship: none outlives it, and none of an earlier one
\* opens the present one (handleCreateTrust, handleDeleteTrust, SetKeys).
KeysFollowTrust == TrustsTypeOK /\ KeysGoWithTrust /\ RotationTakes
==============================================================================
