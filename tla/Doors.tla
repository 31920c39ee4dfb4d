-------------------------------- MODULE Doors --------------------------------
(***************************************************************************)
(* The doors that share the limiter: the LDAP simple bind, the SASL bind   *)
(* with its three legs, and the management API's sign-in                   *)
(* (internal/ldapsrv/{handler,sasl}.go, internal/api/auth.go).             *)
(*                                                                         *)
(* A connection serves its requests in order; connections and HTTP workers *)
(* interleave, and the clock moves between the steps of a request.  What   *)
(* an account may do once it is in is the module Directory's question.     *)
(***************************************************************************)
EXTENDS Failban

CONSTANTS
  User,
  Service,           \* service principals ...
  Linked,            \* ... and, per service, the account it is linked to or Nobody
  Nobody,
  Conn,              \* LDAP connections
  Worker,            \* HTTP workers of the API
  From,              \* per connection and worker, its address
  Typed,             \* bound: the accounts whose passwords are tried, and
  Ticketed,          \* bound: the principals whose tickets are shown
  HasOTP,            \* accounts with a one-time-code secret
  HandshakeTimeout,
  DMaxNow            \* bound: last tick explored

ASSUME DoorsAssumption ==
  /\ From \in [Conn \cup Worker -> Source]
  /\ Nobody \notin User \cup Service
  /\ Linked \in [Service -> User \cup {Nobody}]
  /\ Typed \subseteq User /\ Ticketed \subseteq User \cup Service
  /\ {HandshakeTimeout, DMaxNow} \subseteq Nat

VARIABLES
  disabled,          \* accounts the administrator disabled
  bound,             \* per connection, the account its bind named
  exchange,          \* per connection, the SASL handshake, or NoExchange
  attempt,           \* per connection and worker, the sign-in it serves
  proved,            \* history: per connection, accounts it gave proof for
  inBlock            \* history: per source, wrong guesses judged since its block began

conns == <<bound, exchange, proved>>
dovars == <<dnow, fvars, disabled, conns, attempt, inBlock>>

NoExchange == [principal |-> Nobody, started |-> 0, challenged |-> FALSE]
NoAttempt == [pc |-> "idle", user |-> Nobody, cred |-> "none"]

DoorsInit ==
  /\ FailbanInit
  /\ disabled = {}
  /\ bound = [c \in Conn |-> Nobody]
  /\ exchange = [c \in Conn |-> NoExchange]
  /\ attempt = [x \in Conn \cup Worker |-> NoAttempt]
  /\ proved = [c \in Conn |-> {}]
  /\ inBlock = [a \in Source |-> 0]

\* What may be presented: the password with its code, the password alone, an
\* application password, or anything else.
Credential == {"full", "nocode", "app", "wrong"}

\* Authenticate.
Outcome(u, cred) ==
  CASE u \in disabled -> "disabled"
    [] cred = "app" -> "app-password"
    [] cred = "nocode" /\ u \in HasOTP -> "bad-otp"
    [] cred \in {"full", "nocode"} -> "ok"
    [] OTHER -> "invalid"

Over(x) == attempt' = [attempt EXCEPT ![x] = NoAttempt]

-----------------------------------------------------------------------------
\* A password at a door: Bind of a connection, handleLogin of a worker.

Waiting(x, u, cred) ==
  attempt' = [attempt EXCEPT ![x] = [pc |-> "judge", user |-> u, cred |-> cred]]

\* The limiter is asked first.
Knock(x, u, cred) ==
  /\ attempt[x] = NoAttempt
  /\ \/ Blocked(From[x], TRUE) /\ UNCHANGED attempt
     \/ Blocked(From[x], FALSE) /\ Waiting(x, u, cred)
  /\ UNCHANGED <<dnow, disabled, conns, inBlock>>

\* A bind is granted to an application password too, the console only to "ok".
LetIn(x, u, cred) ==
  Outcome(u, cred) \in (IF x \in Conn THEN {"ok", "app-password"} ELSE {"ok"})

\* The account is read and the credential judged.
Judge(x) ==
  LET j == attempt[x]
      in == LetIn(x, j.user, j.cred)
  IN  /\ j.pc = "judge"
      /\ attempt' = [attempt EXCEPT ![x] =
           [NoAttempt EXCEPT !.pc = IF in THEN "success" ELSE "failure", !.user = j.user]]
      /\ inBlock' = [inBlock EXCEPT ![From[x]] = IF IsBlocked(From[x]) /\ ~ in THEN @ + 1 ELSE @]
      /\ UNCHANGED <<dnow, fvars, disabled, conns>>

\* A failure is noted; a block that begins counts its guesses afresh.
Fail(a) ==
  /\ NoteFailure(a)
  /\ inBlock' = [inBlock EXCEPT ![a] = IF IsBlocked(a) THEN @ ELSE 0]

\* External: the LDAP library keeps or drops the earlier identity of a
\* connection whose bind failed.
RefuseBind(c) == bound' \in {bound, [bound EXCEPT ![c] = Nobody]}

Failure(x) ==
  /\ attempt[x].pc = "failure"
  /\ Fail(From[x])
  /\ Over(x)
  /\ IF x \in Conn THEN RefuseBind(x) ELSE UNCHANGED bound
  /\ UNCHANGED <<dnow, disabled, exchange, proved>>

BindAs(c, u) ==
  /\ NoteSuccess(From[c])
  /\ bound' = [bound EXCEPT ![c] = u]
  /\ proved' = [proved EXCEPT ![c] = @ \cup {u}]

BindSuccess(c) ==
  /\ attempt[c].pc = "success"
  /\ BindAs(c, attempt[c].user)
  /\ Over(c)
  /\ UNCHANGED <<dnow, disabled, exchange, inBlock>>

\* The API's session follows; see Directory.
LoginSuccess(w) ==
  /\ attempt[w].pc = "success"
  /\ NoteSuccess(From[w])
  /\ Over(w)
  /\ UNCHANGED <<dnow, disabled, conns, inBlock>>

\* Bind with neither name nor password.
BindAnonymously(c) ==
  /\ attempt[c] = NoAttempt
  /\ Blocked(From[c], FALSE)
  /\ bound' = [bound EXCEPT ![c] = Nobody]
  /\ UNCHANGED <<dnow, disabled, exchange, proved, attempt, inBlock>>

-----------------------------------------------------------------------------
\* BindSASL, one leg at a time.  Simple binds on the connection leave the
\* handshake as it is.  A leg that notes a failure or a success marks the
\* source as seen by that.

Leg(c) == attempt[c] = NoAttempt /\ ~ IsBlocked(From[c])

\* exchange: handshakes that took too long are swept.
Exchanges ==
  [c \in Conn |-> IF dnow - exchange[c].started > HandshakeTimeout THEN NoExchange ELSE exchange[c]]

\* accountForPrincipal.
AccountFor(p) ==
  LET u == IF p \in Service THEN Linked[p] ELSE p
  IN  IF u \in disabled THEN Nobody ELSE u

\* saslAccept: an AP-REQ that verifies names the principal.
SaslAccept(c, p) ==
  /\ Leg(c)
  /\ Exchanges[c] = NoExchange
  /\ \/ /\ exchange' = [Exchanges EXCEPT ![c] =
             [principal |-> p, started |-> dnow, challenged |-> FALSE]]
        /\ Blocked(From[c], FALSE)
        /\ UNCHANGED <<inBlock, bound>>
     \/ exchange' = Exchanges /\ Fail(From[c]) /\ RefuseBind(c)
  /\ UNCHANGED <<dnow, disabled, proved, attempt>>

\* saslOfferLayers.
SaslOfferLayers(c) ==
  /\ Leg(c)
  /\ Exchanges[c] # NoExchange /\ ~ Exchanges[c].challenged
  /\ Blocked(From[c], FALSE)
  /\ exchange' = [Exchanges EXCEPT ![c].challenged = TRUE]
  /\ UNCHANGED <<dnow, disabled, bound, proved, attempt, inBlock>>

\* Faulty variant: the connection is bound as the name the client asks for.
SaslCompleteAs(c) ==
  /\ Leg(c)
  /\ Exchanges[c].challenged
  /\ exchange' = [Exchanges EXCEPT ![c] = NoExchange]
  /\ bound' \in {[bound EXCEPT ![c] = u] : u \in User \ disabled}
  /\ NoteSuccess(From[c])
  /\ proved' = [proved EXCEPT ![c] = @ \cup {AccountFor(Exchanges[c].principal)}]
  /\ UNCHANGED <<dnow, disabled, attempt, inBlock>>

\* saslComplete forgets the handshake whatever comes of it: the selection does
\* not verify; or it asks for a layer or another identity, or the principal is
\* no account; or the connection is bound.
SaslComplete(c) ==
  LET u == AccountFor(Exchanges[c].principal)
  IN  /\ Leg(c)
      /\ Exchanges[c].challenged
      /\ exchange' = [Exchanges EXCEPT ![c] = NoExchange]
      /\ \/ Fail(From[c]) /\ RefuseBind(c) /\ UNCHANGED proved
         \/ Blocked(From[c], FALSE) /\ RefuseBind(c) /\ UNCHANGED <<inBlock, proved>>
         \/ u # Nobody /\ BindAs(c, u) /\ UNCHANGED inBlock
      /\ UNCHANGED <<dnow, disabled, attempt>>

-----------------------------------------------------------------------------

Disable(u) ==
  /\ u \notin disabled
  /\ disabled' = disabled \cup {u}
  /\ UNCHANGED <<dnow, fvars, conns, attempt, inBlock>>

DTick ==
  /\ dnow < DMaxNow
  /\ dnow' = dnow + 1
  /\ UNCHANGED <<fvars, disabled, conns, attempt, inBlock>>

DoorsNext ==
  \/ \E x \in Conn \cup Worker :
       \/ \E u \in Typed : \E cred \in Credential : Knock(x, u, cred)
       \/ Judge(x) \/ Failure(x)
  \/ \E c \in Conn :
       \/ BindSuccess(c) \/ BindAnonymously(c)
       \/ \E p \in Ticketed : SaslAccept(c, p)
       \/ SaslOfferLayers(c) \/ SaslComplete(c)
  \/ \E w \in Worker : LoginSuccess(w)
  \/ \E u \in User : Disable(u)
  \/ DTick

DoorsSpec == DoorsInit /\ [][DoorsNext]_dovars

-----------------------------------------------------------------------------

\* Type invariant; a handshake is as young as the clock.
DoorsTypeOK ==
  /\ disabled \subseteq User
  /\ bound \in [Conn -> User \cup {Nobody}]
  /\ exchange \in [Conn -> [principal : User \cup Service \cup {Nobody}, started : 0..dnow,
                            challenged : BOOLEAN]]
  /\ \A x \in Conn \cup Worker : attempt[x].pc # "idle" => attempt[x].user \in User
  /\ \A a \in Source : Len(sources[a].failures) < Threshold /\ sources[a].lastSeen <= dnow

\* Once a source is blocked, only the attempts that were past the limiter when
\* the block began still have their password judged, whichever doors they
\* came to (Blocked, NoteFailure).
InFlightOnly ==
  \A a \in Source : IsBlocked(a) => inBlock[a] <= Cardinality(Conn \cup Worker) - 1

\* A connection acts only in a name for which it itself gave proof, a password
\* or a whole SASL handshake, however binds and handshakes interleave on it
\* and on others (Bind, saslComplete).
BoundByProof == \A c \in Conn : bound[c] # Nobody => bound[c] \in proved[c]

\* The limiter does what it promises at every door: enough failures block, only
\* they do, and in a block only what was under way is judged (failban.go).
BlocksHold == DoorsTypeOK /\ ThresholdBlocks /\ BlockExplained /\ InFlightOnly
==============================================================================
