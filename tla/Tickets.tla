------------------------------- MODULE Tickets -------------------------------
(***************************************************************************)
(* The life of a Kerberos ticket: the AS exchange that issues it           *)
(* (kdc/as.go) and the TGS exchanges that derive another from it, renew    *)
(* it, validate it or delegate with it (kdc/tgs.go, kdc/ticket.go).        *)
(*                                                                         *)
(* The KDC keeps no tickets.  What it grants depends on the ticket         *)
(* presented, the clock and the directory, so `tkt` follows one ticket     *)
(* from login through any chain of exchanges; every ticket the KDC can     *)
(* issue is the last of some chain.  A service that acts for a user can    *)
(* log in with its keytab whenever it likes, so its own ticket is taken to *)
(* be at hand.  Names, keys, PACs and enctypes are abstracted; how an AS   *)
(* request proves its key is in module Lockout.                            *)
(***************************************************************************)
EXTENDS Integers

CONSTANTS
  User, Service,         \* principals of this realm
  Local, Remote,         \* this realm; the realms it shares a key with
  Inbound, Outbound,     \* what Trust.Allows says of each of them
  Transitive,
  Skew,                  \* clock_skew
  MaxTicketLife, MaxRenewableLife,
  TicketLife, RenewableLife,      \* per principal, 0 for the realm's limit
  AllowPostdate,         \* users whose tickets may start later
  AllowRenewable,        \* principals with allowRenewable
  ForwardableTo,         \* servers with allowForwardable
  OKToAuthAsDelegate,    \* services whose S4U2Self tickets may be forwarded
  AllowedToDelegateTo,   \* pairs of services
  Impersonates,          \* per service, the users it may act for; {} for all
  Asked,                 \* bound: the times a request may name
  Body,                  \* bound: the request bodies explored
  NoTicket,
  MaxNow                 \* bound: last tick explored

Principal == User \cup Service \cup {Local} \cup Remote

VARIABLES
  now,
  forwarders,  \* users with allowForwardable
  disabledAt,  \* per user, when the principal was disabled; 0 while enabled
  tkt,         \* the ticket followed
  hist         \* history of its chain

vars == <<now, forwarders, disabledAt, tkt, hist>>

\* A server is the realm whose key database names it and the principal: the
\* ticket-granting service of a realm is named by that realm.
TgsServer == {<<Local, Local>>} \cup ({Local} \X Remote) \cup (Remote \X {Local})
Server == TgsServer \cup ({Local} \X Service)

Flag == {"initial", "forwardable", "renewable", "postdated", "invalid"}

\* A client is a user, or a realm standing for a user of it.  Time 0 stands
\* for a time that is absent.
Ticket ==
  [client : User \cup Remote, server : Server, start : Nat, end : Int,
   till : Nat, flags : SUBSET Flag, transited : SUBSET Remote]

\* KDC-REQ-BODY: the options and times of a request.
AnyBody ==
  [postdated : BOOLEAN, from : Asked \cup {0}, till : Asked \cup {0},
   rtime : Asked \cup {0}, renewable : BOOLEAN, renewableOK : BOOLEAN,
   forwardable : BOOLEAN]

ASSUME TicketsAssumption ==
  /\ Skew \in Nat /\ MaxNow \in Nat \ {0}
  /\ MaxTicketLife \in Nat \ {0} /\ MaxRenewableLife \in Nat \ {0}
  /\ TicketLife \in [Principal -> Nat] /\ RenewableLife \in [Principal -> Nat]
  /\ Asked \subseteq Nat \ {0}
  /\ Body \subseteq AnyBody
  /\ NoTicket \notin Ticket
  /\ Inbound \subseteq Remote /\ Outbound \subseteq Remote
  /\ Local \notin Remote
  /\ User \cap (Service \cup {Local} \cup Remote) = {}
  /\ Service \cap ({Local} \cup Remote) = {}

\* opens: the start asked for when the chain was last postdated.
\* limit: the latest end promised by a ticket of the chain, renewed or not.
\* vouched: the realms that have issued a ticket of the chain.
\* allowed: the users who have had allowForwardable.
History ==
  [opens : Nat, limit : Int, vouched : SUBSET ({Local} \cup Remote),
   allowed : SUBSET User]

TicketsInit ==
  /\ now = 1
  /\ forwarders \in SUBSET User
  /\ disabledAt = [u \in User |-> 0]
  /\ tkt = NoTicket
  /\ hist = [opens |-> 0, limit |-> 0, vouched |-> {}, allowed |-> forwarders]

-----------------------------------------------------------------------------
(* Times and flags: computeTimes, effectiveLife, ticketFlags. *)

Earlier(a, b) == IF a < b THEN a ELSE b

Shorter(life, d) == IF life > 0 THEN Earlier(life, d) ELSE d

\* A client of another realm is a stand-in without limits of its own.
LifeOf(c, lives) == IF c \in User THEN lives[c] ELSE 0

EffectiveLife(lives, c, s, realm) ==
  Shorter(LifeOf(c, lives), Shorter(lives[s[2]], realm))

PostdateRefused(b, c) ==
  b.from # 0 /\ IF b.postdated THEN c \notin AllowPostdate
                ELSE b.from > now + Skew

Postdated(b) == b.postdated /\ b.from # 0

StartTime(b) == IF Postdated(b) THEN b.from ELSE now

EndTime(b, c, s) ==
  LET limit == StartTime(b) + EffectiveLife(TicketLife, c, s, MaxTicketLife)
  IN  IF b.till > 0 THEN Earlier(b.till, limit) ELSE limit

MayRenew(c, s) ==
  c \in AllowRenewable \cup Remote /\ s[2] \in AllowRenewable

\* 0 when the ticket is not renewable.
RenewTill(b, c, s) ==
  LET end   == EndTime(b, c, s)
      limit == StartTime(b) + EffectiveLife(RenewableLife, c, s, MaxRenewableLife)
      asked == IF b.renewable
                 THEN IF b.rtime > 0 THEN Earlier(b.rtime, limit) ELSE limit
               ELSE IF b.renewableOK /\ b.till > end
                 THEN Earlier(b.till, limit)
               ELSE 0
  IN  IF MayRenew(c, s) /\ asked > end THEN asked ELSE 0

\* computeTimes refuses.
TimesRefused(b, c, s) ==
  PostdateRefused(b, c) \/ EndTime(b, c, s) <= StartTime(b)

TicketFlags(b, c, s) ==
  (IF RenewTill(b, c, s) # 0 THEN {"renewable"} ELSE {})
    \cup (IF Postdated(b) THEN {"postdated", "invalid"} ELSE {})

\* The forwardable flag of an ordinary ticket.
ForwardableAsRequested(b, c, s) ==
  IF b.forwardable /\ c \in forwarders \cup Remote /\ s[2] \in ForwardableTo
  THEN {"forwardable"} ELSE {}

Enabled(c) == c \in User => disabledAt[c] = 0

-----------------------------------------------------------------------------
(* The AS exchange. *)

LocalServer == {Local} \X ({Local} \cup Remote \cup Service)

\* A ticket with the times and flags computed for a request.
NewTicket(c, s, b, end, others, transited) ==
  [client |-> c, server |-> s, start |-> StartTime(b), end |-> end,
   till |-> RenewTill(b, c, s), flags |-> TicketFlags(b, c, s) \cup others,
   transited |-> transited]

\* The history after a new ticket: `limit` grows when it may be renewed.
Issued(t, limit, vouched) ==
  [opens   |-> IF "postdated" \in t.flags THEN t.start ELSE hist.opens,
   limit   |-> IF t.till > limit THEN t.till ELSE limit,
   vouched |-> vouched,
   allowed |-> hist.allowed]

Login(u, s, b) ==
  /\ tkt = NoTicket
  /\ Enabled(u)
  /\ ~TimesRefused(b, u, s)
  /\ tkt' = NewTicket(u, s, b, EndTime(b, u, s),
                      {"initial"} \cup ForwardableAsRequested(b, u, s), {})
  /\ hist' = Issued(tkt', tkt'.end, {Local})
  /\ UNCHANGED <<now, forwarders, disabledAt>>

-----------------------------------------------------------------------------
(* The TGS exchange. *)

\* Faulty variant: a ticket is taken before its time.
ValidTicketEarly(allowInvalid) ==
  /\ tkt # NoTicket
  /\ now - Skew <= tkt.end
  /\ allowInvalid \/ "invalid" \notin tkt.flags

\* checkTicketValidity.
ValidTicket(allowInvalid) ==
  /\ tkt # NoTicket
  /\ tkt.start <= now + Skew
  /\ now - Skew <= tkt.end
  /\ allowInvalid \/ "invalid" \notin tkt.flags

\* authenticateTGS: only a ticket-granting ticket is accepted.
Presented(allowInvalid) ==
  ValidTicket(allowInvalid) /\ tkt.server \in TgsServer

CrossRealm == tkt.server[1] # Local

\* transitedFor refuses the path of a ticket from another realm.
PathRefused ==
  /\ CrossRealm
  /\ \/ tkt.server[1] \notin Inbound
     \/ tkt.transited # {} /\ tkt.server[1] \notin Transitive

\* Faulty variant: the realm that issued the ticket is left out of the path.
TransitedSame == tkt.transited

\* The path of a ticket derived from tkt.
TransitedFor ==
  IF CrossRealm /\ tkt.server[1] # tkt.client
  THEN tkt.transited \cup {tkt.server[1]}
  ELSE tkt.transited

\* issueTicket for a ticket derived from tkt: the end is cut to that of tkt.
Derive(s, b, transited, forwardable) ==
  LET c == tkt.client
  IN  /\ Enabled(c)
      /\ ~TimesRefused(b, c, s)
      /\ tkt' = NewTicket(c, s, b, Earlier(EndTime(b, c, s), tkt.end),
                          forwardable, transited)
      /\ hist' = Issued(tkt', hist.limit, hist.vouched \cup {Local})
      /\ UNCHANGED <<now, forwarders, disabledAt>>

\* A service of another realm, or one whose host name is in the domain of
\* another realm, is answered with a referral: the ticket of that realm's
\* ticket-granting service.
Referable(s) == s[2] \in Remote => s[2] \in Outbound

ServiceTicket(s, b) ==
  /\ Presented(FALSE)
  /\ Referable(s)
  /\ ~PathRefused
  /\ Derive(s, b, TransitedFor, ForwardableAsRequested(b, tkt.client, s))

\* Faulty variant: a renewal runs for a full ticket life.
RenewedEndFull == now + EffectiveLife(TicketLife, tkt.client, tkt.server, MaxTicketLife)

RenewedEnd ==
  Earlier(now + EffectiveLife(TicketLife, tkt.client, tkt.server, MaxTicketLife),
          tkt.till)

\* Faulty variant: a renewal does not look the client up.
RenewTicketOfAnyone(both) ==
  /\ Presented(both)
  /\ "renewable" \in tkt.flags
  /\ now < tkt.till
  /\ tkt' = [tkt EXCEPT !.start = now, !.end = RenewedEnd,
                        !.flags = @ \ {"initial"}]
  /\ UNCHANGED <<now, forwarders, disabledAt, hist>>

\* RENEW comes before VALIDATE: a request with both renews, and its ticket may
\* be invalid.
RenewTicket(both) ==
  /\ Presented(both)
  /\ "renewable" \in tkt.flags
  /\ now < tkt.till
  /\ Enabled(tkt.client)
  /\ tkt' = [tkt EXCEPT !.start = now, !.end = RenewedEnd,
                        !.flags = @ \ {"initial"}]
  /\ UNCHANGED <<now, forwarders, disabledAt, hist>>

\* The client is not looked up.
ValidateTicket ==
  /\ Presented(TRUE)
  /\ "invalid" \in tkt.flags
  /\ tkt.start <= now + Skew
  /\ tkt' = [tkt EXCEPT !.flags = @ \ {"invalid"}]
  /\ UNCHANGED <<now, forwarders, disabledAt, hist>>

-----------------------------------------------------------------------------
(* Services acting for users. *)

ImpersonationAllowed(v, c) == Impersonates[v] = {} \/ c \in Impersonates[v]

\* Faulty variant: the service's trust decides alone.
S4UForwardableUnbarred(v, u) == IF v \in OKToAuthAsDelegate THEN {"forwardable"} ELSE {}

\* forwardableNever, or forwardableUnlessBarred for a trusted service.
S4UForwardable(v, u) ==
  IF v \in OKToAuthAsDelegate /\ u \in forwarders THEN {"forwardable"} ELSE {}

\* A ticket for v to itself in the name of u.  It derives from no ticket, so
\* nothing cuts its end.
S4U2Self(v, u, b) ==
  LET s == <<Local, v>>
  IN  /\ tkt = NoTicket
      /\ ImpersonationAllowed(v, u)
      /\ Enabled(u)
      /\ ~TimesRefused(b, u, s)
      /\ tkt' = NewTicket(u, s, b, EndTime(b, u, s), S4UForwardable(v, u), {})
      /\ hist' = Issued(tkt', tkt'.end, {Local})
      /\ UNCHANGED <<now, forwarders, disabledAt>>

\* v presents tkt, a ticket to itself, as evidence and gets one for x.  The
\* ticket v authenticates with is of this realm, so no path is checked.
S4U2Proxy(v, x, b) ==
  /\ <<v, x>> \in AllowedToDelegateTo
  /\ ValidTicket(FALSE)
  /\ tkt.server = <<Local, v>>
  /\ "forwardable" \in tkt.flags
  /\ ImpersonationAllowed(v, tkt.client)
  /\ Derive(<<Local, x>>, b, tkt.transited, {"forwardable"})

-----------------------------------------------------------------------------
(* Other realms' KDCs, the directory and the clock. *)

\* A KDC that records its path sends a user of realm c here through r: the
\* realms between c and r are in the path, c and r are its ends.
RemoteLogin(c, r, between, forwardable, till) ==
  /\ tkt = NoTicket
  /\ between \subseteq Remote \ {c, r} /\ (c = r => between = {})
  /\ till # 0 => till > now + MaxTicketLife
  /\ tkt' = [client |-> c, server |-> <<r, Local>>, start |-> now,
             end |-> now + MaxTicketLife, till |-> till,
             flags |-> (IF till # 0 THEN {"renewable"} ELSE {})
                         \cup (IF forwardable THEN {"forwardable"} ELSE {}),
             transited |-> between]
  /\ hist' = Issued(tkt', tkt'.end, between \cup {c, r})
  /\ UNCHANGED <<now, forwarders, disabledAt>>

\* The realm a referral leads to sends the client back here.
RemoteReturn ==
  /\ ValidTicket(FALSE)
  /\ tkt.server[1] = Local /\ tkt.server[2] \in Remote
  /\ tkt' = [tkt EXCEPT !.server = <<tkt.server[2], Local>>, !.start = now, !.till = 0,
                        !.flags = @ \ {"initial", "renewable"}]
  /\ hist' = [hist EXCEPT !.vouched = @ \cup {tkt.server[2]}]
  /\ UNCHANGED <<now, forwarders, disabledAt>>

\* PATCH /principals/{name} with allowForwardable.
PatchForwardable(u) ==
  /\ forwarders' = IF u \in forwarders THEN forwarders \ {u} ELSE forwarders \cup {u}
  /\ hist' = [hist EXCEPT !.allowed = @ \cup forwarders']
  /\ UNCHANGED <<now, disabledAt, tkt>>

\* PATCH /principals/{name} with enabled.
PatchEnabled(u) ==
  /\ disabledAt' = [disabledAt EXCEPT ![u] = IF @ = 0 THEN now ELSE 0]
  /\ UNCHANGED <<now, forwarders, tkt, hist>>

Tick ==
  /\ now < MaxNow
  /\ now' = now + 1
  /\ UNCHANGED <<forwarders, disabledAt, tkt, hist>>

TicketsNext ==
  \/ \E u \in User :
       \/ \E s \in LocalServer, b \in Body : Login(u, s, b)
       \/ \E v \in Service, b \in Body : S4U2Self(v, u, b)
       \/ PatchForwardable(u) \/ PatchEnabled(u)
  \/ \E s \in LocalServer, b \in Body : ServiceTicket(s, b)
  \/ \E both \in BOOLEAN : RenewTicket(both)
  \/ ValidateTicket
  \/ \E v, x \in Service, b \in Body : S4U2Proxy(v, x, b)
  \/ \E c, r \in Remote, between \in SUBSET Remote, f \in BOOLEAN,
        till \in Asked \cup {0} : RemoteLogin(c, r, between, f, till)
  \/ RemoteReturn
  \/ Tick

TicketsSpec == TicketsInit /\ [][TicketsNext]_vars

-----------------------------------------------------------------------------
(* Properties. *)

\* Type invariant: a ticket is renewable exactly when it carries a time to renew
\* until.
TicketsTypeOK ==
  /\ now \in 1..MaxNow
  /\ forwarders \subseteq User
  /\ disabledAt \in [User -> 0..now]
  /\ tkt # NoTicket => /\ tkt \in Ticket
                       /\ "renewable" \in tkt.flags <=> tkt.till # 0
  /\ hist \in History

\* No chain of service tickets, referrals, renewals, validations and
\* delegations gives a ticket that ends later than the tickets it came from
\* promised: issueTicket cuts the end to that of the source, renewTicket to
\* the time fixed at issue.
ReachBounded == tkt # NoTicket => tkt.end <= hist.limit

\* A postdated ticket cannot be used before its start, nor anything be derived
\* from it: whatever requests are made of the KDC, a valid ticket of the chain
\* exists only once the start asked for has come (within the clock skew).
NoEarlyUse ==
  tkt # NoTicket /\ "invalid" \notin tkt.flags => hist.opens <= now + Skew

\* A user who was never allowed forwardable tickets has none, and so is never
\* delegated: protocol transition does not get round the bar.
ForwardableConsented ==
  tkt # NoTicket /\ tkt.client \in User /\ "forwardable" \in tkt.flags
    => tkt.client \in hist.allowed

\* A service can see from the ticket which realms stand behind it: every realm
\* that issued a ticket of the chain is this one, the client's own, the issuer
\* of the ticket or in the transited path.
TransitedTold ==
  tkt # NoTicket =>
    hist.vouched \subseteq {Local, tkt.client, tkt.server[1]} \cup tkt.transited

\* Disabling a user takes effect within one ticket life: but for tickets that
\* were postdated, every ticket in the user's name ends by then, since each
\* exchange but validation looks the client up.
DisabledRunsOut ==
  /\ tkt # NoTicket /\ tkt.client \in User /\ ~Enabled(tkt.client)
  /\ "postdated" \notin tkt.flags
  => tkt.end <= disabledAt[tkt.client] + MaxTicketLife

\* A request whose window closes before it opens is refused: no ticket ends
\* before it starts.
WindowOpens == tkt # NoTicket => tkt.start < tkt.end
=============================================================================
