---------------------------- MODULE TicketsProofs -----------------------------
(***************************************************************************)
(* Proofs that the properties of module Tickets hold for every policy,     *)
(* every set of realms and services and every chain of exchanges.          *)
(***************************************************************************)
EXTENDS Tickets, TLAPS

Client == User \cup Remote

-----------------------------------------------------------------------------
(* What the operators of computeTimes and ticketFlags return. *)

\* The shortest of the limits is positive and within the realm's.
LEMMA LifeWithinRealm ==
  ASSUME NEW lives \in [Principal -> Nat], NEW c \in Client, NEW s \in LocalServer \cup Server,
         NEW realm \in Nat \ {0}
  PROVE  /\ EffectiveLife(lives, c, s, realm) \in Nat \ {0}
         /\ EffectiveLife(lives, c, s, realm) <= realm
<1>1. s[2] \in Principal
  BY DEF LocalServer, Server, TgsServer, Principal
<1>2. lives[s[2]] \in Nat
  BY <1>1
<1>3. LifeOf(c, lives) \in Nat
  BY DEF LifeOf, Principal
<1>4. /\ Shorter(lives[s[2]], realm) \in Nat \ {0}
      /\ Shorter(lives[s[2]], realm) <= realm
  BY <1>2 DEF Shorter, Earlier
<1> QED BY <1>3, <1>4 DEF EffectiveLife, Shorter, Earlier

\* The times of a request are absent or natural numbers.
LEMMA BodyTyped ==
  ASSUME NEW b \in Body
  PROVE  b.from \in Nat /\ b.till \in Nat /\ b.rtime \in Nat
<1>1. Body \subseteq AnyBody /\ Asked \subseteq Nat
  BY TicketsAssumption
<1>2. b \in AnyBody
  BY <1>1
<1>3. {b.from, b.till, b.rtime} \subseteq Asked \cup {0}
  BY <1>2 DEF AnyBody
<1>4. Asked \cup {0} \subseteq Nat
  BY <1>1
<1> QED BY <1>3, <1>4

\* The times of a new ticket are well typed, and it ends within the realm's
\* ticket life.
LEMMA TimesTyped ==
  ASSUME now \in Nat, NEW b \in Body, NEW c \in Client, NEW s \in LocalServer
  PROVE  /\ StartTime(b) \in Nat
         /\ ~Postdated(b) => StartTime(b) = now
         /\ Postdated(b) => StartTime(b) = b.from
         /\ EndTime(b, c, s) \in Nat
         /\ EndTime(b, c, s) <= StartTime(b) + MaxTicketLife
         /\ RenewTill(b, c, s) \in Nat
<1>1. b.from \in Nat /\ b.till \in Nat /\ b.rtime \in Nat
  BY BodyTyped
<1>2. StartTime(b) \in Nat
  BY <1>1 DEF StartTime, Postdated
<1>3. /\ ~Postdated(b) => StartTime(b) = now
      /\ Postdated(b) => StartTime(b) = b.from
  BY DEF StartTime
<1> DEFINE life == EffectiveLife(TicketLife, c, s, MaxTicketLife)
           renew == EffectiveLife(RenewableLife, c, s, MaxRenewableLife)
<1>4. life \in Nat /\ life <= MaxTicketLife
  BY LifeWithinRealm, TicketsAssumption
<1>5. renew \in Nat
  BY LifeWithinRealm, TicketsAssumption
<1> HIDE DEF life, renew
<1>6. EndTime(b, c, s) \in Nat /\ EndTime(b, c, s) <= StartTime(b) + MaxTicketLife
  BY <1>1, <1>2, <1>4, TicketsAssumption DEF EndTime, Earlier, life
<1>7. RenewTill(b, c, s) \in Nat
  BY <1>1, <1>2, <1>5, <1>6 DEF RenewTill, Earlier, renew
<1> QED BY <1>2, <1>3, <1>6, <1>7

\* Which of the flags a new ticket has.
LEMMA FlagsTyped ==
  ASSUME NEW b, NEW c, NEW s
  PROVE  /\ TicketFlags(b, c, s) \subseteq Flag \ {"initial", "forwardable"}
         /\ "renewable" \in TicketFlags(b, c, s) <=> RenewTill(b, c, s) # 0
         /\ "postdated" \in TicketFlags(b, c, s) <=> Postdated(b)
         /\ "invalid" \in TicketFlags(b, c, s) <=> Postdated(b)
BY Zenon DEF TicketFlags, Flag

-----------------------------------------------------------------------------
(* Type correctness. *)

\* A ticket issued here is well typed, and renewable exactly when it carries a
\* time to renew until.
LEMMA NewTicketTyped ==
  ASSUME now \in Nat, NEW b \in Body, NEW c \in Client, NEW s \in LocalServer,
         NEW end \in Int, NEW others \in SUBSET {"initial", "forwardable"},
         NEW path \in SUBSET Remote
  PROVE  LET t == NewTicket(c, s, b, end, others, path)
         IN  t \in Ticket /\ ("renewable" \in t.flags <=> t.till # 0)
<1>1. StartTime(b) \in Nat /\ RenewTill(b, c, s) \in Nat
  BY TimesTyped
<1>2. s \in Server
  BY DEF LocalServer, Server, TgsServer
<1>3. TicketFlags(b, c, s) \cup others \subseteq Flag
  BY FlagsTyped, Zenon DEF Flag
<1>4. "renewable" \in TicketFlags(b, c, s) \cup others <=> RenewTill(b, c, s) # 0
  BY FlagsTyped
<1>5. NewTicket(c, s, b, end, others, path) \in Ticket
  BY <1>1, <1>2, <1>3 DEF NewTicket, Ticket, Client
<1> QED BY <1>4, <1>5 DEF NewTicket

\* The history of a chain that a ticket issued here has joined.
LEMMA IssuedTyped ==
  ASSUME hist \in History, NEW t \in Ticket, NEW limit \in Int,
         NEW vouched \in SUBSET ({Local} \cup Remote)
  PROVE  LET h == Issued(t, limit, vouched)
         IN  /\ h \in History
             /\ h.limit >= limit /\ h.limit >= t.till
             /\ h.vouched = vouched /\ h.allowed = hist.allowed
             /\ h.opens = IF "postdated" \in t.flags THEN t.start ELSE hist.opens
<1> DEFINE h == Issued(t, limit, vouched)
<1>1. t.till \in Nat /\ t.start \in Nat
  BY DEF Ticket
<1>2. h \in History
  BY <1>1 DEF Issued, History
<1>3. h.limit >= limit /\ h.limit >= t.till
  BY <1>1 DEF Issued
<1>4. /\ h.vouched = vouched /\ h.allowed = hist.allowed
      /\ h.opens = IF "postdated" \in t.flags THEN t.start ELSE hist.opens
  BY DEF Issued
<1> QED BY <1>2, <1>3, <1>4

\* The path of a derived ticket consists of remote realms.
LEMMA PathTyped ==
  ASSUME tkt \in Ticket
  PROVE  TransitedFor \in SUBSET Remote
<1>1. tkt.transited \in SUBSET Remote /\ tkt.server \in Server
  BY DEF Ticket
<1>2. CrossRealm => tkt.server[1] \in Remote
  BY <1>1 DEF CrossRealm, Server, TgsServer
<1> QED BY <1>1, <1>2 DEF TransitedFor

\* A ticket from another realm is well typed.
LEMMA RemoteTicketTyped ==
  ASSUME now \in Nat, NEW c \in Remote, NEW r \in Remote, NEW between \in SUBSET Remote,
         NEW f \in BOOLEAN, NEW till \in Asked \cup {0},
         RemoteLogin(c, r, between, f, till)
  PROVE  tkt' \in Ticket
<1>1. till \in Nat /\ MaxTicketLife \in Nat
  BY TicketsAssumption
<1>2. <<r, Local>> \in Server
  BY DEF Server, TgsServer
<1> QED BY <1>1, <1>2 DEF RemoteLogin, Ticket, Flag

\* Under every exchange and every change of the directory a ticket is
\* renewable exactly when it carries a time to renew until.
THEOREM TicketsTypeCorrect == TicketsSpec => []TicketsTypeOK
<1>1. TicketsInit => TicketsTypeOK
  BY TicketsAssumption DEF TicketsInit, TicketsTypeOK, History
<1>2. TicketsTypeOK /\ [TicketsNext]_vars => TicketsTypeOK'
  <2> SUFFICES ASSUME TicketsTypeOK, [TicketsNext]_vars PROVE TicketsTypeOK'
    OBVIOUS
  <2>0. /\ now \in Nat
        /\ tkt # NoTicket => tkt \in Ticket
        /\ hist \in History
    BY DEF TicketsTypeOK
  <2> DEFINE Same == UNCHANGED <<now, forwarders, disabledAt>>
             Typed == /\ tkt' \in Ticket
                      /\ "renewable" \in tkt'.flags <=> tkt'.till # 0
                      /\ hist' \in History
  <2>a. ASSUME Same, Typed PROVE TicketsTypeOK'
    BY <2>a DEF TicketsTypeOK
  <2>1. ASSUME NEW u \in User, NEW s \in LocalServer, NEW b \in Body,
               NEW others \in SUBSET {"initial", "forwardable"},
               tkt' = NewTicket(u, s, b, EndTime(b, u, s), others, {}),
               hist' = Issued(tkt', tkt'.end, {Local}), Same
        PROVE  TicketsTypeOK'
    <3>1. EndTime(b, u, s) \in Int
      BY <2>0, TimesTyped DEF Client
    <3>2. tkt' \in Ticket /\ ("renewable" \in tkt'.flags <=> tkt'.till # 0)
      BY <2>0, <2>1, <3>1, NewTicketTyped DEF Client
    <3>3. tkt'.end \in Int
      BY <3>2 DEF Ticket
    <3>4. hist' \in History
      BY <2>0, <2>1, <3>2, <3>3, IssuedTyped
    <3> QED BY <2>1, <2>a, <3>2, <3>4
  <2>3. ASSUME tkt # NoTicket, NEW s \in LocalServer, NEW b \in Body,
               NEW path \in SUBSET Remote,
               NEW fwd \in SUBSET {"initial", "forwardable"}, Derive(s, b, path, fwd)
        PROVE  TicketsTypeOK'
    <3>0. tkt.client \in Client /\ tkt.end \in Int
      BY <2>0, <2>3 DEF Ticket, Client
    <3>1. Earlier(EndTime(b, tkt.client, s), tkt.end) \in Int
      BY <2>0, <3>0, TimesTyped DEF Earlier
    <3>2. tkt' \in Ticket /\ ("renewable" \in tkt'.flags <=> tkt'.till # 0)
      BY <2>0, <2>3, <3>0, <3>1, NewTicketTyped DEF Derive
    <3>3. hist' \in History
      <4>1. hist.limit \in Int /\ hist.vouched \cup {Local} \in SUBSET ({Local} \cup Remote)
        BY <2>0 DEF History
      <4>2. hist' = Issued(tkt', hist.limit, hist.vouched \cup {Local})
        BY <2>3 DEF Derive
      <4> QED BY <2>0, <3>2, <4>1, <4>2, IssuedTyped
    <3> QED BY <2>3, <2>a, <3>2, <3>3 DEF Derive
  <2>4. ASSUME NEW u \in User, NEW s \in LocalServer, NEW b \in Body, Login(u, s, b)
        PROVE  TicketsTypeOK'
    <3>1. {"initial"} \cup ForwardableAsRequested(b, u, s) \in SUBSET {"initial", "forwardable"}
      BY DEF ForwardableAsRequested
    <3> QED BY <2>1, <2>4, <3>1 DEF Login
  <2>5. ASSUME NEW v \in Service, NEW u \in User, NEW b \in Body, S4U2Self(v, u, b)
        PROVE  TicketsTypeOK'
    <3>1. <<Local, v>> \in LocalServer
      BY DEF LocalServer
    <3>2. S4UForwardable(v, u) \in SUBSET {"initial", "forwardable"}
      BY DEF S4UForwardable
    <3> QED BY <2>1, <2>5, <3>1, <3>2 DEF S4U2Self
  <2>6. ASSUME NEW s \in LocalServer, NEW b \in Body, ServiceTicket(s, b)
        PROVE  TicketsTypeOK'
    <3>1. tkt # NoTicket
      BY <2>6 DEF ServiceTicket, Presented, ValidTicket
    <3>2. TransitedFor \in SUBSET Remote
      BY <2>0, <3>1, PathTyped
    <3>3. ForwardableAsRequested(b, tkt.client, s) \in SUBSET {"initial", "forwardable"}
      BY DEF ForwardableAsRequested
    <3>4. Derive(s, b, TransitedFor, ForwardableAsRequested(b, tkt.client, s))
      BY <2>6 DEF ServiceTicket
    <3> QED BY <2>3, <3>1, <3>2, <3>3, <3>4
  <2>7. ASSUME NEW v \in Service, NEW x \in Service, NEW b \in Body, S4U2Proxy(v, x, b)
        PROVE  TicketsTypeOK'
    <3>1. tkt # NoTicket
      BY <2>7 DEF S4U2Proxy, ValidTicket
    <3>2. tkt.transited \in SUBSET Remote
      BY <2>0, <3>1 DEF Ticket
    <3>3. <<Local, x>> \in LocalServer
      BY DEF LocalServer
    <3>4. Derive(<<Local, x>>, b, tkt.transited, {"forwardable"})
      BY <2>7 DEF S4U2Proxy
    <3> QED BY <2>3, <3>1, <3>2, <3>3, <3>4
  <2>8. ASSUME NEW both \in BOOLEAN, RenewTicket(both) PROVE TicketsTypeOK'
    <3>1. tkt \in Ticket
      BY <2>0, <2>8 DEF RenewTicket, Presented, ValidTicket
    <3>2. RenewedEnd \in Int
      <4>1. tkt.client \in Client /\ tkt.server \in Server /\ tkt.till \in Nat
        BY <3>1 DEF Ticket, Client
      <4>2. EffectiveLife(TicketLife, tkt.client, tkt.server, MaxTicketLife) \in Nat
        BY <4>1, LifeWithinRealm, TicketsAssumption
      <4> QED BY <2>0, <4>1, <4>2 DEF RenewedEnd, Earlier
    <3>3. /\ tkt' \in Ticket
          /\ tkt'.till = tkt.till /\ tkt'.flags = tkt.flags \ {"initial"}
      BY <2>0, <2>8, <3>1, <3>2 DEF RenewTicket, Ticket
    <3>4. "renewable" \in tkt.flags <=> tkt.till # 0
      BY <2>8 DEF TicketsTypeOK, RenewTicket, Presented, ValidTicket
    <3> QED BY <2>0, <2>8, <2>a, <3>3, <3>4 DEF RenewTicket
  <2>9. ASSUME ValidateTicket PROVE TicketsTypeOK'
    <3>1. tkt \in Ticket /\ ("renewable" \in tkt.flags <=> tkt.till # 0)
      BY <2>9 DEF TicketsTypeOK, ValidateTicket, Presented, ValidTicket
    <3>2. /\ tkt' \in Ticket
          /\ tkt'.till = tkt.till /\ tkt'.flags = tkt.flags \ {"invalid"}
      BY <2>9, <3>1 DEF ValidateTicket, Ticket
    <3> QED BY <2>0, <2>9, <2>a, <3>1, <3>2 DEF ValidateTicket
  <2>10. ASSUME NEW c \in Remote, NEW r \in Remote, NEW between \in SUBSET Remote,
                NEW f \in BOOLEAN, NEW till \in Asked \cup {0},
                RemoteLogin(c, r, between, f, till)
         PROVE  TicketsTypeOK'
    <3>3. tkt' \in Ticket
      BY <2>0, <2>10, RemoteTicketTyped
    <3>4. "renewable" \in tkt'.flags <=> tkt'.till # 0
      BY <2>10 DEF RemoteLogin
    <3>5. hist' \in History
      <4>1. tkt'.end \in Int
        BY <3>3 DEF Ticket
      <4>2. hist' = Issued(tkt', tkt'.end, between \cup {c, r})
        BY <2>10 DEF RemoteLogin
      <4> QED BY <2>0, <3>3, <4>1, <4>2, IssuedTyped
    <3> QED BY <2>10, <2>a, <3>3, <3>4, <3>5 DEF RemoteLogin
  <2>11. ASSUME RemoteReturn PROVE TicketsTypeOK'
    <3>1. tkt \in Ticket /\ tkt.server[2] \in Remote
      BY <2>0, <2>11 DEF RemoteReturn, ValidTicket
    <3>2. <<tkt.server[2], Local>> \in Server
      BY <3>1 DEF Server, TgsServer
    <3>3. /\ tkt' \in Ticket
          /\ tkt'.till = 0 /\ tkt'.flags = tkt.flags \ {"initial", "renewable"}
      BY <2>0, <2>11, <3>1, <3>2 DEF RemoteReturn, Ticket
    <3>4. hist' \in History
      BY <2>0, <2>11, <3>1 DEF RemoteReturn, History
    <3> QED BY <2>11, <2>a, <3>3, <3>4 DEF RemoteReturn
  <2>12. ASSUME NEW u \in User, PatchForwardable(u) PROVE TicketsTypeOK'
    <3>1. forwarders' \subseteq User
      BY <2>12 DEF PatchForwardable, TicketsTypeOK
    <3>2. hist' \in History
      BY <2>0, <2>12, <3>1 DEF PatchForwardable, History
    <3> QED BY <2>12, <3>1, <3>2 DEF PatchForwardable, TicketsTypeOK
  <2>13. ASSUME NEW u \in User, PatchEnabled(u) PROVE TicketsTypeOK'
    BY <2>13 DEF PatchEnabled, TicketsTypeOK
  <2>14. ASSUME Tick PROVE TicketsTypeOK'
    <3>1. now' \in 1..MaxNow /\ 0..now \subseteq 0..now'
      BY <2>0, <2>14, TicketsAssumption DEF Tick, TicketsTypeOK
    <3> QED BY <2>14, <3>1 DEF Tick, TicketsTypeOK
  <2>15. CASE UNCHANGED vars
    BY <2>15 DEF vars, TicketsTypeOK
  <2> QED BY <2>4, <2>5, <2>6, <2>7, <2>8, <2>9, <2>10, <2>11, <2>12, <2>13, <2>14, <2>15
          DEF TicketsNext
<1> QED BY <1>1, <1>2, PTL DEF TicketsSpec

-----------------------------------------------------------------------------
(* The invariants of a chain of exchanges. *)

\* A chain is past the start asked for, or ends in an invalid ticket that does
\* not start before.
OpensInv ==
  \/ hist.opens <= now + Skew
  \/ tkt # NoTicket /\ "invalid" \in tkt.flags /\ hist.opens <= tkt.start

\* Neither the end of a ticket nor the time until which it can be renewed
\* passes the limit.
LimitInv == tkt # NoTicket => tkt.end <= hist.limit /\ tkt.till <= hist.limit

\* The history remembers everyone whose tickets may be forwardable now.
AllowedInv == forwarders \subseteq hist.allowed /\ ForwardableConsented

\* While the user is enabled, a ticket that was not postdated ends within one
\* ticket life.
LifeInv ==
  tkt # NoTicket /\ tkt.client \in User /\ "postdated" \notin tkt.flags =>
    tkt.end <= (IF disabledAt[tkt.client] = 0 THEN now ELSE disabledAt[tkt.client])
                 + MaxTicketLife

ChainInv == OpensInv /\ LimitInv /\ AllowedInv /\ TransitedTold /\ LifeInv

\* What a ticket that begins a chain, or is derived from the one before,
\* establishes.  `limit` and `vouched` describe the chain so far.
LEMMA NewTicketKeeps ==
  ASSUME TicketsTypeOK, ChainInv, NEW b \in Body, NEW c \in Client, NEW s \in LocalServer,
         NEW end \in Int, end <= EndTime(b, c, s),
         NEW others \in SUBSET {"initial", "forwardable"}, NEW path \in SUBSET Remote,
         NEW limit \in Int, end <= limit,
         NEW vouched \in SUBSET ({Local} \cup Remote),
         vouched \subseteq {Local, c} \cup path,
         Enabled(c),
         c \in User /\ "forwardable" \in others => c \in hist.allowed,
         hist.opens <= now + Skew,
         tkt' = NewTicket(c, s, b, end, others, path),
         hist' = Issued(tkt', limit, vouched),
         UNCHANGED <<now, forwarders, disabledAt>>
  PROVE  ChainInv'
<1>1. now \in Nat /\ hist \in History
  BY DEF TicketsTypeOK
<1>2. tkt' \in Ticket
  BY <1>1, NewTicketTyped
<1>3. /\ hist'.limit >= limit /\ hist'.limit >= tkt'.till /\ hist' \in History
      /\ hist'.vouched = vouched /\ hist'.allowed = hist.allowed
      /\ hist'.opens = IF "postdated" \in tkt'.flags THEN tkt'.start ELSE hist.opens
  BY <1>1, <1>2, IssuedTyped
<1>4. /\ tkt'.client = c /\ tkt'.server = s /\ tkt'.start = StartTime(b) /\ tkt'.end = end
      /\ tkt'.flags = TicketFlags(b, c, s) \cup others /\ tkt'.transited = path
  BY DEF NewTicket
<1>5. /\ "postdated" \in tkt'.flags <=> Postdated(b)
      /\ "invalid" \in tkt'.flags <=> Postdated(b)
      /\ "forwardable" \in tkt'.flags <=> "forwardable" \in others
  BY <1>4, FlagsTyped
<1>6. tkt' # NoTicket
  BY <1>2, TicketsAssumption
<1>7. OpensInv'
  <2>1. CASE Postdated(b)
    <3>1. hist'.opens = tkt'.start /\ tkt'.start \in Nat
      BY <1>2, <1>3, <1>5, <2>1 DEF Ticket
    <3> QED BY <1>5, <1>6, <2>1, <3>1 DEF OpensInv
  <2>2. CASE ~Postdated(b)
    BY <1>3, <1>5, <2>2 DEF OpensInv
  <2> QED BY <2>1, <2>2
<1>8. LimitInv'
  <2>1. tkt'.till \in Nat /\ hist'.limit \in Int
    BY <1>2, <1>3 DEF Ticket, History
  <2> QED BY <1>3, <1>4, <2>1 DEF LimitInv
<1>9. AllowedInv'
  BY <1>3, <1>4, <1>5 DEF AllowedInv, ForwardableConsented, ChainInv
<1>10. TransitedTold'
  <2>1. s[1] = Local
    BY DEF LocalServer
  <2> QED BY <1>3, <1>4, <2>1 DEF TransitedTold
<1>11. LifeInv'
  <2> SUFFICES ASSUME c \in User, ~Postdated(b) PROVE end <= now + MaxTicketLife
    BY <1>4, <1>5 DEF LifeInv, Enabled
  <2>1. /\ StartTime(b) = now /\ EndTime(b, c, s) <= now + MaxTicketLife
        /\ EndTime(b, c, s) \in Nat
    BY <1>1, TimesTyped
  <2> QED BY <1>1, <2>1, TicketsAssumption
<1> QED BY <1>7, <1>8, <1>9, <1>10, <1>11 DEF ChainInv

\* A login and an S4U2Self exchange begin a chain.
LEMMA FirstTicketKeeps ==
  ASSUME TicketsTypeOK, ChainInv, tkt = NoTicket,
         NEW u \in User, NEW s \in LocalServer, NEW b \in Body,
         NEW others \in SUBSET {"initial", "forwardable"},
         "forwardable" \in others => u \in forwarders, Enabled(u),
         tkt' = NewTicket(u, s, b, EndTime(b, u, s), others, {}),
         hist' = Issued(tkt', tkt'.end, {Local}),
         UNCHANGED <<now, forwarders, disabledAt>>
  PROVE  ChainInv'
<1>1. EndTime(b, u, s) \in Int
  BY TimesTyped DEF TicketsTypeOK, Client
<1>2. tkt'.end = EndTime(b, u, s)
  BY DEF NewTicket
<1>3. hist.opens <= now + Skew
  BY DEF ChainInv, OpensInv
<1>4. "forwardable" \in others => u \in hist.allowed
  BY DEF ChainInv, AllowedInv
<1>5. EndTime(b, u, s) <= EndTime(b, u, s)
  BY <1>1
<1> QED BY <1>1, <1>2, <1>3, <1>4, <1>5, NewTicketKeeps DEF Client

\* A ticket derived from a valid one keeps to its chain's limits, provided its
\* path accounts for the issuer of the ticket presented.
LEMMA DerivedTicketKeeps ==
  ASSUME TicketsTypeOK, ChainInv, ValidTicket(FALSE),
         NEW s \in LocalServer, NEW b \in Body, NEW path \in SUBSET Remote,
         {tkt.server[1]} \cup tkt.transited \subseteq {Local, tkt.client} \cup path,
         NEW fwd \in SUBSET {"forwardable"},
         tkt.client \in User /\ "forwardable" \in fwd => tkt.client \in hist.allowed,
         Derive(s, b, path, fwd)
  PROVE  ChainInv'
<1> DEFINE end == Earlier(EndTime(b, tkt.client, s), tkt.end)
<1>1. /\ tkt # NoTicket /\ tkt \in Ticket /\ hist \in History
      /\ now \in Nat /\ "invalid" \notin tkt.flags
  BY DEF ValidTicket, TicketsTypeOK
<1>2. tkt.client \in Client /\ tkt.end \in Int
  BY <1>1 DEF Ticket, Client
<1>3. EndTime(b, tkt.client, s) \in Nat
  BY <1>1, <1>2, TimesTyped
<1>4. hist.limit \in Int /\ hist.vouched \cup {Local} \in SUBSET ({Local} \cup Remote)
  BY <1>1 DEF History
<1>5. /\ end \in Int /\ end <= EndTime(b, tkt.client, s) /\ end <= hist.limit
  BY <1>1, <1>2, <1>3, <1>4 DEF Earlier, ChainInv, LimitInv
<1>6. hist.vouched \cup {Local} \subseteq {Local, tkt.client} \cup path
  BY <1>1 DEF ChainInv, TransitedTold
<1>7. hist.opens <= now + Skew
  BY <1>1 DEF ChainInv, OpensInv
<1>8. /\ Enabled(tkt.client)
      /\ tkt' = NewTicket(tkt.client, s, b, end, fwd, path)
      /\ hist' = Issued(tkt', hist.limit, hist.vouched \cup {Local})
      /\ UNCHANGED <<now, forwarders, disabledAt>>
  BY DEF Derive
<1> HIDE DEF end
<1> QED BY <1>2, <1>4, <1>5, <1>6, <1>7, <1>8, NewTicketKeeps

\* Every step of the KDC, the directory and the clock keeps the invariants of
\* the chain.
LEMMA ChainStep ==
  ASSUME TicketsTypeOK, TicketsTypeOK', ChainInv, [TicketsNext]_vars
  PROVE  ChainInv'
<1>0. /\ now \in Nat /\ Skew \in Nat /\ MaxTicketLife \in Nat
      /\ hist \in History /\ hist.opens \in Nat /\ hist.limit \in Int
      /\ tkt # NoTicket => tkt \in Ticket
  BY TicketsAssumption DEF TicketsTypeOK, History
<1>1. ASSUME NEW u \in User, NEW s \in LocalServer, NEW b \in Body, Login(u, s, b)
      PROVE  ChainInv'
  <2> DEFINE others == {"initial"} \cup ForwardableAsRequested(b, u, s)
  <2>1. others \in SUBSET {"initial", "forwardable"}
    BY DEF ForwardableAsRequested
  <2>2. "forwardable" \in others => u \in forwarders
    BY TicketsAssumption DEF ForwardableAsRequested
  <2>3. /\ tkt = NoTicket /\ Enabled(u) /\ UNCHANGED <<now, forwarders, disabledAt>>
        /\ tkt' = NewTicket(u, s, b, EndTime(b, u, s), others, {})
        /\ hist' = Issued(tkt', tkt'.end, {Local})
    BY <1>1 DEF Login
  <2> HIDE DEF others
  <2> QED BY <2>1, <2>2, <2>3, FirstTicketKeeps
<1>2. ASSUME NEW v \in Service, NEW u \in User, NEW b \in Body, S4U2Self(v, u, b)
      PROVE  ChainInv'
  <2>1. <<Local, v>> \in LocalServer
    BY DEF LocalServer
  <2>2. /\ S4UForwardable(v, u) \in SUBSET {"initial", "forwardable"}
        /\ "forwardable" \in S4UForwardable(v, u) => u \in forwarders
    BY DEF S4UForwardable
  <2> QED BY <1>2, <2>1, <2>2, FirstTicketKeeps DEF S4U2Self
<1>3. ASSUME NEW s \in LocalServer, NEW b \in Body, ServiceTicket(s, b)
      PROVE  ChainInv'
  <2> DEFINE fwd == ForwardableAsRequested(b, tkt.client, s)
  <2>1. ValidTicket(FALSE) /\ Derive(s, b, TransitedFor, fwd)
    BY <1>3 DEF ServiceTicket, Presented
  <2>2. tkt \in Ticket
    BY <1>0, <2>1 DEF ValidTicket
  <2>3. TransitedFor \in SUBSET Remote
    BY <2>2, PathTyped
  <2>4. {tkt.server[1]} \cup tkt.transited \subseteq {Local, tkt.client} \cup TransitedFor
    BY DEF TransitedFor, CrossRealm
  <2>5. /\ fwd \in SUBSET {"forwardable"}
        /\ tkt.client \in User /\ "forwardable" \in fwd => tkt.client \in hist.allowed
    BY TicketsAssumption DEF ForwardableAsRequested, ChainInv, AllowedInv
  <2> HIDE DEF fwd
  <2> QED BY <2>1, <2>3, <2>4, <2>5, DerivedTicketKeeps
<1>4. ASSUME NEW v \in Service, NEW x \in Service, NEW b \in Body, S4U2Proxy(v, x, b)
      PROVE  ChainInv'
  <2>1. /\ ValidTicket(FALSE) /\ tkt.server = <<Local, v>> /\ "forwardable" \in tkt.flags
        /\ Derive(<<Local, x>>, b, tkt.transited, {"forwardable"})
    BY <1>4 DEF S4U2Proxy
  <2>2. tkt # NoTicket /\ tkt.transited \in SUBSET Remote
    BY <1>0, <2>1 DEF ValidTicket, Ticket
  <2>3. <<Local, x>> \in LocalServer
    BY DEF LocalServer
  <2>4. {tkt.server[1]} \cup tkt.transited \subseteq {Local, tkt.client} \cup tkt.transited
    BY <2>1
  <2>5. tkt.client \in User => tkt.client \in hist.allowed
    BY <2>1, <2>2 DEF ChainInv, AllowedInv, ForwardableConsented
  <2> QED BY <2>1, <2>2, <2>3, <2>4, <2>5, DerivedTicketKeeps
<1>5. ASSUME NEW both \in BOOLEAN, RenewTicket(both) PROVE ChainInv'
  <2>1. /\ tkt # NoTicket /\ tkt \in Ticket /\ tkt.start <= now + Skew
        /\ Enabled(tkt.client)
        /\ UNCHANGED <<now, forwarders, disabledAt, hist>>
    BY <1>0, <1>5 DEF RenewTicket, Presented, ValidTicket
  <2>2. /\ tkt'.client = tkt.client /\ tkt'.server = tkt.server /\ tkt'.till = tkt.till
        /\ tkt'.transited = tkt.transited /\ tkt'.flags = tkt.flags \ {"initial"}
        /\ tkt'.end = RenewedEnd
    BY <1>5, <2>1 DEF RenewTicket, Ticket
  <2>3. RenewedEnd \in Int /\ RenewedEnd <= tkt.till /\ RenewedEnd <= now + MaxTicketLife
    <3>1. tkt.client \in Client /\ tkt.server \in Server /\ tkt.till \in Nat
      BY <2>1 DEF Ticket, Client
    <3>2. /\ EffectiveLife(TicketLife, tkt.client, tkt.server, MaxTicketLife) \in Nat
          /\ EffectiveLife(TicketLife, tkt.client, tkt.server, MaxTicketLife) <= MaxTicketLife
      BY <3>1, LifeWithinRealm, TicketsAssumption
    <3> QED BY <1>0, <3>1, <3>2 DEF RenewedEnd, Earlier
  <2>4. OpensInv'
    <3>1. hist.opens <= now + Skew
      BY <1>0, <2>1 DEF ChainInv, OpensInv, Ticket
    <3> QED BY <2>1, <3>1 DEF OpensInv
  <2>5. LimitInv'
    BY <1>0, <2>1, <2>2, <2>3 DEF ChainInv, LimitInv, Ticket
  <2>6. AllowedInv' /\ TransitedTold'
    BY <2>1, <2>2 DEF ChainInv, AllowedInv, ForwardableConsented, TransitedTold
  <2>7. LifeInv'
    BY <2>1, <2>2, <2>3 DEF LifeInv, Enabled
  <2> QED BY <2>4, <2>5, <2>6, <2>7 DEF ChainInv
<1>6. ASSUME ValidateTicket PROVE ChainInv'
  <2>1. /\ tkt # NoTicket /\ tkt \in Ticket /\ tkt.start <= now + Skew
        /\ UNCHANGED <<now, forwarders, disabledAt, hist>>
    BY <1>0, <1>6 DEF ValidateTicket, Presented, ValidTicket
  <2>2. /\ tkt'.client = tkt.client /\ tkt'.server = tkt.server /\ tkt'.till = tkt.till
        /\ tkt'.transited = tkt.transited /\ tkt'.flags = tkt.flags \ {"invalid"}
        /\ tkt'.end = tkt.end
    BY <1>6, <2>1 DEF ValidateTicket, Ticket
  <2>3. OpensInv'
    <3>1. hist.opens <= now + Skew
      BY <1>0, <2>1 DEF ChainInv, OpensInv, Ticket
    <3> QED BY <2>1, <3>1 DEF OpensInv
  <2>4. LimitInv' /\ LifeInv'
    BY <2>1, <2>2 DEF ChainInv, LimitInv, LifeInv
  <2>5. AllowedInv' /\ TransitedTold'
    BY <2>1, <2>2 DEF ChainInv, AllowedInv, ForwardableConsented, TransitedTold
  <2> QED BY <2>3, <2>4, <2>5 DEF ChainInv
<1>7. ASSUME NEW c \in Remote, NEW r \in Remote, NEW between \in SUBSET Remote,
             NEW f \in BOOLEAN, NEW till \in Asked \cup {0},
             RemoteLogin(c, r, between, f, till)
      PROVE  ChainInv'
  <2>1. /\ tkt = NoTicket /\ UNCHANGED <<now, forwarders, disabledAt>>
        /\ tkt'.client = c /\ tkt'.server = <<r, Local>> /\ tkt'.transited = between
        /\ tkt'.flags \cap {"invalid", "postdated"} = {}
        /\ hist' = Issued(tkt', tkt'.end, between \cup {c, r})
    BY <1>7 DEF RemoteLogin
  <2>2. tkt' \in Ticket /\ tkt'.end \in Int /\ tkt'.till \in Nat
    <3>1. tkt' \in Ticket
      BY <1>0, <1>7, RemoteTicketTyped
    <3> QED BY <3>1 DEF Ticket
  <2>3. /\ hist'.limit >= tkt'.end /\ hist'.limit >= tkt'.till /\ hist'.limit \in Int
        /\ hist'.vouched = between \cup {c, r} /\ hist'.allowed = hist.allowed
        /\ hist'.opens = hist.opens
    <3>1. between \cup {c, r} \in SUBSET ({Local} \cup Remote)
      OBVIOUS
    <3> QED BY <1>0, <2>1, <2>2, <3>1, IssuedTyped DEF History
  <2>4. c \notin User
    BY TicketsAssumption
  <2>5. OpensInv' /\ LimitInv'
    BY <2>1, <2>2, <2>3 DEF ChainInv, OpensInv, LimitInv
  <2>6. AllowedInv' /\ LifeInv'
    BY <2>1, <2>3, <2>4 DEF ChainInv, AllowedInv, ForwardableConsented, LifeInv
  <2>7. TransitedTold'
    <3>1. tkt'.server[1] = r
      BY <2>1
    <3> QED BY <2>1, <2>3, <3>1 DEF TransitedTold
  <2> QED BY <2>5, <2>6, <2>7 DEF ChainInv
<1>8. ASSUME RemoteReturn PROVE ChainInv'
  <2>1. /\ tkt # NoTicket /\ tkt \in Ticket /\ "invalid" \notin tkt.flags
        /\ tkt.server[1] = Local
        /\ UNCHANGED <<now, forwarders, disabledAt>>
    BY <1>0, <1>8 DEF RemoteReturn, ValidTicket
  <2>2. /\ tkt'.client = tkt.client /\ tkt'.server = <<tkt.server[2], Local>>
        /\ tkt'.till = 0 /\ tkt'.transited = tkt.transited /\ tkt'.end = tkt.end
        /\ tkt'.flags = tkt.flags \ {"initial", "renewable"}
    BY <1>8, <2>1 DEF RemoteReturn, Ticket
  <2>3. /\ hist'.limit = hist.limit /\ hist'.allowed = hist.allowed
        /\ hist'.opens = hist.opens /\ hist'.vouched = hist.vouched \cup {tkt.server[2]}
    BY <1>0, <1>8 DEF RemoteReturn, History
  <2>4. OpensInv' /\ LifeInv'
    BY <2>1, <2>2, <2>3 DEF ChainInv, OpensInv, LifeInv
  <2>5. LimitInv'
    BY <1>0, <2>1, <2>2, <2>3 DEF ChainInv, LimitInv, Ticket
  <2>6. AllowedInv' /\ TransitedTold'
    BY <2>1, <2>2, <2>3 DEF ChainInv, AllowedInv, ForwardableConsented, TransitedTold
  <2> QED BY <2>4, <2>5, <2>6 DEF ChainInv
<1>9. ASSUME NEW u \in User, PatchForwardable(u) PROVE ChainInv'
  <2>1. /\ UNCHANGED <<now, disabledAt, tkt>>
        /\ hist'.limit = hist.limit /\ hist'.opens = hist.opens
        /\ hist'.vouched = hist.vouched /\ hist'.allowed = hist.allowed \cup forwarders'
    BY <1>0, <1>9 DEF PatchForwardable, History
  <2>2. OpensInv' /\ LimitInv' /\ LifeInv'
    BY <2>1 DEF ChainInv, OpensInv, LimitInv, LifeInv
  <2>3. AllowedInv' /\ TransitedTold'
    BY <2>1 DEF ChainInv, AllowedInv, ForwardableConsented, TransitedTold
  <2> QED BY <2>2, <2>3 DEF ChainInv
<1>10. ASSUME NEW u \in User, PatchEnabled(u) PROVE ChainInv'
  <2>1. UNCHANGED <<now, forwarders, tkt, hist>>
    BY <1>10 DEF PatchEnabled
  <2>2. OpensInv' /\ LimitInv' /\ AllowedInv' /\ TransitedTold'
    BY <2>1 DEF ChainInv, OpensInv, LimitInv, AllowedInv, ForwardableConsented, TransitedTold
  <2>3. LifeInv'
    <3> SUFFICES ASSUME tkt # NoTicket, tkt.client \in User, "postdated" \notin tkt.flags
                 PROVE  tkt.end <= (IF disabledAt'[tkt.client] = 0 THEN now
                                    ELSE disabledAt'[tkt.client]) + MaxTicketLife
      BY <2>1 DEF LifeInv
    <3>1. tkt.end \in Int /\ disabledAt[tkt.client] \in 0..now /\ now >= 1
      BY <1>0 DEF TicketsTypeOK, Ticket
    <3>3. tkt.client # u => disabledAt'[tkt.client] = disabledAt[tkt.client]
      BY <1>10 DEF PatchEnabled, TicketsTypeOK
    <3>4. tkt.client = u =>
            disabledAt'[tkt.client] = IF disabledAt[tkt.client] = 0 THEN now ELSE 0
      BY <1>10 DEF PatchEnabled, TicketsTypeOK
    <3> QED BY <1>0, <3>1, <3>3, <3>4 DEF ChainInv, LifeInv
  <2> QED BY <2>2, <2>3 DEF ChainInv
<1>11. ASSUME Tick PROVE ChainInv'
  <2>1. now' = now + 1 /\ UNCHANGED <<forwarders, disabledAt, tkt, hist>>
    BY <1>11 DEF Tick
  <2>2. OpensInv'
    BY <1>0, <2>1 DEF ChainInv, OpensInv
  <2>3. LimitInv' /\ AllowedInv' /\ TransitedTold'
    BY <2>1 DEF ChainInv, LimitInv, AllowedInv, ForwardableConsented, TransitedTold
  <2>4. LifeInv'
    <3> SUFFICES ASSUME tkt # NoTicket, tkt.client \in User, "postdated" \notin tkt.flags
                 PROVE  tkt.end <= (IF disabledAt[tkt.client] = 0 THEN now + 1
                                    ELSE disabledAt[tkt.client]) + MaxTicketLife
      BY <2>1 DEF LifeInv
    <3>1. tkt.end \in Int /\ disabledAt[tkt.client] \in Int
      BY <1>0 DEF TicketsTypeOK, Ticket
    <3> QED BY <1>0, <3>1 DEF ChainInv, LifeInv
  <2> QED BY <2>2, <2>3, <2>4 DEF ChainInv
<1>12. CASE UNCHANGED vars
  BY <1>12 DEF vars, ChainInv, OpensInv, LimitInv, AllowedInv, ForwardableConsented,
               TransitedTold, LifeInv
<1> QED BY <1>1, <1>2, <1>3, <1>4, <1>5, <1>6, <1>7, <1>8, <1>9, <1>10, <1>11, <1>12
        DEF TicketsNext

\* The invariants of the chain hold in every reachable state.
LEMMA ChainInvHolds == TicketsSpec => [](TicketsTypeOK /\ ChainInv)
<1>1. TicketsInit => ChainInv
  BY TicketsAssumption DEF TicketsInit, ChainInv, OpensInv, LimitInv, AllowedInv,
     ForwardableConsented, TransitedTold, LifeInv
<1>2. TicketsSpec => []TicketsTypeOK
  BY TicketsTypeCorrect
<1>3. TicketsTypeOK /\ TicketsTypeOK' /\ ChainInv /\ [TicketsNext]_vars => ChainInv'
  BY ChainStep
<1> QED BY <1>1, <1>2, <1>3, PTL DEF TicketsSpec

-----------------------------------------------------------------------------
(* The properties. *)

\* No chain of exchanges gives a ticket that ends later than its tickets
\* promised (issueTicket, renewTicket).
THEOREM ReachIsBounded == TicketsSpec => []ReachBounded
<1>1. ChainInv => ReachBounded
  BY DEF ChainInv, LimitInv, ReachBounded
<1> QED BY <1>1, ChainInvHolds, PTL

\* A postdated chain has no valid ticket before the start asked for
\* (checkTicketValidity, renewTicket, validateTicket).
THEOREM NeverUsedEarly == TicketsSpec => []NoEarlyUse
<1>1. ChainInv => NoEarlyUse
  BY DEF ChainInv, OpensInv, NoEarlyUse
<1> QED BY <1>1, ChainInvHolds, PTL

\* A user who never had allowForwardable has no forwardable ticket
\* (ticketFlags, s4u2Self, s4u2Proxy).
THEOREM ForwardingConsented == TicketsSpec => []ForwardableConsented
<1>1. ChainInv => ForwardableConsented
  BY DEF ChainInv, AllowedInv
<1> QED BY <1>1, ChainInvHolds, PTL

\* Every realm that issued a ticket of the chain can be read off the last one
\* (transitedFor).
THEOREM PathIsTold == TicketsSpec => []TransitedTold
<1>1. ChainInv => TransitedTold
  BY DEF ChainInv
<1> QED BY <1>1, ChainInvHolds, PTL

\* The tickets of a disabled user run out within one ticket life, those
\* postdated apart (loadPolicyPrincipal).
THEOREM DisabledUserRunsOut == TicketsSpec => []DisabledRunsOut
<1>1. ChainInv => DisabledRunsOut
  BY DEF ChainInv, LifeInv, DisabledRunsOut, Enabled
<1> QED BY <1>1, ChainInvHolds, PTL
=============================================================================
