-------------------------------- MODULE Oidc ---------------------------------
(***************************************************************************)
(* The OpenID Connect provider (internal/oidc): browser sessions, pending  *)
(* sign-ins and authorization codes, which live in memory, the token       *)
(* endpoint with its two grants, and userinfo.                             *)
(*                                                                         *)
(* A handler is as many steps as it takes tables or reads of the           *)
(* directory, so requests and the administrator interleave between them;   *)
(* the clock moves between requests.  An identifier is never drawn twice.  *)
(* The redirect URI and the code verifier of an exchange either fit the    *)
(* code or do not.                                                         *)
(***************************************************************************)
EXTENDS Integers, FiniteSets

CONSTANTS
  Account,
  Client,           \* registered client identifiers
  Interactive,      \* those registered with redirect URIs
  Sid, Rid, Code,   \* identifiers of sessions, pending sign-ins and codes
  None,
  Browser,          \* workers of the HTTP server
  SessionLifetime,  \* absolute; zero is no limit
  SessionIdle,
  CodeLifetime,     \* of a code and of a pending sign-in
  TokenLifetime,
  OMaxNow,          \* bound: last tick explored
  MaxStandings      \* bound: changes the administrator makes

ASSUME OidcAssumption ==
  /\ Interactive \subseteq Client
  /\ None \notin Account \cup Client \cup Sid \cup Rid \cup Code
  /\ {SessionLifetime, SessionIdle, CodeLifetime, TokenLifetime, OMaxNow, MaxStandings} \subseteq Nat

VARIABLES
  onow,
  enabled,          \* per account: it exists and is not disabled
  member,           \* per account: it is in the service account group
  sessions,         \* Sid -> [subject, signedIn, lastUsed], or None
  pending,          \* Rid -> [client, issued], or None
  codes,            \* Code -> [client, subject, authTime, issued], or None
  drawn,            \* history: identifiers in use or used before
  job,              \* per worker, the request it serves
  token,            \* history: the newest token, or None
  minted,           \* history: per code, how often it bought tokens
  signIns,          \* history: [subject, at], every accepted password
  enabledUntil,     \* history: per account, the last tick it was enabled
  memberUntil,
  standings

store == <<enabled, member, enabledUntil, memberUntil, standings>>
memory == <<sessions, pending, codes, drawn>>
told == <<token, minted, signIns>>
ovars == <<onow, store, memory, told, job>>

NoJob == [pc |-> "idle", client |-> None, subject |-> None, at |-> 0,
          rid |-> None, code |-> None, machine |-> FALSE]

OidcInit ==
  /\ onow = 0
  /\ enabled = [u \in Account |-> TRUE] /\ member = [u \in Account |-> TRUE]
  /\ sessions = [s \in Sid |-> None]
  /\ pending = [r \in Rid |-> None]
  /\ codes = [c \in Code |-> None]
  /\ drawn = {}
  /\ job = [w \in Browser |-> NoJob]
  /\ token = None /\ minted = [c \in Code |-> 0] /\ signIns = {}
  /\ enabledUntil = [u \in Account |-> 0] /\ memberUntil = [u \in Account |-> 0]
  /\ standings = 0

Work(w, j) == job' = [job EXCEPT ![w] = j]
Respond(w) == Work(w, NoJob)

\* Faulty variant: being used extends a session for good.
ExpiredWhenIdle(s) ==
  /\ sessions[s] # None
  /\ SessionIdle > 0 /\ onow - sessions[s].lastUsed > SessionIdle

\* expiredLocked.
Expired(s) ==
  /\ sessions[s] # None
  /\ \/ SessionLifetime > 0 /\ onow - sessions[s].signedIn > SessionLifetime
     \/ SessionIdle > 0 /\ onow - sessions[s].lastUsed > SessionIdle

\* get, of the session a cookie names.
Live(s) == s # None /\ sessions[s] # None /\ ~ Expired(s)

Late(rec) == rec # None /\ onow - rec.issued > CodeLifetime

\* What put and issue sweep before they insert.
Swept(table) == [k \in DOMAIN table |-> IF Late(table[k]) THEN None ELSE table[k]]

\* issue.
Issue(client, subject, at) ==
  \E c \in Code \ drawn :
    /\ codes' = [Swept(codes) EXCEPT ![c] = [client |-> client, subject |-> subject,
                                             authTime |-> at, issued |-> onow]]
    /\ drawn' = drawn \cup {c}

-----------------------------------------------------------------------------
\* The browser's side.

\* authorize, with a live session and no prompt=login: the session is touched.
AuthorizeSilently(w, client, s) ==
  /\ job[w] = NoJob
  /\ client \in Interactive
  /\ Live(s)
  /\ sessions' = [sessions EXCEPT ![s].lastUsed = onow]
  /\ Work(w, [NoJob EXCEPT !.pc = "issue", !.client = client,
                           !.subject = sessions[s].subject, !.at = sessions[s].signedIn])
  /\ UNCHANGED <<onow, store, pending, codes, drawn, told>>

IssueCode(w) ==
  /\ job[w].pc = "issue"
  /\ Issue(job[w].client, job[w].subject, job[w].at)
  /\ Respond(w)
  /\ UNCHANGED <<onow, store, sessions, pending, told>>

\* authorize, otherwise: an expired session goes, a live one is touched, and
\* unless prompt=none forbids it the request waits for a sign-in.
AuthorizeAsking(w, client, s, prompts) ==
  /\ job[w] = NoJob
  /\ client \in Interactive
  /\ ~ (Live(s) /\ "login" \notin prompts)
  /\ sessions' = IF s = None THEN sessions
                 ELSE IF Live(s) THEN [sessions EXCEPT ![s].lastUsed = onow]
                 ELSE [sessions EXCEPT ![s] = None]
  /\ \/ "none" \in prompts /\ UNCHANGED <<pending, drawn>>
     \/ /\ "none" \notin prompts
        /\ \E r \in Rid \ drawn :
             /\ pending' = [Swept(pending) EXCEPT ![r] = [client |-> client, issued |-> onow]]
             /\ drawn' = drawn \cup {r}
  /\ UNCHANGED <<onow, store, codes, told, job>>

\* login: the pending sign-in is read and kept ...
Login(w, r, u) ==
  /\ job[w] = NoJob
  /\ pending[r] # None /\ ~ Late(pending[r])
  /\ Work(w, [NoJob EXCEPT !.pc = "check", !.client = pending[r].client,
                           !.subject = u, !.rid = r])
  /\ UNCHANGED <<onow, store, memory, told>>

\* ... the password is checked against the account ...
CheckPassword(w) ==
  /\ job[w].pc = "check"
  /\ \/ enabled[job[w].subject] /\ Work(w, [job[w] EXCEPT !.pc = "session"])
     \/ Respond(w)
  /\ UNCHANGED <<onow, store, memory, told>>

\* ... and the session, the end of the pending sign-in and the code follow.
StartSession(w) ==
  LET j == job[w]
  IN  /\ j.pc = "session"
      /\ \E s \in Sid \ drawn :
           /\ sessions' = [k \in Sid |-> IF k = s THEN [subject |-> j.subject, signedIn |-> onow,
                                                        lastUsed |-> onow]
                                         ELSE IF Expired(k) THEN None ELSE sessions[k]]
           /\ drawn' = drawn \cup {s}
      /\ pending' = [pending EXCEPT ![j.rid] = None]
      /\ signIns' = signIns \cup {[subject |-> j.subject, at |-> onow]}
      /\ Work(w, [j EXCEPT !.pc = "issue", !.rid = None, !.at = onow])
      /\ UNCHANGED <<onow, store, codes, token, minted>>

EndSession(s) ==
  /\ sessions[s] # None
  /\ sessions' = [sessions EXCEPT ![s] = None]
  /\ UNCHANGED <<onow, store, pending, codes, drawn, told, job>>

-----------------------------------------------------------------------------
\* The token endpoint.

\* token: authenticateClient comes first; whoever fails it spends nothing.
TokenRequest(w, client, c) ==
  /\ job[w] = NoJob
  /\ c \in drawn
  /\ Work(w, [NoJob EXCEPT !.pc = "take", !.client = client, !.code = c])
  /\ UNCHANGED <<onow, store, memory, told>>

Fits(w, rec) == job[w].client = rec.client

\* Faulty variant: a code is only removed by an exchange that fails.
TakeKeeping(w) ==
  LET c == job[w].code
      rec == codes[c]
  IN  /\ job[w].pc = "take"
      /\ \/ /\ rec # None /\ ~ Late(rec) /\ Fits(w, rec)
            /\ Work(w, [job[w] EXCEPT !.pc = "claims", !.subject = rec.subject,
                                      !.at = rec.authTime])
            /\ UNCHANGED codes
         \/ Respond(w) /\ codes' = [codes EXCEPT ![c] = None]
      /\ UNCHANGED <<onow, store, sessions, pending, drawn, told>>

\* take removes the code whatever follows; an unfit one ends the exchange.
Take(w) ==
  LET c == job[w].code
      rec == codes[c]
  IN  /\ job[w].pc = "take"
      /\ codes' = [codes EXCEPT ![c] = None]
      /\ \/ /\ rec # None /\ ~ Late(rec) /\ Fits(w, rec)
            /\ Work(w, [job[w] EXCEPT !.pc = "claims", !.subject = rec.subject,
                                      !.at = rec.authTime])
         \/ Respond(w)
      /\ UNCHANGED <<onow, store, sessions, pending, drawn, told>>

\* clientCredentials: Authenticate decides on the account as read now.
ServiceAccount(w, u, audience) ==
  /\ job[w] = NoJob
  /\ enabled[u]
  /\ Work(w, [NoJob EXCEPT !.pc = "claims", !.client = audience, !.subject = u,
                           !.at = onow, !.machine = TRUE])
  /\ UNCHANGED <<onow, store, memory, told>>

\* Faulty variant: the account is not read again.
ClaimsTrusted(u) == TRUE

\* claims: nothing for an account that is gone or disabled.
Claims(u) == enabled[u]

\* The account, and a machine's membership, are read afresh.
ReadClaims(w) ==
  LET j == job[w]
  IN  /\ j.pc = "claims"
      /\ IF Claims(j.subject) /\ (j.machine => member[j.subject])
         THEN Work(w, [j EXCEPT !.pc = "mint"])
         ELSE Respond(w)
      /\ UNCHANGED <<onow, store, memory, told>>

Mint(w) ==
  LET j == job[w]
  IN  /\ j.pc = "mint"
      /\ token' = [client |-> j.client, subject |-> j.subject, machine |-> j.machine,
                   iat |-> onow, authTime |-> j.at]
      /\ minted' = IF j.code = None THEN minted ELSE [minted EXCEPT ![j.code] = @ + 1]
      /\ Respond(w)
      /\ UNCHANGED <<onow, store, memory, signIns>>

\* userinfo, verify: a machine's subject carries its kind and names no account.
UserInfoAnswers(t) ==
  t # None /\ onow <= t.iat + TokenLifetime /\ ~ t.machine /\ Claims(t.subject)

-----------------------------------------------------------------------------
\* The administrator, the clock and the process.

SetStanding(u) ==
  /\ standings < MaxStandings
  /\ standings' = standings + 1
  /\ \/ /\ enabled' = [enabled EXCEPT ![u] = ~ @]
        /\ UNCHANGED member
     \/ /\ member' = [member EXCEPT ![u] = ~ @]
        /\ UNCHANGED enabled
  /\ enabledUntil' = [enabledUntil EXCEPT ![u] = IF enabled[u] \/ enabled'[u] THEN onow ELSE @]
  /\ memberUntil' = [memberUntil EXCEPT ![u] = IF member[u] \/ member'[u] THEN onow ELSE @]
  /\ UNCHANGED <<onow, memory, told, job>>

OTick ==
  /\ onow < OMaxNow
  /\ \A w \in Browser : job[w] = NoJob
  /\ onow' = onow + 1
  /\ enabledUntil' = [u \in Account |-> IF enabled[u] THEN onow + 1 ELSE enabledUntil[u]]
  /\ memberUntil' = [u \in Account |-> IF member[u] THEN onow + 1 ELSE memberUntil[u]]
  /\ UNCHANGED <<enabled, member, standings, memory, told, job>>

\* A restart keeps none of it but the signing key.
ORestart ==
  /\ sessions' = [s \in Sid |-> None]
  /\ pending' = [r \in Rid |-> None]
  /\ codes' = [c \in Code |-> None]
  /\ job' = [w \in Browser |-> NoJob]
  /\ UNCHANGED <<onow, store, drawn, told>>

OidcNext ==
  \/ \E w \in Browser :
       \/ \E client \in Client :
            \/ \E s \in Sid : AuthorizeSilently(w, client, s)
            \/ \E s \in Sid \cup {None} : \E p \in SUBSET {"login", "none"} :
                 AuthorizeAsking(w, client, s, p)
            \/ \E c \in Code : TokenRequest(w, client, c)
            \/ \E u \in Account : ServiceAccount(w, u, client)
       \/ \E r \in Rid : \E u \in Account : Login(w, r, u)
       \/ IssueCode(w) \/ CheckPassword(w) \/ StartSession(w)
       \/ Take(w) \/ ReadClaims(w) \/ Mint(w)
  \/ \E s \in Sid : EndSession(s)
  \/ \E u \in Account : SetStanding(u)
  \/ OTick \/ ORestart

OidcSpec == OidcInit /\ [][OidcNext]_ovars

-----------------------------------------------------------------------------

\* Type invariant: no record is from the future, and only drawn identifiers
\* are in use.
OidcTypeOK ==
  /\ onow \in Nat
  /\ enabled \in [Account -> BOOLEAN] /\ member \in [Account -> BOOLEAN]
  /\ \A s \in Sid : sessions[s] # None =>
       /\ s \in drawn
       /\ sessions[s] \in [subject : Account, signedIn : 0..onow, lastUsed : 0..onow]
       /\ sessions[s].signedIn <= sessions[s].lastUsed
  /\ \A r \in Rid : pending[r] # None =>
       r \in drawn /\ pending[r] \in [client : Interactive, issued : 0..onow]
  /\ \A c \in Code : codes[c] # None =>
       /\ c \in drawn
       /\ codes[c] \in [client : Interactive, subject : Account,
                        authTime : 0..onow, issued : 0..onow]
  /\ token # None => token.iat \in 0..onow /\ token.authTime \in 0..token.iat

\* A code buys tokens at most once, however many exchanges present it at once
\* and whether or not they fit it (take).
CodeSpentOnce == \A c \in Code : minted[c] <= 1

\* Tokens about a person trace back to a password that person entered: through
\* silent authorizations and codes, the time of authentication a token states
\* is that of an accepted sign-in of its subject, no longer ago than a session
\* and a code may live (expiredLocked, issueCode, mint).
SignedInLately ==
  token # None /\ ~ token.machine =>
    /\ [subject |-> token.subject, at |-> token.authTime] \in signIns
    /\ SessionLifetime > 0 => token.iat - token.authTime <= SessionLifetime + CodeLifetime
    /\ token.client \in Interactive

\* The directory is the authority: no token is signed after the account was
\* disabled, whatever sessions and codes it left behind, nor a machine's after
\* it left the group, and userinfo honours none of a disabled account (claims,
\* serviceAccount, userinfo).
DirectoryDecides ==
  /\ token # None =>
       /\ token.iat <= enabledUntil[token.subject]
       /\ token.machine => token.iat <= memberUntil[token.subject]
  /\ UserInfoAnswers(token) => enabledUntil[token.subject] = onow

\* The provider's tables hold only what was drawn and can expire, and a code is
\* good once (code.go, session.go).
CodesSound == OidcTypeOK /\ CodeSpentOnce
=============================================================================
