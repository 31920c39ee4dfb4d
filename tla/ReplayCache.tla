----------------------------- MODULE ReplayCache -----------------------------
(***************************************************************************)
(* The KDC's authenticator replay cache (internal/kdc/replay.go) with the  *)
(* part of authenticateTGS around it: the time is read when the request    *)
(* arrives, the authenticator's timestamp is checked against that time,    *)
(* and the cache reads the clock again before it waits for its mutex.      *)
(*                                                                         *)
(* An authenticator stands for the digest of client, timestamp and ticket. *)
(* Time is a count of ticks; Stall says whether the clock may advance      *)
(* while a request is between those steps.                                 *)
(***************************************************************************)
EXTENDS Integers

CONSTANTS
  Auth,     \* authenticators
  NoAuth,
  CTime,    \* the client's timestamp in each
  RSkew,    \* ClockSkew
  TGSWorker,
  Stall,
  RMaxNow   \* bound: last tick explored

ASSUME ReplayAssumption ==
  /\ CTime \in [Auth -> Int]
  /\ RSkew \in Nat \ {0}
  /\ Stall \in BOOLEAN
  /\ RMaxNow \in Nat

\* New gives the cache twice the skew.
Window == 2 * RSkew

VARIABLES
  rnow,
  entries,    \* authenticator -> the time it was recorded, or Never
  lastSweep,
  tgsreq,     \* per worker, the request it serves
  accepted    \* history: authenticators this process accepted, with a count

replayVars == <<rnow, entries, lastSweep, tgsreq, accepted>>

Never == -1

Idle == "idle"

ReplayInit ==
  /\ rnow = 0
  /\ entries = [a \in Auth |-> Never]
  /\ lastSweep = -Window
  /\ tgsreq = [w \in TGSWorker |-> [pc |-> Idle, auth |-> NoAuth, at |-> 0, clock |-> 0]]
  /\ accepted = [a \in Auth |-> 0]

Finish(w) == tgsreq' = [tgsreq EXCEPT ![w] = [pc |-> Idle, auth |-> NoAuth, at |-> 0, clock |-> 0]]

\* Handle: the request arrives and its time is read.
RArrive(w, a) ==
  /\ tgsreq[w].pc = Idle
  /\ tgsreq' = [tgsreq EXCEPT ![w] = [pc |-> "skew", auth |-> a, at |-> rnow, clock |-> 0]]
  /\ UNCHANGED <<rnow, entries, lastSweep, accepted>>

Fresh(c, at) == at - c <= RSkew /\ c - at <= RSkew

CheckSkew(w) ==
  /\ tgsreq[w].pc = "skew"
  /\ IF Fresh(CTime[tgsreq[w].auth], tgsreq[w].at)
     THEN tgsreq' = [tgsreq EXCEPT ![w].pc = "clock"]
     ELSE Finish(w)
  /\ UNCHANGED <<rnow, entries, lastSweep, accepted>>

\* seen reads the clock ...
ReadClock(w) ==
  /\ tgsreq[w].pc = "clock"
  /\ tgsreq' = [tgsreq EXCEPT ![w] = [pc |-> "seen", auth |-> tgsreq[w].auth,
                                at |-> tgsreq[w].at, clock |-> rnow]]
  /\ UNCHANGED <<rnow, entries, lastSweep, accepted>>

SweepDue(t) == t - lastSweep >= Window \div 4

\* Faulty variant: entries are kept for the skew only.
SweptAtSkew(t) ==
  [a \in Auth |-> IF SweepDue(t) /\ entries[a] < t - RSkew
                  THEN Never ELSE entries[a]]

\* sweepLocked: at most every quarter window, drop what is older than it.
Swept(t) ==
  [a \in Auth |-> IF SweepDue(t) /\ entries[a] < t - Window
                  THEN Never ELSE entries[a]]

\* ... and then, under the mutex, sweeps and looks the authenticator up.
Seen(w) ==
  LET a == tgsreq[w].auth
      t == tgsreq[w].clock
  IN  /\ tgsreq[w].pc = "seen"
      /\ lastSweep' = IF SweepDue(t) THEN t ELSE lastSweep
      /\ \/ /\ Swept(t)[a] # Never
            /\ entries' = Swept(t)
            /\ UNCHANGED accepted
         \/ /\ Swept(t)[a] = Never
            /\ entries' = [Swept(t) EXCEPT ![a] = t]
            /\ accepted' = [accepted EXCEPT ![a] = @ + 1]
      /\ Finish(w)
      /\ UNCHANGED rnow

RTick ==
  /\ rnow < RMaxNow
  /\ Stall \/ \A w \in TGSWorker : tgsreq[w].pc = Idle
  /\ rnow' = rnow + 1
  /\ UNCHANGED <<entries, lastSweep, tgsreq, accepted>>

ReplayNext ==
  \/ \E w \in TGSWorker :
       (\E a \in Auth : RArrive(w, a)) \/ CheckSkew(w)
       \/ ReadClock(w) \/ Seen(w)
  \/ RTick

ReplaySpec == ReplayInit /\ [][ReplayNext]_replayVars

-----------------------------------------------------------------------------

\* Type invariant: no time the process keeps is in its future.
ReplayTypeOK ==
  /\ rnow \in Nat
  /\ entries \in [Auth -> 0..rnow \cup {Never}]
  /\ lastSweep \in Int
  /\ tgsreq \in [TGSWorker -> [pc : {Idle, "skew", "clock", "seen"},
                         auth : Auth \cup {NoAuth}, at : 0..rnow, clock : 0..rnow]]
  /\ \A w \in TGSWorker : tgsreq[w].pc # Idle => tgsreq[w].auth \in Auth
  /\ accepted \in [Auth -> Nat]

\* One process accepts an authenticator at most once, however often and to
\* however many workers it is sent and wherever the sweep falls: an entry
\* that has been swept is one the skew check refuses.
AcceptedOnce == \A a \in Auth : accepted[a] <= 1
=============================================================================
