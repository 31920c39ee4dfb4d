------------------------------- MODULE Lockout -------------------------------
(***************************************************************************)
(* Per-principal lockout: the fail_count, locked_until and last_failure    *)
(* columns of one principal, the AS exchange that reads and drives them    *)
(* (kdc/as.go) and RecordAuthResult (store/principals.go).                 *)
(*                                                                         *)
(* An AS request reads the clock, then the row, refuses a locked           *)
(* principal, verifies the timestamp, reads the clock again in             *)
(* RecordAuthResult and only then waits for the write lock.  The clock may *)
(* advance while requests are between those steps; `stalled` records that  *)
(* it has.                                                                 *)
(***************************************************************************)
EXTENDS Integers, FiniteSets, FiniteSetsExt

CONSTANTS
  ASWorker,
  MaxFailures,  \* number_of_failed_binds
  Interval,     \* period_of_failed_binds
  Duration,     \* block_failed_binds_for
  LMaxNow       \* bound: last tick explored

ASSUME LockoutAssumption ==
  /\ MaxFailures \in Nat /\ Interval \in Nat /\ Duration \in Nat
  /\ LMaxNow \in Nat

VARIABLES
  lnow,
  failCount, lockedUntil, lastFailure,  \* columns of the row
  asreq,                                \* per worker, the AS request it serves
  stalled,                              \* history: a tick fell inside a request
  guesses                               \* history: wrong guesses verified per
                                        \* tick since the tally was last reset,
                                        \* counted until a request stalls

lockVars == <<lnow, failCount, lockedUntil, lastFailure, asreq, stalled, guesses>>

row == <<failCount, lockedUntil, lastFailure>>

Null == -1

NoReq == [pc |-> "idle", at |-> 0, ok |-> FALSE]

NoGuesses == [t \in 0..LMaxNow |-> 0]

LockoutInit ==
  /\ lnow = 0
  /\ failCount = 0 /\ lockedUntil = Null /\ lastFailure = Null
  /\ asreq = [w \in ASWorker |-> NoReq]
  /\ stalled = FALSE
  /\ guesses = NoGuesses

\* handleASReq reads the clock ...
LArrive(w) ==
  /\ asreq[w].pc = "idle"
  /\ asreq' = [asreq EXCEPT ![w] = [pc |-> "status", at |-> lnow, ok |-> FALSE]]
  /\ UNCHANGED <<lnow, row, stalled, guesses>>

LockedOut(at) == lockedUntil # Null /\ at < lockedUntil

\* Faulty variant: a lock is not consulted.
CheckStatusNever(w) ==
  /\ asreq[w].pc = "status"
  /\ asreq' = [asreq EXCEPT ![w].pc = "verify"]
  /\ UNCHANGED <<lnow, row, stalled, guesses>>

\* ... then the row: a locked principal is answered as revoked.
CheckStatus(w) ==
  /\ asreq[w].pc = "status"
  /\ asreq' = IF LockedOut(asreq[w].at) THEN [asreq EXCEPT ![w] = NoReq]
            ELSE [asreq EXCEPT ![w].pc = "verify"]
  /\ UNCHANGED <<lnow, row, stalled, guesses>>

\* checkPreAuth decides, and RecordAuthResult reads the clock before it waits
\* for the write lock.
Verify(w, ok) ==
  /\ asreq[w].pc = "verify"
  /\ asreq' = [asreq EXCEPT ![w] = [pc |-> "record", at |-> lnow, ok |-> ok]]
  /\ guesses' = IF ok \/ stalled THEN guesses ELSE [guesses EXCEPT ![lnow] = @ + 1]
  /\ UNCHANGED <<lnow, row, stalled>>

\* No usable pre-authentication, or a timestamp outside the skew: the request
\* ends with nothing recorded.
Unrecorded(w) ==
  /\ asreq[w].pc = "verify"
  /\ asreq' = [asreq EXCEPT ![w] = NoReq]
  /\ UNCHANGED <<lnow, row, stalled, guesses>>

\* The tally is reset: a success, a new key version or an unlock.
Reset ==
  /\ failCount' = 0
  /\ lockedUntil' = Null
  /\ guesses' = NoGuesses

RecordSuccess(w) ==
  /\ asreq[w].pc = "record" /\ asreq[w].ok
  /\ Reset
  /\ asreq' = [asreq EXCEPT ![w] = NoReq]
  /\ UNCHANGED <<lnow, lastFailure, stalled>>

Tally(at) ==
  1 + IF Interval > 0 /\ lastFailure # Null /\ at - lastFailure > Interval
      THEN 0 ELSE failCount

\* Faulty variant: the lock is set one failure late.
LockAfter(fails, at) ==
  IF MaxFailures > 0 /\ fails > MaxFailures /\ Duration > 0
  THEN at + Duration ELSE Null

LockFor(fails, at) ==
  IF MaxFailures > 0 /\ fails >= MaxFailures /\ Duration > 0
  THEN at + Duration ELSE Null

RecordFailure(w) ==
  /\ asreq[w].pc = "record" /\ ~asreq[w].ok
  /\ failCount' = Tally(asreq[w].at)
  /\ lockedUntil' = LockFor(Tally(asreq[w].at), asreq[w].at)
  /\ lastFailure' = asreq[w].at
  /\ asreq' = [asreq EXCEPT ![w] = NoReq]
  /\ UNCHANGED <<lnow, stalled, guesses>>

\* rollKeys, and PATCH {"unlock": true}; on a clean row they change nothing.
Unlock ==
  /\ failCount > 0
  /\ Reset
  /\ UNCHANGED <<lnow, lastFailure, asreq, stalled>>

LTick ==
  /\ lnow < LMaxNow
  /\ lnow' = lnow + 1
  /\ stalled' = (stalled \/ \E w \in ASWorker : asreq[w].pc # "idle")
  /\ guesses' = IF stalled' THEN NoGuesses ELSE guesses
  /\ UNCHANGED <<row, asreq>>

LockoutNext ==
  \/ \E w \in ASWorker :
       \/ LArrive(w) \/ CheckStatus(w) \/ (\E ok \in BOOLEAN : Verify(w, ok))
       \/ Unrecorded(w) \/ RecordSuccess(w) \/ RecordFailure(w)
  \/ Unlock
  \/ LTick

LockoutSpec == LockoutInit /\ [][LockoutNext]_lockVars

-----------------------------------------------------------------------------

\* Type invariant: no time on the row or in a request is in the future but
\* the end of a lock, and no lock outlasts its duration.
LockoutTypeOK ==
  /\ lnow \in 0..LMaxNow
  /\ failCount \in Nat
  /\ lockedUntil \in 0..(lnow + Duration) \cup {Null}
  /\ lastFailure \in 0..lnow \cup {Null}
  /\ asreq \in [ASWorker -> [pc : {"idle", "status", "verify", "record"},
                         at : 0..lnow, ok : BOOLEAN]]
  /\ stalled \in BOOLEAN
  /\ guesses \in [0..LMaxNow -> Nat]

\* Wrong guesses verified in the ticks from t to t + n - 1.
GuessesWithin(t, n) ==
  MapThenSumSet(LAMBDA i : guesses[i], {i \in t..(t + n - 1) : i <= LMaxNow})

\* Password guessing against a principal is bounded: in any stretch no longer
\* than the failure interval and the lock, at most MaxFailures guesses are
\* verified, plus one for each further request that had read the row before
\* the last of those failures was recorded.  (For requests that finish in the
\* tick in which they arrived.)
GuessesBounded ==
  ~stalled => \A t \in 0..LMaxNow :
    GuessesWithin(t, Min({Interval, Duration}))
      <= MaxFailures + Cardinality(ASWorker) - 1

\* A row with MaxFailures failures on its tally is a locked row, and only
\* such a row is: no order of recorded results leaves a full tally without a
\* lock, or a lock that the tally does not explain.
LockExplained ==
  MaxFailures > 0 /\ Duration > 0 =>
    (lockedUntil # Null <=> failCount >= MaxFailures)

\* The row stays well typed, and a full tally and a lock come together
\* (RecordAuthResult).
LockKept == LockoutTypeOK /\ LockExplained
=============================================================================
