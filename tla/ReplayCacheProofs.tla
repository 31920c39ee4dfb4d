-------------------------- MODULE ReplayCacheProofs --------------------------
(***************************************************************************)
(* Proof that the replay cache accepts an authenticator once, for every    *)
(* skew, set of authenticators, set of workers and client clocks, when a   *)
(* request is looked up in the tick in which its timestamp was checked.    *)
(***************************************************************************)
EXTENDS ReplayCache, TLAPS

\* What makes AcceptedOnce inductive: a request under way was stamped now; one
\* past the skew check is fresh; an entry is no older than the earliest time
\* its authenticator could be accepted; and an accepted authenticator is still
\* remembered or too old for the skew check.
CacheInv ==
  /\ \A w \in TGSWorker : tgsreq[w].pc # Idle => tgsreq[w].at = rnow
  /\ \A w \in TGSWorker : tgsreq[w].pc \in {"clock", "seen"} =>
                         Fresh(CTime[tgsreq[w].auth], tgsreq[w].at)
  /\ \A w \in TGSWorker : tgsreq[w].pc = "seen" => tgsreq[w].clock = rnow
  /\ \A a \in Auth : entries[a] # Never => entries[a] >= CTime[a] - RSkew
  /\ \A a \in Auth : accepted[a] >= 1 => entries[a] # Never \/ rnow > CTime[a] + RSkew

\* The sweep forgets only authenticators that the skew check refuses by now.
LEMMA SweepForgetsStale ==
  ASSUME ReplayTypeOK, CacheInv, NEW a \in Auth
  PROVE  /\ Swept(rnow)[a] \in Nat \cup {Never}
         /\ Swept(rnow)[a] # Never => Swept(rnow)[a] = entries[a]
         /\ (entries[a] # Never /\ Swept(rnow)[a] = Never) => rnow > CTime[a] + RSkew
<1>1. /\ entries[a] \in Nat \cup {Never} /\ rnow \in Nat
      /\ CTime[a] \in Int /\ RSkew \in Nat
  BY ReplayAssumption DEF ReplayTypeOK
<1>2. entries[a] # Never => entries[a] >= CTime[a] - RSkew
  BY DEF CacheInv
<1> QED BY <1>1, <1>2 DEF Swept, Window, Never

\* The handler and the cache keep their data well typed.
THEOREM ReplayTypeCorrect == ReplaySpec => []ReplayTypeOK
<1>1. ReplayInit => ReplayTypeOK
  BY ReplayAssumption DEF ReplayInit, ReplayTypeOK, Never, Idle, Window
<1>2. ReplayTypeOK /\ [ReplayNext]_replayVars => ReplayTypeOK'
  <2> SUFFICES ASSUME ReplayTypeOK, [ReplayNext]_replayVars PROVE ReplayTypeOK'
    OBVIOUS
  <2>1. ASSUME NEW w \in TGSWorker, NEW a \in Auth, RArrive(w, a) PROVE ReplayTypeOK'
    BY <2>1 DEF RArrive, ReplayTypeOK, Idle
  <2>2. ASSUME NEW w \in TGSWorker, CheckSkew(w) PROVE ReplayTypeOK'
    BY <2>2 DEF CheckSkew, Finish, ReplayTypeOK, Idle
  <2>6. ASSUME NEW w \in TGSWorker, ReadClock(w) PROVE ReplayTypeOK'
    <3>1. tgsreq[w].at \in 0..rnow /\ rnow \in 0..rnow /\ tgsreq[w].auth \in Auth
      BY <2>6 DEF ReadClock, ReplayTypeOK, Idle
    <3> QED BY <2>6, <3>1 DEF ReadClock, ReplayTypeOK, Idle
  <2>3. ASSUME NEW w \in TGSWorker, Seen(w) PROVE ReplayTypeOK'
    <3> DEFINE t == tgsreq[w].clock
    <3>0. t \in 0..rnow
      BY DEF ReplayTypeOK
    <3>1. tgsreq[w].auth \in Auth
      BY <2>3 DEF Seen, ReplayTypeOK, Idle
    <3>2. Swept(t) \in [Auth -> 0..rnow \cup {Never}]
      BY DEF Swept, ReplayTypeOK
    <3>3. entries' \in [Auth -> 0..rnow \cup {Never}] /\ accepted' \in [Auth -> Nat]
      BY <2>3, <3>0, <3>1, <3>2 DEF Seen, ReplayTypeOK
    <3>4. lastSweep' \in Int /\ rnow' = rnow /\ rnow' \in Nat
      BY <2>3, <3>0 DEF Seen, ReplayTypeOK
    <3> QED BY <2>3, <3>3, <3>4 DEF Seen, Finish, ReplayTypeOK, Idle
  <2>4. CASE RTick
    <3>1. rnow \in Nat /\ rnow' \in Nat /\ 0..rnow \subseteq 0..rnow'
      BY <2>4 DEF RTick, ReplayTypeOK
    <3>2. entries \in [Auth -> 0..rnow' \cup {Never}]
      BY <3>1 DEF ReplayTypeOK
    <3>3. tgsreq \in [TGSWorker -> [pc : {Idle, "skew", "clock", "seen"},
                               auth : Auth \cup {NoAuth}, at : 0..rnow', clock : 0..rnow']]
      BY <3>1 DEF ReplayTypeOK
    <3> QED BY <2>4, <3>1, <3>2, <3>3 DEF RTick, ReplayTypeOK
  <2>5. CASE UNCHANGED replayVars
    BY <2>5 DEF replayVars, ReplayTypeOK
  <2> QED BY <2>1, <2>2, <2>3, <2>4, <2>5, <2>6 DEF ReplayNext
<1> QED BY <1>1, <1>2, PTL DEF ReplaySpec

\* Without stalls no authenticator is accepted twice.
THEOREM ReplayRefused ==
  ASSUME Stall = FALSE PROVE ReplaySpec => []AcceptedOnce
<1>1. ReplayInit => CacheInv /\ AcceptedOnce
  BY DEF ReplayInit, CacheInv, AcceptedOnce, Idle
<1>2. ReplayTypeOK /\ CacheInv /\ AcceptedOnce /\ [ReplayNext]_replayVars => CacheInv' /\ AcceptedOnce'
  <2> SUFFICES ASSUME ReplayTypeOK, CacheInv, AcceptedOnce, [ReplayNext]_replayVars
               PROVE  CacheInv' /\ AcceptedOnce'
    OBVIOUS
  <2>1. ASSUME NEW w \in TGSWorker, NEW a \in Auth, RArrive(w, a)
        PROVE  CacheInv' /\ AcceptedOnce'
    BY <2>1 DEF RArrive, CacheInv, AcceptedOnce, ReplayTypeOK, Idle
  <2>2. ASSUME NEW w \in TGSWorker, CheckSkew(w) PROVE CacheInv' /\ AcceptedOnce'
    BY <2>2 DEF CheckSkew, Finish, CacheInv, AcceptedOnce, ReplayTypeOK, Idle
  <2>6. ASSUME NEW w \in TGSWorker, ReadClock(w) PROVE CacheInv' /\ AcceptedOnce'
    BY <2>6 DEF ReadClock, CacheInv, AcceptedOnce, ReplayTypeOK, Idle
  <2>3. ASSUME NEW w \in TGSWorker, Seen(w) PROVE CacheInv' /\ AcceptedOnce'
    <3> DEFINE a == tgsreq[w].auth
    <3>1. a \in Auth /\ rnow \in Nat /\ RSkew \in Nat /\ CTime \in [Auth -> Int]
      BY <2>3, ReplayAssumption DEF Seen, ReplayTypeOK, Idle
    <3>2. rnow - CTime[a] <= RSkew /\ CTime[a] - rnow <= RSkew
      BY <2>3 DEF Seen, CacheInv, Fresh, Idle
    <3>0. tgsreq[w].clock = rnow
      BY <2>3 DEF Seen, CacheInv
    <3>3. \A w2 \in TGSWorker : /\ tgsreq'[w2].pc # Idle => tgsreq'[w2] = tgsreq[w2]
                             /\ rnow' = rnow
      BY <2>3 DEF Seen, Finish, ReplayTypeOK, Idle
    <3>4. Swept(rnow) \in [Auth -> Nat \cup {Never}]
      BY DEF Swept, ReplayTypeOK
    <3>5. \A b \in Auth : /\ Swept(rnow)[b] # Never => Swept(rnow)[b] = entries[b]
                          /\ (entries[b] # Never /\ Swept(rnow)[b] = Never)
                               => rnow > CTime[b] + RSkew
      BY SweepForgetsStale
    <3>6. \A b \in Auth : accepted[b] \in Nat
      BY DEF ReplayTypeOK
    <3> HIDE DEF a
    <3>7. CASE Swept(rnow)[a] # Never
      <4>1. entries' = Swept(rnow) /\ accepted' = accepted
        BY <2>3, <3>0, <3>7 DEF Seen, a
      <4> HIDE DEF Swept
      <4>2. \A b \in Auth : entries'[b] # Never => entries'[b] >= CTime[b] - RSkew
        BY <3>5, <4>1 DEF CacheInv
      <4>3. \A b \in Auth : accepted'[b] >= 1 =>
              entries'[b] # Never \/ rnow' > CTime[b] + RSkew
        BY <3>3, <3>5, <4>1 DEF CacheInv
      <4> QED BY <3>3, <4>1, <4>2, <4>3 DEF CacheInv, AcceptedOnce, Idle
    <3>8. CASE Swept(rnow)[a] = Never
      <4>1. /\ entries' = [Swept(rnow) EXCEPT ![a] = rnow]
            /\ accepted' = [accepted EXCEPT ![a] = @ + 1]
        BY <2>3, <3>0, <3>8 DEF Seen, a
      <4>2. ~(accepted[a] >= 1)
        <5> SUFFICES ASSUME accepted[a] >= 1 PROVE FALSE
          OBVIOUS
        <5>1. entries[a] # Never \/ rnow > CTime[a] + RSkew
          BY <3>1 DEF CacheInv
        <5>2. rnow > CTime[a] + RSkew
          BY <3>1, <3>5, <3>8, <5>1
        <5> QED BY <3>1, <3>2, <5>2
      <4> HIDE DEF Swept
      <4>3. \A b \in Auth : entries'[b] = IF b = a THEN rnow ELSE Swept(rnow)[b]
        BY <3>4, <4>1
      <4>4. \A b \in Auth : accepted'[b] = IF b = a THEN accepted[b] + 1 ELSE accepted[b]
        BY <4>1 DEF ReplayTypeOK
      <4>5. \A b \in Auth : entries'[b] # Never => entries'[b] >= CTime[b] - RSkew
        BY <3>1, <3>2, <3>5, <4>3 DEF CacheInv
      <4>6. rnow # Never
        BY <3>1 DEF Never
      <4>7. \A b \in Auth : accepted'[b] >= 1 =>
              entries'[b] # Never \/ rnow' > CTime[b] + RSkew
        BY <3>3, <3>5, <4>3, <4>4, <4>6 DEF CacheInv
      <4>8. \A b \in Auth : accepted'[b] <= 1
        BY <3>1, <3>6, <4>2, <4>4 DEF AcceptedOnce
      <4> QED BY <3>3, <4>5, <4>7, <4>8 DEF CacheInv, AcceptedOnce, Idle
    <3> QED BY <3>7, <3>8
  <2>4. CASE RTick
    <3>1. \A a \in Auth : CTime[a] \in Int /\ RSkew \in Nat /\ rnow \in Nat
      BY ReplayAssumption DEF ReplayTypeOK
    <3> QED BY <2>4, <3>1 DEF RTick, CacheInv, AcceptedOnce, ReplayTypeOK, Idle
  <2>5. CASE UNCHANGED replayVars
    BY <2>5 DEF replayVars, CacheInv, AcceptedOnce
  <2> QED BY <2>1, <2>2, <2>3, <2>4, <2>5, <2>6 DEF ReplayNext
<1> QED BY <1>1, <1>2, ReplayTypeCorrect, PTL DEF ReplaySpec
=============================================================================
