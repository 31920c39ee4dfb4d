------------------------------- MODULE Failban -------------------------------
(***************************************************************************)
(* The limiter every password door shares (internal/failban): failures per *)
(* source address, and the time until which a source is blocked.  Each     *)
(* operation holds the limiter's mutex; a door calls Blocked before it     *)
(* looks at a credential and NoteFailure or NoteSuccess after.  With the    *)
(* limiter disabled none of this happens, which is not modelled.            *)
(***************************************************************************)
EXTENDS Integers, Sequences, FiniteSets, SequencesExt

CONSTANTS
  Source,        \* client addresses
  Threshold,     \* this many failures ...
  FailWindow,    \* ... within this time ...
  BlockFor,      \* ... block a source for this long
  PruneEvery,
  PruneOlder

ASSUME FailbanAssumption ==
  /\ {Threshold, FailWindow, BlockFor} \subseteq Nat \ {0}
  /\ {PruneEvery, PruneOlder} \subseteq Nat
  /\ PruneOlder >= FailWindow   \* the configuration's defaults are ten minutes and ten seconds

VARIABLES
  dnow,
  sources,       \* Source -> [failures, lastSeen, blockedTo], or Unseen
  nextPrune,
  failed,        \* history: per source, the window's failures since a success or a block
  causes         \* history: per source, the failures that led to its last block

fvars == <<sources, nextPrune, failed, causes>>

Unseen == [failures |-> << >>, lastSeen |-> -1, blockedTo |-> -1]

FailbanInit ==
  /\ dnow = 0
  /\ sources = [a \in Source |-> Unseen]
  /\ nextPrune = 0
  /\ failed = [a \in Source |-> << >>]
  /\ causes = [a \in Source |-> << >>]

\* Faulty variant: a source is dropped although it is blocked or was just seen.
PrunedEagerly ==
  IF dnow < nextPrune THEN sources
  ELSE [a \in Source |-> IF sources[a].lastSeen < dnow THEN Unseen ELSE sources[a]]

\* pruneLocked.
Pruned ==
  IF dnow < nextPrune THEN sources
  ELSE [a \in Source |-> IF sources[a].lastSeen < dnow - PruneOlder /\ dnow > sources[a].blockedTo
                         THEN Unseen ELSE sources[a]]

IsBlocked(a) == dnow < sources[a].blockedTo

\* Blocked, with its answer: the table is pruned and the source is seen.
Blocked(a, answer) ==
  /\ answer = (dnow < Pruned[a].blockedTo)
  /\ sources' = IF Pruned[a] = Unseen THEN Pruned
                ELSE [Pruned EXCEPT ![a].lastSeen = dnow]
  /\ nextPrune' = IF dnow < nextPrune THEN nextPrune ELSE dnow + PruneEvery
  /\ UNCHANGED <<failed, causes>>

Within(times) == SelectSeq(times, LAMBDA t : t > dnow - FailWindow)

\* NoteFailure: the failures of the window count, and enough of them block.
NoteFailure(a) ==
  LET kept == Append(Within(sources[a].failures), dnow)
  IN  /\ \/ /\ Len(kept) >= Threshold
            /\ sources' = [sources EXCEPT ![a] = [failures |-> << >>, lastSeen |-> dnow,
                                                  blockedTo |-> dnow + BlockFor]]
            /\ failed' = [failed EXCEPT ![a] = << >>]
            /\ causes' = [causes EXCEPT ![a] = Append(Within(failed[a]), dnow)]
         \/ /\ Len(kept) < Threshold
            /\ sources' = [sources EXCEPT ![a].failures = kept, ![a].lastSeen = dnow]
            /\ failed' = [failed EXCEPT ![a] = Append(Within(@), dnow)]
            /\ UNCHANGED causes
      /\ UNCHANGED nextPrune

\* NoteSuccess: the failures go, a block stays.
NoteSuccess(a) ==
  /\ sources' = IF sources[a] = Unseen THEN sources
                ELSE [sources EXCEPT ![a].failures = << >>, ![a].lastSeen = dnow]
  /\ failed' = [failed EXCEPT ![a] = << >>]
  /\ UNCHANGED <<nextPrune, causes>>

-----------------------------------------------------------------------------

\* As many failures as the threshold within the window always end in a block,
\* whatever was pruned in between: since the last success or block fewer than
\* that lie in any window that reaches to now (NoteFailure, pruneLocked).
ThresholdBlocks == \A a \in Source : Len(Within(failed[a])) < Threshold

\* A block is always explained: the source is blocked only after as many
\* failures within one window, with no success among them (NoteFailure,
\* NoteSuccess).
BlockExplained ==
  \A a \in Source : IsBlocked(a) =>
    LET at == Last(causes[a])
    IN  Len(SelectSeq(causes[a], LAMBDA t : t > at - FailWindow)) >= Threshold
==============================================================================
