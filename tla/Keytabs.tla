------------------------------ MODULE Keytabs ------------------------------
(***************************************************************************)
(* Keytabs: the API's POST /keytab (internal/api/keytab.go) and the        *)
(* command that adds keys to a file (cmd/ldap-kdc/ktadd.go).  Both take    *)
(* the current keys of several principals, each read or re-keyed in a      *)
(* transaction of its own, while others re-key, delete and create them.    *)
(* The file is read, merged and replaced by a rename, without a lock; a    *)
(* ktadd may be killed at any step.                                        *)
(***************************************************************************)
EXTENDS Naturals, Sequences, SequencesExt, FiniteSets

CONSTANTS
  KName,         \* names asked for: canonical names and aliases
  KPrincipal,    \* the principals there may be, named by their canonical name
  Canonical,     \* KName -> KPrincipal
  Asks,          \* bound: the lists of names the API and ktadd are asked for
  KWorker,       \* requests of the API and ktadd processes in progress
  MaxVersion,    \* bound: key versions of a principal
  MaxBorn        \* bound: times a principal is created

ASSUME KeytabsAssumption ==
  /\ KPrincipal \subseteq KName /\ Canonical \in [KName -> KPrincipal]
  /\ \A p \in KPrincipal : Canonical[p] = p
  /\ MaxVersion \in Nat /\ MaxBorn \in Nat

VARIABLES
  held,          \* per principal, [born, kvno, there]: which keys it has
  work,          \* KWorker -> what the request or the command is doing
  file,          \* the keytab file: a sequence of entries
  kept,          \* history: what the successful ktadds added, less what they replaced
  raced          \* history: two ktadds had the file read at once

ktvars == <<held, work, file, kept, raced>>

KIdle == [pc |-> "idle", tool |-> "none", randkey |-> FALSE, asked |-> << >>, got |-> << >>,
          rekeyed |-> {}, lost |-> FALSE]

Entry(p, h) == [principal |-> p, kvno |-> h.kvno, born |-> h.born]

KeytabsInit ==
  /\ held = [p \in KPrincipal |-> [born |-> 1, kvno |-> 1, there |-> TRUE]]
  /\ work = [w \in KWorker |-> KIdle]
  /\ file = << >> /\ kept = {} /\ raced = FALSE

Rekeyed(p) == [held EXCEPT ![p].kvno = @ + 1]

\* Everybody else: a principal is re-keyed, deleted, or created anew with its
\* version starting over.
OtherRekey(p) ==
  /\ held[p].there /\ held[p].kvno < MaxVersion
  /\ held' = Rekeyed(p)
  /\ UNCHANGED <<work, file, kept, raced>>

OtherDelete(p) ==
  /\ held[p].there
  /\ held' = [held EXCEPT ![p].there = FALSE]
  /\ work' = [w \in KWorker |-> IF work[w].tool = "api" THEN [work[w] EXCEPT !.lost = TRUE] ELSE work[w]]
  /\ UNCHANGED <<file, kept, raced>>

OtherCreate(p) ==
  /\ ~ held[p].there /\ held[p].born < MaxBorn
  /\ held' = [held EXCEPT ![p] = [born |-> @.born + 1, kvno |-> 1, there |-> TRUE]]
  /\ UNCHANGED <<work, file, kept, raced>>

\* A request or a command starts.
KBegin(w, tool, randkey, names) ==
  /\ work[w] = KIdle
  /\ work' = [work EXCEPT ![w] = [KIdle EXCEPT !.pc = "names", !.tool = tool, !.randkey = randkey, !.asked = names]]
  /\ UNCHANGED <<held, file, kept, raced>>

\* Faulty variant: the API re-keys each principal as it resolves it.
ResolveRekeying(w) ==
  LET p == Canonical[Head(work[w].asked)]
  IN  /\ work[w].tool = "api" /\ work[w].pc = "names" /\ work[w].asked # << >>
      /\ IF ~ held[p].there THEN work' = [work EXCEPT ![w].pc = "failed"] /\ UNCHANGED held
         ELSE /\ held[p].kvno < MaxVersion
              /\ held' = IF work[w].randkey THEN Rekeyed(p) ELSE held
              /\ work' = [work EXCEPT ![w].asked = Tail(@), ![w].got = Append(@, Entry(p, held'[p])),
                            ![w].rekeyed = IF work[w].randkey THEN @ \cup {p} ELSE @]
      /\ UNCHANGED <<file, kept, raced>>

\* handleKeytab resolves the next name; a principal found before is passed over.
Resolve(w) ==
  LET p == Canonical[Head(work[w].asked)]
  IN  /\ work[w].tool = "api" /\ work[w].pc = "names" /\ work[w].asked # << >>
      /\ IF ~ held[p].there THEN work' = [work EXCEPT ![w].pc = "failed"]
         ELSE work' = [work EXCEPT ![w].asked = Tail(@),
                ![w].got = IF \E e \in ToSet(@) : e.principal = p THEN @ ELSE Append(@, Entry(p, held[p]))]
      /\ UNCHANGED <<held, file, kept, raced>>

\* handleKeytab, all resolved: with randkey the principals are re-keyed in
\* turn, and the entry becomes the new version.
Randomize(w) ==
  LET next == {i \in DOMAIN work[w].got : work[w].got[i].principal \notin work[w].rekeyed}
      i == CHOOSE n \in next : \A m \in next : n <= m
      p == work[w].got[i].principal
  IN  /\ work[w].tool = "api" /\ work[w].pc = "names" /\ work[w].asked = << >>
      /\ work[w].randkey /\ next # {}
      /\ IF ~ held[p].there THEN work' = [work EXCEPT ![w].pc = "failed"] /\ UNCHANGED held
         ELSE /\ held[p].kvno < MaxVersion
              /\ held' = Rekeyed(p)
              /\ work' = [work EXCEPT ![w].rekeyed = @ \cup {p}, ![w].got[i] = Entry(p, held'[p])]
      /\ UNCHANGED <<file, kept, raced>>

Answer(w) ==
  /\ work[w].tool = "api" /\ work[w].pc = "names" /\ work[w].asked = << >>
  /\ work[w].randkey => \A e \in ToSet(work[w].got) : e.principal \in work[w].rekeyed
  /\ work' = [work EXCEPT ![w].pc = "issued"]
  /\ UNCHANGED <<held, file, kept, raced>>

\* runKtadd takes the next name: re-keyed or read, one after the other.
Gather(w) ==
  LET p == Canonical[Head(work[w].asked)]
  IN  /\ work[w].tool = "ktadd" /\ work[w].pc = "names" /\ work[w].asked # << >>
      /\ IF ~ held[p].there THEN work' = [work EXCEPT ![w].pc = "failed"] /\ UNCHANGED held
         ELSE /\ work[w].randkey => held[p].kvno < MaxVersion
              /\ held' = IF work[w].randkey THEN Rekeyed(p) ELSE held
              /\ work' = [work EXCEPT ![w].asked = Tail(@), ![w].got = Append(@, Entry(p, held'[p])),
                            ![w].rekeyed = IF work[w].randkey THEN @ \cup {p} ELSE @]
      /\ UNCHANGED <<file, kept, raced>>

\* keytabEntryID; one key type stands for all of them.
SameId(e, f) == e.principal = f.principal /\ e.kvno = f.kvno

\* Faulty variant: every version of a principal that was added goes.
MergeByName(existing, added) ==
  SelectSeq(existing, LAMBDA e : \A a \in ToSet(added) : a.principal # e.principal) \o added

\* MergeKeytab.
MergeKeytab(existing, added) ==
  SelectSeq(existing, LAMBDA e : \A a \in ToSet(added) : ~ SameId(a, e)) \o added

\* readKeytab: what is merged is the file as it is now.
ReadFile(w) ==
  /\ work[w].tool = "ktadd" /\ work[w].pc = "names" /\ work[w].asked = << >>
  /\ work' = [work EXCEPT ![w].pc = "merged", ![w].asked = MergeKeytab(file, work[w].got)]
  /\ raced' = (raced \/ \E x \in KWorker : work[x].pc = "merged")
  /\ UNCHANGED <<held, file, kept>>

\* writeFileAtomic: the new file is in place whole.
Rename(w) ==
  /\ work[w].pc = "merged"
  /\ file' = work[w].asked
  /\ kept' = {e \in kept : \A a \in ToSet(work[w].got) : ~ SameId(a, e)} \cup
             {a \in ToSet(work[w].got) : \A b \in ToSet(work[w].got) : SameId(a, b) => a = b}
  /\ work' = [work EXCEPT ![w] = KIdle]
  /\ UNCHANGED <<held, raced>>

\* A ktadd is killed or fails, its temporary file notwithstanding; a request
\* of the API is over.
KEnd(w) ==
  /\ \/ work[w].tool = "ktadd"
     \/ work[w].pc \in {"issued", "failed"}
  /\ work' = [work EXCEPT ![w] = KIdle]
  /\ UNCHANGED <<held, file, kept, raced>>

KeytabsNext ==
  \/ \E p \in KPrincipal : OtherRekey(p) \/ OtherDelete(p) \/ OtherCreate(p)
  \/ \E w \in KWorker :
       \/ \E t \in {"api", "ktadd"}, k \in BOOLEAN : \E ns \in Asks[t] : KBegin(w, t, k, ns)
       \/ Resolve(w) \/ Randomize(w) \/ Answer(w) \/ Gather(w) \/ ReadFile(w) \/ Rename(w) \/ KEnd(w)

KeytabsSpec == KeytabsInit /\ [][KeytabsNext]_ktvars

-----------------------------------------------------------------------------

\* Principals keep their birth and key version in range, and every entry of the
\* file names a principal by its canonical name, never by the alias it was asked
\* for (gather, MergeKeytab).
KeytabsTypeOK ==
  /\ \A p \in KPrincipal : held[p].born \in 1..MaxBorn /\ held[p].kvno \in 1..MaxVersion /\ held[p].there \in BOOLEAN
  /\ \A w \in KWorker : work[w].pc \in {"idle", "names", "failed", "issued", "merged"}
  /\ \A e \in ToSet(file) : e.principal \in KPrincipal

\* A keytab the API issues holds one entry for each principal asked for,
\* under its canonical name, however often and under whichever names it was
\* asked for, and all of them new when it was asked to re-key (handleKeytab).
IssuedWhole ==
  \A w \in KWorker : work[w].pc = "issued" =>
    /\ \A i, j \in DOMAIN work[w].got : work[w].got[i].principal = work[w].got[j].principal => i = j
    /\ work[w].randkey => {e.principal : e \in ToSet(work[w].got)} = work[w].rekeyed

\* One unknown name fails the request without rotating the others: a request
\* of the API that fails has re-keyed nothing, unless a principal was deleted
\* under it (handleKeytab).
FailureRotatesNothing ==
  \A w \in KWorker : work[w].tool = "api" /\ work[w].pc = "failed" => work[w].rekeyed = {} \/ work[w].lost

\* What a ktadd added stays in the file, older key versions included, until
\* the same version of the same principal is added again, although commands
\* are killed at any step; unless two of them had it read at once (MergeKeytab,
\* writeFileAtomic).
FileKeeps == ~ raced => kept \subseteq ToSet(file)

\* A request for a keytab re-keys and delivers everything it was asked for, or
\* nothing (handleKeytab).
AllOrNothing == KeytabsTypeOK /\ IssuedWhole /\ FailureRotatesNothing
==============================================================================
