----------------------------- MODULE VaultEnroll -----------------------------
(***************************************************************************)
(* The enrollment manager (internal/vaultpki) and the requests that drive  *)
(* it (internal/api/vault.go).  A loop logs in to Vault, has a certificate *)
(* signed, hands it to the holder the LDAPS listener serves from, and      *)
(* sleeps until the renewal or the retry is due.  Configure and Stop hold  *)
(* the lifecycle lock, cancel the loop that runs and wait for it to leave. *)
(*                                                                         *)
(* Time is what is left of a sleep or a lifetime.  The loop's own steps    *)
(* and a due timer take no time; what Vault and the KDC answer does.       *)
(***************************************************************************)
EXTENDS Integers, FiniteSets

CONSTANTS
  VRequest,       \* management requests in progress
  Loop,           \* places for an enrollment loop's goroutine
  VConfig,        \* configurations asked for: [ttl, before, retry]
  MinRenewDelay,
  Lifetime,       \* what the issuer may grant
  NoConfig, NoLoop, NoVRequest, NoCert

ASSUME VaultAssumption ==
  /\ \A c \in VConfig : {c.ttl, c.before, c.retry} \subseteq Int
  /\ MinRenewDelay \in Nat \ {0} /\ Lifetime \subseteq Nat \ {0}
  /\ NoConfig \notin VConfig /\ NoLoop \notin Loop /\ NoVRequest \notin VRequest

VARIABLES
  stopping,       \* the process's context is canceled
  config,         \* m.cfg
  current,        \* the loop m.cancel and m.done belong to
  enrolled, notAfter, lastErr,   \* the rest of Status; notAfter stands for its certificate
  loops,          \* Loop -> [pc, config, canceled, cert, wait]
  holder,         \* the certificate handshakes are answered with, and its time left
  lifecycle,      \* the request that holds the lock
  managing        \* VRequest -> [pc, op, awaits]

vavars == <<stopping, config, current, enrolled, notAfter, lastErr, loops, holder, lifecycle, managing>>

Gone == [pc |-> "gone", config |-> NoConfig, canceled |-> FALSE, cert |-> NoCert, wait |-> 0]
Resting == [pc |-> "idle", op |-> NoConfig, awaits |-> NoLoop]
NoService == [cert |-> NoCert, left |-> 0]

\* NewManager is inert until Configure.
VaultInit ==
  /\ stopping = FALSE /\ config = NoConfig /\ current = NoLoop
  /\ enrolled = FALSE /\ notAfter = NoCert /\ lastErr = FALSE
  /\ loops = [l \in Loop |-> Gone]
  /\ holder = NoService
  /\ lifecycle = NoVRequest
  /\ managing = [r \in VRequest |-> Resting]

Canceled(l) == stopping \/ loops[l].canceled

-----------------------------------------------------------------------------
\* Management requests.

Accepted == {c \in VConfig : c.ttl > c.before /\ c.retry > 0}

\* handlePutVaultConfig refuses a renewal window as long as the lifetime, and
\* a retry interval that is not positive.
HandlePut(r, c) ==
  /\ managing[r] = Resting
  /\ c \in Accepted
  /\ managing' = [managing EXCEPT ![r] = [Resting EXCEPT !.pc = "lock", !.op = c]]
  /\ UNCHANGED <<stopping, config, current, enrolled, notAfter, lastErr, loops, holder, lifecycle>>

\* handleDeleteVaultConfig, and the service's own Stop at shutdown.
HandleDelete(r) ==
  /\ managing[r] = Resting
  /\ managing' = [managing EXCEPT ![r] = [Resting EXCEPT !.pc = "lock"]]
  /\ UNCHANGED <<stopping, config, current, enrolled, notAfter, lastErr, loops, holder, lifecycle>>

Lock(r) ==
  /\ managing[r].pc = "lock"
  /\ lifecycle = NoVRequest
  /\ lifecycle' = r
  /\ managing' = [managing EXCEPT ![r].pc = "cancel"]
  /\ UNCHANGED <<stopping, config, current, enrolled, notAfter, lastErr, loops, holder>>

\* stopLoop, up to the wait: the loop is taken and canceled.
StopLoop(r) ==
  /\ managing[r].pc = "cancel"
  /\ current' = NoLoop
  /\ loops' = [l \in Loop |-> IF l = current /\ loops[l] # Gone
                             THEN [loops[l] EXCEPT !.canceled = TRUE] ELSE loops[l]]
  /\ managing' = [managing EXCEPT ![r].pc = "await", ![r].awaits = current]
  /\ UNCHANGED <<stopping, config, enrolled, notAfter, lastErr, holder, lifecycle>>

\* Faulty variant: the loop is canceled and not waited for.
AwaitNothing(r) ==
  /\ managing[r].pc = "await"
  /\ managing' = [managing EXCEPT ![r].pc = "install", ![r].awaits = NoLoop]
  /\ UNCHANGED <<stopping, config, current, enrolled, notAfter, lastErr, loops, holder, lifecycle>>

\* stopLoop: <-done.
Await(r) ==
  /\ managing[r].pc = "await"
  /\ managing[r].awaits # NoLoop => loops[managing[r].awaits] = Gone
  /\ managing' = [managing EXCEPT ![r].pc = "install", ![r].awaits = NoLoop]
  /\ UNCHANGED <<stopping, config, current, enrolled, notAfter, lastErr, loops, holder, lifecycle>>

\* The rest of Configure: the status starts over, except for notAfter, and a
\* loop starts.
Configure(r) ==
  /\ managing[r].pc = "install" /\ managing[r].op # NoConfig
  /\ config' = managing[r].op /\ enrolled' = FALSE /\ lastErr' = FALSE
  /\ current' = CHOOSE l \in Loop : loops[l] = Gone
  /\ loops' = [loops EXCEPT ![current'] = [Gone EXCEPT !.pc = "login", !.config = config']]
  /\ lifecycle' = NoVRequest
  /\ managing' = [managing EXCEPT ![r] = Resting]
  /\ UNCHANGED <<stopping, notAfter, holder>>

\* The rest of Stop: the status forgets the configuration, the holder keeps
\* its certificate.
Stop(r) ==
  /\ managing[r].pc = "install" /\ managing[r].op = NoConfig
  /\ config' = NoConfig /\ enrolled' = FALSE /\ notAfter' = NoCert /\ lastErr' = FALSE
  /\ lifecycle' = NoVRequest
  /\ managing' = [managing EXCEPT ![r] = Resting]
  /\ UNCHANGED <<stopping, current, loops, holder>>

\* The process is asked to leave: every loop's context derives from its own.
StopProcess ==
  /\ ~ stopping /\ stopping' = TRUE
  /\ UNCHANGED <<config, current, enrolled, notAfter, lastErr, loops, holder, lifecycle, managing>>

-----------------------------------------------------------------------------
\* The loop: run and Enroll.

To(l, pc) == [loops EXCEPT ![l].pc = pc]

\* loginToken and loginKerberos answered.  With the context canceled by then
\* the request that follows fails, which is GiveUp.
Answered(l) ==
  /\ ~ Canceled(l)
  /\ \/ loops[l].pc = "login" /\ loops' = To(l, "vault")
     \/ loops[l].pc = "vault" /\ loops' = To(l, "sign")
  /\ UNCHANGED <<stopping, config, current, enrolled, notAfter, lastErr, holder, lifecycle, managing>>

\* signCSR answered, with a lifetime the issuer may have shortened.
Signed(l, life) ==
  /\ loops[l].pc = "sign"
  /\ life <= loops[l].config.ttl
  /\ loops' = [loops EXCEPT ![l].pc = "record",
                            ![l].cert = [config |-> loops[l].config, life |-> life]]
  /\ UNCHANGED <<stopping, config, current, enrolled, notAfter, lastErr, holder, lifecycle, managing>>

\* Faulty variant: nothing ends the wait for the KDC's answer.
GiveUpHeld(l) ==
  /\ loops[l].pc \in {"vault", "sign"} \/ (loops[l].pc = "login" /\ ~ Canceled(l))
  /\ loops' = IF Canceled(l) THEN [loops EXCEPT ![l] = Gone]
              ELSE [loops EXCEPT ![l].pc = "record", ![l].cert = NoCert]
  /\ UNCHANGED <<stopping, config, current, enrolled, notAfter, lastErr, holder, lifecycle, managing>>

\* A step of Enroll failed.  An error under a canceled context ends the loop;
\* the wait for the KDC ends with the context too (loginToken).
GiveUp(l) ==
  /\ loops[l].pc \in {"login", "vault", "sign"}
  /\ loops' = IF Canceled(l) THEN [loops EXCEPT ![l] = Gone]
              ELSE [loops EXCEPT ![l].pc = "record", ![l].cert = NoCert]
  /\ UNCHANGED <<stopping, config, current, enrolled, notAfter, lastErr, holder, lifecycle, managing>>

\* Faulty variant: a short lifetime is slept through.
RenewDelayFull(remaining, before) ==
  IF remaining - before >= MinRenewDelay THEN remaining - before ELSE remaining

\* renewDelay.
RenewDelay(remaining, before) ==
  CASE remaining - before >= MinRenewDelay -> remaining - before
    [] remaining - before < MinRenewDelay /\ (remaining * 2) \div 3 >= MinRenewDelay -> (remaining * 2) \div 3
    [] OTHER -> MinRenewDelay

\* The outcome is recorded under m.mu, whether or not the loop is canceled.
Record(l) ==
  /\ loops[l].pc = "record"
  /\ IF loops[l].cert = NoCert
     THEN /\ lastErr' = TRUE
          /\ loops' = [loops EXCEPT ![l].pc = "sleep", ![l].wait = loops[l].config.retry]
          /\ UNCHANGED <<enrolled, notAfter>>
     ELSE /\ enrolled' = TRUE /\ notAfter' = loops[l].cert /\ lastErr' = FALSE
          /\ loops' = [loops EXCEPT ![l].pc = "hand over",
                ![l].wait = RenewDelay(loops[l].cert.life, loops[l].config.before)]
  /\ UNCHANGED <<stopping, config, current, holder, lifecycle, managing>>

\* CertHolder.Set.
HandOver(l) ==
  /\ loops[l].pc = "hand over"
  /\ holder' = [cert |-> loops[l].cert, left |-> loops[l].cert.life]
  /\ loops' = To(l, "sleep")
  /\ UNCHANGED <<stopping, config, current, enrolled, notAfter, lastErr, lifecycle, managing>>

\* The select that ends an iteration: with both ready either is taken.
Wake(l) ==
  /\ loops[l].pc = "sleep" /\ loops[l].wait = 0
  /\ loops' = [loops EXCEPT ![l].pc = "login", ![l].cert = NoCert]
  /\ UNCHANGED <<stopping, config, current, enrolled, notAfter, lastErr, holder, lifecycle, managing>>

Leave(l) ==
  /\ loops[l].pc = "sleep" /\ Canceled(l)
  /\ loops' = [loops EXCEPT ![l] = Gone]
  /\ UNCHANGED <<stopping, config, current, enrolled, notAfter, lastErr, holder, lifecycle, managing>>

Less(n) == IF n = 0 THEN 0 ELSE n - 1

VTick ==
  /\ \A l \in Loop : /\ loops[l].pc \notin {"record", "hand over"}
                     /\ loops[l].pc = "sleep" => loops[l].wait > 0
  /\ loops' = [l \in Loop |-> [loops[l] EXCEPT !.wait = Less(@)]]
  /\ holder' = [holder EXCEPT !.left = Less(@)]
  /\ UNCHANGED <<stopping, config, current, enrolled, notAfter, lastErr, lifecycle, managing>>

\* What the process does by itself.
LoopSteps(l) == GiveUp(l) \/ Record(l) \/ HandOver(l) \/ Leave(l)
RequestSteps(r) == Lock(r) \/ StopLoop(r) \/ Await(r) \/ Configure(r) \/ Stop(r)

VaultNext ==
  \/ \E r \in VRequest : (\E c \in VConfig : HandlePut(r, c)) \/ HandleDelete(r) \/ RequestSteps(r)
  \/ \E l \in Loop : \/ LoopSteps(l) \/ Answered(l) \/ Wake(l)
                     \/ \E life \in Lifetime : Signed(l, life)
  \/ StopProcess \/ VTick

\* Nobody promises that Vault or the KDC answers or that time passes.  A
\* request's failure is promised: the context, the HTTP client's timeout and
\* the Kerberos client's each end the wait.
VaultFairness ==
  /\ \A l \in Loop : WF_vavars(LoopSteps(l))
  /\ \A r \in VRequest : WF_vavars(StopLoop(r) \/ Await(r) \/ Configure(r) \/ Stop(r))

VaultSpec == VaultInit /\ [][VaultNext]_vavars /\ VaultFairness

-----------------------------------------------------------------------------

\* Every loop and request is at a point of run, Configure or Stop, and only
\* configurations handlePutVaultConfig accepts reach the manager.
VaultTypeOK ==
  /\ stopping \in BOOLEAN /\ enrolled \in BOOLEAN /\ lastErr \in BOOLEAN
  /\ config \in Accepted \cup {NoConfig}
  /\ current \in Loop \cup {NoLoop}
  /\ \A l \in Loop :
       /\ loops[l].pc \in {"gone", "login", "vault", "sign", "record", "hand over", "sleep"}
       /\ loops[l] # Gone => loops[l].config \in Accepted
       /\ loops[l].wait \in Nat
  /\ holder.left \in Nat
  /\ lifecycle \in VRequest \cup {NoVRequest}
  /\ \A r \in VRequest : managing[r].pc \in {"idle", "lock", "cancel", "await", "install"}

\* Two management requests that arrive together never leave two loops, or a
\* loop nothing can cancel: a loop that runs is the manager's current one, or
\* a request has canceled it and waits for it (Configure, Stop, stopLoop).
OneLoop ==
  LET running == {l \in Loop : loops[l] # Gone}
  IN  /\ Cardinality(running) <= 1
      /\ \A l \in running : current = l \/ \E r \in VRequest : managing[r].awaits = l /\ loops[l].canceled

\* What the status reports as enrolled belongs to the configuration it
\* reports: a loop canceled while Vault was signing may still record its
\* certificate, never after another configuration is in place (run, Stop).
StatusOwn ==
  enrolled =>
    /\ config # NoConfig /\ notAfter.config = config
    /\ holder.cert = notAfter \/ \E l \in Loop : loops[l].pc = "hand over" /\ loops[l].cert = notAfter

\* While the loop sleeps after an enrollment the certificate it handed over
\* stays valid, however much the issuer shortened its lifetime, unless it is no
\* longer than the shortest delay (renewDelay).
RenewsInTime ==
  \A l \in Loop : loops[l].pc = "sleep" /\ loops[l].cert # NoCert =>
    holder.left > 0 \/ loops[l].cert.life <= MinRenewDelay

\* The request that holds the lifecycle lock always lets it go, although it
\* waits for the loop and the loop may be waiting for a KDC that does not
\* answer: no request blocks the ones after it (stopLoop, loginToken).
ManagementEnds == \A r \in VRequest : lifecycle = r ~> lifecycle # r

\* One loop at most works for the manager, and what the status reports is that
\* loop's (Configure, Stop, run).
EnrolmentSound == VaultTypeOK /\ OneLoop /\ StatusOwn
==============================================================================
