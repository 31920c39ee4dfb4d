------------------------------- MODULE Services -------------------------------
(***************************************************************************)
(* The services of a process (cmd/ldap-kdc/main.go: run): started in a      *)
(* fixed order, stopped in the reverse of it within one deadline, with the *)
(* store closed after the last.  Each service has its own rules for the    *)
(* sockets it binds and for what its Shutdown waits for.                   *)
(***************************************************************************)
EXTENDS Naturals, Sequences, FiniteSetsExt

CONSTANT Deployments     \* sets of services enabled; the enrolment always is

\* The order in which run starts them.
Order == <<"vaultpki", "ldap", "kdc", "kpasswd", "dns", "dockerdns", "api", "oidc">>
Service == {Order[i] : i \in 1..Len(Order)}

\* Bound by Start: LDAP and LDAPS, or TCP and UDP.
SocketsOf(s) == CASE s \in {"ldap", "kdc", "kpasswd", "dns"} -> {1, 2}
                  [] s \in {"api", "oidc"}                   -> {1}
                  [] OTHER                                   -> {}

\* Services whose Shutdown waits for the requests it has accepted.  LDAP waits
\* for its accept loops only.
Counted == {"kdc", "kpasswd", "dns", "api", "oidc"}

\* Background loops that a Shutdown ends and waits for.
Looping == {"vaultpki", "dockerdns"}

ASSUME ServicesAssumption == \A d \in Deployments : "vaultpki" \in d /\ d \subseteq Service

VARIABLES
  enabled,       \* this process's services
  phase,         \* "starting", "running", "stopping", "closed" (the store) or "exited"
  place,         \* where the start or the shutdown is in Order
  started,       \* services on the list to shut down
  sockets,       \* Service -> its open sockets
  busy,          \* services with a request, a session or a loop in progress
  halting,       \* the service being shut down has been told to stop
  signalled,     \* SIGINT or SIGTERM
  late           \* shutdownTimeout has passed

svvars == <<enabled, phase, place, started, sockets, busy, halting, signalled, late>>

ServicesInit ==
  /\ enabled \in Deployments
  /\ phase = "starting" /\ place = 1 /\ started = {}
  /\ sockets = [s \in Service |-> {}]
  /\ busy = {} /\ halting = FALSE /\ signalled = FALSE /\ late = FALSE

Current == Order[place]

ShutDown == /\ phase' = "stopping"
            /\ place' = Len(Order)
            /\ UNCHANGED <<enabled, signalled, late, halting>>

\* Start binds its sockets one after the other.
Bind ==
  /\ phase = "starting" /\ place <= Len(Order) /\ Current \in enabled
  /\ SocketsOf(Current) \ sockets[Current] # {}
  /\ sockets' = [sockets EXCEPT ![Current] = @ \cup {Min(SocketsOf(Current) \ @)}]
  /\ UNCHANGED <<enabled, phase, place, started, busy, halting, signalled, late>>

\* A socket that cannot be bound: Start closes the one before, and run returns.
BindFails ==
  /\ phase = "starting" /\ place <= Len(Order) /\ Current \in enabled
  /\ SocketsOf(Current) \ sockets[Current] # {}
  /\ sockets' = [sockets EXCEPT ![Current] = {}]
  /\ ShutDown /\ UNCHANGED <<started, busy>>

\* The service is appended to the list; its loop, if it has one, runs.
Started ==
  /\ phase = "starting" /\ place <= Len(Order)
  /\ Current \in enabled => sockets[Current] = SocketsOf(Current)
  /\ started' = started \cup ({Current} \cap enabled)
  /\ busy' = busy \cup ({Current} \cap enabled \cap {"dockerdns"})
  /\ place' = place + 1
  /\ UNCHANGED <<enabled, phase, sockets, halting, signalled, late>>

Running ==
  /\ phase = "starting" /\ place > Len(Order)
  /\ phase' = "running"
  /\ UNCHANGED <<enabled, place, started, sockets, busy, halting, signalled, late>>

\* signal.NotifyContext: a start that is under way goes on.
Signalled ==
  /\ ~ signalled /\ phase \in {"starting", "running"}
  /\ signalled' = TRUE
  /\ UNCHANGED <<enabled, phase, place, started, sockets, busy, halting, late>>

Stops ==
  /\ phase = "running" /\ signalled
  /\ ShutDown /\ UNCHANGED <<started, sockets, busy>>

\* A client is accepted: LDAP serves from its first socket, the others once
\* all are bound.
Accept(s) ==
  /\ s \notin Looping /\ s \notin busy /\ sockets[s] # {}
  /\ s = "ldap" \/ s \in started
  /\ busy' = busy \cup {s}
  /\ UNCHANGED <<enabled, phase, place, started, sockets, halting, signalled, late>>

\* A request to the API sets up the enrolment, whose loop then runs.  Configure
\* waits for the lifecycle lock, which Stop holds to its end.
Enrol ==
  /\ busy \cap {"api", "oidc"} # {}
  /\ ~ (phase = "stopping" /\ halting /\ Current = "vaultpki")
  /\ busy' = busy \cup {"vaultpki"}
  /\ UNCHANGED <<enabled, phase, place, started, sockets, halting, signalled, late>>

Respond(s) ==
  /\ s \in busy \ Looping
  /\ busy' = busy \ {s}
  /\ UNCHANGED <<enabled, phase, place, started, sockets, halting, signalled, late>>

\* The sockets a Shutdown closes: all of them, but the LDAP server gives up on
\* a loop that has not taken its Quit when the deadline passes.
Closes(s, left) == left = {} \/ (s = "ldap" /\ late /\ left \subseteq sockets[s])

\* Shutdown, first half: the listeners close, the loops are cancelled.
Halt ==
  /\ phase = "stopping" /\ place > 0 /\ Current \in started /\ ~ halting
  /\ \E left \in SUBSET sockets[Current] :
       Closes(Current, left) /\ sockets' = [sockets EXCEPT ![Current] = left]
  /\ halting' = TRUE
  /\ UNCHANGED <<enabled, phase, place, started, busy, signalled, late>>

\* A cancelled loop ends.
LoopEnds ==
  /\ phase = "stopping" /\ halting /\ Current \in busy \cap Looping
  /\ busy' = busy \ {Current}
  /\ UNCHANGED <<enabled, phase, place, started, sockets, halting, signalled, late>>

\* Faulty variant: nothing is waited for.
HaltedAtOnce ==
  /\ phase = "stopping" /\ place > 0
  /\ Current \in started => halting
  /\ place' = place - 1 /\ halting' = FALSE
  /\ UNCHANGED <<enabled, phase, started, sockets, busy, signalled, late>>

\* Faulty variant: without the deadline.
HaltedForever ==
  /\ phase = "stopping" /\ place > 0
  /\ Current \in started => halting /\ Current \notin busy
  /\ place' = place - 1 /\ halting' = FALSE
  /\ UNCHANGED <<enabled, phase, started, sockets, busy, signalled, late>>

\* Shutdown, second half: it returns when what it counts is over, or with the
\* deadline; vault.Stop is not given the deadline.
Halted ==
  /\ phase = "stopping" /\ place > 0
  /\ Current \in started =>
       /\ halting
       /\ Current \in Counted \cup {"dockerdns"} => (Current \notin busy \/ late)
       /\ Current = "vaultpki" => Current \notin busy
  /\ place' = place - 1 /\ halting' = FALSE
  /\ UNCHANGED <<enabled, phase, started, sockets, busy, signalled, late>>

\* shutdownTimeout.
Deadline ==
  /\ phase = "stopping" /\ ~ late
  /\ late' = TRUE
  /\ UNCHANGED <<enabled, phase, place, started, sockets, busy, halting, signalled>>

\* The deferred calls run in turn: the store is closed, and the process ends.
CloseStore ==
  /\ phase = "stopping" /\ place = 0
  /\ phase' = "closed"
  /\ UNCHANGED <<enabled, place, started, sockets, busy, halting, signalled, late>>

Exit ==
  /\ phase = "closed"
  /\ phase' = "exited"
  /\ UNCHANGED <<enabled, place, started, sockets, busy, halting, signalled, late>>

Clients == Enrol \/ \E s \in Service : Accept(s) \/ Respond(s)

StartSteps == Bind \/ Started \/ Running \/ BindFails
RunStops == Stops \/ Halt \/ Halted \/ CloseStore \/ Exit

ServicesNext ==
  /\ phase # "exited"
  /\ StartSteps \/ RunStops \/ LoopEnds \/ Deadline \/ Signalled \/ Clients

\* run is one goroutine that goes on, a cancelled loop returns and the deadline
\* is a timer.  Clients owe nothing: a request may never end.
ServicesFairness == WF_svvars(StartSteps) /\ WF_svvars(RunStops) /\ WF_svvars(LoopEnds) /\ WF_svvars(Deadline)

ServicesSpec == ServicesInit /\ [][ServicesNext]_svvars /\ ServicesFairness

-----------------------------------------------------------------------------

\* Only an enabled service is started, and a socket that is open belongs to a
\* service that will be shut down, or to the one being started: a Start that
\* fails half way leaves none behind (the Start methods).
ServicesTypeOK ==
  /\ started \subseteq enabled
  /\ place \in 0..(Len(Order) + 1)
  /\ \A s \in Service : sockets[s] \subseteq SocketsOf(s)
  /\ \A s \in Service : sockets[s] # {} => s \in started \/ (phase = "starting" /\ s = Current)

\* The store outlives whatever may still be answering from it: unless the
\* deadline passed, when it closes no KDC, kpasswd, DNS or HTTP request is in
\* flight, no registration or enrolment loop runs, and no socket is open,
\* however far the start had got (run's deferred shutdown, the Shutdown methods).
StoreOutlives ==
  phase \in {"closed", "exited"} =>
    /\ "vaultpki" \notin busy \/ late
    /\ ~ late => busy \subseteq {"ldap"} /\ \A s \in Service : sockets[s] = {}

\* The enrolment is stopped after every door through which it can be
\* configured: within the deadline, nothing sets it up again once it has
\* stopped (services in reverse order; Manager.Stop).
EnrolmentStopsLast ==
  (phase = "stopping" /\ ~ late /\ \A i \in 1..place : Order[i] = "vaultpki" => (i = place /\ halting))
    => busy \cap {"api", "oidc"} = {}

\* A process told to stop, or one that could not start, ends, even when a
\* client keeps a request open for ever (shutdownTimeout).
ProcessEnds == (signalled \/ phase = "stopping") ~> (phase = "exited")

\* The shutdown takes the services down before what they use: the doors before
\* the enrolment they configure, and all before the store (run).
StopsInOrder == ServicesTypeOK /\ StoreOutlives /\ EnrolmentStopsLast
==============================================================================
