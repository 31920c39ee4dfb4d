-------------------------------- MODULE MCDns --------------------------------
(* A zone with a web server that is replaced by a new container of the same *)
(* name and address, and administrators who write at its name, at the       *)
(* server's own name and at a service name.                                 *)
EXTENDS DockerDns, TLC

CONSTANTS apex, kdc, web, srv, a1, a9, c1, c2, host

MCRequested ==
  {[name |-> web, type |-> "A", value |-> a9], [name |-> srv, type |-> "SRV", value |-> host],
   [name |-> kdc, type |-> "A", value |-> a9], [name |-> srv, type |-> "TXT", value |-> host]}

MCSelected == c1 :> {a1} @@ c2 :> {a1}
==============================================================================
