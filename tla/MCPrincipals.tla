---------------------------- MODULE MCPrincipals ----------------------------
(* Small instances of Principals for TLC. *)
EXTENDS Principals, TLC

CONSTANTS u1, p1, p2, alice, svc, web, pw1, pw2

Symmetry == Permutations(Pid) \cup Permutations(Password)
=============================================================================
