----------------------------- MODULE MCAccounts -----------------------------
(* Small instances of Accounts for TLC. *)
EXTENDS Accounts, TLC

CONSTANTS w1, w2, u1, u2, p1, p2, alice, bob, svc, pw1, pw2

Symmetry ==
  Permutations(Worker) \cup Permutations(Uid) \cup Permutations(Pid)
    \cup Permutations(Password)
=============================================================================
