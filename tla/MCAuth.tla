------------------------------- MODULE MCAuth -------------------------------
(* AuthController on small instances.  Processes are interchangeable, and   *)
(* so are users.                                                            *)
EXTENDS AuthController, TLC

SymmetryMC == Permutations(Replicas) \cup Permutations(Users)
=============================================================================
