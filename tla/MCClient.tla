------------------------------ MODULE MCClient ------------------------------
(* ClientController on small instances.  Processes are interchangeable.     *)
(* At any moment a generated value can sit in one row, one Secret, and per  *)
(* process in one copy of it and one reconcile: with one client and one row *)
(* 2 + 2 * Cardinality(Replicas) values always leave one free.              *)
EXTENDS ClientController, TLC

SymmetryMC == Permutations(Replicas)
=============================================================================
