------------------------------ MODULE MCStream ------------------------------
(* StreamController on small instances.  Tenants are interchangeable: the   *)
(* safety run identifies states that differ only by their permutation.      *)
EXTENDS StreamController, TLC

SymmetryMC == Permutations(Tenants)
=============================================================================
