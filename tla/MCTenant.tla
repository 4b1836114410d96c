------------------------------ MODULE MCTenant ------------------------------
(* TenantController on a small instance.  Processes are interchangeable,    *)
(* and so are the IDs that the database makes.                              *)
EXTENDS TenantController, TLC

SymmetryMC == Permutations(Replicas) \cup Permutations(Ids)
=============================================================================
