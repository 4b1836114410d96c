------------------------------- MODULE MCUser -------------------------------
(* UserController on small instances.  A generated value can sit in one row *)
(* per tenant, one Secret, the stored status, and per process in one copy   *)
(* of the object, one of the Secret and one reconcile (the value chosen and *)
(* the object held): with one user and one tenant 3 + 4 per process always  *)
(* leave one free.                                                          *)
EXTENDS UserController, TLC
=============================================================================
