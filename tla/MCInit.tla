------------------------------- MODULE MCInit -------------------------------
(* InitController on a small instance. *)
EXTENDS InitController, TLC
=============================================================================
