---------------------------- MODULE MCOnboarding ----------------------------
(* Onboarding on a small instance.  As in MCClient, four generated values   *)
(* always leave one free with one process, one client and one row.          *)
EXTENDS Onboarding, TLC
=============================================================================
