---------------------------- MODULE MCOnboarding ----------------------------
(***************************************************************************)
(* An instance of Onboarding for TLC: an owner's address and a stranger's  *)
(* wallet on a fresh instance, one key, two machines given its claim code. *)
(***************************************************************************)
EXTENDS Onboarding

CONSTANTS e1, w1

=============================================================================
