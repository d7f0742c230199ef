---------------------------- MODULE MCOnboarding ----------------------------
(* Symmetry for the runs of Onboarding. *)
EXTENDS Onboarding, TLC

Symmetry == Permutations(Req) \cup Permutations(Email) \cup Permutations(Visit)

=============================================================================
