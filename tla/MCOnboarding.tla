--------------------------- MODULE MCOnboarding ----------------------------
(* Small instances of Onboarding for TLC. *)
EXTENDS Onboarding, TLC

OnboardingSymmetry ==
  Permutations(Requests) \cup Permutations(Usernames) \cup Permutations(Emails)
=============================================================================
