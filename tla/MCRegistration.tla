--------------------------- MODULE MCRegistration ---------------------------
(* Instances of Registration for TLC.                                      *)
EXTENDS Registration, TLC

MCSymmetry ==
  Permutations(User) \cup Permutations(Email) \cup Permutations(Call)
=============================================================================
