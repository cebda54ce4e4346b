---------------------------- MODULE MCEnrollment ----------------------------
(* Small instances of Enrollment for TLC.                                  *)
EXTENDS Enrollment, TLC

Symmetry ==
  Permutations(Codes) \cup Permutations(Careless) \cup Permutations(Runs \ Careless)
=============================================================================
