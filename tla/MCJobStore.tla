------------------------------ MODULE MCJobStore ------------------------------
(* Model values and symmetry for checking JobStore.                        *)
EXTENDS JobStore, TLC

Symmetry ==
  Permutations(Documents) \cup Permutations(Workers) \cup Permutations(Keys)
=============================================================================
