---------------------------- MODULE MCUserRoles ----------------------------
(* Model checking of UserRoles: requests of one kind are interchangeable.  *)
EXTENDS UserRoles, TLC

Symmetry == Permutations(Users) \cup Permutations(Seeds) \cup Permutations(Edits)
=============================================================================
