---------------------------- MODULE MCUserAdmin ----------------------------
(* Users and request slots are interchangeable. *)
EXTENDS UserAdmin, TLC
Symmetry == Permutations(User) \cup Permutations(Request)
=============================================================================
