---------------------------- MODULE MCIdentities ----------------------------
(* Two users; the provider reports the email of the second for all accounts. *)
EXTENDS Identities, TLC
CONSTANTS e1, e2
OneMail  == [a \in Account |-> e2]
Symmetry == Permutations(Request)
=============================================================================
