----------------------------- MODULE MCLearning -----------------------------
(* One paid course with the projects, one free one. *)
EXTENDS Learning, TLC
CONSTANTS paid, free
MCCourseOf == [p \in Project |-> paid]
Symmetry == Permutations(Request)
\* Bound: a badge and a project are there one after the other.  No handler of
\* projects reads what a badge check writes or the other way round.
OneItem == \A i, j \in Item : Exists(i) /\ Exists(j) => i = j
=============================================================================
