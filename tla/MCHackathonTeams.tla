--------------------------- MODULE MCHackathonTeams ---------------------------
(* HackathonTeams on small sets.  Users, teams and requests are              *)
(* interchangeable.                                                          *)
EXTENDS HackathonTeams, TLC

Symmetry == Permutations(Request) \cup Permutations(User) \cup Permutations(Team)
            \cup Permutations(Name)
===============================================================================
