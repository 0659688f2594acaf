---------------------------- MODULE MCAuthSessions ----------------------------
(* AuthSessions on small sets.  Requests and tokens are interchangeable.     *)
EXTENDS AuthSessions, TLC

Symmetry == Permutations(Request) \cup Permutations(Token)
=============================================================================
