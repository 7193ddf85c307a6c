------------------------------ MODULE MC_Auth ------------------------------
(* TLC instances of Auth: handlers and passwords are interchangeable.      *)
EXTENDS Auth, TLC

Symmetry == Permutations(Handlers) \cup Permutations(Passwords)
=============================================================================
