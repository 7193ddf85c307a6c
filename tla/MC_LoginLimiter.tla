-------------------------- MODULE MC_LoginLimiter --------------------------
(* TLC instances of LoginLimiter: the keys and the handlers are            *)
(* interchangeable.                                                        *)
EXTENDS LoginLimiter, TLC

Symmetry == Permutations(Keys) \cup Permutations(Handlers)
=============================================================================
