---------------------------- MODULE MC_SelfUpdate ----------------------------
(* TLC instances of SelfUpdate: calls are interchangeable where no         *)
(* liveness is checked.                                                    *)
EXTENDS SelfUpdate, TLC

Symmetry == Permutations(Handlers)
=============================================================================
