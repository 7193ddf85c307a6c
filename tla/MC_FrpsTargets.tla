--------------------------- MODULE MC_FrpsTargets ---------------------------
(* TLC instances of FrpsTargets.  Scrapers and handlers are                *)
(* interchangeable; a symmetry is used where no liveness is checked.       *)
EXTENDS FrpsTargets, TLC

Symmetry == Permutations(Ids) \cup Permutations(Scrapers) \cup Permutations(Handlers)
=============================================================================
