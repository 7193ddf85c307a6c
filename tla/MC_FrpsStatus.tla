---------------------------- MODULE MC_FrpsStatus ----------------------------
(* TLC instance of FrpsStatus; addresses and scrapers are interchangeable. *)
EXTENDS FrpsStatus, TLC

Symmetry == Permutations(Addrs) \cup Permutations(Scrapers)
=============================================================================
