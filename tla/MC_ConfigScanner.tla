--------------------------- MODULE MC_ConfigScanner ---------------------------
(* ConfigScanner for TLC: the configurations only give the constants.      *)
EXTENDS ConfigScanner
=============================================================================
