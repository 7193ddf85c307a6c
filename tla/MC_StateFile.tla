---------------------------- MODULE MC_StateFile ----------------------------
(* TLC instance of StateFile: one state of the old structure and a few of  *)
(* the new one; loading converts the old one and prunes the others.        *)
EXTENDS StateFile

CONSTANTS old, v1, v2, empty

MCValues == {old, v1, v2, empty}
MCLegacy == {old}
MCLoaded == [v \in MCValues |-> IF v = v1 THEN v1 ELSE empty]
=============================================================================
