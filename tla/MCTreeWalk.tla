----------------------------- MODULE MCTreeWalk -----------------------------
(* Finite instances of TreeWalk for TLC. *)
EXTENDS TreeWalk

CONSTANTS MaxFan   \* bound: callees of a symbol

AllHierarchies ==
  [Symbols -> {S \in SUBSET Symbols : Cardinality(S) <= MaxFan}]
=============================================================================
