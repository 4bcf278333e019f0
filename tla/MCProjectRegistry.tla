------------------------- MODULE MCProjectRegistry -------------------------
(* Finite instances of ProjectRegistry for TLC. *)
EXTENDS ProjectRegistry, TLC

Symmetry == Permutations(Projects) \cup Permutations(Tasks)
              \cup Permutations(Tokens) \cup Permutations(Clients)
=============================================================================
