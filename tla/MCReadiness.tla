----------------------------- MODULE MCReadiness -----------------------------
(* Finite instances of Readiness for TLC. *)
EXTENDS Readiness
=============================================================================
