-------------------------- MODULE MCDaemonLifecycle --------------------------
(* Finite instances of DaemonLifecycle for TLC. *)
EXTENDS DaemonLifecycle
=============================================================================
