---------------------------- MODULE MCLspClient ----------------------------
(* Finite instances of LspClient for TLC. *)
EXTENDS LspClient
=============================================================================
