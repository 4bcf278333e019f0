-------------------------- MODULE MCCompileCommands --------------------------
(* Finite instances of CompileCommands for TLC. *)
EXTENDS CompileCommands, TLC

CONSTANTS root, out

\* The root of the project, searched before its build directory.
RootThenBuild == <<root, out>>

\* Only safety is checked.
SourceSymmetry == Permutations(Sources)
=============================================================================
