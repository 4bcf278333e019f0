------------------------- MODULE MCFrontendSession -------------------------
(* Finite instances of FrontendSession for TLC. *)
EXTENDS FrontendSession, TLC

CONSTANTS f1, f2, c1, c2, c3

\* Two calls of one frontend, and one of another.
TwoAndOne == c1 :> f1 @@ c2 :> f1 @@ c3 :> f2

\* A register, the same frontend's force or deregister, and another frontend's call.
Mixed == {w \in [Calls -> Requests] :
            /\ w[c1].op = "register"
            /\ w[c2].op = "force" \/ w[c2].arg = c1
            /\ w[c3].op # "deregister"}
=============================================================================
