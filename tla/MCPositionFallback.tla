-------------------------- MODULE MCPositionFallback --------------------------
(* Finite instances of PositionFallback for TLC. *)
EXTENDS PositionFallback, TLC

CONSTANTS p, q, r, f, g

\* Two positions in a file, one in another.
MCIn == [x \in {p, q, r} |-> IF x = r THEN g ELSE f]

OfP(s) == [x \in {p, q, r} |-> IF x = p THEN s ELSE <<>>]
To(x, y, z) == (p :> x @@ q :> y @@ r :> z)

\* p leads to the others as lookups may: to one each, to one met before and one new.
Lookups == <<<<<<r>>, <<q>>>>, <<<<q>>, <<p, q, r>>>>>>

\* Where items can be prepared, and what is found.
Items == <<To("hit", "hit", "hit"), To("empty", "hit", "hit"), To("hit", "error", "hit")>>
Found == <<To("empty", "hit", "hit"), To("empty", "empty", "hit"),
           To("empty", "error", "hit"), To("empty", "hit", "empty"),
           To("error", "hit", "hit")>>

\* A server is one choice of each; every one but the last needs the fallback.
MCServers ==
  [s \in {<<1, 1, 1>>, <<2, 1, 2>>, <<2, 1, 3>>, <<1, 1, 4>>, <<2, 1, 5>>,
           <<1, 2, 1>>, <<2, 3, 1>>, <<2, 1, 0>>} |->
    [needs |-> s[3] # 0,
     declaration |-> OfP(Lookups[s[1]][1]), definition |-> OfP(Lookups[s[1]][2]),
     item |-> Items[s[2]], found |-> Found[IF s[3] = 0 THEN 1 ELSE s[3]]]]
=============================================================================
