----------------------------- MODULE MCSessions -----------------------------
(* Instances of Sessions for model checking. *)
EXTENDS Sessions, TLC

CONSTANTS k1, k2, k3, t1, t2, q1, q2, home, branch

AnyNames == Permutations(Token) \cup Permutations(Tab) \cup Permutations(Request)
=============================================================================
