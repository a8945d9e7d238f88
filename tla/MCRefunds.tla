------------------------------ MODULE MCRefunds ------------------------------
(* Two returns and four refunds of an order with two units, discounted below the
   price of its line.                                                        *)
EXTENDS Refunds, TLC

mcAmounts == {2}

Symmetry == Permutations(Return) \cup Permutations(Refund) \cup Permutations(Request)
=============================================================================
