---------------------------- MODULE MCStorefront ----------------------------
(* Two products, of which the customer may have some in a cart from before.   *)
EXTENDS Storefront, TLC

Symmetry == Permutations(Product) \cup Permutations(Item) \cup Permutations(Request)
=============================================================================
