----------------------------- MODULE MCInventory -----------------------------
(***************************************************************************)
(* Instances of Inventory for TLC: two products, the first of which has a  *)
(* variant, and up to three requests.                                      *)
(***************************************************************************)
EXTENDS Inventory, TLC

CONSTANTS p1, p2, v1

mcParentOf == v1 :> p1

UnitsOf(a, b, c) == p1 :> a @@ p2 :> b @@ v1 :> c

\* Orders for both products, for a variant, for a product and a variant.
mcBaskets == {UnitsOf(1, 1, 0), UnitsOf(0, 0, 1)}
mcMixedBaskets == {UnitsOf(0, 0, 1), UnitsOf(1, 1, 0), UnitsOf(0, 2, 1)}
mcDeliveries == {UnitsOf(1, 2, 0)}
mcInitialStock == UnitsOf(2, 2, 2)
mcScarceStock == UnitsOf(1, 1, 1)
mcAdjustments == {-2, 1}
mcEdits == {0}

RequestSymmetry == Permutations(Requests)
==============================================================================
