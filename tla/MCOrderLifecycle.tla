--------------------------- MODULE MCOrderLifecycle ---------------------------
(***************************************************************************)
(* Instances of OrderLifecycle for TLC: two orders of one customer, the    *)
(* first of which a seller made.                                           *)
(***************************************************************************)
EXTENDS OrderLifecycle, TLC

CONSTANTS o1, o2, customer, seller

mcPartiesOf == o1 :> {customer, seller} @@ o2 :> {customer}
mcSellers == {seller}
mcTotal == o1 :> 2 @@ o2 :> 3
mcGoals == Statuses \cup {"delete"}
mcDelivery == {"delivered"}
mcShipped == {"shipped"}
mcStart == Statuses \ {"delivered"}
RequestSymmetry == Permutations(Requests)
=============================================================================
