------------------------------ MODULE MCOutbox ------------------------------
(***************************************************************************)
(* An instance of Outbox for TLC: workers that claim batches of two events *)
(* of the product, the second a low-stock event and the first of any type; *)
(* a webhook endpoint subscribes to orders.                                *)
(***************************************************************************)
EXTENDS Outbox, TLC

CONSTANTS hook, clerk

mcSubscribers == [k \in Kinds |-> IF k = "order" THEN {hook} ELSE {}]
mcHistories == {<<k, "low">> : k \in Kinds}
mcLowOnly == {<<"low", "low">>}
mcBeside == [h \in [Events -> Kinds] |-> IF h = <<"low", "low">> THEN {clerk} ELSE {}]
mcNoneBeside == [h \in [Events -> Kinds] |-> {}]
Symmetry == Permutations(Workers)
=============================================================================
