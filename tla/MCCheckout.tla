------------------------------ MODULE MCCheckout ------------------------------
(***************************************************************************)
(* An instance of Checkout for TLC.  A guest's dialog submits up to twice, *)
(* with a key of its own each time; a signed-in customer's client and an   *)
(* API client of POST /orders share a third key, as the requests of one    *)
(* organization may.                                                       *)
(***************************************************************************)
EXTENDS Checkout, TLC

CONSTANTS d1, d2, c, a, kd1, kd2, kc, e1, e2

mcShopperOf == d1 :> "guest" @@ d2 :> "guest" @@ c :> "customer" @@ a :> "api"
mcEmailOf == d1 :> e1 @@ d2 :> e1 @@ c :> e2 @@ a :> e2
mcKeyOf == d1 :> kd1 @@ d2 :> kd2 @@ c :> kc @@ a :> kc
===============================================================================
