------------------------------- MODULE Checkout -------------------------------
(***************************************************************************)
(* Placing an order through POST /stores/{slug}/checkout (and its legacy   *)
(* form) or POST /orders: the idempotency key, the customer, the order,    *)
(* its payment, the cart and the answer, each in a transaction of its own  *)
(* (services/idempotency_service.py, services/storefront_service.py,       *)
(* services/payment_service.py, api/v1/storefront.py, api/v1/orders.py),   *)
(* together with the checkout dialog that sends the request                *)
(* (frontend/components/storefront/CheckoutModal.tsx).                     *)
(*                                                                         *)
(* An order and an answer carry the name of the request that placed the    *)
(* order.  The stock is left to module Inventory: here an order is placed  *)
(* or refused.  A failed connection to the database ends a request as the  *)
(* death of its process does.                                              *)
(***************************************************************************)
EXTENDS Naturals, FiniteSets

CONSTANTS
  Requests,     \* requests that may be sent; one that places an order names it
  StoreFront,   \* the requests to /checkout; the others go to POST /orders
  SignedIn,     \* the requests to /checkout with a customer's token
  Shoppers,     \* the dialogs or API clients the requests come from
  ShopperOf,
  Emails,
  EmailOf,      \* the email of the customer each request names
  Keys,
  KeyOf,        \* the Idempotency-Key of each request, or NoKey
  NoKey, NoOne, NoOrder,
  MonthlyLimit, \* orders_per_month of the organization's plan
  MaxCrashes    \* bound: requests that die

Keyed == {r \in Requests : KeyOf[r] # NoKey}
Attempts(s) == {r \in Requests : ShopperOf[r] = s}

ASSUME CheckoutAssumption ==
  /\ StoreFront \subseteq Requests /\ SignedIn \subseteq StoreFront
  /\ ShopperOf \in [Requests -> Shoppers]
  /\ EmailOf \in [Requests -> Emails]
  /\ KeyOf \in [Requests -> Keys \cup {NoKey}]
  /\ NoKey \notin Keys /\ NoOne \notin Requests /\ NoOrder \notin Requests
  /\ MonthlyLimit \in Nat /\ MaxCrashes \in Nat

VARIABLES
  claimant,   \* the request whose row holds each key, NoOne without a row
  response,   \* the stored response, NoOrder while the row is "processing"
  customers,  \* emails with a committed customer
  inserting,  \* the session with an uncommitted customer of each email
  orders,     \* committed orders
  charged,    \* orders the payment provider has approved
  payment,    \* payment row of each order
  filled,     \* shoppers whose cart holds items
  answer,     \* the order each request was answered with
  lost,       \* requests whose answer will not reach the client
  phase       \* where each request is

claims == <<claimant, response>>
shop == <<customers, inserting, orders>>
money == <<charged, payment>>
client == <<filled, answer, lost>>
vars == <<claimant, response, customers, inserting, orders, charged, payment,
          filled, answer, lost, phase>>

BeforeOrder == {"finding", "registering", "ordering"}
AfterOrder == {"charging", "booking", "clearing", "storing"}
Running == {"checking", "looking", "inserting", "polling"} \cup BeforeOrder \cup AfterOrder
Ended == {"done", "failed", "crashed"}
Phases == {"idle"} \cup Running \cup Ended

Init ==
  /\ claimant = [k \in Keys |-> NoOne]
  /\ response = [k \in Keys |-> NoOrder]
  /\ customers = {EmailOf[r] : r \in SignedIn \cup (Requests \ StoreFront)}
  /\ inserting = [e \in Emails |-> NoOne]
  /\ orders = {}
  /\ charged = {}
  /\ payment = [r \in Requests |-> "none"]
  /\ filled = Shoppers
  /\ answer = [r \in Requests |-> NoOrder]
  /\ lost = {}
  /\ phase = [r \in Requests |-> "idle"]

Goto(r, p) == phase' = [phase EXCEPT ![r] = p]
At(r, p) == phase[r] = p

-----------------------------------------------------------------------------
(***************************************************************************)
(* The client.  The submit button is disabled until the call returns, and  *)
(* the dialog shows the confirmation instead of the form once it has one.  *)
(***************************************************************************)
Pending(r) == phase[r] \in Running /\ r \notin lost
Confirmed(r) == answer[r] # NoOrder /\ r \notin lost

\* Variant: the button stays enabled while the call is under way.
SubmitTwice(r) ==
  /\ At(r, "idle")
  /\ \A q \in Attempts(ShopperOf[r]) : ~Confirmed(q)
  /\ Goto(r, "checking")
  /\ UNCHANGED <<claims, shop, money, client>>

Submit(r) ==
  /\ At(r, "idle")
  /\ \A q \in Attempts(ShopperOf[r]) : ~Pending(q) /\ ~Confirmed(q)
  /\ Goto(r, "checking")
  /\ UNCHANGED <<claims, shop, money, client>>

\* fetch fails: the dialog shows an error while the server carries on.  Left
\* out where nobody would notice, because no further attempt can follow.
LoseAnswer(r) ==
  /\ Pending(r)
  /\ \E q \in Attempts(ShopperOf[r]) : At(q, "idle")
  /\ lost' = lost \cup {r}
  /\ UNCHANGED <<claims, shop, money, filled, answer, phase>>

-----------------------------------------------------------------------------
(***************************************************************************)
(* The idempotency key.                                                    *)
(***************************************************************************)
Fail(r) ==
  /\ Goto(r, "failed")
  /\ UNCHANGED <<claims, shop, money, client>>

\* Where the operation itself begins: with the customer, unless it is known.
Entry(r) == IF r \in StoreFront \ SignedIn THEN "finding" ELSE "ordering"

\* check_usage_limit counts the orders in the session of the request.
CheckLimit(r) ==
  /\ At(r, "checking")
  /\ \/ /\ Cardinality(orders) < MonthlyLimit
        /\ Goto(r, IF r \in Keyed THEN "looking" ELSE Entry(r))
        /\ UNCHANGED <<claims, shop, money, client>>
     \/ /\ Cardinality(orders) >= MonthlyLimit
        /\ Fail(r)

\* The SELECT of claim_idempotency_key.
LookUpKey(r) ==
  /\ At(r, "looking")
  /\ Goto(r, IF claimant[KeyOf[r]] = NoOne THEN "inserting" ELSE "polling")
  /\ UNCHANGED <<claims, shop, money, client>>

\* Variant: the table has no unique constraint on the key.
ClaimKeyAnyway(r) ==
  /\ At(r, "inserting")
  /\ claimant' = [claimant EXCEPT ![KeyOf[r]] = r]
  /\ Goto(r, Entry(r))
  /\ UNCHANGED <<response, shop, money, client>>

ClaimKey(r) ==
  /\ At(r, "inserting")
  /\ claimant[KeyOf[r]] = NoOne
  /\ claimant' = [claimant EXCEPT ![KeyOf[r]] = r]
  /\ Goto(r, Entry(r))
  /\ UNCHANGED <<response, shop, money, client>>

\* Variant: the violation of the constraint is taken for a claim.
LoseKeyButProceed(r) ==
  /\ At(r, "inserting")
  /\ claimant[KeyOf[r]] # NoOne
  /\ Goto(r, Entry(r))
  /\ UNCHANGED <<claims, shop, money, client>>

\* uq_idempotency_keys_org_key: another request has inserted it in between.
LoseKey(r) ==
  /\ At(r, "inserting")
  /\ claimant[KeyOf[r]] # NoOne
  /\ Goto(r, "polling")
  /\ UNCHANGED <<claims, shop, money, client>>

\* wait_for_response finds the key completed.
ReplayResponse(r) ==
  /\ At(r, "polling")
  /\ response[KeyOf[r]] # NoOrder
  /\ answer' = [answer EXCEPT ![r] = response[KeyOf[r]]]
  /\ Goto(r, "done")
  /\ UNCHANGED <<claims, shop, money, filled, lost>>

\* Variant: a duplicate waits for as long as the key is in progress.
WaitForCompletion(r) ==
  /\ At(r, "polling")
  /\ response[KeyOf[r]] # NoOrder
  /\ Fail(r)

\* CLAIM_TIMEOUT_SECONDS have passed: IDEMPOTENCY_IN_PROGRESS.
GiveUpWaiting(r) ==
  /\ At(r, "polling")
  /\ Fail(r)

-----------------------------------------------------------------------------
(***************************************************************************)
(* StorefrontService.checkout and OrderService.create_order.               *)
(***************************************************************************)
FindCustomer(r) ==
  /\ At(r, "finding")
  /\ Goto(r, IF EmailOf[r] \in customers THEN "ordering" ELSE "registering")
  /\ UNCHANGED <<claims, shop, money, client>>

\* The INSERT waits for an uncommitted customer of the same email.
RegisterCustomer(r) ==
  /\ At(r, "registering")
  /\ inserting[EmailOf[r]] = NoOne /\ EmailOf[r] \notin customers
  /\ inserting' = [inserting EXCEPT ![EmailOf[r]] = r]
  /\ Goto(r, "ordering")
  /\ UNCHANGED <<claims, customers, orders, money, client>>

\* uq_customers_org_email.  begin_nested flushes the new customer before it
\* emits SAVEPOINT, so the violation undoes the whole transaction, and the
\* SELECT of _find_customer on that session raises.
FailToRegister(r) ==
  /\ At(r, "registering")
  /\ EmailOf[r] \in customers
  /\ Fail(r)

NothingInserted(r) == [e \in Emails |-> IF inserting[e] = r THEN NoOne ELSE inserting[e]]

\* Variant: the customer is not part of the order's transaction.
PlaceOrderAlone(r) ==
  /\ At(r, "ordering")
  /\ orders' = orders \cup {r}
  /\ inserting' = NothingInserted(r)
  /\ Goto(r, IF r \in StoreFront THEN "charging" ELSE "storing")
  /\ UNCHANGED <<claims, customers, money, client>>

\* create_order commits the order, and the customer with it.
PlaceOrder(r) ==
  /\ At(r, "ordering")
  /\ orders' = orders \cup {r}
  /\ customers' = customers \cup {e \in Emails : inserting[e] = r}
  /\ inserting' = NothingInserted(r)
  /\ Goto(r, IF r \in StoreFront THEN "charging" ELSE "storing")
  /\ UNCHANGED <<claims, money, client>>

\* An inactive shipping method, too little stock, a coupon that does not apply.
RefuseOrder(r) ==
  /\ At(r, "ordering")
  /\ inserting' = NothingInserted(r)
  /\ Goto(r, "failed")
  /\ UNCHANGED <<claims, customers, orders, money, client>>

(***************************************************************************)
(* process_order_payment, in a second transaction.                         *)
(***************************************************************************)
Charge(r) ==
  /\ At(r, "charging")
  /\ \E approved \in BOOLEAN : charged' = IF approved THEN charged \cup {r} ELSE charged
  /\ Goto(r, "booking")
  /\ UNCHANGED <<claims, shop, payment, client>>

\* Variant: a declined payment is entered as paid.
CommitPaymentAsPaid(r) ==
  /\ At(r, "booking")
  /\ payment' = [payment EXCEPT ![r] = "paid"]
  /\ Goto(r, "clearing")
  /\ UNCHANGED <<claims, shop, charged, client>>

CommitPayment(r) ==
  /\ At(r, "booking")
  /\ payment' = [payment EXCEPT ![r] = IF r \in charged THEN "paid" ELSE "failed"]
  /\ Goto(r, "clearing")
  /\ UNCHANGED <<claims, shop, charged, client>>

(***************************************************************************)
(* _clear_cart_after_checkout and store_response, each in a transaction of *)
(* its own.  A request without a key stores nothing.                       *)
(***************************************************************************)
ClearCart(r) ==
  /\ At(r, "clearing")
  /\ filled' = filled \ {ShopperOf[r]}
  /\ Goto(r, "storing")
  /\ UNCHANGED <<claims, shop, money, answer, lost>>

StoreResponse(r) ==
  /\ At(r, "storing")
  /\ response' = [k \in Keys |-> IF k = KeyOf[r] THEN r ELSE response[k]]
  /\ answer' = [answer EXCEPT ![r] = r]
  /\ Goto(r, "done")
  /\ UNCHANGED <<claimant, shop, money, filled, lost>>

-----------------------------------------------------------------------------
\* The process or its connection dies; PostgreSQL undoes what is uncommitted.
Crash(r) ==
  /\ phase[r] \in Running
  /\ Cardinality({q \in Requests : At(q, "crashed")}) < MaxCrashes
  /\ inserting' = NothingInserted(r)
  /\ Goto(r, "crashed")
  /\ UNCHANGED <<claims, customers, orders, money, client>>

AllEnded ==
  /\ \A r \in Requests : phase[r] = "idle" => \E q \in Attempts(ShopperOf[r]) : Confirmed(q)
  /\ \A r \in Requests : phase[r] \notin Running
  /\ UNCHANGED vars

Serve(r) ==
  \/ CheckLimit(r) \/ LookUpKey(r) \/ ClaimKey(r) \/ LoseKey(r)
  \/ ReplayResponse(r) \/ GiveUpWaiting(r)
  \/ FindCustomer(r) \/ RegisterCustomer(r) \/ FailToRegister(r)
  \/ PlaceOrder(r) \/ RefuseOrder(r)
  \/ Charge(r) \/ CommitPayment(r) \/ ClearCart(r) \/ StoreResponse(r)

Next ==
  \/ AllEnded
  \/ \E r \in Requests : Submit(r) \/ LoseAnswer(r) \/ Serve(r) \/ Crash(r)

Spec == Init /\ [][Next]_vars

\* A request that a worker thread has begun is run to its end, if the process
\* lives; nothing forces a shopper to submit.
Fairness == \A r \in Requests : WF_vars(Serve(r))
FairSpec == Spec /\ Fairness

-----------------------------------------------------------------------------
(***************************************************************************)
(* Properties.                                                             *)
(***************************************************************************)

\* The type invariant.
TypeOK ==
  /\ claimant \in [Keys -> Requests \cup {NoOne}]
  /\ response \in [Keys -> Requests \cup {NoOrder}]
  /\ customers \subseteq Emails
  /\ inserting \in [Emails -> Requests \cup {NoOne}]
  /\ orders \subseteq Requests /\ charged \subseteq Requests
  /\ payment \in [Requests -> {"none", "paid", "failed"}]
  /\ filled \subseteq Shoppers
  /\ answer \in [Requests -> Requests \cup {NoOrder}]
  /\ lost \subseteq Requests
  /\ phase \in [Requests -> Phases]

\* README.md:21: requests that carry one key, however they overlap and die,
\* place one order at most.
OneOrderPerKey ==
  \A r, q \in orders : KeyOf[r] = KeyOf[q] /\ KeyOf[r] # NoKey => r = q

\* storefront_service.py:370-376: an order, which outlives a failed payment or
\* a dead process, never outlives its customer.
OrderHasCustomer == \A r \in orders : EmailOf[r] \in customers

\* payment_service.py:21-22: nobody is charged without an order, a payment row
\* says "paid" only of what was charged, and once the client has its order the
\* row says what the provider decided.
PaymentsMatchCharges ==
  /\ charged \subseteq orders
  /\ \A r \in Requests :
       /\ payment[r] = "paid" => r \in charged
       /\ answer[r] = r /\ r \in StoreFront =>
            payment[r] = IF r \in charged THEN "paid" ELSE "failed"

\* CheckoutModal.tsx: a shopper gets two orders only if the answer to one of
\* the attempts was lost or its process died after the order was committed.
DuplicateOnlyAfterLoss ==
  \A r, q \in orders :
    r # q /\ ShopperOf[r] = ShopperOf[q] =>
      {r, q} \cap (lost \cup {x \in Requests : phase[x] = "crashed"}) # {}

\* README.md:21 and 49: a double click or a retry does not create a second
\* order for the same checkout.
OneOrderPerShopper == \A r, q \in orders : ShopperOf[r] = ShopperOf[q] => r = q

\* Whatever happened to the request that holds the key, and to sessions that
\* insert the same customer, every request comes to an end.
EveryRequestEnds == \A r \in Requests : phase[r] \in Running ~> phase[r] \in Ended

\* Seen through their keys, the requests behave as the idempotent service does.
Service == INSTANCE IdempotentService
  WITH Requests <- Keyed,
       KeyOf <- [r \in Keyed |-> KeyOf[r]],
       result <- [k \in Keys |-> IF claimant[k] \in orders THEN claimant[k] ELSE NoOrder],
       answer <- [r \in Keyed |-> answer[r]]
ImplementsIdempotentService == Service!Spec

\* The inductive invariant behind the theorems of CheckoutProofs.
KeyHolderRuns ==
  /\ \A r \in Requests : phase[r] \in {"looking", "inserting", "polling"} => r \in Keyed
  /\ \A r \in Keyed : phase[r] \in BeforeOrder \cup AfterOrder \/ r \in orders =>
       claimant[KeyOf[r]] = r
  /\ \A k \in Keys : claimant[k] # NoOne => KeyOf[claimant[k]] = k

OrderFollowsPhase ==
  \A r \in Requests :
    /\ phase[r] \in AfterOrder => r \in orders
    /\ r \in orders => phase[r] \in AfterOrder \cup {"crashed"} \/ answer[r] = r
    /\ answer[r] # NoOrder => phase[r] = "done"

ResponseIsHoldersOrder ==
  \A k \in Keys : response[k] # NoOrder => response[k] = claimant[k] /\ claimant[k] \in orders

CustomerAtHand ==
  \A r \in Requests :
    /\ r \notin StoreFront \ SignedIn => EmailOf[r] \in customers
    /\ phase[r] = "ordering" => EmailOf[r] \in customers \/ inserting[EmailOf[r]] = r

PaymentFollowsPhase ==
  \A r \in Requests :
    /\ phase[r] \in {"clearing", "storing"} /\ r \in StoreFront =>
         payment[r] = IF r \in charged THEN "paid" ELSE "failed"
    /\ phase[r] \in {"clearing", "booking", "charging"} => r \in StoreFront

\* An attempt that the shopper still waits for, or has an order from.
Live(r) == (phase[r] \in Running \/ answer[r] # NoOrder) /\ r \notin lost

OneLiveAttempt ==
  \A r, q \in Requests : ShopperOf[r] = ShopperOf[q] /\ Live(r) /\ Live(q) => r = q

InductiveInv ==
  /\ TypeOK
  /\ KeyHolderRuns
  /\ OrderFollowsPhase
  /\ ResponseIsHoldersOrder
  /\ OrderHasCustomer
  /\ CustomerAtHand
  /\ PaymentsMatchCharges
  /\ PaymentFollowsPhase
  /\ OneLiveAttempt
================================================================================
