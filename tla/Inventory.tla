------------------------------ MODULE Inventory ------------------------------
(***************************************************************************)
(* The stock-keeping rows of the backend and every request that writes     *)
(* them: order creation and cancellation (services/order_service.py), the  *)
(* manual adjustment (services/inventory_service.py), the receipt of a     *)
(* purchase order (services/purchase_order_service.py) and the product     *)
(* form's stock edit (api/v1/products.py).                                 *)
(*                                                                         *)
(* Each request is one database session under READ COMMITTED.  What it     *)
(* has read of a row lives in its identity map (seen).  A SELECT ... FOR   *)
(* UPDATE of a row that is already in the identity map takes the row lock  *)
(* but keeps the value the session holds; a row met for the first time     *)
(* under the lock is read fresh.  Requests that never lock explicitly take *)
(* the row lock when their UPDATE is flushed.  Writes are absolute values, *)
(* computed from what was seen, and become visible at commit.              *)
(*                                                                         *)
(* The CHECK (stock_quantity >= 0) of both tables is left out: theorem     *)
(* NoOverselling of InventoryProofs shows that it never has to fire.       *)
(***************************************************************************)
EXTENDS Integers, FiniteSetsExt

CONSTANTS
  Products,       \* rows of products
  Variants,       \* rows of product_variants
  ParentOf,       \* the product of each variant
  Requests,       \* requests; one that creates an order also names the order
  PriorOrders,    \* orders that were open before the behaviour starts
  PurchaseOrders, \* purchase orders in status "ordered"
  Kinds,          \* the operations the requests may perform
  Baskets,        \* possible order lines: units per row
  Deliveries,     \* possible purchase order lines: units per row
  Adjustments,    \* possible signed quantities of a manual adjustment
  Edits,          \* possible absolute values typed into the product form
  InitialStock,   \* stock of each row at the start
  LowThreshold,   \* low_stock_threshold, the same for every product
  Crashes,        \* whether the process may die in the middle of a request
  NoOne           \* owner of a row that nobody has locked

Rows == Products \cup Variants
Orders == Requests \cup PriorOrders
Documents == Orders \cup PurchaseOrders
AllKinds == {"create", "cancel", "delete", "adjust", "receive", "edit"}
Cancels == {"cancel", "delete"}
Units == [Rows -> Nat]

ASSUME InventoryAssumption ==
  /\ Products \cap Variants = {}
  /\ ParentOf \in [Variants -> Products]
  /\ Requests \cap PriorOrders = {} /\ Orders \cap PurchaseOrders = {}
  /\ Kinds \subseteq AllKinds
  /\ Baskets \subseteq Units /\ Deliveries \subseteq Units
  /\ \A b \in Deliveries, v \in Variants : b[v] = 0
  /\ Adjustments \subseteq Int /\ 0 \notin Adjustments
  /\ Edits \subseteq Nat
  /\ InitialStock \in [Rows -> Nat]
  /\ LowThreshold \in Nat
  /\ Crashes \in BOOLEAN
  /\ NoOne \notin Requests

VARIABLES
  stock,    \* committed stock_quantity of each row
  ledger,   \* sum of the inventory movements written for each row
  status,   \* committed status of each document
  goods,    \* units on each document
  posted,   \* how many times a return or a receipt was written per document
  outbox,   \* committed outbox events
  owner,    \* holder of the lock of each row
  kind,     \* the operation of each request
  target,   \* the document the request works on
  delta,    \* the change the request applies to each row
  seen,     \* the request's identity map: last value read of each row
  phase     \* where the request is

documents == <<status, goods, posted>>
session == <<kind, target, delta, seen>>
vars == <<stock, ledger, status, goods, posted, outbox, owner,
          kind, target, delta, seen, phase>>

Unread == -1
NoUnits == [row \in Rows |-> 0]
Ended == {"done", "failed", "crashed"}

Event(type, about) == [type |-> type, about |-> about]

Init ==
  /\ stock = InitialStock
  /\ ledger = [row \in Rows |-> 0]
  /\ status = [d \in Documents |-> CASE d \in PriorOrders    -> "open"
                                     [] d \in PurchaseOrders -> "ordered"
                                     [] OTHER                -> "none"]
  /\ goods \in [Documents -> Baskets \cup Deliveries \cup {NoUnits}]
  /\ \A o \in PriorOrders : goods[o] \in Baskets
  /\ \A p \in PurchaseOrders : goods[p] \in Deliveries
  /\ \A r \in Requests : goods[r] = NoUnits
  /\ posted = [d \in Documents |-> 0]
  /\ outbox = {}
  /\ owner = [row \in Rows |-> NoOne]
  /\ kind = [r \in Requests |-> "none"]
  /\ target = [r \in Requests |-> r]
  /\ delta = [r \in Requests |-> NoUnits]
  /\ seen = [r \in Requests |-> [row \in Rows |-> Unread]]
  /\ phase = [r \in Requests |-> "idle"]

-----------------------------------------------------------------------------
(***************************************************************************)
(* Row locks.  The rows a request touches are the rows it changes and, for *)
(* orders, the products of the variants it changes: _get_products locks    *)
(* all products of the order before _get_variants locks the variants.      *)
(* Within one statement the rows are locked in an order nobody fixed.      *)
(***************************************************************************)
Changed(r) == {row \in Rows : delta[r][row] # 0}

Touched(r) ==
  IF kind[r] \in Cancels \cup {"create"}
  THEN Changed(r) \cup {ParentOf[v] : v \in Changed(r) \cap Variants}
  ELSE Changed(r)

Held(r) == {row \in Rows : owner[row] = r}

\* The rows the statement being executed still has to lock.
Wanted(r) ==
  LET missing == Touched(r) \ Held(r)
  IN  IF missing \cap Products # {} THEN missing \cap Products ELSE missing

Ready(r, k) == kind[r] = k /\ phase[r] = "locking" /\ Touched(r) \subseteq Held(r)

\* Variant: SELECT without FOR UPDATE, and nothing locked in its place.
ReadWithoutLock(r) ==
  /\ phase[r] = "locking"
  /\ \E row \in Wanted(r) :
       /\ owner' = [owner EXCEPT ![row] = r]
       /\ seen' = [seen EXCEPT ![r][row] = IF @ = Unread THEN stock[row] ELSE @]
  /\ UNCHANGED <<stock, ledger, documents, outbox, kind, target, delta, phase>>

LockRow(r) ==
  /\ phase[r] = "locking"
  /\ \E row \in Wanted(r) :
       /\ owner[row] = NoOne
       /\ owner' = [owner EXCEPT ![row] = r]
       /\ seen' = [seen EXCEPT ![r][row] = IF @ = Unread THEN stock[row] ELSE @]
  /\ UNCHANGED <<stock, ledger, documents, outbox, kind, target, delta, phase>>

Release(r) == owner' = [row \in Rows |-> IF owner[row] = r THEN NoOne ELSE owner[row]]

Goto(r, p) == phase' = [phase EXCEPT ![r] = p]

\* The UPDATEs and movement rows of the request, visible together at commit.
Write(r) ==
  /\ stock' = [row \in Rows |-> IF delta[r][row] # 0
                                 THEN seen[r][row] + delta[r][row]
                                 ELSE stock[row]]
  /\ ledger' = [row \in Rows |-> ledger[row] + delta[r][row]]

\* Variant: the quantity is not compared with the stock.
AnyStockWillDo(r) == r \in Requests

\* The new value of a row that was checked before it is written.
Sufficient(r) == \A row \in Changed(r) : seen[r][row] + delta[r][row] >= 0

\* Variant: the event is committed on its own, before the order is.
RollbackAfterEvent(r) ==
  /\ Release(r)
  /\ Goto(r, "failed")
  /\ outbox' = outbox \cup {Event("order.created", o) : o \in {r} \cap {target[r]}}
  /\ UNCHANGED <<stock, ledger, documents, session>>

\* An ApiError rolls the session back.
Rollback(r) ==
  /\ Release(r)
  /\ Goto(r, "failed")
  /\ UNCHANGED <<stock, ledger, documents, outbox, session>>

Begin(r, k, t, d, p) ==
  /\ kind' = [kind EXCEPT ![r] = k]
  /\ target' = [target EXCEPT ![r] = t]
  /\ delta' = [delta EXCEPT ![r] = d]
  /\ Goto(r, p)
  /\ UNCHANGED <<stock, ledger, outbox, owner>>

Idle(r, k) == phase[r] = "idle" /\ k \in Kinds

\* A status check that finds nothing to do ends the request without effect.
Refuse(r, k, t) ==
  /\ Begin(r, k, t, NoUnits, "failed")
  /\ UNCHANGED <<documents, seen>>

-----------------------------------------------------------------------------
(***************************************************************************)
(* create_order.                                                           *)
(***************************************************************************)
\* Variant: the products are loaded before they are locked.
BeginCreateReadingFirst(r) ==
  /\ Idle(r, "create")
  /\ \E b \in Baskets :
       /\ Begin(r, "create", r, [row \in Rows |-> -b[row]], "locking")
       /\ goods' = [goods EXCEPT ![r] = b]
  /\ seen' = [seen EXCEPT ![r] = stock]
  /\ UNCHANGED <<status, posted>>

BeginCreate(r) ==
  /\ Idle(r, "create")
  /\ \E b \in Baskets :
       /\ Begin(r, "create", r, [row \in Rows |-> -b[row]], "locking")
       /\ goods' = [goods EXCEPT ![r] = b]
  /\ UNCHANGED <<status, posted, seen>>

\* Variant: the threshold itself is not low.
SoldBelow(r) == {p \in Changed(r) \cap Products : seen[r][p] + delta[r][p] < LowThreshold}

\* Products sold on their own row that end at or below the threshold.
SoldLow(r) == {p \in Changed(r) \cap Products : seen[r][p] + delta[r][p] <= LowThreshold}

CommitCreate(r) ==
  /\ Ready(r, "create")
  /\ Sufficient(r)
  /\ Write(r)
  /\ status' = [status EXCEPT ![r] = "open"]
  /\ outbox' = outbox \cup {Event("stock.low", p) : p \in SoldLow(r)}
                     \cup {Event("order.created", r)}
  /\ Release(r)
  /\ Goto(r, "done")
  /\ UNCHANGED <<goods, posted, session>>

\* Variant: a request that finds too little stock tries again.
RetryCreate(r) ==
  /\ Ready(r, "create")
  /\ ~Sufficient(r)
  /\ Release(r)
  /\ seen' = [seen EXCEPT ![r] = [row \in Rows |-> Unread]]
  /\ UNCHANGED <<stock, ledger, documents, outbox, kind, target, delta, phase>>

RejectCreate(r) ==
  /\ Ready(r, "create")
  /\ ~Sufficient(r)
  /\ Rollback(r)

(***************************************************************************)
(* update_status(.., "cancelled") and delete_order: the status is read     *)
(* without a lock, then Order.items -> product fills the identity map.     *)
(* PATCH answers "already cancelled" without effect; DELETE has no such    *)
(* early return, and assert_transition lets an equal status pass.          *)
(***************************************************************************)
BeginCancel(r) ==
  /\ Idle(r, "cancel")
  /\ \E o \in Orders :
       \/ /\ status[o] = "open"
          /\ Begin(r, "cancel", o, goods[o], "reading")
          /\ UNCHANGED <<documents, seen>>
       \/ /\ status[o] = "cancelled"
          /\ Refuse(r, "cancel", o)

BeginDelete(r) ==
  /\ Idle(r, "delete")
  /\ \E o \in Orders :
       /\ status[o] \in {"open", "cancelled"}
       /\ Begin(r, "delete", o, goods[o], "reading")
  /\ UNCHANGED <<documents, seen>>

CommitCancel(r) ==
  /\ \E k \in Cancels : Ready(r, k)
  /\ Write(r)
  /\ status' = [status EXCEPT ![target[r]] = "cancelled"]
  /\ posted' = [posted EXCEPT ![target[r]] = @ + 1]
  /\ outbox' = outbox \cup {Event("order.cancelled", target[r])}
  /\ Release(r)
  /\ Goto(r, "done")
  /\ UNCHANGED <<goods, session>>

(***************************************************************************)
(* update_po_status(.., "received"): neither the purchase order nor the    *)
(* products are locked before they are read.                               *)
(***************************************************************************)
BeginReceive(r) ==
  /\ Idle(r, "receive")
  /\ \E p \in PurchaseOrders :
       \/ /\ status[p] = "ordered"
          /\ Begin(r, "receive", p, goods[p], "reading")
          /\ UNCHANGED <<documents, seen>>
       \/ /\ status[p] = "received"
          /\ Refuse(r, "receive", p)

CommitReceive(r) ==
  /\ Ready(r, "receive")
  /\ Write(r)
  /\ status' = [status EXCEPT ![target[r]] = "received"]
  /\ posted' = [posted EXCEPT ![target[r]] = @ + 1]
  /\ Release(r)
  /\ Goto(r, "done")
  /\ UNCHANGED <<goods, outbox, session>>

\* Variant: the variants of the order are loaded with its products.
ReadOrderRows(r) ==
  /\ kind[r] \in Cancels /\ phase[r] = "reading"
  /\ seen' = [seen EXCEPT ![r] =
                [row \in Rows |-> IF row \in Touched(r) THEN stock[row] ELSE @[row]]]
  /\ Goto(r, "locking")
  /\ UNCHANGED <<stock, ledger, documents, outbox, owner, kind, target, delta>>

\* Order.items -> product is loaded by one statement for all the lines.
ReadOrderProducts(r) ==
  /\ kind[r] \in Cancels /\ phase[r] = "reading"
  /\ seen' = [seen EXCEPT ![r] =
                [row \in Rows |-> IF row \in Touched(r) \cap Products
                                  THEN stock[row] ELSE @[row]]]
  /\ Goto(r, "locking")
  /\ UNCHANGED <<stock, ledger, documents, outbox, owner, kind, target, delta>>

\* db.get loads the product of one purchase order line at a time.
ReadDeliveredProduct(r) ==
  /\ kind[r] = "receive" /\ phase[r] = "reading"
  /\ \E p \in Changed(r) :
       /\ seen[r][p] = Unread
       /\ seen' = [seen EXCEPT ![r][p] = stock[p]]
       /\ Goto(r, IF \A q \in Changed(r) \ {p} : seen[r][q] # Unread
                  THEN "locking" ELSE "reading")
  /\ UNCHANGED <<stock, ledger, documents, outbox, owner, kind, target, delta>>

-----------------------------------------------------------------------------
(***************************************************************************)
(* apply_adjustment: FOR UPDATE, check, commit; the stock events follow in *)
(* a second transaction, which reads the product again.                    *)
(***************************************************************************)
ProductOf(row) == IF row \in Variants THEN ParentOf[row] ELSE row

BeginAdjust(r) ==
  /\ Idle(r, "adjust")
  /\ \E p \in Products, n \in Adjustments :
       Begin(r, "adjust", p, [NoUnits EXCEPT ![p] = n], "locking")
  /\ UNCHANGED <<documents, seen>>

CommitAdjust(r) ==
  /\ Ready(r, "adjust")
  /\ Sufficient(r)
  /\ Write(r)
  /\ Release(r)
  /\ Goto(r, "announcing")
  /\ UNCHANGED <<documents, outbox, session>>

RejectAdjust(r) ==
  /\ Ready(r, "adjust")
  /\ ~Sufficient(r)
  /\ Rollback(r)

\* old_stock == 0 and new_stock > 0, of the product's own row.
Restocked(r) ==
  IF target[r] \in Products /\ seen[r][target[r]] = 0 /\ delta[r][target[r]] > 0
  THEN {Event("inventory.restocked", target[r])} ELSE {}

\* commit expired the product: the threshold is compared with its stock now.
RunsLow(r) ==
  LET p == ProductOf(target[r])
  IN  IF stock[p] <= LowThreshold THEN {Event("stock.low", p)} ELSE {}

AnnounceAdjust(r) ==
  /\ kind[r] = "adjust" /\ phase[r] = "announcing"
  /\ outbox' = outbox \cup Restocked(r) \cup RunsLow(r)
  /\ Goto(r, "done")
  /\ UNCHANGED <<stock, ledger, documents, owner, session>>

(***************************************************************************)
(* update_product: the product is read without a lock and the typed value  *)
(* is written as it is, with the difference as a movement.  Each event is  *)
(* committed on its own.                                                   *)
(***************************************************************************)
BeginEdit(r) ==
  /\ Idle(r, "edit")
  /\ \E row \in Rows, n \in Edits :
       /\ Begin(r, "edit", row, [NoUnits EXCEPT ![row] = n - stock[row]], "locking")
       /\ seen' = [seen EXCEPT ![r][row] = stock[row]]
  /\ UNCHANGED documents

CommitEdit(r) ==
  /\ Ready(r, "edit")
  /\ Write(r)
  /\ Release(r)
  /\ Goto(r, "announcing")
  /\ UNCHANGED <<documents, outbox, session>>

AnnounceRestock(r) ==
  /\ kind[r] = "edit" /\ phase[r] = "announcing"
  /\ outbox' = outbox \cup Restocked(r)
  /\ Goto(r, "warning")
  /\ UNCHANGED <<stock, ledger, documents, owner, session>>

AnnounceLow(r) ==
  /\ kind[r] = "edit" /\ phase[r] = "warning"
  /\ outbox' = outbox \cup RunsLow(r)
  /\ Goto(r, "done")
  /\ UNCHANGED <<stock, ledger, documents, owner, session>>

-----------------------------------------------------------------------------
(***************************************************************************)
(* The database breaks a cycle of waiting sessions by failing one of them; *)
(* a process that dies loses its sessions, and with them their locks.      *)
(***************************************************************************)
Blocked(r) ==
  /\ phase[r] = "locking"
  /\ Wanted(r) # {}
  /\ \A row \in Wanted(r) : owner[row] # NoOne

Deadlocked(S) == \A r \in S : Blocked(r) /\ {owner[row] : row \in Wanted(r)} \subseteq S

AbortDeadlocked(r) ==
  /\ \E S \in SUBSET Requests : r \in S /\ Deadlocked(S)
  /\ Rollback(r)

Crash(r) ==
  /\ Crashes
  /\ phase[r] \notin Ended \cup {"idle"}
  /\ Release(r)
  /\ Goto(r, "crashed")
  /\ UNCHANGED <<stock, ledger, documents, outbox, session>>

Finished ==
  /\ \A r \in Requests : phase[r] \in Ended
  /\ UNCHANGED vars

Start(r) ==
  \/ BeginCreate(r) \/ BeginCancel(r) \/ BeginDelete(r)
  \/ BeginReceive(r) \/ BeginAdjust(r) \/ BeginEdit(r)

Continue(r) ==
  \/ LockRow(r) \/ AbortDeadlocked(r)
  \/ CommitCreate(r) \/ RejectCreate(r)
  \/ ReadOrderProducts(r) \/ CommitCancel(r)
  \/ ReadDeliveredProduct(r) \/ CommitReceive(r)
  \/ CommitAdjust(r) \/ RejectAdjust(r) \/ AnnounceAdjust(r)
  \/ CommitEdit(r) \/ AnnounceRestock(r) \/ AnnounceLow(r)

Next == Finished \/ \E r \in Requests : Start(r) \/ Continue(r) \/ Crash(r)

\* A request that a worker thread has begun is run to its end.
Fairness == \A r \in Requests : WF_vars(Continue(r))

Spec == Init /\ [][Next]_vars
FairSpec == Spec /\ Fairness

-----------------------------------------------------------------------------
(***************************************************************************)
(* Properties.                                                             *)
(***************************************************************************)

\* The type invariant: stock, ledger and the session of each request have
\* their types, and a row belongs to at most one request.
TypeOK ==
  /\ stock \in [Rows -> Int] /\ ledger \in [Rows -> Int]
  /\ status \in [Documents -> {"none", "open", "cancelled", "ordered", "received"}]
  /\ goods \in [Documents -> Baskets \cup Deliveries \cup {NoUnits}]
  /\ posted \in [Documents -> Nat]
  /\ \A e \in outbox : /\ e.type \in {"stock.low", "inventory.restocked",
                                      "order.created", "order.cancelled"}
                       /\ e.about \in Products \cup Orders
  /\ owner \in [Rows -> Requests \cup {NoOne}]
  /\ kind \in [Requests -> Kinds \cup {"none"}]
  /\ target \in [Requests -> Documents \cup Rows]
  /\ delta \in [Requests -> [Rows -> Int]]
  /\ seen \in [Requests -> [Rows -> Nat \cup {Unread}]]
  /\ phase \in [Requests -> Ended \cup {"idle", "reading", "locking",
                                       "announcing", "warning"}]

\* The rows an operation reads before it holds their lock.
ReadsUnlocked(k) ==
  CASE k \in Cancels \cup {"receive"} -> Products
    [] k = "edit"                     -> Rows
    [] OTHER                          -> {}

\* The rows that every running operation first reads under the lock.
SafeRows == {row \in Rows : \A k \in Kinds : row \notin ReadsUnlocked(k)}

\* Stock never goes below zero, whatever the operations and however stale
\* their reads: the checks of create_order and apply_adjustment are made on
\* the value that is then written.
StockNonNegative == \A row \in Rows : stock[row] >= 0

\* The stock of a row that is always read under its lock is its initial stock
\* plus the movements: no concurrent request's write is lost.
SafeRowsFollowLedger == \A row \in SafeRows : stock[row] = InitialStock[row] + ledger[row]

\* docs/ERD.md:255: stock_quantity is maintained by inventory movements in the
\* same transaction, so it never drifts from them, on any row.
StockFollowsLedger == \A row \in Rows : stock[row] = InitialStock[row] + ledger[row]

\* A document puts its units back on the shelf, or on it, at most once: an
\* order by its cancellation, a purchase order by its receipt.
PostedOnce == \A d \in Documents : posted[d] <= 1

\* An event about an order is in the outbox exactly when the order's own
\* transaction committed: none for a request that was rolled back or died.
OrderEventsMatchOrders ==
  \A o \in Requests :
    /\ Event("order.created", o) \in outbox <=> status[o] # "none"
    /\ Event("order.cancelled", o) \in outbox <=> status[o] = "cancelled"

\* A product that started above its threshold and is now at or below it has a
\* stock.low event in the outbox, or a request that is about to write it.
\* It takes the returns of stale values together with adjustments to break
\* this; theorem LowStockIsAnnounced says for which operations it holds.
LowStockAnnounced ==
  \A p \in Products :
    InitialStock[p] > LowThreshold /\ stock[p] <= LowThreshold =>
      \/ Event("stock.low", p) \in outbox
      \/ \E r \in Requests : /\ phase[r] \in {"announcing", "warning"}
                             /\ ProductOf(target[r]) = p

\* Every request that has begun ends, also when orders lock the same products
\* in opposite orders.
EveryRequestEnds == \A r \in Requests : phase[r] # "idle" ~> phase[r] \in Ended

\* The inductive invariant behind the theorems of InventoryProofs: what a
\* request holds and has seen while it runs, and what it is about to write.
HeldRowsAreRead ==
  \A r \in Requests, row \in Rows :
    owner[row] = r => phase[r] = "locking" /\ seen[r][row] # Unread

SafeRowsReadUnderLock ==
  \A r \in Requests, row \in SafeRows :
    /\ owner[row] = r => seen[r][row] = stock[row]
    /\ phase[r] \in {"idle", "reading", "locking"} /\ owner[row] # r => seen[r][row] = Unread

PlannedChange ==
  \A r \in Requests : phase[r] \in {"reading", "locking"} =>
    /\ kind[r] = "create" => /\ delta[r] = [row \in Rows |-> -goods[r][row]]
                             /\ target[r] = r /\ status[r] = "none"
    /\ kind[r] \in Cancels => /\ delta[r] = goods[target[r]]
                               /\ target[r] \in Orders /\ status[target[r]] # "none"
    /\ kind[r] = "receive" => /\ delta[r] = goods[target[r]]
                              /\ target[r] \in PurchaseOrders
    /\ kind[r] \in {"adjust", "edit"} =>
         \A row \in Rows : delta[r][row] # 0 => row = target[r]
    /\ kind[r] = "edit" => \A row \in Rows :
         delta[r][row] # 0 => seen[r][row] \in Nat /\ seen[r][row] + delta[r][row] >= 0

StockRequestsNameRows ==
  \A r \in Requests : kind[r] \in {"adjust", "edit"} => target[r] \in Rows

DocumentsInOrder ==
  /\ \A r \in Requests : phase[r] = "idle" => status[r] = "none"
  /\ \A o \in Orders : status[o] \in {"none", "open", "cancelled"}
  /\ \A d \in PurchaseOrders : goods[d] \in Deliveries

InductiveInv ==
  /\ TypeOK
  /\ StockNonNegative
  /\ SafeRowsFollowLedger
  /\ HeldRowsAreRead
  /\ SafeRowsReadUnderLock
  /\ PlannedChange
  /\ StockRequestsNameRows
  /\ DocumentsInOrder

\* The rows read under their lock behave as an atomic store does.
Atomic == INSTANCE AtomicInventory
  WITH Rows <- SafeRows,
       InitialStock <- [row \in SafeRows |-> InitialStock[row]],
       stock <- [row \in SafeRows |-> stock[row]],
       ledger <- [row \in SafeRows |-> ledger[row]],
       status <- [o \in Orders |-> status[o]],
       goods <- [o \in Orders |-> [row \in SafeRows |-> goods[o][row]]]
ImplementsAtomicInventory == Atomic!Spec
==============================================================================
