---------------------------- MODULE OrderLifecycle ----------------------------
(***************************************************************************)
(* The status of the orders, the sales row of each and the counters of the *)
(* sellers and customers (services/order_service.py).                      *)
(*                                                                         *)
(* PATCH /orders/{id} and DELETE /orders/{id} read the order with one      *)
(* SELECT and its seller, its customer and its sale with one more SELECT   *)
(* each, none of them locking; a PATCH of a user who is linked to a seller *)
(* has read that seller before, and the session keeps the row as it was    *)
(* then.  What is written back is computed from these reads; only the      *)
(* unique order_id of sales is checked at commit.                          *)
(***************************************************************************)
EXTENDS Integers, FiniteSets, Functions

CONSTANTS
  Orders,
  Parties,        \* sellers and customers: both keep total_orders and a total
  Sellers,        \* those of them that are sellers
  PartiesOf,      \* the customer of each order, and its seller if it has one
  Total,          \* order.total
  Requests,
  Goals,          \* statuses that requests ask for; "delete" is DELETE
  InitialStatus   \* statuses an order may have at the start

Statuses == {"pending", "confirmed", "processing", "shipped", "delivered", "cancelled"}

Transitions ==
  [s \in Statuses |-> CASE s = "pending"    -> {"confirmed", "cancelled"}
                        [] s = "confirmed"  -> {"processing", "cancelled"}
                        [] s = "processing" -> {"shipped", "cancelled"}
                        [] s = "shipped"    -> {"delivered", "cancelled"}
                        [] OTHER            -> {}]

ASSUME OrderLifecycleAssumption ==
  /\ IsFiniteSet(Orders) /\ IsFiniteSet(Parties)
  /\ PartiesOf \in [Orders -> SUBSET Parties]
  /\ Sellers \subseteq Parties /\ \A o \in Orders : PartiesOf[o] \ Sellers # {}
  /\ Total \in [Orders -> Nat]
  /\ Goals \subseteq Statuses \cup {"delete"}
  /\ InitialStatus \subseteq Statuses \ {"delivered"}

VARIABLES
  status,   \* committed status of each order
  sales,    \* orders that have a sales row
  count,    \* total_orders of each party
  credits,  \* deliveries ever committed for each order, for the properties only
  amount,   \* total_sales of a seller, total_spent of a customer
  phase,    \* where each request is
  order,    \* the order the request works on
  goal,     \* the status it sets
  seen,     \* what its SELECTs returned
  met       \* whether requests that share a party have run at the same time

tables == <<status, sales, count, credits, amount>>
vars == <<status, sales, count, credits, amount, phase, order, goal, seen, met>>

Running == {"linked", "counters", "sale", "writing"}
Phases == Running \cup {"idle", "done", "failed"}
Nothing == [count |-> [x \in Parties |-> 0], amount |-> [x \in Parties |-> 0],
            unread |-> {}, status |-> "pending", sale |-> FALSE]

Init ==
  /\ status \in [Orders -> InitialStatus]
  /\ sales = {}
  /\ count = [x \in Parties |-> 0]
  /\ amount = [x \in Parties |-> 0]
  /\ credits = [o \in Orders |-> 0]
  /\ phase = [r \in Requests |-> "idle"]
  /\ order \in [Requests -> Orders]
  /\ goal = [r \in Requests |-> "pending"]
  /\ seen = [r \in Requests |-> Nothing]
  /\ met = FALSE

Goto(r, p) == phase' = [phase EXCEPT ![r] = p]

\* Somebody else is at work on the order or on one of its parties.
Meets(r) ==
  \E q \in Requests \ {r} :
    /\ phase[q] \in Running
    /\ order[q] = order[r] \/ PartiesOf[order[q]] \cap PartiesOf[order[r]] # {}

\* Variant: any other status is accepted.
AcceptsAny(o, g) == g = "delete" \/ g # status[o]

\* update_status returns early on an equal status; delete_order does not, and
\* assert_transition lets an equal status pass.
Accepts(o, g) ==
  IF g = "delete" THEN "cancelled" \in Transitions[status[o]] \cup {status[o]}
                  ELSE g \in Transitions[status[o]]

\* _linked_seller, before a PATCH by a seller: the row of the seller, which the
\* SELECTs below do not read again.  The orders of other sellers are refused.
ReadLinked(r) ==
  /\ phase[r] = "idle"
  /\ met' = (met \/ Meets(r))
  /\ \E x \in PartiesOf[order[r]] \cap Sellers :
       seen' = [seen EXCEPT ![r].count[x] = count[x],
                            ![r].amount[x] = amount[x],
                            ![r].unread = PartiesOf[order[r]] \ {x}]
  /\ Goto(r, "linked")
  /\ UNCHANGED <<tables, order, goal>>

\* _get_order, its first SELECT, and the checks on the status it returned.
Begin(r) ==
  /\ phase[r] \in {"idle", "linked"}
  /\ met' = (met \/ Meets(r))
  /\ \E g \in Goals :
       /\ phase[r] = "linked" => g # "delete"
       /\ goal' = [goal EXCEPT ![r] = IF g = "delete" THEN "cancelled" ELSE g]
       /\ \/ /\ Accepts(order[r], g)
             /\ seen' = [seen EXCEPT ![r].unread = IF phase[r] = "linked" THEN @ ELSE PartiesOf[order[r]],
                                     ![r].status = status[order[r]]]
             /\ Goto(r, "counters")
          \/ /\ ~Accepts(order[r], g)
             /\ Goto(r, IF g = status[order[r]] THEN "done" ELSE "failed")
             /\ UNCHANGED seen
  /\ UNCHANGED <<tables, order>>

\* selectinload(Order.seller) and selectinload(Order.customer), of what the
\* session does not hold yet.
ReadParty(r) ==
  /\ phase[r] = "counters"
  /\ \E x \in seen[r].unread :
       seen' = [seen EXCEPT ![r].count[x] = count[x],
                            ![r].amount[x] = amount[x],
                            ![r].unread = @ \ {x}]
  /\ Goto(r, IF Cardinality(seen[r].unread) = 1 THEN "sale" ELSE "counters")
  /\ UNCHANGED <<tables, order, goal, met>>

\* selectinload(Order.sale).
ReadSale(r) ==
  /\ phase[r] = "sale"
  /\ seen' = [seen EXCEPT ![r].sale = order[r] \in sales]
  /\ Goto(r, "writing")
  /\ UNCHANGED <<tables, order, goal, met>>

\* An attribute set to the value it was read with is not in the UPDATE.
Assigned(read, new, current) == IF new = read THEN current ELSE new

\* Variant: the counters are not guarded against zero.
Decreased(n) == n - 1

LessOne(n) == IF n = 0 THEN 0 ELSE n - 1

\* Counters and total of the order's parties, from what the request has read.
WriteCounters(r, newCount(_), newAmount(_)) ==
  LET involved == PartiesOf[order[r]]
      read == seen[r]
  IN  /\ count' = [x \in Parties |-> IF x \in involved
                     THEN Assigned(read.count[x], newCount(read.count[x]), count[x])
                     ELSE count[x]]
      /\ amount' = [x \in Parties |-> IF x \in involved
                      THEN Assigned(read.amount[x], newAmount(read.amount[x]), amount[x])
                      ELSE amount[x]]

SetStatus(r) ==
  /\ status' = [status EXCEPT ![order[r]] = Assigned(seen[r].status, goal[r], @)]
  /\ Goto(r, "done")
  /\ UNCHANGED <<order, goal, seen, met>>

\* Variant: the number of orders is counted up, their total is not.
CommitDeliveryOfCount(r) ==
  /\ phase[r] = "writing" /\ goal[r] = "delivered" /\ ~seen[r].sale
  /\ order[r] \notin sales
  /\ sales' = sales \cup {order[r]}
  /\ credits' = [credits EXCEPT ![order[r]] = @ + 1]
  /\ WriteCounters(r, LAMBDA n : n + 1, LAMBDA a : a)
  /\ SetStatus(r)

\* _finalize_delivery of an order without a sale.
CommitDelivery(r) ==
  /\ phase[r] = "writing" /\ goal[r] = "delivered" /\ ~seen[r].sale
  /\ order[r] \notin sales
  /\ sales' = sales \cup {order[r]}
  /\ credits' = [credits EXCEPT ![order[r]] = @ + 1]
  /\ WriteCounters(r, LAMBDA n : n + 1, LAMBDA a : a + Total[order[r]])
  /\ SetStatus(r)

\* uq_sales_order_id: somebody has inserted the sale in the meantime.
RejectDelivery(r) ==
  /\ phase[r] = "writing" /\ goal[r] = "delivered" /\ ~seen[r].sale
  /\ order[r] \in sales
  /\ Goto(r, "failed")
  /\ UNCHANGED <<tables, order, goal, seen, met>>

\* _cancel_order of an order with a sale.
CommitReversal(r) ==
  /\ phase[r] = "writing" /\ goal[r] = "cancelled" /\ seen[r].sale
  /\ sales' = sales \ {order[r]}
  /\ WriteCounters(r, LAMBDA n : LessOne(n), LAMBDA a : a - Total[order[r]])
  /\ SetStatus(r)
  /\ UNCHANGED credits

\* Variant: a sale that is there already is credited once more.
CommitStatusCrediting(r) ==
  /\ phase[r] = "writing"
  /\ goal[r] = "delivered" => seen[r].sale
  /\ goal[r] = "cancelled" => ~seen[r].sale
  /\ SetStatus(r)
  /\ IF goal[r] = "delivered"
     THEN WriteCounters(r, LAMBDA n : n + 1, LAMBDA a : a + Total[order[r]])
     ELSE UNCHANGED <<count, amount>>
  /\ UNCHANGED <<sales, credits>>

\* Variant: the early return is taken whether or not there is a sale.
CommitStatusOnly(r) ==
  /\ phase[r] = "writing"
  /\ goal[r] = "cancelled" => ~seen[r].sale
  /\ SetStatus(r)
  /\ UNCHANGED <<sales, count, credits, amount>>

\* Every other change: only the status, and the audit and outbox rows.
CommitStatus(r) ==
  /\ phase[r] = "writing"
  /\ goal[r] = "delivered" => seen[r].sale
  /\ goal[r] = "cancelled" => ~seen[r].sale
  /\ SetStatus(r)
  /\ UNCHANGED <<sales, count, credits, amount>>

\* A database error or the death of the process rolls the session back.
Abort(r) ==
  /\ phase[r] \in Running
  /\ Goto(r, "failed")
  /\ UNCHANGED <<tables, order, goal, seen, met>>

Ended ==
  /\ \A r \in Requests : phase[r] \in {"done", "failed"}
  /\ UNCHANGED vars

Step(r) ==
  \/ ReadLinked(r) \/ Begin(r) \/ ReadParty(r) \/ ReadSale(r)
  \/ CommitDelivery(r) \/ RejectDelivery(r) \/ CommitReversal(r) \/ CommitStatus(r)
  \/ Abort(r)

Next == Ended \/ \E r \in Requests : Step(r)

Spec == Init /\ [][Next]_vars

-----------------------------------------------------------------------------
(***************************************************************************)
(* Properties.                                                             *)
(***************************************************************************)

\* The type invariant.  That the counts are never negative is the work of the
\* max(0, ...) in _cancel_order, not of the arithmetic.
TypeOK ==
  /\ status \in [Orders -> Statuses]
  /\ sales \subseteq Orders
  /\ count \in [Parties -> Nat] /\ amount \in [Parties -> Int]
  /\ credits \in [Orders -> Nat]
  /\ phase \in [Requests -> Phases]
  /\ order \in [Requests -> Orders]
  /\ goal \in [Requests -> Statuses]
  /\ seen \in [Requests -> [count : [Parties -> Nat], amount : [Parties -> Int],
                            unread : SUBSET Parties, status : Statuses, sale : BOOLEAN]]
  /\ met \in BOOLEAN

\* docs/ERD.md:262-264: a sales row belongs to a delivered order, and the
\* cancellation of an order leaves none behind.
SaleMeansDelivered == \A o \in Orders : o \in sales <=> status[o] = "delivered"

SalesOf(x) == {o \in sales : x \in PartiesOf[o]}

\* docs/ERD.md:253-255: the counters of sellers and customers never drift from
\* the sales they summarise.
CountersMatchSales ==
  \A x \in Parties : /\ count[x] = Cardinality(SalesOf(x))
                     /\ amount[x] = SumFunctionOnSet(Total, SalesOf(x))

\* The two statements above hold until two requests that share an order, a
\* seller or a customer overlap: nothing that happens one after the other,
\* failures and DELETEs of any status included, breaks them.
ConsistentUntilOverlap == met \/ (SaleMeansDelivered /\ CountersMatchSales)

\* order_state_machine.py:17: orders move along the allowed transitions, and a
\* final status is left by nobody, again until requests overlap.
FollowsStateMachine ==
  [][\A o \in Orders : status'[o] # status[o] =>
       met \/ status'[o] \in Transitions[status[o]]]_vars

\* However the requests interleave, a party is never credited with more orders
\* than deliveries were committed: a delivery that finds a sale, or loses the
\* race to insert it, credits nobody.
NoCreditWithoutDelivery ==
  \A x \in Parties :
    count[x] <= SumFunctionOnSet(credits, {o \in Orders : x \in PartiesOf[o]})
=============================================================================
