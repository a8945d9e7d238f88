------------------------------- MODULE Refunds -------------------------------
(* The returns and refunds of one shipped order with one line: the returns its
   shopper requests, their approval, receipt and completion, the refunds that an
   approval or the back office creates, and their processing.  refund_service.py
   locks nothing: each request reads in one step and writes in a later one, and
   what it read may have changed in between.                                 *)
EXTENDS Integers, FiniteSets, Functions

CONSTANTS
    Return, Refund, \* bound: the rows that can be created
    Request,        \* bound: requests in flight at a time
    Bought, Price,  \* quantity and unit price of the order's line
    Total,          \* the order's total, after discount and shipping
    Amount,         \* amounts the back office tries to refund by hand
    None

ASSUME RefundsAssumption ==
    /\ IsFiniteSet(Return) /\ IsFiniteSet(Refund)
    /\ Bought \in Nat /\ Price \in Nat /\ Total \in Nat
    /\ Amount \subseteq Nat
    /\ None \notin Return /\ None \notin Refund
    /\ None \notin {"pending", "approved", "rejected", "received", "completed", "processed", "failed"}

VARIABLES
    returns,    \* return_requests: status, None until requested, and quantity
    refunds,    \* refunds: status, None until created, amount, return_request_id
    req,        \* requests: what they do, to which row, and what they have read
    torn,       \* history: returns decided on a status that had been replaced
    crowded,    \* history: returns requested while another was being written
    unseen,     \* history: refunds made by hand on a balance that had changed
    reinstated  \* history: refunds processed after they had failed

hist == <<torn, crowded, unseen, reinstated>>
vars == <<returns, refunds, req, torn, crowded, unseen, reinstated>>

\* Variant: an approved return may be approved again.
TransitionsRepeating ==
    [pending |-> {"approve", "reject"}, approved |-> {"approve", "receive"},
     received |-> {"complete"}, completed |-> {}, rejected |-> {}]

TRANSITIONS ==
    [pending |-> {"approve", "reject"}, approved |-> {"receive"},
     received |-> {"complete"}, completed |-> {}, rejected |-> {}]

Decided ==
    [approve |-> "approved", reject |-> "rejected", receive |-> "received", complete |-> "completed"]

Acted == [process |-> "processed", fail |-> "failed"]

Granted == {"approved", "received", "completed"}

Idle == [pc |-> "idle", row |-> None, action |-> None, read |-> None, n |-> 0]

Requested == {r \in Return : returns[r].status # None}
Created   == {f \in Refund : refunds[f].status # None}

\* _returned_quantity: what is neither rejected nor yet requested.
Returned(R) ==
    SumFunctionOnSet([r \in Return |-> returns[r].qty],
                     {r \in R : returns[r].status \in Granted \cup {"pending"}})

\* Variant: a refund counts only once it has been processed.
OpenProcessed(F) == {f \in F : refunds[f].status = "processed"}

Open(F) == {f \in F : refunds[f].status \in {"pending", "processed"}}

\* _sum_refunds
Refunded(F) == SumFunctionOnSet([f \in Refund |-> refunds[f].amount], Open(F))

Init ==
    /\ returns = [r \in Return |-> [status |-> None, qty |-> 0]]
    /\ refunds = [f \in Refund |-> [status |-> None, amount |-> 0, return |-> None]]
    /\ req = [q \in Request |-> Idle]
    /\ torn = {} /\ crowded = {} /\ unseen = {} /\ reinstated = {}

Start(q, pc, row, action, read, n) ==
    /\ req[q] = Idle
    /\ req' = [req EXCEPT ![q] = [pc |-> pc, row |-> row, action |-> action, read |-> read, n |-> n]]
    /\ UNCHANGED <<returns, refunds>> /\ UNCHANGED hist

End(q) == req' = [req EXCEPT ![q] = Idle]

Create(f, amount, return) ==
    /\ f \notin Created
    /\ refunds' = [refunds EXCEPT ![f] = [status |-> "pending", amount |-> amount, return |-> return]]

---------------------------------------------------------------------------
\* request_return: the units already returned are summed ...
CheckQuantity(q) ==
    \E n \in 1 .. Bought :
       /\ Returned(Return) + n <= Bought
       /\ Start(q, "requesting", None, None, Returned(Return), n)

\* ... and the row is inserted, whatever the sum is by now.
InsertReturn(q) ==
    /\ req[q].pc = "requesting"
    /\ \E r \in Return \ Requested :
          /\ returns' = [returns EXCEPT ![r] = [status |-> "pending", qty |-> req[q].n]]
          /\ crowded' = IF Returned(Return) # req[q].read THEN crowded \cup {r} ELSE crowded
    /\ End(q)
    /\ UNCHANGED <<refunds, torn, unseen, reinstated>>

\* decide_return: the transition is checked on the status that was read ...
ReadReturn(q) ==
    \E r \in Requested : \E action \in TRANSITIONS[returns[r].status] :
       Start(q, "deciding", r, action, returns[r].status, 0)

\* ... and written over the status of now.  An approval also creates the refund,
\* at the line's price and against no balance.
Decide(q) ==
    LET r == req[q].row
    IN  /\ req[q].pc = "deciding"
        /\ returns' = [returns EXCEPT ![r].status = Decided[req[q].action]]
        /\ IF req[q].action = "approve"
           THEN \E f \in Refund : Create(f, Price * returns[r].qty, r)
           ELSE UNCHANGED refunds
        /\ torn' = IF returns[r].status # req[q].read THEN torn \cup {r} ELSE torn
        /\ End(q)
        /\ UNCHANGED <<crowded, unseen, reinstated>>

\* create_manual_refund: the balance is read ...
ReadBalance(q) ==
    \E a \in Amount :
       /\ a <= Total - Refunded(Refund)
       /\ Start(q, "refunding", None, None, Refunded(Refund), a)

\* ... and the refund created.
InsertRefund(q) ==
    /\ req[q].pc = "refunding"
    /\ \E f \in Refund :
          /\ Create(f, req[q].n, None)
          /\ unseen' = IF Refunded(Refund) # req[q].read THEN unseen \cup {f} ELSE unseen
    /\ End(q)
    /\ UNCHANGED <<returns, torn, crowded, reinstated>>

\* act_on_refund: only what is processed may not be processed again.
ReadRefund(q) ==
    \E f \in Created : \E action \in {"process", "fail"} :
       /\ ~(action = "process" /\ refunds[f].status = "processed")
       /\ Start(q, "acting", f, action, refunds[f].status, 0)

\* The session writes a column only if it differs from what was read.
Act(q) ==
    LET f   == req[q].row
        new == Acted[req[q].action]
    IN  /\ req[q].pc = "acting"
        /\ refunds' = IF new = req[q].read THEN refunds ELSE [refunds EXCEPT ![f].status = new]
        /\ reinstated' = IF refunds[f].status = "failed" /\ refunds'[f].status # "failed"
                         THEN reinstated \cup {f} ELSE reinstated
        /\ End(q)
        /\ UNCHANGED <<returns, torn, crowded, unseen>>

Next ==
    \E q \in Request :
       \/ CheckQuantity(q) \/ InsertReturn(q)
       \/ ReadReturn(q) \/ Decide(q)
       \/ ReadBalance(q) \/ InsertRefund(q)
       \/ ReadRefund(q) \/ Act(q)

Spec == Init /\ [][Next]_vars

---------------------------------------------------------------------------
TypeOK ==
    /\ returns \in [Return -> [status : {None, "pending", "rejected"} \cup Granted, qty : Nat]]
    /\ refunds \in [Refund -> [status : {None, "pending", "processed", "failed"},
                               amount : Nat, return : Return \cup {None}]]
    /\ torn \subseteq Return /\ crowded \subseteq Return
    /\ unseen \subseteq Refund /\ reinstated \subseteq Refund

\* A return has one refund from its approval on and none before it or without it
\* (ReturnRequest.refund is a scalar), unless one of its decisions was written
\* over another that it had not seen.
OneRefundPerReturn ==
    \A r \in Return \ torn :
       IF returns[r].status \in Granted
       THEN \E f \in Refund : {g \in Refund : refunds[g].return = r} = {f}
       ELSE {g \in Refund : refunds[g].return = r} = {}

\* No more units are returned than were bought, save for returns that were
\* requested side by side and for rejections that another decision wrote over.
UnitsWithinBought == Returned(Return \ (crowded \cup torn)) <= Bought

\* What the back office refunds by hand stays within the order's total, save for
\* refunds made side by side and for those processed after they had failed.
MoneyWithinTotal ==
    Refunded({f \in Refund \ (unseen \cup reinstated) : refunds[f].return = None}) <= Total

\* The order bounds what is given back for it, in units and in money: the two
\* checks of refund_service.py, as far as they reach without a lock.
WithinOrder == UnitsWithinBought /\ MoneyWithinTotal

\* "The amount cannot exceed the order total minus already-issued refunds"
\* (refunds.py): so, with no return approved, no order is refunded beyond its total.
NeverOverTotal ==
    (\A f \in Refund : refunds[f].return = None) => Refunded(Refund) <= Total
=============================================================================
