--------------------------- MODULE AtomicInventory ---------------------------
(***************************************************************************)
(* What the stock of a row promises: every operation works on the stock as *)
(* it is at one instant.  A sale takes exactly the units of its order and  *)
(* only if they are all there, a cancellation gives exactly those units    *)
(* back, an adjustment never goes below zero, and the movement ledger      *)
(* changes by what the stock changes by.                                   *)
(***************************************************************************)
EXTENDS Integers

CONSTANTS Rows, Orders, InitialStock

VARIABLES stock, ledger, status, goods

abstractVars == <<stock, ledger, status, goods>>

Init ==
  /\ stock = InitialStock
  /\ ledger = [row \in Rows |-> 0]
  /\ \A o \in Orders : status[o] \in {"none", "open"}

\* The units of an order that has not been placed are still being chosen.
Choose(o) ==
  /\ status[o] = "none"
  /\ \A other \in Orders \ {o} : goods'[other] = goods[other]
  /\ UNCHANGED <<stock, ledger, status>>

Place(o) ==
  /\ status[o] = "none"
  /\ status' = [status EXCEPT ![o] = "open"]
  /\ \A row \in Rows : goods[o][row] <= stock[row]
  /\ stock' = [row \in Rows |-> stock[row] - goods[o][row]]
  /\ ledger' = [row \in Rows |-> ledger[row] - goods[o][row]]
  /\ UNCHANGED goods

Return(o) ==
  /\ status[o] \in {"open", "cancelled"}
  /\ status' = [status EXCEPT ![o] = "cancelled"]
  /\ stock' = [row \in Rows |-> stock[row] + goods[o][row]]
  /\ ledger' = [row \in Rows |-> ledger[row] + goods[o][row]]
  /\ UNCHANGED goods

Adjust ==
  /\ \A row \in Rows : /\ stock'[row] >= 0
                       /\ ledger'[row] - ledger[row] = stock'[row] - stock[row]
  /\ \A row, other \in Rows :
       stock'[row] # stock[row] /\ stock'[other] # stock[other] => row = other
  /\ UNCHANGED <<status, goods>>

Next == Adjust \/ \E o \in Orders : Choose(o) \/ Place(o) \/ Return(o)

Spec == Init /\ [][Next]_abstractVars
==============================================================================
