--------------------------- MODULE IdempotentService ---------------------------
(***************************************************************************)
(* What the Idempotency-Key header promises to a client that repeats a     *)
(* request (services/idempotency_service.py, first lines): the operation   *)
(* of a key is executed at most once, and whoever is answered with an      *)
(* order is answered with that one.                                        *)
(***************************************************************************)
CONSTANTS Requests, Keys, KeyOf, NoOrder

VARIABLES
  result,  \* the order each key has led to, named by the request that placed it
  answer   \* the order each request was answered with

Init ==
  /\ result = [k \in Keys |-> NoOrder]
  /\ answer = [r \in Requests |-> NoOrder]

Execute(r) ==
  /\ result[KeyOf[r]] = NoOrder
  /\ result' = [result EXCEPT ![KeyOf[r]] = r]
  /\ UNCHANGED answer

Answer(r) ==
  /\ result[KeyOf[r]] # NoOrder
  /\ answer[r] = NoOrder
  /\ answer' = [answer EXCEPT ![r] = result[KeyOf[r]]]
  /\ UNCHANGED result

Next == \E r \in Requests : Execute(r) \/ Answer(r)

Spec == Init /\ [][Next]_<<result, answer>>
================================================================================
