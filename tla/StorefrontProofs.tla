-------------------------- MODULE StorefrontProofs --------------------------
(***************************************************************************)
(* What Storefront promises, for any products, rows, stock and number of   *)
(* moves, and for any number of requests in flight.  Each invariant rests  *)
(* on the one before it:                                                   *)
(*   IdInv    where the page is and what it waits for, and that what will  *)
(*            show a customer was asked with tokens that are still held;   *)
(*   RowInv   the tables, and what a request that has looked for a row may *)
(*            still count on when it writes;                               *)
(*   ViewInv  an answer that nothing has overtaken tells the cart as it is,*)
(*            and what the page shows while it waits for nothing;          *)
(*   KeptInv  what a removal, a clearing and an order on their way will    *)
(*            take from the cart, and what the page knows of it.           *)
(***************************************************************************)
EXTENDS Storefront, FiniteSetTheorems, TLAPS

---------------------------------------------------------------------------
(* Requests *)

Fields == {"pc", "kind", "access", "item", "product", "quantity", "lines", "found", "answer", "heard", "old", "lost"}

\* A request is a record of these fields, whatever their values.
Shape(v) == v = [f \in Fields |-> v[f]]

\* What a mounted cart asks for.
CartKinds == {"read", "add", "set", "remove", "clear", "checkout"}

Requests == req = [r \in Request |-> req[r]] /\ \A r \in Request : Shape(req[r])

\* What a request asks for.
SameAsk(w, v) ==
  w.kind = v.kind /\ w.access = v.access /\ w.item = v.item /\ w.product = v.product /\ w.lines = v.lines

\* It waits on: it may be overtaken, forgotten, or lose track of what it orders.
Waits(w, v) ==
  /\ SameAsk(w, v) /\ w.pc = v.pc /\ w.found = v.found /\ w.answer = v.answer
  /\ (v.old => w.old) /\ (w.heard => v.heard) /\ (v.lost => w.lost)

Fresh(w, kind) ==
  /\ Shape(w) /\ w.pc = "sent" /\ w.kind = kind /\ w.access = access /\ w.heard /\ w.answer = {}

LEMMA IdleShape == Shape(Idle) /\ Idle.pc = "idle"
  BY DEF Shape, Fields, Idle

LEMMA AskShape ==
  ASSUME NEW kind
  PROVE  Fresh(Ask(kind), kind) /\ ~Ask(kind).old /\ ~Ask(kind).lost
<1>1. Shape(Ask(kind))
  BY IdleShape DEF Shape, Ask
<1>2. /\ Idle.pc = "idle" /\ Idle.heard /\ Idle.answer = {} /\ ~Idle.old /\ ~Idle.lost
  BY DEF Idle
<1>3. QED
  BY <1>1, <1>2, IdleShape DEF Fresh, Ask, Shape, Fields

LEMMA AtPc ==
  ASSUME NEW v, Shape(v), NEW pc, NEW w, w = [v EXCEPT !.pc = pc]
  PROVE  /\ Shape(w) /\ w.pc = pc /\ SameAsk(w, v) /\ w.found = v.found /\ w.answer = v.answer
             /\ w.heard = v.heard /\ w.old = v.old /\ w.lost = v.lost
  BY DEF Shape, Fields, SameAsk

\* The page forgets a request, or lets it go on.
LEMMA Forgotten ==
  ASSUME NEW v, Shape(v), NEW w, w = [v EXCEPT !.heard = FALSE]
  PROVE  Shape(w) /\ Waits(w, v) /\ ~w.heard /\ w.old = v.old /\ w.lost = v.lost
  BY DEF Shape, Fields, Waits, SameAsk

LEMMA Loses ==
  ASSUME NEW v, Shape(v), NEW w, w = [v EXCEPT !.lost = TRUE]
  PROVE  Shape(w) /\ Waits(w, v) /\ w.lost /\ w.old = v.old /\ w.heard = v.heard
  BY DEF Shape, Fields, Waits, SameAsk

LEMMA Overtaken ==
  ASSUME NEW v, Shape(v), NEW w, w = [v EXCEPT !.old = TRUE]
  PROVE  Shape(w) /\ Waits(w, v) /\ w.old /\ w.lost = v.lost /\ w.heard = v.heard
  BY DEF Shape, Fields, Waits, SameAsk

LEMMA Stays == \A v : Waits(v, v)
  BY DEF Waits, SameAsk

\* One request changes.
LEMMA Changed ==
  ASSUME Requests, NEW r \in Request, NEW v, Shape(v), req' = [req EXCEPT ![r] = v]
  PROVE  Requests' /\ req'[r] = v /\ \A q \in Request \ {r} : req'[q] = req[q]
  BY DEF Requests

LEMMA AnswerShape ==
  ASSUME Requests, NEW r \in Request, NEW a, Answer(r, a)
  PROVE  /\ Requests'
         /\ SameAsk(req'[r], req[r]) /\ req'[r].pc = "answered" /\ req'[r].found = req[r].found
         /\ req'[r].answer = IF req[r].heard THEN a ELSE {}
         /\ req'[r].heard = req[r].heard /\ ~req'[r].old /\ req'[r].lost = req[r].lost
         /\ \A q \in Request \ {r} :
               /\ Waits(req'[q], req[q]) /\ req'[q].heard = req[q].heard /\ req'[q].lost = req[q].lost
               /\ req[q].pc = "answered" => req'[q].old
<1> DEFINE answered == [req[r] EXCEPT !.pc = "answered", !.answer = IF req[r].heard THEN a ELSE {}, !.old = FALSE]
           Other(q) == IF req[q].pc = "answered" THEN [req[q] EXCEPT !.old = TRUE] ELSE req[q]
<1>1. req' = [q \in Request |-> IF q = r THEN answered ELSE Other(q)]
  BY DEF Answer
<1>2. Shape(req[r])
  BY DEF Requests
<1>3. /\ Shape(answered) /\ SameAsk(answered, req[r]) /\ answered.pc = "answered" /\ answered.found = req[r].found
      /\ answered.answer = (IF req[r].heard THEN a ELSE {})
      /\ answered.heard = req[r].heard /\ ~answered.old /\ answered.lost = req[r].lost
  <2>1. Shape(answered)
    BY <1>2 DEF Shape
  <2>2. QED
    BY <1>2, <2>1 DEF Shape, Fields, SameAsk
<1>4. ASSUME NEW q \in Request
      PROVE  /\ Shape(Other(q)) /\ Waits(Other(q), req[q]) /\ Other(q).heard = req[q].heard /\ Other(q).lost = req[q].lost
             /\ req[q].pc = "answered" => Other(q).old
  BY Overtaken, Stays DEF Requests
<1>5. req'[r] = answered /\ \A q \in Request \ {r} : req'[q] = Other(q)
  BY <1>1
<1>6. Requests'
  <2>1. req' = [q \in Request |-> req'[q]]
    BY <1>1
  <2>2. ASSUME NEW q \in Request PROVE Shape(req'[q])
    BY <1>3, <1>4, <1>5
  <2>3. QED
    BY <2>1, <2>2 DEF Requests
<1> HIDE DEF answered, Other
<1>7. QED
  BY <1>3, <1>4, <1>5, <1>6

\* What the API does to a request, and to those whose answers it overtakes.
Worked(q) ==
  /\ SameAsk(req'[q], req[q]) /\ req'[q].heard = req[q].heard /\ req'[q].lost = req[q].lost
  /\ Active(q)' <=> Active(q)

Served(r) ==
  HandleRead(r) \/ FindItem(r) \/ WriteItem(r) \/ HandleSet(r) \/ HandleRemove(r) \/ HandleClear(r)
  \/ HandleCheckout(r) \/ HandleAuth(r)

LEMMA OneWorks ==
  ASSUME Requests, NEW r \in Request, Active(r), NEW v, Shape(v), req' = [req EXCEPT ![r] = v],
         SameAsk(v, req[r]), v.heard = req[r].heard, v.lost = req[r].lost, v.pc # "idle"
  PROVE  /\ Requests' /\ (\A q \in Request : Worked(q)) /\ req'[r] = v
         /\ \A q \in Request \ {r} : Waits(req'[q], req[q]) /\ req'[q] = req[q]
<1>1. Requests' /\ req'[r] = v /\ \A q \in Request \ {r} : req'[q] = req[q]
  BY Changed
<1>2. \A q \in Request \ {r} : Waits(req'[q], req[q])
  BY <1>1, Stays
<1>3. ASSUME NEW q \in Request PROVE Worked(q)
  <2>1. CASE q = r
    BY <1>1, <2>1 DEF Worked, Active
  <2>2. CASE q # r
    BY <1>1, <2>2 DEF Worked, Active, SameAsk
  <2>3. QED
    BY <2>1, <2>2
<1>4. QED
  BY <1>1, <1>2, <1>3

LEMMA RefuseShape ==
  ASSUME Requests, NEW r \in Request, Active(r), Refuse(r)
  PROVE  /\ Requests' /\ (\A q \in Request : Worked(q)) /\ req'[r].pc = "failed" /\ req'[r].answer = req[r].answer
         /\ \A q \in Request \ {r} : Waits(req'[q], req[q]) /\ req'[q] = req[q]
<1> DEFINE v == [req[r] EXCEPT !.pc = "failed"]
<1>1. Shape(req[r])
  BY DEF Requests
<1>2. Shape(v) /\ SameAsk(v, req[r]) /\ v.pc = "failed" /\ v.answer = req[r].answer /\ v.heard = req[r].heard /\ v.lost = req[r].lost
  BY <1>1, AtPc
<1>3. req' = [req EXCEPT ![r] = v]
  BY DEF Refuse, Requests
<1> HIDE DEF v
<1>4. QED
  BY <1>2, <1>3, OneWorks DEF Active

LEMMA AnswerWorks ==
  ASSUME Requests, NEW r \in Request, Active(r), NEW a, Answer(r, a)
  PROVE  /\ Requests' /\ (\A q \in Request : Worked(q)) /\ req'[r].pc = "answered"
         /\ \A q \in Request \ {r} : Waits(req'[q], req[q])
  BY AnswerShape DEF Worked, Active, Waits

LEMMA ServedWorks ==
  ASSUME Requests, NEW r \in Request, Served(r)
  PROVE  /\ Requests' /\ (\A q \in Request : Worked(q)) /\ UNCHANGED page
         /\ \A q \in Request \ {r} : Waits(req'[q], req[q])
         /\ req'[r].pc # "sent" /\ (req'[r].pc = "found" => FindItem(r))
<1> USE DEF Active
<1>1. CASE HandleRead(r)
  <2>1. Active(r) /\ UNCHANGED page
    BY <1>1 DEF HandleRead
  <2>2. CASE Refuse(r)
    BY <2>1, <2>2, RefuseShape
  <2>3. CASE req' = [req EXCEPT ![r].pc = "answered", ![r].answer = View(Settled(items, Cart(r)), Cart(r))]
    <3> DEFINE v == [req[r] EXCEPT !.pc = "answered", !.answer = View(Settled(items, Cart(r)), Cart(r))]
    <3>1. Shape(req[r])
      BY DEF Requests
    <3>2. Shape(v) /\ SameAsk(v, req[r]) /\ v.heard = req[r].heard /\ v.lost = req[r].lost /\ v.pc = "answered"
      <4>1. Shape(v)
        BY <3>1 DEF Shape
      <4>2. QED
        BY <3>1, <4>1 DEF Shape, Fields, SameAsk
    <3>3. req' = [req EXCEPT ![r] = v]
      BY <2>3 DEF Requests
    <3> HIDE DEF v
    <3>4. QED
      BY <2>1, <3>2, <3>3, OneWorks
  <2>4. QED
    BY <1>1, <2>2, <2>3 DEF HandleRead
<1>2. CASE FindItem(r)
  <2>1. Active(r) /\ UNCHANGED page
    BY <1>2 DEF FindItem
  <2>2. CASE Refuse(r)
    BY <2>1, <2>2, RefuseShape
  <2>3. ASSUME NEW n, NEW f, req' = [req EXCEPT ![r].pc = "found", ![r].quantity = n, ![r].found = f]
        PROVE  /\ Requests' /\ (\A q \in Request : Worked(q))
               /\ (\A q \in Request \ {r} : Waits(req'[q], req[q])) /\ req'[r].pc # "sent"
    <3> DEFINE v == [req[r] EXCEPT !.pc = "found", !.quantity = n, !.found = f]
    <3>1. Shape(req[r])
      BY DEF Requests
    <3>2. Shape(v) /\ SameAsk(v, req[r]) /\ v.heard = req[r].heard /\ v.lost = req[r].lost /\ v.pc = "found"
      <4>1. Shape(v)
        BY <3>1 DEF Shape
      <4>2. QED
        BY <3>1, <4>1 DEF Shape, Fields, SameAsk
    <3>3. req' = [req EXCEPT ![r] = v]
      BY <2>3 DEF Requests
    <3> HIDE DEF v
    <3>4. QED
      BY <2>1, <3>2, <3>3, OneWorks
  <2>4. Refuse(r) \/ \E n, f : req' = [req EXCEPT ![r].pc = "found", ![r].quantity = n, ![r].found = f]
    <3> DEFINE its == Settled(items, Cart(r))
               row == Of(its, Cart(r), req[r].product)
               sum == Lesser(MAX_QUANTITY, req[r].quantity + MapThenSumSet(LAMBDA i : its[i].quantity, row))
               found == IF row = {} THEN None ELSE CHOOSE i \in row : TRUE
    <3>1. Refuse(r) \/ req' = [req EXCEPT ![r].pc = "found", ![r].quantity = sum, ![r].found = found]
      BY <1>2, Zenon DEF FindItem
    <3> HIDE DEF sum, found
    <3>2. QED
      BY <3>1
  <2>5. QED
    BY <1>2, <2>1, <2>2, <2>3, <2>4
<1>3. CASE WriteItem(r)
  <2>1. Active(r) /\ UNCHANGED page
    BY <1>3 DEF WriteItem, Commit
  <2>2. Refuse(r) \/ \E a : Answer(r, a)
    BY <1>3 DEF WriteItem, Commit
  <2>3. QED
    BY <2>1, <2>2, RefuseShape, AnswerWorks
<1>4. CASE HandleSet(r)
  <2>1. Active(r) /\ UNCHANGED page
    BY <1>4 DEF HandleSet, Commit
  <2>2. Refuse(r) \/ \E a : Answer(r, a)
    BY <1>4 DEF HandleSet, Commit
  <2>3. QED
    BY <2>1, <2>2, RefuseShape, AnswerWorks
<1>5. CASE HandleRemove(r)
  <2>1. Active(r) /\ UNCHANGED page
    BY <1>5 DEF HandleRemove, Commit
  <2>2. Refuse(r) \/ \E a : Answer(r, a)
    BY <1>5 DEF HandleRemove, Commit
  <2>3. QED
    BY <2>1, <2>2, RefuseShape, AnswerWorks
<1>6. CASE HandleClear(r)
  <2>1. Active(r) /\ UNCHANGED page
    BY <1>6 DEF HandleClear, Commit
  <2>2. Refuse(r) \/ \E a : Answer(r, a)
    BY <1>6 DEF HandleClear, Commit
  <2>3. QED
    BY <2>1, <2>2, RefuseShape, AnswerWorks
<1>7. CASE HandleCheckout(r)
  <2>1. Active(r) /\ UNCHANGED page
    BY <1>7 DEF HandleCheckout
  <2>2. Refuse(r) \/ \E a : Answer(r, a)
    BY <1>7 DEF HandleCheckout
  <2>3. QED
    BY <2>1, <2>2, RefuseShape, AnswerWorks
<1>8. CASE HandleAuth(r)
  <2>1. PICK pc \in {"answered", "denied"} : req' = [req EXCEPT ![r].pc = pc]
    BY <1>8 DEF HandleAuth
  <2>2. Active(r) /\ UNCHANGED page /\ Shape(req[r])
    BY <1>8 DEF HandleAuth, Requests
  <2> DEFINE v == [req[r] EXCEPT !.pc = pc]
  <2>3. req' = [req EXCEPT ![r] = v]
    BY <2>1 DEF Requests
  <2>4. Shape(v) /\ SameAsk(v, req[r]) /\ v.pc = pc /\ v.heard = req[r].heard /\ v.lost = req[r].lost
    BY <2>2, AtPc
  <2> HIDE DEF v
  <2>5. QED
    BY <2>1, <2>2, <2>3, <2>4, OneWorks
<1>9. QED
  BY <1>1, <1>2, <1>3, <1>4, <1>5, <1>6, <1>7, <1>8 DEF Served

\* What the page sends, and what becomes of the requests on their way.
LEMMA SendsOrdering ==
  ASSUME Requests, NEW r \in Request, NEW v, Shape(v), req' = [Ordering EXCEPT ![r] = v]
  PROVE  /\ Requests' /\ req'[r] = v
         /\ \A q \in Request \ {r} : /\ Waits(req'[q], req[q]) /\ req'[q].heard = req[q].heard /\ req'[q].old = req[q].old
                                     /\ req[q].kind \in {"checkout", "clear"} => req'[q].lost
<1>1. \A q \in Request : Shape(req[q])
  BY DEF Requests
<1>2. /\ req' = [q \in Request |-> req'[q]] /\ req'[r] = v
      /\ \A q \in Request \ {r} :
            req'[q] = IF req[q].kind \in {"checkout", "clear"} THEN [req[q] EXCEPT !.lost = TRUE] ELSE req[q]
  BY DEF Ordering
<1>3. ASSUME NEW q \in Request \ {r}
      PROVE  /\ Shape(req'[q]) /\ Waits(req'[q], req[q])
             /\ req'[q].heard = req[q].heard /\ req'[q].old = req[q].old
             /\ req[q].kind \in {"checkout", "clear"} => req'[q].lost
  BY <1>1, <1>2, Loses, Stays
<1>4. Requests'
  BY <1>2, <1>3 DEF Requests
<1>5. QED
  BY <1>2, <1>3, <1>4

LEMMA SendsLeaving ==
  ASSUME Requests, NEW r \in Request, NEW v, Shape(v), req' = [Left EXCEPT ![r] = v]
  PROVE  /\ Requests' /\ req'[r] = v
         /\ \A q \in Request \ {r} : /\ Waits(req'[q], req[q]) /\ req'[q].old = req[q].old /\ req'[q].lost = req[q].lost
                                     /\ Active(q) /\ req[q].kind \in CartKinds => ~req'[q].heard
<1>1. \A q \in Request : Shape(req[q])
  BY DEF Requests
<1>2. /\ req' = [q \in Request |-> req'[q]] /\ req'[r] = v
      /\ \A q \in Request \ {r} :
            req'[q] = IF Active(q) /\ req[q].kind \in CartKinds THEN [req[q] EXCEPT !.heard = FALSE] ELSE req[q]
  BY DEF Left, CartKinds
<1>3. ASSUME NEW q \in Request \ {r}
      PROVE  /\ Shape(req'[q]) /\ Waits(req'[q], req[q])
             /\ req'[q].old = req[q].old /\ req'[q].lost = req[q].lost
             /\ Active(q) /\ req[q].kind \in CartKinds => ~req'[q].heard
  BY <1>1, <1>2, Forgotten, Stays
<1>4. Requests'
  BY <1>2, <1>3 DEF Requests
<1>5. QED
  BY <1>2, <1>3, <1>4

LEMMA SendsAnew ==
  ASSUME Requests, NEW r \in Request, NEW v, Shape(v), req' = [Abandoned EXCEPT ![r] = v]
  PROVE  /\ Requests' /\ req'[r] = v
         /\ \A q \in Request \ {r} : /\ Waits(req'[q], req[q]) /\ req'[q].old = req[q].old /\ req'[q].lost = req[q].lost
                                     /\ Active(q) => ~req'[q].heard
<1>1. \A q \in Request : Shape(req[q])
  BY DEF Requests
<1>2. /\ req' = [q \in Request |-> req'[q]] /\ req'[r] = v
      /\ \A q \in Request \ {r} : req'[q] = IF Active(q) THEN [req[q] EXCEPT !.heard = FALSE] ELSE req[q]
  BY DEF Abandoned
<1>3. ASSUME NEW q \in Request \ {r}
      PROVE  /\ Shape(req'[q]) /\ Waits(req'[q], req[q])
             /\ req'[q].old = req[q].old /\ req'[q].lost = req[q].lost
             /\ Active(q) => ~req'[q].heard
  BY <1>1, <1>2, Forgotten, Stays
<1>4. Requests'
  BY <1>2, <1>3 DEF Requests
<1>5. QED
  BY <1>2, <1>3, <1>4

LEMMA AskFields ==
  ASSUME NEW kind
  PROVE  /\ Shape(Ask(kind)) /\ Ask(kind).pc = "sent" /\ Ask(kind).kind = kind /\ Ask(kind).access = access
         /\ Ask(kind).heard /\ Ask(kind).answer = {} /\ ~Ask(kind).old /\ ~Ask(kind).lost /\ Ask(kind).lines = {}
<1>1. Shape(Ask(kind))
  BY AskShape DEF Fresh
<1>2. Ask(kind).lines = {}
  BY IdleShape DEF Ask, Idle, Shape, Fields
<1>3. QED
  BY <1>1, <1>2, AskShape DEF Fresh

\* r sends a request of the kind; the others wait on.
Sent(r, kind) ==
  /\ Requests' /\ ~Active(r) /\ Fresh(req'[r], kind)
  /\ \A q \in Request \ {r} : Waits(req'[q], req[q]) /\ req'[q].old = req[q].old

\* ... as they did.
SentAlone(r, kind) == Sent(r, kind) /\ \A q \in Request \ {r} : req'[q] = req[q]

LEMMA SendsAlone ==
  ASSUME Requests, NEW r \in Request, ~Active(r), NEW kind, NEW v, Fresh(v, kind), req' = [req EXCEPT ![r] = v]
  PROVE  SentAlone(r, kind) /\ req'[r] = v
<1>1. Requests' /\ req'[r] = v /\ \A q \in Request \ {r} : req'[q] = req[q]
  BY Changed DEF Fresh
<1>2. QED
  BY <1>1, Stays DEF SentAlone, Sent

LEMMA AddSent ==
  ASSUME Requests, NEW r \in Request, addToCart(r)
  PROVE  /\ Sent(r, "add") /\ ~req'[r].lost
         /\ \A q \in Request \ {r} :
               req'[q].heard = req[q].heard /\ (req[q].kind \in {"checkout", "clear"} => req'[q].lost)
<1>1. PICK p \in Product : req' = [Ordering EXCEPT ![r] = [Ask("add") EXCEPT !.product = p, !.quantity = 1]]
  BY DEF addToCart
<1> DEFINE v == [Ask("add") EXCEPT !.product = p, !.quantity = 1]
<1>2. ~Active(r) /\ req' = [Ordering EXCEPT ![r] = v] /\ v = [Ask("add") EXCEPT !.product = p, !.quantity = 1]
  BY <1>1 DEF addToCart
<1> HIDE DEF v
<1>3. Fresh(v, "add") /\ ~v.lost
  <2>0. Shape(Ask("add"))
    BY AskFields
  <2>1. Shape(v)
    BY <1>2, <2>0 DEF Shape
  <2>2. QED
    BY <1>2, <2>1, AskFields DEF Fresh, Shape, Fields
<1>4. QED
  <2>1. /\ Requests' /\ req'[r] = v
        /\ \A q \in Request \ {r} : /\ Waits(req'[q], req[q]) /\ req'[q].heard = req[q].heard /\ req'[q].old = req[q].old
                                    /\ req[q].kind \in {"checkout", "clear"} => req'[q].lost
    BY <1>2, <1>3, SendsOrdering DEF Fresh
  <2>2. QED
    BY <1>2, <1>3, <2>1 DEF Sent

LEMMA RemoveSent ==
  ASSUME Requests, NEW r \in Request, NEW l, ~Active(r),
         req' = [req EXCEPT ![r] = IF l.id = None
                                   THEN [Ask("clear") EXCEPT !.lost = TRUE]
                                   ELSE [Ask("remove") EXCEPT !.item = l.id, !.product = l.product]]
  PROVE  \/ SentAlone(r, "clear") /\ req'[r].lost
         \/ SentAlone(r, "remove") /\ l.id # None /\ req'[r].item = l.id /\ req'[r].product = l.product
<1>1. CASE l.id = None
  <2> DEFINE v == [Ask("clear") EXCEPT !.lost = TRUE]
  <2>1. req' = [req EXCEPT ![r] = v] /\ v = [Ask("clear") EXCEPT !.lost = TRUE]
    BY <1>1
  <2> HIDE DEF v
  <2>2. Fresh(v, "clear") /\ v.lost
    <3>0. Shape(Ask("clear"))
      BY AskFields
    <3>1. Shape(v)
      BY <2>1, <3>0 DEF Shape
    <3>2. QED
      BY <2>1, <3>1, AskFields DEF Fresh, Shape, Fields
  <2>3. QED
    BY <2>1, <2>2, SendsAlone
<1>2. CASE l.id # None
  <2> DEFINE v == [Ask("remove") EXCEPT !.item = l.id, !.product = l.product]
  <2>1. req' = [req EXCEPT ![r] = v] /\ v = [Ask("remove") EXCEPT !.item = l.id, !.product = l.product]
    BY <1>2
  <2> HIDE DEF v
  <2>2. Fresh(v, "remove") /\ v.item = l.id /\ v.product = l.product
    <3>0. Shape(Ask("remove"))
      BY AskFields
    <3>1. Shape(v)
      BY <2>1, <3>0 DEF Shape
    <3>2. QED
      BY <2>1, <3>1, AskFields DEF Fresh, Shape, Fields
  <2>3. QED
    BY <1>2, <2>1, <2>2, SendsAlone
<1>3. QED
  BY <1>1, <1>2

LEMMA SubmitSent ==
  ASSUME Requests, NEW r \in Request, handleSubmit(r)
  PROVE  SentAlone(r, "checkout") /\ req'[r].lines = shown /\ req'[r].lost = Unsure
<1> DEFINE v == [Ask("checkout") EXCEPT !.lines = shown, !.lost = Unsure]
<1>1. req' = [req EXCEPT ![r] = v] /\ ~Active(r) /\ v = [Ask("checkout") EXCEPT !.lines = shown, !.lost = Unsure]
  BY DEF handleSubmit
<1> HIDE DEF v
<1>2. Unsure \in BOOLEAN
  BY DEF Unsure
<1>3. Fresh(v, "checkout") /\ v.lines = shown /\ v.lost = Unsure
  <2>0. Shape(Ask("checkout"))
    BY AskFields
  <2>1. Shape(v)
    BY <1>1, <2>0 DEF Shape
  <2>2. QED
    BY <1>1, <1>2, <2>1, AskFields DEF Fresh, Shape, Fields
<1>4. QED
  BY <1>1, <1>3, SendsAlone

LEMMA ContinueSent ==
  ASSUME Requests, NEW r \in Request, handleContinue(r)
  PROVE  SentAlone(r, "clear") /\ req'[r].lines = {} /\ req'[r].lost = Unsure
<1> DEFINE v == [Ask("clear") EXCEPT !.lost = Unsure]
<1>1. req' = [req EXCEPT ![r] = v] /\ ~Active(r) /\ v = [Ask("clear") EXCEPT !.lost = Unsure]
  BY DEF handleContinue
<1> HIDE DEF v
<1>2. Unsure \in BOOLEAN
  BY DEF Unsure
<1>3. Fresh(v, "clear") /\ v.lines = {} /\ v.lost = Unsure
  <2>0. Shape(Ask("clear"))
    BY AskFields
  <2>1. Shape(v)
    BY <1>1, <2>0 DEF Shape
  <2>2. QED
    BY <1>1, <1>2, <2>1, AskFields DEF Fresh, Shape, Fields
<1>4. QED
  BY <1>1, <1>3, SendsAlone

LEMMA QuantitySent ==
  ASSUME Requests, NEW r \in Request, setQuantity(r)
  PROVE  (SentAlone(r, "set") /\ astray' = astray) \/ (req' = req /\ astray')
<1>1. PICK l \in shown : \E n \in {l.quantity - 1, l.quantity + 1} :
        IF l.id = None THEN astray' = TRUE /\ UNCHANGED req
        ELSE req' = [req EXCEPT ![r] = [Ask("set") EXCEPT !.item = l.id, !.quantity = n]] /\ UNCHANGED astray
  BY DEF setQuantity
<1>2. PICK n \in {l.quantity - 1, l.quantity + 1} :
        IF l.id = None THEN astray' = TRUE /\ UNCHANGED req
        ELSE req' = [req EXCEPT ![r] = [Ask("set") EXCEPT !.item = l.id, !.quantity = n]] /\ UNCHANGED astray
  BY <1>1
<1> DEFINE v == [Ask("set") EXCEPT !.item = l.id, !.quantity = n]
<1>3. (req' = req /\ astray') \/ (req' = [req EXCEPT ![r] = v] /\ astray' = astray)
  BY <1>2
<1>4. ~Active(r) /\ v = [Ask("set") EXCEPT !.item = l.id, !.quantity = n]
  BY DEF setQuantity
<1> HIDE DEF v
<1>5. Fresh(v, "set")
  <2>0. Shape(Ask("set"))
    BY AskFields
  <2>1. Shape(v)
    BY <1>4, <2>0 DEF Shape
  <2>2. QED
    BY <1>4, <2>1, AskFields DEF Fresh, Shape, Fields
<1>6. req' = [req EXCEPT ![r] = v] => SentAlone(r, "set")
  BY <1>4, <1>5, SendsAlone
<1>7. QED
  BY <1>3, <1>6, Zenon

\* The page forgets what it was waiting for, and asks for the cart.
LEMMA ReloadSent ==
  ASSUME Requests, NEW r \in Request, Reload(r)
  PROVE  /\ Requests' /\ Fresh(req'[r], "read") /\ ~Active(r)
         /\ at' = "shop" /\ shown' = {} /\ confirmed' = FALSE /\ astray' = FALSE /\ customer' = FALSE
         /\ \A q \in Request \ {r} :
               \/ Waits(req'[q], req[q]) /\ req'[q].old = req[q].old /\ (Active(q) => ~req'[q].heard)
               \/ ~Active(q) /\ Fresh(req'[q], "boot") /\ access # None
<1> DEFINE v == Ask("read")
           b == Ask("boot")
<1>1. Fresh(v, "read") /\ Fresh(b, "boot") /\ ~Active(r)
  BY AskShape DEF Reload
<1>2. CASE access = None
  <2>1. req' = [Abandoned EXCEPT ![r] = v]
    BY <1>2 DEF Reload, Mount
  <2> HIDE DEF v, b
  <2>2. QED
    BY <1>1, <1>2, <2>1, SendsAnew DEF Reload, Mount, Fresh
<1>3. CASE access # None
  <2>1. PICK p \in Request \ {r} : ~Active(p) /\ Mount(r, [Abandoned EXCEPT ![p] = b])
    BY <1>3 DEF Reload
  <2>2. req' = [[Abandoned EXCEPT ![p] = b] EXCEPT ![r] = v]
    BY <2>1 DEF Mount
  <2> HIDE DEF v, b
  <2>3. /\ req' = [q \in Request |-> req'[q]] /\ req'[r] = v /\ req'[p] = b
        /\ \A q \in Request \ {r, p} : req'[q] = IF Active(q) THEN [req[q] EXCEPT !.heard = FALSE] ELSE req[q]
    BY <2>1, <2>2 DEF Abandoned
  <2>4. \A q \in Request : Shape(req[q])
    BY DEF Requests
  <2>5. ASSUME NEW q \in Request \ {r, p}
        PROVE  Shape(req'[q]) /\ Waits(req'[q], req[q]) /\ req'[q].old = req[q].old /\ (Active(q) => ~req'[q].heard)
    <3>1. CASE Active(q)
      BY <2>3, <2>4, <3>1, Forgotten
    <3>2. CASE ~Active(q)
      BY <2>3, <2>4, <3>2, Stays
    <3>3. QED
      BY <3>1, <3>2
  <2>6. Requests'
    BY <1>1, <2>3, <2>5 DEF Requests, Fresh
  <2>7. QED
    BY <1>1, <1>3, <2>1, <2>3, <2>5, <2>6 DEF Reload, Mount
<1>4. QED
  BY <1>2, <1>3

\* It leaves the shop, for the form or the account.
LEMMA LeaveSent ==
  ASSUME Requests, NEW r \in Request, NEW kind, ~Active(r), req' = [Left EXCEPT ![r] = Ask(kind)]
  PROVE  /\ Sent(r, kind)
         /\ \A q \in Request \ {r} : Active(q) /\ req[q].kind \in CartKinds => ~req'[q].heard
<1> DEFINE v == Ask(kind)
<1>1. Fresh(v, kind) /\ req' = [Left EXCEPT ![r] = v]
  BY AskShape
<1> HIDE DEF v
<1>2. QED
  BY <1>1, SendsLeaving DEF Sent, Fresh

\* r is over, or turns into a request of another kind.
Ended(r) == Requests' /\ req'[r].pc = "idle" /\ req'[r].answer = {} /\ \A q \in Request \ {r} : req'[q] = req[q]

Turned(r, kind) ==
  /\ Requests' /\ req'[r].pc = "sent" /\ req'[r].kind = kind /\ req'[r].heard /\ req'[r].answer = {}
  /\ \A q \in Request \ {r} : req'[q] = req[q]

LEMMA Ends ==
  ASSUME Requests, NEW r \in Request, req' = [req EXCEPT ![r] = Idle]
  PROVE  Ended(r)
  <1>1. Idle.answer = {}
  BY DEF Idle
<1>2. QED
  BY <1>1, IdleShape, Changed DEF Ended

LEMMA Turns ==
  ASSUME Requests, NEW r \in Request
  PROVE  /\ \A kind : req' = [req EXCEPT ![r] = Ask(kind)] => Turned(r, kind) /\ req'[r].access = access
         /\ KeepTokens(r) => Turned(r, "who")
         /\ LoginDenied(r) => Turned(r, "login")
<1>1. ASSUME NEW kind, req' = [req EXCEPT ![r] = Ask(kind)]
      PROVE  Turned(r, kind) /\ req'[r].access = access
  <2> DEFINE v == Ask(kind)
  <2>1. Fresh(v, kind) /\ req' = [req EXCEPT ![r] = v]
    BY <1>1, AskShape
  <2> HIDE DEF v
  <2>2. QED
    BY <2>1, Changed DEF Turned, Fresh
<1>2. ASSUME KeepTokens(r) PROVE Turned(r, "who")
  <2> DEFINE v == [Idle EXCEPT !.pc = "sent", !.kind = "who", !.access = "good"]
  <2>1. Shape(v)
    BY IdleShape DEF Shape
  <2>2. v.pc = "sent" /\ v.kind = "who" /\ v.heard /\ v.answer = {}
    BY IdleShape, <2>1 DEF Idle, Shape, Fields
  <2>3. req' = [req EXCEPT ![r] = v]
    BY <1>2 DEF KeepTokens
  <2> HIDE DEF v
  <2>4. QED
    BY <2>1, <2>2, <2>3, Changed DEF Turned
<1>3. ASSUME LoginDenied(r) PROVE Turned(r, "login")
  <2> DEFINE w == Ask("login")
             v == [w EXCEPT !.access = None]
  <2>1. Fresh(w, "login")
    BY AskShape
  <2>2. req' = [req EXCEPT ![r] = v]
    BY <1>3 DEF LoginDenied
  <2> HIDE DEF w
  <2>3. Shape(v)
    BY <2>1 DEF Fresh, Shape
  <2>4. v.pc = "sent" /\ v.kind = "login" /\ v.heard /\ v.answer = {}
    BY <2>1 DEF Fresh, Shape, Fields
  <2> HIDE DEF v
  <2>5. QED
    BY <2>2, <2>3, <2>4, Changed DEF Turned
<1>4. QED
  BY <1>1, <1>2, <1>3

---------------------------------------------------------------------------
(* Who the shopper is *)

Heard(r) == Active(r) /\ req[r].heard

\* The cart is asked for in the shop only, and a form is being answered where it is.
Placed(r) ==
  Heard(r) => /\ req[r].kind \in CartKinds => at = "shop"
              /\ req[r].kind \in {"login", "who"} => at = "login"

OneForm ==
  \A q, r \in Request :
     Heard(q) /\ Heard(r) /\ req[q].kind \in {"login", "who"} /\ req[r].kind \in {"login", "who"} => q = r

\* What will show a customer was asked with tokens that are still held.
Holds(r) == Heard(r) /\ req[r].kind \in {"who", "boot", "save"} /\ ~refused => access # None

IdInv ==
  /\ Requests
  /\ confirmed => at = "shop"
  /\ \A r \in Request : Placed(r) /\ Holds(r)
  /\ OneForm
  /\ SignedInHoldsTokens

\* The page has waited for q before.
Was(q) == Heard(q)' => Heard(q) /\ req'[q].kind = req[q].kind

LEMMA WaitsWas ==
  ASSUME NEW q \in Request
  PROVE  /\ Waits(req'[q], req[q]) => Was(q)
         /\ Worked(q) => Was(q)
         /\ req'[q] = req[q] => Was(q)
         /\ req'[q].pc = "idle" => Was(q)
         /\ ~req'[q].heard => Was(q)
  BY DEF Waits, Worked, SameAsk, Was, Heard, Active

\* A step that is of no consequence to who the shopper is.
LEMMA IdKept ==
  ASSUME IdInv, Requests', \A q \in Request : Was(q), at' = at, confirmed' => confirmed \/ at = "shop",
         customer' => customer \/ access # None \/ refused,
         access' # None \/ refused' \/ (access' = access /\ ~customer') \/ access' = access,
         refused => refused'
  PROVE  IdInv'
<1>1. \A q \in Request : Placed(q)'
  BY DEF IdInv, Placed, Was, Heard
<1>2. \A q \in Request : Holds(q)'
  BY DEF IdInv, Holds, Was, Heard
<1>3. OneForm'
  BY DEF IdInv, OneForm, Was, Heard
<1>4. SignedInHoldsTokens'
  BY DEF IdInv, SignedInHoldsTokens
<1>5. QED
  BY <1>1, <1>2, <1>3, <1>4 DEF IdInv

\* r is a request that the page sends from where it is.
LEMMA IdSent ==
  ASSUME IdInv, Requests', NEW r \in Request, \A q \in Request \ {r} : Was(q),
         req'[r].kind \in CartKinds => at = "shop",
         req'[r].kind \in {"login", "who"} => Heard(r) /\ req[r].kind \in {"login", "who"},
         req'[r].kind \in {"who", "boot", "save"} => access' # None \/ refused',
         at' = at, confirmed' => confirmed, customer' => customer,
         access' # None \/ access' = access, refused' = refused
  PROVE  IdInv'
<1>1. \A q \in Request : Placed(q)'
  BY DEF IdInv, Placed, Was, Heard
<1>2. \A q \in Request : Holds(q)'
  BY DEF IdInv, Holds, Was, Heard
<1>3. OneForm'
  BY DEF IdInv, OneForm, Was, Heard
<1>4. SignedInHoldsTokens'
  BY DEF IdInv, SignedInHoldsTokens
<1>5. QED
  BY <1>1, <1>2, <1>3, <1>4 DEF IdInv

\* The page is mounted: the form, if there was one, is answered.
LEMMA IdMounted ==
  ASSUME IdInv, Requests', NEW r \in Request, req'[r].kind = "read",
         \A q \in Request \ {r} : Was(q) \/ (req'[q].kind = "boot" /\ access # None),
         \A q \in Request \ {r} : ~(Heard(q)' /\ req'[q].kind \in {"login", "who"}),
         at' = "shop", confirmed' = FALSE, customer' => customer \/ access # None \/ refused,
         access' = access, refused' = refused
  PROVE  IdInv'
<1>1. \A q \in Request : Placed(q)'
  BY DEF IdInv, Placed, Was, Heard, CartKinds
<1>2. \A q \in Request : Holds(q)'
  BY DEF IdInv, Holds, Was, Heard
<1>3. OneForm'
  BY DEF IdInv, OneForm, Was, Heard
<1>4. SignedInHoldsTokens'
  BY DEF IdInv, SignedInHoldsTokens
<1>5. QED
  BY <1>1, <1>2, <1>3, <1>4 DEF IdInv

\* It is left.
LEMMA IdLeft ==
  ASSUME IdInv, Requests', NEW r \in Request, \A q \in Request \ {r} : Was(q),
         \A q \in Request \ {r} : req[q].kind \in CartKinds => ~Heard(q)',
         at = "shop", ~confirmed, confirmed' = confirmed, customer' = customer, access' = access, refused' = refused,
         \/ at' = "login" /\ req'[r].kind = "login"
         \/ at' = "account" /\ req'[r].kind = "orders"
  PROVE  IdInv'
<1>1. \A q \in Request : Placed(q)'
  BY DEF IdInv, Placed, Was, Heard, CartKinds
<1>2. \A q \in Request : Holds(q)'
  BY DEF IdInv, Holds, Was, Heard
<1>3. OneForm'
  BY DEF IdInv, OneForm, Placed, Was, Heard
<1>4. SignedInHoldsTokens'
  BY DEF IdInv, SignedInHoldsTokens
<1>5. QED
  BY <1>1, <1>2, <1>3, <1>4 DEF IdInv

LEMMA IdInit ==
  ASSUME Init
  PROVE  IdInv
<1>1. PICK r \in Request : req = [q \in Request |-> IF q = r THEN Ask("read") ELSE Idle]
  BY DEF Init
<1>2. Shape(Idle) /\ Idle.pc = "idle" /\ Shape(Ask("read")) /\ Ask("read").kind = "read"
  BY IdleShape, AskFields
<1> DEFINE v == Ask("read")
<1>3. req = [q \in Request |-> IF q = r THEN v ELSE Idle] /\ Shape(v) /\ v.kind = "read"
  BY <1>1, <1>2
<1> HIDE DEF v
<1>4. /\ req = [q \in Request |-> req[q]] /\ req[r] = v /\ \A q \in Request \ {r} : req[q] = Idle
  BY <1>3
<1>5. Requests
  BY <1>2, <1>3, <1>4 DEF Requests
<1>6. \A q \in Request : Placed(q) /\ Holds(q)
  BY <1>2, <1>3, <1>4 DEF Init, Placed, Holds, Heard, Active
<1>7. OneForm
  BY <1>2, <1>4 DEF OneForm, Heard, Active
<1>8. QED
  BY <1>5, <1>6, <1>7 DEF Init, IdInv, SignedInHoldsTokens

LEMMA IdServed ==
  ASSUME IdInv, NEW r \in Request, Served(r)
  PROVE  IdInv'
<1>1. Requests' /\ (\A q \in Request : Worked(q)) /\ UNCHANGED page
  BY ServedWorks DEF IdInv
<1>2. refused' = refused
  BY DEF Served, HandleRead, FindItem, WriteItem, HandleSet, HandleRemove, HandleClear, HandleCheckout, HandleAuth, hist
<1>3. QED
  BY <1>1, <1>2, WaitsWas, IdKept DEF page

LEMMA IdPage ==
  ASSUME IdInv, NEW r \in Request,
         addToCart(r) \/ removeFromCart(r) \/ setQuantity(r) \/ handleSubmit(r) \/ handleContinue(r)
  PROVE  IdInv'
<1> USE DEF CartKinds
<1>1. Requests /\ (confirmed => at = "shop")
  BY DEF IdInv
<1>2. CASE addToCart(r)
  <2>1. Sent(r, "add") /\ UNCHANGED <<at, confirmed, access, customer, refused>> /\ at = "shop"
    BY <1>1, <1>2, AddSent DEF addToCart, hist
  <2>2. QED
    BY <2>1, WaitsWas, IdSent DEF Sent, Fresh
<1>3. CASE removeFromCart(r)
  <2>1. UNCHANGED <<at, confirmed, access, customer, refused>> /\ at = "shop" /\ ~Active(r)
    BY <1>3 DEF removeFromCart
  <2>2. PICK l \in shown : req' = [req EXCEPT ![r] = IF l.id = None
                                                    THEN [Ask("clear") EXCEPT !.lost = TRUE]
                                                    ELSE [Ask("remove") EXCEPT !.item = l.id, !.product = l.product]]
    BY <1>3 DEF removeFromCart
  <2>3. SentAlone(r, "clear") \/ SentAlone(r, "remove")
    BY <1>1, <2>1, <2>2, RemoveSent
  <2>4. QED
    BY <2>1, <2>3, WaitsWas, IdSent DEF SentAlone, Sent, Fresh
<1>4. CASE setQuantity(r)
  <2>1. UNCHANGED <<at, confirmed, access, customer, refused>> /\ at = "shop"
    BY <1>4 DEF setQuantity
  <2>2. SentAlone(r, "set") \/ req' = req
    BY <1>1, <1>4, QuantitySent
  <2>3. CASE SentAlone(r, "set")
    BY <2>1, <2>3, WaitsWas, IdSent DEF SentAlone, Sent, Fresh
  <2>4. CASE req' = req
    <3>1. Requests' /\ \A q \in Request : Was(q)
      BY <1>1, <2>4, WaitsWas DEF Requests
    <3>2. QED
      BY <2>1, <3>1, IdKept
  <2>5. QED
    BY <2>2, <2>3, <2>4
<1>5. CASE handleSubmit(r)
  <2>1. UNCHANGED <<at, confirmed, access, customer, refused>> /\ at = "shop"
    BY <1>5 DEF handleSubmit, page
  <2>2. QED
    BY <1>1, <1>5, <2>1, SubmitSent, WaitsWas, IdSent DEF SentAlone, Sent, Fresh
<1>6. CASE handleContinue(r)
  <2>1. UNCHANGED <<at, access, customer, refused>> /\ confirmed /\ ~confirmed'
    BY <1>6 DEF handleContinue
  <2>2. QED
    BY <1>1, <1>6, <2>1, ContinueSent, WaitsWas, IdSent DEF SentAlone, Sent, Fresh
<1>7. QED
  BY <1>2, <1>3, <1>4, <1>5, <1>6

LEMMA IdMoves ==
  ASSUME IdInv, NEW r \in Request,
         Reload(r) \/ OpenLogin(r) \/ SignIn(r) \/ OpenAccount(r) \/ BackToStore(r)
  PROVE  IdInv'
<1>1. Requests
  BY DEF IdInv
<1>2. CASE Reload(r)
  <2>1. UNCHANGED <<access, refused>>
    BY <1>2 DEF Reload
  <2>2. ASSUME NEW q \in Request \ {r}
        PROVE  (Was(q) \/ (req'[q].kind = "boot" /\ access # None)) /\ ~(Heard(q)' /\ req'[q].kind \in {"login", "who"})
    <3>1. CASE Waits(req'[q], req[q]) /\ (Active(q) => ~req'[q].heard)
      BY <3>1 DEF Waits, Was, Heard, Active
    <3>2. CASE Fresh(req'[q], "boot") /\ access # None
      BY <3>2 DEF Fresh
    <3>3. QED
      BY <1>1, <1>2, <3>1, <3>2, ReloadSent
  <2>3. QED
    BY <1>1, <1>2, <2>1, <2>2, ReloadSent, IdMounted DEF Fresh
<1>3. CASE OpenLogin(r)
  <2>1. /\ UNCHANGED <<confirmed, access, customer, refused>> /\ at = "shop" /\ ~confirmed /\ at' = "login"
        /\ req' = [Left EXCEPT ![r] = Ask("login")] /\ ~Active(r)
    BY <1>3 DEF OpenLogin, hist
  <2>2. Sent(r, "login") /\ \A q \in Request \ {r} : Active(q) /\ req[q].kind \in CartKinds => ~req'[q].heard
    BY <1>1, <2>1, LeaveSent
  <2>3. \A q \in Request \ {r} : Was(q) /\ (req[q].kind \in CartKinds => ~Heard(q)')
    BY <2>2, WaitsWas DEF Sent, Waits, Heard, Active
  <2>4. QED
    BY <2>1, <2>2, <2>3, IdLeft DEF Sent, Fresh
<1>4. CASE SignIn(r)
  <2>1. /\ UNCHANGED <<access, refused>> /\ at' = "shop" /\ confirmed' = FALSE /\ req' = [req EXCEPT ![r] = Ask("read")]
        /\ Heard(r) /\ req[r].kind = "who"
    BY <1>4 DEF SignIn, Mount, Heard, Active
  <2>2. Turned(r, "read")
    BY <1>1, <2>1, Turns
  <2>3. \A q \in Request \ {r} : Was(q) /\ ~(Heard(q)' /\ req'[q].kind \in {"login", "who"})
    BY <2>1, <2>2, WaitsWas DEF IdInv, OneForm, Turned, Was
  <2>4. access # None \/ refused
    BY <2>1 DEF IdInv, Holds
  <2>5. QED
    BY <2>1, <2>2, <2>3, <2>4, IdMounted DEF Turned
<1>5. CASE OpenAccount(r)
  <2>1. /\ UNCHANGED <<confirmed, access, customer, refused>> /\ at = "shop" /\ ~confirmed /\ at' = "account"
        /\ req' = [Left EXCEPT ![r] = Ask("orders")] /\ ~Active(r)
    BY <1>5 DEF OpenAccount, hist
  <2>2. Sent(r, "orders") /\ \A q \in Request \ {r} : Active(q) /\ req[q].kind \in CartKinds => ~req'[q].heard
    BY <1>1, <2>1, LeaveSent
  <2>3. \A q \in Request \ {r} : Was(q) /\ (req[q].kind \in CartKinds => ~Heard(q)')
    BY <2>2, WaitsWas DEF Sent, Waits, Heard, Active
  <2>4. QED
    BY <2>1, <2>2, <2>3, IdLeft DEF Sent, Fresh
<1>6. CASE BackToStore(r)
  <2>1. /\ UNCHANGED <<access, customer, refused>> /\ at = "account" /\ at' = "shop" /\ confirmed' = FALSE
        /\ req' = [req EXCEPT ![r] = Ask("read")]
    BY <1>6 DEF BackToStore, Mount
  <2>2. Turned(r, "read")
    BY <1>1, <2>1, Turns
  <2>3. \A q \in Request \ {r} : Was(q) /\ ~(Heard(q)' /\ req'[q].kind \in {"login", "who"})
    BY <2>1, <2>2, WaitsWas DEF IdInv, Placed, Turned, Was
  <2>4. QED
    BY <2>1, <2>2, <2>3, IdMounted DEF Turned
<1>7. QED
  BY <1>2, <1>3, <1>4, <1>5, <1>6

LEMMA IdSession ==
  ASSUME IdInv, NEW r \in Request,
         KeepTokens(r) \/ LoginFails(r) \/ LoginDenied(r) \/ logout(r) \/ SignOut(r) \/ handleSaveProfile(r)
  PROVE  IdInv'
<1> USE DEF CartKinds
<1>1. Requests
  BY DEF IdInv
<1>2. CASE KeepTokens(r)
  <2>1. /\ UNCHANGED <<at, confirmed, customer, refused>> /\ access' = "good" /\ access' # None
        /\ Heard(r) /\ req[r].kind = "login"
    BY <1>2, StorefrontAssumption DEF KeepTokens, hist, Heard, Active
  <2>2. Turned(r, "who")
    BY <1>1, <1>2, Turns
  <2>3. QED
    BY <2>1, <2>2, WaitsWas, IdSent DEF Turned
<1>3. CASE LoginFails(r)
  <2>1. /\ UNCHANGED <<at, confirmed, access, customer, refused>> /\ req' = [req EXCEPT ![r] = Ask("login")]
        /\ Heard(r) /\ req[r].kind \in {"login", "who"}
    BY <1>3 DEF LoginFails, page, hist, Heard, Active
  <2>2. Turned(r, "login")
    BY <1>1, <2>1, Turns
  <2>3. QED
    BY <2>1, <2>2, WaitsWas, IdSent DEF Turned
<1>4. CASE LoginDenied(r)
  <2>1. /\ UNCHANGED <<at, confirmed, customer>> /\ refused'
        /\ Heard(r) /\ req[r].kind = "login"
    BY <1>4 DEF LoginDenied, Heard, Active
  <2>2. Turned(r, "login")
    BY <1>1, <1>4, Turns
  <2>3. Requests' /\ \A q \in Request : Was(q)
    BY <2>1, <2>2, WaitsWas DEF Turned, Was
  <2>4. QED
    BY <2>1, <2>3, IdKept
<1>5. CASE logout(r)
  <2>1. UNCHANGED <<at, confirmed, access, refused>>
    BY <1>5 DEF logout, hist
  <2>2. CASE access = None
    <3>1. customer' = FALSE /\ req' = req
      BY <1>5, <2>2 DEF logout
    <3>2. Requests' /\ \A q \in Request : Was(q)
      BY <1>1, <3>1, WaitsWas DEF Requests
    <3>3. QED
      BY <2>1, <3>1, <3>2, IdKept
  <2>3. CASE access # None
    <3>1. req' = [req EXCEPT ![r] = Ask("logout")] /\ customer' = customer
      BY <1>5, <2>3 DEF logout
    <3>2. Turned(r, "logout")
      BY <1>1, <3>1, Turns
    <3>3. QED
      BY <2>1, <3>1, <3>2, WaitsWas, IdSent DEF Turned
  <2>4. QED
    BY <2>2, <2>3
<1>6. CASE SignOut(r)
  <2>1. /\ UNCHANGED <<at, confirmed>> /\ access' = None /\ customer' = FALSE /\ refused' = (refused \/ Signing(r))
        /\ req' = [req EXCEPT ![r] = Idle]
    BY <1>6 DEF SignOut
  <2>2. Ended(r)
    BY <1>1, <2>1, Ends
  <2>3. \A q \in Request : Was(q)
    BY <2>2, WaitsWas DEF Ended
  <2>4. \A q \in Request : Placed(q)'
    BY <2>1, <2>3 DEF IdInv, Placed, Was, Heard
  <2>5. ASSUME NEW q \in Request, Heard(q)', req'[q].kind \in {"who", "boot", "save"}
        PROVE  refused'
    <3>1. q # r /\ req'[q] = req[q]
      BY <2>2, <2>5 DEF Ended, Heard, Active
    <3>2. Signing(r)
      BY <2>5, <3>1 DEF Signing, Heard, Active
    <3>3. QED
      BY <2>1, <3>2
  <2>6. \A q \in Request : Holds(q)'
    BY <2>5 DEF Holds
  <2>7. OneForm'
    BY <2>3 DEF IdInv, OneForm, Was, Heard
  <2>8. QED
    BY <2>1, <2>2, <2>4, <2>6, <2>7 DEF IdInv, Ended, SignedInHoldsTokens
<1>7. CASE handleSaveProfile(r)
  <2>1. /\ UNCHANGED <<at, confirmed, access, customer, refused>> /\ req' = [req EXCEPT ![r] = Ask("save")] /\ customer
    BY <1>7 DEF handleSaveProfile, page, hist
  <2>2. Turned(r, "save")
    BY <1>1, <2>1, Turns
  <2>3. access # None \/ refused
    BY <2>1 DEF IdInv, SignedInHoldsTokens
  <2>4. QED
    BY <2>1, <2>2, <2>3, WaitsWas, IdSent DEF Turned
<1>8. QED
  BY <1>2, <1>3, <1>4, <1>5, <1>6, <1>7

\* The answers that end a request.
Over(r) ==
  ShowCustomer(r) \/ Denied(r) \/ ShowCart(r) \/ syncFromServer(r) \/ ShowOrder(r) \/ KeepShown(r) \/ Unheard(r)

LEMMA OverEnds ==
  ASSUME Requests, NEW r \in Request, Over(r) \/ SignOut(r)
  PROVE  Ended(r) /\ Active(r) /\ UNCHANGED <<items, customerCart, at, doubled>>
<1>1. req' = [req EXCEPT ![r] = Idle]
  BY DEF Over, ShowCustomer, Denied, ShowCart, syncFromServer, ShowOrder, KeepShown, Unheard, SignOut
<1>2. Active(r)
  BY DEF Over, ShowCustomer, Denied, ShowCart, syncFromServer, ShowOrder, KeepShown, Unheard, SignOut, Active
<1>3. UNCHANGED <<items, customerCart, at, doubled>>
  BY DEF Over, ShowCustomer, Denied, ShowCart, syncFromServer, ShowOrder, KeepShown, Unheard, SignOut, page, hist
<1>4. QED
  BY <1>1, <1>2, <1>3, Ends

LEMMA IdOver ==
  ASSUME IdInv, NEW r \in Request, Over(r)
  PROVE  IdInv'
<1>1. Ended(r) /\ at' = at
  BY OverEnds DEF IdInv
<1>2. \A q \in Request : Was(q)
  BY <1>1, WaitsWas DEF Ended
<1>3. CASE ShowCustomer(r)
  <2>1. /\ UNCHANGED <<confirmed, access, refused>> /\ Heard(r) /\ req[r].kind \in {"boot", "orders", "save"}
        /\ customer' => customer \/ req[r].kind # "orders"
    BY <1>3 DEF ShowCustomer, hist, Heard, Active
  <2>2. customer' => customer \/ access # None \/ refused
    BY <2>1 DEF IdInv, Holds
  <2>3. QED
    BY <1>1, <1>2, <2>1, <2>2, IdKept DEF Ended
<1>4. CASE Denied(r)
  <2>1. UNCHANGED <<confirmed, customer>> /\ refused'
    BY <1>4 DEF Denied
  <2>2. QED
    BY <1>1, <1>2, <2>1, IdKept DEF Ended
<1>5. CASE ShowOrder(r)
  <2>1. UNCHANGED <<access, customer, refused>> /\ Heard(r) /\ req[r].kind = "checkout"
    BY <1>5 DEF ShowOrder, hist, Heard, Active
  <2>2. at = "shop"
    BY <2>1 DEF IdInv, Placed, CartKinds
  <2>3. QED
    BY <1>1, <1>2, <2>1, <2>2, IdKept DEF Ended
<1>6. CASE ShowCart(r) \/ syncFromServer(r) \/ KeepShown(r) \/ Unheard(r)
  <2>1. UNCHANGED <<confirmed, access, customer, refused>>
    BY <1>6 DEF ShowCart, syncFromServer, KeepShown, Unheard, page, hist
  <2>2. QED
    BY <1>1, <1>2, <2>1, IdKept DEF Ended
<1>7. QED
  BY <1>3, <1>4, <1>5, <1>6 DEF Over

LEMMA IdNext ==
  ASSUME IdInv, [Next]_vars
  PROVE  IdInv'
<1>1. CASE Expire
  <2>1. UNCHANGED <<at, confirmed, customer, req, refused>> /\ access' # None
    BY <1>1, StorefrontAssumption DEF Expire
  <2>2. Requests' /\ \A q \in Request : Was(q)
    BY <2>1, WaitsWas DEF IdInv, Requests
  <2>3. QED
    BY <2>1, <2>2, IdKept
<1>2. CASE UNCHANGED vars
  <2>1. UNCHANGED <<at, confirmed, customer, access, req, refused>>
    BY <1>2 DEF vars
  <2>2. QED
    BY <2>1 DEF IdInv, Requests, Placed, Holds, OneForm, Heard, Active, SignedInHoldsTokens
<1>3. ASSUME NEW r \in Request, Served(r) \/ Over(r) PROVE IdInv'
  BY <1>3, IdServed, IdOver
<1>4. ASSUME NEW r \in Request,
             addToCart(r) \/ removeFromCart(r) \/ setQuantity(r) \/ handleSubmit(r) \/ handleContinue(r)
      PROVE  IdInv'
  BY <1>4, IdPage
<1>5. ASSUME NEW r \in Request, Reload(r) \/ OpenLogin(r) \/ SignIn(r) \/ OpenAccount(r) \/ BackToStore(r)
      PROVE  IdInv'
  BY <1>5, IdMoves
<1>6. ASSUME NEW r \in Request, KeepTokens(r) \/ LoginFails(r) \/ LoginDenied(r) \/ logout(r) \/ SignOut(r) \/ handleSaveProfile(r)
      PROVE  IdInv'
  BY <1>6, IdSession
<1>7. QED
  BY <1>1, <1>2, <1>3, <1>4, <1>5, <1>6 DEF Next, Served, Over

\* A shopper who is shown as signed in holds tokens, until a refusal, a bootstrap
\* that fails or a logout amid a sign-in has taken them, however many requests are
\* in flight (customer-auth.tsx).
THEOREM TokensAreHeld == Spec => []SignedInHoldsTokens
<1>1. Init => IdInv
  BY IdInit
<1>2. IdInv /\ [Next]_vars => IdInv'
  BY IdNext
<1>3. IdInv => SignedInHoldsTokens
  BY DEF IdInv
<1>4. QED
  BY <1>1, <1>2, <1>3, PTL DEF Spec

---------------------------------------------------------------------------
(* The rows of the carts *)

RowFields == {"cart", "product", "quantity"}

Table(its) == its = [i \in Item |-> its[i]] /\ \A i \in Item : its[i] = [f \in RowFields |-> its[i][f]]

Carts == {"guest", "customer"}

\* The rows that the API finds in the cart once it has settled whose cart it serves.
Part(c) ==
  {i \in Item : items[i].cart = c \/ (c = "customer" /\ ~customerCart /\ items[i].cart = "guest")}

TableOK ==
  /\ Table(items) /\ customerCart \in BOOLEAN
  /\ ~customerCart => \A i \in Item : items[i].cart # "customer"

LEMMA MergeRows ==
  ASSUME Table(items)
  PROVE  /\ Table(Merge(items))
         /\ \A i \in Item : IF items[i].cart = "guest" THEN Merge(items)[i].cart = "gone"
                            ELSE /\ Merge(items)[i].cart = items[i].cart
                                 /\ Merge(items)[i].product = items[i].product
<1> DEFINE sum(i) == Lesser(MAX_QUANTITY, items[i].quantity + MapThenSumSet(LAMBDA g : items[g].quantity, Of(items, "guest", items[i].product)))
           w(i) == IF items[i].cart = "guest" THEN Gone
                   ELSE IF items[i].cart = "customer" /\ Of(items, "guest", items[i].product) # {}
                   THEN [items[i] EXCEPT !.quantity = sum(i)]
                   ELSE items[i]
<1>1. Merge(items) = [i \in Item |-> w(i)]
  BY Zenon DEF Merge
<1> HIDE DEF sum
<1>2. ASSUME NEW i \in Item
      PROVE  /\ w(i) = [f \in RowFields |-> w(i)[f]]
             /\ IF items[i].cart = "guest" THEN w(i).cart = "gone"
                ELSE w(i).cart = items[i].cart /\ w(i).product = items[i].product
  BY DEF Table, RowFields, Gone
<1> HIDE DEF w
<1>3. QED
  BY <1>1, <1>2 DEF Table

\* What is in the settled cart, row by row.
LEMMA SettledRows ==
  ASSUME TableOK, NEW c \in Carts, NEW its, its = Settled(items, c)
  PROVE  /\ Table(its)
         /\ \A i \in Item : (i \in Part(c) <=> its[i].cart = c) /\ (its[i].cart # "gone" => its[i].product = items[i].product)
         /\ \A i \in Item : (items[i].cart \notin Carts \/ its[i].cart = "gone" \/ i \in Part(c) \/ its[i].cart = items[i].cart)
         /\ \A i \in Item : items[i].cart \notin Carts => its[i].cart = items[i].cart
         /\ c = "customer" => \A i \in Item : its[i].cart # "guest"
         /\ c = "guest" => its = items
<1>1. CASE c = "guest"
  BY <1>1 DEF TableOK, Settled, Part, Carts
<1>2. CASE c = "customer" /\ customerCart
  <2>1. its = Merge(items)
    BY <1>2 DEF Settled
  <2>2. QED
    BY <1>2, <2>1, MergeRows DEF TableOK, Part, Carts
<1>3. CASE c = "customer" /\ ~customerCart
  <2>1. its = [i \in Item |-> IF items[i].cart = "guest" THEN [items[i] EXCEPT !.cart = "customer"] ELSE items[i]]
    BY <1>3 DEF Settled
  <2>2. ASSUME NEW i \in Item
        PROVE  /\ its[i] = [f \in RowFields |-> its[i][f]] /\ its[i].product = items[i].product
               /\ its[i].cart = IF items[i].cart = "guest" THEN "customer" ELSE items[i].cart
    BY <2>1 DEF TableOK, Table, RowFields
  <2>3. Table(its)
    BY <2>1, <2>2 DEF Table
  <2>4. QED
    BY <1>3, <2>2, <2>3 DEF TableOK, Part, Carts
<1>4. QED
  BY <1>1, <1>2, <1>3 DEF Carts

LEMMA CartOf == \A r \in Request : Cart(r) \in Carts
  BY DEF Cart, Carts

\* The rows of S go, and none comes or becomes another product's.
Trims(its, S) ==
  /\ Table(items')
  /\ \A i \in Item : IF i \in S THEN items'[i].cart = "gone"
                     ELSE items'[i].cart = its[i].cart /\ items'[i].product = its[i].product

\* Row i comes.
Inserts(its, i, c, p) ==
  /\ Table(items') /\ items[i].cart = None
  /\ items'[i].cart = c /\ items'[i].product = p
  /\ \A j \in Item \ {i} : items'[j] = its[j]

LEMMA RowGoes ==
  ASSUME NEW its, Table(its)
  PROVE  /\ \A S : items' = [i \in Item |-> IF i \in S THEN Gone ELSE its[i]] => Trims(its, S)
         /\ \A k, n : items' = [its EXCEPT ![k].quantity = n] => Trims(its, {})
<1>1. ASSUME NEW S, items' = [i \in Item |-> IF i \in S THEN Gone ELSE its[i]]
      PROVE  Trims(its, S)
  BY <1>1 DEF Trims, Table, RowFields, Gone
<1>2. ASSUME NEW k, NEW n, items' = [its EXCEPT ![k].quantity = n]
      PROVE  Trims(its, {})
  <2>1. Table(items')
    BY <1>2 DEF Table
  <2>2. ASSUME NEW i \in Item PROVE items'[i].cart = its[i].cart /\ items'[i].product = its[i].product
    BY <1>2 DEF Table, RowFields
  <2>3. QED
    BY <2>1, <2>2 DEF Trims
<1>3. QED
  BY <1>1, <1>2

---------------------------------------------------------------------------
(* One row for a product *)

\* No two rows of what a cart is served are of one product.
Single ==
  \A c \in Carts : \A i, j \in Part(c) :
     items[i].product = items[j].product /\ items[i].product \notin doubled => i = j

\* A request that has found no row of its product: there still is none.
Looked(r) ==
  req[r].pc = "found" /\ req[r].found = None /\ req[r].product \notin doubled
    => \A i \in Part(Cart(r)) : items[i].product # req[r].product

\* It is the only one that has looked for it.
Apart(q, r) ==
  q # r /\ req[q].pc = "found" /\ req[r].pc = "found" /\ req[q].product = req[r].product => req[r].product \in doubled

\* Only an addition looks for a row.
Adding(r) == req[r].pc = "found" => req[r].kind = "add"

RowInv ==
  /\ Requests /\ TableOK /\ Single
  /\ \A r \in Request : Adding(r)
  /\ \A r \in Request : Looked(r)
  /\ \A q, r \in Request : Apart(q, r)

\* No row comes to a cart.
Shrinks ==
  /\ TableOK'
  /\ \A d \in Carts : \A i \in Part(d)' : i \in Part(d) /\ items'[i].product = items[i].product

\* Looking is nothing new.
Looking(q) ==
  req'[q].pc = "found" => req[q].pc = "found" /\ SameAsk(req'[q], req[q]) /\ req'[q].found = req[q].found

LEMMA WaitsLooking ==
  ASSUME NEW q \in Request
  PROVE  /\ Waits(req'[q], req[q]) => Looking(q)
         /\ req'[q] = req[q] => Looking(q)
         /\ req'[q].pc # "found" => Looking(q)
         /\ Waits(req'[q], req[q]) => Cart(q)' = Cart(q)
         /\ Looking(q) /\ req'[q].pc = "found" => Cart(q)' = Cart(q) /\ req'[q].product = req[q].product
  BY DEF Waits, SameAsk, Looking, Cart

LEMMA RowsKept ==
  ASSUME RowInv, Requests', \A q \in Request : Looking(q), Shrinks, doubled \subseteq doubled'
  PROVE  RowInv'
<1>1. Single'
  BY DEF RowInv, Single, Shrinks
<1>2. ASSUME NEW q \in Request PROVE Looked(q)'
  BY <1>2, WaitsLooking, CartOf DEF RowInv, Looked, Shrinks, Looking
<1>3. ASSUME NEW q \in Request, NEW r \in Request PROVE Apart(q, r)'
  BY <1>3, WaitsLooking DEF RowInv, Apart, Looking
<1>4. \A q \in Request : Adding(q)'
  BY DEF RowInv, Adding, Looking, SameAsk
<1>5. QED
  BY <1>1, <1>2, <1>3, <1>4 DEF RowInv, Shrinks

LEMMA SameRows ==
  ASSUME TableOK, UNCHANGED <<items, customerCart>>
  PROVE  Shrinks
  BY DEF TableOK, Table, Shrinks, Part

LEMMA TrimsShrink ==
  ASSUME TableOK, NEW c \in Carts, NEW its, NEW S, Trims(its, S),
         \/ its = Settled(items, c) /\ customerCart' = (customerCart \/ c = "customer")
         \/ its = items /\ customerCart' = customerCart
  PROVE  Shrinks
<1>1. CASE its = items /\ customerCart' = customerCart
  BY <1>1 DEF TableOK, Trims, Shrinks, Part, Carts
<1>2. CASE its = Settled(items, c) /\ customerCart' = (customerCart \/ c = "customer") /\ c = "guest"
  <2>1. its = items /\ customerCart' = customerCart
    BY <1>2, SettledRows DEF TableOK, Carts
  <2>2. QED
    BY <2>1 DEF TableOK, Trims, Shrinks, Part, Carts
<1>3. CASE its = Settled(items, c) /\ customerCart' = (customerCart \/ c = "customer") /\ c = "customer"
  <2>0. customerCart' /\ its = Settled(items, c)
    BY <1>3
  <2>1. /\ \A i \in Item : (i \in Part(c) <=> its[i].cart = c) /\ (its[i].cart # "gone" => its[i].product = items[i].product)
        /\ \A i \in Item : its[i].cart # "guest"
    BY <1>3, <2>0, SettledRows
  <2>2. TableOK'
    BY <2>0 DEF TableOK, Trims
  <2>3. ASSUME NEW d \in Carts, NEW i \in Part(d)'
        PROVE  i \in Part(d) /\ items'[i].product = items[i].product
    <3>1. i \in Item /\ items'[i].cart = d /\ d # "gone"
      BY <2>0, <2>3 DEF Part, Carts
    <3>2. its[i].cart = d /\ items'[i].product = its[i].product
      BY <3>1 DEF Trims
    <3>3. d = c
      BY <1>3, <2>1, <3>1, <3>2 DEF Carts
    <3>4. QED
      BY <2>1, <3>1, <3>2, <3>3
  <2>4. QED
    BY <2>2, <2>3 DEF Shrinks
<1>4. QED
  BY <1>1, <1>2, <1>3 DEF Carts

LEMMA InsertsOne ==
  ASSUME TableOK, NEW c \in Carts, NEW its, NEW i \in Item, NEW p, Inserts(its, i, c, p),
         its = Settled(items, c), customerCart' = (customerCart \/ c = "customer")
  PROVE  /\ TableOK'
         /\ \A d \in Carts : \A j \in Part(d)' :
               \/ j = i /\ items'[i].product = p /\ Part(d) = Part(c)
               \/ j # i /\ j \in Part(d) /\ items'[j].product = items[j].product
         /\ \A d \in Carts : i \notin Part(d)
<1>0. None \notin Carts /\ None # "gone" /\ "gone" \notin Carts
  BY StorefrontAssumption DEF Carts
<1>1. /\ \A j \in Item : (j \in Part(c) <=> its[j].cart = c) /\ (its[j].cart # "gone" => its[j].product = items[j].product)
      /\ c = "customer" => \A j \in Item : its[j].cart # "guest"
      /\ c = "guest" => its = items
  BY SettledRows
<1>2. TableOK'
  <2>1. Table(items)' /\ customerCart' \in BOOLEAN
    BY DEF TableOK, Inserts, Table
  <2>2. ASSUME ~customerCart', NEW j \in Item PROVE items'[j].cart # "customer"
    <3>1. its = items /\ ~customerCart /\ c = "guest"
      BY <1>1, <2>2 DEF Carts
    <3>2. QED
      BY <3>1 DEF Inserts, TableOK
  <2>3. QED
    BY <2>1, <2>2 DEF TableOK
<1>3. \A d \in Carts : i \notin Part(d)
  BY <1>0 DEF Inserts, Part, Carts
<1>4. ASSUME NEW d \in Carts, NEW j \in Part(d)'
      PROVE  \/ j = i /\ items'[i].product = p /\ Part(d) = Part(c)
             \/ j # i /\ j \in Part(d) /\ items'[j].product = items[j].product
  <2>1. j \in Item
    BY <1>4 DEF Part
  <2>2. CASE c = "guest"
    <3>1. its = items /\ customerCart' = customerCart
      BY <1>1, <2>2 DEF TableOK
    <3>2. CASE j = i
      <4>1. d = "guest" \/ (d = "customer" /\ ~customerCart)
        BY <1>4, <2>2, <3>1, <3>2 DEF Inserts, Part, Carts
      <4>2. ~customerCart => Part("customer") = Part("guest")
        BY DEF TableOK, Part
      <4>3. QED
        BY <2>2, <3>2, <4>1, <4>2 DEF Inserts
    <3>3. CASE j # i
      BY <1>4, <2>1, <3>1, <3>3 DEF Inserts, Part
    <3>4. QED
      BY <3>2, <3>3
  <2>3. CASE c = "customer"
    <3>1. customerCart' /\ items'[j].cart = d
      BY <1>4, <2>3 DEF Part, Carts
    <3>2. CASE j = i
      BY <3>1, <3>2 DEF Inserts
    <3>3. CASE j # i
      <4>1. items'[j] = its[j] /\ its[j].cart = d
        BY <2>1, <3>1, <3>3 DEF Inserts
      <4>2. d = c
        BY <1>1, <2>1, <2>3, <4>1 DEF Carts
      <4>3. QED
        BY <1>0, <1>1, <2>1, <3>3, <4>1, <4>2
    <3>4. QED
      BY <3>2, <3>3
  <2>4. QED
    BY <2>2, <2>3 DEF Carts
<1>5. QED
  BY <1>2, <1>3, <1>4

\* Refused: nothing has happened.
Refused(r) == Refuse(r) /\ UNCHANGED <<items, customerCart, owed, unmerged, excused, astray>>

\* Committed, and the rows of S have gone from the settled carts.
Committed(r, S) == Commit(r, items') /\ Trims(Settled(items, Cart(r)), S)

LEMMA Settling ==
  ASSUME TableOK, NEW r \in Request
  PROVE  Table(Settled(items, Cart(r)))
  BY CartOf, SettledRows

LEMMA SetRows ==
  ASSUME TableOK, NEW r \in Request, HandleSet(r)
  PROVE  \/ Refused(r)
         \/ /\ Committed(r, {}) /\ unmerged' = unmerged \cup Dropped(Cart(r))
            /\ UNCHANGED <<owed, excused>>
<1> DEFINE its == Settled(items, Cart(r))
           t == [its EXCEPT ![req[r].item].quantity = req[r].quantity]
<1>1. \/ Refused(r)
      \/ /\ Commit(r, t) /\ unmerged' = unmerged \cup Dropped(Cart(r))
         /\ UNCHANGED <<owed, excused>>
  BY DEF HandleSet, Refused
<1>2. ASSUME Commit(r, t) PROVE Committed(r, {})
  <2>1. items' = t /\ Commit(r, items')
    BY <1>2 DEF Commit
  <2>2. Table(its)
    BY Settling
  <2> HIDE DEF its
  <2>3. Trims(its, {})
    BY <2>1, <2>2, RowGoes
  <2>4. QED
    BY <2>1, <2>3 DEF Committed, its
<1>3. QED
  BY <1>1, <1>2

LEMMA RemoveRows ==
  ASSUME TableOK, NEW r \in Request, HandleRemove(r)
  PROVE  \/ Refused(r)
         \/ /\ Committed(r, {req[r].item}) /\ unmerged' = unmerged \cup Dropped(Cart(r))
            /\ Settled(items, Cart(r))[req[r].item].cart = Cart(r)
            /\ UNCHANGED <<owed, excused>>
<1> DEFINE its == Settled(items, Cart(r))
           t == [its EXCEPT ![req[r].item] = Gone]
<1>1. \/ Refused(r)
      \/ /\ Commit(r, t) /\ unmerged' = unmerged \cup Dropped(Cart(r))
         /\ its[req[r].item].cart = Cart(r)
         /\ UNCHANGED <<owed, excused>>
  BY DEF HandleRemove, Refused
<1>2. ASSUME Commit(r, t) PROVE Committed(r, {req[r].item})
  <2>1. items' = t /\ Commit(r, items')
    BY <1>2 DEF Commit
  <2>2. Table(its)
    BY Settling
  <2> HIDE DEF its
  <2>3. items' = [i \in Item |-> IF i \in {req[r].item} THEN Gone ELSE its[i]]
    BY <2>1, <2>2 DEF Table
  <2>4. Trims(its, {req[r].item})
    BY <2>2, <2>3, RowGoes
  <2>5. QED
    BY <2>1, <2>4 DEF Committed, its
<1>3. QED
  BY <1>1, <1>2

\* All rows of cart c.
RowsIn(its, c) == {i \in Item : its[i].cart = c}

LEMMA AllGo ==
  ASSUME NEW its, Table(its), NEW c, items' = [i \in Item |-> IF its[i].cart = c THEN Gone ELSE its[i]]
  PROVE  Trims(its, RowsIn(its, c))
<1>1. items' = [i \in Item |-> IF i \in RowsIn(its, c) THEN Gone ELSE its[i]]
  BY DEF RowsIn
<1>2. QED
  BY <1>1, RowGoes

LEMMA ClearRows ==
  ASSUME TableOK, NEW r \in Request, HandleClear(r)
  PROVE  \/ Refused(r)
         \/ /\ Committed(r, RowsIn(Settled(items, Cart(r)), Cart(r)))
            /\ unmerged' = unmerged \cup Dropped(Cart(r))
            /\ excused' = excused \cup (IF req[r].lost \/ astray THEN In(Settled(items, Cart(r)), Cart(r)) ELSE {})
            /\ owed' = owed
<1> DEFINE c == Cart(r)
           its == Settled(items, c)
           t == [i \in Item |-> IF its[i].cart = c THEN Gone ELSE its[i]]
<1>1. \/ Refused(r)
      \/ /\ Commit(r, t) /\ unmerged' = unmerged \cup Dropped(c) /\ owed' = owed
         /\ excused' = excused \cup (IF req[r].lost \/ astray THEN In(its, c) ELSE {})
  BY DEF HandleClear, Refused
<1>2. ASSUME Commit(r, t) PROVE Committed(r, RowsIn(its, c))
  <2>1. items' = t /\ Commit(r, items')
    BY <1>2 DEF Commit
  <2>2. Table(its)
    BY Settling
  <2>3. Trims(its, RowsIn(its, c))
    <3> HIDE DEF its, c
    <3>1. QED
      BY <2>1, <2>2, AllGo
  <2>4. QED
    BY <2>1, <2>3 DEF Committed
<1>3. QED
  BY <1>1, <1>2

LEMMA CheckoutRows ==
  ASSUME TableOK, NEW r \in Request, HandleCheckout(r)
  PROVE  /\ UNCHANGED <<customerCart, unmerged>>
         /\ \/ Refused(r)
            \/ /\ Trims(items, RowsIn(items, Cart(r))) /\ Answer(r, {})
               /\ astray' = (astray \/ ~req[r].heard)
               /\ owed' = owed \ Products(req[r].lines)
               /\ excused' = IF req[r].lost \/ astray THEN excused \cup In(items, Cart(r)) ELSE excused
<1> DEFINE c == Cart(r)
           t == [i \in Item |-> IF items[i].cart = c THEN Gone ELSE items[i]]
<1>1. UNCHANGED <<customerCart, unmerged>>
  BY DEF HandleCheckout
<1>2. \/ Refuse(r) /\ UNCHANGED <<items, owed, excused, astray>>
      \/ /\ items' = t /\ Answer(r, {})
         /\ astray' = (astray \/ ~req[r].heard)
         /\ owed' = owed \ Products(req[r].lines)
         /\ excused' = IF req[r].lost \/ astray THEN excused \cup In(items, c) ELSE excused
  BY DEF HandleCheckout
<1>3. ASSUME items' = t PROVE Trims(items, RowsIn(items, c))
  <2> HIDE DEF c
  <2>1. QED
    BY <1>3, AllGo DEF TableOK
<1>4. QED
  BY <1>1, <1>2, <1>3 DEF Refused

LEMMA WriteRows ==
  ASSUME TableOK, NEW r \in Request, WriteItem(r)
  PROVE  /\ UNCHANGED <<owed, excused>>
         /\ \/ Refused(r)
            \/ Committed(r, {}) /\ unmerged' = unmerged \cup Dropped(Cart(r))
            \/ /\ req[r].found = None /\ Commit(r, items')
               /\ unmerged' = unmerged \cup (Dropped(Cart(r)) \ {req[r].product})
               /\ \E i \in Item : Inserts(Settled(items, Cart(r)), i, Cart(r), req[r].product)
<1> DEFINE c == Cart(r)
           its == Settled(items, c)
           p == req[r].product
<1>0. Table(its) /\ UNCHANGED <<owed, excused>>
  BY Settling DEF WriteItem
<1>1. CASE req[r].found = None
  <2>1. PICK i \in Rows(items, None) :
          /\ Commit(r, [its EXCEPT ![i] = [cart |-> c, product |-> p, quantity |-> req[r].quantity]])
          /\ unmerged' = unmerged \cup (Dropped(c) \ {p})
    BY <1>1 DEF WriteItem
  <2>2. /\ i \in Item /\ items[i].cart = None /\ Commit(r, items')
        /\ items' = [its EXCEPT ![i] = [cart |-> c, product |-> p, quantity |-> req[r].quantity]]
    BY <2>1 DEF Rows, Commit
  <2>3. Inserts(its, i, c, p)
    <3> HIDE DEF its, c, p
    <3>1. items' = [j \in Item |-> IF j = i THEN [cart |-> c, product |-> p, quantity |-> req[r].quantity] ELSE its[j]]
      BY <1>0, <2>2 DEF Table
    <3>2. Table(items')
      BY <1>0, <3>1 DEF Table, RowFields
    <3>3. QED
      BY <2>2, <3>1, <3>2 DEF Inserts
  <2>4. QED
    BY <1>0, <1>1, <2>1, <2>2, <2>3
<1>2. CASE req[r].found # None /\ its[req[r].found].cart = c
  <2>1. Commit(r, [its EXCEPT ![req[r].found].quantity = req[r].quantity]) /\ unmerged' = unmerged \cup Dropped(c)
    BY <1>2 DEF WriteItem
  <2>2. items' = [its EXCEPT ![req[r].found].quantity = req[r].quantity] /\ Commit(r, items')
    BY <2>1 DEF Commit
  <2>3. Trims(its, {})
    <3> HIDE DEF its
    <3>1. QED
      BY <1>0, <2>2, RowGoes
  <2>4. QED
    BY <1>0, <2>1, <2>2, <2>3 DEF Committed
<1>3. CASE req[r].found # None /\ its[req[r].found].cart # c
  BY <1>0, <1>3 DEF WriteItem, Refused
<1>4. QED
  BY <1>0, <1>1, <1>2, <1>3

\* Only an item that is written brings a row.
LEMMA ServedShrinks ==
  ASSUME TableOK, NEW r \in Request, Served(r), ~WriteItem(r)
  PROVE  Shrinks
<1>1. ASSUME UNCHANGED <<items, customerCart>> PROVE Shrinks
  BY <1>1, SameRows
<1>2. ASSUME NEW S, Committed(r, S) PROVE Shrinks
  <2> DEFINE c == Cart(r)
             its == Settled(items, c)
  <2>1. Trims(its, S) /\ customerCart' = (customerCart \/ c = "customer") /\ c \in Carts
    BY <1>2, CartOf DEF Committed, Commit
  <2> HIDE DEF c
  <2>2. QED
    BY <2>1, TrimsShrink
<1>3. CASE HandleSet(r) \/ HandleRemove(r) \/ HandleClear(r)
  BY <1>1, <1>2, <1>3, SetRows, RemoveRows, ClearRows DEF Refused
<1>4. CASE HandleCheckout(r)
  <2>1. customerCart' = customerCart /\ (items' = items \/ Trims(items, RowsIn(items, Cart(r))))
    BY <1>4, CheckoutRows DEF Refused
  <2>2. QED
    BY <1>1, <2>1, TrimsShrink DEF Carts
<1>5. CASE HandleRead(r) \/ FindItem(r) \/ HandleAuth(r)
  <2>1. UNCHANGED <<items, customerCart>>
    BY <1>5 DEF HandleRead, FindItem, HandleAuth
  <2>2. QED
    BY <1>1, <2>1
<1>6. QED
  BY <1>3, <1>4, <1>5 DEF Served

LEMMA OnlyFindLooks ==
  ASSUME Requests, NEW r \in Request, Served(r), ~FindItem(r)
  PROVE  Requests' /\ \A q \in Request : Looking(q)
  BY ServedWorks, WaitsLooking

LEMMA RowServed ==
  ASSUME RowInv, NEW r \in Request, Served(r), ~FindItem(r), ~WriteItem(r)
  PROVE  RowInv'
<1>1. Requests
  BY DEF RowInv
<1>2. doubled' = doubled
  BY DEF Served, HandleRead, HandleSet, HandleRemove, HandleClear, HandleCheckout, HandleAuth, hist
<1>3. QED
  BY <1>1, <1>2, ServedShrinks, OnlyFindLooks, RowsKept DEF RowInv

\* The row of the product is looked for.
LEMMA RowFind ==
  ASSUME RowInv, NEW r \in Request, FindItem(r)
  PROVE  RowInv'
<1> DEFINE c == Cart(r)
           its == Settled(items, c)
           row == Of(its, c, req[r].product)
<1>1. /\ Requests' /\ UNCHANGED <<items, customerCart>>
      /\ \A q \in Request \ {r} : Waits(req'[q], req[q])
      /\ SameAsk(req'[r], req[r])
      /\ doubled' = IF Beside(r) THEN doubled \cup {req[r].product} ELSE doubled
  <2>1. Served(r) /\ Requests
    BY DEF Served, RowInv
  <2>2. UNCHANGED <<items, customerCart>> /\ doubled' = IF Beside(r) THEN doubled \cup {req[r].product} ELSE doubled
    BY DEF FindItem
  <2>3. QED
    BY <2>1, <2>2, ServedWorks DEF Worked
<1>2. Shrinks /\ doubled \subseteq doubled'
  BY <1>1, SameRows DEF RowInv
<1>3. CASE req'[r].pc # "found"
  BY <1>1, <1>2, <1>3, WaitsLooking, RowsKept
<1>4. CASE req'[r].pc = "found"
  <2>0. TableOK /\ c \in Carts
    BY CartOf DEF RowInv
  <2>1. req'[r].found = (IF row = {} THEN None ELSE CHOOSE i \in row : TRUE)
    <3> DEFINE sum == Lesser(MAX_QUANTITY, req[r].quantity + MapThenSumSet(LAMBDA i : its[i].quantity, row))
               f == IF row = {} THEN None ELSE CHOOSE i \in row : TRUE
    <3>1. Refuse(r) \/ req' = [req EXCEPT ![r].pc = "found", ![r].quantity = sum, ![r].found = f]
      BY Zenon DEF FindItem
    <3> HIDE DEF sum, f
    <3>2. Requests /\ Active(r)
      BY DEF RowInv, FindItem, Active
    <3>3. ~Refuse(r)
      BY <1>4, <3>2, RefuseShape
    <3>4. req'[r].found = f
      <4>1. Shape(req[r]) /\ req = [q \in Request |-> req[q]]
        BY <3>2 DEF Requests
      <4>2. QED
        BY <3>1, <3>3, <4>1 DEF Shape, Fields
    <3>5. QED
      BY <3>4 DEF f
  <2>2. ASSUME req'[r].found = None, NEW i \in Part(c)
        PROVE  items[i].product # req[r].product
    <3>1. row = {}
      <4>1. row \subseteq Item
        BY DEF Of, Rows
      <4> HIDE DEF row
      <4>2. QED
        BY <2>1, <2>2, <4>1, StorefrontAssumption
    <3>2. i \in Item /\ its[i].cart = c /\ its[i].product = items[i].product
      <4>1. i \in Item /\ c # "gone"
        BY <2>0 DEF Part, Carts
      <4> HIDE DEF c
      <4>2. QED
        BY <2>0, <2>2, <4>1, SettledRows
    <3>3. QED
      BY <3>1, <3>2 DEF Of, Rows
  <2>3. Cart(r)' = Cart(r) /\ req'[r].product = req[r].product
    BY <1>1 DEF SameAsk, Cart
  <2>4. \A d \in Carts : Part(d)' = Part(d)
    BY <1>1 DEF Part
  <2>5. Looked(r)'
    BY <1>1, <2>0, <2>2, <2>3, <2>4 DEF Looked
  <2>6. ASSUME NEW q \in Request \ {r} PROVE Looked(q)'
    BY <1>1, <1>2, <2>4, WaitsLooking, CartOf DEF RowInv, Looked, Looking
  <2>7. ASSUME NEW q \in Request \ {r}
        PROVE  Apart(q, r)' /\ Apart(r, q)'
    <3>1. req'[q].pc = req[q].pc /\ req'[q].product = req[q].product
      BY <1>1 DEF Waits, SameAsk
    <3>2. req'[q].pc = "found" /\ req'[q].product = req'[r].product => req[r].product \in doubled'
      BY <1>1, <2>3, <3>1 DEF Beside
    <3>3. QED
      BY <2>3, <3>1, <3>2 DEF Apart
  <2>8. ASSUME NEW q \in Request \ {r}, NEW p \in Request \ {r} PROVE Apart(q, p)'
    <3>1. Apart(q, p) /\ Waits(req'[q], req[q]) /\ Waits(req'[p], req[p])
      BY <1>1 DEF RowInv
    <3>2. QED
      BY <1>2, <3>1 DEF Apart, Waits, SameAsk
  <2>9. Single'
    BY <1>1, <1>2, <2>4 DEF RowInv, Single
  <2>10. ASSUME NEW q \in Request, NEW p \in Request PROVE Apart(q, p)'
    <3>1. CASE q = p
      BY <3>1 DEF Apart
    <3>2. QED
      BY <2>7, <2>8, <3>1
  <2>11. \A q \in Request : Adding(q)'
    BY <1>1 DEF RowInv, Adding, Waits, SameAsk, FindItem
  <2>12. QED
    BY <1>1, <1>2, <2>5, <2>6, <2>9, <2>10, <2>11 DEF RowInv, Shrinks
<1>5. QED
  BY <1>3, <1>4

\* It is written.
LEMMA RowWrite ==
  ASSUME RowInv, NEW r \in Request, WriteItem(r)
  PROVE  RowInv'
<1> DEFINE c == Cart(r)
           its == Settled(items, c)
           p == req[r].product
<1>0. Requests /\ TableOK /\ c \in Carts
  BY CartOf DEF RowInv
<1>1. Requests' /\ (\A q \in Request : Looking(q)) /\ doubled' = doubled
  <2>1. Served(r) /\ ~FindItem(r) /\ doubled' = doubled
    BY DEF Served, WriteItem, FindItem
  <2>2. QED
    BY <1>0, <2>1, OnlyFindLooks
<1>2. ASSUME Shrinks PROVE RowInv'
  BY <1>1, <1>2, RowsKept
<1>3. CASE Refused(r)
  BY <1>0, <1>2, <1>3, SameRows DEF Refused
<1>4. CASE Committed(r, {})
  <2>1. Trims(its, {}) /\ customerCart' = (customerCart \/ c = "customer")
    BY <1>4 DEF Committed, Commit
  <2> HIDE DEF c
  <2>2. QED
    BY <1>0, <1>2, <2>1, TrimsShrink
<1>5. ASSUME req[r].found = None, Commit(r, items'), NEW i \in Item, Inserts(its, i, c, p)
      PROVE  RowInv'
  <2>1. req'[r].pc = "answered" /\ customerCart' = (customerCart \/ c = "customer")
    BY <1>0, <1>5, AnswerShape DEF Commit
  <2> HIDE DEF c, p
  <2>2. /\ TableOK'
        /\ \A d \in Carts : \A j \in Part(d)' :
              \/ j = i /\ items'[i].product = p /\ Part(d) = Part(c)
              \/ j # i /\ j \in Part(d) /\ items'[j].product = items[j].product
    BY <1>0, <1>5, <2>1, InsertsOne
  <2>3. p \notin doubled => \A j \in Part(c) : items[j].product # p
    BY <1>5 DEF RowInv, Looked, WriteItem, c, p
  <2>4. Single'
    BY <1>1, <2>2, <2>3 DEF RowInv, Single
  <2>5. ASSUME NEW q \in Request, req'[q].pc = "found", req'[q].found = None, req'[q].product \notin doubled',
               NEW j \in Part(Cart(q))'
        PROVE  items'[j].product # req'[q].product
    <3>1. /\ q # r /\ req[q].pc = "found" /\ req[q].found = None
          /\ Cart(q)' = Cart(q) /\ req'[q].product = req[q].product /\ Cart(q) \in Carts
      BY <1>1, <2>1, <2>5, WaitsLooking, CartOf DEF Looking
    <3>2. req[q].product # p
      BY <1>1, <2>5, <3>1 DEF RowInv, Apart, WriteItem, p
    <3>3. \A k \in Part(Cart(q)) : items[k].product # req[q].product
      BY <1>1, <2>5, <3>1 DEF RowInv, Looked
    <3>4. QED
      BY <2>2, <2>5, <3>1, <3>2, <3>3
  <2>6. ASSUME NEW q \in Request PROVE Looked(q)'
    BY <2>5 DEF Looked
  <2>7. ASSUME NEW q \in Request, NEW s \in Request PROVE Apart(q, s)'
    BY <1>1, WaitsLooking DEF RowInv, Apart, Looking
  <2>8. \A q \in Request : Adding(q)'
    BY <1>1 DEF RowInv, Adding, Looking, SameAsk
  <2>9. QED
    BY <1>1, <2>2, <2>4, <2>6, <2>7, <2>8 DEF RowInv
<1>6. QED
  BY <1>0, <1>3, <1>4, <1>5, WriteRows

\* The answer of q is the one it had.
Told(q) ==
  req'[q].pc = "answered" /\ req'[q].heard /\ ~req'[q].old /\ req'[q].kind \in {"read", "add", "set", "remove", "clear"}
    => /\ SameAsk(req'[q], req[q]) /\ req'[q].answer = req[q].answer
       /\ req[q].pc = "answered" /\ req[q].heard /\ ~req[q].old

LEMMA WaitsTold ==
  ASSUME NEW q \in Request
  PROVE  /\ Waits(req'[q], req[q]) => Told(q)
         /\ req'[q] = req[q] => Told(q)
         /\ req'[q].pc # "answered" => Told(q)
  BY DEF Waits, SameAsk, Told

\* The answer that q has is part of the one it had.
Quotes(q) == req'[q].answer \subseteq req[q].answer

LEMMA WaitsQuotes ==
  ASSUME NEW q \in Request
  PROVE  /\ Waits(req'[q], req[q]) => Quotes(q)
         /\ req'[q] = req[q] => Quotes(q)
         /\ req'[q].answer = {} => Quotes(q)
  BY DEF Waits, Quotes

\* What the page does of its own accord.
Acts(r) ==
  \/ addToCart(r) \/ removeFromCart(r) \/ setQuantity(r) \/ handleSubmit(r) \/ handleContinue(r)
  \/ Reload(r) \/ OpenLogin(r) \/ SignIn(r) \/ OpenAccount(r) \/ BackToStore(r)
  \/ KeepTokens(r) \/ LoginFails(r) \/ LoginDenied(r) \/ logout(r) \/ handleSaveProfile(r)

\* The API has no part in it.
LEMMA ActsAlone ==
  ASSUME Requests, NEW r \in Request, Acts(r)
  PROVE  Requests' /\ UNCHANGED <<items, customerCart, doubled>> /\ \A q \in Request : Looking(q) /\ Told(q) /\ Quotes(q)
<1>1. UNCHANGED <<items, customerCart, doubled>>
  BY DEF Acts, addToCart, removeFromCart, setQuantity, handleSubmit, handleContinue, Reload, OpenLogin, SignIn,
         OpenAccount, BackToStore, KeepTokens, LoginFails, LoginDenied, logout, handleSaveProfile, page, hist
<1>2. ASSUME NEW kind, Sent(r, kind) PROVE Requests' /\ \A q \in Request : Looking(q) /\ Told(q) /\ Quotes(q)
  BY <1>2, WaitsLooking, WaitsTold, WaitsQuotes DEF Sent, Fresh
<1>3. ASSUME NEW kind, Turned(r, kind) PROVE Requests' /\ \A q \in Request : Looking(q) /\ Told(q) /\ Quotes(q)
  BY <1>3, WaitsLooking, WaitsTold, WaitsQuotes DEF Turned
<1>4. ASSUME req' = req PROVE Requests' /\ \A q \in Request : Looking(q) /\ Told(q) /\ Quotes(q)
  BY <1>4, WaitsLooking, WaitsTold, WaitsQuotes DEF Requests
<1>5. CASE addToCart(r)
  BY <1>1, <1>2, <1>5, AddSent
<1>6. CASE removeFromCart(r)
  <2>1. PICK l \in shown : req' = [req EXCEPT ![r] = IF l.id = None
                                                    THEN [Ask("clear") EXCEPT !.lost = TRUE]
                                                    ELSE [Ask("remove") EXCEPT !.item = l.id, !.product = l.product]]
    BY <1>6 DEF removeFromCart
  <2>2. ~Active(r)
    BY <1>6 DEF removeFromCart
  <2>3. QED
    BY <1>1, <1>2, <2>1, <2>2, RemoveSent DEF SentAlone
<1>7. CASE setQuantity(r)
  BY <1>1, <1>2, <1>4, <1>7, QuantitySent DEF SentAlone
<1>8. CASE handleSubmit(r) \/ handleContinue(r)
  BY <1>1, <1>2, <1>8, SubmitSent, ContinueSent DEF SentAlone
<1>9. CASE Reload(r)
  BY <1>1, <1>9, ReloadSent, WaitsLooking, WaitsTold, WaitsQuotes DEF Fresh
<1>10. CASE OpenLogin(r) \/ OpenAccount(r)
  BY <1>1, <1>2, <1>10, LeaveSent DEF OpenLogin, OpenAccount
<1>11. CASE SignIn(r) \/ BackToStore(r) \/ KeepTokens(r) \/ LoginFails(r) \/ LoginDenied(r) \/ handleSaveProfile(r)
  BY <1>1, <1>3, <1>11, Turns DEF SignIn, BackToStore, Mount, LoginFails, LoginDenied, handleSaveProfile
<1>12. CASE logout(r)
  BY <1>1, <1>3, <1>4, <1>12, Turns DEF logout
<1>13. QED
  BY <1>5, <1>6, <1>7, <1>8, <1>9, <1>10, <1>11, <1>12 DEF Acts

LEMMA Steps ==
  ASSUME [Next]_vars
  PROVE  Expire \/ UNCHANGED vars \/ \E r \in Request : Served(r) \/ Acts(r) \/ Over(r) \/ SignOut(r)
  BY DEF Next, Served, Acts, Over

LEMMA RowNext ==
  ASSUME RowInv, [Next]_vars
  PROVE  RowInv'
<1>0. Requests /\ TableOK
  BY DEF RowInv
<1>1. ASSUME Requests', UNCHANGED <<items, customerCart, doubled>>, \A q \in Request : Looking(q)
      PROVE  RowInv'
  BY <1>0, <1>1, SameRows, RowsKept
<1>2. CASE Expire \/ UNCHANGED vars
  BY <1>0, <1>1, <1>2, WaitsLooking DEF Expire, vars, Requests
<1>3. ASSUME NEW r \in Request, Served(r) PROVE RowInv'
  BY <1>3, RowServed, RowFind, RowWrite
<1>4. ASSUME NEW r \in Request, Acts(r) PROVE RowInv'
  BY <1>0, <1>1, <1>4, ActsAlone
<1>5. ASSUME NEW r \in Request, Over(r) \/ SignOut(r) PROVE RowInv'
  BY <1>0, <1>1, <1>5, OverEnds, WaitsLooking DEF Ended
<1>6. QED
  BY <1>2, <1>3, <1>4, <1>5, Steps

LEMMA RowInit ==
  ASSUME Init
  PROVE  RowInv
<1>1. PICK kept \in SUBSET Product : \E row \in [kept -> Item] :
        /\ \A p, q \in kept : row[p] = row[q] => p = q
        /\ items = [i \in Item |->
                      IF \E p \in kept : row[p] = i
                      THEN [cart |-> "customer", product |-> CHOOSE p \in kept : row[p] = i, quantity |-> 1]
                      ELSE [cart |-> None, product |-> None, quantity |-> 0]]
        /\ customerCart = (kept # {})
  BY DEF Init
<1>2. PICK row \in [kept -> Item] :
        /\ \A p, q \in kept : row[p] = row[q] => p = q
        /\ items = [i \in Item |->
                      IF \E p \in kept : row[p] = i
                      THEN [cart |-> "customer", product |-> CHOOSE p \in kept : row[p] = i, quantity |-> 1]
                      ELSE [cart |-> None, product |-> None, quantity |-> 0]]
        /\ customerCart = (kept # {})
  BY <1>1
<1>3. None \notin Carts /\ None # "gone"
  BY StorefrontAssumption DEF Carts
<1>4. ASSUME NEW i \in Item
      PROVE  /\ items[i] = [f \in RowFields |-> items[i][f]]
             /\ \/ items[i].cart = "customer" /\ items[i].product \in kept /\ row[items[i].product] = i
                \/ items[i].cart = None
  <2>1. CASE \E p \in kept : row[p] = i
    <3> DEFINE p == CHOOSE p \in kept : row[p] = i
    <3>1. p \in kept /\ row[p] = i
      BY <2>1
    <3>2. items[i] = [cart |-> "customer", product |-> p, quantity |-> 1]
      BY <1>2, <2>1
    <3> HIDE DEF p
    <3>3. QED
      BY <3>1, <3>2 DEF RowFields
  <2>2. CASE ~ \E p \in kept : row[p] = i
    BY <1>2, <2>2 DEF RowFields
  <2>3. QED
    BY <2>1, <2>2
<1>5. TableOK
  BY <1>2, <1>3, <1>4 DEF TableOK, Table, Carts
<1>6. Single
  BY <1>3, <1>4 DEF Single, Part, Carts
<1>7. Requests /\ \A q \in Request : req[q].pc # "found"
  <2>1. Requests
    BY IdInit DEF IdInv
  <2>2. PICK r \in Request : req = [q \in Request |-> IF q = r THEN Ask("read") ELSE Idle]
    BY DEF Init
  <2>3. QED
    BY <2>1, <2>2, IdleShape, AskFields
<1>8. QED
  BY <1>5, <1>6, <1>7 DEF RowInv, Looked, Apart, Adding

LEMMA OneIsFew ==
  ASSUME NEW S, \A i, j \in S : i = j
  PROVE  Cardinality(S) <= 1
<1>1. CASE S = {}
  BY <1>1, FS_EmptySet
<1>2. CASE S # {}
  <2>1. PICK i : S = {i}
    BY <1>2
  <2>2. QED
    <3>1. Cardinality({i}) = 1
      BY FS_Singleton
    <3>2. QED
      BY <2>1, <3>1
<1>3. QED
  BY <1>1, <1>2

\* However many requests are in flight, a cart has one row for a product unless two
\* that add it have overlapped (cart_service.py: add_item, _merge_guest_cart).
THEOREM RowsAreSingle == Spec => []OneRowPerProduct
<1>1. Init => RowInv
  BY RowInit
<1>2. RowInv /\ [Next]_vars => RowInv'
  BY RowNext
<1>3. RowInv => OneRowPerProduct
  <2> SUFFICES ASSUME RowInv, NEW c \in Carts, NEW p \in Product \ doubled
               PROVE  Cardinality(Of(items, c, p)) <= 1
    BY DEF OneRowPerProduct, Carts
  <2>1. \A i, j \in Of(items, c, p) : i = j
    BY DEF RowInv, Single, Of, Rows, Part
  <2>2. QED
    BY <2>1, OneIsFew
<1>4. QED
  BY <1>1, <1>2, <1>3, PTL DEF Spec

---------------------------------------------------------------------------
(* What the page shows *)

\* What the API would serve to the shopper.
Now == View(Settled(items, Serving), Serving)

\* The newest answer tells the cart as it is.
Truthful(r) ==
  req[r].pc = "answered" /\ req[r].heard /\ ~req[r].old /\ req[r].kind \in {"read", "add", "set", "remove", "clear"}
    => req[r].answer = View(Settled(items, Cart(r)), Cart(r))

\* The page has changed the cart ahead of the API.
Pending == \E r \in Request : Heard(r) /\ req[r].kind \in CartKinds \ {"read"}

\* It has just been mounted.
Awaited == \E r \in Request : Heard(r) /\ req[r].kind = "read"

Faithful ==
  at = "shop" /\ ~confirmed /\ ~astray /\ ~Pending => shown = Now \/ (shown = {} /\ Awaited)

ViewInv == IdInv /\ RowInv /\ (\A r \in Request : Truthful(r)) /\ Faithful

LEMMA SettledSame ==
  ASSUME UNCHANGED <<items, customerCart>>
  PROVE  \A c : Settled(items, c)' = Settled(items, c)
  BY DEF Settled

LEMMA TruthKept ==
  ASSUME UNCHANGED <<items, customerCart>>, NEW q \in Request, Truthful(q), Told(q)
  PROVE  Truthful(q)'
<1>1. CASE Cart(q)' = Cart(q)
  BY <1>1, SettledSame DEF Truthful, Told, SameAsk
<1>2. CASE Cart(q)' # Cart(q)
  BY <1>2 DEF Truthful, Told, SameAsk, Cart
<1>3. QED
  BY <1>1, <1>2

LEMMA NoneMerged ==
  ASSUME NEW its, Table(its), \A i \in Item : its[i].cart # "guest"
  PROVE  Merge(its) = its
<1> DEFINE sum(i) == Lesser(MAX_QUANTITY, its[i].quantity + MapThenSumSet(LAMBDA g : its[g].quantity, Of(its, "guest", its[i].product)))
           w(i) == IF its[i].cart = "guest" THEN Gone
                   ELSE IF its[i].cart = "customer" /\ Of(its, "guest", its[i].product) # {}
                   THEN [its[i] EXCEPT !.quantity = sum(i)]
                   ELSE its[i]
<1>1. Merge(its) = [i \in Item |-> w(i)]
  BY Zenon DEF Merge
<1>2. \A p : Of(its, "guest", p) = {}
  BY DEF Of, Rows
<1> HIDE DEF sum
<1>3. \A i \in Item : w(i) = its[i]
  BY <1>2
<1> HIDE DEF w
<1>4. its = [i \in Item |-> its[i]]
  BY DEF Table
<1>5. QED
  BY <1>1, <1>3, <1>4

\* A committed cart is settled.
LEMMA CommitSettles ==
  ASSUME TableOK, NEW r \in Request, Cart(r)' = Cart(r), customerCart' = (customerCart \/ Cart(r) = "customer"),
         \/ \E S : Trims(Settled(items, Cart(r)), S)
         \/ \E i \in Item : \E p : Inserts(Settled(items, Cart(r)), i, Cart(r), p)
  PROVE  Settled(items, Cart(r))' = items'
<1> DEFINE c == Cart(r)
           its == Settled(items, c)
<1>1. c \in Carts /\ (c = "customer" => \A i \in Item : its[i].cart # "guest")
  BY CartOf, SettledRows
<1>2. Table(items')
  BY DEF Trims, Inserts
<1>3. c = "customer" => \A i \in Item : items'[i].cart # "guest"
  <2> HIDE DEF its, c
  <2>1. (\E S : Trims(its, S)) \/ \E i \in Item : \E p : Inserts(its, i, c, p)
    BY DEF its, c
  <2>2. QED
    BY <1>1, <2>1 DEF Trims, Inserts
<1>4. CASE c = "guest"
  BY <1>4 DEF Settled
<1>5. CASE c = "customer"
  <2>1. Settled(items, Cart(r))' = Merge(items)'
    BY <1>5 DEF Settled
  <2>2. Merge(items') = items'
    BY <1>2, <1>3, <1>5, NoneMerged
  <2>3. QED
    BY <2>1, <2>2
<1>6. QED
  BY <1>1, <1>4, <1>5 DEF Carts

\* The cart of a request does not change while the API works on it.
LEMMA WorkedCart ==
  ASSUME NEW q \in Request, Worked(q)
  PROVE  Cart(q)' = Cart(q)
  BY DEF Worked, SameAsk, Cart

LEMMA TruthAnswered ==
  ASSUME Requests, TableOK, NEW r \in Request, Active(r), \A q \in Request : Truthful(q),
         Commit(r, items'),
         (\E S : Trims(Settled(items, Cart(r)), S)) \/ \E i \in Item : \E p : Inserts(Settled(items, Cart(r)), i, Cart(r), p)
  PROVE  \A q \in Request : Truthful(q)'
<1>1. Answer(r, View(items', Cart(r))) /\ customerCart' = (customerCart \/ Cart(r) = "customer")
  BY DEF Commit
<1>2. /\ req'[r].answer = IF req[r].heard THEN View(items', Cart(r)) ELSE {}
      /\ req'[r].heard = req[r].heard /\ Cart(r)' = Cart(r)
      /\ \A q \in Request \ {r} : Waits(req'[q], req[q]) /\ (req[q].pc = "answered" => req'[q].old)
  BY <1>1, AnswerShape DEF SameAsk, Cart
<1>3. Settled(items, Cart(r))' = items'
  BY <1>1, <1>2, CommitSettles
<1>4. Truthful(r)'
  <2>1. View(Settled(items, Cart(r)), Cart(r))' = View(items', Cart(r))
    BY <1>2, <1>3 DEF View, Rows
  <2>2. QED
    BY <1>2, <2>1 DEF Truthful
<1>5. ASSUME NEW q \in Request \ {r} PROVE Truthful(q)'
  BY <1>2 DEF Truthful, Waits
<1>6. QED
  BY <1>4, <1>5

LEMMA TruthServed ==
  ASSUME Requests, TableOK, NEW r \in Request, Served(r), \A q \in Request : Truthful(q)
  PROVE  \A q \in Request : Truthful(q)'
<1>0. Active(r) /\ \A q \in Request \ {r} : Told(q)
  <2>1. Active(r)
    BY DEF Served, Active, HandleRead, FindItem, WriteItem, HandleSet, HandleRemove, HandleClear, HandleCheckout, HandleAuth
  <2>2. QED
    BY <2>1, ServedWorks, WaitsTold
<1>1. ASSUME Refuse(r), UNCHANGED <<items, customerCart>> PROVE \A q \in Request : Truthful(q)'
  BY <1>0, <1>1, RefuseShape, WaitsTold, TruthKept
<1>2. ASSUME NEW S, Committed(r, S) PROVE \A q \in Request : Truthful(q)'
  BY <1>0, <1>2, TruthAnswered DEF Committed
<1>3. CASE HandleSet(r) \/ HandleRemove(r) \/ HandleClear(r)
  BY <1>1, <1>2, <1>3, SetRows, RemoveRows, ClearRows DEF Refused
<1>4. CASE WriteItem(r)
  BY <1>0, <1>1, <1>2, <1>4, WriteRows, TruthAnswered DEF Refused
<1>5. CASE HandleCheckout(r)
  <2>1. (Refused(r) /\ customerCart' = customerCart) \/ Answer(r, {})
    BY <1>5, CheckoutRows
  <2>2. CASE Answer(r, {})
    <3>1. /\ SameAsk(req'[r], req[r]) /\ req[r].kind = "checkout"
          /\ \A q \in Request \ {r} : Waits(req'[q], req[q]) /\ (req[q].pc = "answered" => req'[q].old)
      BY <1>5, <2>2, AnswerShape DEF HandleCheckout
    <3>2. QED
      BY <3>1 DEF Truthful, Waits, SameAsk
  <2>3. QED
    BY <1>1, <2>1, <2>2 DEF Refused
<1>6. CASE FindItem(r) \/ HandleAuth(r)
  <2>1. UNCHANGED <<items, customerCart>>
    BY <1>6 DEF FindItem, HandleAuth
  <2>2. SameAsk(req'[r], req[r]) /\ req[r].kind \notin {"read", "set", "remove", "clear"}
    BY <1>6, ServedWorks DEF Worked, Served, FindItem, HandleAuth
  <2>3. FindItem(r) => req'[r].pc \in {"found", "failed"}
    BY <1>0, RefuseShape DEF FindItem, Requests, Shape, Fields
  <2>4. HandleAuth(r) => req[r].kind # "add"
    BY DEF HandleAuth
  <2>5. Truthful(r)'
    BY <1>6, <2>2, <2>3, <2>4 DEF Truthful, SameAsk
  <2>6. QED
    BY <1>0, <2>1, <2>5, TruthKept
<1>7. CASE HandleRead(r)
  <2>1. UNCHANGED <<items, customerCart>>
    BY <1>7 DEF HandleRead
  <2>2. CASE Refuse(r)
    BY <1>1, <2>1, <2>2
  <2>3. CASE req' = [req EXCEPT ![r].pc = "answered", ![r].answer = View(Settled(items, Cart(r)), Cart(r))]
    <3> DEFINE a == View(Settled(items, Cart(r)), Cart(r))
    <3>1. Shape(req[r]) /\ req = [q \in Request |-> req[q]]
      BY DEF Requests
    <3>2. req'[r].answer = a
      <4> HIDE DEF a
      <4>1. req' = [req EXCEPT ![r].pc = "answered", ![r].answer = a]
        BY <2>3 DEF a
      <4>2. QED
        BY <3>1, <4>1 DEF Shape, Fields
    <3>3. Cart(r)' = Cart(r)
      BY <1>7, ServedWorks, WorkedCart DEF Served
    <3>4. a' = a
      BY <2>1, <3>3, SettledSame
    <3>5. Truthful(r)'
      BY <3>2, <3>4 DEF Truthful
    <3>6. QED
      BY <1>0, <2>1, <3>5, TruthKept
  <2>4. QED
    BY <1>7, <2>2, <2>3 DEF HandleRead
<1>8. QED
  BY <1>3, <1>4, <1>5, <1>6, <1>7 DEF Served

\* The page goes on waiting for q.
Listens(q) == Heard(q) /\ req[q].kind \in CartKinds => Heard(q)' /\ req'[q].kind = req[q].kind

LEMMA Listening ==
  ASSUME NEW q \in Request
  PROVE  /\ Worked(q) => Listens(q)
         /\ req'[q] = req[q] => Listens(q)
         /\ ~Heard(q) \/ req[q].kind \notin CartKinds => Listens(q)
         /\ Waits(req'[q], req[q]) /\ req'[q].heard = req[q].heard => Listens(q)
  BY DEF Worked, Waits, SameAsk, Listens, Heard, Active

LEMMA FaithKept ==
  ASSUME Faithful, UNCHANGED <<items, customerCart, shown, at, confirmed>>, astray => astray',
         Serving' = Serving \/ astray' \/ at # "shop", \A q \in Request : Listens(q)
  PROVE  Faithful'
<1>1. SUFFICES ASSUME at = "shop", ~confirmed, ~astray', ~Pending', Serving' = Serving
               PROVE  shown' = Now' \/ (shown' = {} /\ Awaited')
  BY DEF Faithful
<1>2. ~Pending /\ (Awaited => Awaited')
  BY <1>1 DEF Pending, Awaited, Listens, CartKinds
<1>3. Now' = Now
  BY <1>1, SettledSame DEF Now
<1>4. QED
  BY <1>1, <1>2, <1>3 DEF Faithful

\* The page is sure of nothing now.
LEMMA FaithVoid ==
  ASSUME at' # "shop" \/ confirmed' \/ astray' \/ Pending'
  PROVE  Faithful'
  BY DEF Faithful

LEMMA FaithServed ==
  ASSUME ViewInv, NEW r \in Request, Served(r)
  PROVE  Faithful'
<1>1. Requests /\ TableOK /\ Adding(r) /\ Faithful
  BY DEF ViewInv, IdInv, RowInv
<1>2. UNCHANGED page /\ (\A q \in Request : Worked(q) /\ Listens(q))
  BY <1>1, ServedWorks, Listening
<1>3. ASSUME UNCHANGED <<items, customerCart, astray>> PROVE Faithful'
  BY <1>1, <1>2, <1>3, FaithKept DEF page, Serving
<1>4. ASSUME req[r].kind \in CartKinds \ {"read"}, Active(r), astray' = (astray \/ ~req[r].heard) PROVE Faithful'
  <2>1. CASE ~req[r].heard
    BY <1>4, <2>1, FaithVoid
  <2>2. CASE req[r].heard
    <3>1. Pending'
      BY <1>2, <1>4, <2>2 DEF Pending, Heard, Worked, SameAsk
    <3>2. QED
      BY <3>1, FaithVoid
  <2>3. QED
    BY <2>1, <2>2
<1> USE DEF CartKinds, Active
<1>5. CASE HandleSet(r)
  BY <1>1, <1>3, <1>4, <1>5, SetRows DEF HandleSet, Refused, Committed, Commit
<1>6. CASE HandleRemove(r)
  BY <1>1, <1>3, <1>4, <1>6, RemoveRows DEF HandleRemove, Refused, Committed, Commit
<1>7. CASE HandleClear(r)
  BY <1>1, <1>3, <1>4, <1>7, ClearRows DEF HandleClear, Refused, Committed, Commit
<1>8. CASE HandleCheckout(r)
  BY <1>1, <1>3, <1>4, <1>8, CheckoutRows DEF HandleCheckout, Refused
<1>9. CASE WriteItem(r)
  <2>1. req[r].pc = "found" /\ req[r].kind = "add"
    BY <1>1, <1>9 DEF WriteItem, Adding
  <2>2. Refused(r) \/ \E its : Commit(r, its)
    BY <1>1, <1>9, WriteRows DEF Committed
  <2>3. QED
    BY <1>3, <1>4, <2>1, <2>2 DEF Refused, Commit
<1>10. CASE HandleRead(r) \/ FindItem(r) \/ HandleAuth(r)
  BY <1>3, <1>10 DEF HandleRead, FindItem, HandleAuth, hist
<1>11. QED
  BY <1>5, <1>6, <1>7, <1>8, <1>9, <1>10 DEF Served

LEMMA FaithActs ==
  ASSUME ViewInv, NEW r \in Request, Acts(r)
  PROVE  Faithful'
<1>1. Requests /\ Faithful /\ (confirmed => at = "shop")
  BY DEF ViewInv, IdInv
<1>2. ASSUME NEW kind \in CartKinds \ {"read"}, Sent(r, kind) PROVE Faithful'
  <2>1. Pending'
    BY <1>2 DEF Sent, Fresh, Pending, Heard, Active
  <2>2. QED
    BY <2>1, FaithVoid
<1>3. ASSUME shown' = {}, Heard(r)', req'[r].kind = "read" PROVE Faithful'
  BY <1>3 DEF Faithful, Awaited
<1>4. CASE addToCart(r)
  BY <1>1, <1>2, <1>4, AddSent DEF CartKinds
<1>5. CASE removeFromCart(r)
  <2>1. PICK l \in shown : req' = [req EXCEPT ![r] = IF l.id = None
                                                    THEN [Ask("clear") EXCEPT !.lost = TRUE]
                                                    ELSE [Ask("remove") EXCEPT !.item = l.id, !.product = l.product]]
    BY <1>5 DEF removeFromCart
  <2>2. ~Active(r)
    BY <1>5 DEF removeFromCart
  <2>3. QED
    BY <1>1, <1>2, <2>1, <2>2, RemoveSent DEF SentAlone, CartKinds
<1>6. CASE setQuantity(r)
  BY <1>1, <1>2, <1>6, QuantitySent, FaithVoid DEF SentAlone, CartKinds
<1>7. CASE handleSubmit(r) \/ handleContinue(r)
  BY <1>1, <1>2, <1>7, SubmitSent, ContinueSent DEF SentAlone, CartKinds
<1>8. CASE Reload(r)
  BY <1>1, <1>3, <1>8, ReloadSent DEF Fresh, Heard, Active
<1>9. CASE SignIn(r) \/ BackToStore(r)
  <2>1. shown' = {} /\ req' = [req EXCEPT ![r] = Ask("read")]
    BY <1>9 DEF SignIn, BackToStore, Mount
  <2>2. QED
    BY <1>1, <1>3, <2>1, Turns DEF Turned, Heard, Active
<1>10. CASE OpenLogin(r) \/ OpenAccount(r)
  BY <1>10, FaithVoid DEF OpenLogin, OpenAccount
<1>11. CASE KeepTokens(r) \/ LoginFails(r) \/ LoginDenied(r)
  <2>1. Heard(r) /\ req[r].kind \in {"login", "who"} /\ at' = at
    BY <1>11 DEF KeepTokens, LoginFails, LoginDenied, Heard, Active, page
  <2>2. at = "login"
    BY <2>1 DEF ViewInv, IdInv, Placed
  <2>3. QED
    BY <2>1, <2>2, FaithVoid
<1>12. CASE logout(r) \/ handleSaveProfile(r)
  <2>1. UNCHANGED <<items, customerCart, shown, at, confirmed, access, astray>> /\ ~Active(r)
    BY <1>12 DEF logout, handleSaveProfile, page, hist
  <2>2. req' = req \/ \A q \in Request \ {r} : req'[q] = req[q]
    BY <1>1, <1>12, Turns DEF logout, handleSaveProfile, Turned
  <2>3. \A q \in Request : Listens(q)
    BY <2>1, <2>2, Listening DEF Heard
  <2>4. QED
    BY <1>1, <2>1, <2>3, FaithKept DEF Serving
<1>13. QED
  BY <1>4, <1>5, <1>6, <1>7, <1>8, <1>9, <1>10, <1>11, <1>12 DEF Acts

LEMMA FaithOver ==
  ASSUME ViewInv, NEW r \in Request, Over(r) \/ SignOut(r)
  PROVE  Faithful'
<1>1. Requests /\ Faithful /\ Truthful(r)
  BY DEF ViewInv, IdInv
<1>2. Ended(r) /\ UNCHANGED <<items, customerCart, at>>
  BY <1>1, OverEnds
<1>3. \A q \in Request \ {r} : Listens(q)
  BY <1>2, Listening DEF Ended
<1>4. CASE SignOut(r) \/ KeepShown(r) \/ ShowOrder(r)
  BY <1>4, FaithVoid DEF SignOut, KeepShown, ShowOrder
<1>5. CASE ShowCustomer(r) \/ Denied(r) \/ Unheard(r)
  <2>0. ~Heard(r) \/ req[r].kind \notin CartKinds
    BY <1>5 DEF ShowCustomer, Denied, Unheard, Heard, CartKinds
  <2>1. UNCHANGED <<shown, confirmed>> /\ (astray => astray')
    <3>1. ShowCustomer(r) => UNCHANGED <<shown, confirmed>> /\ (astray => astray')
      BY DEF ShowCustomer, hist
    <3>2. Denied(r) => UNCHANGED <<shown, confirmed>> /\ (astray => astray')
      BY DEF Denied
    <3>3. Unheard(r) => UNCHANGED <<shown, confirmed>> /\ (astray => astray')
      BY DEF Unheard, page, hist
    <3>4. QED
      BY <1>5, <3>1, <3>2, <3>3
  <2>2. Listens(r)
    BY <2>0, Listening
  <2>3. Serving' = Serving \/ astray'
    BY <1>5, StorefrontAssumption DEF ShowCustomer, Denied, Unheard, page, Serving
  <2>4. QED
    BY <1>1, <1>2, <1>3, <2>1, <2>2, <2>3, FaithKept
<1>6. CASE ShowCart(r) \/ syncFromServer(r)
  <2>1. SUFFICES ASSUME at = "shop", ~confirmed, ~astray', ~Pending' PROVE shown' = Now'
    BY <1>2, <1>6 DEF Faithful, ShowCart, syncFromServer
  <2>2. /\ ~req[r].old /\ Cart(r) = Serving /\ access' = access
        /\ req[r].pc = "answered" /\ req[r].heard /\ req[r].kind \in {"read", "add", "set", "remove", "clear"}
    BY <1>6, <2>1 DEF ShowCart, syncFromServer
  <2>3. Now' = Now /\ req[r].answer = Now
    BY <1>1, <1>2, <2>2, SettledSame DEF Now, Serving, Truthful
  <2>4. CASE ShowCart(r)
    BY <2>3, <2>4 DEF ShowCart
  <2>5. CASE syncFromServer(r)
    <3>1. ~astray /\ req[r].kind = "read"
      BY <2>1, <2>5 DEF syncFromServer
    <3>2. ~Pending
      BY <1>3, <2>1, <3>1 DEF Pending, Listens
    <3>3. shown = Now \/ shown = {}
      BY <1>1, <2>1, <3>1, <3>2 DEF Faithful
    <3>4. {l \in shown : l.product \notin Products(req[r].answer)} = {}
      BY <2>3, <3>3 DEF Products
    <3>5. QED
      BY <2>3, <2>5, <3>4 DEF syncFromServer
  <2>6. QED
    BY <1>6, <2>4, <2>5
<1>7. QED
  BY <1>4, <1>5, <1>6 DEF Over

LEMMA ViewInit ==
  ASSUME Init
  PROVE  ViewInv
<1>1. PICK r \in Request : req = [q \in Request |-> IF q = r THEN Ask("read") ELSE Idle]
  BY DEF Init
<1>2. \A q \in Request : req[q].pc # "answered"
  BY <1>1, IdleShape, AskFields
<1>3. Awaited /\ shown = {}
  BY <1>1, AskFields DEF Init, Awaited, Heard, Active
<1>4. QED
  BY <1>2, <1>3, IdInit, RowInit DEF ViewInv, Truthful, Faithful

LEMMA ViewNext ==
  ASSUME ViewInv, [Next]_vars
  PROVE  ViewInv'
<1>0. IdInv /\ RowInv /\ Requests /\ TableOK /\ Faithful /\ (\A q \in Request : Truthful(q)) /\ IdInv' /\ RowInv'
  BY IdNext, RowNext DEF ViewInv, IdInv, RowInv
<1>1. ASSUME UNCHANGED <<items, customerCart>>, \A q \in Request : Told(q)
      PROVE  \A q \in Request : Truthful(q)'
  BY <1>0, <1>1, TruthKept
<1>2. CASE Expire
  <2>1. UNCHANGED <<items, customerCart, req>> /\ astray'
    BY <1>2 DEF Expire
  <2>2. QED
    BY <1>0, <1>1, <2>1, WaitsTold, FaithVoid DEF ViewInv
<1>3. CASE UNCHANGED vars
  <2>1. UNCHANGED <<items, customerCart, shown, at, confirmed, astray, access, req>>
    BY <1>3 DEF vars
  <2>2. QED
    BY <1>0, <1>1, <2>1, WaitsTold, Listening, FaithKept DEF ViewInv, Serving
<1>4. ASSUME NEW r \in Request, Served(r) PROVE ViewInv'
  BY <1>0, <1>4, TruthServed, FaithServed DEF ViewInv
<1>5. ASSUME NEW r \in Request, Acts(r) PROVE ViewInv'
  BY <1>0, <1>1, <1>5, ActsAlone, FaithActs DEF ViewInv
<1>6. ASSUME NEW r \in Request, Over(r) \/ SignOut(r) PROVE ViewInv'
  BY <1>0, <1>1, <1>6, OverEnds, WaitsTold, FaithOver DEF ViewInv, Ended
<1>7. QED
  BY <1>2, <1>3, <1>4, <1>5, <1>6, Steps

\* Once all requests have been answered the page shows the cart that the API would
\* serve, however many there were, unless one failed, an older answer came last or
\* the shopper's identity changed (storefront-context.tsx, cart_service.py).
THEOREM PageShowsTheCart == Spec => []ShownIsServed
<1>1. Init => ViewInv
  BY ViewInit
<1>2. ViewInv /\ [Next]_vars => ViewInv'
  BY ViewNext
<1>3. ViewInv => ShownIsServed
  BY DEF ViewInv, Faithful, ShownIsServed, Pending, Awaited, Heard, Quiet, Now
<1>4. QED
  BY <1>1, <1>2, <1>3, PTL DEF Spec

---------------------------------------------------------------------------
(* What the lines say *)

\* Row i is, or was, one of product p.
Names(i, p) ==
  i \in Item /\ items[i].cart # None /\ (items[i].cart # "gone" => items[i].product = p)

LineOk(l) ==
  l = [product |-> l.product, quantity |-> l.quantity, id |-> l.id] /\ (l.id # None => Names(l.id, l.product))

Lines ==
  /\ \A l \in shown : LineOk(l)
  /\ \A r \in Request : \A l \in req[r].answer : LineOk(l)

\* A row keeps its product.
Lasting == \A i, p : Names(i, p) => Names(i, p)'

LEMMA SettledNames ==
  ASSUME TableOK, NEW c \in Carts, NEW its, its = Settled(items, c), NEW i \in Item
  PROVE  /\ its[i].cart = None <=> items[i].cart = None
         /\ items[i].cart = "gone" => its[i].cart = "gone"
         /\ its[i].cart # "gone" => its[i].product = items[i].product
<1>1. None \notin Carts /\ "gone" \notin Carts /\ None # "gone"
  BY StorefrontAssumption DEF Carts
<1>2. /\ i \in Part(c) <=> its[i].cart = c
      /\ its[i].cart # "gone" => its[i].product = items[i].product
      /\ items[i].cart \notin Carts \/ its[i].cart = "gone" \/ i \in Part(c) \/ its[i].cart = items[i].cart
      /\ items[i].cart \notin Carts => its[i].cart = items[i].cart
  BY SettledRows
<1>3. QED
  BY <1>1, <1>2

LEMMA SameLasts ==
  ASSUME items' = items
  PROVE  Lasting
  BY DEF Lasting, Names

LEMMA TrimsLasts ==
  ASSUME TableOK, NEW c \in Carts, NEW S, Trims(Settled(items, c), S) \/ Trims(items, S)
  PROVE  Lasting
<1> SUFFICES ASSUME NEW i, NEW p, Names(i, p) PROVE Names(i, p)'
  BY DEF Lasting
<1>1. None # "gone" /\ i \in Item
  BY StorefrontAssumption DEF Names
<1>2. CASE Trims(items, S)
  BY <1>1, <1>2 DEF Trims, Names
<1>3. CASE Trims(Settled(items, c), S)
  <2> DEFINE its == Settled(items, c)
  <2>1. /\ its[i].cart = None <=> items[i].cart = None
        /\ items[i].cart = "gone" => its[i].cart = "gone"
        /\ its[i].cart # "gone" => its[i].product = items[i].product
    BY <1>1, SettledNames
  <2>2. Trims(its, S)
    BY <1>3
  <2> HIDE DEF its
  <2>3. QED
    BY <1>1, <2>1, <2>2 DEF Trims, Names
<1>4. QED
  BY <1>2, <1>3

LEMMA InsertsLasts ==
  ASSUME TableOK, NEW c \in Carts, NEW j \in Item, NEW v, Inserts(Settled(items, c), j, c, v)
  PROVE  Lasting
<1> SUFFICES ASSUME NEW i, NEW p, Names(i, p) PROVE Names(i, p)'
  BY DEF Lasting
<1> DEFINE its == Settled(items, c)
<1>1. i \in Item /\ i # j
  BY DEF Names, Inserts
<1>2. /\ its[i].cart = None <=> items[i].cart = None
      /\ items[i].cart = "gone" => its[i].cart = "gone"
      /\ its[i].cart # "gone" => its[i].product = items[i].product
  BY <1>1, SettledNames
<1>3. items'[i] = its[i]
  BY <1>1 DEF Inserts
<1>4. QED
  BY <1>1, <1>2, <1>3 DEF Names

LEMMA ServedLasts ==
  ASSUME TableOK, NEW r \in Request, Served(r)
  PROVE  Lasting
<1>1. Cart(r) \in Carts
  BY CartOf
<1>2. CASE HandleSet(r) \/ HandleRemove(r) \/ HandleClear(r)
  BY <1>1, <1>2, SetRows, RemoveRows, ClearRows, SameLasts, TrimsLasts DEF Refused, Committed
<1>3. CASE WriteItem(r)
  BY <1>1, <1>3, WriteRows, SameLasts, TrimsLasts, InsertsLasts DEF Refused, Committed
<1>4. CASE HandleCheckout(r)
  BY <1>1, <1>4, CheckoutRows, SameLasts, TrimsLasts DEF Refused
<1>5. CASE HandleRead(r) \/ FindItem(r) \/ HandleAuth(r)
  BY <1>5, SameLasts DEF HandleRead, FindItem, HandleAuth
<1>6. QED
  BY <1>2, <1>3, <1>4, <1>5 DEF Served

\* The lines of a cart name its rows.
LEMMA ViewLines ==
  ASSUME NEW its, NEW c \in Carts, NEW l \in View(its, c)
  PROVE  /\ l = [product |-> l.product, quantity |-> l.quantity, id |-> l.id]
         /\ l.id \in Item /\ its[l.id].cart = c /\ its[l.id].product = l.product
<1>1. PICK i \in Rows(its, c) : l = [product |-> its[i].product, quantity |-> its[i].quantity, id |-> i]
  BY DEF View
<1>2. QED
  BY <1>1 DEF Rows

\* What an answer may tell.
LEMMA ServedAnswer ==
  ASSUME Requests, TableOK, NEW r \in Request, Served(r)
  PROVE  \/ Quotes(r)
         \/ req'[r].answer = View(Settled(items, Cart(r)), Cart(r)) /\ items' = items
         \/ req'[r].answer = View(items', Cart(r))
<1>0. Active(r) /\ Shape(req[r])
  BY DEF Requests, Served, Active, HandleRead, FindItem, WriteItem, HandleSet, HandleRemove, HandleClear, HandleCheckout, HandleAuth
<1>1. ASSUME Refuse(r) PROVE Quotes(r)
  BY <1>0, <1>1, RefuseShape DEF Quotes
<1>2. ASSUME NEW a, Answer(r, a) PROVE req'[r].answer = a \/ Quotes(r)
  BY <1>2, AnswerShape DEF Quotes
<1>3. CASE HandleSet(r) \/ HandleRemove(r) \/ HandleClear(r)
  BY <1>1, <1>2, <1>3, SetRows, RemoveRows, ClearRows DEF Refused, Committed, Commit
<1>4. CASE WriteItem(r)
  BY <1>1, <1>2, <1>4, WriteRows DEF Refused, Committed, Commit
<1>5. CASE HandleCheckout(r)
  BY <1>1, <1>2, <1>5, CheckoutRows DEF Refused, Quotes
<1>6. CASE FindItem(r)
  <2> DEFINE its == Settled(items, Cart(r))
             row == Of(its, Cart(r), req[r].product)
             sum == Lesser(MAX_QUANTITY, req[r].quantity + MapThenSumSet(LAMBDA i : its[i].quantity, row))
             found == IF row = {} THEN None ELSE CHOOSE i \in row : TRUE
  <2>1. Refuse(r) \/ req' = [req EXCEPT ![r].pc = "found", ![r].quantity = sum, ![r].found = found]
    BY <1>6, Zenon DEF FindItem
  <2> HIDE DEF sum, found
  <2>2. QED
    BY <1>0, <1>1, <2>1 DEF Requests, Shape, Fields, Quotes
<1>7. CASE HandleAuth(r)
  <2>1. PICK pc : req' = [req EXCEPT ![r].pc = pc]
    BY <1>7 DEF HandleAuth
  <2>2. QED
    BY <1>0, <2>1 DEF Requests, Shape, Fields, Quotes
<1>8. CASE HandleRead(r)
  <2> DEFINE a == View(Settled(items, Cart(r)), Cart(r))
  <2>1. items' = items /\ (Refuse(r) \/ req' = [req EXCEPT ![r].pc = "answered", ![r].answer = a])
    BY <1>8 DEF HandleRead
  <2>2. req' = [req EXCEPT ![r].pc = "answered", ![r].answer = a] => req'[r].answer = a
    <3> HIDE DEF a
    <3>1. QED
      BY <1>0 DEF Requests, Shape, Fields
  <2>3. QED
    BY <1>1, <2>1, <2>2
<1>9. QED
  BY <1>3, <1>4, <1>5, <1>6, <1>7, <1>8 DEF Served

LEMMA LinesServed ==
  ASSUME Requests, TableOK, Lines, NEW r \in Request, Served(r)
  PROVE  Lines'
<1>1. None \notin Carts /\ "gone" \notin Carts /\ Cart(r) \in Carts
  BY StorefrontAssumption, CartOf DEF Carts
<1>2. shown' = shown /\ \A q \in Request \ {r} : Quotes(q)
  BY ServedWorks, WaitsQuotes DEF page
<1>3. \A l : LineOk(l) => LineOk(l)'
  BY ServedLasts DEF Lasting, LineOk
<1>4. ASSUME NEW l \in req'[r].answer PROVE LineOk(l)'
  <2>1. CASE Quotes(r)
    BY <1>3, <1>4, <2>1 DEF Quotes, Lines
  <2>2. CASE req'[r].answer = View(items', Cart(r))
    BY <1>1, <1>4, <2>2, ViewLines DEF LineOk, Names
  <2>3. CASE req'[r].answer = View(Settled(items, Cart(r)), Cart(r)) /\ items' = items
    <3> DEFINE c == Cart(r)
               its == Settled(items, c)
    <3>1. /\ l = [product |-> l.product, quantity |-> l.quantity, id |-> l.id]
          /\ l.id \in Item /\ its[l.id].cart = c /\ its[l.id].product = l.product
      BY <1>1, <1>4, <2>3, ViewLines
    <3>2. /\ its[l.id].cart = None <=> items[l.id].cart = None
          /\ items[l.id].cart = "gone" => its[l.id].cart = "gone"
          /\ its[l.id].cart # "gone" => its[l.id].product = items[l.id].product
      BY <1>1, <3>1, SettledNames
    <3> HIDE DEF its, c
    <3>3. c \in Carts
      BY <1>1 DEF c
    <3>4. QED
      BY <1>1, <2>3, <3>1, <3>2, <3>3 DEF LineOk, Names
  <2>4. QED
    BY <2>1, <2>2, <2>3, ServedAnswer
<1>5. QED
  BY <1>2, <1>3, <1>4 DEF Lines, Quotes

LEMMA LinesMoved ==
  ASSUME Lines, items' = items, \A q \in Request : Quotes(q), \A l \in shown' : LineOk(l)
  PROVE  Lines'
<1>1. \A l : LineOk(l) => LineOk(l)'
  BY DEF LineOk, Names
<1>2. QED
  BY <1>1 DEF Lines, Quotes

\* A line whose quantity changes.
LEMMA LineGrows ==
  ASSUME NEW l, LineOk(l), NEW n
  PROVE  LineOk([l EXCEPT !.quantity = n]) /\ [l EXCEPT !.quantity = n].product = l.product
<1> DEFINE k == [l EXCEPT !.quantity = n]
<1>1. l = [product |-> l.product, quantity |-> l.quantity, id |-> l.id]
  BY DEF LineOk
<1>2. k = [product |-> l.product, quantity |-> n, id |-> l.id]
  BY <1>1
<1>3. k.product = l.product /\ k.quantity = n /\ k.id = l.id
  BY <1>2
<1> HIDE DEF k
<1>4. LineOk(k)
  BY <1>2, <1>3 DEF LineOk
<1>5. QED
  BY <1>3, <1>4 DEF k

LEMMA LinesActs ==
  ASSUME Requests, Lines, NEW r \in Request, Acts(r)
  PROVE  Lines'
<1>1. items' = items /\ \A q \in Request : Quotes(q)
  BY ActsAlone
<1>2. CASE shown' \subseteq shown
  BY <1>1, <1>2, LinesMoved DEF Lines
<1>3. CASE addToCart(r)
  <2>1. PICK p \in Product :
          shown' = IF p \in Products(shown)
                   THEN {IF l.product = p THEN [l EXCEPT !.quantity = @ + 1] ELSE l : l \in shown}
                   ELSE shown \cup {[product |-> p, quantity |-> 1, id |-> None]}
    BY <1>3 DEF addToCart
  <2>2. ASSUME NEW l \in shown' PROVE LineOk(l)
    <3>1. CASE p \in Products(shown)
      <4>1. PICK k \in shown : l = IF k.product = p THEN [k EXCEPT !.quantity = k.quantity + 1] ELSE k
        BY <2>1, <2>2, <3>1
      <4>2. LineOk(k)
        BY DEF Lines
      <4>3. QED
        BY <4>1, <4>2, LineGrows
    <3>2. CASE p \notin Products(shown)
      <4>1. LineOk([product |-> p, quantity |-> 1, id |-> None])
        BY DEF LineOk
      <4>2. QED
        BY <2>1, <2>2, <3>2, <4>1 DEF Lines
    <3>3. QED
      BY <3>1, <3>2
  <2>3. QED
    BY <1>1, <2>2, LinesMoved
<1>4. CASE setQuantity(r)
  <2>1. PICK m \in shown : \E n \in {m.quantity - 1, m.quantity + 1} :
          shown' = IF n = 0 THEN {k \in shown : k.product # m.product}
                   ELSE {IF k.product = m.product THEN [k EXCEPT !.quantity = n] ELSE k : k \in shown}
    BY <1>4 DEF setQuantity
  <2>2. PICK n \in {m.quantity - 1, m.quantity + 1} :
          shown' = IF n = 0 THEN {k \in shown : k.product # m.product}
                   ELSE {IF k.product = m.product THEN [k EXCEPT !.quantity = n] ELSE k : k \in shown}
    BY <2>1
  <2>3. ASSUME n # 0, NEW l \in shown' PROVE LineOk(l)
    <3>1. PICK k \in shown : l = IF k.product = m.product THEN [k EXCEPT !.quantity = n] ELSE k
      BY <2>2, <2>3
    <3>2. LineOk(k)
      BY DEF Lines
    <3>3. QED
      BY <3>1, <3>2, LineGrows
  <2>4. QED
    BY <1>1, <1>2, <2>2, <2>3, LinesMoved
<1>5. CASE removeFromCart(r)
  BY <1>2, <1>5 DEF removeFromCart
<1>6. CASE handleSubmit(r) \/ KeepTokens(r) \/ LoginFails(r) \/ LoginDenied(r) \/ logout(r) \/ handleSaveProfile(r)
  BY <1>2, <1>6 DEF handleSubmit, KeepTokens, LoginFails, LoginDenied, logout, handleSaveProfile, page
<1>7. CASE handleContinue(r) \/ OpenLogin(r) \/ OpenAccount(r) \/ SignIn(r) \/ BackToStore(r)
  BY <1>2, <1>7 DEF handleContinue, OpenLogin, OpenAccount, SignIn, BackToStore, Mount
<1>8. CASE Reload(r)
  BY <1>2, <1>8, ReloadSent
<1>9. QED
  BY <1>3, <1>4, <1>5, <1>6, <1>7, <1>8 DEF Acts

LEMMA LinesOver ==
  ASSUME Requests, Lines, NEW r \in Request, Over(r) \/ SignOut(r)
  PROVE  Lines'
<1>1. items' = items /\ \A q \in Request : Quotes(q)
  BY OverEnds, WaitsQuotes DEF Ended
<1>2. shown' \subseteq shown \cup req[r].answer
  <2>1. ShowCart(r) \/ syncFromServer(r) => shown' \subseteq shown \cup req[r].answer
    BY DEF ShowCart, syncFromServer
  <2>2. ShowCustomer(r) \/ Denied(r) \/ ShowOrder(r) \/ KeepShown(r) \/ Unheard(r) \/ SignOut(r) => shown' = shown
    BY DEF ShowCustomer, Denied, ShowOrder, KeepShown, Unheard, SignOut, page
  <2>3. QED
    BY <2>1, <2>2 DEF Over
<1>3. QED
  BY <1>1, <1>2, LinesMoved DEF Lines

---------------------------------------------------------------------------
(* What the shopper has seen confirmed *)

\* A product of the cart that c is served.
InPart(c, p) == \E i \in Part(c) : items[i].product = p

\* A product with a row.
Kept(p) == \E i \in Item : items[i].cart \in Carts /\ items[i].product = p

\* An addition that the API has yet to write.
Unwritten(q, p) == req[q].pc \in {"sent", "found"} /\ req[q].kind = "add" /\ req[q].product = p

Explained == excused \cup unmerged

\* A removal is of the row of the product that the page has taken away.
Removing(r) ==
  req[r].pc = "sent" /\ req[r].kind = "remove" => req[r].product \notin owed /\ Names(req[r].item, req[r].product)

Ordered(r) == IF req[r].kind = "checkout" THEN Products(req[r].lines) ELSE {}

\* An order, or the clearing of the cart after it, leaves nothing out that is owed.
Sure(r) ==
  req[r].pc = "sent" /\ req[r].kind \in {"checkout", "clear"} /\ ~req[r].lost
    => \A p \in owed : InPart(Cart(r), p) \/ (\E q \in Request : Unwritten(q, p)) => p \in Ordered(r) \cup Explained

\* The page shows what is owed of the cart it would be served.
Known ==
  at = "shop" /\ ~astray /\ ~Awaited
    => \A p \in owed : InPart(Serving, p)
         => p \in Products(shown) \cup Explained \/ \E q \in Request : Heard(q) /\ req[q].kind = "add" /\ req[q].product = p

KeptInv ==
  /\ ViewInv /\ Lines /\ Known
  /\ \A r \in Request : Removing(r) /\ Sure(r)
  /\ \A p \in owed \ Explained : Kept(p)

\* q is not handled yet and was not before, and asks for what it did.
Waiting(q) ==
  req'[q].pc = "sent" /\ req'[q].kind \in {"add", "remove", "clear", "checkout"}
    => req[q].pc = "sent" /\ SameAsk(req'[q], req[q]) /\ (req[q].lost => req'[q].lost)

LEMMA WaitsWaiting ==
  ASSUME NEW q \in Request
  PROVE  /\ Waits(req'[q], req[q]) => Waiting(q)
         /\ req'[q] = req[q] => Waiting(q)
         /\ req'[q].pc # "sent" => Waiting(q)
         /\ req'[q].kind \notin {"add", "remove", "clear", "checkout"} => Waiting(q)
  BY DEF Waits, SameAsk, Waiting

LEMMA WaitingUnwritten ==
  ASSUME NEW q \in Request, Waiting(q), Looking(q), NEW p, Unwritten(q, p)'
  PROVE  Unwritten(q, p)
  BY DEF Waiting, Looking, Unwritten, SameAsk

LEMMA RemovingKept ==
  ASSUME NEW q \in Request, Removing(q), Waiting(q), Lasting, owed' \subseteq owed
  PROVE  Removing(q)'
  BY DEF Removing, Waiting, SameAsk, Lasting

LEMMA SureKept ==
  ASSUME NEW q \in Request, Sure(q), Waiting(q), owed' \subseteq owed, Explained \subseteq Explained',
         \A p \in owed : InPart(Cart(q), p)' \/ (\E s \in Request : Unwritten(s, p)')
                           => InPart(Cart(q), p) \/ (\E s \in Request : Unwritten(s, p)) \/ req'[q].lost
  PROVE  Sure(q)'
<1> SUFFICES ASSUME req'[q].pc = "sent", req'[q].kind \in {"checkout", "clear"}, ~req'[q].lost, NEW p \in owed',
                    InPart(Cart(q), p)' \/ (\E s \in Request : Unwritten(s, p)')
             PROVE  p \in Ordered(q)' \cup Explained'
  BY DEF Sure
<1>1. req[q].pc = "sent" /\ SameAsk(req'[q], req[q]) /\ ~req[q].lost
  BY DEF Waiting
<1>2. Ordered(q)' = Ordered(q)
  BY <1>1 DEF Ordered, SameAsk, Products
<1>3. p \in Ordered(q) \cup Explained
  BY <1>1 DEF Sure, SameAsk
<1>4. QED
  BY <1>2, <1>3

LEMMA ServedOwed ==
  ASSUME TableOK, NEW r \in Request, Served(r)
  PROVE  owed' \subseteq owed /\ Explained \subseteq Explained' /\ (astray => astray')
<1>1. CASE HandleSet(r) \/ HandleRemove(r) \/ HandleClear(r)
  BY <1>1, SetRows, RemoveRows, ClearRows DEF Refused, Committed, Commit, Explained
<1>2. CASE WriteItem(r)
  BY <1>2, WriteRows DEF Refused, Committed, Commit, Explained
<1>3. CASE HandleCheckout(r)
  BY <1>3, CheckoutRows DEF Refused, Explained
<1>4. CASE HandleRead(r) \/ FindItem(r) \/ HandleAuth(r)
  <2>1. UNCHANGED <<owed, excused, unmerged>>
    BY <1>4 DEF HandleRead, FindItem, HandleAuth, hist
  <2>2. astray' = astray
    BY <1>4 DEF HandleRead, FindItem, HandleAuth, hist
  <2>3. astray => astray'
    BY <2>2
  <2>4. QED
    BY <2>1, <2>3 DEF Explained
<1>5. QED
  BY <1>1, <1>2, <1>3, <1>4 DEF Served

LEMMA ServedUnwritten ==
  ASSUME Requests, NEW r \in Request, Served(r), NEW q \in Request, NEW p, Unwritten(q, p)'
  PROVE  Unwritten(q, p)
<1>1. CASE q # r
  BY <1>1, ServedWorks DEF Unwritten, Waits, SameAsk
<1>2. CASE q = r
  <2>1. FindItem(r) /\ SameAsk(req'[r], req[r])
    BY <1>2, ServedWorks DEF Unwritten, Worked
  <2>2. QED
    BY <1>2, <2>1 DEF FindItem, Unwritten, SameAsk
<1>3. QED
  BY <1>1, <1>2

\* What comes to a cart was on its way there, from a page that waits for it or has
\* been left.
LEMMA ServedParts ==
  ASSUME TableOK, NEW r \in Request, Adding(r), Served(r), NEW d \in Carts, NEW p, InPart(d, p)'
  PROVE  InPart(d, p) \/ (Unwritten(r, p) /\ (astray' \/ req[r].heard))
<1>1. CASE Shrinks
  BY <1>1 DEF Shrinks, InPart
<1>2. ASSUME WriteItem(r), Commit(r, items'), NEW i \in Item, Inserts(Settled(items, Cart(r)), i, Cart(r), req[r].product)
      PROVE  InPart(d, p) \/ (Unwritten(r, p) /\ (astray' \/ req[r].heard))
  <2> DEFINE c == Cart(r)
             its == Settled(items, c)
             v == req[r].product
  <2>1. c \in Carts /\ customerCart' = (customerCart \/ c = "customer") /\ (astray' \/ req[r].heard)
    BY <1>2, CartOf DEF Commit
  <2>2. \A x : x = v => Unwritten(r, x)
    BY <1>2 DEF WriteItem, Adding, Unwritten
  <2> HIDE DEF c, v
  <2>3. Inserts(its, i, c, v)
    BY <1>2 DEF c, v
  <2>4. \A j \in Part(d)' :
           \/ j = i /\ items'[i].product = v /\ Part(d) = Part(c)
           \/ j # i /\ j \in Part(d) /\ items'[j].product = items[j].product
    BY <2>1, <2>3, InsertsOne
  <2>5. QED
    BY <2>1, <2>2, <2>4 DEF InPart
<1>3. CASE ~WriteItem(r)
  BY <1>1, <1>3, ServedShrinks
<1>4. CASE WriteItem(r)
  <2>1. CASE Refused(r)
    BY <1>1, <2>1, SameRows DEF Refused
  <2>2. CASE Committed(r, {})
    <3> DEFINE c == Cart(r)
               its == Settled(items, c)
    <3>1. Trims(its, {}) /\ customerCart' = (customerCart \/ c = "customer") /\ c \in Carts
      BY <2>2, CartOf DEF Committed, Commit
    <3> HIDE DEF c
    <3>2. QED
      BY <1>1, <3>1, TrimsShrink
  <2>3. QED
    BY <1>2, <1>4, <2>1, <2>2, WriteRows
<1>5. QED
  BY <1>3, <1>4

\* Settling the carts drops nothing else.
LEMMA SettlingKeeps ==
  ASSUME TableOK, NEW c \in Carts, NEW p, Kept(p), p \notin Dropped(c)
  PROVE  \E i \in Item : Settled(items, c)[i].cart \in Carts /\ Settled(items, c)[i].product = p
<1> DEFINE its == Settled(items, c)
<1>0. PICK i \in Item : items[i].cart \in Carts /\ items[i].product = p
  BY DEF Kept
<1>1. ASSUME NEW j \in Part(c), items[j].product = p
      PROVE  \E k \in Item : its[k].cart \in Carts /\ its[k].product = p
  <2>1. j \in Item /\ c # "gone"
    BY DEF Part, Carts
  <2>2. its[j].cart = c /\ its[j].product = p
    <3> HIDE DEF its
    <3>1. its = Settled(items, c)
      BY DEF its
    <3>2. QED
      BY <1>1, <2>1, <3>1, SettledRows
  <2>3. QED
    BY <2>1, <2>2
<1>2. CASE c = "guest"
  BY <1>0, <1>2 DEF Settled
<1>3. CASE c = "customer" /\ ~customerCart
  BY <1>0, <1>1, <1>3 DEF Part, Carts
<1>4. CASE c = "customer" /\ customerCart
  <2>1. PICK j \in Item : items[j].cart = "customer" /\ items[j].product = p
    BY <1>0, <1>4 DEF Dropped, In, Rows, Carts
  <2>2. QED
    BY <1>1, <1>4, <2>1 DEF Part
<1>5. QED
  BY <1>2, <1>3, <1>4 DEF Carts

LEMMA KeptInserted ==
  ASSUME TableOK, NEW c \in Carts, NEW i \in Item, NEW v, Inserts(Settled(items, c), i, c, v),
         NEW p, Kept(p), p \notin Dropped(c) \ {v}
  PROVE  Kept(p)'
<1> DEFINE its == Settled(items, c)
<1>0. Inserts(its, i, c, v) /\ None \notin Carts
  BY StorefrontAssumption DEF Carts
<1>1. CASE p = v
  BY <1>0, <1>1 DEF Inserts, Kept
<1>2. CASE p # v
  <2>1. PICK j \in Item : its[j].cart \in Carts /\ its[j].product = p
    BY <1>2, SettlingKeeps
  <2>2. its[i].cart = None
    BY <1>0, SettledNames DEF Inserts
  <2> HIDE DEF its
  <2>3. QED
    BY <1>0, <2>1, <2>2 DEF Inserts, Kept
<1>3. QED
  BY <1>1, <1>2

\* What is not in S stays.
LEMMA KeptTrimmed ==
  ASSUME TableOK, NEW c \in Carts, NEW S, Trims(Settled(items, c), S),
         NEW p, Kept(p), p \notin Dropped(c),
         \A j \in S \cap Item : Settled(items, c)[j].cart \in Carts => Settled(items, c)[j].product # p
  PROVE  Kept(p)'
<1> DEFINE its == Settled(items, c)
<1>1. PICK j \in Item : its[j].cart \in Carts /\ its[j].product = p
  BY SettlingKeeps
<1>2. Trims(its, S) /\ j \notin S
  BY <1>1
<1> HIDE DEF its
<1>3. QED
  BY <1>1, <1>2 DEF Trims, Kept

LEMMA KeptByServed ==
  ASSUME KeptInv, NEW r \in Request, Served(r), NEW p \in owed' \ Explained'
  PROVE  Kept(p)'
<1> DEFINE c == Cart(r)
           its == Settled(items, c)
<1>0. TableOK /\ c \in Carts /\ Removing(r) /\ Sure(r) /\ c # "gone" /\ None # "gone"
  BY StorefrontAssumption, CartOf DEF KeptInv, ViewInv, RowInv, Carts
<1>1. p \in owed /\ p \notin Explained /\ Kept(p)
  BY <1>0, ServedOwed DEF KeptInv
<1>2. ASSUME items' = items PROVE Kept(p)'
  BY <1>1, <1>2 DEF Kept
<1>3. CASE HandleSet(r)
  <2>1. Refused(r) \/ (Trims(its, {}) /\ unmerged' = unmerged \cup Dropped(c))
    BY <1>0, <1>3, SetRows DEF Committed
  <2>2. ASSUME Trims(its, {}), p \notin Dropped(c) PROVE Kept(p)'
    BY <1>0, <1>1, <2>2, KeptTrimmed
  <2>3. QED
    BY <1>2, <2>1, <2>2 DEF Refused, Explained
<1>4. CASE HandleRemove(r)
  <2> DEFINE i == req[r].item
  <2>1. Refused(r) \/ (Trims(its, {i}) /\ unmerged' = unmerged \cup Dropped(c) /\ its[i].cart = c)
    BY <1>0, <1>4, RemoveRows DEF Committed
  <2>2. ASSUME Trims(its, {i}), p \notin Dropped(c), its[i].cart = c PROVE Kept(p)'
    <3>1. Names(i, req[r].product) /\ req[r].product \notin owed
      BY <1>0, <1>4 DEF Removing, HandleRemove
    <3>2. i \in Item /\ its[i].product = items[i].product /\ items[i].cart # "gone"
      <4>1. i \in Item
        BY <3>1 DEF Names
      <4>2. QED
        BY <1>0, <2>2, <4>1, SettledNames
    <3>3. its[i].product # p
      BY <1>1, <3>1, <3>2 DEF Names
    <3>4. \A j \in {i} \cap Item : its[j].cart \in Carts => its[j].product # p
      BY <3>3
    <3>5. QED
      BY <1>0, <1>1, <2>2, <3>4, KeptTrimmed
  <2>3. QED
    BY <1>2, <2>1, <2>2 DEF Refused, Explained
<1>5. CASE HandleClear(r)
  <2>1. \/ Refused(r)
        \/ /\ Trims(its, RowsIn(its, c)) /\ unmerged' = unmerged \cup Dropped(c)
           /\ excused' = excused \cup (IF req[r].lost \/ astray THEN In(its, c) ELSE {})
    BY <1>0, <1>5, ClearRows DEF Committed
  <2>2. ASSUME Trims(its, RowsIn(its, c)), p \notin Dropped(c),
               excused' = excused \cup (IF req[r].lost \/ astray THEN In(its, c) ELSE {})
        PROVE  Kept(p)'
    <3>1. ASSUME NEW j \in Item, its[j].cart = c, its[j].product = p PROVE FALSE
      <4>1. CASE req[r].lost \/ astray
        <5>1. p \in In(its, c)
          BY <3>1 DEF In, Rows
        <5>2. QED
          BY <2>2, <4>1, <5>1 DEF Explained
      <4>2. CASE ~req[r].lost
        <5>1. InPart(c, p)
          <6>1. j \in Part(c) /\ items[j].product = p
            BY <1>0, <3>1, SettledRows
          <6>2. QED
            BY <6>1 DEF InPart
        <5>2. p \in Ordered(r) \cup Explained
          BY <1>0, <1>1, <1>5, <4>2, <5>1 DEF Sure, HandleClear
        <5>3. QED
          BY <1>1, <1>5, <5>2 DEF Ordered, HandleClear
      <4>3. QED
        BY <4>1, <4>2
    <3>2. \A j \in RowsIn(its, c) \cap Item : its[j].cart \in Carts => its[j].product # p
      BY <3>1 DEF RowsIn
    <3>3. QED
      BY <1>0, <1>1, <2>2, <3>2, KeptTrimmed
  <2>3. QED
    BY <1>2, <2>1, <2>2 DEF Refused, Explained
<1>6. CASE HandleCheckout(r)
  <2>1. \/ Refused(r)
        \/ /\ Trims(items, RowsIn(items, c)) /\ owed' = owed \ Products(req[r].lines)
           /\ excused' = IF req[r].lost \/ astray THEN excused \cup In(items, c) ELSE excused
    BY <1>0, <1>6, CheckoutRows
  <2>2. ASSUME Trims(items, RowsIn(items, c)), owed' = owed \ Products(req[r].lines),
               excused' = IF req[r].lost \/ astray THEN excused \cup In(items, c) ELSE excused
        PROVE  Kept(p)'
    <3>1. PICK j \in Item : items[j].cart \in Carts /\ items[j].product = p
      BY <1>1 DEF Kept
    <3>2. items[j].cart # c
      <4>1. SUFFICES ASSUME items[j].cart = c PROVE FALSE
        OBVIOUS
      <4>2. ~req[r].lost
        BY <2>2, <3>1, <4>1 DEF Explained, In, Rows
      <4>3. InPart(c, p)
        BY <3>1, <4>1 DEF InPart, Part
      <4>4. p \in Ordered(r) \cup Explained
        BY <1>0, <1>1, <1>6, <4>2, <4>3 DEF Sure, HandleCheckout
      <4>5. QED
        BY <1>1, <1>6, <2>2, <4>4 DEF Ordered, HandleCheckout
    <3>3. j \notin RowsIn(items, c)
      BY <3>2 DEF RowsIn
    <3>4. QED
      BY <2>2, <3>1, <3>3 DEF Trims, Kept
  <2>3. QED
    BY <1>2, <2>1, <2>2 DEF Refused
<1>7. CASE WriteItem(r)
  <2> DEFINE v == req[r].product
  <2>1. \/ Refused(r)
        \/ Trims(its, {}) /\ unmerged' = unmerged \cup Dropped(c)
        \/ unmerged' = unmerged \cup (Dropped(c) \ {v}) /\ \E i \in Item : Inserts(its, i, c, v)
    BY <1>0, <1>7, WriteRows DEF Committed
  <2>2. ASSUME Trims(its, {}), p \notin Dropped(c) PROVE Kept(p)'
    BY <1>0, <1>1, <2>2, KeptTrimmed
  <2>3. ASSUME NEW i \in Item, Inserts(its, i, c, v), p \notin Dropped(c) \ {v} PROVE Kept(p)'
    <3> HIDE DEF v
    <3>1. QED
      BY <1>0, <1>1, <2>3, KeptInserted
  <2> HIDE DEF its, c, v
  <2>4. QED
    BY <1>2, <2>1, <2>2, <2>3 DEF Refused, Explained
<1>8. CASE HandleRead(r) \/ FindItem(r) \/ HandleAuth(r)
  <2>1. items' = items
    BY <1>8 DEF HandleRead, FindItem, HandleAuth
  <2>2. QED
    BY <1>2, <2>1
<1>9. QED
  BY <1>3, <1>4, <1>5, <1>6, <1>7, <1>8 DEF Served

LEMMA KeptServed ==
  ASSUME KeptInv, ViewInv', NEW r \in Request, Served(r)
  PROVE  KeptInv'
<1>0. Requests /\ TableOK /\ Adding(r) /\ Lines /\ Known
  BY DEF KeptInv, ViewInv, RowInv
<1>1. owed' \subseteq owed /\ Explained \subseteq Explained' /\ (astray => astray')
  BY <1>0, ServedOwed
<1>2. /\ UNCHANGED page /\ (\A q \in Request : Worked(q) /\ Waiting(q))
      /\ \A q \in Request \ {r} : Waits(req'[q], req[q])
  BY <1>0, ServedWorks, WaitsWaiting
<1>3. \A q \in Request : Removing(q)'
  BY <1>0, <1>1, <1>2, ServedLasts, RemovingKept DEF KeptInv
<1>4. ASSUME NEW q \in Request PROVE Sure(q)'
  <2>1. Cart(q)' = Cart(q) /\ Cart(q) \in Carts
    BY <1>2, WorkedCart, CartOf
  <2>2. \A p : InPart(Cart(q), p)' => InPart(Cart(q), p) \/ Unwritten(r, p)
    <3> DEFINE d == Cart(q)
    <3>1. \A p : InPart(d, p)' = (\E i \in Part(d)' : items'[i].product = p)
      BY DEF InPart
    <3>2. QED
      BY <1>0, <2>1, ServedParts DEF InPart, Part
  <2>3. \A p : (\E s \in Request : Unwritten(s, p)') => \E s \in Request : Unwritten(s, p)
    BY <1>0, ServedUnwritten
  <2>4. QED
    BY <1>1, <1>2, <2>2, <2>3, SureKept DEF KeptInv
<1>5. Known'
  <2> SUFFICES ASSUME at' = "shop", ~astray', ~Awaited', NEW p \in owed', InPart(Serving, p)'
               PROVE  \/ p \in Products(shown)' \cup Explained'
                      \/ \E q \in Request : Heard(q)' /\ req'[q].kind = "add" /\ req'[q].product = p
    BY DEF Known, Products
  <2>1. at = "shop" /\ shown' = shown /\ access' = access
    BY <1>2 DEF page
  <2>2. ~astray /\ ~Awaited
    BY <1>1, <1>2 DEF Awaited, Heard, Worked, SameAsk
  <2>3. ASSUME NEW q \in Request, Heard(q), req[q].kind = "add", req[q].product = p
        PROVE  Heard(q)' /\ req'[q].kind = "add" /\ req'[q].product = p
    BY <1>2, <2>3 DEF Heard, Worked, SameAsk
  <2>4. InPart(Serving, p) \/ (Unwritten(r, p) /\ req[r].heard)
    <3>1. Serving' = Serving /\ Serving \in Carts
      BY <2>1 DEF Serving, Carts
    <3>2. InPart(Serving, p)' => \E d \in Carts : d = Serving /\ InPart(d, p)'
      BY <3>1 DEF InPart, Part
    <3>3. QED
      BY <1>0, <3>2, ServedParts
  <2>5. CASE InPart(Serving, p)
    <3>1. p \in Products(shown) \cup Explained \/ \E q \in Request : Heard(q) /\ req[q].kind = "add" /\ req[q].product = p
      BY <1>0, <1>1, <2>1, <2>2, <2>5 DEF Known
    <3>2. Products(shown)' = Products(shown)
      BY <2>1
    <3>3. QED
      BY <1>1, <2>3, <3>1, <3>2
  <2>6. CASE Unwritten(r, p) /\ req[r].heard
    BY <2>3, <2>6 DEF Unwritten, Heard, Active
  <2>7. QED
    BY <2>4, <2>5, <2>6
<1>6. \A p \in owed' \ Explained' : Kept(p)'
  BY KeptByServed
<1>7. QED
  BY <1>0, <1>3, <1>4, <1>5, <1>6, LinesServed DEF KeptInv

\* The carts have not changed, and no request that counts has come.
LEMMA KeptStill ==
  ASSUME KeptInv, ViewInv', Lines', Known', UNCHANGED <<items, customerCart>>,
         owed' \subseteq owed, Explained \subseteq Explained',
         \A q \in Request : Waiting(q) /\ Looking(q)
  PROVE  KeptInv'
<1>1. \A q \in Request : Removing(q)'
  BY SameLasts, RemovingKept DEF KeptInv
<1>2. ASSUME NEW q \in Request PROVE Sure(q)'
  <2>1. CASE Cart(q)' = Cart(q)
    <3>1. \A p : InPart(Cart(q), p)' => InPart(Cart(q), p)
      BY <2>1 DEF InPart, Part
    <3>2. \A p : (\E s \in Request : Unwritten(s, p)') => \E s \in Request : Unwritten(s, p)
      BY WaitingUnwritten
    <3>3. QED
      BY <3>1, <3>2, SureKept DEF KeptInv
  <2>2. CASE Cart(q)' # Cart(q)
    BY <2>2 DEF Sure, Waiting, SameAsk, Cart
  <2>3. QED
    BY <2>1, <2>2
<1>3. \A p \in owed' \ Explained' : Kept(p)'
  BY DEF KeptInv, Kept
<1>4. QED
  BY <1>1, <1>2, <1>3 DEF KeptInv

\* The page goes on showing what it knows.
LEMMA KnownKept ==
  ASSUME Known, UNCHANGED <<items, customerCart, at>>, Serving' = Serving \/ astray' \/ at # "shop",
         astray => astray', Awaited => Awaited', owed' \subseteq owed, Explained \subseteq Explained',
         \A p \in owed' : p \in Products(shown) => p \in Products(shown)' \cup Explained',
         \A q \in Request : Heard(q) /\ req[q].kind = "add" => Heard(q)' /\ req'[q].kind = "add" /\ req'[q].product = req[q].product
  PROVE  Known'
<1> SUFFICES ASSUME at' = "shop", ~astray', ~Awaited', NEW p \in owed', InPart(Serving, p)'
             PROVE  \/ p \in Products(shown)' \cup Explained'
                    \/ \E q \in Request : Heard(q)' /\ req'[q].kind = "add" /\ req'[q].product = p
  BY DEF Known, Products
<1>1. at = "shop" /\ ~astray /\ ~Awaited /\ Serving' = Serving
  OBVIOUS
<1>2. InPart(Serving, p)
  BY <1>1 DEF InPart, Part
<1>3. p \in Products(shown) \cup Explained \/ \E q \in Request : Heard(q) /\ req[q].kind = "add" /\ req[q].product = p
  BY <1>1, <1>2 DEF Known
<1>4. QED
  BY <1>3

\* It is mounted, left, or does not know any more.
LEMMA KnownVoid ==
  ASSUME at' # "shop" \/ astray' \/ Awaited'
  PROVE  Known'
  BY DEF Known

LEMMA KeptAdd ==
  ASSUME KeptInv, ViewInv', Lines', NEW r \in Request, addToCart(r)
  PROVE  KeptInv'
<1>0. Requests /\ Known
  BY DEF KeptInv, ViewInv, RowInv
<1>1. /\ Sent(r, "add")
      /\ \A q \in Request \ {r} : req'[q].heard = req[q].heard /\ (req[q].kind \in {"checkout", "clear"} => req'[q].lost)
  BY <1>0, AddSent
<1>2. UNCHANGED <<items, customerCart, at, access, owed, excused, unmerged, astray>> /\ ~Active(r)
  BY DEF addToCart, hist
<1>3. Explained' = Explained
  BY <1>2 DEF Explained
<1>4. ASSUME NEW q \in Request PROVE Removing(q)'
  <2>1. CASE q = r
    BY <1>1, <2>1 DEF Sent, Fresh, Removing
  <2>2. CASE q # r
    BY <1>1, <1>2, <2>2, WaitsWaiting, SameLasts, RemovingKept DEF KeptInv, Sent
  <2>3. QED
    BY <2>1, <2>2
<1>5. ASSUME NEW q \in Request PROVE Sure(q)'
  BY <1>1 DEF Sent, Fresh, Sure, Waits, SameAsk
<1>6. Known'
  <2>1. ASSUME NEW p, p \in Products(shown) PROVE p \in Products(shown)'
    <3>1. PICK v \in Product :
            shown' = IF v \in Products(shown)
                     THEN {IF l.product = v THEN [l EXCEPT !.quantity = @ + 1] ELSE l : l \in shown}
                     ELSE shown \cup {[product |-> v, quantity |-> 1, id |-> None]}
      BY DEF addToCart
    <3>2. PICK l \in shown : l.product = p
      BY <2>1 DEF Products
    <3>3. LineOk(l)
      BY DEF KeptInv, Lines
    <3>4. CASE v \in Products(shown)
      <4>1. (IF l.product = v THEN [l EXCEPT !.quantity = l.quantity + 1] ELSE l) \in shown'
        BY <3>1, <3>4
      <4>2. QED
        BY <3>2, <3>3, <4>1, LineGrows DEF Products
    <3>5. CASE v \notin Products(shown)
      BY <3>1, <3>2, <3>5 DEF Products
    <3>6. QED
      BY <3>4, <3>5
  <2>2. Awaited => Awaited'
    BY <1>1, <1>2 DEF Awaited, Heard, Active, Sent, Waits, SameAsk
  <2>3. \A q \in Request : Heard(q) /\ req[q].kind = "add" => Heard(q)' /\ req'[q].kind = "add" /\ req'[q].product = req[q].product
    BY <1>1, <1>2 DEF Heard, Active, Sent, Waits, SameAsk
  <2>4. QED
    BY <1>0, <1>2, <1>3, <2>1, <2>2, <2>3, KnownKept DEF Serving
<1>7. \A p \in owed' \ Explained' : Kept(p)'
  BY <1>2, <1>3 DEF KeptInv, Kept
<1>8. QED
  BY <1>4, <1>5, <1>6, <1>7 DEF KeptInv

\* r is sent for the cart as it is, and is no addition.
LEMMA KeptSent ==
  ASSUME KeptInv, ViewInv', Lines', NEW r \in Request, NEW kind, kind # "add", SentAlone(r, kind),
         UNCHANGED <<items, customerCart, at, access, astray>>, owed' \subseteq owed, Explained \subseteq Explained',
         Removing(r)', Sure(r)', \A p \in owed' : p \in Products(shown) => p \in Products(shown)' \cup Explained'
  PROVE  KeptInv'
<1>0. Known /\ ~Active(r) /\ Fresh(req'[r], kind) /\ \A q \in Request \ {r} : req'[q] = req[q]
  BY DEF KeptInv, SentAlone, Sent
<1>1. ASSUME NEW q \in Request PROVE Removing(q)'
  BY <1>0, WaitsWaiting, SameLasts, RemovingKept DEF KeptInv
<1>2. ASSUME NEW q \in Request PROVE Sure(q)'
  <2>1. CASE q = r
    BY <2>1
  <2>2. CASE q # r
    <3>1. req'[q] = req[q] /\ Waiting(q) /\ Cart(q)' = Cart(q)
      BY <1>0, <2>2, WaitsWaiting DEF Cart
    <3>2. \A p : InPart(Cart(q), p)' => InPart(Cart(q), p)
      BY <3>1 DEF InPart, Part
    <3>3. \A p : (\E s \in Request : Unwritten(s, p)') => \E s \in Request : Unwritten(s, p)
      BY <1>0 DEF Unwritten, Fresh
    <3>4. QED
      BY <3>1, <3>2, <3>3, SureKept DEF KeptInv
  <2>3. QED
    BY <2>1, <2>2
<1>3. Known'
  <2>1. Awaited => Awaited'
    BY <1>0 DEF Awaited, Heard, Active
  <2>2. \A q \in Request : Heard(q) /\ req[q].kind = "add" => Heard(q)' /\ req'[q].kind = "add" /\ req'[q].product = req[q].product
    BY <1>0 DEF Heard, Active
  <2>3. QED
    BY <1>0, <2>1, <2>2, KnownKept DEF Serving
<1>4. \A p \in owed' \ Explained' : Kept(p)'
  BY DEF KeptInv, Kept
<1>5. QED
  BY <1>1, <1>2, <1>3, <1>4 DEF KeptInv

LEMMA KeptRemove ==
  ASSUME KeptInv, ViewInv', Lines', NEW r \in Request, removeFromCart(r)
  PROVE  KeptInv'
<1>0. Requests
  BY DEF KeptInv, ViewInv, RowInv
<1>1. /\ UNCHANGED <<items, customerCart, at, access, excused, unmerged, astray>> /\ ~Active(r)
  BY DEF removeFromCart
<1>2. PICK l \in shown :
        /\ shown' = {m \in shown : m.product # l.product}
        /\ req' = [req EXCEPT ![r] = IF l.id = None
                                     THEN [Ask("clear") EXCEPT !.lost = TRUE]
                                     ELSE [Ask("remove") EXCEPT !.item = l.id, !.product = l.product]]
        /\ owed' = owed \ {l.product}
  BY DEF removeFromCart
<1>3. \/ SentAlone(r, "clear") /\ req'[r].lost
      \/ SentAlone(r, "remove") /\ l.id # None /\ req'[r].item = l.id /\ req'[r].product = l.product
  BY <1>0, <1>1, <1>2, RemoveSent
<1>4. LineOk(l)
  BY DEF KeptInv, Lines
<1>5. Removing(r)' /\ Sure(r)'
  BY <1>1, <1>2, <1>3, <1>4 DEF SentAlone, Sent, Fresh, Removing, Sure, LineOk, Names
<1>6. \A p \in owed' : p \in Products(shown) => p \in Products(shown)' \cup Explained'
  BY <1>2 DEF Products
<1>7. Explained' = Explained
  BY <1>1 DEF Explained
<1>8. QED
  BY <1>1, <1>2, <1>3, <1>5, <1>6, <1>7, KeptSent

LEMMA KeptQuantity ==
  ASSUME KeptInv, ViewInv', Lines', NEW r \in Request, setQuantity(r)
  PROVE  KeptInv'
<1>0. Requests
  BY DEF KeptInv, ViewInv, RowInv
<1>1. UNCHANGED <<items, customerCart, at, access, excused, unmerged>>
  BY DEF setQuantity
<1>2. PICK l \in shown : \E n \in {l.quantity - 1, l.quantity + 1} :
        /\ shown' = IF n = 0 THEN {m \in shown : m.product # l.product}
                    ELSE {IF m.product = l.product THEN [m EXCEPT !.quantity = n] ELSE m : m \in shown}
        /\ owed' = IF n = 0 THEN owed \ {l.product} ELSE owed
  BY DEF setQuantity
<1>3. PICK n \in {l.quantity - 1, l.quantity + 1} :
        /\ shown' = IF n = 0 THEN {m \in shown : m.product # l.product}
                    ELSE {IF m.product = l.product THEN [m EXCEPT !.quantity = n] ELSE m : m \in shown}
        /\ owed' = IF n = 0 THEN owed \ {l.product} ELSE owed
  BY <1>2
<1>4. owed' \subseteq owed /\ Explained' = Explained
  BY <1>1, <1>3 DEF Explained
<1>5. ASSUME NEW p \in owed', p \in Products(shown) PROVE p \in Products(shown)' \cup Explained'
  <2>1. PICK m \in shown : m.product = p
    BY <1>5 DEF Products
  <2>2. LineOk(m)
    BY DEF KeptInv, Lines
  <2>3. CASE n = 0
    BY <1>3, <1>5, <2>1, <2>3 DEF Products
  <2>4. CASE n # 0
    <3>1. (IF m.product = l.product THEN [m EXCEPT !.quantity = n] ELSE m) \in shown'
      BY <1>3, <2>4
    <3>2. QED
      BY <2>1, <2>2, <3>1, LineGrows DEF Products
  <2>5. QED
    BY <2>3, <2>4
<1>6. CASE SentAlone(r, "set") /\ astray' = astray
  <2>1. Removing(r)' /\ Sure(r)'
    BY <1>6 DEF SentAlone, Sent, Fresh, Removing, Sure
  <2>2. QED
    BY <1>1, <1>4, <1>5, <1>6, <2>1, KeptSent
<1>7. CASE req' = req /\ astray'
  <2>1. Known'
    BY <1>7, KnownVoid
  <2>2. \A q \in Request : Waiting(q) /\ Looking(q)
    BY <1>7, WaitsWaiting, WaitsLooking
  <2>3. QED
    BY <1>1, <1>4, <2>1, <2>2, KeptStill
<1>8. QED
  BY <1>0, <1>6, <1>7, QuantitySent

LEMMA UnsureKnown ==
  ASSUME Known, at = "shop", ~Unsure, NEW p \in owed, InPart(Serving, p) \/ \E q \in Request : Unwritten(q, p)
  PROVE  p \in Products(shown) \cup Explained \cup Unshown
<1>1. ~astray /\ ~Awaited
  BY DEF Unsure, Awaited, Heard
<1>2. ASSUME NEW q \in Request, Active(q), req[q].kind = "add", req[q].product = p
      PROVE  p \in Products(shown) \cup Unshown
  BY <1>2 DEF Unshown
<1>3. CASE InPart(Serving, p)
  <2>1. p \in Products(shown) \cup Explained \/ \E q \in Request : Heard(q) /\ req[q].kind = "add" /\ req[q].product = p
    BY <1>1, <1>3 DEF Known
  <2>2. QED
    BY <1>2, <2>1 DEF Heard
<1>4. CASE \E q \in Request : Unwritten(q, p)
  BY <1>2, <1>4 DEF Unwritten, Active
<1>5. QED
  BY <1>3, <1>4

\* The order, or the clearing, that is sent now is of the cart the page knows.
LEMMA SureSent ==
  ASSUME Known, at = "shop", NEW r \in Request, NEW kind, kind # "add", SentAlone(r, kind),
         UNCHANGED <<items, customerCart>>, owed' \subseteq owed, req'[r].lost = Unsure,
         \A p \in owed' : p \in Products(shown) => p \in Ordered(r)', Explained' = Explained \cup Unshown
  PROVE  Sure(r)'
<1>1. /\ Fresh(req'[r], kind) /\ \A q \in Request \ {r} : req'[q] = req[q]
  BY DEF SentAlone, Sent
<1>2. SUFFICES ASSUME ~req'[r].lost, NEW p \in owed', InPart(Cart(r), p)' \/ \E q \in Request : Unwritten(q, p)'
               PROVE  p \in Ordered(r)' \cup Explained'
  BY DEF Sure
<1>3. Cart(r)' = Serving
  BY <1>1 DEF Fresh, Cart, Serving
<1>4. InPart(Cart(r), p)' => InPart(Serving, p)
  BY <1>3 DEF InPart, Part
<1>5. (\E q \in Request : Unwritten(q, p)') => \E q \in Request : Unwritten(q, p)
  BY <1>1 DEF Fresh, Unwritten
<1>6. ~Unsure
  BY <1>2
<1>7. p \in Products(shown) \cup Explained \cup Unshown
  BY <1>2, <1>4, <1>5, <1>6, UnsureKnown
<1>8. QED
  BY <1>2, <1>7

LEMMA KeptSubmit ==
  ASSUME KeptInv, ViewInv', Lines', NEW r \in Request, handleSubmit(r)
  PROVE  KeptInv'
<1>0. Requests /\ Known
  BY DEF KeptInv, ViewInv, RowInv
<1>1. UNCHANGED <<items, customerCart, shown, at, access, owed, unmerged, astray>> /\ at = "shop" /\ excused' = excused \cup Unshown
  BY DEF handleSubmit, page
<1>2. SentAlone(r, "checkout") /\ req'[r].lines = shown /\ req'[r].lost = Unsure
  BY <1>0, SubmitSent
<1>3. Explained' = Explained \cup Unshown
  BY <1>1 DEF Explained
<1>4. Ordered(r)' = Products(shown)
  BY <1>2 DEF Ordered, SentAlone, Sent, Fresh, Products
<1>5. Sure(r)' /\ Removing(r)'
  <2>1. Sure(r)'
    BY <1>0, <1>1, <1>2, <1>3, <1>4, SureSent
  <2>2. Removing(r)'
    BY <1>2 DEF SentAlone, Sent, Fresh, Removing
  <2>3. QED
    BY <2>1, <2>2
<1>6. Products(shown)' = Products(shown)
  BY <1>1
<1>7. QED
  BY <1>1, <1>2, <1>3, <1>5, <1>6, KeptSent

LEMMA KeptContinue ==
  ASSUME KeptInv, ViewInv', Lines', NEW r \in Request, handleContinue(r)
  PROVE  KeptInv'
<1>0. Requests /\ Known /\ at = "shop"
  BY DEF KeptInv, ViewInv, RowInv, IdInv, handleContinue
<1>1. /\ UNCHANGED <<items, customerCart, at, access, unmerged, astray>>
      /\ owed' = owed \ Products(shown) /\ excused' = excused \cup Unshown
  BY DEF handleContinue
<1>2. SentAlone(r, "clear") /\ req'[r].lost = Unsure
  BY <1>0, ContinueSent
<1>3. Explained' = Explained \cup Unshown
  BY <1>1 DEF Explained
<1>4. \A p \in owed' : p \notin Products(shown)
  BY <1>1
<1>5. Sure(r)'
  BY <1>0, <1>1, <1>2, <1>3, <1>4, SureSent
<1>6. Removing(r)'
  BY <1>2 DEF SentAlone, Sent, Fresh, Removing
<1>7. QED
  BY <1>1, <1>2, <1>3, <1>4, <1>5, <1>6, KeptSent

\* The acts that ask for nothing of the cart but to be told it.
Turning(r) ==
  \/ Reload(r) \/ OpenLogin(r) \/ SignIn(r) \/ OpenAccount(r) \/ BackToStore(r)
  \/ KeepTokens(r) \/ LoginFails(r) \/ LoginDenied(r) \/ logout(r) \/ handleSaveProfile(r)

LEMMA TurningWaits ==
  ASSUME Requests, NEW r \in Request, Turning(r)
  PROVE  \A q \in Request : Waiting(q)
<1>1. ASSUME NEW kind, kind \notin {"add", "remove", "clear", "checkout"}, Sent(r, kind)
      PROVE  \A q \in Request : Waiting(q)
  BY <1>1, WaitsWaiting DEF Sent, Fresh
<1>2. ASSUME NEW kind, kind \notin {"add", "remove", "clear", "checkout"}, Turned(r, kind)
      PROVE  \A q \in Request : Waiting(q)
  BY <1>2, WaitsWaiting DEF Turned
<1>3. CASE Reload(r)
  <2>1. ASSUME NEW q \in Request \ {r} PROVE Waiting(q)
    <3>1. Waits(req'[q], req[q]) \/ Fresh(req'[q], "boot")
      BY <1>3, ReloadSent
    <3>2. QED
      BY <3>1, WaitsWaiting DEF Fresh
  <2>2. Waiting(r)
    BY <1>3, ReloadSent, WaitsWaiting DEF Fresh
  <2>3. QED
    BY <2>1, <2>2
<1>4. CASE OpenLogin(r) \/ OpenAccount(r)
  BY <1>1, <1>4, LeaveSent DEF OpenLogin, OpenAccount
<1>5. CASE SignIn(r) \/ BackToStore(r) \/ KeepTokens(r) \/ LoginFails(r) \/ LoginDenied(r) \/ handleSaveProfile(r)
  BY <1>2, <1>5, Turns DEF SignIn, BackToStore, Mount, LoginFails, LoginDenied, handleSaveProfile
<1>6. CASE logout(r)
  <2>1. req' = req \/ Turned(r, "logout")
    BY <1>6, Turns DEF logout
  <2>2. QED
    BY <1>2, <2>1, WaitsWaiting
<1>7. QED
  BY <1>3, <1>4, <1>5, <1>6 DEF Turning

LEMMA KeptTurning ==
  ASSUME KeptInv, ViewInv', Lines', NEW r \in Request, Turning(r)
  PROVE  KeptInv'
<1>0. Requests /\ Known
  BY DEF KeptInv, ViewInv, RowInv
<1>1. UNCHANGED <<items, customerCart, owed, excused, unmerged>>
  BY DEF Turning, Reload, OpenLogin, SignIn, OpenAccount, BackToStore, KeepTokens, LoginFails, LoginDenied, logout, handleSaveProfile, page, hist
<1>2. Explained' = Explained
  BY <1>1 DEF Explained
<1>3. \A q \in Request : Waiting(q) /\ Looking(q)
  BY <1>0, TurningWaits, ActsAlone DEF Turning, Acts
<1>4. Known'
  <2>1. CASE Reload(r)
    <3>1. Awaited'
      BY <1>0, <2>1, ReloadSent DEF Fresh, Awaited, Heard, Active
    <3>2. QED
      BY <3>1, KnownVoid
  <2>2. CASE SignIn(r) \/ BackToStore(r)
    <3>1. Turned(r, "read")
      BY <1>0, <2>2, Turns DEF SignIn, BackToStore, Mount
    <3>2. QED
      BY <3>1, KnownVoid DEF Turned, Awaited, Heard, Active
  <2>3. CASE OpenLogin(r) \/ OpenAccount(r)
    BY <2>3, KnownVoid DEF OpenLogin, OpenAccount
  <2>4. CASE KeepTokens(r) \/ LoginFails(r) \/ LoginDenied(r)
    <3>1. Heard(r) /\ req[r].kind \in {"login", "who"} /\ at' = at
      BY <2>4 DEF KeepTokens, LoginFails, LoginDenied, Heard, Active, page
    <3>2. at = "login"
      BY <3>1 DEF KeptInv, ViewInv, IdInv, Placed
    <3>3. QED
      BY <3>1, <3>2, KnownVoid
  <2>5. CASE logout(r) \/ handleSaveProfile(r)
    <3>1. UNCHANGED <<shown, at, access, astray>> /\ ~Active(r)
      BY <2>5 DEF logout, handleSaveProfile, page, hist
    <3>2. \A q \in Request \ {r} : req'[q] = req[q]
      BY <1>0, <2>5, Turns DEF logout, handleSaveProfile, Turned
    <3>3. Awaited => Awaited'
      BY <3>1, <3>2 DEF Awaited, Heard, Active
    <3>4. \A q \in Request : Heard(q) /\ req[q].kind = "add" => Heard(q)' /\ req'[q].kind = "add" /\ req'[q].product = req[q].product
      BY <3>1, <3>2 DEF Heard, Active
    <3>5. (astray => astray') /\ Serving' = Serving /\ Products(shown)' = Products(shown)
      BY <3>1 DEF Serving
    <3>6. QED
      BY <1>0, <1>1, <1>2, <3>1, <3>3, <3>4, <3>5, KnownKept
  <2>6. QED
    BY <2>1, <2>2, <2>3, <2>4, <2>5 DEF Turning
<1>5. QED
  BY <1>1, <1>2, <1>3, <1>4, KeptStill

\* A product of the answer is one of the cart, and one of the cart is in it.
LEMMA AnswerParts ==
  ASSUME TableOK, NEW c \in Carts, NEW p
  PROVE  p \in Products(View(Settled(items, c), c)) <=> InPart(c, p)
<1> DEFINE its == Settled(items, c)
<1>1. \A i \in Item : (i \in Part(c) <=> its[i].cart = c) /\ (its[i].cart # "gone" => its[i].product = items[i].product)
  BY SettledRows
<1>2. c # "gone"
  BY DEF Carts
<1> HIDE DEF its
<1>3. ASSUME NEW l \in View(its, c), l.product = p PROVE InPart(c, p)
  <2>1. l.id \in Item /\ its[l.id].cart = c /\ its[l.id].product = p
    BY <1>3, ViewLines
  <2>2. QED
    BY <1>1, <1>2, <2>1 DEF InPart
<1>4. ASSUME NEW i \in Part(c), items[i].product = p PROVE \E l \in View(its, c) : l.product = p
  <2>1. i \in Rows(its, c) /\ its[i].product = p
    BY <1>1, <1>2, <1>4 DEF Part, Rows
  <2>2. [product |-> its[i].product, quantity |-> its[i].quantity, id |-> i] \in View(its, c)
    BY <2>1 DEF View
  <2>3. [product |-> its[i].product, quantity |-> its[i].quantity, id |-> i].product = p
    BY <2>1
  <2>4. QED
    BY <2>2, <2>3
<1>5. p \in Products(View(its, c)) <=> InPart(c, p)
  BY <1>3, <1>4 DEF Products, InPart
<1>6. QED
  BY <1>5 DEF its

LEMMA KeptShown ==
  ASSUME KeptInv, ViewInv', Lines', NEW r \in Request, ShowCart(r) \/ syncFromServer(r)
  PROVE  KeptInv'
<1> DEFINE c == Cart(r)
           answer == req[r].answer
<1>0. Requests /\ TableOK /\ Truthful(r) /\ c \in Carts
  BY CartOf DEF KeptInv, ViewInv, RowInv
<1>1. Ended(r) /\ UNCHANGED <<items, customerCart, access, excused, unmerged>> /\ owed' = Confirmed(r) /\ answer \subseteq shown'
  <2>1. Ended(r)
    BY <1>0, OverEnds DEF Over
  <2>2. QED
    BY <2>1 DEF ShowCart, syncFromServer
<1>2. Explained' = Explained
  BY <1>1 DEF Explained
<1>3. ~req[r].old => \A p : p \in Products(answer) <=> InPart(c, p)
  <2>1. ~req[r].old => answer = View(Settled(items, c), c)
    BY <1>0 DEF Truthful, ShowCart, syncFromServer
  <2>2. QED
    BY <1>0, <2>1, AnswerParts
<1>4. astray' \/ (~req[r].old /\ c = Serving)
  BY DEF ShowCart, syncFromServer
<1>5. Known'
  <2>1. SUFFICES ASSUME ~astray', NEW p \in owed', InPart(Serving, p)' PROVE p \in Products(shown)'
    BY DEF Known, Products
  <2>2. InPart(c, p) /\ ~req[r].old
    BY <1>1, <1>4, <2>1 DEF Serving, InPart, Part
  <2>3. p \in Products(answer)
    BY <1>3, <2>2
  <2>4. QED
    BY <1>1, <2>3 DEF Products
<1>6. CASE ~req[r].old /\ Keeping(r)
  <2>1. owed' = owed \cup Products(answer)
    BY <1>1, <1>6 DEF Confirmed
  <2>2. ASSUME NEW q \in Request PROVE Removing(q)' /\ Sure(q)'
    BY <1>1, <1>6 DEF Ended, Keeping, Active, Removing, Sure
  <2>3. ASSUME NEW p \in owed' \ Explained' PROVE Kept(p)'
    <3>1. CASE p \in owed
      BY <1>1, <1>2, <2>3, <3>1 DEF KeptInv, Kept
    <3>2. CASE p \in Products(answer)
      <4>1. InPart(c, p)
        BY <1>3, <1>6, <3>2
      <4>2. Kept(p)
        BY <1>0, <4>1 DEF InPart, Part, Kept, Carts
      <4>3. QED
        BY <1>1, <4>2 DEF Kept
    <3>3. QED
      BY <2>1, <2>3, <3>1, <3>2
  <2>4. QED
    BY <1>5, <2>2, <2>3 DEF KeptInv
<1>7. CASE ~(~req[r].old /\ Keeping(r))
  <2>1. owed' = owed
    BY <1>1, <1>7 DEF Confirmed
  <2>2. \A q \in Request : Waiting(q) /\ Looking(q)
    BY <1>1, WaitsWaiting, WaitsLooking DEF Ended
  <2>3. QED
    BY <1>1, <1>2, <1>5, <2>1, <2>2, KeptStill
<1>8. QED
  BY <1>6, <1>7

LEMMA KeptOver ==
  ASSUME KeptInv, ViewInv', Lines', NEW r \in Request, Over(r) \/ SignOut(r), ~ShowCart(r), ~syncFromServer(r)
  PROVE  KeptInv'
<1>0. Requests /\ Known
  BY DEF KeptInv, ViewInv, RowInv
<1>1. Ended(r) /\ UNCHANGED <<items, customerCart, at>>
  BY <1>0, OverEnds
<1>2. UNCHANGED <<owed, excused, unmerged>>
  BY DEF Over, ShowCustomer, Denied, ShowOrder, KeepShown, Unheard, SignOut, hist
<1>3. Explained' = Explained
  BY <1>2 DEF Explained
<1>4. \A q \in Request : Waiting(q) /\ Looking(q)
  BY <1>1, WaitsWaiting, WaitsLooking DEF Ended
<1>5. Known'
  <2>1. CASE SignOut(r) \/ KeepShown(r)
    BY <2>1, KnownVoid DEF SignOut, KeepShown
  <2>2. CASE ShowCustomer(r) \/ Denied(r) \/ ShowOrder(r) \/ Unheard(r)
    <3>1. ~Heard(r) \/ req[r].kind \notin {"read", "add"}
      BY <2>2 DEF ShowCustomer, Denied, ShowOrder, Unheard, Heard
    <3>2. shown' = shown
      BY <2>2 DEF ShowCustomer, Denied, ShowOrder, Unheard, page
    <3>3. astray => astray'
      <4>1. ShowCustomer(r) \/ ShowOrder(r) \/ Unheard(r) => astray' = astray
        BY DEF ShowCustomer, ShowOrder, Unheard, hist
      <4>2. Denied(r) => (astray => astray')
        BY DEF Denied
      <4>3. QED
        BY <2>2, <4>1, <4>2
    <3>4. Serving' = Serving \/ astray'
      BY <2>2, StorefrontAssumption DEF ShowCustomer, Denied, ShowOrder, Unheard, page, Serving
    <3>5. Awaited => Awaited'
      BY <1>1, <3>1 DEF Awaited, Ended, Heard, Active
    <3>6. \A q \in Request : Heard(q) /\ req[q].kind = "add" => Heard(q)' /\ req'[q].kind = "add" /\ req'[q].product = req[q].product
      BY <1>1, <3>1 DEF Ended, Heard, Active
    <3>7. Products(shown)' = Products(shown)
      BY <3>2
    <3>8. QED
      BY <1>0, <1>1, <1>2, <1>3, <3>3, <3>4, <3>5, <3>6, <3>7, KnownKept
  <2>3. QED
    BY <2>1, <2>2 DEF Over
<1>6. QED
  BY <1>1, <1>2, <1>3, <1>4, <1>5, KeptStill

LEMMA KeptInit ==
  ASSUME Init
  PROVE  KeptInv
<1>1. PICK r \in Request : req = [q \in Request |-> IF q = r THEN Ask("read") ELSE Idle]
  BY DEF Init
<1>2. /\ Idle.pc = "idle" /\ Idle.answer = {}
      /\ Ask("read").pc = "sent" /\ Ask("read").kind = "read" /\ Ask("read").heard /\ Ask("read").answer = {}
  BY AskFields DEF Idle
<1>3. \A q \in Request : req[q].answer = {} /\ (req[q].pc = "sent" => req[q].kind = "read")
  BY <1>1, <1>2
<1>4. Awaited
  BY <1>1, <1>2 DEF Awaited, Heard, Active
<1>5. shown = {} /\ owed = {}
  BY DEF Init
<1>6. Lines
  BY <1>3, <1>5 DEF Lines
<1>7. \A q \in Request : Removing(q) /\ Sure(q)
  BY <1>3 DEF Removing, Sure
<1>8. QED
  BY <1>4, <1>5, <1>6, <1>7, ViewInit DEF KeptInv, Known

LEMMA KeptNext ==
  ASSUME KeptInv, [Next]_vars
  PROVE  KeptInv'
<1>0. Requests /\ Lines /\ Known /\ ViewInv'
  BY ViewNext DEF KeptInv, ViewInv, RowInv
<1>1. CASE Expire
  <2>1. UNCHANGED <<items, customerCart, shown, req, owed, excused, unmerged>> /\ astray'
    BY <1>1 DEF Expire
  <2>2. (\A q \in Request : Quotes(q) /\ Waiting(q) /\ Looking(q)) /\ Known'
    BY <2>1, WaitsQuotes, WaitsWaiting, WaitsLooking, KnownVoid
  <2>3. Lines'
    BY <1>0, <2>1, <2>2, LinesMoved DEF Lines
  <2>4. QED
    BY <1>0, <2>1, <2>2, <2>3, KeptStill DEF Explained
<1>2. CASE UNCHANGED vars
  <2>1. UNCHANGED <<items, customerCart, shown, at, access, req, owed, excused, unmerged, astray>>
    BY <1>2 DEF vars
  <2>2. \A q \in Request : Quotes(q) /\ Waiting(q) /\ Looking(q)
    BY <2>1, WaitsQuotes, WaitsWaiting, WaitsLooking
  <2>3. Lines'
    BY <1>0, <2>1, <2>2, LinesMoved DEF Lines
  <2>4. Explained' = Explained /\ Serving' = Serving /\ Products(shown)' = Products(shown)
    BY <2>1 DEF Explained, Serving
  <2>5. (astray => astray') /\ (Awaited => Awaited')
    BY <2>1 DEF Awaited, Heard, Active
  <2>6. Known'
    BY <1>0, <2>1, <2>4, <2>5, KnownKept DEF Heard, Active
  <2>7. QED
    BY <1>0, <2>1, <2>2, <2>3, <2>4, <2>6, KeptStill
<1>3. ASSUME NEW r \in Request, Served(r) PROVE KeptInv'
  BY <1>0, <1>3, KeptServed
<1>4. ASSUME NEW r \in Request, Acts(r) PROVE KeptInv'
  <2>1. Lines'
    BY <1>0, <1>4, LinesActs
  <2>2. QED
    BY <1>0, <1>4, <2>1, KeptAdd, KeptRemove, KeptQuantity, KeptSubmit, KeptContinue, KeptTurning DEF Acts, Turning
<1>5. ASSUME NEW r \in Request, Over(r) \/ SignOut(r) PROVE KeptInv'
  <2>1. Lines'
    BY <1>0, <1>5, LinesOver
  <2>2. QED
    BY <1>0, <1>5, <2>1, KeptShown, KeptOver
<1>6. QED
  BY <1>1, <1>2, <1>3, <1>4, <1>5, Steps

\* What the page has shown as confirmed stays in a cart of the shopper until it is
\* removed or ordered, however many requests are in flight and whatever becomes of
\* them, but for the losses that KeptUntilRemoved names (storefront-context.tsx,
\* cart_service.py).
THEOREM ConfirmedIsKept == Spec => []KeptUntilRemoved
<1>1. Init => KeptInv
  BY KeptInit
<1>2. KeptInv /\ [Next]_vars => KeptInv'
  BY KeptNext
<1>3. KeptInv => KeptUntilRemoved
  BY DEF KeptInv, Kept, Explained, KeptUntilRemoved, In, Rows, Carts
<1>4. QED
  BY <1>1, <1>2, <1>3, PTL DEF Spec
=============================================================================
