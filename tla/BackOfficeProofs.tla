-------------------------- MODULE BackOfficeProofs --------------------------
(***************************************************************************)
(* What the pages of the back office show, offer and send, for any         *)
(* catalogue of pages whose tables agree with their endpoints, any rows,   *)
(* permissions and number of moves: the answer to the query (Current), and *)
(* the rest along IInv, one conjunct for each thing that may go stale.     *)
(***************************************************************************)
EXTENDS BackOffice, FiniteSetTheorems, TLAPS

\* What the page of the cancelling hook keeps: every request in flight is for the
\* query of now, and when there is none the list answers it or shows an error.
Current ==
  /\ {"query", "error"} \subseteq DOMAIN list
  /\ page.cancels =>
        /\ \A g \in gets : g = [id |-> g.id, query |-> query, answer |-> g.answer]
        /\ gets = {} => list.error \/ list.query = query

LEMMA Fetched ==
  ASSUME NEW q, Fetch(q), page.cancels
  PROVE  gets' # {} /\ \A g \in gets' : g = [id |-> g.id, query |-> q, answer |-> g.answer]
<1>1. gets' = {[id |-> used.gets + 1, query |-> q, answer |-> None]}
  BY DEF Fetch, Request
<1>2. QED
  BY <1>1

\* A step that leaves the page, the query, the requests and the list alone.
LEMMA Kept ==
  ASSUME Current, UNCHANGED <<page, query, list, gets>>
  PROVE  Current'
  BY DEF Current

\* What is read again has the query that is shown.
LEMMA FetchedNow ==
  ASSUME Current, Fetch(query), list' = Refetching, UNCHANGED <<page, query>>
  PROVE  Current'
<1>1. {"query", "error"} \subseteq DOMAIN list'
  BY DEF Refetching, Current
<1>2. page.cancels => gets' # {} /\ \A g \in gets' : g = [id |-> g.id, query |-> query', answer |-> g.answer]
  BY Fetched
<1>3. QED
  BY <1>1, <1>2 DEF Current

LEMMA InitOK ==
  ASSUME Init
  PROVE  Current
  BY DEF Init, Current, FirstList

LEMMA ListOK ==
  ASSUME Current, NEW g \in gets, Answer(g) \/ Deliver(g) \/ FailGet(g)
  PROVE  Current'
<1>1. CASE Answer(g)
  <2>1. /\ gets' = (gets \ {g}) \cup {[g EXCEPT !.answer = rows]}
        /\ UNCHANGED <<page, query, list>>
    BY <1>1 DEF Answer
  <2>2. page.cancels => [g EXCEPT !.answer = rows] = [id |-> g.id, query |-> query, answer |-> rows]
    <3>1. page.cancels => g = [id |-> g.id, query |-> query, answer |-> g.answer]
      BY DEF Current
    <3>2. QED
      BY <3>1
  <2>3. QED
    BY <2>1, <2>2 DEF Current
<1>2. CASE Deliver(g)
  <2>1. /\ gets' = gets \ {g}
        /\ \E e : list' = [list EXCEPT !.rows = g.answer, !.query = g.query, !.loading = FALSE, !.error = e]
        /\ UNCHANGED <<page, query>>
    BY <1>2, Zenon DEF Deliver
  <2>2. {"query", "error"} \subseteq DOMAIN list
    BY DEF Current
  <2>3. {"query", "error"} \subseteq DOMAIN list' /\ list'.query = g.query
    <3>1. PICK e : list' = [list EXCEPT !.rows = g.answer, !.query = g.query, !.loading = FALSE, !.error = e]
      BY <2>1
    <3>2. QED
      BY <2>2, <3>1
  <2>4. page.cancels => g.query = query
    BY DEF Current
  <2>5. QED
    BY <2>1, <2>3, <2>4 DEF Current
<1>3. CASE FailGet(g)
  BY <1>3 DEF FailGet, Current
<1>4. QED
  BY <1>1, <1>2, <1>3

LEMMA UserOK ==
  ASSUME Current, User
  PROVE  Current'
<1>1. ASSUME NEW q \in page.queries, SetQuery(q)
      PROVE  Current'
  BY <1>1, Fetched DEF SetQuery, Current
<1>2. CASE Retry
  BY <1>2, FetchedNow DEF Retry
<1>3. CASE Remount
  BY <1>3 DEF Remount, Current, FirstList
<1>4. CASE OpenCreate \/ Close \/ StartUpload \/ Save \/ \E r \in Row : OpenEdit(r) \/ OpenPanel(r)
  BY <1>4, Kept DEF OpenCreate, Close, StartUpload, Save, OpenEdit, OpenPanel
<1>5. CASE \E op \in page.ops : PressInPanel(op) \/ \E r \in Row : PressInRow(op, r)
  BY <1>5, Kept DEF PressInPanel, PressInRow, Press
<1>6. QED
  BY <1>1, <1>2, <1>3, <1>4, <1>5 DEF User

LEMMA CallOK ==
  ASSUME Current, NEW c \in calls, Succeed(c) \/ Fail(c) \/ Unheard(c) \/ Handle(c)
  PROVE  Current'
<1>1. CASE Succeed(c) /\ c.op.reloads
  <2>1. Fetch(query) /\ list' = Refetching /\ UNCHANGED <<page, query>>
    BY <1>1 DEF Succeed
  <2>2. QED
    BY <2>1, FetchedNow
<1>2. CASE Succeed(c) /\ ~c.op.reloads
  BY <1>2, Kept DEF Succeed
<1>3. CASE Fail(c)
  BY <1>3, Kept DEF Fail
<1>4. CASE Unheard(c)
  BY <1>4, Kept DEF Unheard, ui
<1>5. CASE Handle(c)
  BY <1>5, Kept DEF Handle, ui
<1>6. QED
  BY <1>1, <1>2, <1>3, <1>4, <1>5

LEMMA NextOK ==
  ASSUME Current, [Next]_vars
  PROVE  Current'
<1>1. CASE UNCHANGED vars
  BY <1>1, Kept DEF vars
<1>2. CASE LookupSettles \/ EndUpload
  BY <1>2, Kept DEF LookupSettles, LookupEnds, EndUpload
<1>3. CASE \E r \in Row : Elsewhere(r)
  BY <1>3, Kept DEF Elsewhere, ui
<1>4. QED
  BY <1>1, <1>2, <1>3, ListOK, UserOK, CallOK DEF Next, ListSettles, CallSettles, Api

\* When nothing is in flight and no error is shown, a list page shows the answer
\* to the filters, search and page it displays, whatever order answers came in
\* (the cancelled flag of use-api.ts).
THEOREM ShowsTheQuery == Spec => []AnswersTheQuery
<1>1. Init => Current
  BY InitOK
<1>2. Current /\ [Next]_vars => Current'
  BY NextOK
<1>3. Current => AnswersTheQuery
  BY DEF Current, AnswersTheQuery
<1>4. QED
  BY <1>1, <1>2, <1>3, PTL DEF Spec

---------------------------------------------------------------------------
\* The fields of the records, and the ids of the changes requested: each is new.
DialogFields == {"kind", "row", "seen", "gen", "holds", "image", "blamed", "late"}

Shaped ==
  /\ page \in Pages /\ perms \in PermissionSets
  /\ used \in [gets : Nat, moves : Nat]
  /\ {"rows", "query", "loading", "error"} \subseteq DOMAIN list
  /\ DialogFields \subseteq DOMAIN dialog
  /\ \A g \in gets : g = [id |-> g.id, query |-> g.query, answer |-> g.answer]
  /\ \A c \in calls :
        /\ c = [id |-> c.id, op |-> c.op, row |-> c.row, seen |-> c.seen, gen |-> c.gen,
                state |-> c.state, heard |-> c.heard]
        /\ c.id \in Nat /\ c.id <= used.moves
  /\ \A c, d \in calls : c.id = d.id => c = d

\* A form or a panel that is open on a row has one of the page's.
OnARow ==
  /\ dialog.kind = "panel" => dialog.row \in Row
  /\ dialog.kind = "form" => dialog.row \in Row \cup {None}
  /\ \A c \in calls : ~IsSave(c) => c.op \in page.ops /\ c.row \in Row

\* Whoever waits is marked: the form by saving, a button by the page's slot,
\* unless the mark went to another row.
Marked ==
  /\ \A c \in calls : c.heard /\ IsSave(c) => saving
  /\ \A c, d \in calls : c.heard /\ d.heard /\ IsSave(c) /\ IsSave(d) => c.id = d.id
  /\ \A c \in calls : c.heard /\ ~IsSave(c) /\ c.op.busy # None =>
        slot = Key(c.op, c.row) \/ Key(c.op, c.row) \in unmarked
  /\ OneInFlight

\* What is awaited was asked for by the dialog that is open, unless it was opened
\* while an earlier one still waited.
Home ==
  dialog.kind # None /\ ~dialog.late =>
    /\ {dialog.holds, dialog.image, dialog.blamed} \subseteq {0, dialog.gen}
    /\ uploading \in {0, dialog.gen}
    /\ \A l \in lookups : l.id = dialog.gen
    /\ \A c \in calls : c.heard /\ IsSave(c) => c.gen = dialog.gen

\* Versions only grow, and what was read of a row is the row of now or an older
\* version of it.
IsRow(x) == x = [st |-> x.st, ver |-> x.ver] /\ x.ver \in Nat

Seen(x, r) == IsRow(x) /\ (x = rows[r] \/ x.ver < rows[r].ver)

SeenAll(answer) == \A r \in Row : Seen(answer[r], r)

Read ==
  /\ rows = [r \in Row |-> rows[r]]
  /\ \A r \in Row : IsRow(rows[r])
  /\ list.rows # None => SeenAll(list.rows)
  /\ \A g \in gets : g.answer # None => SeenAll(g.answer)

\* A form or a button is offered to who may use it, in a status the API accepts.
Offered(op, seen) ==
  seen.st \in DOMAIN op.to \/ (op.name = "processing" /\ seen.st = "pending")

OfferedInTime ==
  /\ dialog.kind = "form" =>
       IF dialog.row = None THEN page.create # None /\ May(page.create.needs)
       ELSE May(page.edit.needs) /\ Seen(dialog.seen, dialog.row) /\ Offered(page.edit, dialog.seen)
  /\ dialog.kind = "panel" => Seen(dialog.seen, dialog.row)
  /\ \A c \in calls : c.state = "sent" =>
       /\ May(c.op.needs)
       /\ IF c.row = None THEN Absent \in DOMAIN c.op.to
          ELSE c.row \in Row /\ Seen(c.seen, c.row) /\ Offered(c.op, c.seen)
  /\ \A c \in calls : c.state = "refused" =>
       c.row \in Row /\ IsRow(c.seen) /\ (rows[c.row].ver > c.seen.ver \/ OfferedTooEarly(c))

\* Unless two GETs overlap, the last one is answered with what was acknowledged.
Fresh(answer) == \A r \in Row : answer[r].ver >= acked[r]

Caught ==
  /\ acked = [r \in Row |-> acked[r]]
  /\ \A r \in Row : acked[r] \in Nat /\ acked[r] <= rows[r].ver
  /\ IsFiniteSet(gets)
  /\ ~overlapped =>
       /\ \A g, h \in gets : g = h
       /\ \A g \in gets : g.answer # None => Fresh(g.answer)
       /\ gets = {} => list.error \/ list.rows = None \/ Fresh(list.rows)

\* The skeleton is gone when nothing is awaited.
Loaded == gets = {} => ~list.loading

IInv == Shaped /\ OnARow /\ Marked /\ Home /\ Read /\ OfferedInTime /\ Caught /\ Loaded

LEMMA Steps ==
  ASSUME [Next]_vars
  PROVE  \/ UNCHANGED vars
         \/ \E q \in page.queries : SetQuery(q)
         \/ Retry
         \/ Remount
         \/ OpenCreate
         \/ \E r \in Row : OpenEdit(r)
         \/ \E r \in Row : OpenPanel(r)
         \/ Close
         \/ StartUpload
         \/ EndUpload
         \/ Save
         \/ \E op \in page.ops : PressInPanel(op)
         \/ \E op \in page.ops, r \in Row : PressInRow(op, r)
         \/ \E g \in gets : Answer(g)
         \/ \E g \in gets : Deliver(g)
         \/ \E g \in gets : FailGet(g)
         \/ \E l \in lookups : LookupEnds(l)
         \/ \E c \in calls : Handle(c)
         \/ \E c \in calls : Succeed(c)
         \/ \E c \in calls : Fail(c)
         \/ \E c \in calls : Unheard(c)
         \/ \E r \in Row : Elsewhere(r)
  BY DEF Next, User, ListSettles, LookupSettles, CallSettles, Api

\* The page and its user stay the same.
LEMMA Fixed ==
  ASSUME [Next]_vars
  PROVE  UNCHANGED <<page, perms>>
  BY Steps DEF vars, ui, hist, SetQuery, Retry, Remount, OpenCreate, OpenEdit, OpenPanel, Close, StartUpload, EndUpload,
     Save, PressInPanel, PressInRow, Press, Answer, Deliver, FailGet, LookupEnds, Handle, Succeed, Fail, Unheard, Elsewhere

\* A change that is requested gets an id of its own.
LEMMA CallAdded ==
  ASSUME Shaped, NEW op, NEW r, NEW seen, calls' = calls \cup {Call(op, r, seen)},
         Spend(0, 1)
  PROVE  /\ \A c \in calls' :
              /\ c = [id |-> c.id, op |-> c.op, row |-> c.row, seen |-> c.seen, gen |-> c.gen,
                      state |-> c.state, heard |-> c.heard]
              /\ c.id \in Nat /\ c.id <= used'.moves
         /\ \A c, d \in calls' : c.id = d.id => c = d
<1> DEFINE n == Call(op, r, seen)
<1>1. n.id = used.moves + 1 /\ n = [id |-> n.id, op |-> n.op, row |-> n.row, seen |-> n.seen, gen |-> n.gen,
                                    state |-> n.state, heard |-> n.heard]
  BY DEF Call
<1>2. used.moves \in Nat /\ used'.moves = used.moves + 1
  BY DEF Shaped, Spend
<1> HIDE DEF n
<1>3. \A c \in calls : c.id # n.id
  BY <1>1, <1>2 DEF Shaped
<1>4. QED
  BY <1>1, <1>2, <1>3 DEF Shaped, n

\* The records of calls: what an update of one leaves as it was.
CallOf(i, o, w, x, g, t, h) == [id |-> i, op |-> o, row |-> w, seen |-> x, gen |-> g, state |-> t, heard |-> h]

LEMMA StateUpdated ==
  ASSUME NEW i, NEW o, NEW w, NEW x, NEW g, NEW t, NEW h, NEW st
  PROVE  [CallOf(i, o, w, x, g, t, h) EXCEPT !.state = st] = CallOf(i, o, w, x, g, st, h)
  BY DEF CallOf

LEMMA RowUpdated ==
  ASSUME NEW i, NEW o, NEW w, NEW x, NEW g, NEW t, NEW h, NEW r
  PROVE  [CallOf(i, o, w, x, g, t, h) EXCEPT !.row = r] = CallOf(i, o, r, x, g, t, h)
  BY DEF CallOf

LEMMA HeardUpdated ==
  ASSUME NEW i, NEW o, NEW w, NEW x, NEW g, NEW t, NEW h, NEW u
  PROVE  [CallOf(i, o, w, x, g, t, h) EXCEPT !.heard = u] = CallOf(i, o, w, x, g, t, u)
  BY DEF CallOf

LEMMA CallUpdated ==
  ASSUME Shaped, NEW c \in calls, NEW st, NEW r
  PROVE  /\ [c EXCEPT !.state = st, !.row = r] = CallOf(c.id, c.op, r, c.seen, c.gen, st, c.heard)
         /\ [c EXCEPT !.heard = FALSE] = CallOf(c.id, c.op, c.row, c.seen, c.gen, c.state, FALSE)
<1>1. c = CallOf(c.id, c.op, c.row, c.seen, c.gen, c.state, c.heard)
  BY DEF Shaped, CallOf
<1>2. [c EXCEPT !.state = st] = CallOf(c.id, c.op, c.row, c.seen, c.gen, st, c.heard)
  BY <1>1, StateUpdated
<1>3. [c EXCEPT !.state = st, !.row = r] = [[c EXCEPT !.state = st] EXCEPT !.row = r]
  OBVIOUS
<1>4. [c EXCEPT !.state = st, !.row = r] = CallOf(c.id, c.op, r, c.seen, c.gen, st, c.heard)
  <2>1. [CallOf(c.id, c.op, c.row, c.seen, c.gen, st, c.heard) EXCEPT !.row = r]
          = CallOf(c.id, c.op, r, c.seen, c.gen, st, c.heard)
    BY RowUpdated
  <2>2. QED
    BY <1>2, <1>3, <2>1
<1>5. [c EXCEPT !.heard = FALSE] = CallOf(c.id, c.op, c.row, c.seen, c.gen, c.state, FALSE)
  <2>1. PICK u : u = FALSE
    BY Zenon
  <2>2. [c EXCEPT !.heard = u] = CallOf(c.id, c.op, c.row, c.seen, c.gen, c.state, u)
    BY <1>1, HeardUpdated
  <2>3. QED
    BY <2>1, <2>2, Zenon
<1>6. QED
  BY <1>4, <1>5

\* A change that is handled keeps its id.
LEMMA CallReplaced ==
  ASSUME Shaped, NEW c \in calls, NEW st, NEW r, calls' = (calls \ {c}) \cup {[c EXCEPT !.state = st, !.row = r]},
         UNCHANGED used
  PROVE  /\ \A d \in calls' :
              /\ d = [id |-> d.id, op |-> d.op, row |-> d.row, seen |-> d.seen, gen |-> d.gen,
                      state |-> d.state, heard |-> d.heard]
              /\ d.id \in Nat /\ d.id <= used'.moves
         /\ \A d, e \in calls' : d.id = e.id => d = e
<1> DEFINE n == [c EXCEPT !.state = st, !.row = r]
<1>1. n = [id |-> c.id, op |-> c.op, row |-> r, seen |-> c.seen, gen |-> c.gen, state |-> st, heard |-> c.heard]
  BY CallUpdated DEF CallOf
<1> HIDE DEF n
<1>2. calls' = (calls \ {c}) \cup {n}
  BY DEF n
<1>3. \A d \in calls \ {c} : d.id # n.id
  BY <1>1 DEF Shaped
<1>4. QED
  BY <1>1, <1>2, <1>3 DEF Shaped

\* When the page mounts anew, the changes are as they were and nobody hears of them.
LEMMA Unhearing ==
  ASSUME Shaped, Remount
  PROVE  /\ \A d \in calls' : d = CallOf(d.id, d.op, d.row, d.seen, d.gen, d.state, d.heard)
         /\ \A d \in calls' : ~d.heard
         /\ \A d \in calls' : \E c \in calls : d.id = c.id /\ d.op = c.op /\ d.row = c.row /\ d.seen = c.seen
                                               /\ d.gen = c.gen /\ d.state = c.state
         /\ \A d, e \in calls' : d.id = e.id => d = e
<1> DEFINE Un(c) == CallOf(c.id, c.op, c.row, c.seen, c.gen, c.state, FALSE)
<1>1. calls' = {[c EXCEPT !.heard = FALSE] : c \in calls}
  BY DEF Remount
<1>2. \A c \in calls : [c EXCEPT !.heard = FALSE] = Un(c)
  BY CallUpdated
<1>3. calls' = {Un(c) : c \in calls}
  BY <1>1, <1>2
<1>4. \A c : Un(c) = CallOf(Un(c).id, Un(c).op, Un(c).row, Un(c).seen, Un(c).gen, Un(c).state, Un(c).heard)
             /\ ~Un(c).heard /\ Un(c).id = c.id /\ Un(c).op = c.op /\ Un(c).row = c.row /\ Un(c).seen = c.seen
             /\ Un(c).gen = c.gen /\ Un(c).state = c.state
  BY DEF CallOf
<1>5. \A c, d \in calls : c.id = d.id => c = d
  BY DEF Shaped
<1> HIDE DEF Un
<1>6. QED
  BY <1>3, <1>4, <1>5

LEMMA ShapedOK ==
  ASSUME Shaped, [Next]_vars
  PROVE  Shaped'
<1>1. page' \in Pages /\ perms' \in PermissionSets
  BY Fixed DEF Shaped
<1>2. used' \in [gets : Nat, moves : Nat] /\ used.moves <= used'.moves
  <2>1. used' = used \/ Spend(0, 1) \/ Spend(1, 0) \/ Spend(1, 1)
    BY Steps DEF Shaped, vars, ui, hist, SetQuery, Retry, Remount, OpenCreate, OpenEdit, OpenPanel, Close, StartUpload,
       EndUpload, Save, PressInPanel, PressInRow, Press, Answer, Deliver, FailGet, LookupEnds, Handle, Succeed, Fail,
       Unheard, Elsewhere
  <2>2. used \in [gets : Nat, moves : Nat]
    BY DEF Shaped
  <2>3. QED
    BY <2>1, <2>2 DEF Spend
<1>3. {"rows", "query", "loading", "error"} \subseteq DOMAIN list'
  <2>1. DOMAIN Refetching = DOMAIN list
    <3>1. \E l, e : Refetching = [list EXCEPT !.loading = l, !.error = e]
      BY Zenon DEF Refetching
    <3>2. QED
      BY <3>1
  <2>2. ASSUME NEW g \in gets, Deliver(g)
        PROVE  DOMAIN list' = DOMAIN list
    <3>1. \E e : list' = [list EXCEPT !.rows = g.answer, !.query = g.query, !.loading = FALSE, !.error = e]
      BY <2>2, Zenon DEF Deliver
    <3>2. QED
      BY <3>1
  <2>3. list' \in {list, Refetching, FirstList} \/ DOMAIN list' = DOMAIN list
    BY <2>2, Steps DEF Shaped, vars, ui, hist, SetQuery, Retry, Remount, OpenCreate, OpenEdit, OpenPanel, Close, StartUpload,
       EndUpload, Save, PressInPanel, PressInRow, Press, Answer, FailGet, LookupEnds, Handle, Succeed, Fail, Unheard, Elsewhere
  <2>4. QED
    BY <2>1, <2>3 DEF FirstList, Shaped
<1>4. DialogFields \subseteq DOMAIN dialog'
  <2>1. DOMAIN Closed = DialogFields
    BY DEF Closed, DialogFields
  <2>2. dialog' = dialog \/ dialog' = Closed \/ DOMAIN dialog' = DOMAIN dialog \/ DOMAIN dialog' = DOMAIN Closed
    BY Steps DEF Shaped, vars, ui, hist, SetQuery, Retry, Remount, OpenCreate, OpenEdit, OpenPanel, Close, StartUpload, EndUpload,
       Save, PressInPanel, PressInRow, Press, Answer, Deliver, FailGet, LookupEnds, Handle, Succeed, Fail, Unheard, Elsewhere,
       Open
  <2>3. QED
    BY <2>1, <2>2 DEF Shaped
<1>5. \A g \in gets' : g = [id |-> g.id, query |-> g.query, answer |-> g.answer]
  <2>1. ASSUME NEW g \in gets, Answer(g)
        PROVE  \A h \in gets' : h = [id |-> h.id, query |-> h.query, answer |-> h.answer]
    <3>1. [g EXCEPT !.answer = rows] = [id |-> g.id, query |-> g.query, answer |-> rows]
      BY DEF Shaped
    <3>2. QED
      BY <2>1, <3>1 DEF Answer, Shaped
  <2>2. gets' \subseteq gets \/ (\E q : gets' = {[id |-> used.gets + 1, query |-> q, answer |-> None]}
                                     \/ gets' = gets \cup {[id |-> used.gets + 1, query |-> q, answer |-> None]})
                             \/ \E g \in gets : Answer(g)
    BY Steps DEF Shaped, vars, ui, hist, SetQuery, Retry, Remount, OpenCreate, OpenEdit, OpenPanel, Close, StartUpload, EndUpload,
       Save, PressInPanel, PressInRow, Press, Deliver, FailGet, LookupEnds, Handle, Succeed, Fail, Unheard, Elsewhere,
       Fetch, Request
  <2>3. QED
    BY <2>1, <2>2 DEF Shaped
<1>6. /\ \A c \in calls' :
           /\ c = [id |-> c.id, op |-> c.op, row |-> c.row, seen |-> c.seen, gen |-> c.gen,
                   state |-> c.state, heard |-> c.heard]
           /\ c.id \in Nat /\ c.id <= used'.moves
      /\ \A c, d \in calls' : c.id = d.id => c = d
  <2>1. CASE Save
    BY <2>1, CallAdded DEF Save
  <2>2. CASE (\E op \in page.ops : PressInPanel(op)) \/ \E op \in page.ops, r \in Row : PressInRow(op, r)
    BY <2>2, CallAdded DEF PressInPanel, PressInRow, Press
  <2>3. ASSUME NEW c \in calls, Handle(c)
        PROVE  <1>6
    <3>1. PICK st, r : calls' = (calls \ {c}) \cup {[c EXCEPT !.state = st, !.row = r]}
      <4>1. \/ \E r \in Target(c) : calls' = (calls \ {c}) \cup {[c EXCEPT !.state = "done", !.row = r]}
            \/ \E st \in {"refused", "ruled out"} : calls' = (calls \ {c}) \cup {[c EXCEPT !.state = st]}
        BY <2>3, Zenon DEF Handle
      <4>2. \A st \in {"refused", "ruled out"} : [c EXCEPT !.state = st] = [c EXCEPT !.state = st, !.row = c.row]
        BY DEF Shaped
      <4>3. CASE \E r \in Target(c) : calls' = (calls \ {c}) \cup {[c EXCEPT !.state = "done", !.row = r]}
        <5>1. PICK r : calls' = (calls \ {c}) \cup {[c EXCEPT !.state = "done", !.row = r]}
          BY <4>3
        <5>2. QED
          BY <5>1
      <4>4. CASE \E st \in {"refused", "ruled out"} : calls' = (calls \ {c}) \cup {[c EXCEPT !.state = st]}
        <5>1. PICK st \in {"refused", "ruled out"} : calls' = (calls \ {c}) \cup {[c EXCEPT !.state = st]}
          BY <4>4
        <5>2. calls' = (calls \ {c}) \cup {[c EXCEPT !.state = st, !.row = c.row]}
          BY <4>2, <5>1
        <5>3. QED
          BY <5>2
      <4>5. QED
        BY <4>1, <4>3, <4>4
    <3>2. QED
      BY <2>3, <3>1, CallReplaced DEF Handle
  <2>4. CASE Remount
    BY <2>4, <1>2, Unhearing DEF Shaped, CallOf
  <2>5. CASE calls' \subseteq calls
    BY <2>5, <1>2 DEF Shaped
  <2>6. QED
    BY <2>1, <2>2, <2>3, <2>4, <2>5, Steps DEF Shaped, vars, ui, hist, SetQuery, Retry, OpenCreate, OpenEdit, OpenPanel, Close,
       StartUpload, EndUpload, Answer, Deliver, FailGet, LookupEnds, Succeed, Fail, Unheard, Elsewhere
<1>7. QED
  BY <1>1, <1>2, <1>3, <1>4, <1>5, <1>6 DEF Shaped

---------------------------------------------------------------------------
\* What a step does to the dialog: nothing, or to what it holds; closes it; opens it.
LEMMA DialogSteps ==
  ASSUME Shaped, [Next]_vars
  PROVE  \/ dialog' = Closed
         \/ /\ dialog'.kind = dialog.kind /\ dialog'.row = dialog.row /\ dialog'.seen = dialog.seen
            /\ dialog'.gen = dialog.gen /\ dialog'.late = dialog.late
         \/ OpenCreate
         \/ \E r \in Row : OpenEdit(r)
         \/ \E r \in Row : OpenPanel(r)
<1>1. \/ dialog' \in {dialog, Closed}
      \/ \E x : dialog' \in {[dialog EXCEPT !.holds = x], [dialog EXCEPT !.image = x], [dialog EXCEPT !.blamed = x]}
      \/ OpenCreate \/ (\E r \in Row : OpenEdit(r)) \/ (\E r \in Row : OpenPanel(r))
  BY Steps DEF vars, ui, hist, SetQuery, Retry, Remount, Close, StartUpload, EndUpload, Save, PressInPanel, PressInRow,
     Press, Answer, Deliver, FailGet, LookupEnds, Handle, Succeed, Fail, Unheard, Elsewhere
<1>2. DialogFields \subseteq DOMAIN dialog
  BY DEF Shaped
<1>3. QED
  BY <1>1, <1>2 DEF DialogFields

\* A dialog that opens is late if and only if an earlier one still waits.
LEMMA Opened ==
  ASSUME NEW kind, NEW r, NEW seen, Open(kind, r, seen)
  PROVE  /\ dialog'.kind = kind /\ dialog'.row = r /\ dialog'.seen = seen /\ dialog'.gen = used.moves + 1
         /\ {dialog'.holds, dialog'.image, dialog'.blamed} = {0}
         /\ ~dialog'.late => ~saving /\ uploading = 0 /\ lookups = {}
<1>1. PICK late : late = (saving \/ uploading # 0 \/ lookups # {})
  BY Zenon
<1>2. dialog' = [Closed EXCEPT !.kind = kind, !.row = r, !.seen = seen, !.gen = used.moves + 1, !.late = late]
  BY <1>1, Zenon DEF Open
<1>3. DOMAIN Closed = DialogFields /\ Closed.holds = 0 /\ Closed.image = 0 /\ Closed.blamed = 0
  BY DEF Closed, DialogFields
<1>4. /\ dialog'.kind = kind /\ dialog'.row = r /\ dialog'.seen = seen /\ dialog'.gen = used.moves + 1
      /\ dialog'.holds = 0 /\ dialog'.image = 0 /\ dialog'.blamed = 0 /\ dialog'.late = late
  BY <1>2, <1>3 DEF DialogFields
<1>5. ~late => ~saving /\ uploading = 0 /\ lookups = {}
  BY <1>1, Zenon
<1>6. QED
  BY <1>4, <1>5, Zenon

\* What a step does to the changes that are awaited.
LEMMA CallSteps ==
  ASSUME OnARow, [Next]_vars
  PROVE  \/ calls' \subseteq calls
         \/ Remount
         \/ Save
         \/ \E op \in page.ops, r \in Row : \E seen : Press(op, r, seen)
         \/ \E c \in calls : Handle(c)
<1>1. \A op : PressInPanel(op) => dialog.row \in Row /\ Press(op, dialog.row, dialog.seen)
  BY DEF PressInPanel, OnARow
<1>2. \A op, r : PressInRow(op, r) => Press(op, r, list.rows[r])
  BY DEF PressInRow
<1>3. \/ calls' \subseteq calls \/ Remount \/ Save \/ (\E c \in calls : Handle(c))
      \/ (\E op \in page.ops : PressInPanel(op)) \/ (\E op \in page.ops, r \in Row : PressInRow(op, r))
  BY Steps DEF vars, ui, hist, SetQuery, Retry, OpenCreate, OpenEdit, OpenPanel, Close, StartUpload, EndUpload, Answer,
     Deliver, FailGet, LookupEnds, Succeed, Fail, Unheard, Elsewhere
<1>4. QED
  BY <1>1, <1>2, <1>3

LEMMA Called ==
  ASSUME NEW op, NEW r, NEW seen
  PROVE  /\ Call(op, r, seen).id = used.moves + 1 /\ Call(op, r, seen).op = op
         /\ Call(op, r, seen).row = r /\ Call(op, r, seen).seen = seen /\ Call(op, r, seen).gen = dialog.gen
         /\ Call(op, r, seen).state = "sent" /\ Call(op, r, seen).heard
  BY DEF Call

\* A change that the API handles differs in its state, and in its row if it created one.
LEMMA Handled ==
  ASSUME Shaped, NEW c \in calls, Handle(c)
  PROVE  \E n : /\ calls' = (calls \ {c}) \cup {n}
                /\ n.id = c.id /\ n.op = c.op /\ n.seen = c.seen /\ n.gen = c.gen
                /\ c.heard = n.heard /\ c.state = "sent"
                /\ c.row # None => n.row = c.row
                /\ \/ n.state = "done"
                   \/ n.state = "refused" /\ n.row = c.row /\ Refuses(c) /\ UNCHANGED rows
                   \/ n.state = "ruled out" /\ n.row = c.row /\ UNCHANGED rows
<1>1. c.state = "sent"
  BY DEF Handle
<1>2. ASSUME NEW r \in Target(c), calls' = (calls \ {c}) \cup {[c EXCEPT !.state = "done", !.row = r]}
      PROVE  \E n : /\ calls' = (calls \ {c}) \cup {n}
                    /\ n.id = c.id /\ n.op = c.op /\ n.seen = c.seen /\ n.gen = c.gen
                    /\ c.heard = n.heard
                    /\ c.row # None => n.row = c.row
                    /\ n.state = "done"
  <2>1. c.row # None => r = c.row
    BY DEF Target
  <2>2. [c EXCEPT !.state = "done", !.row = r] = CallOf(c.id, c.op, r, c.seen, c.gen, "done", c.heard)
    BY CallUpdated
  <2>3. QED
    BY <1>2, <2>1, <2>2 DEF CallOf
<1>3. ASSUME NEW st, calls' = (calls \ {c}) \cup {[c EXCEPT !.state = st]}
      PROVE  \E n : /\ calls' = (calls \ {c}) \cup {n}
                    /\ n.id = c.id /\ n.op = c.op /\ n.seen = c.seen /\ n.gen = c.gen
                    /\ c.heard = n.heard
                    /\ n.row = c.row /\ n.state = st
  <2>1. [c EXCEPT !.state = st] = CallOf(c.id, c.op, c.row, c.seen, c.gen, st, c.heard)
    <3>1. c = CallOf(c.id, c.op, c.row, c.seen, c.gen, c.state, c.heard)
      BY DEF Shaped, CallOf
    <3>2. QED
      BY <3>1, StateUpdated
  <2>2. QED
    BY <1>3, <2>1 DEF CallOf
<1>4. QED
  BY <1>1, <1>2, <1>3 DEF Handle

LEMMA OnARowOK ==
  ASSUME Shaped, OnARow, [Next]_vars
  PROVE  OnARow'
<1>1. (dialog'.kind = "panel" => dialog'.row \in Row) /\ (dialog'.kind = "form" => dialog'.row \in Row \cup {None})
  <2>1. CASE dialog' = Closed
    BY <2>1, PagesAssumption DEF Closed
  <2>2. CASE dialog'.kind = dialog.kind /\ dialog'.row = dialog.row
    BY <2>2 DEF OnARow
  <2>3. CASE OpenCreate
    BY <2>3, Opened DEF OpenCreate
  <2>4. ASSUME NEW r \in Row, OpenEdit(r) \/ OpenPanel(r)
        PROVE  dialog'.row \in Row
    BY <2>4, Opened DEF OpenEdit, OpenPanel
  <2>5. QED
    BY <2>1, <2>2, <2>3, <2>4, DialogSteps
<1>2. \A c \in calls' : c.op \notin {page.create, page.edit} => c.op \in page.ops /\ c.row \in Row
  <2>1. \A c \in calls : c.op \notin {page.create, page.edit} => c.op \in page.ops /\ c.row \in Row
    BY DEF OnARow, IsSave
  <2>2. CASE Remount
    BY <2>1, <2>2, Unhearing
  <2>3. CASE Save
    BY <2>1, <2>3, Called DEF Save
  <2>4. ASSUME NEW op \in page.ops, NEW r \in Row, NEW seen, Press(op, r, seen)
        PROVE  <1>2
    BY <2>1, <2>4, Called DEF Press
  <2>5. ASSUME NEW c \in calls, Handle(c)
        PROVE  <1>2
    <3>1. PICK n : calls' = (calls \ {c}) \cup {n} /\ n.op = c.op /\ (c.row # None => n.row = c.row)
      BY <2>5, Handled
    <3>2. n.op \notin {page.create, page.edit} => n.op \in page.ops /\ n.row \in Row
      BY <2>1, <3>1, PagesAssumption
    <3>3. QED
      BY <2>1, <3>1, <3>2
  <2>6. QED
    BY <2>1, <2>2, <2>3, <2>4, <2>5, CallSteps
<1>3. QED
  BY <1>1, <1>2, Fixed DEF OnARow, IsSave

LEMMA SaveFixed ==
  ASSUME [Next]_vars, NEW c
  PROVE  IsSave(c)' <=> IsSave(c)
  BY Fixed DEF IsSave

\* A step that leaves the marks alone and adds no change that is awaited.
LEMMA MarksKept ==
  ASSUME Marked, [Next]_vars, saving' = saving, UNCHANGED <<slot, unmarked>>,
         \A c \in calls' : \E d \in calls : /\ c.id = d.id /\ c.op = d.op /\ (c.heard => d.heard)
                                            /\ ~IsSave(c) => c.row = d.row
  PROVE  Marked'
<1>1. \A c : IsSave(c)' <=> IsSave(c)
  BY SaveFixed
<1>2. \A c, d : c.op = d.op => (IsSave(c) <=> IsSave(d))
  BY DEF IsSave
<1>3. \A c \in calls' : c.heard /\ IsSave(c) => saving'
  BY <1>2 DEF Marked
<1>4. \A c, d \in calls' : c.heard /\ d.heard /\ IsSave(c) /\ IsSave(d) => c.id = d.id
  BY <1>2 DEF Marked
<1>5. \A c \in calls' : c.heard /\ ~IsSave(c) /\ c.op.busy # None =>
        slot' = Key(c.op, c.row) \/ Key(c.op, c.row) \in unmarked'
  BY <1>2 DEF Marked
<1>6. \A c, d \in calls' : c.id # d.id /\ c.heard /\ d.heard =>
        IF IsSave(c) \/ IsSave(d) THEN ~(IsSave(c) /\ IsSave(d))
        ELSE Key(c.op, c.row) = Key(d.op, d.row) =>
                c.op.busy = None \/ d.op.busy = None \/ Key(c.op, c.row) \in unmarked'
  <2>1. ASSUME NEW c \in calls', NEW d \in calls', c.id # d.id, c.heard, d.heard, ~IsSave(c), ~IsSave(d),
               Key(c.op, c.row) = Key(d.op, d.row), c.op.busy # None, d.op.busy # None
        PROVE  Key(c.op, c.row) \in unmarked'
    <3>1. PICK x \in calls : c.id = x.id /\ c.op = x.op /\ x.heard /\ c.row = x.row
      BY <2>1
    <3>2. PICK y \in calls : d.id = y.id /\ d.op = y.op /\ y.heard /\ d.row = y.row
      BY <2>1
    <3>3. ~IsSave(x) /\ ~IsSave(y)
      BY <1>2, <2>1, <3>1, <3>2
    <3>4. QED
      BY <2>1, <3>1, <3>2, <3>3 DEF Marked, OneInFlight
  <2>2. QED
    BY <1>4, <2>1
<1>7. QED
  BY <1>1, <1>3, <1>4, <1>5, <1>6 DEF Marked, OneInFlight

LEMMA SaveMarked ==
  ASSUME Shaped, Marked, Save, [Next]_vars
  PROVE  Marked'
<1>1. PICK n : calls' = calls \cup {n} /\ n.op \in {page.create, page.edit} /\ IsSave(n)
  BY Called DEF Save, IsSave
<1>2. ~saving /\ saving' /\ UNCHANGED <<slot, unmarked>>
  BY DEF Save, hist
<1>3. \A c \in calls : c.heard => ~IsSave(c)
  BY <1>2 DEF Marked
<1>4. \A c : IsSave(c)' <=> IsSave(c)
  BY SaveFixed
<1>5. \A c, d \in calls' : c.heard /\ d.heard /\ IsSave(c) /\ IsSave(d) => c.id = d.id
  BY <1>1, <1>3
<1>6. \A c, d \in calls' : c.id # d.id /\ c.heard /\ d.heard =>
        IF IsSave(c) \/ IsSave(d) THEN ~(IsSave(c) /\ IsSave(d))
        ELSE Key(c.op, c.row) = Key(d.op, d.row) =>
                c.op.busy = None \/ d.op.busy = None \/ Key(c.op, c.row) \in unmarked'
  BY <1>1, <1>2, <1>5 DEF Marked, OneInFlight
<1>7. QED
  BY <1>1, <1>2, <1>4, <1>5, <1>6 DEF Marked, OneInFlight

LEMMA PressMarked ==
  ASSUME Shaped, OnARow, Marked, [Next]_vars, NEW op \in page.ops, NEW r \in Row, NEW seen, Press(op, r, seen)
  PROVE  Marked'
<1> DEFINE K(c) == Key(c.op, c.row)
<1>1. PICK n : calls' = calls \cup {n} /\ n.op = op /\ n.row = r
  BY Called DEF Press
<1>2. /\ ~IsSave(n)
      /\ \A c \in calls' : ~IsSave(c) => K(c) # None
  <2>1. page \in Pages /\ \A c \in calls' : ~IsSave(c) => c.op \in page.ops /\ c.row \in Row
    BY <1>1 DEF Shaped, OnARow
  <2>2. QED
    BY <1>1, <2>1, KeysAssumption, PagesAssumption DEF IsSave
<1>3. /\ saving' = saving
      /\ op.busy = None \/ slot # K(n)
      /\ slot' = IF op.busy = None THEN slot ELSE K(n)
      /\ unmarked' = IF op.busy = None \/ slot = None THEN unmarked ELSE unmarked \cup {slot}
  BY <1>1 DEF Press
<1>4. \A c : IsSave(c)' <=> IsSave(c)
  BY SaveFixed
<1>5. \A c \in calls : c.heard /\ ~IsSave(c) /\ c.op.busy # None => slot = K(c) \/ K(c) \in unmarked
  BY DEF Marked
<1>6. \A c, d \in calls : c.id # d.id /\ c.heard /\ d.heard /\ ~IsSave(c) /\ ~IsSave(d) /\ K(c) = K(d)
                          /\ c.op.busy # None /\ d.op.busy # None => K(c) \in unmarked
  BY DEF Marked, OneInFlight
<1>7. \A c \in calls' : c.heard /\ IsSave(c) => saving'
  BY <1>1, <1>2, <1>3 DEF Marked
<1>8. \A c, d \in calls' : c.heard /\ d.heard /\ IsSave(c) /\ IsSave(d) => c.id = d.id
  BY <1>1, <1>2 DEF Marked
<1> HIDE DEF K
<1>9. \A c \in calls' : c.heard /\ ~IsSave(c) /\ c.op.busy # None => slot' = K(c) \/ K(c) \in unmarked'
  BY <1>1, <1>2, <1>3, <1>5
<1>10. \A c, d \in calls' : c.id # d.id /\ c.heard /\ d.heard /\ ~IsSave(c) /\ ~IsSave(d) /\ K(c) = K(d)
                            /\ c.op.busy # None /\ d.op.busy # None => K(c) \in unmarked'
  BY <1>1, <1>2, <1>3, <1>5, <1>6
<1>11. QED
  BY <1>4, <1>7, <1>8, <1>9, <1>10 DEF Marked, OneInFlight, K

LEMMA SettledMarked ==
  ASSUME Shaped, OnARow, Marked, [Next]_vars, NEW c \in calls, Succeed(c) \/ Fail(c)
  PROVE  Marked'
<1> DEFINE K(d) == Key(d.op, d.row)
<1>1. calls' = calls \ {c} /\ c.heard
  BY DEF Succeed, Fail
<1>2. \A d : IsSave(d)' <=> IsSave(d)
  BY SaveFixed
<1>3. \A d \in calls' : d.id # c.id
  BY <1>1 DEF Shaped
<1>4. \A d, e \in calls : d.id # e.id /\ d.heard /\ e.heard /\ ~IsSave(d) /\ ~IsSave(e) /\ K(d) = K(e)
                          /\ d.op.busy # None /\ e.op.busy # None => K(d) \in unmarked
  BY DEF Marked, OneInFlight
<1>5. \A d \in calls : d.heard /\ ~IsSave(d) /\ d.op.busy # None => slot = K(d) \/ K(d) \in unmarked
  BY DEF Marked
<1>6. \A d, e \in calls' : d.heard /\ e.heard /\ IsSave(d) /\ IsSave(e) => d.id = e.id
  BY <1>1 DEF Marked
<1>7. CASE IsSave(c)
  <2>1. ~saving' /\ UNCHANGED <<slot, unmarked>>
    BY <1>7 DEF Succeed, Fail
  <2>2. \A d \in calls' : d.heard => ~IsSave(d)
    BY <1>1, <1>3, <1>7 DEF Marked
  <2>3. QED
    BY <1>1, <1>2, <1>4, <1>5, <2>1, <2>2 DEF Marked, OneInFlight
<1>8. CASE ~IsSave(c)
  <2>1. saving' = saving /\ Unmark(c)
    BY <1>8 DEF Succeed, Fail
  <2>2. CASE c.op.busy = None
    <3>1. UNCHANGED <<slot, unmarked>>
      BY <2>1, <2>2 DEF Unmark
    <3>2. QED
      BY <1>1, <2>1, <3>1, MarksKept
  <2>3. CASE c.op.busy # None
    <3>1. slot' = None /\ unmarked' = IF slot \in {None, K(c)} THEN unmarked ELSE unmarked \cup {slot}
      BY <2>1, <2>3 DEF Unmark
    <3>2. \A d \in calls' : ~IsSave(d) => K(d) # None
      <4>1. page \in Pages /\ \A d \in calls' : ~IsSave(d) => d.op \in page.ops /\ d.row \in Row
        BY <1>1 DEF Shaped, OnARow
      <4>2. QED
        BY <4>1, KeysAssumption
    <3>3. \A d \in calls' : d.heard /\ IsSave(d) => saving'
      BY <1>1, <2>1 DEF Marked
    <3> HIDE DEF K
    <3>4. \A d \in calls' : d.heard /\ ~IsSave(d) /\ d.op.busy # None => K(d) \in unmarked'
      BY <1>1, <1>3, <1>4, <1>5, <1>8, <2>3, <3>1, <3>2
    <3>5. QED
      BY <1>2, <1>6, <3>3, <3>4 DEF Marked, OneInFlight, K
  <2>4. QED
    BY <2>2, <2>3
<1>9. QED
  BY <1>7, <1>8

LEMMA MarkedOK ==
  ASSUME Shaped, OnARow, Marked, [Next]_vars
  PROVE  Marked'
<1>1. CASE Remount
  <2>1. \A c \in calls' : ~c.heard
    BY <1>1, Unhearing
  <2>2. QED
    BY <2>1 DEF Marked, OneInFlight
<1>2. ASSUME NEW c \in calls, Handle(c)
      PROVE  Marked'
  <2>1. UNCHANGED <<slot, unmarked>> /\ saving' = saving
    BY <1>2 DEF Handle, ui, hist
  <2>2. ~IsSave(c) => c.row # None
    BY PagesAssumption DEF OnARow
  <2>3. PICK n : /\ calls' = (calls \ {c}) \cup {n} /\ n.id = c.id /\ n.op = c.op /\ c.heard = n.heard
                 /\ c.row # None => n.row = c.row
    BY <1>2, Handled
  <2>4. IsSave(n) <=> IsSave(c)
    BY <2>3 DEF IsSave
  <2>5. QED
    BY <2>1, <2>2, <2>3, <2>4, MarksKept
<1>3. CASE calls' \subseteq calls /\ UNCHANGED <<saving, slot, unmarked>>
  BY <1>3, MarksKept
<1>4. \/ calls' \subseteq calls /\ UNCHANGED <<saving, slot, unmarked>>
      \/ Remount \/ Save \/ (\E op \in page.ops, r \in Row : \E seen : Press(op, r, seen))
      \/ \E c \in calls : Handle(c) \/ Succeed(c) \/ Fail(c)
  BY CallSteps, Steps DEF vars, ui, hist, SetQuery, Retry, OpenCreate, OpenEdit, OpenPanel, Close, StartUpload, EndUpload,
     PressInPanel, PressInRow, Answer, Deliver, FailGet, LookupEnds, Unheard, Elsewhere, OnARow
<1>5. QED
  BY <1>1, <1>2, <1>3, <1>4, SaveMarked, PressMarked, SettledMarked

\* A dialog that stays open, late or not as it was, and what it awaits.
LEMMA StaysHome ==
  ASSUME Home, [Next]_vars,
         dialog'.kind = dialog.kind, dialog'.gen = dialog.gen, dialog'.late = dialog.late,
         dialog.kind # None /\ ~dialog.late =>
           /\ {dialog'.holds, dialog'.image, dialog'.blamed}
                \subseteq {dialog.holds, dialog.image, dialog.blamed, 0, dialog.gen}
           /\ uploading' \in {uploading, 0, dialog.gen}
           /\ \A l \in lookups' : l.id = dialog.gen
           /\ \A c \in calls' : c.heard /\ IsSave(c) =>
                c.gen = dialog.gen \/ \E d \in calls : d.heard /\ IsSave(d) /\ c.gen = d.gen
  PROVE  Home'
<1>1. \A c : IsSave(c)' <=> IsSave(c)
  BY SaveFixed
<1>2. dialog'.late <=> dialog.late
  BY Zenon
<1>3. ASSUME dialog'.kind # None, ~dialog'.late
      PROVE  /\ {dialog'.holds, dialog'.image, dialog'.blamed} \subseteq {0, dialog'.gen}
             /\ uploading' \in {0, dialog'.gen}
             /\ \A l \in lookups' : l.id = dialog'.gen
             /\ \A c \in calls' : c.heard /\ IsSave(c) => c.gen = dialog'.gen
  <2>1. dialog.kind # None /\ ~dialog.late
    BY <1>2, <1>3, Zenon
  <2>2. /\ {dialog.holds, dialog.image, dialog.blamed} \subseteq {0, dialog.gen}
        /\ uploading \in {0, dialog.gen}
        /\ \A c \in calls : c.heard /\ IsSave(c) => c.gen = dialog.gen
    BY <2>1, Zenon DEF Home
  <2>3. /\ {dialog'.holds, dialog'.image, dialog'.blamed}
             \subseteq {dialog.holds, dialog.image, dialog.blamed, 0, dialog.gen}
        /\ uploading' \in {uploading, 0, dialog.gen}
        /\ \A l \in lookups' : l.id = dialog.gen
        /\ \A c \in calls' : c.heard /\ IsSave(c) =>
             c.gen = dialog.gen \/ \E d \in calls : d.heard /\ IsSave(d) /\ c.gen = d.gen
    BY <2>1, Zenon
  <2>4. QED
    BY <2>2, <2>3
<1>4. QED
  BY <1>1, <1>3, Zenon DEF Home

\* A dialog that opens on time finds nothing that waits.
LEMMA OpensHome ==
  ASSUME Marked, [Next]_vars, NEW kind, NEW r, NEW seen, Open(kind, r, seen), UNCHANGED <<uploading, calls>>,
         lookups' \subseteq lookups \cup {[id |-> used.moves + 1, row |-> r]}
  PROVE  Home'
<1>1. \A c : IsSave(c)' <=> IsSave(c)
  BY SaveFixed
<1>2. ASSUME ~dialog'.late
      PROVE  /\ {dialog'.holds, dialog'.image, dialog'.blamed} \subseteq {0, dialog'.gen}
             /\ uploading' \in {0, dialog'.gen}
             /\ \A l \in lookups' : l.id = dialog'.gen
             /\ \A c \in calls' : c.heard /\ IsSave(c) => c.gen = dialog'.gen
  <2>1. dialog'.gen = used.moves + 1 /\ {dialog'.holds, dialog'.image, dialog'.blamed} = {0}
    BY Opened
  <2>2. ~saving /\ uploading = 0 /\ lookups = {}
    BY <1>2, Opened, Zenon
  <2>3. \A c \in calls : ~(c.heard /\ IsSave(c))
    BY <2>2 DEF Marked
  <2>4. QED
    BY <2>1, <2>2, <2>3
<1>3. QED
  BY <1>1, <1>2, Zenon DEF Home

LEMMA HomeOK ==
  ASSUME Shaped, OnARow, Marked, Home, [Next]_vars
  PROVE  Home'
<1>1. DialogFields \subseteq DOMAIN dialog
  BY DEF Shaped
<1>2. CASE dialog' = Closed
  BY <1>2 DEF Closed, Home
<1>3. CASE OpenCreate
  BY <1>3, OpensHome DEF OpenCreate
<1>4. ASSUME NEW r \in Row, OpenEdit(r) \/ OpenPanel(r)
      PROVE  Home'
  BY <1>4, OpensHome DEF OpenEdit, OpenPanel
<1>5. CASE StartUpload
  BY <1>5, StaysHome DEF StartUpload, Home, hist
<1>6. CASE EndUpload
  <2>1. /\ dialog' \in {dialog, [dialog EXCEPT !.image = uploading]} /\ uploading' = 0 /\ UNCHANGED <<lookups, calls>>
    BY <1>6 DEF EndUpload
  <2>2. /\ dialog'.kind = dialog.kind /\ dialog'.gen = dialog.gen /\ dialog'.late = dialog.late
        /\ dialog'.holds = dialog.holds /\ dialog'.image \in {dialog.image, uploading} /\ dialog'.blamed = dialog.blamed
    BY <1>1, <2>1 DEF DialogFields
  <2>3. dialog.kind # None /\ ~dialog.late => uploading \in {0, dialog.gen} /\ \A l \in lookups : l.id = dialog.gen
    BY Zenon DEF Home
  <2>4. QED
    BY <2>1, <2>2, <2>3, StaysHome
<1>7. ASSUME NEW l \in lookups, LookupEnds(l)
      PROVE  Home'
  <2>1. dialog' \in {dialog, [dialog EXCEPT !.holds = l.id]} /\ lookups' \subseteq lookups /\ UNCHANGED <<uploading, calls>>
    BY <1>7 DEF LookupEnds
  <2>2. /\ dialog'.kind = dialog.kind /\ dialog'.gen = dialog.gen /\ dialog'.late = dialog.late
        /\ dialog'.holds \in {dialog.holds, l.id} /\ dialog'.image = dialog.image /\ dialog'.blamed = dialog.blamed
    BY <1>1, <2>1 DEF DialogFields
  <2>3. dialog.kind # None /\ ~dialog.late => \A k \in lookups : k.id = dialog.gen
    BY Zenon DEF Home
  <2>4. QED
    BY <2>1, <2>2, <2>3, StaysHome
<1>8. ASSUME NEW c \in calls, Fail(c)
      PROVE  Home'
  <2>1. /\ dialog' = dialog \/ (IsSave(c) /\ dialog' = [dialog EXCEPT !.blamed = c.gen])
        /\ c.heard /\ calls' \subseteq calls /\ UNCHANGED <<uploading, lookups>>
    <3>1. c.heard /\ calls' \subseteq calls /\ UNCHANGED <<uploading, lookups>>
      BY <1>8 DEF Fail
    <3>2. CASE IsSave(c)
      BY <1>8, <3>1, <3>2 DEF Fail
    <3>3. CASE ~IsSave(c)
      BY <1>8, <3>1, <3>3 DEF Fail
    <3>4. QED
      BY <3>2, <3>3
  <2>2. /\ dialog'.kind = dialog.kind /\ dialog'.gen = dialog.gen /\ dialog'.late = dialog.late
        /\ dialog'.holds = dialog.holds /\ dialog'.image = dialog.image
        /\ dialog'.blamed = dialog.blamed \/ (IsSave(c) /\ dialog'.blamed = c.gen)
    BY <1>1, <2>1 DEF DialogFields
  <2>3. dialog.kind # None /\ ~dialog.late =>
          (\A k \in lookups : k.id = dialog.gen) /\ \A d \in calls : d.heard /\ IsSave(d) => d.gen = dialog.gen
    BY Zenon DEF Home
  <2>4. QED
    BY <2>1, <2>2, <2>3, StaysHome
<1>9. CASE Save
  <2>1. PICK n : calls' = calls \cup {n} /\ n.gen = dialog.gen
    BY <1>9, Called DEF Save
  <2>2. UNCHANGED <<dialog, uploading, lookups>>
    BY <1>9 DEF Save
  <2>3. dialog.kind # None /\ ~dialog.late => \A k \in lookups : k.id = dialog.gen
    BY Zenon DEF Home
  <2>4. QED
    BY <2>1, <2>2, <2>3, StaysHome
<1>10. ASSUME NEW op \in page.ops, NEW r \in Row, NEW seen, Press(op, r, seen)
       PROVE  Home'
  <2>1. PICK n : calls' = calls \cup {n} /\ n.op = op
    BY <1>10, Called DEF Press
  <2>2. UNCHANGED <<dialog, uploading, lookups>>
    BY <1>10 DEF Press
  <2>3. ~IsSave(n)
    BY <2>1, PagesAssumption DEF Shaped, IsSave
  <2>4. dialog.kind # None /\ ~dialog.late => \A k \in lookups : k.id = dialog.gen
    BY Zenon DEF Home
  <2>5. QED
    BY <2>1, <2>2, <2>3, <2>4, StaysHome
<1>11. ASSUME NEW c \in calls, Handle(c)
       PROVE  Home'
  <2>1. PICK n : calls' = (calls \ {c}) \cup {n} /\ n.op = c.op /\ n.gen = c.gen /\ c.heard = n.heard
    BY <1>11, Handled
  <2>2. UNCHANGED <<dialog, uploading, lookups>>
    BY <1>11 DEF Handle, ui
  <2>3. IsSave(n) <=> IsSave(c)
    BY <2>1 DEF IsSave
  <2>4. dialog.kind # None /\ ~dialog.late => \A k \in lookups : k.id = dialog.gen
    BY Zenon DEF Home
  <2>5. QED
    BY <2>1, <2>2, <2>3, <2>4, StaysHome
<1>12. CASE calls' \subseteq calls /\ UNCHANGED <<dialog, uploading, lookups>>
  <2>1. dialog.kind # None /\ ~dialog.late => \A k \in lookups : k.id = dialog.gen
    BY Zenon DEF Home
  <2>2. QED
    BY <1>12, <2>1, StaysHome
<1>13. \/ dialog' = Closed \/ OpenCreate \/ (\E r \in Row : OpenEdit(r) \/ OpenPanel(r))
       \/ StartUpload \/ EndUpload \/ (\E l \in lookups : LookupEnds(l)) \/ (\E c \in calls : Fail(c) \/ Handle(c))
       \/ Save \/ (\E op \in page.ops, r \in Row : \E seen : Press(op, r, seen))
       \/ calls' \subseteq calls /\ UNCHANGED <<dialog, uploading, lookups>>
  BY CallSteps, Steps DEF vars, ui, hist, SetQuery, Retry, Remount, Close, PressInPanel, PressInRow, Answer, Deliver, FailGet,
     Succeed, Unheard, Elsewhere, OnARow
<1>14. QED
  BY <1>2, <1>3, <1>4, <1>5, <1>6, <1>7, <1>8, <1>9, <1>10, <1>11, <1>12, <1>13

\* A save that is no longer awaited was that of the dialog that is open.
LEMMA SaveOfDialog ==
  ASSUME Home, [Next]_vars, ~Crashed, dialog.kind # None, ~dialog.late, saving, ~saving'
  PROVE  \E c \in calls \ calls' : IsSave(c) /\ c.gen = dialog.gen
<1>1. PICK c \in calls : Succeed(c) \/ Fail(c)
  BY Steps DEF vars, ui, hist, SetQuery, Retry, Remount, OpenCreate, OpenEdit, OpenPanel, Close, StartUpload, EndUpload,
     Save, PressInPanel, PressInRow, Press, Answer, Deliver, FailGet, LookupEnds, Handle, Unheard, Elsewhere
<1>2. c.heard /\ IsSave(c) /\ calls' = calls \ {c}
  BY <1>1 DEF Succeed, Fail
<1>3. c.gen = dialog.gen
  BY <1>2 DEF Home
<1>4. QED
  BY <1>2, <1>3

\* An answer lands in the dialog that asked for it.
LEMMA LandsHome ==
  ASSUME Shaped, Home', [Next]_vars, dialog.kind # None, ~dialog.late, dialog'.kind # None
  PROVE  {dialog'.holds, dialog'.image, dialog'.blamed} \subseteq {0, dialog'.gen}
<1>1. ~OpenCreate /\ \A r : ~OpenEdit(r) /\ ~OpenPanel(r)
  BY DEF OpenCreate, OpenEdit, OpenPanel, Open
<1>2. dialog' # Closed
  BY DEF Closed
<1>3. dialog'.late = dialog.late
  BY <1>1, <1>2, DialogSteps
<1>4. ~dialog'.late
  BY <1>3, Zenon
<1>5. QED
  BY <1>4 DEF Home

---------------------------------------------------------------------------
\* An older version of a row stays older: versions only grow.
RowsGrow == \A r \in Row : rows'[r] = rows[r] \/ (IsRow(rows'[r]) /\ rows'[r].ver > rows[r].ver)

LEMMA Grown ==
  ASSUME Read, [Next]_vars
  PROVE  rows' = [r \in Row |-> rows'[r]] /\ (\A r \in Row : IsRow(rows'[r])) /\ RowsGrow
<1>1. rows = [r \in Row |-> rows[r]] /\ \A r \in Row : IsRow(rows[r])
  BY DEF Read
<1>2. CASE UNCHANGED rows
  BY <1>1, <1>2 DEF RowsGrow
<1>3. ASSUME NEW x, NEW to, Change(x, to)
      PROVE  rows' = [r \in Row |-> rows'[r]] /\ (\A r \in Row : IsRow(rows'[r])) /\ RowsGrow
  <2>1. PICK st : rows' = [rows EXCEPT ![x] = [st |-> st, ver |-> @.ver + 1]]
    BY <1>3 DEF Change
  <2>2. rows' = [r \in Row |-> IF r = x THEN [st |-> st, ver |-> rows[x].ver + 1] ELSE rows[r]]
    BY <1>1, <2>1
  <2>3. QED
    BY <1>1, <2>2 DEF IsRow, RowsGrow
<1>4. UNCHANGED rows \/ \E x, to : Change(x, to)
  BY Steps DEF vars, ui, hist, SetQuery, Retry, Remount, OpenCreate, OpenEdit, OpenPanel, Close, StartUpload, EndUpload,
     Save, PressInPanel, PressInRow, Press, Answer, Deliver, FailGet, LookupEnds, Handle, Succeed, Fail, Unheard, Elsewhere
<1>5. QED
  BY <1>2, <1>3, <1>4

LEMMA StaysSeen ==
  ASSUME RowsGrow, \A r \in Row : IsRow(rows[r]), NEW x, NEW r \in Row, Seen(x, r)
  PROVE  Seen(x, r)'
<1>1. CASE rows'[r] = rows[r]
  BY <1>1 DEF Seen
<1>2. CASE IsRow(rows'[r]) /\ rows'[r].ver > rows[r].ver
  <2>1. IsRow(x) /\ x.ver \in Nat /\ rows[r].ver \in Nat /\ rows'[r].ver \in Nat
    BY <1>2 DEF Seen, IsRow
  <2>2. x.ver <= rows[r].ver
    BY <2>1 DEF Seen
  <2>3. x.ver < rows'[r].ver
    BY <1>2, <2>1, <2>2
  <2>4. QED
    BY <2>1, <2>3 DEF Seen, IsRow
<1>3. QED
  BY <1>1, <1>2 DEF RowsGrow

\* What a step does to the list and the GETs it awaits.
LEMMA ListSteps ==
  ASSUME Shaped, [Next]_vars
  PROVE  \/ UNCHANGED <<list, gets, overlapped>>
         \/ \E q : Fetch(q) /\ list'.rows = list.rows
         \/ Remount
         \/ \E g \in gets : Answer(g)
         \/ \E g \in gets : Deliver(g) /\ list'.rows = g.answer
         \/ \E g \in gets : FailGet(g) /\ list'.rows = list.rows /\ list'.error
<1>1. {"rows", "query", "loading", "error"} \subseteq DOMAIN list
  BY DEF Shaped
<1>2. Refetching.rows = list.rows
  <2>1. \E l, e : Refetching = [list EXCEPT !.loading = l, !.error = e]
    BY Zenon DEF Refetching
  <2>2. QED
    BY <1>1, <2>1
<1>3. ASSUME NEW g, Deliver(g)
      PROVE  list'.rows = g.answer
  <2>1. \E e : list' = [list EXCEPT !.rows = g.answer, !.query = g.query, !.loading = FALSE, !.error = e]
    BY <1>3, Zenon DEF Deliver
  <2>2. QED
    BY <1>1, <2>1
<1>4. ASSUME NEW g, FailGet(g)
      PROVE  list'.rows = list.rows /\ list'.error
  <2>1. list' = [list EXCEPT !.loading = FALSE, !.error = TRUE]
    BY <1>4 DEF FailGet
  <2>2. QED
    BY <1>1, <2>1
<1>5. \/ UNCHANGED <<list, gets, overlapped>>
      \/ \E q : Fetch(q) /\ list' \in {list, Refetching}
      \/ Remount \/ \E g \in gets : Answer(g) \/ Deliver(g) \/ FailGet(g)
  BY Steps DEF vars, ui, hist, SetQuery, Retry, OpenCreate, OpenEdit, OpenPanel, Close, StartUpload, EndUpload,
     Save, PressInPanel, PressInRow, Press, LookupEnds, Handle, Succeed, Fail, Unheard, Elsewhere
<1>6. QED
  BY <1>2, <1>3, <1>4, <1>5

LEMMA Fetching ==
  ASSUME NEW q, Fetch(q)
  PROVE  \E n : /\ n.answer = None
                /\ gets' = {n} \/ gets' = gets \cup {n}
                /\ overlapped' = (Cardinality(gets') > 1)
<1> DEFINE n == [id |-> used.gets + 1, query |-> q, answer |-> None]
<1>1. gets' = {n} \/ gets' = gets \cup {n}
  BY DEF Fetch, Request
<1>2. overlapped' = (Cardinality(gets') > 1)
  BY Zenon DEF Fetch
<1>3. n.answer = None
  OBVIOUS
<1>4. QED
  BY <1>1, <1>2, <1>3, Zenon

LEMMA Answered ==
  ASSUME Shaped, NEW g \in gets, Answer(g)
  PROVE  \E n : gets' = (gets \ {g}) \cup {n} /\ n.answer = rows /\ UNCHANGED <<list, rows, acked, overlapped>>
<1>1. gets' = (gets \ {g}) \cup {[g EXCEPT !.answer = rows]} /\ UNCHANGED <<list, rows, acked, overlapped>>
  BY DEF Answer, hist
<1>2. [g EXCEPT !.answer = rows] = [id |-> g.id, query |-> g.query, answer |-> rows]
  BY DEF Shaped
<1>3. QED
  BY <1>1, <1>2

LEMMA ReadOK ==
  ASSUME Shaped, Read, [Next]_vars
  PROVE  Read'
<1>1. rows' = [r \in Row |-> rows'[r]] /\ (\A r \in Row : IsRow(rows'[r])) /\ RowsGrow
  BY Grown
<1>2. \A answer : SeenAll(answer) => SeenAll(answer)'
  BY <1>1, StaysSeen DEF SeenAll, Read
<1>3. SeenAll(rows)
  BY DEF SeenAll, Seen, Read
<1>4. /\ list'.rows # None => SeenAll(list'.rows)
      /\ \A g \in gets' : g.answer # None => SeenAll(g.answer)
  <2>1. CASE UNCHANGED <<list, gets>>
    BY <2>1 DEF Read
  <2>2. ASSUME NEW q, Fetch(q), list'.rows = list.rows
        PROVE  <1>4
    BY <2>2, Fetching DEF Read
  <2>3. CASE Remount
    BY <2>3 DEF Remount, FirstList
  <2>4. ASSUME NEW g \in gets, Answer(g)
        PROVE  <1>4
    BY <2>4, <1>3, Answered DEF Read
  <2>5. ASSUME NEW g \in gets, Deliver(g), list'.rows = g.answer
        PROVE  <1>4
    BY <2>5 DEF Deliver, Read
  <2>6. ASSUME NEW g \in gets, FailGet(g), list'.rows = list.rows
        PROVE  <1>4
    BY <2>6 DEF FailGet, Read
  <2>7. QED
    BY <2>1, <2>2, <2>3, <2>4, <2>5, <2>6, ListSteps
<1>5. QED
  BY <1>1, <1>2, <1>4 DEF Read, SeenAll

---------------------------------------------------------------------------
\* What a page shows of its operations, its endpoints allow and accept.
LEMMA Allowed ==
  ASSUME Shaped, NEW op \in page.ops \cup ({page.create, page.edit} \ {None}), May(op.shown)
  PROVE  May(op.needs) /\ \A x : x.st \in op.from => Offered(op, x)
<1>1. page \in Pages /\ perms \in PermissionSets
  BY DEF Shaped
<1>2. op.shown \in perms \cup {None} => op.needs \in perms \cup {None}
  BY <1>1, TablesAssumption
<1>3. \A st \in op.from : st \in DOMAIN op.to \/ (op.name = "processing" /\ st = "pending")
  BY <1>1, TablesAssumption
<1>4. QED
  BY <1>2, <1>3 DEF May, Offered

\* The two states a call that awaits its answer can be in.
SentOK(c) ==
  /\ May(c.op.needs)
  /\ IF c.row = None THEN Absent \in DOMAIN c.op.to
     ELSE c.row \in Row /\ Seen(c.seen, c.row) /\ Offered(c.op, c.seen)

RefusedOK(c) == c.row \in Row /\ IsRow(c.seen) /\ (rows[c.row].ver > c.seen.ver \/ OfferedTooEarly(c))

CallOK2(c) == (c.state = "sent" => SentOK(c)) /\ (c.state = "refused" => RefusedOK(c))

LEMMA StaysOffered ==
  ASSUME Read, [Next]_vars, NEW c, CallOK2(c)
  PROVE  CallOK2(c)'
<1>1. RowsGrow /\ \A r \in Row : IsRow(rows[r])
  BY Grown DEF Read
<1>2. SentOK(c) => SentOK(c)'
  BY <1>1, StaysSeen, Fixed DEF SentOK, May, Offered
<1>3. RefusedOK(c) => RefusedOK(c)'
  <2>1. ASSUME c.row \in Row, IsRow(c.seen), rows[c.row].ver > c.seen.ver
        PROVE  rows'[c.row].ver > c.seen.ver
    <3>1. c.seen.ver \in Nat /\ rows[c.row].ver \in Nat
      BY <1>1, <2>1 DEF IsRow
    <3>2. rows'[c.row] = rows[c.row] \/ (rows'[c.row].ver \in Nat /\ rows'[c.row].ver > rows[c.row].ver)
      BY <1>1, <2>1 DEF RowsGrow, IsRow
    <3>3. QED
      BY <2>1, <3>1, <3>2
  <2>2. QED
    BY <2>1 DEF RefusedOK, IsRow, OfferedTooEarly
<1>4. QED
  BY <1>2, <1>3 DEF CallOK2

LEMMA DialogOffered ==
  ASSUME Shaped, OnARow, Read, OfferedInTime, [Next]_vars
  PROVE  /\ dialog'.kind = "form" =>
              IF dialog'.row = None THEN page.create # None /\ May(page.create.needs)
              ELSE May(page.edit.needs) /\ Seen(dialog'.seen, dialog'.row) /\ Offered(page.edit, dialog'.seen)
         /\ dialog'.kind = "panel" => Seen(dialog'.seen, dialog'.row)
<1>1. CASE dialog' = Closed
  BY <1>1, PagesAssumption DEF Closed
<1>2. CASE dialog'.kind = dialog.kind /\ dialog'.row = dialog.row /\ dialog'.seen = dialog.seen
  BY <1>2 DEF OfferedInTime
<1>3. CASE OpenCreate
  BY <1>3, Opened, Allowed DEF OpenCreate
<1>4. RowsVisible => \A r \in Row : Seen(list.rows[r], r)
  BY DEF RowsVisible, Read, SeenAll
<1>5. ASSUME NEW r \in Row, OpenEdit(r)
      PROVE  dialog'.kind = "form" /\ dialog'.row = r /\ May(page.edit.needs)
             /\ Seen(dialog'.seen, r) /\ Offered(page.edit, dialog'.seen)
  <2>1. page.edit # None /\ May(page.edit.shown) /\ RowsVisible /\ list.rows[r].st \in page.edit.from
        /\ Open("form", r, list.rows[r])
    BY <1>5 DEF OpenEdit
  <2>2. QED
    BY <1>4, <2>1, Opened, Allowed
<1>6. ASSUME NEW r \in Row, OpenPanel(r)
      PROVE  dialog'.kind = "panel" /\ dialog'.row = r /\ Seen(dialog'.seen, r)
  BY <1>4, <1>6, Opened DEF OpenPanel
<1>7. QED
  BY <1>1, <1>2, <1>3, <1>5, <1>6, DialogSteps, PagesAssumption

LEMMA SaveOffered ==
  ASSUME Shaped, OnARow, OfferedInTime, Save
  PROVE  \E n : calls' = calls \cup {n} /\ CallOK2(n)
<1>1. PICK n : /\ calls' = calls \cup {n} /\ n.row = dialog.row /\ n.seen = dialog.seen /\ n.state = "sent"
               /\ n.op = IF dialog.row = None THEN page.create ELSE page.edit
  BY Called DEF Save
<1>2. dialog.kind = "form"
  BY DEF Save, IsForm
<1>3. CASE dialog.row = None
  <2>1. page.create # None /\ May(page.create.needs)
    BY <1>2, <1>3 DEF OfferedInTime
  <2>2. Absent \in DOMAIN page.create.to
    BY <2>1, TablesAssumption DEF Shaped
  <2>3. QED
    BY <1>1, <1>3, <2>1, <2>2 DEF CallOK2, SentOK
<1>4. CASE dialog.row # None
  BY <1>1, <1>2, <1>4 DEF CallOK2, SentOK, OfferedInTime, OnARow
<1>5. QED
  BY <1>3, <1>4

LEMMA PressOffered ==
  ASSUME Shaped, NEW op \in page.ops, NEW r \in Row, NEW seen, Seen(seen, r), Press(op, r, seen)
  PROVE  \E n : calls' = calls \cup {n} /\ CallOK2(n)
<1>1. PICK n : calls' = calls \cup {n} /\ n.row = r /\ n.seen = seen /\ n.state = "sent" /\ n.op = op
  BY Called DEF Press
<1>2. May(op.needs) /\ Offered(op, seen)
  BY Allowed DEF Press, Offers
<1>3. QED
  BY <1>1, <1>2, PagesAssumption DEF CallOK2, SentOK

\* The API refuses what was sent only if the row has changed since it was read.
LEMMA RefusedLate ==
  ASSUME Read, NEW c, SentOK(c), Refuses(c)
  PROVE  RefusedOK(c)
<1>1. PICK r \in Target(c) : rows[r].st \notin DOMAIN c.op.to
  BY DEF Refuses, Accepts, SentOK
<1>2. c.row # None
  BY <1>1 DEF Target, SentOK
<1>3. r = c.row /\ r \in Row /\ Seen(c.seen, r) /\ Offered(c.op, c.seen)
  BY <1>1, <1>2 DEF Target, SentOK
<1>4. c.seen.ver < rows[r].ver \/ OfferedTooEarly(c)
  BY <1>1, <1>3 DEF Seen, Offered, OfferedTooEarly
<1>5. c.seen.ver \in Nat /\ rows[r].ver \in Nat
  BY <1>3 DEF Seen, IsRow, Read
<1>6. QED
  BY <1>3, <1>4, <1>5 DEF RefusedOK, Seen

LEMMA OfferedOK ==
  ASSUME Shaped, OnARow, Read, OfferedInTime, [Next]_vars
  PROVE  OfferedInTime'
<1>1. \A c \in calls : CallOK2(c)
  BY DEF OfferedInTime, CallOK2, SentOK, RefusedOK
<1>2. \A c : CallOK2(c) => CallOK2(c)'
  BY StaysOffered
<1>3. \A c \in calls' : CallOK2(c)'
  <2>1. CASE calls' \subseteq calls
    BY <1>1, <1>2, <2>1
  <2>2. CASE Remount
    <3>1. \A d \in calls' : \E c \in calls : d.op = c.op /\ d.row = c.row /\ d.seen = c.seen /\ d.state = c.state
      BY <2>2, Unhearing
    <3>2. \A d \in calls' : CallOK2(d)
      BY <1>1, <3>1 DEF CallOK2, SentOK, RefusedOK, OfferedTooEarly
    <3>3. QED
      BY <1>2, <3>2
  <2>3. CASE Save
    BY <1>1, <1>2, <2>3, SaveOffered
  <2>4. ASSUME NEW op \in page.ops, PressInPanel(op)
        PROVE  <1>3
    <3>1. dialog.row \in Row /\ Seen(dialog.seen, dialog.row) /\ Press(op, dialog.row, dialog.seen)
      BY <2>4 DEF PressInPanel, OnARow, OfferedInTime
    <3>2. QED
      BY <1>1, <1>2, <3>1, PressOffered
  <2>5. ASSUME NEW op \in page.ops, NEW r \in Row, PressInRow(op, r)
        PROVE  <1>3
    <3>1. Seen(list.rows[r], r) /\ Press(op, r, list.rows[r])
      BY <2>5 DEF PressInRow, RowsVisible, Read, SeenAll
    <3>2. QED
      BY <1>1, <1>2, <3>1, PressOffered
  <2>6. ASSUME NEW c \in calls, Handle(c)
        PROVE  <1>3
    <3>1. PICK n : /\ calls' = (calls \ {c}) \cup {n}
                   /\ n.op = c.op /\ n.seen = c.seen /\ c.state = "sent"
                   /\ n.state \in {"done", "ruled out"} \/ (n.state = "refused" /\ n.row = c.row /\ Refuses(c))
      BY <2>6, Handled
    <3>2. CallOK2(n)
      <4>1. Refuses(c) => RefusedOK(c)
        BY <1>1, <3>1, RefusedLate DEF CallOK2
      <4>2. QED
        BY <3>1, <4>1 DEF CallOK2, RefusedOK, OfferedTooEarly
    <3>3. QED
      BY <1>1, <1>2, <3>1, <3>2
  <2>7. QED
    BY <2>1, <2>2, <2>3, <2>4, <2>5, <2>6, Steps DEF vars, ui, hist, SetQuery, Retry, OpenCreate, OpenEdit, OpenPanel, Close,
       StartUpload, EndUpload, Answer, Deliver, FailGet, LookupEnds, Succeed, Fail, Unheard, Elsewhere
<1>4. PICK x, r : x = dialog'.seen /\ r = dialog'.row
  OBVIOUS
<1>5. /\ dialog'.kind = "form" =>
           IF r = None THEN page.create # None /\ May(page.create.needs)
           ELSE May(page.edit.needs) /\ Seen(x, r)' /\ Offered(page.edit, x)
      /\ dialog'.kind = "panel" => Seen(x, r)'
  <2>1. \A s \in Row : Seen(x, s) => Seen(x, s)'
    BY Grown, StaysSeen DEF Read
  <2>2. (dialog'.kind = "form" /\ r # None) \/ dialog'.kind = "panel" => r \in Row
    BY <1>4, OnARowOK DEF OnARow
  <2>3. QED
    BY <1>4, <2>1, <2>2, DialogOffered
<1>6. /\ dialog'.kind = "form" =>
           IF dialog'.row = None THEN page.create # None /\ May(page.create.needs)
           ELSE May(page.edit.needs) /\ Offered(page.edit, dialog'.seen)
                /\ IsRow(dialog'.seen)
                /\ (dialog'.seen = rows'[dialog'.row] \/ dialog'.seen.ver < rows'[dialog'.row].ver)
      /\ dialog'.kind = "panel" =>
           /\ IsRow(dialog'.seen)
           /\ dialog'.seen = rows'[dialog'.row] \/ dialog'.seen.ver < rows'[dialog'.row].ver
  BY <1>4, <1>5 DEF Seen, IsRow
<1>7. \A c \in calls' : /\ c.state = "sent" =>
                              /\ May(c.op.needs)
                              /\ IF c.row = None THEN Absent \in DOMAIN c.op.to
                                 ELSE c.row \in Row /\ Seen(c.seen, c.row)' /\ Offered(c.op, c.seen)
                        /\ c.state = "refused" =>
                              c.row \in Row /\ IsRow(c.seen) /\ (rows'[c.row].ver > c.seen.ver \/ OfferedTooEarly(c))
  BY <1>3, Fixed DEF CallOK2, SentOK, RefusedOK, May, OfferedTooEarly, Offered, IsRow
<1>8. QED
  BY <1>6, <1>7, Fixed DEF OfferedInTime, Seen, May, Offered, OfferedTooEarly, IsRow

---------------------------------------------------------------------------
LEMMA AtMostOne ==
  ASSUME NEW S, IsFiniteSet(S), ~(Cardinality(S) > 1), NEW x \in S, NEW y \in S
  PROVE  x = y
<1>1. SUFFICES ASSUME x # y PROVE FALSE
  OBVIOUS
<1>2. IsFiniteSet({x}) /\ Cardinality({x}) = 1
  BY FS_Singleton
<1>3. Cardinality({x} \cup {y}) = 2 /\ IsFiniteSet({x} \cup {y})
  <2>1. y \notin {x}
    BY <1>1
  <2>2. Cardinality({x} \cup {y}) = Cardinality({x}) + 1 /\ IsFiniteSet({x} \cup {y})
    BY <1>2, <2>1, FS_AddElement
  <2>3. QED
    BY <1>2, <2>2
<1>4. Cardinality({x} \cup {y}) <= Cardinality(S)
  BY FS_Subset
<1>5. Cardinality(S) \in Nat
  BY FS_CardinalityType
<1>6. QED
  BY <1>3, <1>4, <1>5

\* A page acknowledges a change only when it reads the list again.
LEMMA AckSteps ==
  ASSUME Shaped, [Next]_vars
  PROVE  \/ acked' = acked
         \/ \E q, x : Fetch(q) /\ acked' = [acked EXCEPT ![x] = rows[x].ver] /\ UNCHANGED rows
<1>1. ASSUME NEW c \in calls, Succeed(c)
      PROVE  acked' = acked \/ \E q, x : Fetch(q) /\ acked' = [acked EXCEPT ![x] = rows[x].ver] /\ UNCHANGED rows
  <2>1. CASE c.op.reloads
    BY <1>1, <2>1 DEF Succeed
  <2>2. CASE ~c.op.reloads
    BY <1>1, <2>2 DEF Succeed
  <2>3. QED
    BY <2>1, <2>2
<1>2. QED
  BY <1>1, Steps DEF vars, ui, hist, SetQuery, Retry, Remount, OpenCreate, OpenEdit, OpenPanel, Close, StartUpload,
     EndUpload, Save, PressInPanel, PressInRow, Press, Answer, Deliver, FailGet, LookupEnds, Handle, Fail, Unheard, Elsewhere

LEMMA AckedWithin ==
  ASSUME Shaped, Read, Caught, [Next]_vars
  PROVE  acked' = [r \in Row |-> acked'[r]] /\ \A r \in Row : acked'[r] \in Nat /\ acked'[r] <= rows'[r].ver
<1>1. RowsGrow /\ \A r \in Row : rows[r].ver \in Nat
  BY Grown DEF Read, IsRow
<1>2. acked = [r \in Row |-> acked[r]] /\ \A r \in Row : acked[r] \in Nat /\ acked[r] <= rows[r].ver
  BY DEF Caught
<1>3. CASE acked' = acked
  <2>1. ASSUME NEW r \in Row
        PROVE  acked[r] <= rows'[r].ver
    <3>1. rows'[r] = rows[r] \/ (rows'[r].ver \in Nat /\ rows'[r].ver > rows[r].ver)
      BY <1>1 DEF RowsGrow, IsRow
    <3>2. QED
      BY <1>1, <1>2, <3>1
  <2>2. QED
    BY <1>2, <1>3, <2>1
<1>4. ASSUME NEW x, acked' = [acked EXCEPT ![x] = rows[x].ver], UNCHANGED rows
      PROVE  acked' = [r \in Row |-> acked'[r]] /\ \A r \in Row : acked'[r] \in Nat /\ acked'[r] <= rows'[r].ver
  <2>1. \A r \in Row : acked'[r] = IF r = x THEN rows[r].ver ELSE acked[r]
    BY <1>2, <1>4
  <2>2. acked' = [r \in Row |-> acked'[r]]
    BY <1>2, <1>4
  <2>3. QED
    BY <1>1, <1>2, <1>4, <2>1, <2>2
<1>5. QED
  BY <1>3, <1>4, AckSteps

\* A GET that is asked for when none is in flight is the one that is awaited.
LEMMA FetchCaught ==
  ASSUME Caught, NEW q, Fetch(q)
  PROVE  /\ IsFiniteSet(gets')
         /\ ~overlapped' => gets' # {} /\ \A g, h \in gets' : g = h /\ g.answer = None
<1>1. PICK n : /\ n.answer = None /\ (gets' = {n} \/ gets' = gets \cup {n})
               /\ overlapped' = (Cardinality(gets') > 1)
  BY Fetching
<1>2. IsFiniteSet(gets')
  <2>1. IsFiniteSet({n}) /\ IsFiniteSet(gets)
    BY FS_Singleton DEF Caught
  <2>2. IsFiniteSet(gets \cup {n})
    BY <2>1, FS_AddElement
  <2>3. QED
    BY <1>1, <2>1, <2>2
<1>3. ASSUME ~overlapped'
      PROVE  gets' # {} /\ \A g, h \in gets' : g = h /\ g.answer = None
  <2>1. ~(Cardinality(gets') > 1)
    BY <1>1, <1>3, Zenon
  <2>2. \A g, h \in gets' : g = h
    BY <1>2, <2>1, AtMostOne
  <2>3. n \in gets'
    BY <1>1
  <2>4. QED
    BY <1>1, <2>2, <2>3
<1>4. QED
  BY <1>2, <1>3

LEMMA CaughtOK ==
  ASSUME Shaped, Read, Caught, [Next]_vars
  PROVE  Caught'
<1>1. acked' = [r \in Row |-> acked'[r]] /\ \A r \in Row : acked'[r] \in Nat /\ acked'[r] <= rows'[r].ver
  BY AckedWithin
<1>2. IsFiniteSet(gets) /\ (~overlapped =>
        /\ \A g, h \in gets : g = h
        /\ \A g \in gets : g.answer # None => Fresh(g.answer)
        /\ gets = {} => list.error \/ list.rows = None \/ Fresh(list.rows))
  BY DEF Caught
<1>3. ASSUME NEW q, Fetch(q)
      PROVE  Caught'
  BY <1>1, <1>3, FetchCaught DEF Caught
<1>4. CASE Remount
  <2>1. gets' = {[id |-> used.gets + 1, query |-> 1, answer |-> None]}
    BY <1>4 DEF Remount
  <2>2. IsFiniteSet(gets')
    BY <2>1, FS_Singleton
  <2>3. gets' # {} /\ \A g, h \in gets' : g = h /\ g.answer = None
    BY <2>1
  <2>4. QED
    BY <1>1, <2>2, <2>3 DEF Caught
<1>5. ASSUME acked' = acked, UNCHANGED <<list, gets, overlapped>>
      PROVE  Caught'
  BY <1>1, <1>2, <1>5 DEF Caught, Fresh
<1>6. ASSUME NEW g \in gets, Answer(g)
      PROVE  Caught'
  <2>1. PICK n : gets' = (gets \ {g}) \cup {n} /\ n.answer = rows /\ UNCHANGED <<list, rows, acked, overlapped>>
    BY <1>6, Answered
  <2>2. IsFiniteSet(gets')
    BY <1>2, <2>1, FS_Subset, FS_AddElement
  <2>3. \A r \in Row : rows[r].ver >= acked[r]
    BY DEF Caught, Read, IsRow
  <2>4. QED
    BY <1>1, <1>2, <2>1, <2>2, <2>3 DEF Caught, Fresh
<1>7. ASSUME NEW g \in gets, Deliver(g), list'.rows = g.answer
      PROVE  Caught'
  <2>1. gets' = gets \ {g} /\ g.answer # None /\ UNCHANGED <<acked, overlapped>>
    BY <1>7 DEF Deliver, hist
  <2>2. IsFiniteSet(gets')
    BY <1>2, <2>1, FS_Subset
  <2>3. QED
    BY <1>1, <1>2, <1>7, <2>1, <2>2 DEF Caught, Fresh
<1>8. ASSUME NEW g \in gets, FailGet(g), list'.error
      PROVE  Caught'
  <2>1. gets' = gets \ {g} /\ UNCHANGED <<acked, overlapped>>
    BY <1>8 DEF FailGet, hist
  <2>2. IsFiniteSet(gets')
    BY <1>2, <2>1, FS_Subset
  <2>3. QED
    BY <1>1, <1>2, <1>8, <2>1, <2>2 DEF Caught, Fresh
<1>9. QED
  BY <1>3, <1>4, <1>5, <1>6, <1>7, <1>8, ListSteps, AckSteps

LEMMA LoadedOK ==
  ASSUME Shaped, Loaded, [Next]_vars
  PROVE  Loaded'
<1>1. CASE UNCHANGED <<list, gets>>
  BY <1>1 DEF Loaded
<1>2. ASSUME NEW q, Fetch(q)
      PROVE  gets' # {}
  BY <1>2, Fetching
<1>3. Remount => gets' # {}
  BY DEF Remount
<1>4. ASSUME NEW g \in gets, Answer(g)
      PROVE  gets' # {}
  BY <1>4, Answered
<1>5. ASSUME NEW g \in gets, Deliver(g) \/ FailGet(g)
      PROVE  ~list'.loading
  <2>1. Deliver(g) => \E x, q, e : list' = [list EXCEPT !.rows = x, !.query = q, !.loading = FALSE, !.error = e]
    BY Zenon DEF Deliver
  <2>2. FailGet(g) => list' = [list EXCEPT !.loading = FALSE, !.error = TRUE]
    BY Zenon DEF FailGet
  <2>3. "loading" \in DOMAIN list
    BY DEF Shaped
  <2>4. ASSUME NEW x, NEW q, NEW e, list' = [list EXCEPT !.rows = x, !.query = q, !.loading = FALSE, !.error = e]
        PROVE  ~list'.loading
    BY <2>3, <2>4
  <2>5. list' = [list EXCEPT !.loading = FALSE, !.error = TRUE] => ~list'.loading
    BY <2>3
  <2>6. QED
    BY <1>5, <2>1, <2>2, <2>4, <2>5
<1>6. QED
  BY <1>1, <1>2, <1>3, <1>4, <1>5, ListSteps DEF Loaded

LEMMA IInvInit ==
  ASSUME Init
  PROVE  IInv
<1>1. Shaped
  BY DEF Init, Shaped, FirstList, Closed, DialogFields
<1>2. OnARow /\ Home
  BY PagesAssumption DEF Init, OnARow, Home, Closed
<1>3. Marked
  BY DEF Init, Marked, OneInFlight
<1>4. Read
  BY DEF Init, Read, IsRow, FirstList
<1>5. OfferedInTime
  BY PagesAssumption DEF Init, OfferedInTime, Closed
<1>6. Caught
  <2>1. IsFiniteSet(gets)
    BY FS_Singleton DEF Init
  <2>2. \A r \in Row : rows[r].ver = 0
    BY DEF Init
  <2>3. list.rows = None /\ \A g, h \in gets : g = h /\ g.answer = None
    BY DEF Init, FirstList
  <2>4. acked = [r \in Row |-> acked[r]] /\ \A r \in Row : acked[r] = 0
    BY DEF Init
  <2>5. QED
    BY <2>1, <2>2, <2>3, <2>4 DEF Caught
<1>7. Loaded
  BY DEF Init, Loaded
<1>8. QED
  BY <1>1, <1>2, <1>3, <1>4, <1>5, <1>6, <1>7 DEF IInv

LEMMA IInvOK ==
  ASSUME IInv, [Next]_vars
  PROVE  IInv'
  BY ShapedOK, OnARowOK, MarkedOK, HomeOK, ReadOK, OfferedOK, CaughtOK, LoadedOK DEF IInv

LEMMA Invariant == Spec => []IInv
<1>1. Init => IInv
  BY IInvInit
<1>2. IInv /\ [Next]_vars => IInv'
  BY IInvOK
<1>3. QED
  BY <1>1, <1>2, PTL DEF Spec

\* A button that shows a spinner is not pressed again, and a form is saved once at
\* a time, save where a page has one mark for two rows or none at all.
THEOREM PressedOnce == Spec => []OneInFlight
<1>1. IInv => OneInFlight
  BY DEF IInv, Marked
<1>2. QED
  BY <1>1, Invariant, PTL

\* Once its requests have settled without an error, a page that finds the rows in
\* the answers it reads shows them, with what its user was told had been done,
\* unless the last GET was asked for while another was in flight, on a page that
\* cancels neither.
THEOREM Acknowledged == Spec => []OwnWritesShown
<1>1. IInv => OwnWritesShown
  <2>1. SUFFICES ASSUME IInv, gets = {}, ~list.error, list.rows # None, ~overlapped, page.rowsFound
                 PROVE  RowsVisible /\ \A r \in Row : list.rows[r].ver >= acked[r]
    BY DEF OwnWritesShown
  <2>2. RowsVisible
    BY <2>1 DEF IInv, Loaded, RowsVisible, Crashed
  <2>3. \A r \in Row : list.rows[r].ver >= acked[r]
    BY <2>1 DEF IInv, Caught, Fresh
  <2>4. QED
    BY <2>2, <2>3
<1>2. QED
  BY <1>1, Invariant, PTL

\* What a page let its user press the API refuses on account of the row's status or
\* the user's permissions only if the row has changed since the page read it, for
\* any pages whose tables of statuses and permissions agree with their endpoints;
\* what an endpoint rules out on other grounds is not spoken of.
THEOREM RefusedLateOnly == Spec => []RefusedOnlyIfStale
<1>1. IInv => RefusedOnlyIfStale
  BY PagesAssumption DEF IInv, OfferedInTime, RefusedOnlyIfStale
<1>2. QED
  BY <1>1, Invariant, PTL

\* A late answer lands in the dialog that asked for it, unless the dialog was
\* opened while an earlier one still waited.
THEOREM LandsWhereAsked == Spec => AnswersStayHome
<1> DEFINE Lands == ~Crashed /\ dialog.kind # None /\ ~dialog.late =>
              /\ dialog'.kind # None => {dialog'.holds, dialog'.image, dialog'.blamed} \subseteq {0, dialog'.gen}
              /\ dialog'.kind = None /\ saving /\ ~saving' =>
                    \E c \in calls \ calls' : IsSave(c) /\ c.gen = dialog.gen
<1>1. IInv /\ [Next]_vars => [Lands]_vars
  <2>1. SUFFICES ASSUME IInv, [Next]_vars PROVE Lands
    OBVIOUS
  <2>2. Home'
    BY <2>1, IInvOK DEF IInv
  <2>3. QED
    BY <2>1, <2>2, LandsHome, SaveOfDialog DEF IInv
<1>2. QED
  BY <1>1, Invariant, PTL DEF Spec, AnswersStayHome
====
