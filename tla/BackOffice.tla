----------------------------- MODULE BackOffice -----------------------------
(* A page of the back office (src/frontend/app/dashboard), open in one tab,
   and the rows of the API it lists.  What differs between the pages - how they
   load, whom they let do what, which buttons they disable - is a record of
   PageCatalogue; what they share - the hooks, the dialogs, the promises that
   settle in any order - is this module.  Other people change the same rows at
   the same time, and any request may be lost or answered late.             *)
EXTENDS Naturals, FiniteSets

CONSTANTS
    Row,             \* ids of the rows the page can list
    Pages,           \* the pages, records of PageCatalogue
    PermissionSets,  \* what the user may do: one set per role
    None,            \* no row, no answer, no permission asked
    MaxMoves         \* bound: queries, retries, dialogs opened, buttons pressed, and
                     \* changes made by other people

ASSUME PagesAssumption ==
    /\ None \notin Row \cup {"form", "panel"}
    /\ MaxMoves \in Nat
    /\ \A p \in Pages : /\ p.cancels \in BOOLEAN
                        /\ 1 \in p.queries
                        /\ p.ops \cap {p.create, p.edit} = {}

VARIABLES
    page, perms,   \* the page and the permissions of its user, fixed
    rows,          \* the API: status and version of every row
    query,         \* the query of useList
    list,          \* what the page holds of the list: rows, query, loading, error
    gets,          \* GETs of the list whose promise has not settled
    dialog,        \* the create or edit dialog, or a panel on a row
    saving,        \* the dialog's save is in flight
    uploading,     \* the opening for which an image is being uploaded, or 0
    slot,          \* the one button marked busy: actionLoading, deleting, toggling...
    calls,         \* changes requested of the API whose promise has not settled
    lookups,       \* GETs of an order's history or a webhook's deliveries
    used,          \* GETs and moves so far: the ids of requests and of openings
    acked,         \* history: version of each row after this user's last answered change
    overlapped,    \* history: the last GET of the list joined another in flight
    unmarked       \* history: buttons that lost their mark to another row's

ui   == <<query, list, gets, dialog, saving, uploading, slot, lookups>>
hist == <<acked, overlapped, unmarked>>
vars == <<page, perms, rows, query, list, gets, dialog, saving, uploading, slot,
          calls, lookups, used, acked, overlapped, unmarked>>

Absent == "absent"      \* a row that does not exist yet
Gone   == "gone"        \* a row that was deleted

\* The tables of a page and of its endpoints agree: what is shown to a user is
\* allowed to them, and a button is offered only in a status the endpoint accepts,
\* save for the "processing" that the orders page offers for a pending order.
ASSUME TablesAssumption ==
    \A p \in Pages :
       /\ p.create # None => Absent \in DOMAIN p.create.to
       /\ \A op \in p.ops \cup ({p.create, p.edit} \ {None}) :
             /\ \A held \in PermissionSets : op.shown \in held \cup {None} => op.needs \in held \cup {None}
             /\ \A st \in op.from : st \in DOMAIN op.to \/ (op.name = "processing" /\ st = "pending")

Moving == used.moves < MaxMoves

Spend(g, m) == used' = [gets |-> used.gets + g, moves |-> used.moves + m]

May(permission) == permission = None \/ permission \in perms

Closed == [kind |-> None, row |-> None, seen |-> None, gen |-> 0,
           holds |-> 0, image |-> 0, blamed |-> 0, late |-> FALSE]

---------------------------------------------------------------------------
(* Loading the list *)

FirstList == [rows |-> None, query |-> 1, loading |-> TRUE, error |-> FALSE]

\* Variant: the effect forgets to cancel.
RequestUncancelled(q) == gets \cup {[id |-> used.gets + 1, query |-> q, answer |-> None]}

\* The effect of useApi cancels the request before it; a page's own load()
\* leaves it in flight.
Request(q) ==
    LET get == [id |-> used.gets + 1, query |-> q, answer |-> None]
    IN  IF page.cancels THEN {get} ELSE gets \cup {get}

\* Variant: a change is not followed by a GET.
FetchNothing(q) == UNCHANGED <<gets, overlapped>>

Fetch(q) ==
    /\ gets' = Request(q)
    /\ overlapped' = (Cardinality(Request(q)) > 1)

\* refetch() shows the skeleton again; load() keeps the rows and drops the error,
\* unless it leaves that to the answer.
Refetching ==
    [list EXCEPT !.loading = @ \/ page.cancels,
                 !.error   = @ /\ (page.cancels \/ page.clearsError)]

Init ==
    /\ page \in Pages /\ perms \in PermissionSets
    /\ rows \in [Row -> [st : page.statuses \cup {Absent}, ver : {0}]]
    /\ query = 1 /\ list = FirstList
    /\ gets = {[id |-> 1, query |-> 1, answer |-> None]}
    /\ dialog = Closed /\ saving = FALSE /\ uploading = 0 /\ slot = None
    /\ calls = {} /\ lookups = {}
    /\ used = [gets |-> 1, moves |-> 0]
    /\ acked = [r \in Row |-> 0] /\ overlapped = FALSE /\ unmarked = {}

\* The page threw while rendering and app/error.tsx replaced it.
Crashed == page.asserts /\ list.error /\ list.rows = None

\* DataTable shows a skeleton while loading and only the error when there is one,
\* and rows only where the page looks for them.
RowsVisible ==
    /\ page.rowsFound
    /\ ~Crashed
    /\ list.rows # None
    /\ ~(page.cancels /\ list.loading)
    /\ ~(list.error /\ page.errorHides)

\* setFilter, toggleSort, setPage, and setSearch 350 ms after every keystroke,
\* whatever is open by then.
SetQuery(q) ==
    /\ q # query
    /\ Moving
    /\ query' = q
    /\ Fetch(q)
    /\ Spend(1, 1)
    /\ UNCHANGED <<page, perms, rows, list, dialog, saving, uploading, slot, calls, lookups, acked, unmarked>>

Retry ==
    /\ list.error /\ ~Crashed /\ dialog.kind = None
    /\ Moving
    /\ list' = Refetching
    /\ Fetch(query)
    /\ Spend(1, 1)
    /\ UNCHANGED <<page, perms, rows, query, dialog, saving, uploading, slot, calls, lookups, acked, unmarked>>

\* The API reads the rows ...
Answer(get) ==
    /\ get.answer = None
    /\ May(page.read)
    /\ gets' = (gets \ {get}) \cup {[get EXCEPT !.answer = rows]}
    /\ UNCHANGED <<page, perms, rows, query, list, dialog, saving, uploading, slot, calls, lookups, used>>
    /\ UNCHANGED hist

\* ... and later the page applies the answer.
Deliver(get) ==
    /\ get.answer # None /\ ~Crashed
    /\ gets' = gets \ {get}
    /\ list' = [list EXCEPT !.rows = get.answer, !.query = get.query, !.loading = FALSE,
                            !.error = @ /\ ~page.clearsError]
    /\ UNCHANGED <<page, perms, rows, query, dialog, saving, uploading, slot, calls, lookups, used>>
    /\ UNCHANGED hist

\* Refused, answered with a server error, or lost.
FailGet(get) ==
    /\ ~Crashed
    /\ gets' = gets \ {get}
    /\ list' = [list EXCEPT !.loading = FALSE, !.error = TRUE]
    /\ UNCHANGED <<page, perms, rows, query, dialog, saving, uploading, slot, calls, lookups, used>>
    /\ UNCHANGED hist

\* "Try again" of app/error.tsx mounts the page anew; what the old one awaited
\* settles unheard.
Remount ==
    /\ Crashed
    /\ Moving
    /\ list' = FirstList /\ query' = 1
    /\ gets' = {[id |-> used.gets + 1, query |-> 1, answer |-> None]}
    /\ Spend(1, 1)
    /\ dialog' = Closed /\ saving' = FALSE /\ uploading' = 0 /\ slot' = None
    /\ lookups' = {}
    /\ calls' = {[c EXCEPT !.heard = FALSE] : c \in calls}
    /\ overlapped' = FALSE
    /\ UNCHANGED <<page, perms, rows, acked, unmarked>>

---------------------------------------------------------------------------
(* The dialog and the panel: one overlay at a time *)

\* The form is filled from the row as the page holds it, and its errors are
\* reset.  Nothing waits for the save or the upload of an earlier opening.
Open(kind, r, seen) ==
    /\ dialog.kind = None /\ ~Crashed /\ Moving
    /\ dialog' = [Closed EXCEPT !.kind = kind, !.row = r, !.seen = seen, !.gen = used.moves + 1,
                                !.late = saving \/ uploading # 0 \/ lookups # {}]

OpenCreate ==
    /\ page.create # None /\ May(page.create.shown)
    /\ Open("form", None, None)
    /\ Spend(0, 1)
    /\ UNCHANGED <<page, perms, rows, query, list, gets, saving, uploading, slot, calls, lookups>>
    /\ UNCHANGED hist

OpenEdit(r) ==
    /\ page.edit # None /\ May(page.edit.shown)
    /\ RowsVisible /\ list.rows[r].st \in page.edit.from
    /\ Open("form", r, list.rows[r])
    /\ Spend(0, 1)
    /\ UNCHANGED <<page, perms, rows, query, list, gets, saving, uploading, slot, calls, lookups>>
    /\ UNCHANGED hist

\* openDetail of an order, openDeliveries of a webhook: show the panel empty
\* and ask for its contents.
OpenPanel(r) ==
    /\ page.panel # None /\ May(page.panel.shown)
    /\ RowsVisible /\ list.rows[r].st \notin {Absent, Gone}
    /\ Open("panel", r, list.rows[r])
    /\ lookups' = lookups \cup {[id |-> used.moves + 1, row |-> r]}
    /\ Spend(0, 1)
    /\ UNCHANGED <<page, perms, rows, query, list, gets, saving, uploading, slot, calls>>
    /\ UNCHANGED hist

\* The contents, or the error in their place.
LookupEnds(l) ==
    /\ lookups' = lookups \ {l}
    /\ dialog' = IF dialog.kind = "panel" THEN [dialog EXCEPT !.holds = l.id] ELSE dialog
    /\ UNCHANGED <<page, perms, rows, query, list, gets, saving, uploading, slot, calls, used>>
    /\ UNCHANGED hist

\* Escape, the backdrop, the cross and Cancel all call onClose, saving or not.
Close ==
    /\ dialog.kind # None /\ ~Crashed
    /\ dialog' = Closed
    /\ UNCHANGED <<page, perms, rows, query, list, gets, saving, uploading, slot, calls, lookups, used>>
    /\ UNCHANGED hist

IsForm == dialog.kind = "form"

StartUpload ==
    /\ page.uploads /\ IsForm /\ uploading = 0 /\ ~saving
    /\ uploading' = dialog.gen
    /\ UNCHANGED <<page, perms, rows, query, list, gets, dialog, saving, slot, calls, lookups, used>>
    /\ UNCHANGED hist

\* setForm writes the address of the image into whatever form is open.
EndUpload ==
    /\ uploading # 0
    /\ \E arrived \in BOOLEAN :
          dialog' = IF arrived /\ IsForm THEN [dialog EXCEPT !.image = uploading] ELSE dialog
    /\ uploading' = 0
    /\ UNCHANGED <<page, perms, rows, query, list, gets, saving, slot, calls, lookups, used>>
    /\ UNCHANGED hist

---------------------------------------------------------------------------
(* Changes requested of the API *)

Call(op, r, seen) ==
    [id |-> used.moves + 1, op |-> op, row |-> r, seen |-> seen, gen |-> dialog.gen,
     state |-> "sent", heard |-> TRUE]

\* Variant: one handler serves the form and the buttons of the rows.
IsAnyCall(c) == TRUE

IsSave(c) == c.op \in {page.create, page.edit}

\* Variant: the button of the form is not disabled while its save waits.
SaveAgain ==
    /\ IsForm /\ ~Crashed /\ Moving
    /\ calls' = calls \cup {Call(IF dialog.row = None THEN page.create ELSE page.edit, dialog.row, dialog.seen)}
    /\ saving' = TRUE
    /\ Spend(0, 1)
    /\ UNCHANGED <<page, perms, rows, query, list, gets, dialog, uploading, slot, lookups>>
    /\ UNCHANGED hist

\* handleSave and handleCreate, with a form that passes validate(); Button
\* disables itself while loading.
Save ==
    /\ IsForm /\ ~saving /\ ~Crashed /\ Moving
    /\ calls' = calls \cup {Call(IF dialog.row = None THEN page.create ELSE page.edit,
                                 dialog.row, dialog.seen)}
    /\ saving' = TRUE
    /\ Spend(0, 1)
    /\ UNCHANGED <<page, perms, rows, query, list, gets, dialog, uploading, slot, lookups>>
    /\ UNCHANGED hist

Key(op, r) == IF op.busy = "page" THEN <<"page">>
              ELSE IF op.busy = "row" THEN <<r>> ELSE <<r, op.name>>

ASSUME KeysAssumption == \A p \in Pages : \A op \in p.ops, r \in Row : Key(op, r) # None

\* Variant: a button is shown whatever its user may do.
OffersAll(op, seen) == seen.st \in op.from

Offers(op, seen) == May(op.shown) /\ seen.st \in op.from

\* A button of a row, or of the panel, which goes by the copy of the row it was
\* opened with.
Press(op, r, seen) ==
    /\ Offers(op, seen) /\ Moving
    /\ op.busy = None \/ slot # Key(op, r)
    /\ calls' = calls \cup {Call(op, r, seen)}
    /\ slot' = IF op.busy = None THEN slot ELSE Key(op, r)
    /\ unmarked' = IF op.busy = None \/ slot = None THEN unmarked ELSE unmarked \cup {slot}
    /\ Spend(0, 1)
    /\ UNCHANGED <<page, perms, rows, query, list, gets, dialog, saving, uploading, lookups, acked, overlapped>>

PressInRow(op, r) ==
    /\ op.place \in {"row", "both"}
    /\ dialog.kind = None /\ RowsVisible
    /\ Press(op, r, list.rows[r])

PressInPanel(op) ==
    /\ op.place \in {"panel", "both"}
    /\ dialog.kind = "panel" /\ ~Crashed
    /\ Press(op, dialog.row, dialog.seen)

\* The API: permission, then the check of the row's status, then the change.  A
\* creation finds a row that does not exist yet.  An endpoint with further rules
\* may refuse whatever the row: what they look at - a plan's limits, names taken,
\* the rows of other tables - is not part of the model.
Target(c) == IF c.row = None THEN {r \in Row : rows[r].st = Absent} ELSE {c.row}
Accepts(c, r) == May(c.op.needs) /\ rows[r].st \in DOMAIN c.op.to
Refuses(c)    == ~May(c.op.needs) \/ \E r \in Target(c) : ~Accepts(c, r)

Change(r, to) ==
    \E st \in to[rows[r].st] : rows' = [rows EXCEPT ![r] = [st |-> st, ver |-> @.ver + 1]]

Handle(c) ==
    /\ c.state = "sent"
    /\ \/ \E r \in Target(c) :
              /\ Accepts(c, r)
              /\ Change(r, c.op.to)
              /\ calls' = (calls \ {c}) \cup {[c EXCEPT !.state = "done", !.row = r]}
       \/ /\ Refuses(c)
          /\ calls' = (calls \ {c}) \cup {[c EXCEPT !.state = "refused"]}
          /\ UNCHANGED rows
       \/ /\ May(c.op.needs) /\ c.op.rules # {}
          /\ calls' = (calls \ {c}) \cup {[c EXCEPT !.state = "ruled out"]}
          /\ UNCHANGED rows
    /\ UNCHANGED <<page, perms, used>> /\ UNCHANGED ui /\ UNCHANGED hist

\* finally { setActionLoading(null) }: whichever row holds the mark loses it.
Unmark(c) ==
    IF c.op.busy = None THEN UNCHANGED <<slot, unmarked>>
    ELSE /\ slot' = None
         /\ unmarked' = IF slot \in {None, Key(c.op, c.row)} THEN unmarked ELSE unmarked \cup {slot}

\* The promise resolves: the dialog that is open closes, the list is read again.
Succeed(c) ==
    /\ c.state = "done" /\ c.heard /\ ~Crashed
    /\ calls' = calls \ {c}
    /\ acked' = IF c.op.reloads THEN [acked EXCEPT ![c.row] = rows[c.row].ver] ELSE acked
    /\ IF IsSave(c) THEN /\ dialog' = (IF IsForm THEN Closed ELSE dialog)
                         /\ saving' = FALSE
                         /\ UNCHANGED <<slot, unmarked>>
                    ELSE /\ Unmark(c)
                         /\ UNCHANGED <<dialog, saving>>
    /\ IF c.op.reloads THEN /\ list' = Refetching
                            /\ Fetch(query)
                            /\ Spend(1, 0)
                       ELSE UNCHANGED <<list, gets, used, overlapped>>
    /\ UNCHANGED <<page, perms, rows, query, uploading, lookups>>

\* The promise rejects: refused, a server error, or no answer although the
\* change may have been made.  The form that is open gets the message.
Fail(c) ==
    /\ c.heard /\ ~Crashed
    /\ calls' = calls \ {c}
    /\ IF IsSave(c) THEN /\ dialog' = (IF IsForm /\ page.blames THEN [dialog EXCEPT !.blamed = c.gen]
                                                                       ELSE dialog)
                         /\ saving' = FALSE
                         /\ UNCHANGED <<slot, unmarked>>
                    ELSE /\ Unmark(c)
                         /\ UNCHANGED <<dialog, saving>>
    /\ UNCHANGED <<page, perms, rows, query, list, gets, uploading, lookups, used, acked, overlapped>>

Unheard(c) ==
    /\ ~c.heard \/ Crashed
    /\ c.state # "sent"
    /\ calls' = calls \ {c}
    /\ UNCHANGED <<page, perms, rows, used>> /\ UNCHANGED ui /\ UNCHANGED hist

\* Someone else, in another browser or a storefront, changes a row.
Elsewhere(r) ==
    /\ Moving
    /\ \E to \in {op.to : op \in page.ops} \cup page.outside :
          rows[r].st \in DOMAIN to /\ Change(r, to)
    /\ Spend(0, 1)
    /\ UNCHANGED <<page, perms, calls>> /\ UNCHANGED ui /\ UNCHANGED hist

---------------------------------------------------------------------------
User == \/ \E q \in page.queries : SetQuery(q)
        \/ Retry \/ Remount
        \/ OpenCreate \/ Close \/ StartUpload \/ Save
        \/ \E r \in Row : OpenEdit(r) \/ OpenPanel(r)
        \/ \E op \in page.ops : PressInPanel(op) \/ \E r \in Row : PressInRow(op, r)

ListSettles   == \E g \in gets : Deliver(g) \/ FailGet(g)
LookupSettles == \E l \in lookups : LookupEnds(l)
CallSettles   == \E c \in calls : Succeed(c) \/ Fail(c) \/ Unheard(c)

Api == (\E g \in gets : Answer(g)) \/ (\E c \in calls : Handle(c))

Next == User \/ ListSettles \/ LookupSettles \/ CallSettles \/ EndUpload \/ Api \/ (\E r \in Row : Elsewhere(r))

Spec == Init /\ [][Next]_vars

---------------------------------------------------------------------------
(* Properties *)

\* When nothing is in flight and no error is shown, a list page shows the answer
\* to the filters, search and page it displays, in whatever order the answers to
\* earlier queries arrived (the cancelled flag of useApi).
AnswersTheQuery ==
    page.cancels /\ gets = {} /\ ~list.error => list.query = query

\* Once its requests have settled without an error, a page that has read its list
\* shows it - not a skeleton, not app/error.tsx - and every row with at least the
\* changes this user was told had been made.  Excepted are the page that does not
\* find the rows in the answer, and a list whose last GET was asked for while
\* another was in flight, on a page that cancels neither.
OwnWritesShown ==
    gets = {} /\ ~list.error /\ list.rows # None /\ ~overlapped /\ page.rowsFound =>
        RowsVisible /\ \A r \in Row : list.rows[r].ver >= acked[r]

\* The same of every page, which the page of the shipping methods refutes.
EveryPageShows ==
    gets = {} /\ ~list.error /\ list.rows # None /\ ~overlapped =>
        RowsVisible /\ \A r \in Row : list.rows[r].ver >= acked[r]

\* nextStatuses of the orders page offers "processing" for a pending order,
\* which order_state_machine.py does not allow.
OfferedTooEarly(c) == c.op.name = "processing" /\ c.seen.st = "pending"

\* What a page lets its user press, by the row's status and the user's permissions,
\* the API refuses on account of either only if the row changed after the page read
\* it: the two sides decide by separate tables, in two languages.  Of what an
\* endpoint rules out on other grounds nothing is said.
RefusedOnlyIfStale ==
    \A c \in calls : c.state = "refused" =>
        c.row # None /\ (rows[c.row].ver > c.seen.ver \/ OfferedTooEarly(c))

\* The same without the exception: the table of order_state_machine.py, which
\* calls itself the single source of truth, decides what is offered.
OfferedIsAccepted ==
    \A c \in calls : c.state = "refused" => c.row # None /\ rows[c.row].ver > c.seen.ver

\* A button that shows a spinner is not pressed again: the same change of the
\* same row is in flight twice only if another row's button took the one mark
\* the page has, or if the page marks no button of that kind; a form is saved
\* once at a time.
OneInFlight ==
    \A c, d \in calls : c.id # d.id /\ c.heard /\ d.heard =>
        IF IsSave(c) \/ IsSave(d) THEN ~(IsSave(c) /\ IsSave(d))
        ELSE Key(c.op, c.row) = Key(d.op, d.row) =>
                c.op.busy = None \/ d.op.busy = None \/ Key(c.op, c.row) \in unmarked

\* A late answer lands in the dialog that asked for it: an image, the contents
\* of a panel and a save's error show up, and a save closes a dialog, only where
\* they were requested - unless the dialog was opened while an earlier one still
\* waited, which no page prevents.
AnswersStayHome ==
    [][~Crashed /\ dialog.kind # None /\ ~dialog.late =>
          /\ dialog'.kind # None => {dialog'.holds, dialog'.image, dialog'.blamed} \subseteq {0, dialog'.gen}
          /\ dialog'.kind = None /\ saving /\ ~saving' =>
                \E c \in calls \ calls' : IsSave(c) /\ c.gen = dialog.gen]_vars

=============================================================================
