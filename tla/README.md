# TLA+ models of the seller-management system

This directory holds a formal model of the parts of the seller-management system in which several
actors meet: concurrent requests of the API on one PostgreSQL database, the outbox worker, and the
pages of the frontend, whose requests are answered late, out of order or not at all while the user, other
tabs and other people go on. TLC checks the models on small instances. TLAPS proves the most
important properties for every value of the constants. Paths such as `order_service.py:308` are
relative to `src/backend/app/` (services in `services/`, models in `models/`); frontend paths are
relative to `src/frontend/`.

    tlc -workers 2 -config Outbox.cfg MCOutbox.tla     # one run
    tlapm OutboxProofs.tla                             # one proof module

`PROJECT.json` lists the components, the runs, the code lines behind every definition, the hazards
with the properties that cover them, and for every property a changed definition that breaks it.

## 1. The system

The backend is a FastAPI application over SQLAlchemy sessions and PostgreSQL at READ COMMITTED
(`db/session.py`, `autoflush=False`, one session per request, several uvicorn workers). Redis holds a
catalogue cache and rate-limit counters. A separate process, `worker.py`, polls the table
`outbox_events`. A Next.js frontend is the client of both the storefront and the back office.

| Component | State it keeps | Operations | Meets others through | What is hard, and what makes it right |
|---|---|---|---|---|
| Stock and ledger (`order_service`, `inventory_service`, `purchase_order_service`, `api/v1/products`) | `stock_quantity` of products and variants, `inventory_movements` | create, cancel, delete an order; adjust; receive; edit a product | row locks; events in the outbox | reads before locks, lock order, commits in two parts. Stock never negative, no lost update, movements agree with the stock, a document posts its units once |
| Orders, sales, counters (`order_service`, `order_state_machine`) | order status, `sales`, counters of sellers and customers | PATCH, DELETE | unlocked reads of shared counters | status checked on one read, written after another. Sales belong to delivered orders, counters equal their sales |
| Checkout (`storefront_service`, `idempotency_service`, `payment_service`, `CheckoutModal.tsx`) | idempotency keys, customers, orders, payments, cart | checkout, POST /orders, replay | unique indexes, several commits per request, HTTP answers that get lost | duplicates, retries, deaths between commits. One order per key, no order without customer, no charge without order, every request ends |
| Outbox and worker (`outbox_service`, `worker`) | `outbox_events`: `processed_at`, `attempts` | emit, claim, handle, mark | `FOR UPDATE SKIP LOCKED`, commits inside a batch | crashes, retries, two workers. Nothing lost, nothing repeated without cause, nothing stuck |
| Notifications, webhooks, back-in-stock | notifications and `read_at`, deliveries, requests and `notified_at` | notify, deliver, mark read, ask | called by the worker | an outside effect before the commit that records it; check-then-write of alerts |
| Returns and refunds (`refund_service`) | return requests, refunds | request, decide, refund, process, fail | orders | unlocked sums and statuses. One refund per approved return; what is given back stays within the order |
| Coupons (`coupon_service`) | coupons, redemptions | validate, apply | the order's transaction, row lock of the coupon | counts at their limit |
| Sessions and tokens (`auth_service`, `auth_token_service`, `lib/api-client.ts`, `lib/auth.tsx`, `proxy.ts`, `org-switcher.tsx`) | refresh tokens in families, the pair in localStorage, a cookie, each tab's user | login, refresh, logout, switch organization, reset, revoke | several tabs and requests of one browser, other devices | unlocked rotation, tokens captured at the start of a request. One good token per family, a revoked family stays dead, the browser follows every rotation, a page acts for the organization it shows |
| Customer accounts (`customer_auth_service`, `lib/customer-auth.tsx`) | customer tokens, the shown customer | register, login, bootstrap, logout, edit the profile | cart, checkout | a 401 or a failed bootstrap clears tokens under other requests |
| Carts, wishlists (`cart_service`, `wishlist_service`, `lib/storefront-context.tsx`, `CartDrawer.tsx`) | carts of guests and customers; the shown cart | add, set, remove, clear, merge at the first use after login | login, checkout | optimistic page, answers in any order, inserts side by side. What was confirmed stays, one row per product, the page agrees with the API |
| Back-office pages (`app/dashboard`, `lib/use-api.ts`, `lib/use-list.ts`, `components/ui`) | query, rows, open dialog, busy button, requests in flight | load, filter, open, save, press, upload | every endpoint; other users change the same rows | late and reordered answers, one busy mark for many buttons, tables of permissions and statuses kept in two languages |
| Team and ownership (`api/v1/users`, `api/v1/organizations`, `rbac_service`, `permissions`) | users, roles, owner | invite, suspend, transfer | sessions, pages | who may do what; an organization keeps an active owner |
| Billing (`billing_service`) | plan, invoices | change plan, check limits | every create | limits checked by count, then written |
| Catalogue cache, rate limits (`core/redis`, `core/ratelimit`, `api/v1/storefront`) | cache entries, counters | get, set, invalidate, count | product changes | stale entry written after its invalidation, for a minute |
| Categories (`category_service`) | parent of each category | create, move, delete | - | concurrent moves make no cycle |
| Rest: products, suppliers, customers, sellers, shipping methods, API keys, domains, analytics, audit log, mail, storage, uploads | single rows, or none | create, read, update, delete | - | at the API no state beyond one row; their pages are back-office pages |

## 2. Modules

| Module | Models | Composed with |
|---|---|---|
| `Inventory` | every request that writes stock, step by step: unlocked reads, lock acquisition row by row, the commit, the events | refines `AtomicInventory` |
| `AtomicInventory` | what the stock of a row promises: each operation works on the stock as it is at one instant | |
| `InventoryProofs` | theorems about `Inventory` | extends it |
| `OrderLifecycle` | PATCH and DELETE of orders: status, sales row, counters | |
| `OrderLifecycleProofs` | theorems about `OrderLifecycle` | extends it |
| `Checkout` | the checkout dialog, the idempotency key, customer, order, payment, cart, answer | refines `IdempotentService`; leaves the stock to `Inventory` |
| `IdempotentService` | what an idempotency key promises: executed at most once, answered with that result | |
| `CheckoutProofs` | theorems about `Checkout` | extends it |
| `Outbox` | the worker, the events it claims and their side effects | takes the events that `Inventory` writes as its environment |
| `OutboxProofs` | theorems about `Outbox` | extends it |
| `Refunds` | returns and refunds of one order, on unlocked reads | |
| `RefundsProofs` | theorems about `Refunds` | extends it |
| `Sessions` | token pairs at the API, and the tabs and requests of one browser that use them | |
| `SessionsProofs` | theorems about `Sessions` | extends it |
| `BackOffice` | any list page of the back office in one tab, and the rows of the API it shows | parameterised by the records of `PageCatalogue` |
| `PageCatalogue` | fifteen pages as records: how they load, what their buttons offer to whom, how their handlers wait, what their endpoints accept | its records are the constants of `BackOffice` |
| `BackOfficeProofs` | theorems about `BackOffice` | extends it |
| `Storefront` | the shop in one tab with its shopper's session, and the carts of the API | |
| `StorefrontProofs` | theorems about `Storefront` | extends it |
| `MCInventory`, `MCOrderLifecycle`, `MCCheckout`, `MCOutbox`, `MCRefunds`, `MCSessions`, `MCBackOffice`, `MCStorefront` | the instances TLC checks | extend the modules; `MCBackOffice` instantiates `PageCatalogue` |

### Inventory

A request is one database session. `phase` says where it is, `seen` is its identity map: the value the
session holds of each row, or `Unread`. Two facts of SQLAlchemy and PostgreSQL carry the model.
`SELECT ... FOR UPDATE` of a row the session already holds takes the lock but does not refresh the
value (`LockRow`). And an attribute is written as an absolute value at commit. So a request that locks
before it reads (`create_order`, `apply_adjustment`) works on the current stock, and one that reads
first (`_cancel_order` through `selectinload`, `update_po_status`, `update_product`) may overwrite what
others sold. `IN (...) FOR UPDATE` fixes no order of the rows, so `LockRow` picks any, and PostgreSQL's
deadlock detector is the external action `AbortDeadlocked`. Row locks are released by the commit, the
rollback or the crash. `AnnounceAdjust`, `AnnounceRestock` and `AnnounceLow` are the events that
adjustments and edits write after their commit, in a second transaction.
Cancelling keeps the status check and the write apart: two cancellations of an order may both pass.

`SafeRows` are the rows that every enabled operation first reads under the row's lock. With the operations of
`inventory_all` these are the variants of orders; with creations and adjustments alone, all rows.

### OrderLifecycle

`ReadLinked` is a PATCH by a seller, whose own row is read by `_linked_seller` before the order
(`orders.py:217`) and not refreshed afterwards; an order of another seller is refused there and changes
nothing. `Begin` is `_get_order`'s first SELECT with the status check, `ReadParty` and `ReadSale` the further
SELECTs of its `selectinload`s, and the four commits are the branches of `update_status` and
`delete_order`. What is written is computed from these reads (`Assigned`, `LessOne`); the unique
`order_id` of `sales` rejects a second sale (`RejectDelivery`). The history variable `met` records
whether two requests that share an order, a seller or a customer have ever overlapped, and `credits`
counts committed deliveries.

### Checkout

The actions follow a request through its transactions: `CheckLimit`, `LookUpKey`, `ClaimKey` or
`LoseKey`, `FindCustomer`, `RegisterCustomer` (a flush whose unique index makes a second session wait,
`NothingInserted`), `PlaceOrder`, `Charge`, `CommitPayment`, `ClearCart`, `StoreResponse`; duplicates
poll (`ReplayResponse`, `GiveUpWaiting`). `Submit` and `LoseAnswer` are the dialog: it sends one
request at a time, draws a new key each time, and may lose an answer, after which the shopper submits
again. An order is named by the request that placed it.

### Outbox

Events are numbered in the order of `created_at`; `Emit` commits them in any order, because
`created_at` is the time their transaction began. `Claim` is `claim_ready_events`: the first
`BatchLimit` ready rows that nobody has locked, locked until the worker's next commit or rollback
(`held`). `batch` outlives `held`: that is the point of the model. `job` holds what the session has
pending for the event in hand (`notice`, `alert`, `told`) and what is still to do (`tell`, `post`).
`Mail` and `Post` happen outside the database, before `CommitDelivery` or `Finish` make the pending
rows permanent. `Raise` is an exception anywhere in the handler, with its rollback; `ReadAttempts` and
`MarkFailed` are the unlocked read and the write of `attempts`. `Finish` and `MarkFailed` wait for a
row another worker has locked. The stock that a handler reads may be anything, since requests change it
between the event and its handling. A low-stock alert is a row per user of `Staff` who holds the permission
(`draft`, `unread`), written by a worker or, in `NotifyAdjusted`, by a request of POST /adjustments.
`Looks` is `has_unread_for_product`: it reads `LookLimit` unread alerts of the organization in no order, so it
may miss the alert of the product when those of other products fill the limit; `missed` counts such looks. An HTTP error of an endpoint is recorded and otherwise treated as
an answer, as in the code. `failures`, `overlaps` and `missed` are history variables for the properties.

### Refunds

Nothing in `refund_service.py` locks, so each of its four operations is two steps: `CheckQuantity`,
`ReadReturn`, `ReadBalance` and `ReadRefund` keep in the request what they read, and `InsertReturn`,
`Decide`, `InsertRefund` and `Act` write from it, whatever has happened meanwhile. `Act` and `Decide` write a column
only where it differs from what was read, as SQLAlchemy does. `torn`, `crowded`, `unseen` and
`reinstated` are history: they name exactly the returns and refunds whose check another request, or a
failed refund that is processed after all, had overtaken, and the properties except those and no others.

### Sessions

A token pair is one value: `family`, `org`, `revoked` and `stale` say what `refresh_tokens` and the claims
of the access token hold. A request captures the stored pair when it starts (`Start`), as `apiRequest`
does, and its `pc` follows `rawRequest`, `refreshAccess` and, at the API, `refresh`: `FindToken` reads the
row, `Rotate` writes it; `ReadFamily` finds the rows of a family that was reused, `RevokeFamily` writes
them. `ResetReads` or `ReadOthers` and `ResetCommits` are a password reset and `revoke_other_sessions` from
another device, `RevokeSession` the revoking of one listed row. `Load`, `Redirect` and `Proxy` are the
pages and `proxy.ts`, which goes by the cookie alone (a dashboard that is `loading` its user shows nothing to press, `Rendered`); a page that is loaded anew no longer hears its
requests (`Deafened`). `raced` names the families in which a rotation overlapped another change,
`unheard` those rotated or revoked for a page that was gone, `crossed` the tabs that signed in while
`/auth/me` was in flight.

### BackOffice and PageCatalogue

`BackOffice` is the code the pages share. `Fetch` and `Request` are `useApi`, which ignores the answer to
an effect that was cleaned up, or the page's own `load()`, which ignores none (`page.cancels`). `dialog` is the one
modal with the opening (`gen`) it stands for, and what landed in it: the contents of a panel (`holds`), an
image, an error (`blamed`). `slot` is `actionLoading`, `deleting` or `updatingId`. `Handle` is the
endpoint: it checks the permission, its other rules and the row's status, and changes the row; `Elsewhere` is
what other people change. `PageCatalogue` gives one record per page. An operation has the button's side (permission and
statuses for which it is shown), the handler's side (the busy mark, whether it reloads) and the
endpoint's side (permission, transitions, and `rules`: the error codes of whatever else it may refuse for,
such as `CATEGORY_HAS_CHILDREN`, `SELLER_NOT_LINKED` or the plan's limit, whose state is not in the model: such a call ends "ruled out"), each translated from its own file, so that a
disagreement between them appears as a refused call. Names, prices and search text are not modelled; a row
is its status and a version. `rowsFound` is whether the page finds the rows in the answer: the page of the shipping
methods looks for `items` in what is a plain list of the active methods, and shows no row.

### Storefront

`items` are the rows of `cart_items` with the cart they are in, `shown` is the cart of the page. Each handler of
the API settles first whose cart it serves (`Settled`: adopt, merge, or neither); `FindItem` and
`WriteItem` are `add_item`, which looks for a row and inserts without a lock. The page changes `shown`
at once and again when an answer comes (`ShowCart`), in whatever order; a line without the id of its
row is removed by clearing the cart. `Reload`, `OpenLogin`, `OpenAccount` and `BackToStore` mount and unmount the
provider. The model follows the code in details that are easy to miss: the stored cart is overwritten by
`[]` before it is read; the customer's refresh URL is wrong on every path that asks for it, so each 401 ends the
session, that of a wrong password on the login form included (`LoginDenied`); logging out leaves the shown cart; an expired token makes the API serve a guest; GET /cart merges
without committing. `owed` are the products an answer has shown to the shopper and that were neither
removed nor ordered since; the other history variables name what the page lost and why. Whether an order or the
clearing after it may take more than the page shows is recorded in the request when it is sent (`lost`):
the page is `Unsure` while it has gone astray or GET /cart is under way, and `Unshown` are products whose
addition was sent by a page that has been left.

## 3. Runs

| Run | Instance | Checks | Shows |
|---|---|---|---|
| `inventory_sale` | 3 requests; creations, adjustments, edits; 2 products and a variant; fairness | `TypeOK`, `LowStockAnnounced`, `EveryRequestEnds` | every fall to the threshold is announced, or about to be; all requests end, deadlocks included |
| `inventory_all` | 3 requests; creations, cancellations, DELETEs, receipts; one prior order, one purchase order; crashes | `StockNonNegative`, `OrderEventsMatchOrders`, `SafeRowsFollowLedger`, `InductiveInv`, `ImplementsAtomicInventory` | stock stays non-negative, order events match committed orders, rows read under their lock lose no update and behave as an atomic store |
| `inventory_delete_again` | DELETEs of one order | `PostedOnce` violated | DELETE of a cancelled order restores its stock again |
| `lifecycle` | 3 requests with any goal, 2 orders of one customer in any status but delivered, one with a seller; failures | `TypeOK`, `ConsistentUntilOverlap`, `NoCreditWithoutDelivery`, `FollowsStateMachine` | without overlap everything stays consistent; with overlap nobody is credited beyond the deliveries |
| `checkout` | a dialog with two attempts, a signed-in customer and an API client that share a key; lost answers, one death | `OneOrderPerKey`, `OrderHasCustomer`, `PaymentsMatchCharges`, `DuplicateOnlyAfterLoss`, `InductiveInv`, `ImplementsIdempotentService`, `EveryRequestEnds` | the checkout keeps its promises per key, whoever dies where |
| `outbox` | 2 workers, 2 events (the second of low stock, the first of any type), a webhook, a shopper, a user to alert, an adjustment beside two low-stock events, a look that may miss, 2 attempts, one death | `NothingLost`, `InductiveInv`, `RepeatsExplained`, `AlertsBounded` | no event is dropped; repeated effects have a failure, a death or an overlapping claim behind them; every unread alert has a writer or a missed look behind it |
| `outbox_liveness` | two low-stock events | `EventuallyProcessed` | every event leaves the outbox |
| `refunds` | 2 returns, 2 refunds, 2 requests; a line of two units that would bring more than the order's total | `OneRefundPerReturn`, `WithinOrder` | a return gets its refund once and the two checks hold, except where a request overtook them |
| `sessions` | 2 tabs, 2 requests in flight, 3 token pairs, 5 moves; expiry and loss at any step | `TypeOK`, `OneLiveToken`, `DeadStaysDead`, `HoldsLiveToken`, `ActsForShownOrg` | rotation and revocation do what they say outside races; the browser ends up with the good token; a page acts for the organization it shows, with three named exceptions |
| `backoffice` | every page, every role, 2 rows, 3 moves | `AnswersTheQuery`, `OwnWritesShown`, `RefusedOnlyIfStale`, `OneInFlight`, `AnswersStayHome` | pages and API agree on who may do what with a row of which status; late answers land where they belong, save in the cases the properties name |
| `storefront` | 2 products, 3 cart rows, 2 requests in flight, 4 moves, with or without a customer's cart | `KeptUntilRemoved`, `OneRowPerProduct`, `ShownIsServed`, `SignedInHoldsTokens` | the cart of the page follows the API's; confirmed items are lost only by the ways listed |
| `storefront_merge` | the same | `AbsorbsGuestCart` violated | merging drops a guest's items that the customer's cart lacks |

### The bounds and why they suffice

Two requests show every conflict of two sessions, and three let a third session act between the
steps of two others, as in a cycle of waits. Two products give lock cycles; a product with a variant gives
the two-statement locking of orders. The initial stock of 1 or 2 is at the boundary of every basket.
In `checkout`, `MonthlyLimit = 2` lets the limit bite with four requests in flight. In
`outbox`, two events are the smallest batch whose rest loses its locks, `MaxAttempts = 2` stands for
the five of the code (one retry, then the last attempt), `BatchLimit = 2` for its fifty, and workers are
interchangeable, so the run uses symmetry. `LookLimit`, `MaxOthers` and `MaxMissed` are 1: the look is either
complete or cut off once, and what the limit of 100 changes is only how many alerts of other products that takes.
One adjustment runs beside the history of two low-stock events (`Beside`), the one in which both workers write alerts too; `outbox_liveness` does not. `MaxCrashes = 1` bounds the
deaths of a run, not their place. Symmetry of requests in `lifecycle` is sound because nothing names a
request. In `sessions` three pairs are a login and two rotations, or two logins and one, the least with
which a token can be reused after its successor was issued; five moves allow a login, two calls
of different tabs and a reload or another login, or the first three and what another device asks for, which
counts as two moves (`Abroad`). With that counted as one move the run has 2.4 million states, and the
invariants held there too. In `backoffice` three moves are an opening, a
press and something that overtakes it; statuses of the rows start equal (`OneStatus`), which loses
little, because `Elsewhere` may change them, and roles that differ only in permissions a page never asks for are
represented by one. In `storefront` three rows allow a duplicate and a merge; `MaxMoves = 5` was checked
once (2.5 million states for an earlier form of the model) and found nothing that 4 does not. A third request was
tried with two rows and with three (1.7 and 2.7 million states). It showed that `KeptUntilRemoved`, as it was first
stated, is wrong with three: a page that is reloaded and orders before GET /cart is answered, or
orders while an addition sent before the reload is on its way, loses what it has not been shown. In the first,
GET /cart, an addition and the order are under way together. These two ways are now among the named ones, the three-request instances pass, and the
proof, which needs no bound, covers any number. In `refunds`
nothing bounds the steps: rows are used up. Symmetry is sound in all of these, since no property but
those on single states, and no action property that names a constant, is checked under it. The bounds are guards, not state constraints.

### Fairness

Nothing forces a client to submit, a shop to trade, a process to die or an answer to be lost. What the
fairness of `FairSpec` assumes is that a request a worker thread has begun takes its next step when it
can (`Inventory`, `Checkout`), and that the worker process, which polls in an endless loop and is
restarted by Docker, takes its next step when it can (`Outbox`). Weak fairness is enough: a wait for a
row lock or for a key ends when its holder moves on or PostgreSQL ends a deadlock. Failures are never
assumed to happen or to stop: `EventuallyProcessed` rests on the count of attempts alone, even though
two workers may overwrite each other's count.

## 4. Proofs

Every theorem below holds for all values of the constants that satisfy the named assumptions of the
module; a run checks the same property on its instance. Each proof follows one pattern. An inductive
invariant is stated (`InductiveInv` or `IInv`), checked by TLC on the instance of the run, shown to
hold initially and to be kept by every action, one lemma per action; the property follows from it.

| Property | Theorem | Module |
|---|---|---|
| `StockNonNegative`, `SafeRowsFollowLedger`, `OrderEventsMatchOrders`, `LowStockAnnounced` (in the systems named below), `TypeOK` | `NoOverselling`, `NoLostUpdate`, `EventsMatchOrders`, `LowStockIsAnnounced`, `Typing` | `InventoryProofs` |
| `ImplementsAtomicInventory` | `Refinement` | `InventoryProofs` |
| `ConsistentUntilOverlap`, `NoCreditWithoutDelivery`, `FollowsStateMachine`, `TypeOK` | `Consistency`, `Credited`, `Transitioning`, `Typing` | `OrderLifecycleProofs` |
| `OneOrderPerKey`, `OrderHasCustomer`, `PaymentsMatchCharges`, `DuplicateOnlyAfterLoss` | `AtMostOneOrder`, `CustomersStay`, `PaymentsAgree`, `NoDuplicateWithoutLoss` | `CheckoutProofs` |
| `ImplementsIdempotentService` | `Refinement` | `CheckoutProofs` |
| `NothingLost`, `AlertsBounded`, `RepeatsExplained` | `NeverLost`, `AlertsAccountedFor`, `NoUnexplainedRepeat` | `OutboxProofs` |
| `OneRefundPerReturn`, `WithinOrder` | `RefundedOnce`, `Bounded` | `RefundsProofs` |
| `TypeOK`, `OneLiveToken`, `DeadStaysDead`, `HoldsLiveToken`, `ActsForShownOrg` | `Typing`, `RotationIsExclusive`, `RevocationIsFinal`, `RotationsAreFollowed`, `PagesActAsShown` | `SessionsProofs` |
| `AnswersTheQuery`, `OneInFlight`, `OwnWritesShown`, `RefusedOnlyIfStale`, `AnswersStayHome` | `ShowsTheQuery`, `PressedOnce`, `Acknowledged`, `RefusedLateOnly`, `LandsWhereAsked` | `BackOfficeProofs` |
| `SignedInHoldsTokens`, `OneRowPerProduct`, `ShownIsServed`, `KeptUntilRemoved` | `TokensAreHeld`, `RowsAreSingle`, `PageShowsTheCart`, `ConfirmedIsKept` | `StorefrontProofs` |

**Inventory.** `StockNonNegative` and `SafeRowsFollowLedger` are not inductive: the
write of a request is right only because of what it saw. `InductiveInv` adds that a held row has been
read (`HeldRowsAreRead`), that a safe row seen under its lock is still what was seen
(`SafeRowsReadUnderLock`), that a request's change comes from its document and, for an edit, cannot lead
below zero (`PlannedChange`), and which documents exist (`DocumentsInOrder`). `Refinement` maps each commit to the
step of `AtomicInventory` it implements, and every other step to a stutter or to a choice of units.
`NoOverselling` is also why the CHECK constraint on stock is not in the model: it never fires.
`EventsMatchOrders` needs of `InductiveInv` that an order is created once and a cancellation works on an
order that exists.

`LowStockAnnounced` is not true of every system, and the proof attempt showed why. An adjustment lowers
a product to its threshold; before it announces that, a cancellation raises the stock, so it has nothing
to say; then a second cancellation, which read the product while it was low, writes the low value back,
and nobody announces it. And a process may die between the commit and the event. `LowStockIsAnnounced`
names the two kinds of system in which it holds. In the first (`OnlyDocuments`) stock changes by orders
and purchase orders only, with any crashes and stale writes; the invariant is
`LowValuesAnnounced`: every low value, in the table or in the identity map of a session, has been
announced. In the second (`NothingReturns`) no unit comes back and no process dies; `LowStockAnnounced` is inductive there,
since a request that lowers a row either announces it in its own transaction or is in the second one.

**OrderLifecycle.** `ConsistentUntilOverlap` says nothing once requests have overlapped, so `IInv` is a
disjunction: `met`, or `Quiet`, which adds to the property that running requests are apart (`Apart`) and
that what each has read is still so (`ReadsCurrent`). `NoCreditWithoutDelivery` holds in every
interleaving and needs `ReadCredits`: what a request has read of a counter is covered by the credits, which only
grow. The constants `Orders` and `Parties` are assumed finite, as the sums are over them.

**Sums** (at the head of `OrderLifecycleProofs` and of `RefundsProofs`, which each take what they use). The community modules define `SumFunctionOnSet` by a fold that takes the
elements of a set in an order fixed by `CHOOSE`. Induction theorems are out of the prover's reach, but their use
is not needed: in a finite set of subsets some smallest one exists (`WFMin` on strict inclusion), so a
smallest counterexample can be led to a contradiction. First two folds are shown to agree
(`FoldsAgree`) and one to exist (`FoldsExist`), then that any element may be taken first (`SumRemove`),
and the rest follows: `SumAdd`, `SumSame`, `SumChange`, `SumPart`, `SumFewer`, `SumOneMore`.

**Checkout.** The key's row is the pivot: `KeyHolderRuns` says that only the request
in the row goes beyond the key, `ResponseIsHoldersOrder` that what is replayed is its order,
`OrderFollowsPhase` and `PaymentFollowsPhase` tie the tables to the request's place, `CustomerAtHand`
that a request that orders has its customer committed or pending in its own session, and
`OneLiveAttempt` that a shopper waits for one attempt at a time.

**Outbox.** `NothingLost` needs `DeliveryInv`: what an event is still owed is in the
job of every worker that handles it, and neither the row's `attempts` nor a worker's copy exceeds the
recorded failures, so no lost update lets an event be given up early. `AlertsBounded` says that a user has no more unread
alerts of a product than there are workers and adjustments, and one more for each look that missed one.
It needs `AlertInv`, which counts the pending alerts of the user with the unread ones: who finds none unread adds one to what the
others have pending, at most one each, and who misses one pays with `missed`.

`RepeatsExplained` is an account. `RepeatsInv` says that what was done for an event, plus what the
workers that claimed it still owe, is within `Budget`: one, plus its failures, the deaths and the
overlapping claims, less one while nobody has the event and it is not processed. A claim adds a worker that owes
everything, and pays for it: either another worker still has the event, which counts as an
overlap, or the event was free, and the one that was kept back is spent. A worker that leaves without
processing the event leaves a failure or a death behind. Mails are accounted to the only restock, as
long as there is only one.

**Refunds.** `OneRefundPerReturn` is inductive together with the types and with what
a request that decides or acts has read: its row exists, and unless the return is torn the status it read is
the status there is. `WithinOrder` adds that what a request has found within the bounds still is, unless
another request joined it, which is what the history variables record. Returns and refunds are
assumed finite, for the sums.

**Sessions.** Neither `OneLiveToken` nor `DeadStaysDead` is inductive, because a
request acts on what it read. `IInv` adds what still holds of it in every family that is not raced: a
token about to be rotated is not revoked (`Rotatable`), the rows found for a revocation include every
good one (`Revocable`), and so do the rows of a reset (`ResetCovers`). A family that has just been issued is
nobody's, as `family` only names issued pairs. The lemmas of the browser's actions are instances
of `BrowserOK` and those of revoking ones of `RevokeOK`.

`HoldsLiveToken` speaks of moments in which nothing is in flight. In between, `Followed` says what there is
to follow: a pair on its way to the browser is the good one of its family (`GivenAreFresh`), and a stored
pair that has been rotated or revoked has a request on its way that replaces it (`StoredIsReplaced`).
`ActsForShownOrg` needs `Acted`: each request carries the pair and the organization it was
labelled with (`LabelledFor`), a page that shows an organization got it with the pair it was signed in
with (`ShowsStored`), one bootstrap of a tab is heard at a time (`BootsAlone`), and a tab signs in once at a time
(`SignsOnce`). Both are proved on top of `IInv` by a general lemma on what a step does to the fields of the
requests and tabs, and one instance of it per action.

**BackOffice.** The theorems hold for any catalogue of pages, any rows, permissions and number of moves.
On a page that cancels, every request in flight is for the query of now (`Current`). `Marked` ties the busy mark to the calls in
flight, `Home` the parts of the dialog to the opening that asked for them, `Read` the versions that pages
and calls hold to those of the rows, `OfferedInTime` each call to the status that its button went by, and `Caught` the last
acknowledged versions to what a GET in flight will bring. What they assume of the pages is
stated as three assumptions that TLC evaluates on the fifteen records of `PageCatalogue`:
`PagesAssumption` on the shape of a record, `KeysAssumption` that a busy mark is not `None`, and
`TablesAssumption`, which compares the two sides of every operation: whoever is shown a button may call
its endpoint, and an endpoint accepts the statuses for which its button is shown. The one exception, named in the
assumption, is the orders page's "processing" (section 5). So the disagreement of tables is
decided by evaluation, and the theorem shows that nothing else but a row that has changed leads to a refusal on
account of status or permission. Of refusals by an endpoint's `rules` it says nothing: they depend on other rows (children of a
category, a name taken, the plan's count) that no page looks at before it offers the button. `Acknowledged` excepts
the page without `rowsFound`, and a list whose last GET was asked for while another was in flight; a
later GET that runs alone ends the exception.

**Storefront.** The theorems hold for any products, rows and stock, and for any number of requests in flight
and moves. The four invariants build on each other. `IdInv` says where the page is and what it
may wait for there (`Placed`), and that what will show a customer was asked with tokens that are still held
(`Holds`); `SignedInHoldsTokens` needs no more. `RowInv` gives `OneRowPerProduct`. It counts not the rows of
a cart but the rows the API would find in it once settled (`Part`), so that adopting and merging are no special
case; and it says of a request that has looked for a row and found none that there still is none (`Looked`),
unless another request is at the same product (`Apart`). `ViewInv` adds that an answer which no later commit
has overtaken is the cart as it is (`Truthful`), which the lemma `CommitSettles` carries through a commit:
a cart that has just been written is settled. `Faithful` then says what a page shows that waits for nothing.
`KeptInv` looks ahead: the row that a removal on its way names is of the product that was taken off the page (`Removing`), an
order or a clearing on its way leaves out nothing that is owed, unless it is marked `lost` (`Sure`), and a page that is
not astray shows what is owed of its cart, or waits for the addition of it (`Known`). For `Removing`
the ids in answers and lines have to stay those of their products (`Lines`): rows go, but are never reused.

The proof was also a test of the model. `Sure` could not be shown for an order that leaves a page which has not been told its
cart, and TLC found the two counterexamples with three requests (section 3). `ShownIsServed`, on the other hand,
turned out to hold without its condition that the cart can be served at all, and is now stated without it.

Everything with "eventually" stays with TLC, since liveness under fairness and `ENABLED` are outside the prover:
`EveryRequestEnds` in its two runs, and `EventuallyProcessed`. All invariants and the other action properties of the
passing runs, and both refinements, are proved.

## 5. Findings

The two violated runs are disagreements between the code and what a document or a comment of the
repository says; `PROJECT.json` quotes each:

- `inventory_delete_again`: DELETE of a cancelled order restores its stock again;
- `storefront_merge`: a guest's items that the customer's cart lacks are lost in the merge, because the
  deletion of the guest's cart cascades to rows that were only given another `cart_id`.

The following configurations also end in a counterexample of their property. They are kept so that it can
be reproduced, and are not among the runs:

| Configuration | Property | What the counterexample is |
|---|---|---|
| `InventoryStaleCancel.cfg` (`MCInventory`) | `StockFollowsLedger` | a sale between a cancellation's read and its lock is overwritten |
| `LifecycleDrift.cfg` (`MCOrderLifecycle`) | `CountersMatchSales` | of two deliveries for one customer one increment is lost |
| `CheckoutRetry.cfg` (`MCCheckout`) | `OneOrderPerShopper` | a retry after a lost answer carries a new key and orders again |
| `OutboxTwice.cfg` (`MCOutbox`) | `DeliveredOnce` | two workers deliver an event twice though nothing failed |
| `OfferedProcessing.cfg` (`MCBackOffice`) | `OfferedIsAccepted` | the orders page offers "processing" for a pending order (`orders/page.tsx:217`), which `order_state_machine.py`, "single source of truth", refuses |
| `ShippingShown.cfg` (`MCBackOffice`) | `EveryPageShows` | the page of the shipping methods (`shipping/page.tsx:162`) never shows a row, whatever its user created |
| `SessionsScope.cfg` (`MCSessions`) | `OneOrgPerFamily` | "each session is scoped to one organization" (`README.md:128`), but a refresh returns to the home organization (`auth_service.py:199`), and the page goes on showing the one that was chosen |
| `SessionsDevice.cfg` (`MCSessions`) | `LogsOutOneDevice` | "Logs out one device/browser" (`api/v1/auth.py:169`): a row that has been rotated since it was listed is revoked once more, and the device stays signed in |
| `RefundsOver.cfg` (`MCRefunds`) | `NeverOverTotal` | "cannot exceed the order total minus already-issued refunds" (`api/v1/refunds.py:80`): two refunds checked against one balance exceed it, and so does one that failed, was refunded otherwise and is then processed |

Others came up while modelling:

- two cancellations of one order, or two receipts of one purchase order, pass the status check together
  (`order_service.py:190`, `purchase_order_service.py:103`) and post their units twice;
- stock events of adjustments and edits are lost when the process dies after the first commit
  (`inventory_service.py:69`);
- movements of a variant and of its product are replayed as one ledger against the product's stock
  (`api/v1/inventory.py:43`);
- `created_at` of an event is the time its transaction began, and a failed event is retried later, so a
  subscriber may learn of events in another order than they happened (`outbox_service.py:49`);
- a cancellation that overlaps a delivery leaves a sale of a cancelled order, and a final status can be
  left when two requests overlap;
- a key whose holder fails stays "processing" until it expires (`idempotency_service.py:74`);
- the savepoint of `_create_customer` (`storefront_service.py:451`) begins only after a flush, so a
  duplicate customer fails the request instead of falling back to the existing row;
- a shopper who was told of a restock cannot ask again: the unique constraint of
  `back_in_stock_requests` covers notified rows, which the code does not look for;
- two workers may each send the mail of one back-in-stock request;
- "a product only triggers once while its alert is unread" (`notification_service.py:132`) holds for one
  writer at a time and up to 100 unread alerts: workers and adjustments look and write without a lock, and the
  look is cut off (`notification_service.py:123`);
- an API key of another member is listed with all its buttons and refused for each with
  403 `API_KEY_NOT_FOUND`; for a key that is gone `not_found` is given two arguments and takes one, which ends in a
  500 (`api_key_service.py:77`);
- a tab whose tokens `apiRequest` has cleared keeps its cookie: the dashboard shows nobody, sends the user to
  `/login`, and `proxy.ts` sends the browser back (`proxy.ts:7`, `Redirect`);
- requests of two tabs that meet a 401 one after the other refresh with one token; the second looks like reuse
  and revokes the family, and `clearTokens` drops the pair the first had stored;
- removing a cart line that has no id yet clears the whole cart (`storefront-context.tsx:240`);
- two requests that add one product may insert two rows, since the unique constraint takes two NULL
  variants for different, and every later look for the row fails (`cart_service.py:253`);
- the page of one product uses the cart without the provider that holds it (`storefront/product/[id]/page.tsx`);
- a dialog may be closed while its save waits, and the answer then closes or blames the next one
  (`products/page.tsx:133`); a second busy button frees the first (`refunds/page.tsx:77`);
- the signing secret of a new webhook is shown in full only in the dialog that closes when it arrives
  (`webhooks/page.tsx:122`);
- `change_password` revokes no refresh token, unlike `reset_password`.

## 6. Not modelled

Prices, discounts and taxes, formatting, pagination and search text, the audit log, e-mail transport, file
storage, hashing and signing have no concurrency of their own. Permissions are modelled where a page meets
an endpoint (`PageCatalogue`); elsewhere every request of a model belongs to one organization and is
permitted. Notification preferences choose recipients and change no other state. Webhook endpoints are
fixed during a run. The five-second poll of a duplicate request is an unbounded number of polls with a
nondeterministic end. Server-side timeouts of PostgreSQL are covered by `Crash`.

- Coupons: their counts change under the lock of the coupon's row, in the order's transaction. In `Inventory`
  that is one more lock of an order, and its instances are at the limit of what TLC explores.
- Wishlists follow the carts without quantities. The page of one product and the landing page keep no
  state that others read; the settings page and the notification bell are left for later.
- The catalogue cache and the rate limits: nothing is decided from an entry, which lives for a minute.
- Registration, invitations and the single-use tokens of mails; customer refresh tokens at the API, which the
  frontend cannot reach (its refresh URL is wrong); ownership transfers; the tree of categories.
- Type invariants are checked or proved for `Inventory`, `OrderLifecycle`, `Checkout`, `Outbox`, `Refunds`
  and `Sessions`. `BackOffice` and `Storefront` have none: their variables are records that the properties
  take apart.

## 7. Plan

Modelled so far, in this order: what several requests do to one row (stock), to one order, to one key, to
one event, to one return; then the browser: its sessions, the pages of the back office, the shop.
What is left:

1. The notification bell and the settings page: polls and edits that a late answer undoes.
2. `Ownership` and `CategoryTree`: check-then-write on users and on the tree.
3. Coupons, in an instance of `Inventory` of their own.

Runs stay few: an instance is added for a new question only, and where two instances would answer the
same one the smaller goes.
