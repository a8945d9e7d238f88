----------------------------- MODULE Storefront -----------------------------
(* One shopper in one tab of the shop: the cart the page shows and changes ahead
   of the API (lib/storefront-context.tsx), the session of lib/customer-auth.tsx
   that decides whose cart a request reaches, and the guest's and the customer's
   carts that cart_service.py keeps, merges and clears.  The answers of requests
   in flight come in any order, or never; each replaces the whole shown cart.  *)
EXTENDS Naturals, FiniteSets, FiniteSetsExt

CONSTANTS
    Product,
    Item,         \* bound: the cart rows that can be inserted
    Request,      \* bound: requests in flight at a time
    MaxMoves,     \* bound: what the shopper does, and how often the access token expires
    MAX_QUANTITY,
    Stock,        \* stock_quantity of every product; sales elsewhere are not modelled
    None

ASSUME StorefrontAssumption ==
    /\ MaxMoves \in Nat /\ MAX_QUANTITY \in Nat \ {0} /\ Stock \in Nat
    /\ None \notin Product \cup Item
    /\ None \notin {"guest", "customer", "gone", "good", "stale"}

VARIABLES
    items,        \* cart_items: the cart a row is in, None before it is inserted, "gone" after
    customerCart, \* the customer has a row in carts
    shown,        \* cart: the lines on the page, with the id of their row or None
    at,           \* "shop", or "login" or "account", where no cart is mounted
    confirmed,    \* CheckoutModal shows the order it placed
    access,       \* sms_customer_access: None, "good" or "stale"
    customer,     \* the page shows the shopper as signed in
    req,          \* the requests
    moves,        \* what has happened of MaxMoves
    owed,         \* history: products an answer showed, neither removed nor ordered since
    unmerged,     \* history: products of a guest's cart that a merge has dropped
    excused,      \* history: products dropped where the page knows no better
    astray,       \* history: the page was left with something no answer has confirmed
    doubled,      \* history: products added twice side by side
    refused       \* history: tokens cleared by a 401, a failed bootstrap or amid a sign-in

hist == <<owed, unmerged, excused, astray, doubled, refused>>
page == <<shown, at, confirmed, access, customer>>
vars == <<items, customerCart, shown, at, confirmed, access, customer, req, moves, owed, unmerged, excused, astray, doubled, refused>>

Lesser(a, b) == IF a < b THEN a ELSE b

---------------------------------------------------------------------------
(* cart_service.py *)

Gone == [cart |-> "gone", product |-> None, quantity |-> 0]

Rows(its, c)  == {i \in Item : its[i].cart = c}
Of(its, c, p) == {i \in Rows(its, c) : its[i].product = p}
In(its, c)    == {its[i].product : i \in Rows(its, c)}

\* cart_read
View(its, c) ==
    {[product |-> its[i].product, quantity |-> its[i].quantity, id |-> i] : i \in Rows(its, c)}

\* _merge_guest_cart: the guest's quantities are added to the customer's rows.  A
\* row that the customer's cart lacks is given its cart_id, but it is still in the
\* items of the guest's cart, whose deletion cascades to them.
Merge(its) ==
    [i \in Item |->
       IF its[i].cart = "guest" THEN Gone
       ELSE IF its[i].cart = "customer" /\ Of(its, "guest", its[i].product) # {}
       THEN [its[i] EXCEPT !.quantity =
               Lesser(MAX_QUANTITY, @ + MapThenSumSet(LAMBDA g : its[g].quantity, Of(its, "guest", its[i].product)))]
       ELSE its[i]]

\* get_or_create_cart: a customer without a cart adopts the guest's.
Settled(its, c) ==
    IF c = "guest" THEN its
    ELSE IF customerCart THEN Merge(its)
    ELSE [i \in Item |-> IF its[i].cart = "guest" THEN [its[i] EXCEPT !.cart = "customer"] ELSE its[i]]

\* _find_item fails on two rows of a product: scalar_one_or_none.
Broken(its, c) ==
    /\ c = "customer" /\ customerCart
    /\ \E p \in In(its, "guest") : Cardinality(Of(its, "customer", p)) > 1

\* What a merge drops.
Dropped(c) == IF c = "customer" /\ customerCart THEN In(items, "guest") \ In(items, "customer") ELSE {}

---------------------------------------------------------------------------
(* Requests *)

Idle == [pc |-> "idle", kind |-> None, access |-> None, item |-> None, product |-> None, quantity |-> 0,
         lines |-> {}, found |-> None, answer |-> {}, heard |-> TRUE, old |-> FALSE, lost |-> FALSE]

Active(r) == req[r].pc # "idle"
Quiet     == \A r \in Request : ~Active(r)
Moving    == moves < MaxMoves /\ moves' = moves + 1
Cart(r)   == IF req[r].access = "good" THEN "customer" ELSE "guest"
Serving   == IF access = "good" THEN "customer" ELSE "guest"
Products(lines) == {l.product : l \in lines}

\* customerRequest reads the tokens as it starts.
Ask(kind) == [Idle EXCEPT !.pc = "sent", !.kind = kind, !.access = access]

\* A page that is left forgets its requests; the API still handles them.
Abandoned == [r \in Request |-> IF Active(r) THEN [req[r] EXCEPT !.heard = FALSE] ELSE req[r]]

\* The API has committed its answer to r: those on their way are overtaken.
Answer(r, answer) ==
    req' = [q \in Request |->
              IF q = r THEN [req[r] EXCEPT !.pc = "answered", !.answer = IF req[r].heard THEN answer ELSE {}, !.old = FALSE]
              ELSE IF req[q].pc = "answered" THEN [req[q] EXCEPT !.old = TRUE] ELSE req[q]]

Refuse(r) == req' = [req EXCEPT ![r].pc = "failed"]

Init ==
    /\ \E kept \in SUBSET Product : \E row \in [kept -> Item] :
          /\ \A p, q \in kept : row[p] = row[q] => p = q
          /\ items = [i \in Item |->
                        IF \E p \in kept : row[p] = i
                        THEN [cart |-> "customer", product |-> CHOOSE p \in kept : row[p] = i, quantity |-> 1]
                        ELSE [cart |-> None, product |-> None, quantity |-> 0]]
          /\ customerCart = (kept # {})
    /\ shown = {} /\ at = "shop" /\ confirmed = FALSE
    /\ access = None /\ customer = FALSE
    /\ \E r \in Request : req = [q \in Request |-> IF q = r THEN Ask("read") ELSE Idle]
    /\ moves = 0
    /\ owed = {} /\ unmerged = {} /\ excused = {} /\ astray = FALSE /\ doubled = {} /\ refused = FALSE

---------------------------------------------------------------------------
(* The API *)

\* GET /cart: nothing is committed, neither the merge nor a new cart.
HandleRead(r) ==
    /\ req[r].pc = "sent" /\ req[r].kind = "read"
    /\ IF Broken(items, Cart(r)) THEN Refuse(r)
       ELSE req' = [req EXCEPT ![r].pc = "answered", ![r].answer = View(Settled(items, Cart(r)), Cart(r))]
    /\ UNCHANGED <<items, customerCart, moves>> /\ UNCHANGED page /\ UNCHANGED hist

Commit(r, its) ==
    /\ items' = its
    /\ customerCart' = (customerCart \/ Cart(r) = "customer")
    /\ Answer(r, View(its, Cart(r)))
    /\ astray' = (astray \/ ~req[r].heard)
    /\ UNCHANGED moves /\ UNCHANGED page

\* Another request has looked for a row of the same product and not yet written it.
Beside(r) == \E q \in Request \ {r} : req[q].pc = "found" /\ req[q].product = req[r].product

\* Variant: add_item does not look for a row of the product.
FindNothing(r) ==
    /\ req[r].pc = "sent" /\ req[r].kind = "add"
    /\ req' = [req EXCEPT ![r].pc = "found", ![r].found = None]
    /\ doubled' = IF Beside(r) THEN doubled \cup {req[r].product} ELSE doubled
    /\ UNCHANGED <<items, customerCart, moves, owed, unmerged, excused, astray, refused>> /\ UNCHANGED page

\* add_item: the row of the product is read without a lock ...
FindItem(r) ==
    LET its == Settled(items, Cart(r))
        row == Of(its, Cart(r), req[r].product)
        sum == Lesser(MAX_QUANTITY, req[r].quantity + MapThenSumSet(LAMBDA i : its[i].quantity, row))
    IN  /\ req[r].pc = "sent" /\ req[r].kind = "add"
        /\ IF Broken(items, Cart(r)) \/ Cardinality(row) > 1 \/ sum > Stock
           THEN Refuse(r)
           ELSE req' = [req EXCEPT ![r].pc = "found", ![r].quantity = sum,
                                   ![r].found = IF row = {} THEN None ELSE CHOOSE i \in row : TRUE]
        /\ doubled' = IF Beside(r) THEN doubled \cup {req[r].product} ELSE doubled
        /\ UNCHANGED <<items, customerCart, moves, owed, unmerged, excused, astray, refused>> /\ UNCHANGED page

\* ... and updated or inserted.  variant_id is NULL, and the unique constraint
\* holds two NULLs for different.
WriteItem(r) ==
    LET its == Settled(items, Cart(r))
    IN  /\ req[r].pc = "found"
        /\ IF req[r].found = None
           THEN \E i \in Rows(items, None) :
                   /\ Commit(r, [its EXCEPT ![i] = [cart |-> Cart(r), product |-> req[r].product, quantity |-> req[r].quantity]])
                   /\ unmerged' = unmerged \cup (Dropped(Cart(r)) \ {req[r].product})
           ELSE IF its[req[r].found].cart = Cart(r)
           THEN /\ Commit(r, [its EXCEPT ![req[r].found].quantity = req[r].quantity])
                /\ unmerged' = unmerged \cup Dropped(Cart(r))
           ELSE /\ Refuse(r)
                /\ UNCHANGED <<items, customerCart, moves, unmerged, astray>> /\ UNCHANGED page
        /\ UNCHANGED <<owed, excused, doubled, refused>>

\* update_item
HandleSet(r) ==
    LET its == Settled(items, Cart(r))
    IN  /\ req[r].pc = "sent" /\ req[r].kind = "set"
        /\ IF Broken(items, Cart(r)) \/ its[req[r].item].cart # Cart(r) \/ req[r].quantity \notin 1 .. Stock
           THEN Refuse(r) /\ UNCHANGED <<items, customerCart, moves, unmerged, astray>> /\ UNCHANGED page
           ELSE /\ Commit(r, [its EXCEPT ![req[r].item].quantity = req[r].quantity])
                /\ unmerged' = unmerged \cup Dropped(Cart(r))
        /\ UNCHANGED <<owed, excused, doubled, refused>>

\* Variant: the whole cart is deleted for one of its items.
RemoveAll(r) ==
    LET its == Settled(items, Cart(r))
    IN  /\ req[r].pc = "sent" /\ req[r].kind = "remove"
        /\ its[req[r].item].cart = Cart(r)
        /\ Commit(r, [i \in Item |-> IF its[i].cart = Cart(r) THEN Gone ELSE its[i]])
        /\ UNCHANGED <<owed, unmerged, excused, doubled, refused>>

\* remove_item
HandleRemove(r) ==
    LET its == Settled(items, Cart(r))
    IN  /\ req[r].pc = "sent" /\ req[r].kind = "remove"
        /\ IF Broken(items, Cart(r)) \/ its[req[r].item].cart # Cart(r)
           THEN Refuse(r) /\ UNCHANGED <<items, customerCart, moves, unmerged, astray>> /\ UNCHANGED page
           ELSE /\ Commit(r, [its EXCEPT ![req[r].item] = Gone])
                /\ unmerged' = unmerged \cup Dropped(Cart(r))
        /\ UNCHANGED <<owed, excused, doubled, refused>>

\* clear: for the page's clearCart, and for a removal of a line without an id,
\* which takes the rest of the cart with it.
HandleClear(r) ==
    LET its == Settled(items, Cart(r))
    IN  /\ req[r].pc = "sent" /\ req[r].kind = "clear"
        /\ IF Broken(items, Cart(r))
           THEN Refuse(r) /\ UNCHANGED <<items, customerCart, moves, unmerged, excused, astray>> /\ UNCHANGED page
           ELSE /\ Commit(r, [i \in Item |-> IF its[i].cart = Cart(r) THEN Gone ELSE its[i]])
                /\ unmerged' = unmerged \cup Dropped(Cart(r))
                /\ excused' = excused \cup (IF req[r].lost \/ astray THEN In(its, Cart(r)) ELSE {})
        /\ UNCHANGED <<owed, doubled, refused>>

\* Checkout, and _clear_cart_after_checkout, which merges nothing.
HandleCheckout(r) ==
    /\ req[r].pc = "sent" /\ req[r].kind = "checkout"
    /\ IF \E l \in req[r].lines : l.quantity > Stock
       THEN Refuse(r) /\ UNCHANGED <<items, owed, excused, astray>>
       ELSE /\ items' = [i \in Item |-> IF items[i].cart = Cart(r) THEN Gone ELSE items[i]]
            /\ Answer(r, {})
            /\ astray' = (astray \/ ~req[r].heard)
            /\ owed' = owed \ Products(req[r].lines)
            /\ excused' = IF req[r].lost \/ astray THEN excused \cup In(items, Cart(r)) ELSE excused
    /\ UNCHANGED <<customerCart, moves, unmerged, doubled, refused>> /\ UNCHANGED page

\* /auth/login denies a wrong password; /auth/me and /auth/orders want a good token.
HandleAuth(r) ==
    /\ req[r].pc = "sent" /\ req[r].kind \in {"login", "logout", "boot", "orders", "save", "who"}
    /\ \E pc \in {"answered", "denied"} :
          /\ req[r].kind # "login" => (pc = "answered" <=> req[r].kind = "logout" \/ req[r].access = "good")
          /\ req' = [req EXCEPT ![r].pc = pc]
    /\ UNCHANGED <<items, customerCart, moves>> /\ UNCHANGED page /\ UNCHANGED hist

---------------------------------------------------------------------------
(* The page *)

\* An order on its way does not have what is added from now on, and the clearing
\* of the cart after it takes that too.
Ordering == [q \in Request |-> IF req[q].kind \in {"checkout", "clear"} THEN [req[q] EXCEPT !.lost = TRUE] ELSE req[q]]

\* A line is added or grows at once; the quantity sent is what was added.
addToCart(r) ==
    /\ ~Active(r) /\ at = "shop" /\ ~confirmed /\ Moving
    /\ \E p \in Product :
          /\ shown' = IF p \in Products(shown)
                      THEN {IF l.product = p THEN [l EXCEPT !.quantity = @ + 1] ELSE l : l \in shown}
                      ELSE shown \cup {[product |-> p, quantity |-> 1, id |-> None]}
          /\ req' = [Ordering EXCEPT ![r] = [Ask("add") EXCEPT !.product = p, !.quantity = 1]]
    /\ UNCHANGED <<items, customerCart, at, confirmed, access, customer>> /\ UNCHANGED hist

\* The id is that of the first line of the product; without one the cart is cleared.
removeFromCart(r) ==
    /\ ~Active(r) /\ at = "shop" /\ ~confirmed /\ Moving
    /\ \E l \in shown :
          /\ shown' = {m \in shown : m.product # l.product}
          /\ req' = [req EXCEPT ![r] = IF l.id = None
                                       THEN [Ask("clear") EXCEPT !.lost = TRUE]
                                       ELSE [Ask("remove") EXCEPT !.item = l.id, !.product = l.product]]
          /\ owed' = owed \ {l.product}
    /\ UNCHANGED <<items, customerCart, at, confirmed, access, customer, unmerged, excused, astray, doubled, refused>>

\* CartDrawer steps by one.  A quantity of 0 takes the line off the page, and is
\* refused by the API; a line without an id is not sent.
setQuantity(r) ==
    /\ ~Active(r) /\ at = "shop" /\ ~confirmed /\ Moving
    /\ \E l \in shown : \E n \in {l.quantity - 1, l.quantity + 1} :
          /\ shown' = IF n = 0 THEN {m \in shown : m.product # l.product}
                      ELSE {IF m.product = l.product THEN [m EXCEPT !.quantity = n] ELSE m : m \in shown}
          /\ owed' = IF n = 0 THEN owed \ {l.product} ELSE owed
          /\ IF l.id = None
             THEN astray' = TRUE /\ UNCHANGED req
             ELSE req' = [req EXCEPT ![r] = [Ask("set") EXCEPT !.item = l.id, !.quantity = n]] /\ UNCHANGED astray
    /\ UNCHANGED <<items, customerCart, at, confirmed, access, customer, unmerged, excused, doubled, refused>>

\* The page has not been told all of the cart.
Unsure == astray \/ \E q \in Request : Active(q) /\ req[q].heard /\ req[q].kind = "read"

\* Products whose additions are on their way and that it does not show.
Unshown == {req[q].product : q \in {a \in Request : Active(a) /\ req[a].kind = "add"}} \ Products(shown)

\* CheckoutModal orders what is shown, with the cart's headers.
handleSubmit(r) ==
    /\ ~Active(r) /\ at = "shop" /\ ~confirmed /\ shown # {} /\ Moving
    /\ \A q \in Request : ~(Active(q) /\ req[q].heard /\ req[q].kind = "checkout")
    /\ req' = [req EXCEPT ![r] = [Ask("checkout") EXCEPT !.lines = shown, !.lost = Unsure]]
    /\ excused' = excused \cup Unshown
    /\ UNCHANGED <<items, customerCart, owed, unmerged, astray, doubled, refused>> /\ UNCHANGED page

\* handleContinue, and its clearCart.
handleContinue(r) ==
    /\ ~Active(r) /\ confirmed
    /\ confirmed' = FALSE /\ shown' = {}
    /\ req' = [req EXCEPT ![r] = [Ask("clear") EXCEPT !.lost = Unsure]]
    /\ owed' = owed \ Products(shown)
    /\ excused' = excused \cup Unshown
    /\ UNCHANGED <<items, customerCart, at, access, customer, moves, unmerged, astray, doubled, refused>>

\* StorefrontProvider is mounted: the cart it writes to storage is empty before the
\* stored one is read, so it starts empty; GET /cart follows.
Mount(r, reqs) ==
    /\ at' = "shop" /\ shown' = {} /\ confirmed' = FALSE /\ astray' = FALSE
    /\ req' = [reqs EXCEPT ![r] = Ask("read")]

\* The shop is opened or reloaded; with tokens the bootstrap asks who they are.
Reload(r) ==
    /\ ~Active(r) /\ Moving
    /\ customer' = FALSE
    /\ IF access = None THEN Mount(r, Abandoned)
       ELSE \E q \in Request \ {r} : ~Active(q) /\ Mount(r, [Abandoned EXCEPT ![q] = Ask("boot")])
    /\ UNCHANGED <<items, customerCart, access, owed, unmerged, excused, doubled, refused>>

\* The cart is unmounted; the session's provider, above every page, is not.
Left == [q \in Request |-> IF Active(q) /\ req[q].kind \in {"read", "add", "set", "remove", "clear", "checkout"}
                           THEN [req[q] EXCEPT !.heard = FALSE] ELSE req[q]]

\* The form of the login page, or of the register page, which does the same.
OpenLogin(r) ==
    /\ ~Active(r) /\ at = "shop" /\ ~confirmed /\ Moving
    /\ at' = "login" /\ shown' = {}
    /\ req' = [Left EXCEPT ![r] = Ask("login")]
    /\ UNCHANGED <<items, customerCart, confirmed, access, customer>> /\ UNCHANGED hist

\* The login form keeps the tokens and asks who has signed in.
KeepTokens(r) ==
    /\ req[r].pc = "answered" /\ req[r].kind = "login" /\ req[r].heard
    /\ access' = "good"
    /\ req' = [req EXCEPT ![r] = [Idle EXCEPT !.pc = "sent", !.kind = "who", !.access = "good"]]
    /\ UNCHANGED <<items, customerCart, shown, at, confirmed, customer, moves>> /\ UNCHANGED hist

\* ... shows the customer and returns to the shop.
SignIn(r) ==
    /\ req[r].pc = "answered" /\ req[r].kind = "who" /\ req[r].heard
    /\ customer' = TRUE
    /\ Mount(r, req)
    /\ UNCHANGED <<items, customerCart, access, moves, owed, unmerged, excused, doubled, refused>>

logout(r) ==
    /\ ~Active(r) /\ at # "login" /\ ~confirmed /\ customer /\ Moving
    /\ \A q \in Request : ~(Active(q) /\ req[q].kind = "logout")
    /\ IF access = None
       THEN customer' = FALSE /\ UNCHANGED req
       ELSE req' = [req EXCEPT ![r] = Ask("logout")] /\ UNCHANGED customer
    /\ UNCHANGED <<items, customerCart, shown, at, confirmed, access>> /\ UNCHANGED hist

Signing(r) == \E q \in Request \ {r} : Active(q) /\ req[q].heard /\ req[q].kind \in {"login", "who", "boot", "save"}

\* Variant: the customer goes on being shown.
SignOutTokens(r) ==
    /\ req[r].kind = "logout" /\ req[r].pc \in {"sent", "answered"} /\ req[r].heard
    /\ access' = None /\ astray' = TRUE
    /\ req' = [req EXCEPT ![r] = Idle]
    /\ UNCHANGED <<items, customerCart, shown, at, confirmed, customer, moves, owed, unmerged, excused, doubled, refused>>

\* The tokens of now go, whatever came of the request; the cart stays as it is shown.
SignOut(r) ==
    /\ req[r].kind = "logout" /\ req[r].pc \in {"sent", "answered"} /\ req[r].heard
    /\ access' = None /\ customer' = FALSE /\ astray' = TRUE
    /\ refused' = (refused \/ Signing(r))
    /\ req' = [req EXCEPT ![r] = Idle]
    /\ UNCHANGED <<items, customerCart, shown, at, confirmed, moves, owed, unmerged, excused, doubled>>

\* The orders of the account.
OpenAccount(r) ==
    /\ ~Active(r) /\ at = "shop" /\ ~confirmed /\ customer /\ Moving
    /\ at' = "account" /\ shown' = {}
    /\ req' = [Left EXCEPT ![r] = Ask("orders")]
    /\ UNCHANGED <<items, customerCart, confirmed, access, customer>> /\ UNCHANGED hist

\* Its profile: updateProfile.
handleSaveProfile(r) ==
    /\ ~Active(r) /\ at = "account" /\ customer /\ Moving
    /\ req' = [req EXCEPT ![r] = Ask("save")]
    /\ UNCHANGED <<items, customerCart>> /\ UNCHANGED page /\ UNCHANGED hist

BackToStore(r) ==
    /\ ~Active(r) /\ at = "account" /\ Moving
    /\ Mount(r, req)
    /\ UNCHANGED <<items, customerCart, access, customer, owed, unmerged, excused, doubled, refused>>

\* An answer about the customer; the bootstrap and the profile show it.
ShowCustomer(r) ==
    /\ req[r].pc = "answered" /\ req[r].kind \in {"boot", "orders", "save"} /\ req[r].heard
    /\ customer' = (customer \/ req[r].kind # "orders")
    /\ req' = [req EXCEPT ![r] = Idle]
    /\ UNCHANGED <<items, customerCart, shown, at, confirmed, access, moves>> /\ UNCHANGED hist

\* 401: the refresh is sent to the path of the request without its last segment,
\* which for all that want a token is /auth/auth/refresh, so it is never found;
\* the tokens of now are cleared.  Who is shown stays, but for the bootstrap.
\* A bootstrap that fails for any other reason clears them too.
Denied(r) ==
    /\ req[r].pc = "denied" \/ (req[r].kind = "boot" /\ req[r].pc \in {"sent", "answered"})
    /\ req[r].kind \in {"boot", "orders", "save"} /\ req[r].heard
    /\ access' = None /\ refused' = TRUE
    /\ astray' = (astray \/ access = "good")
    /\ req' = [req EXCEPT ![r] = Idle]
    /\ UNCHANGED <<items, customerCart, shown, at, confirmed, customer, moves, owed, unmerged, excused, doubled>>

\* Variant: an answer adds what is missing to the shown cart.
ShowCartAdding(r) ==
    /\ req[r].pc = "answered" /\ req[r].kind \in {"add", "set", "remove", "clear"} /\ req[r].heard
    /\ shown' = req[r].answer \cup {l \in shown : l.product \notin Products(req[r].answer)}
    /\ astray' = (req[r].old \/ Cart(r) # Serving)
    /\ req' = [req EXCEPT ![r] = Idle]
    /\ UNCHANGED <<items, customerCart, at, confirmed, access, customer, moves, owed, unmerged, excused, doubled, refused>>

\* No other request in flight takes anything from the cart.
Keeping(r) == \A q \in Request \ {r} : ~(Active(q) /\ req[q].kind \in {"set", "remove", "clear", "checkout"})

Confirmed(r) == IF ~req[r].old /\ Keeping(r) THEN owed \cup Products(req[r].answer) ELSE owed

\* An answer of the cart replaces the cart shown.
ShowCart(r) ==
    /\ req[r].pc = "answered" /\ req[r].kind \in {"add", "set", "remove", "clear"} /\ req[r].heard
    /\ shown' = req[r].answer
    /\ astray' = (req[r].old \/ Cart(r) # Serving)
    /\ owed' = Confirmed(r)
    /\ req' = [req EXCEPT ![r] = Idle]
    /\ UNCHANGED <<items, customerCart, at, confirmed, access, customer, moves, unmerged, excused, doubled, refused>>

\* The first answer is merged: the lines of the API, then those it lacks.
syncFromServer(r) ==
    /\ req[r].pc = "answered" /\ req[r].kind = "read" /\ req[r].heard
    /\ shown' = req[r].answer \cup {l \in shown : l.product \notin Products(req[r].answer)}
    /\ astray' = (astray \/ req[r].old \/ Cart(r) # Serving)
    /\ owed' = Confirmed(r)
    /\ req' = [req EXCEPT ![r] = Idle]
    /\ UNCHANGED <<items, customerCart, at, confirmed, access, customer, moves, unmerged, excused, doubled, refused>>

ShowOrder(r) ==
    /\ req[r].pc = "answered" /\ req[r].kind = "checkout" /\ req[r].heard
    /\ confirmed' = TRUE
    /\ req' = [req EXCEPT ![r] = Idle]
    /\ UNCHANGED <<items, customerCart, shown, at, access, customer, moves>> /\ UNCHANGED hist

\* An error, of the API or of the network, leaves what was shown ahead of it.
KeepShown(r) ==
    /\ req[r].pc \in {"sent", "answered", "failed"} /\ req[r].heard
    /\ req[r].kind \in {"read", "add", "set", "remove", "clear", "checkout", "orders", "save"}
    /\ astray' = TRUE
    /\ req' = [req EXCEPT ![r] = Idle]
    /\ UNCHANGED <<items, customerCart, moves, owed, unmerged, excused, doubled, refused>> /\ UNCHANGED page

\* The form shows the error, and may be sent again.
LoginFails(r) ==
    /\ req[r].kind \in {"login", "who"} /\ req[r].pc \in {"sent", "answered", "denied"} /\ req[r].heard
    /\ req[r].pc = "denied" => req[r].access = None
    /\ Moving
    /\ req' = [req EXCEPT ![r] = Ask("login")]
    /\ UNCHANGED <<items, customerCart>> /\ UNCHANGED page /\ UNCHANGED hist

\* A wrong password is a 401 too: sent with tokens, it takes those of now before
\* the form shows the error.
LoginDenied(r) ==
    /\ req[r].kind = "login" /\ req[r].pc = "denied" /\ req[r].access # None /\ req[r].heard
    /\ Moving
    /\ access' = None /\ refused' = TRUE
    /\ astray' = (astray \/ access = "good")
    /\ req' = [req EXCEPT ![r] = [Ask("login") EXCEPT !.access = None]]
    /\ UNCHANGED <<items, customerCart, shown, at, confirmed, customer, owed, unmerged, excused, doubled>>

Unheard(r) ==
    /\ ~req[r].heard /\ req[r].pc \in {"answered", "failed", "denied"}
    /\ req' = [req EXCEPT ![r] = Idle]
    /\ UNCHANGED <<items, customerCart, moves>> /\ UNCHANGED page /\ UNCHANGED hist

\* The access token expires: the API takes its bearer for a guest.
Expire ==
    /\ access = "good" /\ Moving
    /\ access' = "stale" /\ astray' = TRUE
    /\ UNCHANGED <<items, customerCart, shown, at, confirmed, customer, req, owed, unmerged, excused, doubled, refused>>

Next ==
    \/ Expire
    \/ \E r \in Request :
          \/ HandleRead(r) \/ FindItem(r) \/ WriteItem(r) \/ HandleSet(r)
          \/ HandleRemove(r) \/ HandleClear(r) \/ HandleCheckout(r) \/ HandleAuth(r)
          \/ addToCart(r) \/ removeFromCart(r) \/ setQuantity(r)
          \/ handleSubmit(r) \/ handleContinue(r) \/ Reload(r)
          \/ OpenLogin(r) \/ KeepTokens(r) \/ SignIn(r) \/ LoginFails(r) \/ LoginDenied(r)
          \/ logout(r) \/ SignOut(r) \/ OpenAccount(r) \/ handleSaveProfile(r)
          \/ BackToStore(r) \/ ShowCustomer(r) \/ Denied(r)
          \/ ShowCart(r) \/ syncFromServer(r) \/ ShowOrder(r) \/ KeepShown(r) \/ Unheard(r)

Spec == Init /\ [][Next]_vars

---------------------------------------------------------------------------
\* What the shopper has seen confirmed stays in a cart until it is removed or
\* ordered.  It may be lost only where a line without an id is removed, where a
\* guest's cart is merged into the customer's, and where the page orders less than
\* the API then clears: it has gone astray or waits for GET /cart (Unsure), an item
\* on its way is not shown (Unshown), or an item is added meanwhile.
KeptUntilRemoved == owed \ (excused \cup unmerged) \subseteq In(items, "guest") \cup In(items, "customer")

\* A cart has one row for a product (uq_cart_items_cart_product_variant), unless
\* two requests that add it, both without a variant, have overlapped.
OneRowPerProduct ==
    \A c \in {"guest", "customer"}, p \in Product \ doubled : Cardinality(Of(items, c, p)) <= 1

\* Once every request has been answered, the page shows the cart that the API
\* would serve, unless a request failed, an older answer came last, or the
\* identity of the shopper changed under the page.
ShownIsServed ==
    Quiet /\ at = "shop" /\ ~confirmed /\ ~astray => shown = View(Settled(items, Serving), Serving)

\* "Headers identifying the shopper: customer JWT when logged in" (customer-auth.tsx):
\* a shopper who is shown as signed in holds tokens, until a 401 or a failed
\* bootstrap has cleared them, or a logout was answered amid a login, a bootstrap or
\* a change of the profile.
SignedInHoldsTokens == customer /\ ~refused => access # None

\* "a logged-in customer's cart can absorb items from a pre-login guest cart"
\* (cart_service.py): what a merge has dropped was not confirmed to the shopper.
AbsorbsGuestCart == owed \cap unmerged \subseteq In(items, "guest") \cup In(items, "customer")
=============================================================================
