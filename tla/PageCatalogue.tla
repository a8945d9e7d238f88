--------------------------- MODULE PageCatalogue ---------------------------
(* The pages of the back office as records for BackOffice: how a page loads its
   list, what its buttons and forms offer to whom, how its handlers wait, and
   what the endpoints they call accept.  A page's table and its endpoint are
   written in different languages by different hands; here they meet.       *)
EXTENDS TLC

CONSTANT None

Absent == "absent"
Gone   == "gone"

To(from, to) == [st \in from |-> to]     \* an endpoint: accepted statuses, and what they become

\* A button: who sees it, on rows of which status, in the table or in the panel.
Button(permission, from, place) == [shown |-> permission, from |-> from, place |-> place]
InRow(permission, from)         == Button(permission, from, "row")
Field(permission, from)         == Button(permission, from, "form")

\* A handler: the mark that keeps its button from being pressed again, and
\* whether it reads the list again when the API has answered.
Handler(busy, reloads) == [busy |-> busy, reloads |-> reloads]

\* An endpoint: the permission of require_permissions, the transitions, and its
\* rules about anything but the row's status, by the error code they answer with.
Checked(permission, to, rules) == [needs |-> permission, to |-> to, rules |-> rules]
Endpoint(permission, to)       == Checked(permission, to, {})

Op(name, button, handler, endpoint) == [name |-> name] @@ button @@ handler @@ endpoint

\* The parts of an operation stand under its name in the records of its page.
Ops(names, table, handlers, api) == {Op(n, table[n], handlers[n], api[n]) : n \in names}

\* useList: a query of filters, sort and page; an effect that ignores the answer
\* of the request before; DataTable shows the error instead of the rows, which it
\* finds in the items of the answer.
UseList(read) ==
    [read |-> read, cancels |-> TRUE, queries |-> {1, 2}, rowsFound |-> TRUE,
     errorHides |-> TRUE, clearsError |-> TRUE, asserts |-> FALSE]

\* A load() of the page's own: setError(null), one GET, no cancellation.
Load(read) ==
    [read |-> read, cancels |-> FALSE, queries |-> {1}, rowsFound |-> TRUE,
     errorHides |-> TRUE, clearsError |-> FALSE, asserts |-> FALSE]

\* Modals of a page without forms, panels or images.
NoModal == [create |-> None, edit |-> None, panel |-> None, uploads |-> FALSE, blames |-> FALSE]

\* The form of a Modal: openCreate or openEdit, validate, and one save for both;
\* what validate lets through, the schema of the request may still refuse.
SaveForm == Handler(None, TRUE)
FormOp(name, table, api) ==
    [Op(name, table[name], SaveForm, api[name]) EXCEPT !.rules = @ \cup {"VALIDATION_ERROR"}]

\* The form of the Modal shows the message of a failed save under a field.
Form(create, edit) == [NoModal EXCEPT !.create = create, !.edit = edit, !.blames = TRUE]

Page(name, statuses, outside, loading, modal, ops) ==
    [name |-> name, statuses |-> statuses, outside |-> outside, ops |-> ops] @@ loading @@ modal

\* SYSTEM_ROLE_PERMISSIONS, as far as the pages ask for them; owner and admin
\* have them all.
Manager == {"products.read", "products.create", "products.update", "products.delete", "customers.read",
            "customers.create", "customers.update", "orders.read", "orders.create", "orders.update",
            "inventory.read", "inventory.update", "sellers.read", "sellers.create", "sellers.update",
            "suppliers.read", "suppliers.create", "suppliers.update", "analytics.read", "settings.read"}
Owner   == Manager \cup {"customers.delete", "sellers.delete", "suppliers.delete", "settings.update", "audit.read",
                         "users.read", "users.create", "users.update", "users.delete"}
Seller  == {"orders.read", "orders.create", "orders.update", "products.read", "customers.read", "sellers.read",
            "analytics.read"}
Viewer  == {"orders.read", "products.read", "customers.read", "sellers.read", "inventory.read", "analytics.read"}
RolePermissions == {Owner, Manager, Seller, Viewer}

---------------------------------------------------------------------------
(* Orders *)

OrderStatuses == {"pending", "confirmed", "processing", "shipped", "delivered", "cancelled"}

OrderList == UseList("orders.read")

\* nextStatuses.
OffersOrder(target) ==
    CASE target = "confirmed"  -> {"pending"}
      [] target = "processing" -> {"pending", "confirmed"}
      [] target = "shipped"    -> {"processing"}
      [] target = "delivered"  -> {"shipped"}
      [] target = "cancelled"  -> OrderStatuses \ {"delivered", "cancelled"}

\* STATUS_TRANSITIONS, and the target itself, which changes nothing.
AcceptsOrder(target) ==
    {target} \cup CASE target = "confirmed"  -> {"pending"}
                    [] target = "processing" -> {"confirmed"}
                    [] target = "shipped"    -> {"processing"}
                    [] target = "delivered"  -> {"shipped"}
                    [] target = "cancelled"  -> {"pending", "confirmed", "processing", "shipped"}
                    [] OTHER                 -> {}

\* The select of a row and the buttons of the panel.
OrderTable(target) == Button("orders.update", OffersOrder(target), "both")

\* updateStatus: updatingId only changes a label.  A user who is linked to a
\* seller may change that seller's orders only, whichever the page lists.
UpdateStatus(target) ==
    Op(target, OrderTable(target), Handler(None, TRUE),
       Checked("orders.update", To(AcceptsOrder(target), {target}), {"PERMISSION_DENIED"}))

\* The select of the panel and updatePayment.
OrderPanel == Button("orders.update", OrderStatuses, "panel")
UpdatePayment ==
    Op("payment", OrderPanel, Handler(None, TRUE),
       Endpoint("orders.update", [st \in OrderStatuses |-> {st}]))

OrderRules  == {"PLAN_LIMIT", "SELLER_NOT_LINKED", "SELLER_NOT_FOUND", "CUSTOMER_NOT_FOUND", "PRODUCT_NOT_FOUND",
                "INSUFFICIENT_STOCK", "VALIDATION_ERROR"}
OrderCreate ==
    Op("create", Field("orders.create", {Absent}), Handler(None, TRUE),
       Checked("orders.create", To({Absent}, {"pending"}), OrderRules))

OrderModals == [Form(OrderCreate, None) EXCEPT !.panel = [shown |-> None]]

Orders ==
    Page("orders", OrderStatuses,
         {To({Absent}, {"pending"}), To(AcceptsOrder("cancelled"), {"cancelled"})},
         OrderList, OrderModals,
         {UpdateStatus(target) : target \in OrderStatuses \ {"pending"}} \cup {UpdatePayment})

---------------------------------------------------------------------------
(* Records that are created, edited and deactivated or deleted *)

ActiveOrNot == {"active", "inactive"}

ProductList  == UseList("products.read")
ProductTable == [create |-> Field("products.create", {Absent}), edit |-> Field("products.update", ActiveOrNot),
                 deactivate |-> InRow("products.delete", {"active"})]
ProductRules == {"SKU_TAKEN", "VARIANT_SKU_TAKEN", "BRAND_NOT_FOUND", "CATEGORY_NOT_FOUND"}
ProductApi   == [create |-> Checked("products.create", To({Absent}, ActiveOrNot), ProductRules \cup {"PLAN_LIMIT"}),
                 edit |-> Checked("products.update", To(ActiveOrNot, ActiveOrNot), ProductRules),
                 deactivate |-> Endpoint("products.delete", To(ActiveOrNot, {"inactive"}))]
ProductModal == [Form(FormOp("create", ProductTable, ProductApi), FormOp("edit", ProductTable, ProductApi))
                     EXCEPT !.uploads = TRUE]
ProductHandlers == [deactivate |-> Handler("row", TRUE)]
\* Orders, adjustments and purchases change the stock shown.
Products == Page("products", ActiveOrNot, {[st \in ActiveOrNot |-> {st}]}, ProductList, ProductModal,
                 Ops({"deactivate"}, ProductTable, ProductHandlers, ProductApi))

\* A row is the stock of a product; an adjustment is a form opened on it.
StockList  == UseList("inventory.read")
StockTable == [adjust |-> Field("inventory.update", {"stocked"})]
StockApi   == [adjust |-> Checked("inventory.update", To({"stocked"}, {"stocked"}), {"INSUFFICIENT_STOCK"})]
AdjustForm == Form(None, FormOp("adjust", StockTable, StockApi))
Stock == Page("inventory", {"stocked"}, {To({"stocked"}, {"stocked"})}, StockList, AdjustForm, {})

SupplierList  == UseList("suppliers.read")
SupplierTable == [create |-> Field("suppliers.create", {Absent}), edit |-> Field("suppliers.update", ActiveOrNot),
                  delete |-> InRow("suppliers.delete", ActiveOrNot)]
SupplierApi   == [create |-> Checked("suppliers.create", To({Absent}, ActiveOrNot), {"EMAIL_TAKEN"}),
                  edit |-> Endpoint("suppliers.update", To(ActiveOrNot, ActiveOrNot)),
                  delete |-> Endpoint("suppliers.delete", To(ActiveOrNot, {Gone}))]
SupplierModal == Form(FormOp("create", SupplierTable, SupplierApi), FormOp("edit", SupplierTable, SupplierApi))
\* window.confirm, then the request; nothing marks the button.
SupplierHandlers == [delete |-> Handler(None, TRUE)]
Suppliers == Page("suppliers", ActiveOrNot, {}, SupplierList, SupplierModal,
                  Ops({"delete"}, SupplierTable, SupplierHandlers, SupplierApi))

CustomerList  == UseList("customers.read")
CustomerTable == [create |-> Field("customers.create", {Absent}), edit |-> Field("customers.update", {"known"})]
CustomerApi   == [create |-> Checked("customers.create", To({Absent}, {"known"}), {"EMAIL_TAKEN"}),
                  edit |-> Endpoint("customers.update", To({"known"}, {"known"}))]
CustomerModal == Form(FormOp("create", CustomerTable, CustomerApi), FormOp("edit", CustomerTable, CustomerApi))
\* Customers register in the storefront; their orders change the totals shown.
Customers == Page("customers", {"known"}, {To({Absent, "known"}, {"known"})}, CustomerList, CustomerModal, {})

SellerList  == UseList("sellers.read")
SellerTable == [create |-> Field("sellers.create", {Absent}), edit |-> Field("sellers.update", ActiveOrNot),
                deactivate |-> InRow("sellers.delete", {"active"})]
SellerApi   == [create |-> Checked("sellers.create", To({Absent}, ActiveOrNot), {"EMAIL_TAKEN"}),
                edit |-> Endpoint("sellers.update", To(ActiveOrNot, ActiveOrNot)),
                deactivate |-> Endpoint("sellers.delete", To(ActiveOrNot, {"inactive"}))]
SellerModal == Form(FormOp("create", SellerTable, SellerApi), FormOp("edit", SellerTable, SellerApi))
SellerHandlers == [deactivate |-> Handler("row", TRUE)]
Sellers == Page("sellers", ActiveOrNot, {[st \in ActiveOrNot |-> {st}]}, SellerList, SellerModal,
                Ops({"deactivate"}, SellerTable, SellerHandlers, SellerApi))

\* No filters: the query of the list never changes.  GET /shipping-methods answers
\* a plain list where useList expects a page with items: the table stays empty.
ShippingList  == [UseList("settings.read") EXCEPT !.queries = {1}, !.rowsFound = FALSE]
ShippingTable == [create |-> Field("settings.update", {Absent}), edit |-> Field("settings.update", ActiveOrNot),
                  delete |-> InRow("settings.update", ActiveOrNot)]
NameTaken     == {"SHIPPING_METHOD_NAME_TAKEN"}
ShippingApi   == [create |-> Checked("settings.update", To({Absent}, ActiveOrNot), NameTaken),
                  edit |-> Checked("settings.update", To(ActiveOrNot, ActiveOrNot), NameTaken),
                  delete |-> Endpoint("settings.update", To(ActiveOrNot, {Gone}))]
ShippingModal == Form(FormOp("create", ShippingTable, ShippingApi), FormOp("edit", ShippingTable, ShippingApi))
ShippingHandlers == [delete |-> Handler(None, TRUE)]
Shipping == Page("shipping", ActiveOrNot, {}, ShippingList, ShippingModal,
                 Ops({"delete"}, ShippingTable, ShippingHandlers, ShippingApi))

\* fetchTree leaves the error until the answer is there.  The tree holds only
\* active categories.
CategoryList  == [Load("products.read") EXCEPT !.clearsError = TRUE]
CategoryTable == [create |-> Field("products.create", {Absent}), edit |-> Field("products.update", {"active"}),
                  delete |-> InRow("products.delete", {"active"})]
\* Where a category stands in the tree, and what hangs on it.
CategoryRules == [create |-> {"CATEGORY_NOT_FOUND"},
                  edit   |-> {"CATEGORY_NOT_FOUND", "CATEGORY_SELF_PARENT", "CATEGORY_CYCLE"},
                  delete |-> {"CATEGORY_HAS_CHILDREN", "CATEGORY_HAS_PRODUCTS"}]
CategoryApi   == [create |-> Checked("products.create", To({Absent}, ActiveOrNot), CategoryRules.create),
                  edit |-> Checked("products.update", To(ActiveOrNot, ActiveOrNot), CategoryRules.edit),
                  delete |-> Checked("products.delete", To(ActiveOrNot, {Gone}), CategoryRules.delete)]
CategoryModal == Form(FormOp("create", CategoryTable, CategoryApi), FormOp("edit", CategoryTable, CategoryApi))
CategoryHandlers == [delete |-> Handler(None, TRUE)]
Categories == Page("categories", ActiveOrNot, {}, CategoryList, CategoryModal,
                   Ops({"delete"}, CategoryTable, CategoryHandlers, CategoryApi))

---------------------------------------------------------------------------
(* Team *)

Members == {"invited", "active", "suspended"}

UserList  == UseList("users.read")
\* The rows are the members other than the user and the owner.
UserTable == [invite     |-> Field("users.create", {Absent}),
              role       |-> InRow("users.update", Members),
              resend     |-> InRow("users.create", {"invited"}),
              suspend    |-> InRow("users.update", {"active"}),
              reactivate |-> InRow("users.update", {"suspended"}),
              remove     |-> InRow("users.delete", {"invited"})]
\* toggleActive sends the opposite of the is_active it has seen; the confirmation
\* of a removal is one dialog with one flag.
UserHandlers == [role       |-> Handler(None, TRUE),
                 resend     |-> Handler(None, FALSE),
                 suspend    |-> Handler(None, TRUE),
                 reactivate |-> Handler(None, TRUE),
                 remove     |-> Handler("page", TRUE)]
Invite == Checked("users.create", To({Absent}, {"invited"}), {"PLAN_LIMIT", "EMAIL_TAKEN", "INVALID_ROLE"})
SetActive(st) == Endpoint("users.update", To({"active", "suspended"}, {st}) @@ To({"invited"}, {"invited"}))
UserApi == [invite     |-> Invite,
            role       |-> Checked("users.update", [st \in Members |-> {st}], {"INVALID_ROLE"}),
            resend     |-> Endpoint("users.create", To({"invited"}, {"invited"})),
            suspend    |-> SetActive("suspended"),
            reactivate |-> SetActive("active"),
            remove     |-> Endpoint("users.delete", To({"active", "suspended"}, {"suspended"}) @@ To({"invited"}, {Gone}))]
UserModal == Form(FormOp("invite", UserTable, UserApi), None)
Users == Page("users", Members, {To({"invited"}, {"active"})}, UserList, UserModal,
              Ops({"role", "resend", "suspend", "reactivate", "remove"}, UserTable, UserHandlers, UserApi))

---------------------------------------------------------------------------
(* Pages that load for themselves *)

\* The list of refunds and returns: two GETs in one Promise.all, and a table
\* that is rendered behind the error, when it asserts that there are rows.
RefundList == [Load("orders.read") EXCEPT !.errorHides = FALSE, !.asserts = TRUE]

Returns == {"pending", "approved", "received", "completed", "rejected"}
Refunds == {"refund pending", "refund processed", "refund failed"}

ReturnTable == [approve  |-> InRow("orders.update", {"pending"}),
                reject   |-> InRow("orders.update", {"pending"}),
                receive  |-> InRow("orders.update", {"approved"}),
                complete |-> InRow("orders.update", {"received"})]
ReturnHandlers == [action \in DOMAIN ReturnTable |-> Handler("op", TRUE)]
ReturnApi   == [approve  |-> Endpoint("orders.update", To({"pending"}, {"approved"})),
                reject   |-> Endpoint("orders.update", To({"pending"}, {"rejected"})),
                receive  |-> Endpoint("orders.update", To({"approved"}, {"received"})),
                complete |-> Endpoint("orders.update", To({"received"}, {"completed"}))]
RefundTable == [refund  |-> Field("orders.update", {Absent}),
                process |-> InRow("orders.update", {"refund pending"}),
                fail    |-> InRow("orders.update", {"refund pending"})]
RefundHandlers == [action \in {"process", "fail"} |-> Handler("op", TRUE)]
RefundApi   == [refund  |-> Checked("orders.update", To({Absent}, {"refund pending"}),
                                       {"ORDER_NOT_FOUND", "REFUND_EXCEEDS_ORDER"}),
                process |-> Endpoint("orders.update", To({"refund pending", "refund failed"}, {"refund processed"})),
                fail    |-> Endpoint("orders.update", To(Refunds, {"refund failed"}))]
\* createRefund only toasts the error.
RefundModal == [Form(FormOp("refund", RefundTable, RefundApi), None) EXCEPT !.blames = FALSE]
ReturnsAndRefunds ==
    Page("refunds", Returns \cup Refunds, {To({Absent}, {"pending"})}, RefundList, RefundModal,
         Ops({"approve", "reject", "receive", "complete"}, ReturnTable, ReturnHandlers, ReturnApi)
           \cup Ops({"process", "fail"}, RefundTable, RefundHandlers, RefundApi))

PurchaseStatuses == {"draft", "ordered", "received", "cancelled"}

PurchaseList  == Load("inventory.read")
PurchaseTable == [create    |-> Field("inventory.update", {Absent}),
                  ordered   |-> InRow("inventory.update", {"draft"}),
                  received  |-> InRow("inventory.update", {"ordered"}),
                  cancelled |-> InRow("inventory.update", {"draft", "ordered"}),
                  delete    |-> InRow("inventory.update", {"draft", "ordered"})]
PurchaseHandlers == [action \in {"ordered", "received", "cancelled", "delete"} |-> Handler("op", TRUE)]
\* PO_TRANSITIONS, and delete_po.
PurchaseApi   == [create    |-> Checked("inventory.update", To({Absent}, {"draft"}), {"SUPPLIER_NOT_FOUND", "PRODUCT_NOT_FOUND"}),
                  ordered   |-> Endpoint("inventory.update", To({"draft"}, {"ordered"})),
                  received  |-> Endpoint("inventory.update", To({"ordered"}, {"received"})),
                  cancelled |-> Endpoint("inventory.update", To({"draft", "ordered"}, {"cancelled"})),
                  delete    |-> Endpoint("inventory.update", To(PurchaseStatuses \ {"received"}, {Gone}))]
PurchaseModal == Form(FormOp("create", PurchaseTable, PurchaseApi), None)
PurchaseOrders ==
    Page("purchase-orders", PurchaseStatuses, {}, PurchaseList, PurchaseModal,
         Ops({"ordered", "received", "cancelled", "delete"}, PurchaseTable, PurchaseHandlers, PurchaseApi))

WebhookList  == Load("settings.read")
WebhookTable == [create |-> Field("settings.update", {Absent}), edit |-> Field("settings.update", ActiveOrNot),
                 test   |-> InRow("settings.update", ActiveOrNot),
                 delete |-> InRow("settings.update", ActiveOrNot)]
WebhookHandlers == [test |-> Handler("row", FALSE), delete |-> Handler(None, TRUE)]
BadEvents    == {"WEBHOOK_INVALID_EVENTS"}
WebhookApi   == [create |-> Checked("settings.update", To({Absent}, ActiveOrNot), BadEvents),
                 edit   |-> Checked("settings.update", To(ActiveOrNot, ActiveOrNot), BadEvents),
                 test   |-> Endpoint("settings.update", [st \in ActiveOrNot |-> {st}]),
                 delete |-> Endpoint("settings.update", To(ActiveOrNot, {Gone}))]
WebhookForm  == Form(FormOp("create", WebhookTable, WebhookApi), FormOp("edit", WebhookTable, WebhookApi))
\* The panel of the last deliveries of an endpoint, behind the same permission.
DeliveryPanel == [shown |-> "settings.update"]
Webhooks ==
    Page("webhooks", ActiveOrNot, {[st \in ActiveOrNot |-> {st}]}, WebhookList, [WebhookForm EXCEPT !.panel = DeliveryPanel],
         Ops({"test", "delete"}, WebhookTable, WebhookHandlers, WebhookApi))

Keys == {"active", "revoked"}

KeyList  == Load("settings.read")
KeyTable == [create   |-> Field("settings.update", {Absent}),
             revoke   |-> InRow("settings.update", {"active"}),
             activate |-> InRow("settings.update", {"revoked"}),
             delete   |-> InRow("settings.update", Keys)]
\* toggleActive sends the opposite of the is_active it has seen.
KeyHandlers == [revoke |-> Handler("row", TRUE), activate |-> Handler("row", TRUE), delete |-> Handler(None, TRUE)]
\* _get_key keeps the keys of another member from everyone but that member; the
\* page lists them all and offers the same buttons on each.
OthersKey(to) == Checked("settings.update", to, {"API_KEY_NOT_FOUND"})
KeyApi   == [create   |-> Checked("settings.update", To({Absent}, {"active"}), {"API_KEY_INVALID_SCOPES"}),
             revoke   |-> OthersKey(To(Keys, {"revoked"})),
             activate |-> OthersKey(To(Keys, {"active"})),
             delete   |-> OthersKey(To(Keys, {Gone}))]
KeyModal == Form(FormOp("create", KeyTable, KeyApi), None)
ApiKeys == Page("api-keys", Keys, {[st \in Keys |-> {st}]}, KeyList, KeyModal,
                Ops({"revoke", "activate", "delete"}, KeyTable, KeyHandlers, KeyApi))

---------------------------------------------------------------------------
(* Pages that only show *)

AuditList == UseList("audit.read")
AuditLog  == Page("audit", {"logged"}, {To({Absent}, {"logged"})}, AuditList, NoModal, {})

\* One query per range of dates.
Figures   == UseList("analytics.read")
Dashboard == Page("dashboard", {"figures"}, {To({"figures"}, {"figures"})}, Figures, NoModal, {})

Catalogue == {Orders, Products, Stock, Suppliers, Customers, Sellers, Shipping, Categories, Users,
              ReturnsAndRefunds, PurchaseOrders, Webhooks, ApiKeys, AuditLog, Dashboard}
=============================================================================
