CONSTANTS
  p1 = p1
  p2 = p2
  v1 = v1
  Products = {p1, p2}
  Variants = {v1}
  ParentOf <- mcParentOf
  Requests = {r1, r2, r3}
  PriorOrders = {o1}
  PurchaseOrders = {d1}
  Kinds = {"create", "cancel", "delete", "receive"}
  Baskets <- mcMixedBaskets
  Deliveries <- mcDeliveries
  Adjustments <- mcAdjustments
  Edits <- mcEdits
  InitialStock <- mcScarceStock
  LowThreshold = 0
  Crashes = TRUE
  NoOne = NoOne
SPECIFICATION Spec
INVARIANTS StockNonNegative OrderEventsMatchOrders SafeRowsFollowLedger InductiveInv
PROPERTIES ImplementsAtomicInventory
