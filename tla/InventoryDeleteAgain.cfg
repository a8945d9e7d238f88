CONSTANTS
  p1 = p1
  p2 = p2
  v1 = v1
  Products = {p1, p2}
  Variants = {v1}
  ParentOf <- mcParentOf
  Requests = {r1, r2}
  PriorOrders = {o1}
  PurchaseOrders = {}
  Kinds = {"delete"}
  Baskets <- mcBaskets
  Deliveries <- mcDeliveries
  Adjustments <- mcAdjustments
  Edits <- mcEdits
  InitialStock <- mcInitialStock
  LowThreshold = 0
  Crashes = FALSE
  NoOne = NoOne
SPECIFICATION Spec
INVARIANTS PostedOnce
