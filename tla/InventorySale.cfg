CONSTANTS
  p1 = p1
  p2 = p2
  v1 = v1
  Products = {p1, p2}
  Variants = {v1}
  ParentOf <- mcParentOf
  Requests = {r1, r2, r3}
  PriorOrders = {}
  PurchaseOrders = {}
  Kinds = {"create", "adjust", "edit"}
  Baskets <- mcBaskets
  Deliveries <- mcDeliveries
  Adjustments <- mcAdjustments
  Edits <- mcEdits
  InitialStock <- mcScarceStock
  LowThreshold = 0
  Crashes = FALSE
  NoOne = NoOne
SPECIFICATION FairSpec
INVARIANTS TypeOK LowStockAnnounced
PROPERTIES EveryRequestEnds
