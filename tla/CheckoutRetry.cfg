CONSTANTS
  d1 = d1
  d2 = d2
  c = c
  a = a
  kd1 = kd1
  kd2 = kd2
  kc = kc
  e1 = e1
  e2 = e2
  Requests = {d1, d2, c, a}
  StoreFront = {d1, d2, c}
  SignedIn = {c}
  Shoppers = {"guest", "customer", "api"}
  ShopperOf <- mcShopperOf
  Emails = {e1, e2}
  EmailOf <- mcEmailOf
  Keys = {kd1, kd2, kc}
  KeyOf <- mcKeyOf
  NoKey = NoKey
  NoOne = NoOne
  NoOrder = NoOrder
  MonthlyLimit = 2
  MaxCrashes = 1
SPECIFICATION Spec
INVARIANTS OneOrderPerShopper
