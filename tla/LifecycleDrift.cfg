CONSTANTS
  o1 = o1
  o2 = o2
  customer = customer
  seller = seller
  Orders = {o1, o2}
  Parties = {customer, seller}
  Sellers <- mcSellers
  PartiesOf <- mcPartiesOf
  Total <- mcTotal
  Requests = {r1, r2}
  Goals <- mcDelivery
  InitialStatus <- mcShipped
SYMMETRY RequestSymmetry
SPECIFICATION Spec
INVARIANTS CountersMatchSales
