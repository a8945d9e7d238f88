CONSTANTS
  p1 = p1
  p2 = p2
  i1 = i1
  i2 = i2
  i3 = i3
  r1 = r1
  r2 = r2
  None = None
  Product = {p1, p2}
  Item = {i1, i2, i3}
  Request = {r1, r2}
  MaxMoves = 4
  MAX_QUANTITY = 3
  Stock = 2
SPECIFICATION Spec
SYMMETRY Symmetry
INVARIANTS AbsorbsGuestCart
CHECK_DEADLOCK FALSE
