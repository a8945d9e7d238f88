CONSTANTS
  a1 = a1
  a2 = a2
  f1 = f1
  f2 = f2
  q1 = q1
  q2 = q2
  None = None
  Return = {a1, a2}
  Refund = {f1, f2}
  Request = {q1, q2}
  Bought = 2
  Price = 2
  Total = 3
  Amount <- mcAmounts
SPECIFICATION Spec
SYMMETRY Symmetry
INVARIANTS NeverOverTotal
CHECK_DEADLOCK FALSE
