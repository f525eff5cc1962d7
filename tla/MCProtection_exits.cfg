SPECIFICATION Spec
CONSTANTS
  x1 = x1
  x2 = x2
  Quantity = 1
  Later = {x1, x2}
  MaxExits = 2
  MaxLosses = 0
  MaxRaises = 1
  MaxRestarts = 0
SYMMETRY Swapped
INVARIANT OneExit
