SPECIFICATION Spec
CONSTANTS
  x1 = x1
  x2 = x2
  Quantity = 2
  Later = {x1}
  MaxExits = 1
  MaxLosses = 1
  MaxRaises = 0
  MaxRestarts = 0
INVARIANTS TypeOK FlatRelease ReadyIsCovered
PROPERTY ReplacementWaits
