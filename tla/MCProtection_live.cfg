SPECIFICATION LiveSpec
CONSTANTS
  x1 = x1
  x2 = x2
  Quantity = 1
  Later = {x1}
  MaxExits = 1
  MaxLosses = 1
  MaxRaises = 0
  MaxRestarts = 1
PROPERTIES EventuallyCovered FlatEnds
