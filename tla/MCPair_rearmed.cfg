SPECIFICATION Spec
CONSTANTS Quantity = 1
          MaxPairs = 2
          MaxRepairs = 1
          Budgets <- MCRearmed
INVARIANTS ExitsDoNotCompete
CHECK_DEADLOCK FALSE
