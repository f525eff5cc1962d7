SPECIFICATION Spec
CONSTANTS Quantity = 1
          MaxPairs = 2
          MaxRepairs = 1
          Budgets <- MCBudgets
INVARIANTS TypeOK CompleteIsFlat OnePairAtWork ProtectionIsKept OverfillDisarms
CHECK_DEADLOCK FALSE
