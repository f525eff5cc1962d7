SPECIFICATION Spec
CONSTANTS
  Qty = 2
  MaxEpoch = 1
  MaxCrashes = 1
  MaxInbox = 2
INVARIANTS
  TypeOK
  SubmittedOnce
  ReconciledIsTrue
  FinishedRowIsDead
  CancelRequestIsLatched
PROPERTY
  CapacityPromise
