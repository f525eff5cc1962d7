SPECIFICATION FairSpec
CONSTANTS
  Qty = 1
  MaxEpoch = 1
  MaxCrashes = 1
  MaxInbox = 1
PROPERTY
  PendingCancelIsRetried
