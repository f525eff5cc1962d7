SPECIFICATION FairSpec
CONSTANTS
  Qty = 1
  MaxEpoch = 2
  MaxCrashes = 0
  MaxInbox = 1
PROPERTIES
  CancelReachesBroker
  ReservationIsReturned
